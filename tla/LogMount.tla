------------------------------- MODULE LogMount -------------------------------
(***************************************************************************)
(* May the log directory on the boot flash be written (logmount.go)?  The      *)
(* program judges by the text of its mount table, where a mount that another   *)
(* hides looks like any other; the kernel resolves a path along the mounts     *)
(* that are attached to one another.  The table is built here by mount and     *)
(* umount, in any order, and the judgement compared with the resolution.       *)
(***************************************************************************)
EXTENDS Integers, Sequences, SequencesExt

CONSTANTS
  Points,     (* paths something may be mounted on, as sequences of names     *)
  LogDir,     (* /boot/config/... as a sequence of names                      *)
  MaxMounts   (* bound: mounts besides that of the root directory             *)

(* The check is made for a directory below /boot only.                         *)
MountAssumption ==
  /\ Points \subseteq Seq(STRING) /\ LogDir \in Points /\ <<"boot">> \in Points
  /\ IsPrefix(<<"boot">>, LogDir)

(* What the judgement reads of a mount.                                        *)
Kinds == {"flash", "flash_ro", "flash_subdir", "other"}

VARIABLES
  table,      (* mounts in the order they were made: path, kind, parent       *)
  at          (* what is judged of this very table, if it is                  *)
mountVars == <<table, at>>

(* cleanLinuxPath is left out: a path is its names.                            *)
AtOrBelow(path, parent) == IsPrefix(parent, path)

-----------------------------------------------------------------------------
(* The kernel.  The mount a path leads to: at each name step down, then onto   *)
(* whatever is mounted there on what was reached so far, the last on top.      *)
Attached(mounts, m, point) ==
  {i \in 1 .. Len(mounts) : mounts[i].parent = m /\ mounts[i].point = point}
Onto(mounts, m, point) ==
  LET up[k \in 0 .. Len(mounts)] ==
        IF k = 0 THEN m
        ELSE LET here == up[k - 1]
                 next == Attached(mounts, here, point)
             IN  IF next = {} THEN here ELSE CHOOSE i \in next : \A j \in next : i >= j
  IN  up[Len(mounts)]
Resolve(mounts, path) ==
  LET walk[k \in 0 .. Len(path)] ==
        IF k = 0 THEN 0 ELSE Onto(mounts, walk[k - 1], SubSeq(path, 1, k))
  IN  walk[Len(path)]

Mount(point, kind) ==
  /\ Len(table) < MaxMounts
  /\ table' = Append(table, [point |-> point, kind |-> kind, parent |-> Resolve(table, point)])

(* A mount on which another is mounted is busy.                                *)
Unmount(i) ==
  /\ \A j \in 1 .. Len(table) : table[j].parent # i
  /\ table' = LET rest == RemoveAt(table, i)
              IN  [j \in 1 .. Len(rest) |->
                     [rest[j] EXCEPT !.parent = IF @ > i THEN @ - 1 ELSE @]]

-----------------------------------------------------------------------------
(* verifyPersistentLogMount.                                                   *)
BootMounts(mounts) == {i \in 1 .. Len(mounts) : mounts[i].point = <<"boot">>}

(* Variant: any /boot mount will do.                                           *)
SomeBoot(mounts) == \E i \in BootMounts(mounts) : mounts[i].kind = "flash"

(* One /boot mount: writable, FAT, of the root of a block device.              *)
OneBoot(mounts) == \E i \in BootMounts(mounts) : BootMounts(mounts) = {i} /\ mounts[i].kind = "flash"

(* Variant: any mount below /boot is taken for one in the way.                 *)
BelowBoot(point) == point # <<"boot">> /\ AtOrBelow(point, <<"boot">>)

Overlaps(point) ==
  /\ point # <<"boot">> /\ AtOrBelow(point, <<"boot">>)
  /\ AtOrBelow(LogDir, point) \/ AtOrBelow(point, LogDir)

Verified(mounts) ==
  OneBoot(mounts) /\ \A i \in 1 .. Len(mounts) : ~Overlaps(mounts[i].point)

MountInit == table = <<>> /\ at = "idle"

MountsChange ==
  /\ \/ \E point \in Points, kind \in Kinds : Mount(point, kind)
     \/ \E i \in 1 .. Len(table) : Unmount(i)
  /\ at' = "idle"
Verify ==
  /\ at' = IF Verified(table) THEN "verified" ELSE "refused"
  /\ UNCHANGED table
MountNext == MountsChange \/ Verify
MountSpec == MountInit /\ [][MountNext]_mountVars

-----------------------------------------------------------------------------
LogPaths == {p \in Points : AtOrBelow(p, LogDir)}
KindAt(mounts, path) ==
  LET m == Resolve(mounts, path) IN IF m = 0 THEN "root" ELSE mounts[m].kind

(* When the log directory is accepted, it and all below it leads to the boot   *)
(* flash, whatever else is mounted, hidden or stacked (logmount.go:30).        *)
VerifiedIsFlash ==
  at = "verified" => \A p \in LogPaths : KindAt(table, p) = "flash"

(* And the check does not go further than it must: what is refused either does *)
(* not lead there, or is so only because of a mount another one hides.         *)
Hidden(mounts) == {i \in 1 .. Len(mounts) : Resolve(mounts, mounts[i].point) # i}
RefusedForCause ==
  at = "refused" /\ Hidden(table) = {} =>
    \E p \in LogPaths \cup {SubSeq(LogDir, 1, k) : k \in 1 .. Len(LogDir)} :
      KindAt(table, p) # "flash" \/ Resolve(table, p) # Resolve(table, <<"boot">>)
=============================================================================
