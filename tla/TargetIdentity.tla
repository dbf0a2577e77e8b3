--------------------------- MODULE TargetIdentity ---------------------------
(***************************************************************************)
(* How the program knows its target again (topology.go, util.go): the list   *)
(* signs a token of what it read of a disk, the worker resolves the token,   *)
(* opens the block node, verifies the identity, removes the USB path and     *)
(* waits for it to settle.  Nothing of this is atomic: every attribute is a  *)
(* file of its own below /sys, and the kernel removes and adds devices       *)
(* between any two reads, on the same path and under the same name.          *)
(*                                                                           *)
(* The kernel gives every disk a sequence number no other disk of this boot  *)
(* has had (diskseq); a name, with its device number, and a USB devnum come  *)
(* back.  Vendor, product and serial are read and compared as devnum is and  *)
(* are left out; so is the signature: a token that verifies was signed.      *)
(***************************************************************************)
EXTENDS Integers, Sequences, FiniteSets

CONSTANTS
  Names,      (* kernel names of whole disks; each has one major:minor        *)
  Paths,      (* USB paths below /sys                                         *)
  DevNums,    (* USB device numbers                                           *)
  MaxSeq      (* bound: disks the kernel adds                                 *)

ASSUME IdentityAssumption ==
  /\ DevNums \subseteq Nat \ {0}
  /\ "" \notin Names \cup Paths

VARIABLES
  born,       (* history: what the kernel added, by sequence number           *)
  disk,       (* per name: sequence number of the disk there, 0 for none      *)
  usb,        (* per path: devnum of the device there, 0 for none             *)
  node,       (* per name: the disk udev made the nodes and links for         *)
  at,         (* where the session is                                         *)
  for,        (* what the scan is for                                         *)
  since,      (* history: disks known to the kernel when the scan began       *)
  todo,       (* names listed and not read yet; things not looked at yet      *)
  half,       (* the name being read, with its resolved USB path              *)
  entries,    (* what the scan has read                                       *)
  token,      (* the target                                                   *)
  handle      (* the disk the exclusive handle was opened on                  *)
kernelVars == <<born, disk, usb, node>>
vars == <<kernelVars, at, for, since, todo, half, entries, token, handle>>

Nothing == [name |-> "", path |-> "", seq |-> 0, dev |-> 0]

Init ==
  /\ born = <<>>
  /\ disk = [n \in Names |-> 0] /\ usb = [p \in Paths |-> 0] /\ node = [n \in Names |-> 0]
  /\ at = "idle" /\ for = "list" /\ since = 0
  /\ todo = {} /\ half = Nothing /\ entries = {}
  /\ token = Nothing /\ handle = 0

-----------------------------------------------------------------------------
(* The kernel and udev.  A USB device goes after its disks.                   *)
AttachUsb(p) ==
  /\ usb[p] = 0
  /\ \E d \in DevNums : (\A q \in Paths : usb[q] # d) /\ usb' = [usb EXCEPT ![p] = d]
  /\ UNCHANGED <<born, disk, node>>

AddDisk(n, p) ==
  /\ usb[p] # 0 /\ disk[n] = 0
  /\ born' = Append(born, [name |-> n, path |-> p, dev |-> usb[p]])
  /\ disk' = [disk EXCEPT ![n] = Len(born) + 1]
  /\ UNCHANGED <<usb, node>>

ChangeMedium(n) ==
  /\ disk[n] # 0
  /\ born' = Append(born, born[disk[n]])
  /\ disk' = [disk EXCEPT ![n] = Len(born) + 1]
  /\ UNCHANGED <<usb, node>>

RemoveDisk(n) ==
  /\ disk[n] # 0
  /\ disk' = [disk EXCEPT ![n] = 0]
  /\ UNCHANGED <<born, usb, node>>

DetachUsb(p) ==
  /\ usb[p] # 0
  /\ \A n \in Names : disk[n] # 0 => born[disk[n]].path # p
  /\ usb' = [usb EXCEPT ![p] = 0]
  /\ UNCHANGED <<born, disk, node>>

UdevFollows(n) ==
  /\ node[n] # disk[n]
  /\ node' = [node EXCEPT ![n] = disk[n]]
  /\ UNCHANGED <<born, disk, usb>>

KernelStep ==
  /\ Len(born) < MaxSeq
  /\ \/ \E n \in Names, p \in Paths : AddDisk(n, p)
     \/ \E n \in Names : ChangeMedium(n)
KernelActs ==
  /\ \/ KernelStep
     \/ \E p \in Paths : AttachUsb(p) \/ DetachUsb(p)
     \/ \E n \in Names : RemoveDisk(n) \/ UdevFollows(n)
  /\ UNCHANGED <<at, for, since, todo, half, entries, token, handle>>

-----------------------------------------------------------------------------
(* readTopology.                                                              *)

(* A scan begins with the listing of class/block.  A session lists once, then *)
(* resolves twice, opens, verifies; or, after it failed, resolves once more   *)
(* for the rollback.                                                          *)
NextScan == [idle |-> {"list"}, listed |-> {"resolve"},
             resolved |-> {"resolve", "rollback"}, opened |-> {"verify"}]

StartScan(purpose) ==
  /\ at \in DOMAIN NextScan /\ purpose \in NextScan[at]
  /\ at' = "scan" /\ for' = purpose
  /\ since' = Len(born)
  /\ todo' = {n \in Names : disk[n] # 0}
  /\ half' = Nothing /\ entries' = {}
  /\ UNCHANGED <<kernelVars, token, handle>>

(* EvalSymlinks and the walk up to the USB device; a name that is gone is     *)
(* passed over.                                                               *)
ReadPath ==
  /\ at = "scan" /\ half = Nothing
  /\ \E n \in todo :
       /\ todo' = todo \ {n}
       /\ half' = IF disk[n] = 0 THEN Nothing
                  ELSE [Nothing EXCEPT !.name = n, !.path = born[disk[n]].path]
  /\ UNCHANGED <<kernelVars, at, for, since, entries, token, handle>>

(* dev, then diskseq, each through the name again: without dev the name is    *)
(* passed over, and diskseq may be gone by the time it is read.               *)
ReadAttributes ==
  /\ at = "scan" /\ half # Nothing
  /\ \/ entries' = entries \cup {[half EXCEPT !.seq = disk[half.name]]}
     \/ disk[half.name] = 0 /\ UNCHANGED entries
  /\ half' = Nothing
  /\ UNCHANGED <<kernelVars, at, for, since, todo, token, handle>>

-----------------------------------------------------------------------------
(* What is made of a scan.                                                    *)
Scanned(purpose) == at = "scan" /\ for = purpose /\ todo = {} /\ half = Nothing
Stop(step) ==
  /\ at' = step /\ todo' = {} /\ entries' = {} /\ half' = Nothing
  /\ UNCHANGED <<kernelVars, for, since>>

(* Discover with makeDevice and encodeToken: the attributes of the USB device *)
(* are read when the scan is over.                                            *)
List ==
  /\ Scanned("list")
  /\ \E e \in entries : token' = [e EXCEPT !.dev = usb[e.path]]
  /\ Stop("listed")
  /\ UNCHANGED handle

Roots(path) == {e \in entries : e.path = path}

(* Variant: a disk is known by its name and its place.                        *)
SameBlockPlace(e) == e.name = token.name /\ e.path = token.path

SameBlock(e) ==
  e.name = token.name /\ e.path = token.path /\ e.seq # 0 /\ e.seq = token.seq

SameUsb == usb[token.path] # 0 /\ usb[token.path] = token.dev

(* Variant: other disks of the USB device are not looked for.                 *)
SingleAmong == \E e \in Roots(token.path) : SameBlock(e)

(* verifyUSBRootSet, and multi_lun_usb of the resolution: the target is the   *)
(* only whole disk of its USB device.                                         *)
Single == \E e \in entries : SameBlock(e) /\ Roots(token.path) = {e}

(* InspectToken, and the reasons that refuse a device; the same comparison    *)
(* once more, with the token's exact device, for the rollback.                *)
Resolve ==
  /\ Scanned("resolve") \/ Scanned("rollback")
  /\ Single /\ SameUsb
  /\ Stop(IF for = "resolve" THEN "resolved" ELSE "rollback_approved")
  /\ UNCHANGED <<token, handle>>

(* The node is opened by its name, whatever disk has it by now.               *)
OpenHandle ==
  /\ at = "resolved" /\ disk[token.name] # 0
  /\ handle' = disk[token.name]
  /\ Stop("opened")
  /\ UNCHANGED token

(* Variant: the handle's device number is taken for proof of its disk.        *)
VerifyNumber ==
  /\ Scanned("verify")
  /\ at' = "verify_usb"
  /\ UNCHANGED <<kernelVars, for, since, todo, half, entries, token, handle>>

(* verifyStableIdentity, as far as the entries go; the handle's device number *)
(* is that of the name.                                                       *)
VerifyBlock ==
  /\ Scanned("verify") /\ Single
  /\ at' = "verify_usb"
  /\ UNCHANGED <<kernelVars, for, since, todo, half, entries, token, handle>>

VerifyUsb ==
  /\ at = "verify_usb" /\ SameUsb
  /\ Stop("verified")
  /\ UNCHANGED <<token, handle>>

(* Every comparison that fails ends the session, except that the failed       *)
(* worker may still roll back before it has opened the node.                  *)
Refuse ==
  /\ \/ \E purpose \in {"resolve", "rollback", "verify"} :
          Scanned(purpose) /\ ~(Single /\ SameUsb)
     \/ Scanned("list") /\ entries = {}
     \/ at = "verify_usb" /\ ~SameUsb
     \/ at = "resolved" /\ disk[token.name] = 0
  /\ Stop("refused")
  /\ UNCHANGED <<token, handle>>

-----------------------------------------------------------------------------
(* Removal and waitForRemoval: one look after the other, all over again when  *)
(* anything is still there.                                                   *)
Looks == {"usb", "class", "node"}
Rank == [usb |-> 1, class |-> 2, node |-> 3]
Remains(look) == CASE look = "usb"   -> usb[token.path] # 0
                   [] look = "class" -> disk[token.name] # 0
                   [] look = "node"  -> node[token.name] # 0

WriteRemove ==
  /\ at = "verified"
  /\ at' = "settle" /\ todo' = Looks
  /\ UNCHANGED <<kernelVars, for, since, half, entries, token, handle>>

(* Variant: the wait does not start over when something is still there.        *)
LookOnce ==
  /\ at = "settle"
  /\ \E look \in todo : todo' = todo \ {look}
  /\ UNCHANGED <<kernelVars, at, for, since, half, entries, token, handle>>

Look ==
  /\ at = "settle"
  /\ \E look \in todo :
       /\ \A other \in todo : Rank[look] <= Rank[other]
       /\ todo' = IF Remains(look) THEN Looks ELSE todo \ {look}
  /\ UNCHANGED <<kernelVars, at, for, since, half, entries, token, handle>>

Settled ==
  /\ at = "settle" /\ todo = {}
  /\ Stop("settled")
  /\ UNCHANGED <<token, handle>>

SettleTimeout ==
  /\ at = "settle"
  /\ Stop("refused")
  /\ UNCHANGED <<token, handle>>

SessionActs ==
  \/ \E purpose \in {"list", "resolve", "rollback", "verify"} : StartScan(purpose)
  \/ ReadPath \/ ReadAttributes
  \/ List \/ Resolve \/ OpenHandle \/ VerifyBlock \/ VerifyUsb \/ Refuse
  \/ WriteRemove \/ Look \/ Settled \/ SettleTimeout

Next == KernelActs \/ SessionActs
Spec == Init /\ [][Next]_vars

-----------------------------------------------------------------------------
Identified == {"resolved", "rollback_approved", "opened", "verify_usb", "verified",
               "settle", "settled"}

(* A token may be a chimera, the path of one disk with the number of the      *)
(* next, when the list was read while devices changed.  None is ever          *)
(* resolved, rolled back or verified (topology.go:78, 99; eject.go:490): the  *)
(* fields of an identified token belonged to one disk of the kernel.          *)
Genuine ==
  at \in Identified =>
    /\ token.seq \in 1 .. Len(born)
    /\ born[token.seq] = [name |-> token.name, path |-> token.path, dev |-> token.dev]

(* The exclusive handle is opened by name, long after the token was resolved, *)
(* and asked for its device number alone, which a new disk of that name has   *)
(* too (topology.go:150-165).  Once the identity is verified, it is the       *)
(* target's own: what it keeps from being mounted is what will be removed.    *)
HandleIsTarget ==
  at \in {"verify_usb", "verified", "settle", "settled"} => handle = token.seq

(* A second disk of the same USB device would be torn off with the target     *)
(* (topology.go:170): none that was there when the verification listed the    *)
(* disks is still there, unopened, when it passes.                            *)
NoSiblingOverlooked ==
  at \in {"verify_usb", "verified"} =>
    \A n \in Names : disk[n] \in 1 .. since /\ born[disk[n]].path = token.path
                       => disk[n] = token.seq

(* When the wait for the removal is over, the target is gone from the kernel  *)
(* and from udev, its USB device included, although each was looked at on its *)
(* own and other devices may have come in the meantime (platform.go:47-74).   *)
SettledIsGone ==
  at = "settled" =>
    /\ \A n \in Names : disk[n] # token.seq /\ node[n] # token.seq
    /\ \A n \in Names : disk[n] # 0 => disk[n] > token.seq \/ born[disk[n]].path # token.path
=============================================================================
