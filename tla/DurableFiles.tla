----------------------------- MODULE DurableFiles -----------------------------
(***************************************************************************)
(* Files that must never be seen torn and must outlive the power               *)
(* (persist.go: atomicWriteJSON, syncDir, Append, WriteSnapshot).  The kernel  *)
(* keeps file data and directory entries in memory and writes either of them   *)
(* back whenever it likes, in any order; only fsync makes it do so.  Writers   *)
(* of the same path and readers interleave, any step may fail, a process may   *)
(* be killed, the power may fail.                                              *)
(*                                                                             *)
(* All the files are in one directory, transactions/<job>, that the first      *)
(* write makes.  Its own entry is in transactions/, which no write syncs: it   *)
(* is on the disk once the kernel, or the syncDir of a later rotation          *)
(* (persist.go:373), has written it back.                                      *)
(***************************************************************************)
EXTENDS Integers, Sequences

CONSTANTS
  States,     (* writes of one file that is replaced again and again          *)
  Snapshots,  (* WriteSnapshot: a new file each, and an event that names it   *)
  None

Writes == States \cup Snapshots

FilesAssumption ==
  /\ States \cap Snapshots = {} /\ States # {}
  /\ "state" \notin Writes /\ None \notin Writes

VARIABLES
  step,       (* where each write is                                          *)
  data,       (* its file: none, empty, part or whole                         *)
  stable,     (* the same, as far as the disk has it                          *)
  names,      (* per path: the write whose file is there                      *)
  entries,    (* the same, as far as the disk has it                          *)
  events,     (* snapshots the timeline names                                 *)
  timeline,   (* the same, as far as the disk has it                          *)
  folder,     (* the directory: none, made in memory, or kept on the disk     *)
  order,      (* history: renames onto the replaced path                      *)
  lost        (* history: writes that were done, gone with the directory      *)
filesVars == <<step, data, stable, names, entries, events, timeline, folder, order, lost>>

Path(w) == IF w \in States THEN "state" ELSE w
PathOf == {Path(w) : w \in Writes}

FilesInit ==
  /\ step = [w \in Writes |-> "idle"]
  /\ data = [w \in Writes |-> "none"] /\ stable = [w \in Writes |-> "none"]
  /\ names = [p \in PathOf |-> None] /\ entries = [p \in PathOf |-> None]
  /\ events = {} /\ timeline = {}
  /\ folder = "none" /\ order = <<>> /\ lost = {}

-----------------------------------------------------------------------------
Goto(w, from, to) == step[w] = from /\ step' = [step EXCEPT ![w] = to]

(* MkdirAll makes the directory if it is not there.                            *)
CreateTemp(w) ==
  /\ Goto(w, "idle", "open")
  /\ folder' = IF folder = "none" THEN "made" ELSE folder
  /\ data' = [data EXCEPT ![w] = "empty"]
  /\ UNCHANGED <<stable, names, entries, events, timeline, order, lost>>

WriteSome(w) ==
  /\ step[w] = "open" /\ data[w] = "empty"
  /\ data' = [data EXCEPT ![w] = "part"]
  /\ UNCHANGED <<step, stable, names, entries, events, timeline, folder, order, lost>>
WriteRest(w) ==
  /\ data[w] = "part" /\ Goto(w, "open", "written")
  /\ data' = [data EXCEPT ![w] = "whole"]
  /\ UNCHANGED <<stable, names, entries, events, timeline, folder, order, lost>>

(* Variant: the file is not synced before it is renamed.                       *)
CloseOnly(w) ==
  /\ Goto(w, "written", "synced")
  /\ UNCHANGED <<data, stable, names, entries, events, timeline, folder, order, lost>>

SyncFile(w) ==
  /\ Goto(w, "written", "synced")
  /\ stable' = [stable EXCEPT ![w] = data[w]]
  /\ UNCHANGED <<data, names, entries, events, timeline, folder, order, lost>>

Named(w) ==
  /\ names' = [names EXCEPT ![Path(w)] = w]
  /\ order' = IF w \in States THEN Append(order, w) ELSE order

Rename(w) ==
  /\ Goto(w, "synced", "renamed")
  /\ Named(w)
  /\ UNCHANGED <<data, stable, entries, events, timeline, folder, lost>>

(* A state is done then, a snapshot still has to be recorded.                  *)
AfterName(w) == IF w \in Snapshots THEN "saved" ELSE "done"

(* Variant: the directory is not synced.                                       *)
NoSyncDir(w) ==
  /\ Goto(w, "renamed", AfterName(w))
  /\ UNCHANGED <<data, stable, names, entries, events, timeline, folder, order, lost>>

(* One fsync writes the entries of the directory, but not the entry it has in  *)
(* the one above it.                                                           *)
SyncDir(w) ==
  /\ Goto(w, "renamed", AfterName(w))
  /\ entries' = names
  /\ UNCHANGED <<data, stable, names, events, timeline, folder, order, lost>>

(* Append: one write of one line, one fsync, under the mutex of the journal.   *)
Record(w) ==
  /\ Goto(w, "saved", "recorded")
  /\ events' = events \cup {w}
  /\ UNCHANGED <<data, stable, names, entries, timeline, folder, order, lost>>
SyncTimeline(w) ==
  /\ Goto(w, "recorded", "done")
  /\ timeline' = events
  /\ UNCHANGED <<data, stable, names, entries, events, folder, order, lost>>

Live == {"open", "written", "synced", "renamed", "saved", "recorded"}

(* A step fails: the caller is told, the temporary file is removed.            *)
StepFails(w) ==
  /\ step[w] \in Live /\ step' = [step EXCEPT ![w] = "failed"]
  /\ IF step[w] \in {"open", "written", "synced"}
     THEN data' = [data EXCEPT ![w] = "none"] /\ stable' = [stable EXCEPT ![w] = "none"]
     ELSE UNCHANGED <<data, stable>>
  /\ UNCHANGED <<names, entries, events, timeline, folder, order, lost>>

-----------------------------------------------------------------------------
(* The kernel.                                                                 *)
Writeback ==
  /\ \/ \E w \in Writes : /\ stable' = [stable EXCEPT ![w] = data[w]]
                           /\ UNCHANGED <<entries, timeline, folder>>
     \/ \E p \in PathOf : /\ entries' = [entries EXCEPT ![p] = names[p]]
                           /\ UNCHANGED <<stable, timeline, folder>>
     \/ timeline' = events /\ UNCHANGED <<stable, entries, folder>>
     \/ folder = "made" /\ folder' = "kept" /\ UNCHANGED <<stable, entries, timeline>>
  /\ UNCHANGED <<step, data, names, events, order, lost>>

(* A temporary file that is left over is nobody's.  A directory whose entry is *)
(* not on the disk is gone with all that was synced in it.                     *)
PowerLoss ==
  /\ step' = [w \in Writes |-> IF step[w] \in Live THEN "failed" ELSE step[w]]
  /\ IF folder = "kept"
     THEN /\ stable' = [w \in Writes |-> IF entries[Path(w)] = w THEN stable[w] ELSE "none"]
          /\ UNCHANGED <<entries, timeline, folder, lost>>
     ELSE /\ stable' = [w \in Writes |-> "none"]
          /\ entries' = [p \in PathOf |-> None] /\ timeline' = {} /\ folder' = "none"
          /\ lost' = {w \in Writes : step[w] = "done"}
  /\ data' = stable' /\ names' = entries' /\ events' = timeline'
  /\ UNCHANGED order

FilesNext ==
  \/ \E w \in Writes :
       \/ CreateTemp(w) \/ WriteSome(w) \/ WriteRest(w) \/ SyncFile(w) \/ Rename(w)
       \/ SyncDir(w) \/ Record(w) \/ SyncTimeline(w) \/ StepFails(w)
  \/ Writeback \/ PowerLoss
FilesSpec == FilesInit /\ [][FilesNext]_filesVars

-----------------------------------------------------------------------------
(* Who reads a path reads a whole file, and so will who reads the disk after   *)
(* the power has failed at any moment (persist.go:221).                        *)
NeverTorn ==
  \A p \in PathOf :
    /\ names[p] # None => data[names[p]] = "whole"
    /\ entries[p] # None => stable[entries[p]] = "whole"

Position(w) == CHOOSE i \in 1 .. Len(order) : order[i] = w

(* What a writer was told is written is on the disk, unless a later write has  *)
(* replaced it (persist.go:254-257), or the power failed before the new        *)
(* directory's own entry, which no write syncs, was on the disk.               *)
DoneIsKept ==
  \A w \in Writes \ lost : step[w] = "done" =>
    /\ w \notin States => entries[w] = w
    /\ w \in States =>
         entries["state"] \in States /\ Position(entries["state"]) >= Position(w)

(* A timeline that names a snapshot, even one read after a power failure, names *)
(* a file that is there (persist.go:137-154).                                  *)
NamedSnapshotsExist ==
  /\ \A s \in events : names[s] = s
  /\ \A s \in timeline : entries[s] = s
=============================================================================
