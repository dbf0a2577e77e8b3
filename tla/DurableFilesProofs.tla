------------------------- MODULE DurableFilesProofs -------------------------
(***************************************************************************)
(* The log directory, for any number of writers: files are whole, named       *)
(* snapshots exist and what is done is kept once the directory itself is,     *)
(* through failures and losses of power at any step (DurableFiles), and an    *)
(* accepted log directory is on the boot flash, for any table of mounts       *)
(* (LogMount).                                                                *)
(***************************************************************************)
EXTENDS DurableFiles, LogMount, WellFoundedInduction, TLAPS

Contents == {"none", "empty", "part", "whole"}
Placed == {"renamed", "saved", "recorded", "done"}

Typed ==
  /\ step \in [Writes -> {"idle", "done", "failed"} \cup Live]
  /\ data \in [Writes -> Contents] /\ stable \in [Writes -> Contents]
  /\ names \in [PathOf -> Writes \cup {None}] /\ entries \in [PathOf -> Writes \cup {None}]
  /\ events \subseteq Snapshots /\ timeline \subseteq Snapshots
  /\ folder \in {"none", "made", "kept"} /\ order \in Seq(States) /\ lost \subseteq Writes
  /\ \A w \in Writes : step[w] \in {"saved", "recorded"} => w \in Snapshots

(* A file is whole before it is synced, and synced before it is named; the    *)
(* name is its own, and so is that of the disk.                               *)
WholeFirst ==
  /\ \A w \in Writes : /\ step[w] = "written" => data[w] = "whole"
                       /\ step[w] = "synced" => data[w] = "whole" /\ stable[w] = "whole"
  /\ \A p \in PathOf :
       /\ names[p] # None =>
            /\ Path(names[p]) = p /\ step[names[p]] \in Placed \cup {"failed"}
            /\ data[names[p]] = "whole" /\ stable[names[p]] = "whole"
       /\ entries[p] # None =>
            /\ Path(entries[p]) = p /\ step[entries[p]] \in Placed \cup {"failed"}
            /\ data[entries[p]] = "whole" /\ stable[entries[p]] = "whole"

(* A file with a path of its own stays there, on the disk once the directory  *)
(* is synced; only then is a snapshot recorded.  Both end when the directory   *)
(* goes, and what was done by then is lost.                                    *)
OwnPath ==
  /\ \A w \in Writes \ (States \cup lost) :
       /\ step[w] \in Placed => names[w] = w
       /\ step[w] \in Placed \ {"renamed"} => entries[w] = w
  /\ \A s \in events \cup timeline : names[s] = s /\ entries[s] = s
  /\ \A w \in lost : step[w] = "done"

(* Each state is renamed once; the disk is never ahead of the memory, nor     *)
(* behind what a writer was told.                                             *)
Ranked(w) == \E i \in 1 .. Len(order) : order[i] = w
Before(v, w) == \A i, j \in 1 .. Len(order) : order[i] = v /\ order[j] = w => i <= j
InOrder ==
  /\ \A i, j \in 1 .. Len(order) : order[i] = order[j] => i = j
  /\ \A w \in States : /\ Ranked(w) => step[w] \in {"renamed", "done", "failed"}
                       /\ step[w] \in {"renamed", "done"} => Ranked(w)
  /\ names["state"] # None => names["state"] \in States /\ Ranked(names["state"])
  /\ entries["state"] # None =>
       /\ entries["state"] \in States /\ Ranked(entries["state"])
       /\ names["state"] # None /\ Before(entries["state"], names["state"])
  /\ \A w \in States :
       /\ step[w] = "renamed" => names["state"] # None /\ Before(w, names["state"])
       /\ step[w] = "done" /\ w \notin lost =>
            entries["state"] # None /\ Before(w, entries["state"])

FilesInv == Typed /\ WholeFirst /\ OwnPath /\ InOrder

-----------------------------------------------------------------------------
(* Paths.                                                                     *)

LEMMA Paths ==
  ASSUME FilesAssumption
  PROVE  /\ "state" \in PathOf /\ \A w \in Writes : Path(w) \in PathOf
         /\ \A w \in States : Path(w) = "state" /\ w \in Writes
         /\ \A w \in Writes \ States : Path(w) = w /\ w # "state" /\ w \in PathOf
         /\ \A v, w \in Writes : Path(v) = Path(w) => v = w \/ (v \in States /\ w \in States)
         /\ Snapshots \subseteq Writes \ States /\ None \notin Writes
BY DEF FilesAssumption, PathOf, Path, Writes

(* What a step does to the state of one write.                                *)
LEMMA Gone ==
  ASSUME Typed, NEW w \in Writes, NEW from, NEW to, Goto(w, from, to)
  PROVE  /\ step[w] = from
         /\ \A v \in Writes : step'[v] = IF v = w THEN to ELSE step[v]
BY DEF Typed, Goto

LEMMA FilesBegin == FilesAssumption /\ FilesInit => FilesInv
<1> SUFFICES ASSUME FilesAssumption, FilesInit PROVE FilesInv
  OBVIOUS
<1>1. order = <<>> /\ Len(order) = 0
  BY DEF FilesInit
<1>2. Typed
  BY <1>1 DEF FilesInit, Typed, Contents
<1>3. WholeFirst /\ OwnPath
  BY Paths DEF FilesInit, WholeFirst, OwnPath, Placed
<1>4. InOrder
  BY <1>1, Paths DEF FilesInit, InOrder, Ranked
<1> QED BY <1>2, <1>3, <1>4 DEF FilesInv

LEMMA TypedStep == FilesAssumption /\ Typed /\ [FilesNext]_filesVars => Typed'
<1> SUFFICES ASSUME FilesAssumption, Typed, [FilesNext]_filesVars PROVE Typed'
  OBVIOUS
<1> USE Paths DEF Typed, Contents, Live
<1>1. ASSUME NEW w \in Writes, CreateTemp(w) PROVE Typed'
  BY <1>1 DEF CreateTemp, Goto
<1>2. ASSUME NEW w \in Writes, WriteSome(w) PROVE Typed'
  BY <1>2 DEF WriteSome
<1>3. ASSUME NEW w \in Writes, WriteRest(w) PROVE Typed'
  BY <1>3 DEF WriteRest, Goto
<1>4. ASSUME NEW w \in Writes, SyncFile(w) PROVE Typed'
  BY <1>4 DEF SyncFile, Goto
<1>5. ASSUME NEW w \in Writes, Rename(w) PROVE Typed'
  <2>1. order' \in Seq(States)
    BY <1>5 DEF Rename, Named
  <2> QED BY <1>5, <2>1 DEF Rename, Named, Goto
<1>6. ASSUME NEW w \in Writes, SyncDir(w) PROVE Typed'
  BY <1>6 DEF SyncDir, Goto, AfterName
<1>7. ASSUME NEW w \in Writes, Record(w) \/ SyncTimeline(w) PROVE Typed'
  BY <1>7 DEF Record, SyncTimeline, Goto
<1>8. ASSUME NEW w \in Writes, StepFails(w) PROVE Typed'
  BY <1>8, ZenonT(60) DEF StepFails
<1>9. CASE Writeback
  BY <1>9 DEF Writeback
<1>10. CASE PowerLoss
  BY <1>10 DEF PowerLoss
<1>11. CASE UNCHANGED filesVars
  BY <1>11 DEF filesVars
<1> QED BY <1>1, <1>2, <1>3, <1>4, <1>5, <1>6, <1>7, <1>8, <1>9, <1>10, <1>11 DEF FilesNext

LEMMA WholeStep ==
  ASSUME FilesAssumption, Typed, WholeFirst, [FilesNext]_filesVars
  PROVE  WholeFirst'
<1> USE Paths DEF WholeFirst, Placed, Live
<1>0. /\ \A p \in PathOf : names[p] # None => names[p] \in Writes
      /\ \A p \in PathOf : entries[p] # None => entries[p] \in Writes
  BY DEF Typed
<1>1. ASSUME NEW w \in Writes, UNCHANGED <<names, entries>>,
             \A v \in Writes : v # w => step'[v] = step[v] /\ data'[v] = data[v] /\ stable'[v] = stable[v],
             step[w] \notin Placed \cup {"failed"},
             step'[w] = "written" => data'[w] = "whole",
             step'[w] = "synced" => data'[w] = "whole" /\ stable'[w] = "whole"
      PROVE  WholeFirst'
  <2>1. \A p \in PathOf : names[p] # w /\ entries[p] # w
    BY <1>0, <1>1
  <2> QED BY <1>0, <1>1, <2>1
<1>2. ASSUME UNCHANGED <<data, stable, names, entries>>, NEW w \in Writes,
             \A v \in Writes : v # w => step'[v] = step[v],
             step[w] \in Placed, step'[w] \in Placed \cup {"failed"}
      PROVE  WholeFirst'
  BY <1>0, <1>2
<1>3. ASSUME NEW w \in Writes, CreateTemp(w) PROVE WholeFirst'
  <2>1. /\ step[w] = "idle" /\ \A v \in Writes : step'[v] = IF v = w THEN "open" ELSE step[v]
        /\ UNCHANGED <<names, entries, stable>>
        /\ \A v \in Writes : v # w => data'[v] = data[v]
    BY <1>3, Gone DEF CreateTemp, Typed
  <2> QED BY <1>1, <2>1
<1>4. ASSUME NEW w \in Writes, WriteSome(w) PROVE WholeFirst'
  BY <1>1, <1>4 DEF WriteSome, Typed
<1>5. ASSUME NEW w \in Writes, WriteRest(w) PROVE WholeFirst'
  BY <1>1, <1>5, Gone DEF WriteRest, Typed
<1>6. ASSUME NEW w \in Writes, SyncFile(w) PROVE WholeFirst'
  BY <1>1, <1>6, Gone DEF SyncFile, Typed
<1>7. ASSUME NEW w \in Writes, Rename(w) PROVE WholeFirst'
  <2>1. /\ step[w] = "synced" /\ \A v \in Writes : step'[v] = IF v = w THEN "renamed" ELSE step[v]
        /\ UNCHANGED <<data, stable, entries>>
        /\ \A p \in PathOf : names'[p] = IF p = Path(w) THEN w ELSE names[p]
    BY <1>7, Gone DEF Rename, Named, Typed
  <2> QED BY <1>0, <2>1
<1>8. ASSUME NEW w \in Writes, SyncDir(w) PROVE WholeFirst'
  <2>1. /\ step[w] = "renamed" /\ \A v \in Writes : step'[v] = IF v = w THEN AfterName(w) ELSE step[v]
        /\ UNCHANGED <<data, stable, names>> /\ entries' = names
    BY <1>8, Gone DEF SyncDir
  <2> QED BY <1>0, <2>1 DEF AfterName
<1>9. ASSUME NEW w \in Writes, Record(w) \/ SyncTimeline(w) PROVE WholeFirst'
  BY <1>2, <1>9, Gone DEF Record, SyncTimeline
<1>10. ASSUME NEW w \in Writes, StepFails(w) PROVE WholeFirst'
  <2>1. CASE step[w] \in {"open", "written", "synced"}
    BY <1>1, <1>10, <2>1 DEF StepFails, Typed
  <2>2. CASE step[w] \notin {"open", "written", "synced"}
    BY <1>2, <1>10, <2>2 DEF StepFails, Typed
  <2> QED BY <2>1, <2>2
<1>11. CASE Writeback
  <2>1. UNCHANGED <<step, data, names>>
    BY <1>11 DEF Writeback
  <2>2. CASE \E w \in Writes : stable' = [stable EXCEPT ![w] = data[w]] /\ entries' = entries
    BY <1>0, <2>1, <2>2 DEF Typed
  <2>3. CASE \E p \in PathOf : entries' = [entries EXCEPT ![p] = names[p]] /\ stable' = stable
    BY <1>0, <2>1, <2>3 DEF Typed
  <2>4. CASE UNCHANGED <<stable, entries>>
    BY <2>1, <2>4
  <2> QED BY <1>11, <2>2, <2>3, <2>4 DEF Writeback
<1>12. CASE PowerLoss
  <2>1. /\ \A v \in Writes : step'[v] = IF step[v] \in Live THEN "failed" ELSE step[v]
        /\ data' = stable' /\ names' = entries'
    BY <1>12 DEF PowerLoss
  <2>2. \A v \in Writes : step'[v] \notin {"written", "synced"}
    BY <2>1
  <2>3. CASE folder = "kept"
    <3>1. /\ \A v \in Writes : stable'[v] = IF entries[Path(v)] = v THEN stable[v] ELSE "none"
          /\ entries' = entries
      BY <1>12, <2>3 DEF PowerLoss
    <3>2. ASSUME NEW p \in PathOf, entries[p] # None
          PROVE  /\ Path(entries[p]) = p /\ step'[entries[p]] \in Placed \cup {"failed"}
                 /\ stable'[entries[p]] = "whole"
      BY <1>0, <2>1, <3>1, <3>2
    <3> QED BY <2>1, <2>2, <3>1, <3>2
  <2>4. CASE folder # "kept"
    <3>1. \A p \in PathOf : entries'[p] = None
      BY <1>12, <2>4 DEF PowerLoss
    <3> QED BY <2>1, <2>2, <3>1
  <2> QED BY <2>3, <2>4
<1>13. CASE UNCHANGED filesVars
  BY <1>13 DEF filesVars
<1> QED BY <1>3, <1>4, <1>5, <1>6, <1>7, <1>8, <1>9, <1>10, <1>11, <1>12, <1>13 DEF FilesNext

LEMMA OwnStep ==
  ASSUME FilesAssumption, Typed, OwnPath, [FilesNext]_filesVars
  PROVE  OwnPath'
<1>0. lost \subseteq Writes
  BY DEF Typed
<1> USE <1>0, Paths DEF OwnPath, Placed, Live
<1>1. ASSUME NEW w \in Writes, UNCHANGED <<names, entries, events, timeline, lost>>,
             \A v \in Writes : v # w => step'[v] = step[v],
             step[w] # "done",
             \/ step'[w] \notin Placed
             \/ step[w] \in Placed \ {"renamed"}
      PROVE  OwnPath'
  BY <1>1
<1>2. ASSUME NEW w \in Writes, CreateTemp(w) PROVE OwnPath'
  BY <1>1, <1>2, Gone DEF CreateTemp
<1>3. ASSUME NEW w \in Writes, WriteSome(w) PROVE OwnPath'
  BY <1>3 DEF WriteSome
<1>4. ASSUME NEW w \in Writes, WriteRest(w) PROVE OwnPath'
  BY <1>1, <1>4, Gone DEF WriteRest
<1>5. ASSUME NEW w \in Writes, SyncFile(w) PROVE OwnPath'
  BY <1>1, <1>5, Gone DEF SyncFile
<1>6. ASSUME NEW w \in Writes, Rename(w) PROVE OwnPath'
  <2>1. /\ step[w] = "synced" /\ \A v \in Writes : step'[v] = IF v = w THEN "renamed" ELSE step[v]
        /\ UNCHANGED <<entries, events, timeline, lost>>
        /\ \A p \in PathOf : names'[p] = IF p = Path(w) THEN w ELSE names[p]
    BY <1>6, Gone DEF Rename, Named, Typed
  <2>2. \A v \in Writes \ States : v # w => names'[v] = names[v]
    BY <2>1
  <2>3. w \notin States => names'[w] = w
    BY <2>1
  <2>4. \A s \in events \cup timeline : s \in Writes \ States
    BY DEF Typed
  <2> QED BY <2>1, <2>2, <2>3, <2>4
<1>7. ASSUME NEW w \in Writes, SyncDir(w) PROVE OwnPath'
  <2>1. /\ step[w] = "renamed" /\ \A v \in Writes : step'[v] = IF v = w THEN AfterName(w) ELSE step[v]
        /\ UNCHANGED <<names, events, timeline, lost>> /\ entries' = names
    BY <1>7, Gone DEF SyncDir
  <2> QED BY <2>1 DEF AfterName
<1>8. ASSUME NEW w \in Writes, Record(w) PROVE OwnPath'
  <2>1. /\ step[w] = "saved" /\ \A v \in Writes : step'[v] = IF v = w THEN "recorded" ELSE step[v]
        /\ UNCHANGED <<names, entries, timeline, lost>> /\ events' = events \cup {w}
    BY <1>8, Gone DEF Record
  <2>2. w \in Writes \ States
    BY <2>1 DEF Typed
  <2> QED BY <2>1, <2>2
<1>9. ASSUME NEW w \in Writes, SyncTimeline(w) PROVE OwnPath'
  <2>1. /\ step[w] = "recorded" /\ \A v \in Writes : step'[v] = IF v = w THEN "done" ELSE step[v]
        /\ UNCHANGED <<names, entries, events, lost>> /\ timeline' = events
    BY <1>9, Gone DEF SyncTimeline
  <2> QED BY <2>1
<1>10. ASSUME NEW w \in Writes, StepFails(w) PROVE OwnPath'
  BY <1>1, <1>10 DEF StepFails, Typed
<1>11. CASE Writeback
  <2>1. UNCHANGED <<step, names, events, lost>>
    BY <1>11 DEF Writeback
  <2>2. CASE UNCHANGED <<entries, timeline>>
    BY <2>1, <2>2
  <2>3. CASE \E p \in PathOf : entries' = [entries EXCEPT ![p] = names[p]] /\ timeline' = timeline
    <3>1. \A p \in PathOf : entries'[p] = names[p] \/ entries'[p] = entries[p]
      BY <2>3 DEF Typed
    <3>2. \A s \in events \cup timeline : s \in Writes \ States
      BY DEF Typed
    <3> QED BY <2>1, <2>3, <3>1, <3>2
  <2>4. CASE timeline' = events /\ entries' = entries
    BY <2>1, <2>4
  <2> QED BY <1>11, <2>2, <2>3, <2>4 DEF Writeback
<1>12. CASE PowerLoss
  <2>1. \A v \in Writes : step'[v] = IF step[v] \in Live THEN "failed" ELSE step[v]
    BY <1>12 DEF PowerLoss
  <2>2. CASE folder = "kept"
    <3>1. /\ names' = entries /\ entries' = entries /\ events' = timeline /\ timeline' = timeline
          /\ lost' = lost
      BY <1>12, <2>2 DEF PowerLoss
    <3> QED BY <2>1, <3>1
  <2>3. CASE folder # "kept"
    <3>1. events' = {} /\ timeline' = {} /\ lost' = {w \in Writes : step[w] = "done"}
      BY <1>12, <2>3 DEF PowerLoss
    <3> QED BY <2>1, <3>1
  <2> QED BY <2>2, <2>3
<1>13. CASE UNCHANGED filesVars
  BY <1>13 DEF filesVars
<1> QED BY <1>2, <1>3, <1>4, <1>5, <1>6, <1>7, <1>8, <1>9, <1>10, <1>11, <1>12, <1>13 DEF FilesNext

LEMMA OrderStep ==
  ASSUME FilesAssumption, Typed, WholeFirst, InOrder, [FilesNext]_filesVars
  PROVE  InOrder'
<1> USE Paths
<1>0. "state" \in PathOf
  OBVIOUS
<1>a. ASSUME order' = order
      PROVE  \A v, w : (Ranked(v)' <=> Ranked(v)) /\ (Before(v, w)' <=> Before(v, w))
  BY <1>a DEF Ranked, Before
<1>b. ASSUME NEW v, NEW w, NEW x, Ranked(w), Before(v, w), Before(w, x) PROVE Before(v, x)
  <2>1. Len(order) \in Nat
    BY DEF Typed
  <2> QED BY <1>b, <2>1 DEF Ranked, Before
<1>1. ASSUME UNCHANGED <<order, names, entries, lost>>,
             \A w \in States : \/ step'[w] = step[w]
                               \/ step[w] \notin {"renamed", "done", "failed"}
                                    /\ step'[w] \notin {"renamed", "done"}
                               \/ step'[w] = "failed"
      PROVE  InOrder'
  BY <1>a, <1>1 DEF InOrder
<1>2. ASSUME NEW w \in Writes, CreateTemp(w) \/ WriteRest(w) \/ SyncFile(w) PROVE InOrder'
  BY <1>1, <1>2, Gone DEF CreateTemp, WriteRest, SyncFile
<1>3. ASSUME NEW w \in Writes, WriteSome(w) PROVE InOrder'
  BY <1>1, <1>3 DEF WriteSome
<1>4. ASSUME NEW w \in Writes, Rename(w) PROVE InOrder'
  <2>1. /\ step[w] = "synced" /\ \A v \in Writes : step'[v] = IF v = w THEN "renamed" ELSE step[v]
        /\ entries' = entries /\ lost' = lost
        /\ \A p \in PathOf : names'[p] = IF p = Path(w) THEN w ELSE names[p]
        /\ order' = IF w \in States THEN Append(order, w) ELSE order
    BY <1>4, Gone DEF Rename, Named, Typed
  <2>2. CASE w \notin States
    <3>1. order' = order /\ names'["state"] = names["state"] /\ entries' = entries
          /\ lost' = lost
          /\ \A v \in States : step'[v] = step[v]
      BY <2>1, <2>2
    <3> QED BY <1>a, <3>1 DEF InOrder
  <2>3. CASE w \in States
    <3>1. /\ Len(order) \in Nat /\ Len(order') = Len(order) + 1
          /\ \A i \in 1 .. Len(order) : order'[i] = order[i]
          /\ order'[Len(order) + 1] = w
      BY <2>1, <2>3 DEF Typed
    <3>2. ~Ranked(w)
      BY <2>1, <2>3 DEF InOrder
    <3>3. \A v : Ranked(v)' <=> Ranked(v) \/ v = w
      BY <3>1 DEF Ranked
    <3>4. \A v, x : Before(v, x) /\ v # w /\ x # w => Before(v, x)'
      BY <3>1 DEF Before
    <3>5. \A v : Before(v, w)'
      <4> SUFFICES ASSUME NEW v, NEW i \in 1 .. Len(order'), NEW j \in 1 .. Len(order'),
                          order'[i] = v, order'[j] = w
                   PROVE  i <= j
        BY DEF Before
      <4>1. j = Len(order) + 1
        BY <3>1, <3>2 DEF Ranked
      <4> QED BY <3>1, <4>1
    <3>6. \A i, j \in 1 .. Len(order') : order'[i] = order'[j] => i = j
      <4> SUFFICES ASSUME NEW i \in 1 .. Len(order'), NEW j \in 1 .. Len(order'),
                          order'[i] = order'[j]
                   PROVE  i = j
        OBVIOUS
      <4>1. CASE i \in 1 .. Len(order) /\ j \in 1 .. Len(order)
        BY <3>1, <4>1 DEF InOrder
      <4>2. CASE i \notin 1 .. Len(order) \/ j \notin 1 .. Len(order)
        BY <3>1, <3>2, <4>2 DEF Ranked
      <4> QED BY <4>1, <4>2
    <3>7. /\ names'["state"] = w /\ w # None /\ w \in States
          /\ entries' = entries /\ \A v \in States : v # w => step'[v] = step[v]
          /\ step'[w] = "renamed"
      BY <2>1, <2>3
    <3>8. entries["state"] # None => entries["state"] # w
      BY <3>2 DEF InOrder
    <3>9. \A v \in States : v # w /\ step[v] = "done" /\ v \notin lost =>
            entries["state"] # None /\ Before(v, entries["state"])'
      BY <3>4, <3>7, <3>8 DEF InOrder
    <3>10. /\ \A v \in States : (Ranked(v) => step[v] \in {"renamed", "done", "failed"})
                                 /\ (step[v] \in {"renamed", "done"} => Ranked(v))
           /\ entries["state"] # None => entries["state"] \in States /\ Ranked(entries["state"])
      BY DEF InOrder
    <3>11. \A v \in States : (Ranked(v)' => step'[v] \in {"renamed", "done", "failed"})
                                 /\ (step'[v] \in {"renamed", "done"} => Ranked(v)')
      BY <3>3, <3>7, <3>10
    <3>12. /\ names'["state"] # None => names'["state"] \in States /\ Ranked(names["state"])'
           /\ entries'["state"] # None =>
                /\ entries'["state"] \in States /\ Ranked(entries["state"])'
                /\ names'["state"] # None /\ Before(entries["state"], names["state"])'
      BY <3>3, <3>5, <3>7, <3>10, ZenonT(60) DEF Ranked, Before
    <3>13. \A v \in States :
             /\ step'[v] = "renamed" => names'["state"] # None /\ Before(v, names["state"])'
             /\ step'[v] = "done" /\ v \notin lost' =>
                  entries'["state"] # None /\ Before(v, entries["state"])'
      <4>1. ASSUME NEW v \in States, step'[v] = "renamed"
            PROVE  names'["state"] # None /\ Before(v, names["state"])'
        BY <3>5, <3>7, <4>1 DEF Before
      <4>2. ASSUME NEW v \in States, step'[v] = "done", v \notin lost'
            PROVE  entries'["state"] # None /\ Before(v, entries["state"])'
        <5>1. v # w /\ step[v] = "done" /\ v \notin lost
          BY <2>1, <3>7, <4>2
        <5> QED BY <3>7, <3>9, <5>1
      <4> QED BY <4>1, <4>2
    <3> QED BY <3>6, <3>11, <3>12, <3>13 DEF InOrder
  <2> QED BY <2>2, <2>3
<1>5. ASSUME NEW w \in Writes, SyncDir(w) PROVE InOrder'
  <2>1. /\ step[w] = "renamed" /\ \A v \in Writes : step'[v] = IF v = w THEN AfterName(w) ELSE step[v]
        /\ UNCHANGED <<names, order, lost>> /\ entries' = names
    BY <1>5, Gone DEF SyncDir
  <2>2. \A v \in States : step'[v] = step[v] \/ (step[v] = "renamed" /\ step'[v] = "done")
    BY <2>1 DEF AfterName
  <2>3. \A v \in States : step'[v] = "done" /\ v \notin lost =>
          names["state"] # None /\ Before(v, names["state"])
    <3> SUFFICES ASSUME NEW v \in States, step'[v] = "done", v \notin lost
                 PROVE  names["state"] # None /\ Before(v, names["state"])
      OBVIOUS
    <3>1. CASE step[v] = "renamed"
      BY <3>1 DEF InOrder
    <3>2. CASE step[v] = "done"
      <4>1. Before(v, entries["state"]) /\ Ranked(entries["state"])
            /\ Before(entries["state"], names["state"]) /\ names["state"] # None
        BY <3>2 DEF InOrder
      <4> QED BY <1>b, <4>1
    <3> QED BY <2>2, <3>1, <3>2
  <2>4. names["state"] # None => Before(names["state"], names["state"])
    BY DEF InOrder, Before, Typed
  <2> QED BY <1>a, <2>1, <2>2, <2>3, <2>4, ZenonT(60) DEF InOrder
<1>6. ASSUME NEW w \in Writes, Record(w) \/ SyncTimeline(w) PROVE InOrder'
  <2>1. w \notin States
    BY <1>6, Gone DEF Record, SyncTimeline, Typed
  <2>2. \A v \in States : step'[v] = step[v]
    BY <1>6, <2>1, Gone DEF Record, SyncTimeline
  <2> QED BY <1>1, <1>6, <2>2 DEF Record, SyncTimeline
<1>7. ASSUME NEW w \in Writes, StepFails(w) PROVE InOrder'
  BY <1>1, <1>7 DEF StepFails, Typed
<1>8. CASE Writeback
  <2>1. UNCHANGED <<step, names, order, lost>>
    BY <1>8 DEF Writeback
  <2>2. CASE entries' = entries
    BY <1>1, <2>1, <2>2
  <2>3. CASE \E p \in PathOf : entries' = [entries EXCEPT ![p] = names[p]]
    <3>1. entries'["state"] = entries["state"] \/ entries'["state"] = names["state"]
      BY <2>3 DEF Typed
    <3>2. CASE entries'["state"] = entries["state"]
      BY <1>a, <2>1, <3>2 DEF InOrder
    <3>3. CASE entries'["state"] = names["state"]
      <4>1. \A v \in States : step[v] = "done" /\ v \notin lost =>
              names["state"] # None /\ Before(v, names["state"])
        <5> SUFFICES ASSUME NEW v \in States, step[v] = "done", v \notin lost
                     PROVE  names["state"] # None /\ Before(v, names["state"])
          OBVIOUS
        <5>1. Before(v, entries["state"]) /\ Ranked(entries["state"])
              /\ Before(entries["state"], names["state"]) /\ names["state"] # None
          BY DEF InOrder
        <5> QED BY <1>b, <5>1
      <4>2. names["state"] # None => Before(names["state"], names["state"])
        BY DEF InOrder, Before, Typed
      <4> QED BY <1>a, <2>1, <3>3, <4>1, <4>2 DEF InOrder
    <3> QED BY <3>1, <3>2, <3>3
  <2> QED BY <1>8, <2>2, <2>3 DEF Writeback
<1>9. CASE PowerLoss
  <2>1. /\ \A v \in Writes : step'[v] = IF step[v] \in Live THEN "failed" ELSE step[v]
        /\ order' = order
    BY <1>9 DEF PowerLoss
  <2>2. \A v \in States : /\ step'[v] # "renamed" /\ (step'[v] = "done" <=> step[v] = "done")
                          /\ (step[v] \in {"renamed", "done", "failed"} =>
                                step'[v] \in {"renamed", "done", "failed"})
    BY <2>1 DEF Live
  <2>3. entries["state"] # None => Before(entries["state"], entries["state"])
    BY DEF InOrder, Before, Typed
  <2>4. CASE folder = "kept"
    <3>1. names' = entries /\ entries' = entries /\ lost' = lost
      BY <1>9, <2>4 DEF PowerLoss
    <3> QED BY <1>a, <2>1, <2>2, <2>3, <3>1 DEF InOrder
  <2>5. CASE folder # "kept"
    <3>1. /\ names'["state"] = None /\ entries'["state"] = None
          /\ lost' = {w \in Writes : step[w] = "done"}
      BY <1>9, <2>5 DEF PowerLoss
    <3> QED BY <1>a, <2>1, <2>2, <3>1 DEF InOrder
  <2> QED BY <2>4, <2>5
<1>10. CASE UNCHANGED filesVars
  BY <1>1, <1>10 DEF filesVars
<1> QED BY <1>2, <1>3, <1>4, <1>5, <1>6, <1>7, <1>8, <1>9, <1>10 DEF FilesNext

LEMMA FilesInvariant == FilesAssumption => (FilesSpec => []FilesInv)
<1> SUFFICES ASSUME FilesAssumption PROVE FilesSpec => []FilesInv
  OBVIOUS
<1>1. FilesInit => FilesInv
  BY FilesBegin
<1>2. FilesInv /\ [FilesNext]_filesVars => FilesInv'
  BY TypedStep, WholeStep, OwnStep, OrderStep DEF FilesInv
<1> QED BY <1>1, <1>2, PTL DEF FilesSpec

-----------------------------------------------------------------------------
(* Who reads a path, now or after the power has failed, reads a whole file    *)
(* (persist.go:221), however many write it.                                   *)
THEOREM FilesAreWhole ==
  ASSUME FilesAssumption
  PROVE  FilesSpec => []NeverTorn
<1>1. FilesInv => NeverTorn
  BY DEF FilesInv, WholeFirst, NeverTorn
<1> QED BY <1>1, FilesInvariant, PTL

(* A snapshot the timeline names is there, after a loss of power, too         *)
(* (persist.go:137-154).                                                      *)
THEOREM SnapshotsExist ==
  ASSUME FilesAssumption
  PROVE  FilesSpec => []NamedSnapshotsExist
<1>1. FilesInv => NamedSnapshotsExist
  BY DEF FilesInv, OwnPath, NamedSnapshotsExist
<1> QED BY <1>1, FilesInvariant, PTL

(* What a writer was told is written stays on the disk until a later write    *)
(* replaces it (persist.go:254-257), through every loss of power but one that *)
(* comes before the directory's own entry is on the disk (persist.go:70).     *)
THEOREM WhatIsDoneIsKept ==
  ASSUME FilesAssumption
  PROVE  FilesSpec => []DoneIsKept
<1>1. FilesInv => DoneIsKept
  <2> SUFFICES ASSUME FilesInv, NEW w \in Writes \ lost, step[w] = "done"
               PROVE  /\ w \notin States => entries[w] = w
                      /\ w \in States =>
                           /\ entries["state"] \in States
                           /\ Position(entries["state"]) >= Position(w)
    BY DEF DoneIsKept
  <2>1. w \notin States => entries[w] = w
    BY DEF FilesInv, OwnPath, Placed
  <2>2. CASE w \in States
    <3>1. /\ entries["state"] \in States /\ Ranked(entries["state"]) /\ Ranked(w)
          /\ Before(w, entries["state"])
      BY <2>2 DEF FilesInv, InOrder
    <3>2. /\ Position(w) \in 1 .. Len(order) /\ order[Position(w)] = w
          /\ Position(entries["state"]) \in 1 .. Len(order)
          /\ order[Position(entries["state"])] = entries["state"]
      BY <3>1 DEF Ranked, Position
    <3>3. Position(w) <= Position(entries["state"])
      BY <3>1, <3>2 DEF Before
    <3>4. Len(order) \in Nat
      BY DEF FilesInv, Typed
    <3> QED BY <2>2, <3>1, <3>2, <3>3, <3>4
  <2> QED BY <2>1, <2>2
<1> QED BY <1>1, FilesInvariant, PTL

-----------------------------------------------------------------------------
(* LogMount.                                                                  *)

Row == [point : Points, kind : Kinds, parent : Nat]
Mounts == Seq(Row)

LEMMA RowIs ==
  ASSUME NEW mounts \in Mounts, NEW i \in 1 .. Len(mounts)
  PROVE  /\ mounts[i] \in Row /\ mounts[i].parent \in Nat /\ mounts[i].point \in Points
         /\ Len(mounts) \in Nat
<1>1. mounts[i] \in Row /\ Len(mounts) \in Nat
  BY DEF Mounts
<1> QED BY <1>1 DEF Row

(* Induction, as a statement about sets.                                      *)
LEMMA NatSetInduction ==
  ASSUME NEW S, 0 \in S, \A n \in Nat : n \in S => n + 1 \in S
  PROVE  Nat \subseteq S
<1> SUFFICES ASSUME Nat \ S # {} PROVE FALSE
  OBVIOUS
<1> DEFINE R == OpToRel(<, Nat)
<1>1. \A x, y \in Nat : <<x, y>> \in R <=> x < y
  BY DEF OpToRel
<1>2. IsWellFoundedOn(R, Nat)
  BY NatLessThanWellFounded
<1> HIDE DEF R
<1>3. PICK x \in Nat \ S : \A y \in Nat \ S : ~(<<y, x>> \in R)
  BY <1>2, WFMin
<1>4. x # 0 /\ x - 1 \in Nat /\ (x - 1) + 1 = x
  BY <1>3
<1>5. <<x - 1, x>> \in R
  BY <1>1, <1>3, <1>4
<1>6. x - 1 \in S
  BY <1>3, <1>4, <1>5
<1> QED BY <1>3, <1>4, <1>6

(* The functions by which the kernel's lookup is defined do exist.            *)
Iterated(f, F, v, n) == f = [k \in 0 .. n |-> IF k = 0 THEN v ELSE F[<<k, f[k - 1]>>]]

LEMMA Iterates ==
  ASSUME NEW V, NEW v \in V, NEW F \in [Nat \X V -> V], NEW n \in Nat
  PROVE  \E f \in [0 .. n -> V] : Iterated(f, F, v, n)
<1> DEFINE S == {m \in Nat : \E f \in [0 .. m -> V] : Iterated(f, F, v, m)}
<1>1. 0 \in S
  <2> DEFINE f == [k \in 0 .. 0 |-> v]
  <2>1. f \in [0 .. 0 -> V] /\ Iterated(f, F, v, 0)
    BY DEF Iterated
  <2> QED BY <2>1
<1>2. ASSUME NEW m \in Nat, m \in S PROVE m + 1 \in S
  <2>1. PICK f \in [0 .. m -> V] : Iterated(f, F, v, m)
    BY <1>2
  <2> DEFINE g == [k \in 0 .. m + 1 |-> IF k <= m THEN f[k] ELSE F[<<m + 1, f[m]>>]]
  <2>2. g \in [0 .. m + 1 -> V]
    <3>1. m \in 0 .. m /\ F[<<m + 1, f[m]>>] \in V
      BY <2>1
    <3>2. \A k \in 0 .. m + 1 : k <= m => f[k] \in V
      BY <2>1
    <3> QED BY <3>1, <3>2
  <2>3. \A k \in 0 .. m : f[k] = IF k = 0 THEN v ELSE F[<<k, f[k - 1]>>]
    BY <2>1 DEF Iterated
  <2>4. \A k \in 0 .. m + 1 : g[k] = IF k = 0 THEN v ELSE F[<<k, g[k - 1]>>]
    <3> SUFFICES ASSUME NEW k \in 0 .. m + 1
                 PROVE  g[k] = IF k = 0 THEN v ELSE F[<<k, g[k - 1]>>]
      OBVIOUS
    <3>1. CASE k <= m
      <4>1. g[k] = f[k] /\ k \in 0 .. m
        BY <3>1
      <4>2. k # 0 => g[k - 1] = f[k - 1]
        BY <3>1
      <4> HIDE DEF g
      <4> QED BY <2>3, <4>1, <4>2
    <3>2. CASE k = m + 1
      <4>1. g[k] = F[<<k, f[m]>>] /\ m \in 0 .. m + 1 /\ g[m] = f[m] /\ k - 1 = m /\ k # 0
        BY <3>2
      <4> HIDE DEF g
      <4> QED BY <4>1
    <3> QED BY <3>1, <3>2
  <2>5. Iterated(g, F, v, m + 1)
    <3> HIDE DEF g
    <3>1. g = [k \in 0 .. m + 1 |-> g[k]]
      BY <2>2
    <3> QED BY <2>4, <3>1 DEF Iterated
  <2> HIDE DEF g
  <2> QED BY <2>2, <2>5
<1>3. Nat \subseteq S
  <2> HIDE DEF S
  <2> QED BY <1>1, <1>2, NatSetInduction
<1> QED BY <1>3

LEMMA Highest ==
  ASSUME NEW n \in Nat, NEW T, T \subseteq 1 .. n, T # {}
  PROVE  \E i \in T : \A j \in T : i >= j
<1> DEFINE S == {m \in Nat : \A U \in SUBSET (1 .. m) : U # {} => \E i \in U : \A j \in U : i >= j}
<1>1. 0 \in S
  <2>1. 1 .. 0 = {}
    OBVIOUS
  <2> QED BY <2>1
<1>2. ASSUME NEW m \in Nat, m \in S PROVE m + 1 \in S
  <2> SUFFICES ASSUME NEW U \in SUBSET (1 .. m + 1), U # {}
               PROVE  \E i \in U : \A j \in U : i >= j
    OBVIOUS
  <2>1. CASE m + 1 \in U
    BY <2>1
  <2>2. CASE m + 1 \notin U
    <3>1. U \in SUBSET (1 .. m)
      BY <2>2
    <3> QED BY <1>2, <3>1
  <2> QED BY <2>1, <2>2
<1>3. Nat \subseteq S
  <2> HIDE DEF S
  <2> QED BY <1>1, <1>2, NatSetInduction
<1> QED BY <1>3

(* What is mounted last on a mount at a point, or the mount itself.           *)
LastOnto(mounts, here, point) ==
  LET next == Attached(mounts, here, point)
  IN  IF next = {} THEN here ELSE CHOOSE i \in next : \A j \in next : i >= j

LEMMA LastIs ==
  ASSUME NEW mounts \in Mounts, NEW here, NEW point
  PROVE  /\ Attached(mounts, here, point) = {} => LastOnto(mounts, here, point) = here
         /\ \/ LastOnto(mounts, here, point) = here
            \/ /\ LastOnto(mounts, here, point) \in 1 .. Len(mounts)
               /\ mounts[LastOnto(mounts, here, point)].point = point
<1> DEFINE next == Attached(mounts, here, point)
<1>1. next \subseteq 1 .. Len(mounts) /\ \A i \in next : mounts[i].point = point
  BY DEF Attached
<1>2. Len(mounts) \in Nat
  BY DEF Mounts
<1> HIDE DEF next
<1>3. next # {} => \E i \in next : \A j \in next : i >= j
  BY <1>1, <1>2, Highest
<1>4. next # {} => (CHOOSE i \in next : \A j \in next : i >= j) \in next
  BY <1>3
<1> USE DEF next
<1> QED BY <1>1, <1>4 DEF LastOnto

LEMMA LastOne ==
  ASSUME NEW mounts \in Mounts, NEW here, NEW point, NEW i,
         Attached(mounts, here, point) = {i}, i \in Nat
  PROVE  LastOnto(mounts, here, point) = i
BY DEF LastOnto

Climbs(up, mounts, m, point) ==
  /\ up \in [0 .. Len(mounts) -> 0 .. Len(mounts)]
  /\ up[0] = m
  /\ \A k \in 1 .. Len(mounts) : up[k] = LastOnto(mounts, up[k - 1], point)
  /\ Onto(mounts, m, point) = up[Len(mounts)]

LEMMA OntoIs ==
  ASSUME NEW mounts \in Mounts, NEW m \in 0 .. Len(mounts), NEW point
  PROVE  \E up : Climbs(up, mounts, m, point)
<1> DEFINE V == 0 .. Len(mounts)
           F == [x \in Nat \X V |-> LastOnto(mounts, x[2], point)]
           g == CHOOSE up : up = [k \in 0 .. Len(mounts) |->
                   IF k = 0 THEN m
                   ELSE LET here == up[k - 1]
                            next == Attached(mounts, here, point)
                        IN  IF next = {} THEN here ELSE CHOOSE i \in next : \A j \in next : i >= j]
<1>1. Len(mounts) \in Nat
  BY DEF Mounts
<1>2. F \in [Nat \X V -> V]
  <2>1. \A here \in V : LastOnto(mounts, here, point) \in V
    BY <1>1, LastIs
  <2> QED BY <2>1
<1>3. PICK f \in [0 .. Len(mounts) -> V] : Iterated(f, F, m, Len(mounts))
  <2> HIDE DEF F, V
  <2>1. m \in V
    BY DEF V
  <2> QED BY <1>1, <1>2, <2>1, Iterates
<1>4. \A k \in 0 .. Len(mounts) : f[k] = IF k = 0 THEN m ELSE LastOnto(mounts, f[k - 1], point)
  <2>1. \A k \in 0 .. Len(mounts) : f[k] = IF k = 0 THEN m ELSE F[<<k, f[k - 1]>>]
    <3> HIDE DEF F
    <3> QED BY <1>3 DEF Iterated
  <2>2. \A k \in 1 .. Len(mounts) : F[<<k, f[k - 1]>>] = LastOnto(mounts, f[k - 1], point)
    <3>1. \A k \in 1 .. Len(mounts) : k - 1 \in 0 .. Len(mounts) /\ k \in Nat
      BY <1>1
    <3>2. \A k \in 1 .. Len(mounts) : f[k - 1] \in V
      BY <1>3, <3>1
    <3>3. \A k \in Nat, here \in V : F[<<k, here>>] = LastOnto(mounts, here, point)
      OBVIOUS
    <3> HIDE DEF F, V
    <3> SUFFICES ASSUME NEW k \in 1 .. Len(mounts)
                 PROVE  F[<<k, f[k - 1]>>] = LastOnto(mounts, f[k - 1], point)
      OBVIOUS
    <3>4. k \in Nat /\ f[k - 1] \in V
      BY <3>1, <3>2
    <3> QED BY <3>3, <3>4
  <2>3. \A k \in 0 .. Len(mounts) : k = 0 \/ k \in 1 .. Len(mounts)
    BY <1>1
  <2> HIDE DEF F, g
  <2> QED BY <2>1, <2>2, <2>3
<1>5. f = [k \in 0 .. Len(mounts) |->
                   IF k = 0 THEN m
                   ELSE LET here == f[k - 1]
                            next == Attached(mounts, here, point)
                        IN  IF next = {} THEN here ELSE CHOOSE i \in next : \A j \in next : i >= j]
  <2>1. f = [k \in 0 .. Len(mounts) |-> f[k]]
    BY <1>3
  <2> QED BY <1>4, <2>1 DEF LastOnto
<1>6. g = [k \in 0 .. Len(mounts) |->
                   IF k = 0 THEN m
                   ELSE LET here == g[k - 1]
                            next == Attached(mounts, here, point)
                        IN  IF next = {} THEN here ELSE CHOOSE i \in next : \A j \in next : i >= j]
  BY <1>5
<1>7. Onto(mounts, m, point) = g[Len(mounts)]
  BY DEF Onto
<1> HIDE DEF g, F
<1>8. /\ DOMAIN g = 0 .. Len(mounts) /\ g = [k \in 0 .. Len(mounts) |-> g[k]]
      /\ \A k \in 0 .. Len(mounts) : g[k] = IF k = 0 THEN m ELSE LastOnto(mounts, g[k - 1], point)
  BY <1>6 DEF LastOnto
<1>9. \A k \in 0 .. Len(mounts) : g[k] \in V
  <2> DEFINE S == {k \in Nat : k <= Len(mounts) => g[k] \in V}
  <2>1. 0 \in S
    BY <1>1, <1>8
  <2>2. ASSUME NEW k \in Nat, k \in S PROVE k + 1 \in S
    <3> SUFFICES ASSUME k + 1 <= Len(mounts) PROVE g[k + 1] \in V
      OBVIOUS
    <3>0. k + 1 \in 0 .. Len(mounts) /\ (k + 1) - 1 = k /\ k + 1 # 0 /\ k <= Len(mounts)
      BY <1>1
    <3>1. g[k] \in V /\ g[k + 1] = LastOnto(mounts, g[k], point)
      BY <1>8, <2>2, <3>0
    <3> QED BY <1>1, <3>1, LastIs
  <2>3. Nat \subseteq S
    <3> HIDE DEF S
    <3> QED BY <2>1, <2>2, NatSetInduction
  <2> QED BY <1>1, <2>3
<1>10. g \in [0 .. Len(mounts) -> V]
  BY <1>8, <1>9
<1>11. 0 \in 0 .. Len(mounts) /\ \A k \in 1 .. Len(mounts) : k \in 0 .. Len(mounts) /\ k # 0
  BY <1>1
<1> QED BY <1>7, <1>8, <1>10, <1>11 DEF Climbs

LEMMA OntoFacts ==
  ASSUME NEW mounts \in Mounts, NEW m \in 0 .. Len(mounts), NEW point
  PROVE  /\ Onto(mounts, m, point) \in 0 .. Len(mounts)
         /\ \/ Onto(mounts, m, point) = m
            \/ /\ Onto(mounts, m, point) \in 1 .. Len(mounts)
               /\ mounts[Onto(mounts, m, point)].point = point
         /\ Attached(mounts, m, point) = {} => Onto(mounts, m, point) = m
         /\ \A i : Attached(mounts, m, point) = {i} /\ Attached(mounts, i, point) = {}
                     => Onto(mounts, m, point) = i
<1>0. PICK up : Climbs(up, mounts, m, point)
  BY OntoIs
<1>1. /\ up \in [0 .. Len(mounts) -> 0 .. Len(mounts)] /\ up[0] = m
      /\ \A k \in 1 .. Len(mounts) : up[k] = LastOnto(mounts, up[k - 1], point)
      /\ Onto(mounts, m, point) = up[Len(mounts)]
  BY <1>0 DEF Climbs
<1>2. Len(mounts) \in Nat
  BY DEF Mounts
<1>3. ASSUME NEW k \in Nat, k + 1 <= Len(mounts)
      PROVE  k <= Len(mounts) /\ up[k + 1] = LastOnto(mounts, up[k], point)
  <2>1. k + 1 \in 1 .. Len(mounts) /\ (k + 1) - 1 = k
    BY <1>2, <1>3
  <2> QED BY <1>1, <2>1
<1>4. up[Len(mounts)] = m
      \/ (up[Len(mounts)] \in 1 .. Len(mounts) /\ mounts[up[Len(mounts)]].point = point)
  <2> DEFINE S == {k \in Nat : k <= Len(mounts) =>
                     up[k] = m \/ (up[k] \in 1 .. Len(mounts) /\ mounts[up[k]].point = point)}
  <2>1. 0 \in S
    BY <1>1
  <2>2. ASSUME NEW k \in Nat, k \in S PROVE k + 1 \in S
    <3> SUFFICES ASSUME k + 1 <= Len(mounts)
                 PROVE  up[k + 1] = m
                        \/ (up[k + 1] \in 1 .. Len(mounts) /\ mounts[up[k + 1]].point = point)
      OBVIOUS
    <3>1. k <= Len(mounts) /\ up[k + 1] = LastOnto(mounts, up[k], point)
      BY <1>3
    <3> QED BY <2>2, <3>1, LastIs
  <2>3. Nat \subseteq S
    <3> HIDE DEF S
    <3> QED BY <2>1, <2>2, NatSetInduction
  <2> QED BY <1>2, <2>3
<1>5. Attached(mounts, m, point) = {} => up[Len(mounts)] = m
  <2> SUFFICES ASSUME Attached(mounts, m, point) = {} PROVE up[Len(mounts)] = m
    OBVIOUS
  <2> DEFINE S == {k \in Nat : k <= Len(mounts) => up[k] = m}
  <2>1. 0 \in S
    BY <1>1
  <2>2. ASSUME NEW k \in Nat, k \in S PROVE k + 1 \in S
    BY <1>3, <2>2, LastIs
  <2>3. Nat \subseteq S
    <3> HIDE DEF S
    <3> QED BY <2>1, <2>2, NatSetInduction
  <2> QED BY <1>2, <2>3
<1>6. ASSUME NEW i, Attached(mounts, m, point) = {i}, Attached(mounts, i, point) = {}
      PROVE  up[Len(mounts)] = i
  <2>0. i \in 1 .. Len(mounts)
    BY <1>6 DEF Attached
  <2>1a. i \in Nat
    BY <1>2, <2>0
  <2> DEFINE S == {k \in Nat : k + 1 <= Len(mounts) => up[k + 1] = i}
  <2>1. 0 \in S
    <3>1. 0 + 1 = 1 /\ 1 \in 1 .. Len(mounts) /\ 1 - 1 = 0
      BY <1>2, <2>0
    <3>2. up[1] = LastOnto(mounts, m, point)
      BY <1>1, <3>1
    <3>3. LastOnto(mounts, m, point) = i
      BY <1>6, <2>1a, LastOne
    <3> QED BY <3>1, <3>2, <3>3
  <2>2. ASSUME NEW k \in Nat, k \in S PROVE k + 1 \in S
    <3> SUFFICES ASSUME (k + 1) + 1 <= Len(mounts) PROVE up[(k + 1) + 1] = i
      OBVIOUS
    <3>1. k + 1 \in Nat /\ k + 1 <= Len(mounts) /\ up[(k + 1) + 1] = LastOnto(mounts, up[k + 1], point)
      BY <1>3
    <3>2. up[k + 1] = i
      BY <2>2, <3>1
    <3>3. LastOnto(mounts, i, point) = i
      BY <1>6, LastIs
    <3> QED BY <3>1, <3>2, <3>3
  <2>3. Nat \subseteq S
    <3> HIDE DEF S
    <3> QED BY <2>1, <2>2, NatSetInduction
  <2>4. Len(mounts) - 1 \in Nat /\ (Len(mounts) - 1) + 1 = Len(mounts)
    BY <1>2, <2>0
  <2> QED BY <2>3, <2>4
<1>7. up[Len(mounts)] \in 0 .. Len(mounts)
  BY <1>1, <1>2
<1> QED BY <1>1, <1>4, <1>5, <1>6, <1>7, Zenon

LEMMA ResolveIs ==
  ASSUME NEW mounts \in Mounts, NEW path, Len(path) \in Nat
  PROVE  \E walk \in [0 .. Len(path) -> 0 .. Len(mounts)] :
           /\ walk[0] = 0
           /\ \A k \in 1 .. Len(path) :
                walk[k] = Onto(mounts, walk[k - 1], SubSeq(path, 1, k))
           /\ Resolve(mounts, path) = walk[Len(path)]
<1> DEFINE V == 0 .. Len(mounts)
           On(k, here) == Onto(mounts, here, SubSeq(path, 1, k))
           F == [x \in Nat \X V |-> On(x[1], x[2])]
           g == CHOOSE walk : walk = [k \in 0 .. Len(path) |->
                  IF k = 0 THEN 0 ELSE Onto(mounts, walk[k - 1], SubSeq(path, 1, k))]
<1>1. Len(mounts) \in Nat
  BY DEF Mounts
<1>2. \A k, here : here \in V => On(k, here) \in V
  BY OntoFacts
<1>3. 0 \in V
  BY <1>1
<1>4. Resolve(mounts, path) = g[Len(path)]
  BY DEF Resolve
<1> HIDE DEF V
<1>5. F \in [Nat \X V -> V] /\ \A k \in Nat, here \in V : F[<<k, here>>] = On(k, here)
  <2> HIDE DEF On
  <2> QED BY <1>2
<1> HIDE DEF F
<1>6. PICK f \in [0 .. Len(path) -> V] : Iterated(f, F, 0, Len(path))
  BY <1>3, <1>5, Iterates
<1>7. \A k \in 0 .. Len(path) : f[k] = IF k = 0 THEN 0 ELSE On(k, f[k - 1])
  <2> HIDE DEF On
  <2>1. \A k \in 0 .. Len(path) : f[k] = IF k = 0 THEN 0 ELSE F[<<k, f[k - 1]>>]
    BY <1>6 DEF Iterated
  <2>2. \A k \in 0 .. Len(path) : k = 0 \/ (k \in Nat /\ k - 1 \in 0 .. Len(path))
    OBVIOUS
  <2>3. \A k \in 0 .. Len(path) : k = 0 \/ F[<<k, f[k - 1]>>] = On(k, f[k - 1])
    <3> SUFFICES ASSUME NEW k \in 0 .. Len(path), k # 0
                 PROVE  F[<<k, f[k - 1]>>] = On(k, f[k - 1])
      OBVIOUS
    <3>1. k \in Nat /\ f[k - 1] \in V
      BY <1>6, <2>2
    <3> QED BY <1>5, <3>1
  <2> QED BY <2>1, <2>3
<1>8. f = [k \in 0 .. Len(path) |->
             IF k = 0 THEN 0 ELSE Onto(mounts, f[k - 1], SubSeq(path, 1, k))]
  <2>1. f = [k \in 0 .. Len(path) |-> f[k]]
    BY <1>6
  <2> QED BY <1>7, <2>1
<1>9. g = [k \in 0 .. Len(path) |->
             IF k = 0 THEN 0 ELSE Onto(mounts, g[k - 1], SubSeq(path, 1, k))]
  BY <1>8
<1> HIDE DEF g
<1>10. /\ DOMAIN g = 0 .. Len(path) /\ g = [k \in 0 .. Len(path) |-> g[k]]
       /\ \A k \in 0 .. Len(path) : g[k] = IF k = 0 THEN 0 ELSE On(k, g[k - 1])
  BY <1>9
<1>11. \A k \in 0 .. Len(path) : g[k] \in V
  <2> DEFINE S == {k \in Nat : k <= Len(path) => g[k] \in V}
  <2> HIDE DEF On
  <2>1. 0 \in S
    <3>1. 0 \in 0 .. Len(path)
      OBVIOUS
    <3> QED BY <1>3, <1>10, <3>1
  <2>2. ASSUME NEW k \in Nat, k \in S PROVE k + 1 \in S
    <3> SUFFICES ASSUME k + 1 <= Len(path) PROVE g[k + 1] \in V
      OBVIOUS
    <3>0. k + 1 \in 0 .. Len(path) /\ (k + 1) - 1 = k /\ k + 1 # 0 /\ k <= Len(path)
      OBVIOUS
    <3>1. g[k] \in V /\ g[k + 1] = On(k + 1, g[k])
      BY <1>10, <2>2, <3>0
    <3> QED BY <1>2, <3>1
  <2>3. Nat \subseteq S
    <3> HIDE DEF S
    <3> QED BY <2>1, <2>2, NatSetInduction
  <2> QED BY <2>3
<1>12. g \in [0 .. Len(path) -> V]
  <2> HIDE DEF On
  <2> QED BY <1>10, <1>11
<1>13. g[0] = 0 /\ \A k \in 1 .. Len(path) : g[k] = On(k, g[k - 1])
  <2> HIDE DEF On
  <2>1. 0 \in 0 .. Len(path) /\ \A k \in 1 .. Len(path) : k \in 0 .. Len(path) /\ k # 0
    OBVIOUS
  <2> QED BY <1>10, <2>1
<1> QED BY <1>4, <1>12, <1>13 DEF V

(* A path leads to the root, or to a mount at a place on the way.             *)
LEMMA ResolveFacts ==
  ASSUME NEW mounts \in Mounts, NEW path, Len(path) \in Nat
  PROVE  /\ Resolve(mounts, path) \in 0 .. Len(mounts)
         /\ Resolve(mounts, path) # 0 =>
              /\ Resolve(mounts, path) \in 1 .. Len(mounts)
              /\ \E k \in 1 .. Len(path) :
                   mounts[Resolve(mounts, path)].point = SubSeq(path, 1, k)
<1>1. PICK walk \in [0 .. Len(path) -> 0 .. Len(mounts)] :
        /\ walk[0] = 0
        /\ \A k \in 1 .. Len(path) :
             walk[k] = Onto(mounts, walk[k - 1], SubSeq(path, 1, k))
        /\ Resolve(mounts, path) = walk[Len(path)]
  BY ResolveIs
<1>2. Len(mounts) \in Nat
  BY DEF Mounts
<1> DEFINE On(r) == r # 0 => \E k \in 1 .. Len(path) : mounts[r].point = SubSeq(path, 1, k)
           S == {k \in Nat : k <= Len(path) => On(walk[k])}
<1>3. 0 \in S
  BY <1>1
<1>4. ASSUME NEW k \in Nat, k \in S PROVE k + 1 \in S
  <2> SUFFICES ASSUME k + 1 <= Len(path) PROVE On(walk[k + 1])
    OBVIOUS
  <2>1. k + 1 \in 1 .. Len(path) /\ (k + 1) - 1 = k /\ k \in 0 .. Len(path)
    OBVIOUS
  <2>2. walk[k + 1] = Onto(mounts, walk[k], SubSeq(path, 1, k + 1)) /\ walk[k] \in 0 .. Len(mounts)
    BY <1>1, <2>1
  <2>3. walk[k + 1] = walk[k] \/ mounts[walk[k + 1]].point = SubSeq(path, 1, k + 1)
    <3> DEFINE m == walk[k]
               point == SubSeq(path, 1, k + 1)
    <3>1. m \in 0 .. Len(mounts) /\ walk[k + 1] = Onto(mounts, m, point)
      BY <2>2
    <3> HIDE DEF m, point
    <3>2. Onto(mounts, m, point) = m \/ mounts[Onto(mounts, m, point)].point = point
      BY <3>1, OntoFacts
    <3> QED BY <3>1, <3>2 DEF m, point
  <2>4. On(walk[k])
    BY <1>4, <2>1
  <2> QED BY <2>1, <2>3, <2>4
<1>5. Nat \subseteq S
  <2> HIDE DEF S
  <2> QED BY <1>3, <1>4, NatSetInduction
<1>6. On(walk[Len(path)]) /\ walk[Len(path)] \in 0 .. Len(mounts)
  <2>1. Len(path) \in S /\ Len(path) \in 0 .. Len(path)
    BY <1>5
  <2> QED BY <1>1, <2>1
<1> QED BY <1>1, <1>2, <1>6

(* Paths, name by name.                                                       *)
LEMMA PrefixIs ==
  ASSUME NEW s \in Seq(STRING), NEW t \in Seq(STRING)
  PROVE  IsPrefix(s, t) <=> Len(s) <= Len(t) /\ \A k \in 1 .. Len(s) : s[k] = t[k]
<1>1. Len(s) \in Nat /\ Len(t) \in Nat
  OBVIOUS
<1>2. Len(s) <= Len(t) => /\ SubSeq(t, 1, Len(s)) \in Seq(STRING)
                          /\ Len(SubSeq(t, 1, Len(s))) = Len(s)
                          /\ \A k \in 1 .. Len(s) : SubSeq(t, 1, Len(s))[k] = t[k]
  OBVIOUS
<1>3. SubSeq(s, 1, Len(s)) = s
  OBVIOUS
<1>4. (Len(s) <= Len(t) /\ \A k \in 1 .. Len(s) : s[k] = t[k]) => SubSeq(t, 1, Len(s)) = s
  BY <1>1, <1>2
<1> QED BY <1>2, <1>3, <1>4 DEF IsPrefix

LEMMA CutIs ==
  ASSUME NEW s \in Seq(STRING), NEW n \in 1 .. Len(s)
  PROVE  /\ SubSeq(s, 1, n) \in Seq(STRING)
         /\ Len(SubSeq(s, 1, n)) = n
         /\ \A k \in 1 .. n : SubSeq(s, 1, n)[k] = s[k]
OBVIOUS

LEMMA BootIs ==
  ASSUME MountAssumption
  PROVE  /\ <<"boot">> \in Seq(STRING) /\ Len(<<"boot">>) = 1 /\ <<"boot">>[1] = "boot"
         /\ SubSeq(<<"boot">>, 1, 1) = <<"boot">>
         /\ \A s \in Seq(STRING) : Len(s) = 1 /\ s[1] = "boot" => s = <<"boot">>
<1> DEFINE b == <<"boot">>
<1>1. b \in Seq(STRING) /\ Len(b) = 1 /\ b[1] = "boot"
  BY DEF MountAssumption
<1>2. \A s \in Seq(STRING) : Len(s) = 1 /\ s[1] = "boot" => s = b
  <2> SUFFICES ASSUME NEW s \in Seq(STRING), Len(s) = 1, s[1] = "boot"
               PROVE  s = b
    OBVIOUS
  <2>1. \A k \in 1 .. 1 : s[k] = b[k]
    BY <1>1
  <2> HIDE DEF b
  <2> QED BY <1>1, <2>1
<1>3. SubSeq(b, 1, 1) = b
  <2> HIDE DEF b
  <2>1. /\ SubSeq(b, 1, 1) \in Seq(STRING) /\ Len(SubSeq(b, 1, 1)) = 1
        /\ SubSeq(b, 1, 1)[1] = b[1]
    BY <1>1
  <2> QED BY <1>1, <1>2, <2>1
<1> QED BY <1>1, <1>2, <1>3

(* The table without one of its mounts.                                       *)
LEMMA RemovedIs ==
  ASSUME NEW mounts \in Mounts, NEW i \in 1 .. Len(mounts)
  PROVE  /\ RemoveAt(mounts, i) \in Mounts
         /\ Len(RemoveAt(mounts, i)) = Len(mounts) - 1
         /\ \A j \in 1 .. Len(mounts) - 1 :
              RemoveAt(mounts, i)[j] = IF j < i THEN mounts[j] ELSE mounts[j + 1]
<1>0. mounts \in Seq(Row) /\ Len(mounts) \in Nat
  BY DEF Mounts
<1>1. /\ SubSeq(mounts, 1, i - 1) \in Seq(Row) /\ Len(SubSeq(mounts, 1, i - 1)) = i - 1
      /\ \A j \in 1 .. i - 1 : SubSeq(mounts, 1, i - 1)[j] = mounts[j]
  BY <1>0
<1>2. /\ SubSeq(mounts, i + 1, Len(mounts)) \in Seq(Row)
      /\ Len(SubSeq(mounts, i + 1, Len(mounts))) = Len(mounts) - i
      /\ \A j \in 1 .. Len(mounts) - i : SubSeq(mounts, i + 1, Len(mounts))[j] = mounts[i + j]
  BY <1>0
<1> DEFINE a == SubSeq(mounts, 1, i - 1)
           b == SubSeq(mounts, i + 1, Len(mounts))
<1>3. RemoveAt(mounts, i) = a \o b
  BY DEF RemoveAt
<1> HIDE DEF a, b
<1>4a. /\ a \in Seq(Row) /\ b \in Seq(Row) /\ Len(a) = i - 1 /\ Len(b) = Len(mounts) - i
       /\ i \in 1 .. Len(mounts) /\ Len(mounts) \in Nat
  BY <1>0, <1>1, <1>2 DEF a, b
<1>4. /\ a \o b \in Seq(Row) /\ Len(a \o b) = Len(mounts) - 1
      /\ \A j \in 1 .. Len(mounts) - 1 :
           (a \o b)[j] = IF j < i THEN a[j] ELSE b[j - i + 1]
  BY <1>4a
<1>5. \A j \in 1 .. Len(mounts) - 1 :
        (IF j < i THEN a[j] ELSE b[j - i + 1]) = IF j < i THEN mounts[j] ELSE mounts[j + 1]
  <2> SUFFICES ASSUME NEW j \in 1 .. Len(mounts) - 1
               PROVE  /\ j < i => a[j] = mounts[j]
                      /\ ~(j < i) => b[j - i + 1] = mounts[j + 1]
    OBVIOUS
  <2>1. j < i => a[j] = mounts[j]
    BY <1>1 DEF a
  <2>2. ~(j < i) => j - i + 1 \in 1 .. Len(mounts) - i /\ i + (j - i + 1) = j + 1
    BY <1>0
  <2>3. ~(j < i) => b[j - i + 1] = mounts[i + (j - i + 1)]
    BY <1>2, <2>2 DEF b
  <2> QED BY <2>1, <2>2, <2>3
<1> QED BY <1>3, <1>4, <1>5 DEF Mounts

-----------------------------------------------------------------------------
(* A mount is made on what is there before it, and one on /boot on the root   *)
(* directory or on another that is on /boot; what is judged is judged of the  *)
(* table as it stands.                                                        *)
Rooted(mounts) ==
  \A i \in 1 .. Len(mounts) :
    /\ mounts[i].parent < i
    /\ mounts[i].point = <<"boot">> =>
         mounts[i].parent = 0 \/ mounts[mounts[i].parent].point = <<"boot">>

TableInv ==
  /\ table \in Mounts /\ Rooted(table)
  /\ at = "verified" => Verified(table)
  /\ at = "refused" => ~Verified(table)

LEMMA TableInit ==
  MountInit => TableInv
<1> SUFFICES ASSUME MountInit PROVE TableInv
  OBVIOUS
<1>1. table = <<>> /\ at = "idle" /\ Len(table) = 0
  BY DEF MountInit
<1>2. table \in Mounts
  BY <1>1 DEF Mounts
<1>3. Rooted(table)
  BY <1>1 DEF Rooted
<1> QED BY <1>1, <1>2, <1>3 DEF TableInv

LEMMA MountKeeps ==
  ASSUME MountAssumption, TableInv, NEW point \in Points, NEW kind \in Kinds,
         Mount(point, kind)
  PROVE  table' \in Mounts /\ Rooted(table')
<1> DEFINE up == Resolve(table, point)
           new == [point |-> point, kind |-> kind, parent |-> up]
<1>1. /\ table \in Mounts /\ Rooted(table) /\ Len(table) \in Nat
      /\ table' = Append(table, new)
  BY DEF TableInv, Mount, Mounts
<1>2. point \in Seq(STRING) /\ Len(point) \in Nat
  BY DEF MountAssumption
<1>3. /\ up \in 0 .. Len(table)
      /\ up # 0 => /\ up \in 1 .. Len(table)
                   /\ \E k \in 1 .. Len(point) : table[up].point = SubSeq(point, 1, k)
  BY <1>1, <1>2, ResolveFacts
<1> HIDE DEF up
<1>4. point = <<"boot">> /\ up # 0 => table[up].point = <<"boot">>
  <2> SUFFICES ASSUME point = <<"boot">>, up # 0 PROVE table[up].point = <<"boot">>
    OBVIOUS
  <2>1. PICK k \in 1 .. Len(point) : table[up].point = SubSeq(point, 1, k)
    BY <1>3
  <2>2. k = 1
    BY <2>1, BootIs
  <2> QED BY <2>1, <2>2, BootIs
<1>5. new \in Row
  BY <1>1, <1>3 DEF Row
<1>6. table' \in Mounts
  BY <1>1, <1>5 DEF Mounts
<1>7. /\ Len(table') = Len(table) + 1
      /\ \A i \in 1 .. Len(table) : table'[i] = table[i]
      /\ table'[Len(table) + 1] = new
  <2> HIDE DEF new
  <2> QED BY <1>1, <1>5 DEF Mounts
<1>8. new.point = point /\ new.parent = up
  OBVIOUS
<1> HIDE DEF new
<1>9. ASSUME NEW i \in 1 .. Len(table')
      PROVE  /\ table'[i].parent < i
             /\ table'[i].point = <<"boot">> =>
                  table'[i].parent = 0 \/ table'[table'[i].parent].point = <<"boot">>
  <2>1. CASE i \in 1 .. Len(table)
    <3>1. table'[i] = table[i] /\ table[i].parent \in Nat
      BY <1>1, <1>7, <2>1, RowIs
    <3>2. table[i].parent < i /\ (table[i].parent = 0 \/ table[i].parent \in 1 .. Len(table))
      BY <1>1, <2>1, <3>1 DEF Rooted
    <3> QED BY <1>1, <1>7, <2>1, <3>1, <3>2 DEF Rooted
  <2>2. CASE i = Len(table) + 1
    <3>1. table'[i].parent = up /\ table'[i].point = point
      BY <1>7, <1>8, <2>2
    <3>2. up # 0 => table'[up] = table[up]
      BY <1>3, <1>7
    <3> QED BY <1>1, <1>3, <1>4, <2>2, <3>1, <3>2
  <2>3. i \in 1 .. Len(table) \/ i = Len(table) + 1
    BY <1>1, <1>7
  <2> QED BY <2>1, <2>2, <2>3
<1> QED BY <1>6, <1>9 DEF Rooted

LEMMA UnmountKeeps ==
  ASSUME TableInv, NEW i \in 1 .. Len(table), Unmount(i)
  PROVE  table' \in Mounts /\ Rooted(table')
<1> DEFINE rest == RemoveAt(table, i)
           n == Len(table) - 1
           old(j) == IF j < i THEN j ELSE j + 1
           less(k) == IF k > i THEN k - 1 ELSE k
<1>1. /\ table \in Mounts /\ Rooted(table) /\ Len(table) \in Nat
      /\ \A j \in 1 .. Len(table) : table[j].parent # i
      /\ table' = [j \in 1 .. Len(rest) |-> [rest[j] EXCEPT !.parent = less(@)]]
  BY DEF TableInv, Unmount, Mounts
<1>2. /\ rest \in Mounts /\ Len(rest) = n
      /\ \A j \in 1 .. n : rest[j] = IF j < i THEN table[j] ELSE table[j + 1]
  BY <1>1, RemovedIs
<1>3. \A j \in 1 .. n : old(j) \in 1 .. Len(table) /\ rest[j] = table[old(j)]
  BY <1>1, <1>2
<1>4. \A j \in 1 .. Len(table) : table[j] \in Row
  BY <1>1, RowIs
<1>5. n \in Nat
  BY <1>1
<1> HIDE DEF rest
<1>6. \A e \in Row : /\ [e EXCEPT !.parent = less(@)] \in Row
                   /\ [e EXCEPT !.parent = less(@)].point = e.point
                   /\ [e EXCEPT !.parent = less(@)].parent = less(e.parent)
                   /\ e.parent \in Nat
  BY DEF Row
<1>7. /\ DOMAIN table' = 1 .. n
      /\ \A j \in 1 .. n : table'[j] = [rest[j] EXCEPT !.parent = less(@)]
      /\ table' = [j \in 1 .. n |-> table'[j]]
  BY <1>1, <1>2
<1>8. \A j \in 1 .. n : /\ table'[j] \in Row /\ table'[j].point = table[old(j)].point
                        /\ table'[j].parent = less(table[old(j)].parent)
                        /\ table[old(j)].parent \in Nat
  <2> SUFFICES ASSUME NEW j \in 1 .. n
               PROVE  /\ table'[j] \in Row /\ table'[j].point = table[old(j)].point
                      /\ table'[j].parent = less(table[old(j)].parent)
                      /\ table[old(j)].parent \in Nat
    OBVIOUS
  <2> DEFINE e == table[old(j)]
  <2>1. e \in Row /\ table'[j] = [e EXCEPT !.parent = less(@)]
    <3>1. old(j) \in 1 .. Len(table) /\ rest[j] = e
      BY <1>3
    <3>2. table'[j] = [rest[j] EXCEPT !.parent = less(@)]
      BY <1>7
    <3> HIDE DEF less, old, n
    <3> QED BY <1>4, <3>1, <3>2
  <2>2. /\ [e EXCEPT !.parent = less(@)] \in Row
        /\ [e EXCEPT !.parent = less(@)].point = e.point
        /\ [e EXCEPT !.parent = less(@)].parent = less(e.parent)
        /\ e.parent \in Nat
    <3> HIDE DEF less, e
    <3> QED BY <1>6, <2>1
  <2> HIDE DEF less, old, n
  <2> QED BY <2>1, <2>2
<1>9. table' \in Seq(Row) /\ Len(table') = n
  <2> HIDE DEF less, old, n
  <2>1. table' \in [1 .. n -> Row]
    BY <1>7, <1>8
  <2> QED BY <1>5, <2>1
<1>10. ASSUME NEW j \in 1 .. n
       PROVE  /\ table'[j].parent < j
              /\ table'[j].point = <<"boot">> =>
                   table'[j].parent = 0 \/ table'[table'[j].parent].point = <<"boot">>
  <2> DEFINE k == table[old(j)].parent
  <2>1. old(j) \in 1 .. Len(table) /\ k \in Nat /\ k # i /\ k < old(j)
    BY <1>1, <1>3, <1>8, <1>10 DEF Rooted
  <2>2. table'[j].parent = less(k) /\ table'[j].point = table[old(j)].point
    BY <1>8, <1>10
  <2>3. table[old(j)].point = <<"boot">> => k = 0 \/ table[k].point = <<"boot">>
    BY <1>1, <2>1 DEF Rooted
  <2> HIDE DEF k
  <2>4. less(k) < j
    BY <1>1, <2>1
  <2>5. k # 0 => less(k) \in 1 .. n /\ old(less(k)) = k
    BY <1>1, <2>1
  <2>6. k # 0 => table'[less(k)].point = table[k].point
    <3> HIDE DEF less, old, n
    <3> QED BY <1>8, <2>5
  <2>7. k = 0 => less(k) = 0
    BY <1>1
  <2> HIDE DEF less, old, n
  <2> QED BY <2>2, <2>3, <2>4, <2>6, <2>7
<1> HIDE DEF less, old, n
<1>11. Rooted(table')
  BY <1>9, <1>10 DEF Rooted
<1> QED BY <1>9, <1>11 DEF Mounts

LEMMA TableStep ==
  ASSUME MountAssumption, TableInv, [MountNext]_mountVars
  PROVE  TableInv'
<1>1. CASE MountsChange
  <2>1. table' \in Mounts /\ Rooted(table')
    <3>1. CASE \E point \in Points, kind \in Kinds : Mount(point, kind)
      BY <3>1, MountKeeps
    <3>2. CASE \E i \in 1 .. Len(table) : Unmount(i)
      BY <3>2, UnmountKeeps
    <3> QED BY <1>1, <3>1, <3>2 DEF MountsChange
  <2>2. at' = "idle"
    BY <1>1 DEF MountsChange
  <2> QED BY <2>1, <2>2 DEF TableInv
<1>2. CASE Verify
  <2>1. table' = table /\ at' = IF Verified(table) THEN "verified" ELSE "refused"
    BY <1>2 DEF Verify
  <2> QED BY <2>1 DEF TableInv
<1>3. CASE UNCHANGED mountVars
  BY <1>3 DEF mountVars, TableInv
<1> QED BY <1>1, <1>2, <1>3 DEF MountNext

LEMMA TableInvariant ==
  ASSUME MountAssumption
  PROVE  MountSpec => []TableInv
<1>1. MountInit => TableInv
  BY TableInit
<1>2. TableInv /\ [MountNext]_mountVars => TableInv'
  BY TableStep
<1> QED BY <1>1, <1>2, PTL DEF MountSpec

-----------------------------------------------------------------------------
(* One mount on /boot and none in the way: every path at or below the log     *)
(* directory leads to it.                                                     *)
LEMMA BootBelow ==
  ASSUME MountAssumption, NEW p \in Points, AtOrBelow(p, LogDir)
  PROVE  /\ p \in Seq(STRING) /\ Len(p) \in Nat /\ 1 <= Len(p) /\ SubSeq(p, 1, 1) = <<"boot">>
         /\ \A k \in 2 .. Len(p) : Overlaps(SubSeq(p, 1, k))
<1>1. /\ p \in Seq(STRING) /\ LogDir \in Seq(STRING) /\ Len(p) \in Nat /\ Len(LogDir) \in Nat
      /\ <<"boot">> \in Seq(STRING)
  <2>1. Points \subseteq Seq(STRING) /\ LogDir \in Points
    BY DEF MountAssumption
  <2>2. p \in Seq(STRING) /\ LogDir \in Seq(STRING)
    BY <2>1
  <2> QED BY <2>2, BootIs
<1>2. Len(LogDir) <= Len(p) /\ \A k \in 1 .. Len(LogDir) : LogDir[k] = p[k]
  BY <1>1, PrefixIs DEF AtOrBelow
<1>3. 1 <= Len(LogDir) /\ LogDir[1] = "boot"
  <2>1. IsPrefix(<<"boot">>, LogDir)
    BY DEF MountAssumption
  <2>2. Len(<<"boot">>) <= Len(LogDir)
        /\ \A k \in 1 .. Len(<<"boot">>) : <<"boot">>[k] = LogDir[k]
    BY <1>1, <2>1, PrefixIs
  <2> QED BY <2>2, BootIs
<1>4. 1 <= Len(p) /\ p[1] = "boot"
  BY <1>1, <1>2, <1>3
<1>5. SubSeq(p, 1, 1) = <<"boot">>
  <2>1. 1 \in 1 .. Len(p)
    BY <1>1, <1>4
  <2>2. /\ SubSeq(p, 1, 1) \in Seq(STRING) /\ Len(SubSeq(p, 1, 1)) = 1
        /\ SubSeq(p, 1, 1)[1] = p[1]
    BY <1>1, <2>1, CutIs
  <2> QED BY <1>4, <2>2, BootIs
<1>6. ASSUME NEW k \in 2 .. Len(p) PROVE Overlaps(SubSeq(p, 1, k))
  <2> DEFINE q == SubSeq(p, 1, k)
  <2>0. k \in 1 .. Len(p) /\ k \in Nat /\ 1 \in 1 .. k /\ k # 1
    BY <1>1
  <2>1. q \in Seq(STRING) /\ Len(q) = k /\ \A j \in 1 .. k : q[j] = p[j]
    BY <1>1, <2>0, CutIs
  <2> HIDE DEF q
  <2>2. q # <<"boot">>
    BY <2>0, <2>1, BootIs
  <2>3. IsPrefix(<<"boot">>, q)
    <3>1. Len(<<"boot">>) <= Len(q) /\ \A j \in 1 .. Len(<<"boot">>) : <<"boot">>[j] = q[j]
      BY <1>4, <2>0, <2>1, BootIs
    <3> QED BY <1>1, <2>1, <3>1, PrefixIs
  <2>4. CASE k <= Len(LogDir)
    <3>1. Len(q) <= Len(LogDir) /\ \A j \in 1 .. Len(q) : q[j] = LogDir[j]
      BY <1>1, <1>2, <2>0, <2>1, <2>4
    <3>2. IsPrefix(q, LogDir)
      BY <1>1, <2>1, <3>1, PrefixIs
    <3> QED BY <2>2, <2>3, <3>2 DEF Overlaps, AtOrBelow, q
  <2>5. CASE ~(k <= Len(LogDir))
    <3>1. Len(LogDir) <= Len(q) /\ \A j \in 1 .. Len(LogDir) : LogDir[j] = q[j]
      BY <1>1, <1>2, <2>0, <2>1, <2>5
    <3>2. IsPrefix(LogDir, q)
      BY <1>1, <2>1, <3>1, PrefixIs
    <3> QED BY <2>2, <2>3, <3>2 DEF Overlaps, AtOrBelow, q
  <2> QED BY <2>4, <2>5
<1> QED BY <1>1, <1>4, <1>5, <1>6

LEMMA AllLeadsThere ==
  ASSUME MountAssumption, NEW mounts \in Mounts, Rooted(mounts), Verified(mounts),
         NEW p \in Points, AtOrBelow(p, LogDir)
  PROVE  KindAt(mounts, p) = "flash"
<1>1. PICK i \in BootMounts(mounts) :
        BootMounts(mounts) = {i} /\ mounts[i].kind = "flash"
  BY DEF Verified, OneBoot
<1>2. /\ i \in 1 .. Len(mounts) /\ mounts[i].point = <<"boot">> /\ Len(mounts) \in Nat
      /\ \A j \in 1 .. Len(mounts) : mounts[j].point = <<"boot">> => j = i
      /\ mounts[i].parent \in Nat /\ 0 \in 0 .. Len(mounts) /\ i \in 0 .. Len(mounts)
  BY <1>1, RowIs DEF BootMounts
<1>3. mounts[i].parent = 0
  <2>1. mounts[i].parent < i
        /\ (mounts[i].parent = 0 \/ mounts[mounts[i].parent].point = <<"boot">>)
    BY <1>2 DEF Rooted
  <2>2. mounts[i].parent # 0 => mounts[i].parent \in 1 .. Len(mounts)
    BY <1>2, <2>1
  <2> QED BY <1>2, <2>1, <2>2
<1>4. /\ Attached(mounts, 0, <<"boot">>) = {i}
      /\ Attached(mounts, i, <<"boot">>) = {}
  BY <1>2, <1>3 DEF Attached
<1>5. Onto(mounts, 0, <<"boot">>) = i
  BY <1>2, <1>4, OntoFacts, SMTT(30)
<1>6. /\ Len(p) \in Nat /\ 1 <= Len(p) /\ SubSeq(p, 1, 1) = <<"boot">>
      /\ \A k \in 2 .. Len(p) : Overlaps(SubSeq(p, 1, k))
  BY BootBelow
<1>7. ASSUME NEW k \in 2 .. Len(p)
      PROVE  Onto(mounts, i, SubSeq(p, 1, k)) = i
  <2>1. Attached(mounts, i, SubSeq(p, 1, k)) = {}
    <3>1. \A j \in 1 .. Len(mounts) : ~Overlaps(mounts[j].point)
      BY DEF Verified
    <3>2. Overlaps(SubSeq(p, 1, k))
      BY <1>6
    <3> QED BY <3>1, <3>2 DEF Attached
  <2> QED BY <1>2, <2>1, OntoFacts
<1>8. PICK walk \in [0 .. Len(p) -> 0 .. Len(mounts)] :
        /\ walk[0] = 0
        /\ \A k \in 1 .. Len(p) : walk[k] = Onto(mounts, walk[k - 1], SubSeq(p, 1, k))
        /\ Resolve(mounts, p) = walk[Len(p)]
  BY <1>6, ResolveIs
<1> DEFINE S == {k \in Nat : k + 1 <= Len(p) => walk[k + 1] = i}
<1>9. 0 \in S
  <2>1. 1 \in 1 .. Len(p) /\ 1 - 1 = 0 /\ 0 + 1 = 1
    BY <1>6
  <2>2. walk[1] = Onto(mounts, walk[0], SubSeq(p, 1, 1))
    BY <1>8, <2>1
  <2>3. walk[1] = i
    BY <1>5, <1>6, <1>8, <2>2
  <2> QED BY <2>1, <2>3
<1>10. ASSUME NEW k \in Nat, k \in S PROVE k + 1 \in S
  <2> SUFFICES ASSUME (k + 1) + 1 <= Len(p) PROVE walk[(k + 1) + 1] = i
    OBVIOUS
  <2> DEFINE n == (k + 1) + 1
  <2>1. n \in 2 .. Len(p) /\ n \in 1 .. Len(p) /\ n - 1 = k + 1 /\ k + 1 <= Len(p)
    BY <1>6
  <2>2. walk[k + 1] = i
    BY <1>10, <2>1
  <2> HIDE DEF n
  <2>3. walk[n] = Onto(mounts, walk[k + 1], SubSeq(p, 1, n))
    BY <1>8, <2>1
  <2>4. walk[n] = i
    BY <1>7, <2>1, <2>2, <2>3
  <2> QED BY <2>4 DEF n
<1>11. Nat \subseteq S
  <2> HIDE DEF S
  <2> QED BY <1>9, <1>10, NatSetInduction
<1>12. Resolve(mounts, p) = i
  <2>1. Len(p) - 1 \in Nat /\ (Len(p) - 1) + 1 = Len(p)
    BY <1>6
  <2>2. Len(p) - 1 \in S
    BY <1>11, <2>1
  <2>3. walk[Len(p)] = i
    BY <1>6, <2>1, <2>2
  <2> QED BY <1>8, <2>3
<1> QED BY <1>1, <1>2, <1>12 DEF KindAt

(* When the log directory is accepted, it and all below it leads to the boot  *)
(* flash: no order of mounts and unmounts makes a table whose text is         *)
(* accepted and whose lookup ends elsewhere (logmount.go:30).                 *)
THEOREM AcceptedIsFlash ==
  ASSUME MountAssumption
  PROVE  MountSpec => []VerifiedIsFlash
<1>1. TableInv => VerifiedIsFlash
  <2> SUFFICES ASSUME TableInv, at = "verified", NEW p \in LogPaths
               PROVE  KindAt(table, p) = "flash"
    BY DEF VerifiedIsFlash
  <2>1. p \in Points /\ AtOrBelow(p, LogDir)
    BY DEF LogPaths
  <2>2. table \in Mounts /\ Rooted(table) /\ Verified(table)
    BY DEF TableInv
  <2> QED BY <2>1, <2>2, AllLeadsThere
<1> QED BY <1>1, TableInvariant, PTL

-----------------------------------------------------------------------------
(* No mount hidden, and all the way to the log directory and below it leads   *)
(* to one flash: then the text says so too.                                   *)
LEMMA NothingInTheWay ==
  ASSUME MountAssumption, NEW mounts \in Mounts, Hidden(mounts) = {},
         \A p \in LogPaths \cup {SubSeq(LogDir, 1, k) : k \in 1 .. Len(LogDir)} :
           /\ KindAt(mounts, p) = "flash"
           /\ Resolve(mounts, p) = Resolve(mounts, <<"boot">>)
  PROVE  Verified(mounts)
<1> DEFINE Way == LogPaths \cup {SubSeq(LogDir, 1, k) : k \in 1 .. Len(LogDir)}
           b == Resolve(mounts, <<"boot">>)
<1>0. /\ LogDir \in Points /\ LogDir \in Seq(STRING) /\ Len(LogDir) \in Nat
      /\ \A p \in Points : p \in Seq(STRING) /\ Len(p) \in Nat
      /\ <<"boot">> \in Seq(STRING)
  <2>1. Points \subseteq Seq(STRING) /\ LogDir \in Points /\ <<"boot">> \in Points
    BY DEF MountAssumption
  <2>2. \A p \in Seq(STRING) : Len(p) \in Nat
    OBVIOUS
  <2> QED BY <2>1, <2>2
<1>1. AtOrBelow(LogDir, LogDir)
  BY <1>0, PrefixIs DEF AtOrBelow
<1>2. 1 \in 1 .. Len(LogDir) /\ SubSeq(LogDir, 1, 1) = <<"boot">>
  BY <1>0, <1>1, BootBelow
<1>3. <<"boot">> \in Way
  BY <1>2
<1>4. \A p \in Way : KindAt(mounts, p) = "flash" /\ Resolve(mounts, p) = b
  OBVIOUS
<1> HIDE DEF b
<1>5. b # 0 /\ mounts[b].kind = "flash"
  <2>1. KindAt(mounts, <<"boot">>) = "flash"
    BY <1>3, <1>4
  <2> QED BY <2>1 DEF KindAt, b
<1>6. b \in 1 .. Len(mounts) /\ mounts[b].point = <<"boot">>
  <2>1. /\ b \in 1 .. Len(mounts)
        /\ \E k \in 1 .. Len(<<"boot">>) : mounts[b].point = SubSeq(<<"boot">>, 1, k)
    BY <1>5, BootIs, ResolveFacts DEF b
  <2>2. PICK k \in 1 .. Len(<<"boot">>) : mounts[b].point = SubSeq(<<"boot">>, 1, k)
    BY <2>1
  <2>3. k = 1
    BY <2>2, BootIs
  <2> QED BY <2>1, <2>2, <2>3, BootIs
<1>7. \A i \in 1 .. Len(mounts) : Resolve(mounts, mounts[i].point) = i
  BY DEF Hidden
<1>8. \A i \in 1 .. Len(mounts) : mounts[i].point \in Way => i = b
  BY <1>4, <1>7
<1>9. BootMounts(mounts) = {b}
  BY <1>3, <1>6, <1>8 DEF BootMounts
<1>10. ASSUME NEW i \in 1 .. Len(mounts), Overlaps(mounts[i].point)
       PROVE  FALSE
  <2> DEFINE q == mounts[i].point
  <2>1. q \in Points /\ q \in Seq(STRING) /\ Len(q) \in Nat
    BY <1>0, RowIs
  <2>2. /\ q # <<"boot">> /\ IsPrefix(<<"boot">>, q)
        /\ IsPrefix(q, LogDir) \/ IsPrefix(LogDir, q)
    BY <1>10 DEF Overlaps, AtOrBelow
  <2> HIDE DEF q
  <2>3. q \in Way
    <3>1. CASE IsPrefix(LogDir, q)
      BY <2>1, <3>1 DEF LogPaths, AtOrBelow
    <3>2. CASE IsPrefix(q, LogDir)
      <4>1. Len(<<"boot">>) <= Len(q)
        BY <1>0, <2>1, <2>2, PrefixIs
      <4>2. Len(q) <= Len(LogDir) /\ q = SubSeq(LogDir, 1, Len(q))
        <5>1. Len(q) <= Len(LogDir) /\ SubSeq(q, 1, Len(q)) = SubSeq(LogDir, 1, Len(q))
          BY <3>2 DEF IsPrefix
        <5>2. SubSeq(q, 1, Len(q)) = q
          BY <2>1
        <5> QED BY <5>1, <5>2
      <4>3. Len(q) \in 1 .. Len(LogDir)
        BY <1>0, <2>1, <4>1, <4>2, BootIs
      <4> QED BY <4>2, <4>3
    <3> QED BY <2>2, <3>1, <3>2
  <2>4. i = b
    BY <1>8, <2>3 DEF q
  <2> QED BY <1>6, <2>2, <2>4 DEF q
<1> QED BY <1>5, <1>9, <1>10 DEF Verified, OneBoot

(* What is refused though no mount hides another does lead somewhere else on  *)
(* the way to the log directory or below it (logmount.go:58-75).              *)
THEOREM RefusedHasCause ==
  ASSUME MountAssumption
  PROVE  MountSpec => []RefusedForCause
<1>1. TableInv => RefusedForCause
  <2> SUFFICES ASSUME TableInv, at = "refused", Hidden(table) = {},
                      \A p \in LogPaths \cup {SubSeq(LogDir, 1, k) : k \in 1 .. Len(LogDir)} :
                        /\ KindAt(table, p) = "flash"
                        /\ Resolve(table, p) = Resolve(table, <<"boot">>)
               PROVE  FALSE
    BY DEF RefusedForCause
  <2>1. table \in Mounts /\ ~Verified(table)
    BY DEF TableInv
  <2> QED BY <2>1, NothingInTheWay
<1> QED BY <1>1, TableInvariant, PTL
=============================================================================
