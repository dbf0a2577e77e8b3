------------------------------ MODULE LogStore ------------------------------
(***************************************************************************)
(* The log directory on the boot flash: transaction directories with their   *)
(* active.json, the flat logs with their numbered generations, every process *)
(* that changes them under .transaction.lock (a worker opening its journal   *)
(* in persist.go's NewJournal, `usb-guardian list` maintaining the logs, the *)
(* recovery, and the page's clear_logs in api_helpers.php), and those that   *)
(* write a flat log without it: the page, the adapter and the boot script    *)
(* append to one and roll it in their own way, each its own log.             *)
(*                                                                           *)
(* A rotation is a walk of single effects, one rename or removal per step;   *)
(* its process may die or give up between any two.  What a worker does once  *)
(* its journal is open is EjectTransaction's subject; here it only ends.     *)
(***************************************************************************)
EXTENDS Integers, Sequences, SequencesExt, FiniteSetsExt

CONSTANTS
  Jobs,
  Nobody,      (* the lock is free                                           *)
  Maintainer,  (* a process of `usb-guardian list`                            *)
  Recoverer,   (* a process of `usb-guardian recover`                         *)
  Clearer,     (* the web request clear_logs                                  *)
  Logs,        (* names of the flat logs                                      *)
  LogKeep,     (* configured number of transactions                           *)
  PerFile,     (* size above which a rotation rolls a flat log                *)
  FlatAt,      (* size from which its own writer rolls it                     *)
  MaxTotal,    (* configured size of everything                               *)
  Retention,   (* configured age                                              *)
  MaxSize,     (* bound: size of a transaction directory                      *)
  MaxTime      (* bound: the clock                                            *)

ASSUME StoreAssumption ==
  /\ IsFiniteSet(Jobs) /\ IsFiniteSet(Logs)
  /\ LogKeep \in 1 .. 100
  /\ PerFile \in Nat \ {0} /\ FlatAt \in Nat \ {0}
  /\ MaxTotal \in Nat \ {0} /\ Retention \in Nat \ {0}
  /\ MaxSize \in Nat /\ MaxTime \in Nat

Rotators == Jobs \cup {Maintainer}
Processes == Rotators \cup {Recoverer, Clearer}

ASSUME ProcessesDistinct ==
  /\ Nobody \notin Processes
  /\ Maintainer \notin Jobs /\ Recoverer \notin Rotators
  /\ Clearer \notin Rotators \cup {Recoverer}

KeepLogs == IF LogKeep > 5 THEN 5 ELSE LogKeep
(* A generation above KeepLogs is left from a time of a larger log_keep.      *)
Generations == 0 .. KeepLogs + 1
Absent == [size |-> 0, mod |-> 0]

VARIABLES
  now,      (* clock                                                          *)
  lock,     (* holder of .transaction.lock                                    *)
  dir,      (* per job: its transaction directory                             *)
  log,      (* per flat log and generation: the file                          *)
  listed,   (* per job: what its job file tells the web API                   *)
  pc,       (* per process: where it is                                       *)
  rot,      (* per rotator: what its rotation remembers                       *)
  roller,   (* per flat log: how far its own writer is in rolling it          *)
  crossed   (* flat logs so rolled since a rotation last looked at their size *)
flat == <<roller, crossed>>
vars == <<now, lock, dir, log, listed, pc, rot, flat>>

RotationSteps == {"roll", "expire", "prune", "rotated"}
NoRotation == [names |-> {}, ops |-> <<>>, infos |-> {}, files |-> {},
               cutoff |-> 0, total |-> 0, base |-> 0, remaining |-> 0]
NoDir == [is |-> "none", size |-> 0, mod |-> 0]

TypeOK ==
  /\ now \in 0 .. MaxTime
  /\ lock \in Processes \cup {Nobody}
  /\ \A j \in Jobs : /\ dir[j].is \in {"none", "bare", "kept", "active"}
                     /\ dir[j].size \in 0 .. MaxSize /\ dir[j].mod \in 0 .. MaxTime
  /\ \A n \in Logs, g \in Generations :
        log[n][g].size \in 0 .. PerFile + 1 /\ log[n][g].mod \in 0 .. MaxTime
  /\ listed \in [Jobs -> {"absent", "queued", "running", "ended"}]
  /\ pc \in [Processes -> RotationSteps \cup {"idle", "mark", "note", "working",
                                              "ended", "refused", "looked", "clearing",
                                              "retiring"}]
  /\ \A p \in Rotators : rot[p].remaining \in 0 .. Cardinality(Jobs) /\ rot[p].total >= 0
  /\ roller \in [Logs -> {"idle", "unlink", "shift", "move"}] /\ crossed \subseteq Logs

Init ==
  /\ now = 0 /\ lock = Nobody
  /\ dir = [j \in Jobs |-> NoDir]
  /\ \E left \in {Absent, [size |-> PerFile + 1, mod |-> 0]} :
       log = [n \in Logs |-> [g \in Generations |->
                IF g = KeepLogs + 1 THEN left ELSE Absent]]
  /\ listed = [j \in Jobs |-> "absent"]
  /\ pc = [p \in Processes |-> "idle"]
  /\ rot = [p \in Rotators |-> NoRotation]
  /\ roller = [n \in Logs |-> "idle"] /\ crossed = {}

At(p, step) == pc[p] = step
Move(p, step) == pc' = [pc EXCEPT ![p] = step]
IsLog(n, g) == log[n][g].size > 0
Expired(mod) == mod < now - Retention

-----------------------------------------------------------------------------
(* rotateTransactions with rotateRootLogs.                                    *)

(* Variant: from the youngest generation up.                                  *)
RollOpsUp(n) ==
  [k \in 1 .. 2 * KeepLogs |->
     [do |-> IF k % 2 = 1 THEN "remove" ELSE "move", name |-> n, to |-> (k + 1) \div 2]]

(* From the oldest generation down: make room at `to`, then move the next     *)
(* younger one there; the flat log itself comes last.                         *)
RollOps(n) ==
  [k \in 1 .. 2 * KeepLogs |->
     LET to == KeepLogs - (k - 1) \div 2
     IN  [do |-> IF k % 2 = 1 THEN "remove" ELSE "move", name |-> n, to |-> to]]

(* What the logs are once generation to - 1 has been renamed to generation to. *)
MovedUp(n, to) ==
  IF IsLog(n, to - 1)
  THEN [log EXCEPT ![n][to] = log[n][to - 1], ![n][to - 1] = Absent]
  ELSE log

BeginRotation(p) ==
  /\ Move(p, "roll")
  /\ rot' = [rot EXCEPT ![p] = [NoRotation EXCEPT !.names = Logs]]

Roll(p) ==
  /\ At(p, "roll") /\ rot[p].ops = <<>>
  /\ \E n \in rot[p].names :
       /\ rot' = [rot EXCEPT ![p].names = @ \ {n},
                             ![p].ops = IF log[n][0].size > PerFile THEN RollOps(n) ELSE <<>>]
       /\ crossed' = crossed \ {n}
  /\ UNCHANGED <<now, lock, dir, log, listed, pc, roller>>

(* A rename of a generation that finds nothing is no error, but that of the   *)
(* flat log itself is, and so is the removal of an expired file: with         *)
(* nothing there only RotationFails is left.                                  *)
FileStep(p) ==
  /\ pc[p] \in {"roll", "expire"} /\ rot[p].ops # <<>>
  /\ LET op == Head(rot[p].ops) IN
       /\ op.do = "move" /\ op.to = 1 => IsLog(op.name, 0)
       /\ At(p, "expire") /\ op.to <= KeepLogs => IsLog(op.name, op.to)
       /\ log' = IF op.do = "remove" THEN [log EXCEPT ![op.name][op.to] = Absent]
                 ELSE MovedUp(op.name, op.to)
  /\ rot' = [rot EXCEPT ![p].ops = Tail(@)]
  /\ UNCHANGED <<now, lock, dir, listed, pc, flat>>

Superfluous == {f \in Logs \X (Generations \ {0}) :
                  /\ IsLog(f[1], f[2])
                  /\ f[2] > KeepLogs \/ Expired(log[f[1]][f[2]].mod)}

Expire(p) ==
  /\ At(p, "roll") /\ rot[p].ops = <<>> /\ rot[p].names = {}
  /\ rot' = [rot EXCEPT ![p].ops =
               SetToSeq({[do |-> "remove", name |-> f[1], to |-> f[2]] : f \in Superfluous})]
  /\ Move(p, "expire")
  /\ UNCHANGED <<now, lock, dir, log, listed, flat>>

Dirs == {j \in Jobs : dir[j].is # "none"}
Rolled == {f \in Logs \X (Generations \ {0}) : IsLog(f[1], f[2])}
DirSizes == [j \in Jobs |-> dir[j].size]
LogSizes == [f \in Logs \X Generations |-> log[f[1]][f[2]].size]

(* The stat of every file, whether a directory has an active.json, and the    *)
(* age that counts as old in this rotation.                                   *)
Gather(p) ==
  /\ At(p, "expire") /\ rot[p].ops = <<>>
  /\ LET infos == {[job |-> j, mod |-> dir[j].mod, size |-> dir[j].size,
                    active |-> dir[j].is = "active"] : j \in Dirs}
         there == {f \in Rolled : f[2] <= KeepLogs}
         files == {[name |-> f[1], gen |-> f[2], mod |-> log[f[1]][f[2]].mod,
                    size |-> log[f[1]][f[2]].size] : f \in there}
         base  == SumFunctionOnSet(LogSizes, Logs \X {0})
     IN  rot' = [rot EXCEPT ![p].infos = infos, ![p].files = files, ![p].base = base,
                   ![p].total = base + SumFunctionOnSet(LogSizes, there)
                                     + SumFunctionOnSet(DirSizes, Dirs),
                   ![p].remaining = Cardinality(Dirs),
                   ![p].cutoff = now - Retention]
  /\ Move(p, "prune")
  /\ UNCHANGED <<now, lock, dir, log, listed, flat>>

Oldest(S) == {t \in S : \A u \in S : t.mod <= u.mod}

(* Variant: the total is not compared any more.                               *)
DispensableByCount(r, t) ==
  ~t.active /\ (t.mod < r.cutoff \/ r.remaining > LogKeep)

Dispensable(r, t) ==
  ~t.active /\ (t.mod < r.cutoff \/ r.total > MaxTotal \/ r.remaining > LogKeep)

(* Variant: a removed directory stays on the list.                            *)
PruneAgain(p) ==
  /\ At(p, "prune")
  /\ \E t \in Oldest(rot[p].infos) :
       /\ Dispensable(rot[p], t)
       /\ dir' = [dir EXCEPT ![t.job] = NoDir]
       /\ rot' = [rot EXCEPT ![p].total = @ - t.size, ![p].remaining = @ - 1]
  /\ UNCHANGED <<now, lock, log, listed, pc, flat>>

(* RemoveAll of a directory without active.json: how far it came is nothing   *)
(* a later rotation would notice but in the size.                             *)
Prune(p) ==
  /\ At(p, "prune")
  /\ \E t \in Oldest(rot[p].infos) :
       IF Dispensable(rot[p], t)
       THEN /\ dir' = [dir EXCEPT ![t.job] = NoDir]
            /\ rot' = [rot EXCEPT ![p].infos = @ \ {t}, ![p].total = @ - t.size,
                                  ![p].remaining = @ - 1]
       ELSE /\ rot' = [rot EXCEPT ![p].infos = @ \ {t}]
            /\ UNCHANGED dir
  /\ UNCHANGED <<now, lock, log, listed, pc, flat>>

Trim(p) ==
  /\ At(p, "prune") /\ rot[p].infos = {} /\ rot[p].total > MaxTotal
  /\ \E f \in Oldest(rot[p].files) :
       /\ log' = [log EXCEPT ![f.name][f.gen] = Absent]
       /\ rot' = [rot EXCEPT ![p].files = @ \ {f}, ![p].total = @ - f.size]
  /\ UNCHANGED <<now, lock, dir, listed, pc, flat>>

Rotated(p) ==
  /\ At(p, "prune") /\ rot[p].infos = {}
  /\ rot[p].total <= MaxTotal \/ rot[p].files = {}
  /\ Move(p, "rotated")
  /\ UNCHANGED <<now, lock, dir, log, listed, rot, flat>>

Leave(p, step) ==
  /\ lock' = IF lock = p THEN Nobody ELSE lock
  /\ rot' = IF p \in Rotators THEN [rot EXCEPT ![p] = NoRotation] ELSE rot
  /\ Move(p, step)

AfterAll(p) == IF p \in Jobs THEN "ended" ELSE "idle"

(* Any stat, walk, removal or directory sync may fail; the deferred Close     *)
(* gives the lock back.                                                       *)
RotationFails(p) ==
  /\ pc[p] \in RotationSteps
  /\ Leave(p, AfterAll(p))
  /\ listed' = IF p \in Jobs THEN [listed EXCEPT ![p] = "ended"] ELSE listed
  /\ UNCHANGED <<now, dir, log, flat>>

RotationStep(p) == Roll(p) \/ FileStep(p) \/ Expire(p) \/ Gather(p) \/ Prune(p)
                     \/ Trim(p) \/ Rotated(p) \/ RotationFails(p)

-----------------------------------------------------------------------------
(* The worker as far as its journal.                                          *)

(* The page's launch: under api.lock, which clear_logs holds too, and only    *)
(* when no job file is queued or running.                                     *)
Unfinished == {j \in Jobs : listed[j] \in {"queued", "running"}}
Launch(j) ==
  /\ listed[j] = "absent" /\ Unfinished = {}
  /\ pc[Clearer] = "idle"
  /\ listed' = [listed EXCEPT ![j] = "queued"]
  /\ UNCHANGED <<now, lock, dir, log, pc, rot, flat>>

(* The API takes a job that stays queued for lost; its process may be slow.   *)
GiveUp(j) ==
  /\ listed[j] = "queued" /\ At(j, "idle")
  /\ listed' = [listed EXCEPT ![j] = "ended"]
  /\ UNCHANGED <<now, lock, dir, log, pc, rot, flat>>

StartWorker(j) ==
  /\ At(j, "idle") /\ listed[j] # "absent"
  /\ IF lock = Nobody
     THEN lock' = j /\ BeginRotation(j) /\ listed' = [listed EXCEPT ![j] = "running"]
     ELSE Move(j, "refused") /\ listed' = [listed EXCEPT ![j] = "ended"] /\ UNCHANGED <<lock, rot>>
  /\ UNCHANGED <<now, dir, log, flat>>

MakeDir(j) ==
  /\ At(j, "rotated")
  /\ dir' = [dir EXCEPT ![j] = [NoDir EXCEPT !.is = "bare"]]
  /\ rot' = [rot EXCEPT ![j] = NoRotation]
  /\ Move(j, "mark")
  /\ UNCHANGED <<now, lock, log, listed, flat>>

MarkerWritten(j) ==
  \E size \in 1 .. MaxSize :
    dir' = [dir EXCEPT ![j] = [is |-> "active", size |-> size, mod |-> now]]

(* A failing write gives the lock back; the directory stays behind, with      *)
(* active.json in it when only the last sync failed.                          *)
WriteMarker(j) ==
  /\ At(j, "mark")
  /\ \/ /\ MarkerWritten(j)
        /\ Move(j, "note") /\ UNCHANGED <<lock, listed, rot>>
     \/ /\ MarkerWritten(j) \/ UNCHANGED dir
        /\ Leave(j, "ended") /\ listed' = [listed EXCEPT ![j] = "ended"]
  /\ UNCHANGED <<now, log, flat>>

(* The first timeline record; if it fails, the lock is given back and         *)
(* active.json stays behind.                                                  *)
FirstRecord(j) ==
  /\ At(j, "note")
  /\ \/ Move(j, "working") /\ UNCHANGED <<lock, listed, rot>>
     \/ Leave(j, "ended") /\ listed' = [listed EXCEPT ![j] = "ended"]
  /\ UNCHANGED <<now, dir, log, flat>>

(* Finish, or only Close when a recovery is pending.                          *)
EndWorker(j) ==
  /\ At(j, "working")
  /\ \/ dir' = [dir EXCEPT ![j].is = "kept", ![j].mod = now]
     \/ UNCHANGED dir
  /\ Leave(j, "ended") /\ listed' = [listed EXCEPT ![j] = "ended"]
  /\ UNCHANGED <<now, log, flat>>

WorkerStep(j) == Launch(j) \/ GiveUp(j) \/ StartWorker(j) \/ MakeDir(j) \/ WriteMarker(j)
                   \/ FirstRecord(j) \/ EndWorker(j)

-----------------------------------------------------------------------------
(* Variant: the lock is not asked for.                                        *)
MaintainUnlocked ==
  /\ At(Maintainer, "idle")
  /\ BeginRotation(Maintainer)
  /\ UNCHANGED <<now, lock, dir, log, listed, flat>>

(* `list`: when the lock is taken there is nothing to do.                     *)
Maintain ==
  /\ At(Maintainer, "idle") /\ lock = Nobody
  /\ lock' = Maintainer
  /\ BeginRotation(Maintainer)
  /\ UNCHANGED <<now, dir, log, listed, flat>>

MaintainEnds ==
  /\ At(Maintainer, "rotated")
  /\ Leave(Maintainer, "idle")
  /\ UNCHANGED <<now, dir, log, listed, flat>>

(* The recovery, reduced to what it does to active.json.                      *)
Recover ==
  /\ At(Recoverer, "idle") /\ lock = Nobody
  /\ lock' = Recoverer /\ Move(Recoverer, "retiring")
  /\ UNCHANGED <<now, dir, log, listed, rot, flat>>

Retire ==
  /\ At(Recoverer, "retiring")
  /\ \/ \E j \in Jobs : /\ dir[j].is = "active"
                        /\ dir' = [dir EXCEPT ![j].is = "kept", ![j].mod = now]
                        /\ listed' = [listed EXCEPT ![j] = "ended"]
                        /\ UNCHANGED <<lock, rot, pc>>
     \/ Leave(Recoverer, "idle") /\ UNCHANGED <<dir, listed>>
  /\ UNCHANGED <<now, log, flat>>

(* clear_logs: the job files, then the markers, and only then the lock.       *)
ClearLooks ==
  /\ At(Clearer, "idle")
  /\ Unfinished = {}
  /\ \A j \in Jobs : dir[j].is # "active"
  /\ Move(Clearer, "looked")
  /\ UNCHANGED <<now, lock, dir, log, listed, rot, flat>>

(* Variant: it goes on although the lock is taken.                            *)
ClearUnlocked ==
  /\ At(Clearer, "looked")
  /\ Move(Clearer, "clearing")
  /\ UNCHANGED <<now, lock, dir, log, listed, rot, flat>>

ClearLocks ==
  /\ At(Clearer, "looked")
  /\ IF lock = Nobody /\ \A n \in Logs : roller[n] = "idle"
     THEN lock' = Clearer /\ Move(Clearer, "clearing")
     ELSE UNCHANGED lock /\ Move(Clearer, "idle")
  /\ UNCHANGED <<now, dir, log, listed, rot, flat>>

Clear ==
  /\ At(Clearer, "clearing")
  /\ \/ \E j \in Jobs : dir[j].is # "none" /\ dir' = [dir EXCEPT ![j] = NoDir] /\ UNCHANGED log
     \/ \E n \in Logs, g \in Generations :
          IsLog(n, g) /\ log' = [log EXCEPT ![n][g] = Absent] /\ UNCHANGED dir
  /\ UNCHANGED <<now, lock, listed, pc, rot, flat>>

ClearEnds ==
  /\ At(Clearer, "clearing")
  /\ Leave(Clearer, "idle")
  /\ UNCHANGED <<now, dir, log, listed, flat>>

(* The page, the adapter and the boot script write a flat log without the     *)
(* transaction lock: guardian_api_log, guardian_launch_eject, adapter_log and *)
(* rotate_service_log.  One at a time does so for each log, and none during a *)
(* clearing, which holds flat-log.lock and api.lock too.  A line counts with  *)
(* the file that has the name when it is written: what a process still writes *)
(* through a handle older than a renaming is left out.                        *)
AppendLog(n) ==
  /\ pc[Clearer] # "clearing" /\ roller[n] = "idle"
  /\ log[n][0].size <= PerFile
  /\ log' = [log EXCEPT ![n][0] = [size |-> @.size + 1, mod |-> now]]
  /\ UNCHANGED <<now, lock, dir, listed, pc, rot, flat>>

(* guardian_rotate_flat_log and its like: a look at the size, an unlink of    *)
(* generation 2, a rename of generation 1 if there is one, a rename of the    *)
(* log; no error of these is looked at, and the process may die in between.   *)
Rolling(n, from, to) ==
  /\ roller[n] = from
  /\ roller' = [roller EXCEPT ![n] = to] /\ crossed' = crossed \cup {n}
  /\ UNCHANGED <<now, lock, dir, listed, pc, rot>>

FlatLooks(n) ==
  /\ pc[Clearer] # "clearing" /\ log[n][0].size >= FlatAt
  /\ Rolling(n, "idle", "unlink") /\ UNCHANGED log

FlatUnlinks(n) ==
  /\ Rolling(n, "unlink", "shift")
  /\ log' = [log EXCEPT ![n][2] = Absent]

FlatShifts(n) == Rolling(n, "shift", "move") /\ log' = MovedUp(n, 2)
FlatMoves(n) == Rolling(n, "move", "idle") /\ log' = MovedUp(n, 1)
FlatStops(n) ==
  /\ roller[n] # "idle"
  /\ Rolling(n, roller[n], "idle") /\ UNCHANGED log

FlatStep(n) == AppendLog(n) \/ FlatLooks(n) \/ FlatUnlinks(n) \/ FlatShifts(n) \/ FlatMoves(n)
                 \/ FlatStops(n)

(* Any process dies; the kernel gives its lock back.                          *)
Die(p) ==
  /\ pc[p] \notin {"idle", "ended", "refused"}
  /\ Leave(p, AfterAll(p))
  /\ UNCHANGED <<now, dir, log, listed, flat>>

Tick ==
  /\ now < MaxTime /\ now' = now + 1
  /\ UNCHANGED <<lock, dir, log, listed, pc, rot, flat>>

ClearStep == ClearLooks \/ ClearLocks \/ Clear \/ ClearEnds
Next ==
  \/ \E p \in Rotators : RotationStep(p)
  \/ \E j \in Jobs : WorkerStep(j)
  \/ Maintain \/ MaintainEnds \/ Recover \/ Retire
  \/ ClearStep
  \/ \E n \in Logs : FlatStep(n)
  \/ \E p \in Processes : Die(p)
  \/ Tick

Spec == Init /\ [][Next]_vars

-----------------------------------------------------------------------------
(* A rotation by `list` or by the next worker, interrupted and repeated at    *)
(* will, takes no directory with an active.json (persist.go:341, 376): the    *)
(* evidence of an interrupted transaction goes only by the hand of its own    *)
(* worker, of the recovery, or of whoever clears the logs on demand.          *)
EvidenceKept ==
  [][\A j \in Jobs : dir[j].is = "active" /\ dir'[j].is # "active"
       => At(j, "working") \/ At(Recoverer, "retiring") \/ At(Clearer, "clearing")]_vars

(* README.md:143: the logs are not cleared while a transaction or a recovery  *)
(* is open, so clear_logs takes no active.json either.                        *)
ClearSparesEvidence ==
  [][\A j \in Jobs : dir[j].is = "active" /\ dir'[j].is # "active" => ~At(Clearer, "clearing")]_vars

(* A rotation that came to its end brought the store within its limits, or    *)
(* has left nothing it may remove (persist.go:344-368): both limits, counted  *)
(* with what interrupted rotations left behind, and not with a flat log that  *)
(* grew since it was looked at; and the limit of bytes as long as no flat log *)
(* was rolled by another hand while the rotation went on.                     *)
StoreBounded ==
  \A p \in Rotators : At(p, "rotated") =>
    LET mayGo == {j \in Dirs : dir[j].is # "active"}
    IN  /\ Cardinality(Dirs) <= LogKeep \/ mayGo = {}
        /\ \/ crossed # {}
           \/ rot[p].base + SumFunctionOnSet(DirSizes, Dirs)
                 + SumFunctionOnSet(LogSizes, Rolled) <= MaxTotal
           \/ mayGo = {} /\ Rolled = {}

(* Younger logs never go before older ones (persist.go:405-415, 345-357):     *)
(* what a rolling or a pruning loses that is not expired is the oldest of its *)
(* kind, in whatever order deaths and repetitions put the renames, and        *)
(* whatever an earlier roll of the page, complete or not, left behind.  It    *)
(* says nothing of a flat log from when its own writer rolls it until a       *)
(* rotation looks at it again: the two have no lock in common                 *)
(* (api_helpers.php:174), and that roll drops generation 2 whether or not     *)
(* there are older ones.  A file is told by the time of its last line.        *)
GenerationTimes(n) == {log[n][g].mod : g \in {h \in 0 .. KeepLogs : IsLog(n, h)}}
OldestFirst ==
  [][pc[Clearer] # "clearing" =>
       /\ \A n \in Logs \ crossed' : log'[n][0].size <= log[n][0].size =>
            \A lost \in GenerationTimes(n) \ GenerationTimes(n)' :
               Expired(lost) \/ \A m \in GenerationTimes(n)' : lost <= m
       /\ \A j, k \in Jobs :
            /\ dir[j].is # "none" /\ dir'[j].is = "none" /\ dir'[k].is \in {"kept", "bare"}
            /\ dir[k] = dir'[k]
            => dir[j].mod <= dir[k].mod]_vars

(* Whoever changes transaction directories does so alone: a worker, `list`,   *)
(* the recovery and clear_logs are never at work in the store together        *)
(* (persist.go:53, 376; api_helpers.php:546), whichever of them died or gave  *)
(* up before.  It says nothing of the flat logs' own writers.                 *)
Writing(p) == pc[p] \in RotationSteps \cup {"mark", "note", "working", "retiring", "clearing"}
OneWriter == \A p, q \in Processes : Writing(p) /\ Writing(q) => p = q
=============================================================================
