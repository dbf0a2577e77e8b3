---------------------------- MODULE BarrierProofs ----------------------------
(***************************************************************************)
(* The root operation barrier of EjectTransaction, for any sets of jobs and  *)
(* adapter slots and any bounds, as long as no worker and no recovery has    *)
(* died.  What a death does to it is found by the runs `stranded`, `stolen`  *)
(* and `crossed`; with one job, the unmount is under the barrier even then.  *)
(***************************************************************************)
EXTENDS EjectContractProofs

(* One way to be sure that nobody else is at the adapter: no caller has left  *)
(* an adapter process behind.  The other: there is one job.                   *)
Single == \A j, k \in Jobs : j = k
Attended ==
  \A s \in Slots : Busy(s) =>
    /\ Called(s)
    /\ proc[s].owner = "recovery" => proc[s].job = rec.job

(* The barrier is up from the last sample of Quiesce on.                      *)
AtUnmount == {"strict_unmount", "unmount", "ud_finalize"}
Raised(j) ==
  \/ pc[j] \in AtUnmount
  \/ pc[j] = "quiesce_wait"
       /\ \E s \in Slots : proc[s].job = j /\ proc[s].at \in {"q_done", "ok"}
BarrierUp ==
  \A j \in Jobs :
    /\ Raised(j) => marker = j /\ udop # "committed"
    /\ pc[j] = "quiesce_wait" =>
         \A s \in Slots : Busy(s) /\ proc[s].job = j => proc[s].at \in QuiesceAt \cup Ended

LEMMA UnmountNames ==
  /\ AtUnmount \subseteq Locked \ Waiting
  /\ "quiesce_wait" \in Waiting /\ Waiting \subseteq Locked
  /\ \A c \in CheckStages : c \notin Waiting \cup AtUnmount
                              /\ After[c] \notin Waiting \cup AtUnmount
  BY StepNames, WaitingLocked DEF AtUnmount, ActStages, Waiting, WaitStages, After

(* The processes at the adapter while a worker has the lock are its own, and  *)
(* there are none unless it waits.                                            *)
LEMMA AloneAtAdapter ==
  ASSUME Typed, Exclusive, Sound, Attended \/ Single,
         NEW j \in Jobs, pc[j] \in Locked, NEW s \in Slots, Busy(s)
  PROVE  pc[j] \in Waiting /\ proc[s].job = j /\ proc[s].owner = "worker"
PROOF
  <1>1. lock = j /\ j # Recoverer /\ pc[j] # "dead"
    BY TransactionAssumption, StepNames DEF Exclusive, WorkerHolds
  <1>2. CASE Attended
    <2>1. proc[s].owner \in {"worker", "recovery"}
      BY <1>2 DEF Attended, Called
    <2>2. proc[s].owner # "recovery"
      BY <1>1 DEF Exclusive, CallerWaits, RecoveryHolds
    <2>3. proc[s].job \in Jobs /\ pc[proc[s].job] \in Waiting
      BY <2>1, <2>2 DEF Exclusive, CallerWaits
    <2>4. proc[s].job = j
      BY <1>1, <2>3, WaitingLocked DEF Exclusive, WorkerHolds
    <2> QED
      BY <2>1, <2>2, <2>3, <2>4
  <1>3. CASE Single
    <2>1. proc[s].job = j
      BY <1>3 DEF Single, Typed, HasJob, Busy
    <2> QED
      BY <1>1, <2>1, OnlyChild DEF Sound
  <1> QED
    BY <1>2, <1>3

(* A worker's step leaves the marker and UD alone, so the barrier is as much  *)
(* up as it was.                                                              *)
LEMMA BarrierKept ==
  ASSUME Typed, BarrierUp, NEW i \in Jobs, NEW to, Move(i, to), UNCHANGED <<marker, udop>>,
         \A t \in Slots : \/ proc'[t] = proc[t] \/ proc'[t].at = "idle"
                          \/ Busy(t)' /\ proc'[t].job = i,
         to \in AtUnmount => Raised(i), to # "quiesce_wait"
  PROVE  BarrierUp'
PROOF
  <1>1. pc'[i] = to /\ \A k \in Jobs : k # i => pc'[k] = pc[k]
    BY DEF Move, Typed, TypeOK
  <1>2. ASSUME NEW j \in Jobs, Raised(j)'
        PROVE  Raised(j)
    <2>1. CASE j = i
      BY <1>1, <1>2, <2>1 DEF Raised
    <2>2. CASE j # i
      BY <1>1, <1>2, <2>2 DEF Raised
    <2> QED
      BY <2>1, <2>2
  <1>3. ASSUME NEW j \in Jobs, pc'[j] = "quiesce_wait", NEW s \in Slots, Busy(s)',
               proc'[s].job = j
        PROVE  proc'[s].at \in QuiesceAt \cup Ended
    <2>1. j # i /\ pc[j] = "quiesce_wait"
      BY <1>1, <1>3
    <2>2. proc'[s] = proc[s] /\ Busy(s)
      BY <1>3, <2>1 DEF Busy
    <2> QED
      BY <1>3, <2>1, <2>2 DEF BarrierUp
  <1> QED
    BY <1>2, <1>3 DEF BarrierUp

LEMMA WorkerStepBarrier ==
  ASSUME Typed, Exclusive, Sound, Attended \/ Single, BarrierUp,
         NEW i \in Jobs, WorkerStep(i)
  PROVE  BarrierUp'
PROOF
  <1> USE DEF hostVars, adapterVars, At
  <1>1. ASSUME NEW s \in Slots, Collect(s)
        PROVE  \A t \in Slots : proc'[t] = proc[t] \/ proc'[t].at = "idle"
    BY <1>1, CollectType DEF Typed, TypeOK
  <1>2. ASSUME NEW s \in Slots, NEW op \in Running, Spawn(s, op, i, "worker")
        PROVE  \A t \in Slots : proc'[t] = proc[t] \/ (Busy(t)' /\ proc'[t].job = i)
    BY <1>2, SpawnType DEF Typed, TypeOK, Busy, Running, QuiesceAt, FinalizeAt, RollbackAt,
       ReleaseAt
  <1>3. CASE Quiesce(i)
    <2>1. PICK s \in Slots : Spawn(s, "q_inspect", i, "worker")
      BY <1>3 DEF Quiesce
    <2>2. /\ proc'[s].at = "q_inspect" /\ proc'[s].job = i
          /\ \A t \in Slots : t # s => proc'[t] = proc[t]
      BY <2>1, SpawnType DEF Typed, TypeOK, Running, QuiesceAt
    <2>3. pc[i] \in Locked \ Waiting
      BY <1>3, StepNames, WaitingLocked DEF Quiesce, ActStages
    <2>4. \A t \in Slots : ~Busy(t)
      BY <2>3, AloneAtAdapter
    <2>5. pc'[i] = "quiesce_wait" /\ \A k \in Jobs : k # i => pc'[k] = pc[k]
      BY <1>3 DEF Quiesce, Move, Typed, TypeOK
    <2>6. \A t \in Slots : proc'[t].at \in {"idle", "q_inspect"}
      BY <2>2, <2>4 DEF Busy
    <2>7. \A j \in Jobs : ~(Raised(j)' /\ ~Raised(j))
      BY <2>5, <2>6 DEF Raised, AtUnmount
    <2> QED
      BY <1>3, <2>6, <2>7 DEF Quiesce, BarrierUp, Busy, QuiesceAt
  <1>4. CASE Quiesced(i)
    <2>1. PICK s \in Slots : Child(s, i) /\ proc[s].at = "ok" /\ Collect(s)
      BY <1>4 DEF Quiesced
    <2>2. Raised(i)
      BY <1>4, <2>1 DEF Quiesced, Raised, Child
    <2> QED
      BY <1>1, <1>4, <2>1, <2>2, BarrierKept DEF Quiesced
  <1>5. CASE ListMounts(i) \/ Unmount(i)
    BY <1>5, BarrierKept DEF ListMounts, Unmount, Raised, AtUnmount
  <1>6. CASE Finalize(i)
    BY <1>2, <1>6, BarrierKept DEF Finalize, AtUnmount, Running, FinalizeAt
  <1>7. CASE Rollback(i)
    BY <1>2, <1>7, BarrierKept DEF Rollback, AtUnmount, Running, RollbackAt
  <1>8. CASE Finalized(i)
    BY <1>1, <1>8, BarrierKept DEF Finalized, AtUnmount
  <1>9. CASE CallFails(i)
    BY <1>1, <1>9, BarrierKept DEF CallFails, AtUnmount
  <1>10. CASE RolledBack(i)
    BY <1>1, <1>10, BarrierKept DEF RolledBack, AtUnmount
  <1>11. CASE Check(i)
    BY <1>11, BarrierKept, UnmountNames DEF Check
  <1>12. CASE StartWorker(i) \/ OpenJournal(i) \/ JournalRefused(i) \/ ExitWorker(i)
    BY <1>12, BarrierKept DEF StartWorker, OpenJournal, JournalRefused, ExitWorker, AtUnmount
  <1>13. CASE OpenExclusive(i) \/ RemoveUSB(i) \/ Publish(i) \/ Fail(i)
    BY <1>13, BarrierKept DEF OpenExclusive, RemoveUSB, Publish, Fail, AtUnmount
  <1>14. CASE NothingToRelease(i) \/ SkipRollback(i) \/ RecordFailure(i) \/ CloseJournal(i)
    BY <1>14, BarrierKept DEF NothingToRelease, SkipRollback, RecordFailure, CloseJournal,
       AtUnmount
  <1> QED
    BY <1>3, <1>4, <1>5, <1>6, <1>7, <1>8, <1>9, <1>10, <1>11, <1>12, <1>13, <1>14
    DEF WorkerStep

(* While the recovery has the lock, nobody is in its transaction.             *)
LEMMA RecoveryAlone ==
  ASSUME Typed, Exclusive, RStart \/ RecoveryStep \/ RecoveryCrash
  PROVE  \A j \in Jobs : pc'[j] = pc[j] /\ pc[j] \notin Locked
PROOF
  <1>1. pc' = pc
    BY DEF RStart, RecoveryStep, RecoveryCrash, RNoRollback, RRollback, RRolledBack, RRecord,
       RRetire, RDone, RSkip, RAdopt, RecoveryKeeps
  <1>2. lock = NoJob \/ lock = Recoverer
    BY DEF RStart, RecoveryStep, RecoveryCrash, RNoRollback, RRollback, RRolledBack, RRecord,
       RRetire, RDone, RSkip, RAdopt, Recovering, Exclusive, RecoveryHolds
  <1> QED
    BY <1>1, <1>2, HostAssumption, TransactionAssumption DEF Exclusive, WorkerHolds

(* Where the steps of a quiesce arrive.                                       *)
LEMMA QuiesceArrivesAt ==
  ASSUME AdapterTypeOK, NEW s \in Slots
  PROVE  /\ QInspect(s) => proc'[s].at = "q_announce"
         /\ QAnnounce(s) => proc'[s].at = "q_create"
         /\ QCreate(s) => proc'[s].at = "q_sign"
         /\ QSign(s) => proc'[s].at = "q_record"
         /\ QRecord(s) => proc'[s].at = "q_acquired"
         /\ QAcquired(s) => proc'[s].at = "q_barrier"
         /\ QBarrier(s) => proc'[s].at = "q_done"
         /\ QDone(s) => proc'[s].at = "ok"
         /\ QRefuse(s) => proc'[s].at = "refused"
PROOF
  <1> USE DEF AdapterTypeOK, Procs, Goto, Write
  <1>1. QInspect(s) => proc'[s].at = "q_announce"
    BY DEF QInspect
  <1>2. QAnnounce(s) => proc'[s].at = "q_create"
    BY DEF QAnnounce
  <1>3. QCreate(s) => proc'[s].at = "q_sign"
    BY DEF QCreate
  <1>4. QSign(s) => proc'[s].at = "q_record"
    BY DEF QSign
  <1>5. QRecord(s) => proc'[s].at = "q_acquired"
    BY DEF QRecord
  <1>6. QAcquired(s) => proc'[s].at = "q_barrier"
    BY DEF QAcquired
  <1>7. QBarrier(s) => proc'[s].at = "q_done"
    BY DEF QBarrier
  <1>8. QDone(s) => proc'[s].at = "ok"
    BY DEF QDone
  <1>9. QRefuse(s) => proc'[s].at = "refused"
    BY DEF QRefuse
  <1> QED
    BY <1>1, <1>2, <1>3, <1>4, <1>5, <1>6, <1>7, <1>8, <1>9

(* An adapter process raises the barrier with a sample that finds UD quiet    *)
(* under its marker, and no process lowers it that its worker does not wait   *)
(* for.                                                                       *)
LEMMA AdapterBarrier ==
  ASSUME Typed, Exclusive, Sound, Attended \/ Single, BarrierUp,
         NEW s \in Slots, AdapterActs(s)
  PROVE  BarrierUp'
PROOF
  <1> USE DEF Typed, TypeOK, AdapterTypeOK, hostVars
  <1>0. AdapterTyped /\ Employed /\ AdapterStep(s)
    BY TypedParts DEF AdapterActs
  <1>1. Busy(s) /\ SlotsHeld(s) /\ pc' = pc
    BY <1>0, AdapterFrame, AdapterStepTyped DEF AdapterActs, TransactionKeeps
  <1>2. \A t \in Slots : Busy(t)' => Busy(t) /\ proc'[t].job = proc[t].job
    BY <1>1 DEF SlotsHeld, Busy
  <1> SUFFICES ASSUME NEW j \in Jobs, pc[j] \in AtUnmount \cup {"quiesce_wait"}
               PROVE  /\ Raised(j)' => marker' = j /\ udop' # "committed"
                      /\ pc[j] = "quiesce_wait" =>
                           \A t \in Slots : Busy(t)' /\ proc'[t].job = j =>
                             proc'[t].at \in QuiesceAt \cup Ended
    BY <1>1 DEF BarrierUp, Raised
  <1>3. pc[j] \in Waiting /\ proc[s].job = j /\ proc[s].owner = "worker"
    BY <1>1, UnmountNames, AloneAtAdapter
  <1>4. pc[j] = "quiesce_wait" /\ proc[s].at \in QuiesceAt \cup Ended
    BY <1>1, <1>3, UnmountNames DEF BarrierUp
  <1>5. \A t \in Slots : Busy(t) => t = s
    BY <1>1, <1>3, <1>4, OnlyChild, AloneAtAdapter, UnmountNames DEF Sound
  <1>6. \/ /\ proc'[s].at \in QuiesceAt \cup {"refused", "killed"} /\ proc'[s].at # "q_done"
        \/ /\ proc'[s].at = "q_done" /\ marker = j /\ udop = "idle"
           /\ UNCHANGED <<marker, udop>>
        \/ /\ proc'[s].at = "ok" /\ proc[s].at = "q_done"
           /\ UNCHANGED <<marker, udop>>
    <2>1. ~FinalizeStep(s) /\ ~RollbackStep(s) /\ ~ReleaseStep(s) /\ ~Refuse(s)
            /\ ~OrphanExits(s)
      BY <1>3, <1>4 DEF FinalizeStep, FRead, FBarrier, FCommit, RollbackStep, RReadHeld,
         RReadFree, RBarrier, RMark, ReleaseStep, Guard, Unlink, Release, Delete, Refuse,
         OrphanExits, Goto, Write, QuiesceAt, Ended, FinalizeAt, RollbackAt, ReleaseAt
    <2>2. CASE Timeout(s) \/ QRefuse(s)
      BY <2>2, ArrivesAt, QuiesceArrivesAt
    <2>3. CASE QInspect(s) \/ QAnnounce(s) \/ QCreate(s) \/ QSign(s) \/ QRecord(s)
                 \/ QAcquired(s)
      <3>1. proc'[s].at \in {"q_announce", "q_create", "q_sign", "q_record", "q_acquired",
                             "q_barrier"}
        BY <2>3, QuiesceArrivesAt
      <3> QED
        BY <3>1 DEF QuiesceAt
    <2>4. CASE QBarrier(s)
      <3>1. proc'[s].at = "q_done"
        BY <2>4, QuiesceArrivesAt
      <3> QED
        BY <1>3, <2>4, <3>1 DEF QBarrier, Sample, OwnsMarker
    <2>5. CASE QDone(s)
      <3>1. proc'[s].at = "ok"
        BY <2>5, QuiesceArrivesAt
      <3> QED
        BY <2>5, <3>1 DEF QDone, Write
    <2> QED
      BY <1>0, <2>1, <2>2, <2>3, <2>4, <2>5 DEF AdapterStep, QuiesceStep
  <1>7. \A t \in Slots : t # s => proc'[t].at = "idle"
    BY <1>2, <1>5 DEF Busy
  <1>8. proc[s].at = "q_done" => Raised(j)
    BY <1>3, <1>4 DEF Raised
  <1> QED
    BY <1>1, <1>4, <1>6, <1>7, <1>8 DEF BarrierUp, Raised, AtUnmount, Busy, Ended, QuiesceAt

LEMMA DisturbanceBarrier ==
  ASSUME Typed, Exclusive, Sound, BarrierUp, Reboot \/ HostActs \/ DeviceLost \/ ShfsRestarts
  PROVE  BarrierUp'
PROOF
  <1>1. CASE Reboot
    <2>1. \A j \in Jobs : pc'[j] \notin AtUnmount \cup {"quiesce_wait"}
      BY <1>1, UnmountNames, StepNames DEF Reboot, Typed, TypeOK
    <2> QED
      BY <2>1 DEF BarrierUp, Raised
  <1>2. CASE HostActs \/ DeviceLost \/ ShfsRestarts
    <2>1. pc' = pc /\ proc' = proc
      BY <1>2 DEF HostActs, DeviceLost, ShfsRestarts, TransactionKeeps, adapterVars
    <2>2. /\ udop # "committed" => marker' = marker
          /\ udop' = "committed" /\ udop # "committed" => marker = NoJob
      BY <1>2 DEF HostActs, DeviceLost, ShfsRestarts, UDStep, UDStart, UDLook, UDAct,
         ShellMount, MarkerAges, Attach, Detach, hostVars
    <2> QED
      BY <2>1, <2>2, HostAssumption DEF BarrierUp, Raised, Busy
  <1> QED
    BY <1>1, <1>2

-----------------------------------------------------------------------------
(* A process at work has its state file: until it finalizes, the file can be  *)
(* rolled back, from then on it cannot; it unlinks no marker but its own, and *)
(* past the unlink there is none.                                             *)
Loaded == Running \ {"q_inspect", "f_read", "r_read"}
Direction(s) == IF proc[s].final THEN Irreversible ELSE Reversible
InStep(s) ==
  /\ proc[s].at \in Loaded =>
       proc[s].mem.phase \in Direction(s) /\ file[proc[s].job].phase \in Direction(s)
  /\ proc[s].final => proc[s].at \in ReleaseAt \cup Ended
  /\ proc[s].at = "unlink" => marker \in {proc[s].job, NoJob}
  /\ proc[s].at \in {"release", "delete"} => marker = NoJob

(* A marker is there for the sake of a state file.                            *)
MarkerFiled ==
  /\ \A j \in Jobs : marker = j => file[j] # NoFile
  /\ marker = Unsigned => \E j \in Jobs : file[j] # NoFile

OnlyForward ==
  \A j \in Jobs : file[j].phase \in Irreversible =>
    file'[j].phase \in Irreversible \cup {"none"}

LEMMA PhaseNames ==
  /\ Reversible \cap Irreversible = {} /\ "none" \notin Reversible \cup Irreversible
  /\ {"prepared", "acquiring", "acquired", "quiesced", "rollback_failed", "rolled_back"}
       \subseteq Reversible
  /\ {"finalizing", "finalized"} \subseteq Irreversible
  /\ \A f : f.phase \in Reversible \cup Irreversible => f # NoFile
  BY DEF Reversible, Irreversible, NoFile

LEMMA LoadedNames ==
  Loaded = {"q_announce", "q_create", "q_sign", "q_record", "q_acquired", "q_barrier",
            "q_done", "f_barrier", "f_commit", "r_barrier", "r_mark", "guard", "unlink",
            "release", "delete"}
  BY DEF Loaded, Running, QuiesceAt, FinalizeAt, RollbackAt, ReleaseAt

(* What the two forms of an adapter step leave in the slot and in the file.   *)
LEMMA WriteGives ==
  ASSUME AdapterTypeOK, NEW s \in Slots, proc[s].job \in Jobs, NEW from, NEW to, NEW state,
         Write(s, from, to, state)
  PROVE  /\ proc[s].at = from /\ proc'[s].at = to /\ proc'[s].job = proc[s].job
         /\ proc'[s].final = proc[s].final /\ proc'[s].mem = state
         /\ file'[proc[s].job] = state
  BY DEF Write, AdapterTypeOK, Procs

LEMMA GotoGives ==
  ASSUME AdapterTypeOK, NEW s \in Slots, NEW from, NEW to, Goto(s, from, to)
  PROVE  /\ proc[s].at = from /\ proc'[s].at = to /\ proc'[s].job = proc[s].job
         /\ proc'[s].final = proc[s].final /\ proc'[s].mem = proc[s].mem
  BY DEF Goto, AdapterTypeOK, Procs

LEMMA MemPhase ==
  ASSUME AdapterTypeOK, NEW s \in Slots
  PROVE  /\ \A p : WithPhase(s, p).phase = p
         /\ [proc[s].mem EXCEPT !.acq = TRUE].phase = proc[s].mem.phase
         /\ [proc[s].mem EXCEPT !.rel = TRUE].phase = proc[s].mem.phase
         /\ \A p : [proc[s].mem EXCEPT !.acq = FALSE, !.phase = p].phase = p
  BY DEF WithPhase, AdapterTypeOK, Procs, FileStates

LEMMA InStepGoesOn ==
  ASSUME Typed, NEW s \in Slots, AdapterStep(s), InStep(s), MarkerFiled
  PROVE  InStep(s)' /\ MarkerFiled' /\ OnlyForward
PROOF
  <1> DEFINE k == proc[s].job
             Kept == InStep(s)' /\ MarkerFiled' /\ OnlyForward
  <1>0. AdapterTyped /\ Employed /\ AdapterTypeOK /\ k \in Jobs /\ k # NoJob
    BY TypedParts, AdapterFrame, HostAssumption DEF AdapterTyped, Busy, Employed
  <1>1. \A j \in Jobs : j # k => file'[j] = file[j]
    BY <1>0, AdapterFrame
  (* The marker and the file it is there for.                                  *)
  <1>2. ASSUME marker' \in {marker, NoJob}, file' = file \/ file'[k] # NoFile
        PROVE  MarkerFiled'
    <2>1. \A j \in Jobs : file[j] # NoFile => file'[j] # NoFile
      BY <1>1, <1>2
    <2>2. NoJob \notin Jobs /\ NoJob # Unsigned
      BY HostAssumption
    <2> QED
      BY <1>2, <2>1, <2>2 DEF MarkerFiled
  <1>3. ASSUME \/ file' = file
               \/ file[k].phase \notin Irreversible
               \/ file'[k].phase \in Irreversible \cup {"none"}
        PROVE  OnlyForward
    BY <1>1, <1>3 DEF OnlyForward
  (* A write that stays on its side of the boundary.                           *)
  <1>4. ASSUME NEW from, NEW to, NEW state, Write(s, from, to, state), marker' = marker,
               state.phase \in Direction(s), from \in Loaded, to \in Running \cup Ended,
               proc[s].final => to \in ReleaseAt \cup Ended,
               to = "unlink" => marker = k,
               to \in {"release", "delete"} => marker = NoJob
        PROVE  Kept
    <2>1. /\ proc[s].at = from /\ proc'[s].at = to /\ proc'[s].job = k
          /\ proc'[s].final = proc[s].final /\ proc'[s].mem = state /\ file'[k] = state
      BY <1>0, <1>4, WriteGives
    <2>2. file'[k] # NoFile /\ file[k].phase \in Direction(s)
      BY <1>4, <2>1, PhaseNames DEF Direction, InStep
    <2>3. OnlyForward
      BY <1>3, <1>4, <2>1, <2>2, PhaseNames DEF Direction
    <2>4. InStep(s)'
      BY <1>4, <2>1 DEF InStep, Direction
    <2> QED
      BY <1>2, <1>4, <2>2, <2>3, <2>4
  (* A step that writes nothing.                                               *)
  <1>5. ASSUME NEW from, NEW to, Goto(s, from, to), file' = file,
               from \in Loaded, to \in Running \cup Ended,
               proc[s].final => to \in ReleaseAt \cup Ended,
               to # "unlink", to \in {"release", "delete"} => marker' = NoJob
        PROVE  InStep(s)' /\ OnlyForward
    <2>1. /\ proc[s].at = from /\ proc'[s].at = to /\ proc'[s].job = k
          /\ proc'[s].final = proc[s].final /\ proc'[s].mem = proc[s].mem
      BY <1>0, <1>5, GotoGives
    <2>2. InStep(s)'
      BY <1>5, <2>1 DEF InStep, Direction
    <2> QED
      BY <1>3, <1>5, <2>2
  (* A process that is at no release has not finalized.                        *)
  <1>6. proc[s].at \notin ReleaseAt \cup Ended => ~proc[s].final /\ Direction(s) = Reversible
    BY DEF InStep, Direction
  <1>7. /\ QuiesceAt \cup FinalizeAt \cup RollbackAt \subseteq Running
        /\ (QuiesceAt \cup FinalizeAt \cup RollbackAt) \cap (ReleaseAt \cup Ended) = {}
        /\ ReleaseAt \subseteq Running \cap Loaded
    BY LoadedNames DEF Running, QuiesceAt, FinalizeAt, RollbackAt, ReleaseAt, Ended
  <1>8. \A p \in Reversible : WithPhase(s, p).phase \in Reversible
    BY <1>0, MemPhase
  <1>10. CASE QInspect(s)
    <2>1. /\ proc[s].at = "q_inspect" /\ file[k] = NoFile /\ marker' = marker
          /\ proc'[s].at = "q_announce"
      BY <1>0, <1>10, QuiesceArrivesAt DEF QInspect, hostVars
    <2> DEFINE state == [NoFile EXCEPT !.phase = "prepared", !.dev = usb]
    <2>2. /\ proc' = [proc EXCEPT ![s] =
                        [@ EXCEPT !.at = "q_announce", !.mem = state, !.snap = mounts]]
          /\ file' = [file EXCEPT ![k] = state]
          /\ state.phase = "prepared"
      BY <1>10 DEF QInspect, NoFile
    <2> HIDE DEF state
    <2>3. proc'[s].job = k /\ proc'[s].final = proc[s].final /\ proc'[s].mem = state
            /\ file'[k] = state
      BY <1>0, <2>2 DEF AdapterTypeOK, Procs
    <2>4. ~proc[s].final
      BY <1>6, <2>1 DEF ReleaseAt, Ended
    <2>5. InStep(s)'
      BY <2>1, <2>2, <2>3, <2>4, PhaseNames DEF InStep, Direction
    <2>6. file[k].phase \notin Irreversible /\ file'[k] # NoFile
      BY <2>1, <2>2, <2>3, PhaseNames DEF NoFile
    <2> QED
      BY <1>2, <1>3, <2>1, <2>5, <2>6
  <1>11. CASE QAnnounce(s) \/ QAcquired(s) \/ QDone(s) \/ RMark(s)
    <2>1. PICK from \in {"q_announce", "q_acquired", "q_done", "r_mark"},
               to \in {"q_create", "q_barrier", "ok", "guard"}, p \in Reversible :
            Write(s, from, to, WithPhase(s, p)) /\ marker' = marker
      BY <1>11, PhaseNames DEF QAnnounce, QAcquired, QDone, RMark, hostVars
    <2>2. from \in Loaded /\ from \notin ReleaseAt \cup Ended /\ to \in Running \cup Ended
            /\ to \notin {"unlink", "release", "delete"}
      BY LoadedNames DEF Running, QuiesceAt, RollbackAt, ReleaseAt, Ended
    <2>3. proc[s].at = from
      BY <2>1 DEF Write
    <2> QED
      BY <1>4, <1>6, <1>8, <2>1, <2>2, <2>3
  <1>12. CASE QRecord(s)
    <2>1. Write(s, "q_record", "q_acquired", [proc[s].mem EXCEPT !.acq = TRUE])
            /\ marker' = marker /\ proc[s].at = "q_record"
      BY <1>12 DEF QRecord, Write, hostVars
    <2>2. "q_record" \in Loaded /\ "q_record" \notin ReleaseAt \cup Ended
            /\ "q_acquired" \in Running
      BY LoadedNames DEF Running, QuiesceAt, ReleaseAt, Ended
    <2>3. [proc[s].mem EXCEPT !.acq = TRUE].phase \in Direction(s)
      BY <1>0, <2>1, <2>2, MemPhase DEF InStep
    <2> QED
      BY <1>4, <1>6, <2>1, <2>2, <2>3
  <1>13. CASE QCreate(s) \/ QSign(s) \/ QBarrier(s) \/ FBarrier(s) \/ RBarrier(s)
    <2>1. PICK from \in {"q_create", "q_sign", "q_barrier", "f_barrier", "r_barrier"},
               to \in {"q_sign", "q_record", "q_done", "f_commit", "r_mark"} :
            Goto(s, from, to) /\ file' = file
      BY <1>13 DEF QCreate, QSign, QBarrier, FBarrier, RBarrier
    <2>2. from \in Loaded /\ from \notin ReleaseAt \cup Ended /\ to \in Running \cup Ended
            /\ to \notin {"unlink", "release", "delete"}
      BY LoadedNames DEF Running, QuiesceAt, FinalizeAt, RollbackAt, ReleaseAt, Ended
    <2>3. proc[s].at = from
      BY <2>1 DEF Goto
    <2>4. InStep(s)' /\ OnlyForward
      BY <1>5, <1>6, <2>1, <2>2, <2>3
    <2>5. file[k] # NoFile
      BY <1>6, <2>2, <2>3, PhaseNames DEF InStep
    <2>6. marker' \in {marker, k, Unsigned}
      BY <1>13 DEF QCreate, QSign, QBarrier, FBarrier, RBarrier, hostVars
    <2>7. MarkerFiled'
      BY <1>0, <2>1, <2>5, <2>6, HostAssumption DEF MarkerFiled
    <2> QED
      BY <2>4, <2>7
  <1>14. CASE QRefuse(s)
    <2>1. proc'[s].at = "refused" /\ proc'[s].final = proc[s].final
            /\ marker' \in {marker, NoJob} /\ proc[s].at \in QuiesceAt
      BY <1>0, <1>14 DEF QRefuse, AdapterTypeOK, Procs
    <2>2. InStep(s)'
      BY <2>1, LoadedNames DEF InStep, Ended
    <2>3. CASE file' = file
      BY <1>2, <1>3, <2>1, <2>2, <2>3
    <2>4. CASE file' # file
      <3>0. PICK state \in {file[k]} \cup (IF proc[s].at = "q_inspect" THEN {} ELSE Held(s)) :
              file' = [file EXCEPT ![k] = state]
        BY <1>14 DEF QRefuse
      <3>1. state \in Held(s) /\ proc[s].at # "q_inspect"
        <4>1. state # file[k]
          BY <1>0, <2>4, <3>0 DEF AdapterTypeOK
        <4> QED
          BY <3>0, <4>1
      <3>2. proc[s].at \in Loaded /\ Direction(s) = Reversible
        BY <1>6, <1>7, <2>1, <3>1, LoadedNames DEF QuiesceAt
      <3>3. state.phase \in Reversible
        BY <1>0, <1>8, <3>1, <3>2, MemPhase, PhaseNames DEF Held, InStep
      <3>4. file'[k] = state
        BY <1>0, <3>0 DEF AdapterTypeOK
      <3>5. file'[k] # NoFile /\ file[k].phase \notin Irreversible
        BY <3>2, <3>3, <3>4, PhaseNames DEF InStep
      <3> QED
        BY <1>2, <1>3, <2>1, <2>2, <3>5
    <2> QED
      BY <2>3, <2>4
  <1>15. CASE FRead(s) \/ RReadHeld(s)
    <2>1. PICK to \in {"f_barrier", "r_barrier"} :
            /\ proc' = [proc EXCEPT ![s] = [@ EXCEPT !.at = to, !.mem = file[k]]]
            /\ proc[s].at \in {"f_read", "r_read"} /\ file[k].phase \in Reversible
            /\ file' = file /\ marker' = marker
      BY <1>15, PhaseNames DEF FRead, RReadHeld, hostVars
    <2>2. /\ proc'[s].at = to /\ proc'[s].job = k /\ proc'[s].final = proc[s].final
          /\ proc'[s].mem = file[k]
      BY <1>0, <2>1 DEF AdapterTypeOK, Procs
    <2>3. ~proc[s].final
      BY <1>6, <2>1 DEF ReleaseAt, Ended
    <2>4. InStep(s)'
      BY <2>1, <2>2, <2>3 DEF InStep, Direction
    <2> QED
      BY <1>2, <1>3, <2>1, <2>4
  <1>16. CASE FCommit(s)
    <2> DEFINE state == WithPhase(s, "finalizing")
    <2>1. /\ proc' = [proc EXCEPT ![s] =
                        [@ EXCEPT !.at = "guard", !.mem = state, !.final = TRUE]]
          /\ file' = [file EXCEPT ![k] = state]
          /\ marker' = marker /\ state.phase = "finalizing"
      BY <1>0, <1>16, MemPhase DEF FCommit, hostVars
    <2> HIDE DEF state
    <2>2. /\ proc'[s].at = "guard" /\ proc'[s].job = k /\ proc'[s].final = TRUE
          /\ proc'[s].mem = state /\ file'[k] = state
      BY <1>0, <2>1 DEF AdapterTypeOK, Procs
    <2>3. InStep(s)'
      BY <2>1, <2>2, PhaseNames DEF InStep, Direction, ReleaseAt
    <2>4. file'[k] # NoFile /\ file'[k].phase \in Irreversible
      BY <2>1, <2>2, PhaseNames
    <2> QED
      BY <1>2, <1>3, <2>1, <2>3, <2>4
  <1>17. CASE RReadFree(s)
    <2>1. PICK state : /\ proc' = [proc EXCEPT ![s] =
                                     [@ EXCEPT !.at = "delete", !.mem = state]]
                       /\ file' = [file EXCEPT ![k] = state]
                       /\ state = [file[k] EXCEPT !.phase = "rolled_back"]
      BY <1>17 DEF RReadFree
    <2>2. /\ proc'[s].at = "delete" /\ proc'[s].job = k /\ proc'[s].final = proc[s].final
          /\ proc'[s].mem = state /\ file'[k] = state
      BY <1>0, <2>1 DEF AdapterTypeOK, Procs
    <2>3. state.phase = "rolled_back"
      BY <1>0, <2>1 DEF AdapterTypeOK, FileStates
    <2>4. /\ proc[s].at = "r_read" /\ marker = NoJob /\ marker' = marker
          /\ file[k].phase \in Reversible
      BY <1>17 DEF RReadFree, InspectOK, hostVars
    <2>5. ~proc[s].final
      BY <1>6, <2>4 DEF ReleaseAt, Ended
    <2>6. InStep(s)'
      BY <2>2, <2>3, <2>4, <2>5, PhaseNames DEF InStep, Direction
    <2>7. file'[k] # NoFile /\ file[k].phase \notin Irreversible
      BY <2>2, <2>3, <2>4, PhaseNames
    <2> QED
      BY <1>2, <1>3, <2>4, <2>6, <2>7
  <1>18. CASE Guard(s)
    <2>1. /\ Write(s, "guard", "unlink", [proc[s].mem EXCEPT !.rel = TRUE])
          /\ marker' = marker /\ marker = k /\ proc[s].at = "guard"
      BY <1>18 DEF Guard, Write, Sample, OwnsMarker, hostVars
    <2>2. "guard" \in Loaded /\ "unlink" \in Running /\ "unlink" \in ReleaseAt
      BY LoadedNames DEF Running, ReleaseAt
    <2>3. [proc[s].mem EXCEPT !.rel = TRUE].phase \in Direction(s)
      BY <1>0, <2>1, <2>2, MemPhase DEF InStep
    <2> QED
      BY <1>4, <2>1, <2>2, <2>3
  <1>19. CASE Unlink(s)
    <2>1. Goto(s, "unlink", "release") /\ file' = file /\ marker' = NoJob
      BY <1>19 DEF Unlink
    <2>2. "unlink" \in Loaded /\ "release" \in Running /\ "release" \in ReleaseAt
      BY LoadedNames DEF Running, ReleaseAt
    <2>3. InStep(s)' /\ OnlyForward
      BY <1>5, <2>1, <2>2
    <2> QED
      BY <1>2, <2>1, <2>3
  <1>20. CASE Release(s)
    <2> DEFINE p == IF proc[s].final THEN "finalized" ELSE "rolled_back"
    <2>1. /\ Write(s, "release", "delete", [proc[s].mem EXCEPT !.acq = FALSE, !.phase = p])
          /\ marker' = marker /\ proc[s].at = "release"
      BY <1>20 DEF Release, Write, hostVars
    <2>2. "release" \in Loaded /\ "delete" \in Running /\ "delete" \in ReleaseAt
      BY LoadedNames DEF Running, ReleaseAt
    <2>3. p \in Direction(s)
      BY PhaseNames DEF Direction
    <2> HIDE DEF p
    <2>4. [proc[s].mem EXCEPT !.acq = FALSE, !.phase = p].phase \in Direction(s)
      BY <1>0, <2>3, MemPhase
    <2>5. marker = NoJob
      BY <2>1 DEF InStep
    <2> QED
      BY <1>4, <2>1, <2>2, <2>4, <2>5
  <1>21. CASE Delete(s)
    <2>1. Goto(s, "delete", "ok") /\ marker' = marker /\ proc[s].at = "delete"
            /\ file'[k] = NoFile
      BY <1>0, <1>21 DEF Delete, Goto, hostVars, AdapterTypeOK
    <2>2. proc'[s].at = "ok" /\ proc'[s].final = proc[s].final
      BY <1>0, <2>1, GotoGives
    <2>3. InStep(s)'
      BY <2>2, LoadedNames DEF InStep, Ended
    <2>4. marker' = NoJob
      BY <2>1 DEF InStep
    <2>5. MarkerFiled'
      BY <2>4, HostAssumption DEF MarkerFiled
    <2> QED
      BY <1>3, <2>1, <2>3, <2>5 DEF NoFile
  <1>22. CASE Refuse(s) \/ Timeout(s)
    <2>1. proc'[s].at \in {"refused", "killed"} /\ file' = file /\ marker' = marker
      BY <1>0, <1>22, ArrivesAt DEF Refuse, Timeout, hostVars
    <2>2. InStep(s)'
      BY <2>1, LoadedNames DEF InStep, Ended
    <2> QED
      BY <1>2, <1>3, <2>1, <2>2
  <1>23. CASE OrphanExits(s)
    <2>1. proc'[s] = IdleProc /\ file' = file /\ marker' = marker
      BY <1>0, <1>23 DEF OrphanExits, Collect, hostVars, AdapterTypeOK
    <2>2. InStep(s)'
      BY <2>1, LoadedNames DEF InStep, IdleProc
    <2> QED
      BY <1>2, <1>3, <2>1, <2>2
  <1> HIDE DEF Kept
  <1> QED
    BY <1>10, <1>11, <1>12, <1>13, <1>14, <1>15, <1>16, <1>17, <1>18, <1>19, <1>20, <1>21,
       <1>22, <1>23
    DEF Kept, AdapterStep, QuiesceStep, FinalizeStep, RollbackStep, ReleaseStep

-----------------------------------------------------------------------------
(* Nobody has died: who a state file and an active.json belong to.            *)
PastCall == PastFinalize \cup {"failing", "record", "retire", "returning", "dead"}
Closing == {"record", "retire", "finish"}

Unused(j) == file[j] = NoFile /\ \A s \in Slots : Busy(s) => proc[s].job # j

(* A state file has a journal, and so has whoever may write one.              *)
Journalled ==
  /\ \A j \in Jobs : file[j] # NoFile \/ pc[j] \in Locked => active[j] # 0
  /\ rec.at \notin {"idle", "scan"} => active[rec.job] # 0

(* There is no state file before Quiesce, none after Finalize, and none that  *)
(* a worker leaves behind without recovery pending.                           *)
Attempts ==
  \A j \in Jobs :
    /\ pc[j] \in AtUnmount \cup Waiting => j \in attempted
    /\ j \notin attempted /\ pc[j] \in Alive \cup {"new"} => Unused(j)
    /\ j \in finalized => pc[j] \in PastCall /\ Unused(j)
    /\ pc[j] \in Closing /\ j \notin pending => file[j] = NoFile

(* A rollback that answers ok has deleted its state file.                     *)
RollingBack(s) ==
  /\ proc[s].at \in RollbackAt \cup ReleaseAt \cup Ended
  /\ proc[s].at = "ok" => file[proc[s].job] = NoFile
RolledBackFree ==
  \A s \in Slots : Busy(s) /\ pc[proc[s].job] = "rollback_wait" => RollingBack(s)
RetiredFree ==
  /\ rec.at \in {"record", "retire"} /\ ~rec.bad => file[rec.job] = NoFile
  /\ rec.at = "retire" => ~rec.bad

Peace == Attended /\ (\A s \in Slots : InStep(s)) /\ MarkerFiled /\ Journalled /\ Attempts
           /\ RolledBackFree /\ RetiredFree

LEMMA CallNames ==
  /\ PastCall \cap (Waiting \cup AtUnmount) = {} /\ "quiesce" \notin PastCall
  /\ {"journal", "validate", "ud_inspect", "preflight", "new"} \cap PastCall = {}
  /\ \A c \in CheckStages : /\ After[c] \in Alive \ Closing
                            /\ c \in PastCall => After[c] \in PastCall
  /\ Closing \subseteq Locked /\ Closing \cap (Waiting \cup AtUnmount) = {}
  /\ PastCall = {"settle", "shfs_health", "terminal", "finish", "verify_idle",
       "pre_remove_shfs", "post_finalize_shfs", "post_finalize_idle", "exclusive_open",
       "flush", "final_idle", "final_identity", "usb_remove", "failing", "record", "retire",
       "returning", "dead"}
  BY StepNames, AfterLocked DEF PastCall, PastFinalize, PastRemove, Waiting, WaitStages,
     AtUnmount, After, Closing, Locked, Alive, FailureSteps

(* When nobody is called, nobody is at the adapter.                           *)
LEMMA NobodyAtAdapter ==
  ASSUME Typed, Exclusive, Attended, NEW h,
         \/ h \in Jobs /\ pc[h] \in Locked \ Waiting
         \/ h = Recoverer /\ rec.at \notin {"idle", "rollback"}
         \/ lock = NoJob
  PROVE  \A s \in Slots : ~Busy(s)
  BY NobodyCalled DEF Attended

(* The only process at the adapter is the one its caller waits for.           *)
LEMMA OneAtAdapter ==
  ASSUME Exclusive, Attended, NEW s \in Slots, Busy(s)
  PROVE  \A t \in Slots : Busy(t) => t = s
  BY DEF Attended, Exclusive, OneCalled

(* A worker moves on and leaves the adapter alone.                            *)
LEMMA PeaceMoves ==
  ASSUME Typed, Exclusive, Sound, Peace, NEW i \in Jobs, NEW to, Move(i, to),
         UNCHANGED <<marker, file, proc, rec, finalized>>,
         \A k \in Jobs : k # i => active'[k] = active[k],
         \A k \in Jobs : k # i => (k \in attempted' <=> k \in attempted)
                                    /\ (k \in pending' <=> k \in pending),
         file[i] # NoFile \/ to \in Locked => active'[i] # 0,
         to # "dead" => (i \in attempted' <=> i \in attempted),
         pc[i] # "dead", to \notin Waiting,
         to \in AtUnmount => i \in attempted,
         to \in Alive \cup {"new"} => pc[i] \in Alive \cup {"new"},
         i \in finalized => to \in PastCall,
         to \in Closing /\ i \notin pending' => file[i] = NoFile
  PROVE  Peace'
PROOF
  <1>1. pc'[i] = to /\ \A k \in Jobs : k # i => pc'[k] = pc[k]
    BY DEF Move, Typed, TypeOK
  <1>2. Attended' /\ MarkerFiled' /\ RetiredFree'
    BY DEF Peace, Attended, Busy, Called, MarkerFiled, RetiredFree
  <1>3. \A s \in Slots : InStep(s)'
    BY DEF Peace, InStep, Direction
  <1>4. Journalled'
    <2>1. rec.at \notin {"idle", "scan"} => rec.job \in Jobs /\ rec.job # i
      BY DEF Sound, Adopted, Typed, HasJob
    <2> QED
      BY <1>1, <2>1 DEF Peace, Journalled
  <1>5. Attempts'
    <2>1. \A k \in Jobs : Unused(k)' <=> Unused(k)
      BY DEF Unused, Busy
    <2>2. to \in AtUnmount \cup Alive \cup {"new"} => to # "dead"
      BY HopeNames DEF AtUnmount
    <2> SUFFICES ASSUME NEW k \in Jobs
                 PROVE  /\ pc'[k] \in AtUnmount \cup Waiting => k \in attempted'
                        /\ k \notin attempted' /\ pc'[k] \in Alive \cup {"new"} => Unused(k)'
                        /\ k \in finalized => pc'[k] \in PastCall /\ Unused(k)'
                        /\ pc'[k] \in Closing /\ k \notin pending' => file[k] = NoFile
      BY DEF Attempts
    <2>3. CASE k = i
      BY <1>1, <2>1, <2>2, <2>3 DEF Peace, Attempts
    <2>4. CASE k # i
      BY <1>1, <2>1, <2>4 DEF Peace, Attempts
    <2> QED
      BY <2>3, <2>4
  <1>6. RolledBackFree'
    <2> SUFFICES ASSUME NEW s \in Slots, Busy(s), pc'[proc[s].job] = "rollback_wait"
                 PROVE  RollingBack(s)
      BY DEF RolledBackFree, RollingBack, Busy
    <2>1. proc[s].job \in Jobs /\ "rollback_wait" \in Waiting
      BY DEF Typed, HasJob, Busy, Waiting
    <2> QED
      BY <1>1, <2>1 DEF Peace, RolledBackFree
  <1> QED
    BY <1>2, <1>3, <1>4, <1>5, <1>6 DEF Peace

(* A worker with the lock calls the adapter.                                  *)
LEMMA PeaceCalls ==
  ASSUME Typed, Exclusive, Sound, Peace, NEW i \in Jobs, NEW to \in Waiting, Move(i, to),
         UNCHANGED <<marker, file, rec, active, finalized, pending>>,
         NEW s \in Slots, NEW op \in {"q_inspect", "f_read", "r_read"},
         Spawn(s, op, i, "worker"), pc[i] \in Locked \ Waiting,
         attempted' = attempted \cup {i}, i \notin finalized,
         to = "rollback_wait" => op = "r_read"
  PROVE  Peace'
PROOF
  <1>1. pc'[i] = to /\ \A k \in Jobs : k # i => pc'[k] = pc[k]
    BY DEF Move, Typed, TypeOK
  <1>2. \A t \in Slots : ~Busy(t)
    BY NobodyAtAdapter DEF Peace
  <1>3. op \in Running \ Loaded
    BY LoadedNames DEF Running, QuiesceAt, FinalizeAt, RollbackAt
  <1>4. /\ proc'[s].job = i /\ proc'[s].owner = "worker" /\ proc'[s].at = op
        /\ proc'[s].final = FALSE
        /\ \A t \in Slots : t # s => proc'[t] = proc[t]
    BY <1>3, SpawnType DEF Typed, TypeOK, Spawn, AdapterTypeOK, IdleProc
  <1>5. Attended'
    BY <1>2, <1>4 DEF Attended, Busy, Called
  <1>6. \A t \in Slots : InStep(t)'
    <2>1. InStep(s)'
      BY <1>3, <1>4, LoadedNames DEF InStep
    <2>2. ASSUME NEW t \in Slots, t # s
          PROVE  InStep(t)'
      BY <1>4, <2>2 DEF Peace, InStep, Direction
    <2> QED
      BY <2>1, <2>2
  <1>7. MarkerFiled' /\ RetiredFree'
    BY DEF Peace, MarkerFiled, RetiredFree
  <1>8. Journalled'
    BY <1>1 DEF Peace, Journalled
  <1>9. Attempts'
    <2>1. \A k \in Jobs : k # i => (Unused(k)' <=> Unused(k))
      BY <1>2, <1>4 DEF Unused, Busy
    <2>2. to \notin Closing
      BY CallNames
    <2> SUFFICES ASSUME NEW k \in Jobs
                 PROVE  /\ pc'[k] \in AtUnmount \cup Waiting => k \in attempted'
                        /\ k \notin attempted' /\ pc'[k] \in Alive \cup {"new"} => Unused(k)'
                        /\ k \in finalized => pc'[k] \in PastCall /\ Unused(k)'
                        /\ pc'[k] \in Closing /\ k \notin pending => file[k] = NoFile
      BY DEF Attempts
    <2>3. CASE k = i
      BY <1>1, <2>2, <2>3
    <2>4. CASE k # i
      BY <1>1, <2>1, <2>4 DEF Peace, Attempts
    <2> QED
      BY <2>3, <2>4
  <1>10. RolledBackFree'
    <2> SUFFICES ASSUME NEW t \in Slots, Busy(t)', pc'[proc'[t].job] = "rollback_wait"
                 PROVE  RollingBack(t)'
      BY DEF RolledBackFree
    <2>1. t = s
      BY <1>2, <1>4 DEF Busy
    <2>2. op = "r_read"
      BY <1>1, <1>4, <2>1
    <2> QED
      BY <1>4, <2>1, <2>2 DEF RollingBack, RollbackAt, ReleaseAt, Ended
  <1> QED
    BY <1>5, <1>6, <1>7, <1>8, <1>9, <1>10 DEF Peace

(* A worker collects the process it called.                                   *)
LEMMA PeaceCollects ==
  ASSUME Typed, Exclusive, Sound, Peace, NEW i \in Jobs, NEW to \in Locked \ Waiting,
         Move(i, to), UNCHANGED <<marker, file, rec, active, attempted>>,
         pc[i] \in Waiting, NEW s \in Slots, Child(s, i), Busy(s), Collect(s),
         \/ finalized' = finalized
         \/ finalized' = finalized \cup {i} /\ to \in PastCall /\ file[i] = NoFile,
         \A k \in Jobs : k # i => (k \in pending' <=> k \in pending),
         to \in Closing /\ i \notin pending' => file[i] = NoFile
  PROVE  Peace'
PROOF
  <1>1. pc'[i] = to /\ \A k \in Jobs : k # i => pc'[k] = pc[k]
    BY DEF Move, Typed, TypeOK
  <1>2. \A t \in Slots : t # s => ~Busy(t)
    BY OneAtAdapter DEF Peace
  <1>3. proc'[s] = IdleProc /\ \A t \in Slots : t # s => proc'[t] = proc[t]
    BY DEF Collect, Typed, TypeOK, AdapterTypeOK
  <1>4. \A t \in Slots : ~Busy(t)'
    BY <1>2, <1>3 DEF Busy, IdleProc
  <1>5. Attended' /\ RolledBackFree'
    BY <1>4 DEF Attended, RolledBackFree
  <1>6. \A t \in Slots : InStep(t)'
    <2>1. InStep(s)'
      BY <1>3, LoadedNames DEF InStep, IdleProc
    <2>2. ASSUME NEW t \in Slots, t # s
          PROVE  InStep(t)'
      BY <1>3, <2>2 DEF Peace, InStep, Direction
    <2> QED
      BY <2>1, <2>2
  <1>7. MarkerFiled' /\ RetiredFree'
    BY DEF Peace, MarkerFiled, RetiredFree
  <1>8. Journalled'
    <2>1. rec.at \notin {"idle", "scan"} => rec.job # i
      BY HopeNames DEF Sound, Adopted
    <2> QED
      BY <1>1, WaitingLocked DEF Peace, Journalled
  <1>9. Attempts'
    <2>1. \A k \in Jobs : file[k] = NoFile => Unused(k)'
      BY <1>4 DEF Unused
    <2>2. i \in attempted /\ i \notin finalized
      BY CallNames DEF Peace, Attempts
    <2> SUFFICES ASSUME NEW k \in Jobs
                 PROVE  /\ pc'[k] \in AtUnmount \cup Waiting => k \in attempted
                        /\ k \notin attempted /\ pc'[k] \in Alive \cup {"new"} => Unused(k)'
                        /\ k \in finalized' => pc'[k] \in PastCall /\ Unused(k)'
                        /\ pc'[k] \in Closing /\ k \notin pending' => file[k] = NoFile
      BY DEF Attempts
    <2>3. CASE k = i
      BY <1>1, <2>1, <2>2, <2>3
    <2>4. CASE k # i
      BY <1>1, <2>1, <2>4 DEF Peace, Attempts, Unused
    <2> QED
      BY <2>3, <2>4
  <1> QED
    BY <1>5, <1>6, <1>7, <1>8, <1>9 DEF Peace

LEMMA WorkerStepPeace ==
  ASSUME Typed, Exclusive, Sound, Peace, NEW i \in Jobs, WorkerStep(i)
  PROVE  Peace'
PROOF
  <1> USE DEF hostVars, adapterVars, flagVars, At
  <1>0. /\ i \in finalized => pc[i] \in PastCall /\ file[i] = NoFile
        /\ i \in finalized => i \in unmounted
        /\ i \in removed => i \in finalized
        /\ pc[i] \in AtUnmount \cup Waiting => i \in attempted
        /\ i \notin attempted /\ pc[i] \in Alive \cup {"new"} => file[i] = NoFile
        /\ pc[i] \in Closing /\ i \notin pending => file[i] = NoFile
        /\ pc[i] \in Locked \/ file[i] # NoFile => active[i] # 0
        /\ pc[i] \in PastFinalize => i \in finalized
    BY DEF Peace, Attempts, Unused, Journalled, Sound, Milestones
  <1>1. boot # 0 /\ active \in [Jobs -> 0 .. MaxBoots]
    BY DEF Typed, TypeOK
  <1>2. /\ Alive = Locked \cup {"journal", "returning"}
        /\ {"failing", "record", "retire", "terminal", "finish", "quiesce"}
             \cup AtUnmount \cup CheckStages \cup ActStages \subseteq Locked \ Waiting
        /\ {"new", "journal", "returning", "dead"} \cap (Locked \cup Waiting \cup AtUnmount
             \cup Closing) = {}
        /\ {"failing", "record", "retire", "terminal", "finish"} \cap AtUnmount = {}
        /\ "failing" \notin Closing
    <2>1. Alive = Locked \cup {"journal", "returning"}
      BY DEF Alive
    <2>2. {"failing", "record", "retire", "terminal", "finish", "quiesce"}
             \cup AtUnmount \cup CheckStages \cup ActStages \subseteq Locked \ Waiting
      <3>1. {"failing", "record", "retire"} \subseteq FailureSteps /\ "quiesce" \in ActStages
              /\ AtUnmount \subseteq ActStages
        BY DEF FailureSteps, ActStages, AtUnmount
      <3> QED
        BY <3>1, StepNames, WaitingLocked
    <2>3. {"new", "journal", "returning", "dead"} \cap (AtUnmount \cup Closing) = {}
            /\ {"failing", "record", "retire", "terminal", "finish"} \cap AtUnmount = {}
            /\ "failing" \notin Closing
      BY DEF AtUnmount, Closing
    <2> QED
      BY <2>1, <2>2, <2>3, StepNames, WaitingLocked
  <1>3. "dead" \notin Alive \cup {"new"}
    BY HopeNames
  <1>4. CASE StartWorker(i)
    BY <1>0, <1>2, <1>3, <1>4, CallNames, PeaceMoves DEF StartWorker
  <1>5. CASE OpenJournal(i)
    <2>1. active'[i] # 0 /\ \A k \in Jobs : k # i => active'[k] = active[k]
      BY <1>1, <1>5 DEF OpenJournal
    <2>2. "validate" \in Locked \ (Waiting \cup AtUnmount \cup Closing)
      BY StepNames, WaitingLocked DEF AtUnmount, Closing
    <2> QED
      BY <1>0, <1>2, <1>3, <1>5, <2>1, <2>2, CallNames, PeaceMoves DEF OpenJournal
  <1>6. CASE JournalRefused(i)
    <2>1. (file[i] # NoFile => active'[i] # 0) /\ \A k \in Jobs : k # i => active'[k] = active[k]
      BY <1>0, <1>1, <1>6 DEF JournalRefused
    <2> QED
      BY <1>0, <1>2, <1>3, <1>6, <2>1, CallNames, PeaceMoves DEF JournalRefused
  <1>7. CASE Check(i)
    <2>1. PICK c \in CheckStages : pc[i] = c /\ Move(i, After[c])
      BY <1>7 DEF Check
    <2>2. /\ After[c] \in Alive \ (Waiting \cup AtUnmount \cup Closing) /\ c \in Locked
          /\ c \in PastCall => After[c] \in PastCall
      BY <2>1, <1>2, UnmountNames, CallNames
    <2> QED
      BY <1>0, <1>2, <1>3, <1>7, <2>1, <2>2, PeaceMoves DEF Check
  <1>8. CASE Quiesce(i)
    <2>1. PICK s \in Slots : Spawn(s, "q_inspect", i, "worker")
      BY <1>8 DEF Quiesce
    <2> QED
      BY <1>0, <1>2, <1>8, <2>1, CallNames, PeaceCalls DEF Quiesce, Waiting, WaitStages
  <1>9. CASE Finalize(i)
    <2>1. PICK s \in Slots : Spawn(s, "f_read", i, "worker")
      BY <1>9 DEF Finalize
    <2>2. attempted = attempted \cup {i}
      BY <1>0, <1>9 DEF Finalize, AtUnmount
    <2>3. "ud_finalize" \in AtUnmount
      BY DEF AtUnmount
    <2> QED
      BY <1>0, <1>2, <1>9, <2>1, <2>2, <2>3, CallNames, PeaceCalls DEF Finalize, Waiting,
         WaitStages
  <1>10. CASE Rollback(i)
    <2>1. PICK s \in Slots : Spawn(s, "r_read", i, "worker")
      BY <1>10 DEF Rollback
    <2>2. attempted = attempted \cup {i} /\ i \notin finalized
      BY <1>0, <1>10 DEF Rollback, NeedsRelease
    <2> QED
      BY <1>2, <1>10, <2>1, <2>2, PeaceCalls DEF Rollback, Waiting
  <1>11. CASE Quiesced(i)
    <2>1. PICK s \in Slots : Child(s, i) /\ Busy(s) /\ Collect(s)
      BY <1>11 DEF Quiesced, Busy
    <2>2. "quiesce_wait" \in Waiting /\ "strict_unmount" \in AtUnmount \ Closing
      BY DEF Waiting, WaitStages, AtUnmount, Closing
    <2> QED
      BY <1>2, <1>11, <2>1, <2>2, PeaceCollects DEF Quiesced
  <1>12. CASE Finalized(i)
    <2>1. PICK s \in Slots : Child(s, i) /\ proc[s].at = "ok" /\ Collect(s)
      BY <1>12 DEF Finalized
    <2>2. Busy(s) /\ file[i] = NoFile
      BY <1>12, <2>1 DEF Finalized, Child, Busy, Sound, Finalizing
    <2>3. /\ "finalize_wait" \in Waiting /\ "verify_idle" \in CheckStages
          /\ "verify_idle" \notin Closing /\ "verify_idle" \in PastCall
      BY StepNames, CallNames DEF Waiting, WaitStages, Closing
    <2> QED
      BY <1>2, <1>12, <2>1, <2>2, <2>3, PeaceCollects DEF Finalized
  <1>13. CASE CallFails(i)
    <2>1. PICK s \in Slots : Child(s, i) /\ Busy(s) /\ Collect(s)
      BY <1>13 DEF CallFails, Busy
    <2>2. pc[i] \in Waiting
      BY <1>13 DEF CallFails, Waiting
    <2> QED
      BY <1>2, <1>13, <2>1, <2>2, PeaceCollects DEF CallFails
  <1>14. CASE RolledBack(i)
    <2>1. PICK s \in Slots : /\ Child(s, i) /\ proc[s].at \in Ended /\ Collect(s)
                             /\ pending' = IF proc[s].at = "ok" THEN pending
                                                                ELSE pending \cup {i}
      BY <1>14 DEF RolledBack
    <2>2. Busy(s) /\ (i \notin pending' => file[i] = NoFile)
      BY <1>14, <2>1 DEF RolledBack, Child, Busy, Ended, Peace, RolledBackFree, RollingBack
    <2>3. "rollback_wait" \in Waiting
      BY DEF Waiting
    <2>4. \A k \in Jobs : k # i => (k \in pending' <=> k \in pending)
      BY <2>1
    <2> QED
      BY <1>2, <1>14, <2>1, <2>2, <2>3, <2>4, PeaceCollects DEF RolledBack
  <1>15. CASE ListMounts(i) \/ Unmount(i)
    <2>1. PICK to \in AtUnmount : Move(i, to)
      BY <1>15 DEF ListMounts, Unmount, AtUnmount
    <2>2. pc[i] \in AtUnmount /\ AtUnmount \cap Closing = {} /\ i \notin finalized
      BY <1>0, <1>15, CallNames DEF ListMounts, Unmount, AtUnmount, Closing
    <2> QED
      BY <1>0, <1>2, <1>3, <1>15, <2>1, <2>2, PeaceMoves DEF ListMounts, Unmount
  <1>16. CASE OpenExclusive(i) \/ RemoveUSB(i) \/ Publish(i) \/ Fail(i)
    <2>1. PICK to \in {"flush", "settle", "finish", "failing"} :
            Move(i, to) /\ (to = "finish" => pc[i] \in PastFinalize)
      BY <1>16 DEF OpenExclusive, RemoveUSB, Publish, Fail, PastFinalize, PastRemove
    <2>2. /\ to \in Locked \ (Waiting \cup AtUnmount) /\ to \in PastCall
          /\ to \in Closing => to = "finish"
      BY <1>2, StepNames, CallNames DEF AtUnmount, Closing
    <2>3. pc[i] \in Locked
      BY <1>2, <1>16 DEF OpenExclusive, RemoveUSB, Publish, Fail, ActStages
    <2> QED
      BY <1>0, <1>2, <1>3, <1>16, <2>1, <2>2, <2>3, PeaceMoves
      DEF OpenExclusive, RemoveUSB, Publish, Fail
  <1>17. CASE NothingToRelease(i) \/ SkipRollback(i) \/ RecordFailure(i)
    <2>1. PICK to \in {"record", "retire"} : Move(i, to)
      BY <1>17 DEF NothingToRelease, SkipRollback, RecordFailure
    <2>2. i \notin pending' => file[i] = NoFile
      BY <1>0, <1>2, <1>17 DEF NothingToRelease, SkipRollback, RecordFailure, NeedsRelease,
         Closing
    <2>3. /\ pc[i] \in Locked /\ to \in Locked \ Waiting /\ to \in PastCall
          /\ to \notin AtUnmount
      BY <1>2, <1>17, CallNames DEF NothingToRelease, SkipRollback, RecordFailure, AtUnmount
    <2>4. \A k \in Jobs : k # i => (k \in pending' <=> k \in pending)
      BY <1>17 DEF NothingToRelease, SkipRollback, RecordFailure
    <2> QED
      BY <1>0, <1>2, <1>3, <1>17, <2>1, <2>2, <2>3, <2>4, PeaceMoves
      DEF NothingToRelease, SkipRollback, RecordFailure
  <1>18. CASE CloseJournal(i)
    <2>1. /\ file[i] # NoFile => active'[i] # 0
          /\ \A k \in Jobs : k # i => active'[k] = active[k]
      BY <1>0, <1>1, <1>18 DEF CloseJournal, Closing
    <2>2. pc[i] \in Locked /\ "returning" \in PastCall
      BY <1>2, <1>18, CallNames DEF CloseJournal
    <2> QED
      BY <1>0, <1>2, <1>3, <1>18, <2>1, <2>2, PeaceMoves DEF CloseJournal
  <1>19. CASE ExitWorker(i)
    <2>1. "dead" \in PastCall
      BY CallNames
    <2>2. \A k \in Jobs : k # i => (k \in attempted' <=> k \in attempted)
                                     /\ (k \in pending' <=> k \in pending)
      BY <1>19 DEF ExitWorker, Forget
    <2> QED
      BY <1>0, <1>2, <1>3, <1>19, <2>1, <2>2, PeaceMoves DEF ExitWorker, Forget
  <1> QED
    BY <1>4, <1>5, <1>6, <1>7, <1>8, <1>9, <1>10, <1>11, <1>12, <1>13, <1>14, <1>15, <1>16,
       <1>17, <1>18, <1>19 DEF WorkerStep

(* The recovery does not touch what its worker left, but for the journal of a *)
(* job that has no state file.                                                *)
LEMMA PeaceRecovers ==
  ASSUME Typed, Exclusive, Sound, Peace, RStart \/ RecoveryStep
  PROVE  Peace'
PROOF
  <1> USE DEF hostVars, adapterVars, flagVars, Recovering, RecoveryKeeps
  (* The recovery goes on without the adapter.                                 *)
  <1>1. ASSUME UNCHANGED <<marker, file, proc, pc, attempted, finalized, pending>>,
               \A s \in Slots : ~Busy(s),
               \/ active' = active
               \/ /\ rec.at \notin {"idle", "scan"} /\ file[rec.job] = NoFile
                  /\ active' = [active EXCEPT ![rec.job] = 0],
               rec'.at \notin {"idle", "scan"} => active'[rec'.job] # 0,
               RetiredFree'
        PROVE  Peace'
    <2>1. Attended' /\ RolledBackFree'
      BY <1>1 DEF Attended, RolledBackFree, Busy
    <2>2. (\A s \in Slots : InStep(s)') /\ MarkerFiled'
      BY <1>1 DEF Peace, InStep, Direction, MarkerFiled
    <2>3. Attempts'
      BY <1>1 DEF Peace, Attempts, Unused, Busy
    <2>4. Journalled'
      <3>1. \A j \in Jobs : \/ active'[j] = active[j]
                            \/ file[j] = NoFile /\ pc[j] \notin Locked
        <4>1. rec.at \notin {"idle", "scan"} => pc[rec.job] \notin Locked
          BY StepNames DEF Sound, Adopted
        <4>2. active \in [Jobs -> 0 .. MaxBoots]
          BY DEF Typed, TypeOK
        <4>3. CASE active' = active
          BY <4>3
        <4>4. CASE active' # active
          BY <1>1, <4>1, <4>2, <4>4
        <4> QED
          BY <4>3, <4>4
      <3> QED
        BY <1>1, <3>1 DEF Peace, Journalled
    <2> QED
      BY <1>1, <2>1, <2>2, <2>3, <2>4 DEF Peace
  <1>2. rec.at \notin {"idle", "scan"} => active[rec.job] # 0 /\ rec.job \in Jobs
    BY DEF Peace, Journalled, Typed, HasJob
  <1>3. CASE RStart
    <2>1. \A s \in Slots : ~Busy(s)
      BY <1>3, NobodyAtAdapter DEF RStart, Peace
    <2>2. rec'.at = "scan"
      BY <1>3 DEF RStart, IdleRecovery
    <2> QED
      BY <1>1, <1>3, <2>1, <2>2 DEF RStart, RetiredFree
  <1>4. CASE RecoveryStep /\ rec.at # "rollback"
    <2>1. \A s \in Slots : ~Busy(s)
      BY <1>4, NobodyAtAdapter DEF RecoveryStep, RNoRollback, RRollback, RRolledBack, RRecord,
         RRetire, RDone, RSkip, RAdopt, Peace
    <2>2. CASE RNoRollback
      <3>1. /\ rec'.at = "record" /\ rec'.job = rec.job /\ (rec'.bad <=> file[rec.job] # NoFile)
            /\ rec.at = "adapter"
        BY <2>2 DEF RNoRollback, Typed, TypeOK
      <3> QED
        BY <1>1, <1>2, <2>1, <2>2, <3>1 DEF RNoRollback, RetiredFree
    <2>3. CASE RRecord
      <3>1. \/ rec'.at = "scan"
            \/ ~rec.bad /\ rec'.at = "retire" /\ rec'.job = rec.job /\ rec'.bad = rec.bad
        BY <2>3 DEF RRecord, Rescan, Typed, TypeOK
      <3>2. rec.at = "record"
        BY <2>3 DEF RRecord
      <3> QED
        BY <1>1, <1>2, <2>1, <2>3, <3>1, <3>2 DEF RRecord, RetiredFree, Peace
    <2>4. CASE RRetire
      <3>1. rec'.at = "scan" /\ rec.at = "retire" /\ file[rec.job] = NoFile
        BY <2>4 DEF RRetire, Rescan, Typed, TypeOK, Peace, RetiredFree
      <3> QED
        BY <1>1, <2>1, <2>4, <3>1 DEF RRetire, RetiredFree
    <2>5. CASE RDone \/ \E j \in Jobs : RSkip(j)
      <3>1. rec'.at \in {"idle", "scan"}
        BY <2>5 DEF RDone, RSkip, IdleRecovery, Typed, TypeOK
      <3> QED
        BY <1>1, <2>1, <2>5, <3>1 DEF RDone, RSkip, RetiredFree
    <2>6. ASSUME NEW j \in Jobs, RAdopt(j)
          PROVE  Peace'
      <3>1. rec'.at = "adapter" /\ rec'.job = j /\ active[j] # 0
        BY <2>6 DEF RAdopt, Typed, TypeOK
      <3> QED
        BY <1>1, <2>1, <2>6, <3>1 DEF RAdopt, RetiredFree
    <2>7. CASE RRollback
      <3>1. PICK s \in Slots : Spawn(s, "r_read", rec.job, "recovery")
        BY <2>7 DEF RRollback
      <3>2. /\ rec.at = "adapter" /\ rec'.at = "rollback" /\ rec'.job = rec.job
            /\ file[rec.job].phase \in Reversible
        BY <2>7 DEF RRollback, Typed, TypeOK
      <3>3. /\ proc'[s].job = rec.job /\ proc'[s].owner = "recovery" /\ proc'[s].at = "r_read"
            /\ proc'[s].final = FALSE /\ \A t \in Slots : t # s => proc'[t] = proc[t]
        BY <1>2, <3>1, <3>2, SpawnType DEF Spawn, Typed, TypeOK, AdapterTypeOK, IdleProc,
           Running, RollbackAt
      <3>4. Attended'
        BY <2>1, <3>2, <3>3 DEF Attended, Called, Busy
      <3>5. \A t \in Slots : InStep(t)'
        <4>1. InStep(s)'
          BY <3>3, LoadedNames DEF InStep
        <4>2. ASSUME NEW t \in Slots, t # s
              PROVE  InStep(t)'
          BY <2>7, <3>3, <4>2 DEF RRollback, Peace, InStep, Direction
        <4> QED
          BY <4>1, <4>2
      <3>6. MarkerFiled' /\ RetiredFree'
        BY <2>7, <3>2 DEF RRollback, Peace, MarkerFiled, RetiredFree
      <3>7. Journalled'
        BY <1>2, <2>7, <3>2 DEF RRollback, Peace, Journalled
      <3>8. pc[rec.job] = "dead" /\ file[rec.job] # NoFile
        BY <3>2, PhaseNames DEF Sound, Adopted
      <3>9. Attempts'
        <4>1. \A j \in Jobs : j # rec.job /\ Unused(j) => Unused(j)'
          BY <2>1, <2>7, <3>3 DEF RRollback, Unused, Busy
        <4>2. \A j \in Jobs : Unused(j) => j # rec.job
          BY <3>8 DEF Unused
        <4> QED
          BY <2>7, <4>1, <4>2 DEF RRollback, Peace, Attempts
      <3>10. RolledBackFree'
        <4> SUFFICES ASSUME NEW t \in Slots, Busy(t)', pc'[proc'[t].job] = "rollback_wait"
                     PROVE  FALSE
          BY DEF RolledBackFree
        <4> QED
          BY <2>1, <2>7, <3>3, <3>8 DEF RRollback, Busy
      <3> QED
        BY <3>4, <3>5, <3>6, <3>7, <3>9, <3>10 DEF Peace
    <2> QED
      BY <1>4, <2>2, <2>3, <2>4, <2>5, <2>6, <2>7 DEF RecoveryStep, RRolledBack
  <1>5. CASE RRolledBack
    <2>1. PICK s \in Slots, bad \in BOOLEAN :
            /\ proc[s].owner = "recovery" /\ proc[s].at \in Ended /\ Collect(s)
            /\ rec' = [rec EXCEPT !.at = "record", !.bad = bad]
            /\ ~bad => file[rec.job] = NoFile
      BY <1>5 DEF RRolledBack
    <2>2. Busy(s) /\ \A t \in Slots : Busy(t) => t = s
      BY <2>1, OneAtAdapter DEF Busy, Ended, Peace
    <2>3. proc'[s] = IdleProc /\ \A t \in Slots : t # s => proc'[t] = proc[t]
      BY <2>1 DEF Collect, Typed, TypeOK, AdapterTypeOK
    <2>4. \A t \in Slots : ~Busy(t)'
      BY <2>2, <2>3 DEF Busy, IdleProc
    <2>5. rec'.at = "record" /\ rec'.job = rec.job /\ rec'.bad = bad /\ rec.at = "rollback"
      BY <1>5, <2>1 DEF RRolledBack, Typed, TypeOK
    <2>6. \A t \in Slots : InStep(t)'
      <3>1. InStep(s)'
        BY <2>3, LoadedNames DEF InStep, IdleProc
      <3>2. ASSUME NEW t \in Slots, t # s
            PROVE  InStep(t)'
        BY <1>5, <2>3, <3>2 DEF RRolledBack, Peace, InStep, Direction
      <3> QED
        BY <3>1, <3>2
    <2>7. MarkerFiled' /\ RetiredFree'
      BY <1>5, <2>1, <2>5 DEF RRolledBack, Peace, MarkerFiled, RetiredFree
    <2>8. Journalled'
      BY <1>2, <1>5, <2>5 DEF RRolledBack, Peace, Journalled
    <2>9. Attempts'
      BY <1>5, <2>4 DEF RRolledBack, Peace, Attempts, Unused
    <2> QED
      BY <2>4, <2>6, <2>7, <2>8, <2>9 DEF Peace, Attended, RolledBackFree
  <1> QED
    BY <1>3, <1>4, <1>5 DEF RecoveryStep, RNoRollback, RRollback, RRecord, RRetire, RDone, RSkip,
       RAdopt

(* An adapter process keeps to its job.                                       *)
LEMMA RollingBackGoesOn ==
  ASSUME Typed, NEW s \in Slots, AdapterStep(s), proc[s].owner = "worker", RollingBack(s)
  PROVE  RollingBack(s)'
PROOF
  <1> USE DEF RollingBack
  <1>0. AdapterTypeOK /\ Employed /\ proc[s].job \in Jobs /\ proc[s].at # "idle"
    BY AdapterFrame, TypedParts DEF AdapterTyped, Busy, Employed
  <1>1. ~QuiesceStep(s) /\ ~FinalizeStep(s) /\ ~OrphanExits(s)
    BY DEF QuiesceStep, QInspect, QAnnounce, QCreate, QSign, QRecord, QAcquired, QBarrier,
       QDone, QRefuse, QuiesceAt, FinalizeStep, FRead, FBarrier, FCommit, OrphanExits, Goto,
       Write, RollbackAt, ReleaseAt, Ended
  <1>2. CASE Guard(s) \/ Refuse(s) \/ Timeout(s)
    <2>1. proc'[s].at \in {"unlink", "refused", "killed"}
      BY <1>0, <1>2, ArrivesAt
    <2> QED
      BY <2>1 DEF ReleaseAt, Ended
  <1>3. CASE RReadHeld(s) \/ RReadFree(s)
    <2>1. PICK to \in {"r_barrier", "delete"} :
            \E state : proc' = [proc EXCEPT ![s] = [@ EXCEPT !.at = to, !.mem = state]]
      BY <1>3 DEF RReadHeld, RReadFree
    <2>2. proc'[s].at = to
      BY <1>0, <2>1 DEF AdapterTypeOK, Procs
    <2> QED
      BY <2>2 DEF RollbackAt, ReleaseAt
  <1>4. CASE RBarrier(s) \/ Unlink(s)
    <2>1. PICK from \in {"r_barrier", "unlink"}, to \in {"r_mark", "release"} :
            Goto(s, from, to)
      BY <1>4 DEF RBarrier, Unlink
    <2>2. proc'[s].at = to
      BY <1>0, <2>1, GotoGives
    <2> QED
      BY <2>2 DEF RollbackAt, ReleaseAt
  <1>5. CASE RMark(s) \/ Release(s)
    <2>1. PICK from \in {"r_mark", "release"}, to \in {"guard", "delete"} :
            \E state : Write(s, from, to, state)
      BY <1>5 DEF RMark, Release
    <2>2. proc'[s].at = to
      BY <1>0, <2>1, WriteGives
    <2> QED
      BY <2>2 DEF ReleaseAt
  <1>6. CASE Delete(s)
    <2>1. proc'[s].at = "ok" /\ proc'[s].job = proc[s].job
      BY <1>0, <1>6, GotoGives DEF Delete
    <2>2. file'[proc[s].job] = NoFile
      BY <1>0, <1>6 DEF Delete, AdapterTypeOK
    <2> QED
      BY <2>1, <2>2 DEF Ended
  <1> QED
    BY <1>1, <1>2, <1>3, <1>4, <1>5, <1>6 DEF AdapterStep, RollbackStep, ReleaseStep

LEMMA PeaceAtAdapter ==
  ASSUME Typed, Exclusive, Sound, Peace, NEW s \in Slots, AdapterActs(s)
  PROVE  Peace'
PROOF
  <1> DEFINE k == proc[s].job
  <1>0. AdapterTyped /\ Employed /\ AdapterStep(s)
    BY TypedParts DEF AdapterActs
  <1>1. /\ Busy(s) /\ k \in Jobs /\ SlotsHeld(s)
        /\ \A j \in Jobs : j # k => file'[j] = file[j]
    BY <1>0, AdapterFrame, AdapterStepTyped DEF Busy, Employed
  <1>2. UNCHANGED <<active, pc, rec, attempted, finalized, pending>>
    BY DEF AdapterActs, TransactionKeeps, flagVars
  <1>3. \A t \in Slots : Busy(t) => t = s
    BY <1>1, OneAtAdapter DEF Peace
  <1>4. /\ Busy(s)' => proc'[s].job = k
        /\ Busy(s)' => proc'[s].owner = proc[s].owner
        /\ \A t \in Slots : t # s => proc'[t] = proc[t] /\ ~Busy(t)'
    BY <1>1, <1>3 DEF SlotsHeld, Busy, Peace, Attended
  <1>5. Attended'
    BY <1>1, <1>2, <1>4 DEF Attended, Called, Peace
  <1>6. InStep(s)' /\ MarkerFiled'
    BY <1>0, InStepGoesOn DEF Peace
  <1>7. \A t \in Slots : InStep(t)'
    <2>1. ASSUME NEW t \in Slots, t # s
          PROVE  InStep(t)'
      <3>1. ~Busy(t) /\ proc'[t] = proc[t]
        BY <1>4, <2>1 DEF Busy
      <3>2. proc[t].at = "idle" /\ ~proc[t].final
        BY <3>1 DEF Busy, Peace, InStep, ReleaseAt, Ended
      <3> QED
        BY <3>1, <3>2, LoadedNames DEF InStep
    <2> QED
      BY <1>6, <2>1
  (* Its caller has the job, or had it.                                        *)
  <1>8. \/ proc[s].owner = "worker" /\ pc[k] \in Waiting
        \/ proc[s].owner = "recovery" /\ rec.at = "rollback" /\ rec.job = k /\ pc[k] = "dead"
    <2>1. Called(s)
      BY <1>1 DEF Peace, Attended
    <2>2. CASE proc[s].owner = "worker"
      BY <2>2 DEF Exclusive, CallerWaits
    <2>3. CASE proc[s].owner = "recovery"
      <3>1. rec.at = "rollback" /\ rec.job = k
        BY <1>1, <2>3 DEF Exclusive, CallerWaits, Peace, Attended
      <3> QED
        BY <2>3, <3>1 DEF Sound, Adopted
    <2> QED
      BY <2>1, <2>2, <2>3 DEF Called
  <1>9. active[k] # 0
    BY <1>1, <1>8, WaitingLocked DEF Peace, Journalled
  <1>10. Journalled'
    BY <1>1, <1>2, <1>9 DEF Peace, Journalled
  <1>11. Attempts'
    <2>1. ~Unused(k) /\ pc[k] \notin Closing
      BY <1>1, <1>8, CallNames DEF Unused, Closing
    <2>2. \A j \in Jobs : j # k /\ Unused(j) => Unused(j)'
      BY <1>1, <1>4 DEF Unused
    <2> SUFFICES ASSUME NEW j \in Jobs
                 PROVE  /\ pc[j] \in AtUnmount \cup Waiting => j \in attempted
                        /\ j \notin attempted /\ pc[j] \in Alive \cup {"new"} => Unused(j)'
                        /\ j \in finalized => pc[j] \in PastCall /\ Unused(j)'
                        /\ pc[j] \in Closing /\ j \notin pending => file'[j] = NoFile
      BY <1>2 DEF Attempts
    <2>3. CASE j = k
      BY <2>1, <2>3 DEF Peace, Attempts
    <2>4. CASE j # k
      BY <1>1, <2>2, <2>4 DEF Peace, Attempts
    <2> QED
      BY <2>3, <2>4
  <1>12. RolledBackFree'
    <2> SUFFICES ASSUME Busy(s)', pc[k] = "rollback_wait", proc'[s].job = k
                 PROVE  RollingBack(s)'
      BY <1>2, <1>4 DEF RolledBackFree
    <2>1. RollingBack(s) /\ proc[s].owner = "worker"
      BY <1>1, <1>8 DEF Peace, RolledBackFree
    <2> QED
      BY <1>0, <2>1, RollingBackGoesOn
  <1>13. RetiredFree'
    <2>1. rec.at \notin {"record", "retire"}
      BY <1>1, NobodyAtAdapter DEF Peace
    <2> QED
      BY <1>2, <2>1 DEF RetiredFree
  <1> QED
    BY <1>5, <1>6, <1>7, <1>10, <1>11, <1>12, <1>13 DEF Peace

LEMMA PeaceDisturbed ==
  ASSUME Typed, Exclusive, Sound, Peace, Reboot \/ HostActs \/ DeviceLost \/ ShfsRestarts
  PROVE  Peace'
PROOF
  <1>1. CASE Reboot
    <2>1. /\ marker' = NoJob /\ rec' = IdleRecovery
          /\ \A j \in Jobs : file'[j] = NoFile
          /\ \A s \in Slots : proc'[s] = IdleProc
          /\ \A j \in Jobs : pc'[j] = IF pc[j] \in Alive THEN "dead" ELSE pc[j]
          /\ UNCHANGED finalized
      BY <1>1 DEF Reboot, Forget
    <2>2. \A s \in Slots : ~Busy(s)' /\ InStep(s)'
      BY <2>1, LoadedNames DEF Busy, IdleProc, InStep
    <2>3. \A j \in Jobs : pc'[j] \notin Alive
      BY <2>1, HopeNames
    <2>4. rec'.at = "idle"
      BY <2>1 DEF IdleRecovery
    <2>5. Attended' /\ RolledBackFree' /\ RetiredFree' /\ MarkerFiled'
      BY <2>1, <2>2, <2>4, HostAssumption DEF Attended, RolledBackFree, RetiredFree, MarkerFiled
    <2>6. Journalled'
      BY <2>1, <2>3, <2>4, StepNames DEF Journalled
    <2>7. Attempts'
      <3>1. \A j \in Jobs : Unused(j)'
        BY <2>1, <2>2 DEF Unused
      <3>2. \A j \in Jobs : pc'[j] \notin AtUnmount \cup Waiting
        BY <2>3, StepNames, UnmountNames
      <3>3. \A j \in finalized : pc'[j] \in PastCall
        BY <2>1, CallNames DEF Peace, Attempts, Typed, TypeOK
      <3> QED
        BY <2>1, <3>1, <3>2, <3>3 DEF Attempts
    <2> QED
      BY <2>2, <2>5, <2>6, <2>7 DEF Peace
  <1>2. CASE HostActs \/ DeviceLost \/ ShfsRestarts
    <2>1. /\ UNCHANGED <<file, proc, active, pc, rec, attempted, finalized, pending>>
          /\ marker' \in {marker, NoJob}
      BY <1>2 DEF HostActs, DeviceLost, ShfsRestarts, TransactionKeeps, adapterVars, flagVars,
         hostVars, UDStep, UDStart, UDLook, UDAct, ShellMount, MarkerAges, Attach, Detach
    <2>2. (\A s \in Slots : InStep(s)') /\ MarkerFiled'
      BY <2>1, HostAssumption DEF Peace, InStep, Direction, MarkerFiled
    <2>3. Attended' /\ Journalled' /\ Attempts' /\ RolledBackFree' /\ RetiredFree'
      BY <2>1 DEF Peace, Attended, Journalled, Attempts, RolledBackFree, RetiredFree, Busy,
         Called, Unused, RollingBack
    <2> QED
      BY <2>2, <2>3 DEF Peace
  <1> QED
    BY <1>1, <1>2

-----------------------------------------------------------------------------
(* What holds as long as nobody has died.                                     *)
Guarded ==
  /\ crashes = 0 => Peace
  /\ crashes = 0 \/ Single => BarrierUp
Kept == Typed /\ Exclusive /\ Sound /\ Guarded

LEMMA InitKept == Init => Kept
PROOF
  <1> SUFFICES ASSUME Init
               PROVE  Guarded
    BY InitTyped, InitSound DEF Kept
  <1> USE DEF Init, HostInit, AdapterInit
  <1>1. \A s \in Slots : ~Busy(s) /\ ~Called(s) /\ InStep(s)
    BY LoadedNames DEF IdleProc, Busy, Called, InStep
  <1>2. \A j \in Jobs : pc[j] \notin AtUnmount \cup Waiting \cup Closing \cup Locked
                          \cup {"quiesce_wait"}
    BY StepNames, WaitingLocked DEF AtUnmount, Closing
  <1>3. BarrierUp
    BY <1>2 DEF BarrierUp, Raised
  <1>4. MarkerFiled
    BY HostAssumption DEF MarkerFiled
  <1>5. Journalled /\ Attempts
    BY <1>1, <1>2 DEF Journalled, Attempts, Unused, IdleRecovery
  <1>6. Attended /\ RolledBackFree /\ RetiredFree
    BY <1>1 DEF Attended, RolledBackFree, RetiredFree, IdleRecovery
  <1> QED
    BY <1>1, <1>3, <1>4, <1>5, <1>6 DEF Guarded, Peace

LEMMA StepKept == Kept /\ [Next]_vars => Kept'
PROOF
  <1> SUFFICES ASSUME Kept, [Next]_vars
               PROVE  Guarded'
    BY StepTyped, StepSound DEF Kept
  <1>0. Typed /\ Exclusive /\ Sound /\ crashes \in Nat
    BY TransactionAssumption DEF Kept, Typed, TypeOK
  (* A death ends the peace, and the only job there is with it.                *)
  <1>1. ASSUME NEW j \in Jobs, Crash(j)
        PROVE  Guarded'
    <2>1. crashes' # 0
      BY <1>0, <1>1 DEF Crash
    <2>2. pc'[j] = "dead"
      BY <1>0, <1>1 DEF Crash, Move, Typed, TypeOK
    <2>3. Single => BarrierUp'
      BY <2>2 DEF Single, BarrierUp, Raised, AtUnmount
    <2> QED
      BY <2>1, <2>3 DEF Guarded
  <1>2. CASE RecoveryCrash
    <2>1. crashes' # 0
      BY <1>0, <1>2 DEF RecoveryCrash
    <2>2. BarrierUp'
      BY <1>0, <1>2, RecoveryAlone, UnmountNames DEF BarrierUp, Raised
    <2> QED
      BY <2>1, <2>2 DEF Guarded
  (* Every other step is taken among the living.                               *)
  <1>3. ASSUME crashes' = crashes,
               crashes = 0 \/ Single => BarrierUp',
               Peace => Peace'
        PROVE  Guarded'
    BY <1>3 DEF Kept, Guarded
  <1>4. crashes = 0 => Attended
    BY DEF Kept, Guarded, Peace
  <1>5. ASSUME NEW j \in Jobs, WorkerStep(j)
        PROVE  Guarded'
    <2>1. crashes' = crashes
      BY <1>5 DEF WorkerStep, StartWorker, OpenJournal, JournalRefused, Check, Quiesce,
         Quiesced, ListMounts, Unmount, Finalize, Finalized, OpenExclusive, RemoveUSB,
         Publish, Fail, CallFails, NothingToRelease, SkipRollback, Rollback, RolledBack,
         RecordFailure, CloseJournal, ExitWorker
    <2> QED
      BY <1>0, <1>3, <1>4, <1>5, <2>1, WorkerStepBarrier, WorkerStepPeace DEF Kept, Guarded
  <1>6. ASSUME NEW s \in Slots, AdapterActs(s)
        PROVE  Guarded'
    <2>1. crashes' = crashes
      BY <1>6 DEF AdapterActs, TransactionKeeps
    <2> QED
      BY <1>0, <1>3, <1>4, <1>6, <2>1, AdapterBarrier, PeaceAtAdapter DEF Kept, Guarded
  <1>7. CASE RStart \/ RecoveryStep
    <2>1. crashes' = crashes
      BY <1>7 DEF RStart, RecoveryStep, RNoRollback, RRollback, RRolledBack, RRecord, RRetire,
         RDone, RSkip, RAdopt, RecoveryKeeps
    <2>2. BarrierUp'
      BY <1>0, <1>7, RecoveryAlone, UnmountNames DEF BarrierUp, Raised
    <2> QED
      BY <1>0, <1>3, <1>7, <2>1, <2>2, PeaceRecovers
  <1>8. CASE Reboot \/ HostActs \/ DeviceLost \/ ShfsRestarts
    <2>1. crashes' = crashes
      BY <1>8 DEF Reboot, HostActs, DeviceLost, ShfsRestarts, TransactionKeeps
    <2> QED
      BY <1>0, <1>3, <1>8, <2>1, DisturbanceBarrier, PeaceDisturbed DEF Kept, Guarded
  <1>9. CASE UNCHANGED vars
    <2> USE DEF vars, hostVars, adapterVars, flagVars
    <2>1. BarrierUp => BarrierUp'
      BY <1>9 DEF BarrierUp, Raised, Busy
    <2>2. Peace => Peace'
      BY <1>9 DEF Peace, Attended, InStep, Direction, MarkerFiled, Journalled, Attempts,
         RolledBackFree, RetiredFree, RollingBack, Unused, Busy, Called
    <2> QED
      BY <1>3, <1>9, <2>1, <2>2 DEF Kept, Guarded
  <1> QED
    BY <1>1, <1>2, <1>5, <1>6, <1>7, <1>8, <1>9 DEF Next

LEMMA AlwaysKept == Spec => []Kept
  BY InitKept, StepKept, PTL DEF Spec

(* While a worker is at its unmount, the root marker is its own and no UD      *)
(* process has got past the marker (eject.go, strict_unmount; ud_adapter.php, *)
(* adapter_wait_for_barrier): for any number of jobs as long as no process    *)
(* has died, and for one job whoever dies.                                    *)
THEOREM UnmountIsUnderBarrier ==
  Spec => [](crashes = 0 \/ Single => UnmountUnderBarrier)
PROOF
  <1>1. Kept => (crashes = 0 \/ Single => UnmountUnderBarrier)
    BY DEF Kept, Guarded, BarrierUp, Raised, AtUnmount, UnmountUnderBarrier
  <1> QED
    BY <1>1, AlwaysKept, PTL

(* As long as no process has died, a root marker or an adapter state file     *)
(* outlives no active.json: the recovery knows of every barrier that somebody *)
(* still has to release (eject.go, fail; recover.go).                         *)
THEOREM BarrierIsOwned == Spec => [](crashes = 0 => BarrierHasOwner)
PROOF
  <1>1. Kept => (crashes = 0 => BarrierHasOwner)
    BY DEF Kept, Guarded, Peace, MarkerFiled, Journalled, BarrierHasOwner
  <1> QED
    BY <1>1, AlwaysKept, PTL

(* As long as no process has died, no adapter process gives the marker of     *)
(* another job away, although unlink() does not look whose it is              *)
(* (ud_adapter.php, adapter_release_root_marker).                             *)
THEOREM MarkerIsOwn == Spec /\ [](crashes = 0) => ReleasesOwnMarkerOnly
PROOF
  <1> DEFINE Own == \A s \in Slots :
                      proc[s].at = "unlink" /\ proc'[s].at = "release" =>
                        marker \in {proc[s].job, NoJob}
  <1>1. Kept /\ crashes = 0 => Own
    BY DEF Kept, Guarded, Peace, InStep
  <1>2. Kept /\ crashes = 0 /\ [Next]_vars => [Own]_vars
    BY <1>1
  <1> QED
    BY <1>2, AlwaysKept, PTL DEF Spec, ReleasesOwnMarkerOnly

(* As long as no process has died, a state file that says the barrier is      *)
(* being finalized, or is, says so until it is deleted (ud_adapter.php,       *)
(* finalize; recover.go: "finalized state is never rolled back").             *)
THEOREM FinalizedStays == Spec /\ [](crashes = 0) => FinalizedNeverRolledBack
PROOF
  <1>1. ASSUME Kept, crashes = 0, Next
        PROVE  OnlyForward
    <2>1. Typed /\ Peace
      BY <1>1 DEF Kept, Guarded
    <2>2. CASE file' = file
      BY <2>2 DEF OnlyForward
    <2>3. CASE \E s \in Slots : AdapterActs(s)
      BY <2>1, <2>3, InStepGoesOn DEF Peace, AdapterActs
    <2>4. CASE Reboot
      BY <2>4 DEF Reboot, OnlyForward, NoFile
    <2>5. ASSUME NEW j \in Jobs, WorkerStep(j) \/ Crash(j)
          PROVE  file' = file
      BY <2>5 DEF WorkerStep, StartWorker, OpenJournal, JournalRefused, Check, Quiesce,
         Quiesced, ListMounts, Unmount, Finalize, Finalized, OpenExclusive, RemoveUSB,
         Publish, Fail, CallFails, NothingToRelease, SkipRollback, Rollback, RolledBack,
         RecordFailure, CloseJournal, ExitWorker, Crash, adapterVars
    <2>6. CASE RStart \/ RecoveryStep \/ RecoveryCrash
      BY <2>2, <2>6 DEF RStart, RecoveryStep, RecoveryCrash, RNoRollback, RRollback,
         RRolledBack, RRecord, RRetire, RDone, RSkip, RAdopt, adapterVars
    <2>7. CASE HostActs \/ DeviceLost \/ ShfsRestarts
      BY <2>2, <2>7 DEF HostActs, DeviceLost, ShfsRestarts, adapterVars
    <2> QED
      BY <1>1, <2>2, <2>3, <2>4, <2>5, <2>6, <2>7 DEF Next
  <1>2. Kept /\ crashes = 0 /\ [Next]_vars
          => [\A j \in Jobs : file[j].phase \in Irreversible =>
                file'[j].phase \in Irreversible \cup {"none"}]_vars
    BY <1>1 DEF OnlyForward
  <1> QED
    BY <1>2, AlwaysKept, PTL DEF Spec, FinalizedNeverRolledBack
=============================================================================
