----------------------- MODULE EjectTransactionProofs -----------------------
(***************************************************************************)
(* Theorems about EjectTransaction, for any sets of jobs and adapter slots   *)
(* and any bounds.                                                           *)
(***************************************************************************)
EXTENDS EjectTransaction, TLAPS

-----------------------------------------------------------------------------
(* Type correctness.  A process that runs, and a recovery at work, has a job: *)
(* without this the type invariant is not inductive, since both read the      *)
(* adapter state file of the job they have.                                   *)
HasJob ==
  /\ \A s \in Slots : proc[s].at # "idle" => proc[s].job \in Jobs
  /\ rec.at \notin {"idle", "scan"} => rec.job \in Jobs

Typed == TypeOK /\ HasJob

(* What a step may write into a slot.                                         *)
LEMMA SlotType ==
  ASSUME NEW P \in [Slots -> Procs], NEW s \in Slots, NEW p \in Procs
  PROVE  /\ [P EXCEPT ![s] = p] \in [Slots -> Procs]
         /\ \A t \in Slots : [P EXCEPT ![s] = p][t] = IF t = s THEN p ELSE P[t]
  OBVIOUS

LEMMA IdleProcType == IdleProc \in Procs
  BY HostAssumption DEF IdleProc, Procs, NoFile, FileStates, UsbStates

(* What every step of an adapter process does to the slots: it works in its   *)
(* own slot and changes neither the job nor, until it exits, the caller.      *)
SlotsHeld(s) ==
  \A t \in Slots :
    \/ proc'[t] = proc[t]
    \/ t = s /\ proc[t].at # "idle" /\ proc'[t].job = proc[t].job
            /\ proc'[t].owner = proc[t].owner
    \/ t = s /\ proc[t].owner = "orphan" /\ proc'[t].at = "idle"
            /\ proc'[t].owner = "none"

LEMMA GotoType ==
  ASSUME AdapterTypeOK, NEW s \in Slots, NEW from, from # "idle",
         NEW to \in Running \cup Ended, Goto(s, from, to)
  PROVE  proc' \in [Slots -> Procs] /\ SlotsHeld(s)
  BY DEF AdapterTypeOK, Goto, Procs, SlotsHeld

LEMMA WriteType ==
  ASSUME AdapterTypeOK, NEW s \in Slots, NEW from, from # "idle",
         NEW to \in Running \cup Ended, NEW state \in FileStates,
         Write(s, from, to, state)
  PROVE  AdapterTypeOK' /\ SlotsHeld(s)
  BY ZenonT(60) DEF AdapterTypeOK, Write, Procs, SlotsHeld

(* The records a step may write.                                              *)
LEMMA MemType ==
  ASSUME AdapterTypeOK, NEW s \in Slots
  PROVE  proc[s].mem \in FileStates
  BY DEF AdapterTypeOK, Procs

LEMMA FlagType ==
  ASSUME NEW m \in FileStates
  PROVE  /\ [m EXCEPT !.acq = TRUE] \in FileStates
         /\ [m EXCEPT !.rel = TRUE] \in FileStates
         /\ \A p \in Phases : [m EXCEPT !.acq = FALSE, !.phase = p] \in FileStates
  BY DEF FileStates

LEMMA EnterType ==
  ASSUME NEW p \in Procs, NEW to \in Running \cup Ended, NEW m \in FileStates
  PROVE  /\ [p EXCEPT !.at = to, !.mem = m] \in Procs
         /\ [p EXCEPT !.at = to, !.mem = m, !.final = TRUE] \in Procs
         /\ \A n \in 0 .. MaxMounts :
              [p EXCEPT !.at = to, !.mem = m, !.snap = n] \in Procs
  BY DEF Procs

(* A process takes over a state, from its file or before it writes it there.  *)
LEMMA TakeType ==
  ASSUME AdapterTypeOK, NEW s \in Slots, NEW to \in Running \cup Ended,
         NEW m \in FileStates, proc[s].at # "idle",
         \/ proc' = [proc EXCEPT ![s] = [@ EXCEPT !.at = to, !.mem = m]]
         \/ proc' = [proc EXCEPT ![s] = [@ EXCEPT !.at = to, !.mem = m, !.final = TRUE]]
  PROVE  proc' \in [Slots -> Procs] /\ SlotsHeld(s)
PROOF
  <1>1. PICK p \in Procs : /\ proc' = [proc EXCEPT ![s] = p]
                           /\ p.job = proc[s].job /\ p.owner = proc[s].owner
    <2>1. proc[s] \in Procs
      BY DEF AdapterTypeOK
    <2>2. CASE proc' = [proc EXCEPT ![s] = [@ EXCEPT !.at = to, !.mem = m]]
      <3> DEFINE p == [proc[s] EXCEPT !.at = to, !.mem = m]
      <3>1. p \in Procs
        BY <2>1, EnterType
      <3>2. p.job = proc[s].job /\ p.owner = proc[s].owner
        BY <2>1 DEF Procs
      <3> QED
        BY <2>2, <3>1, <3>2 DEF AdapterTypeOK
    <2>3. CASE proc' = [proc EXCEPT ![s] = [@ EXCEPT !.at = to, !.mem = m, !.final = TRUE]]
      <3> DEFINE p == [proc[s] EXCEPT !.at = to, !.mem = m, !.final = TRUE]
      <3>1. p \in Procs
        BY <2>1, EnterType
      <3>2. p.job = proc[s].job /\ p.owner = proc[s].owner
        BY <2>1 DEF Procs
      <3> QED
        BY <2>3, <3>1, <3>2 DEF AdapterTypeOK
    <2> QED
      BY <2>2, <2>3
  <1> QED
    BY <1>1, SlotType DEF AdapterTypeOK, SlotsHeld

LEMMA WithPhaseType ==
  ASSUME AdapterTypeOK, NEW s \in Slots, NEW p \in Phases
  PROVE  WithPhase(s, p) \in FileStates
  BY DEF WithPhase, AdapterTypeOK, Procs, FileStates

LEMMA CollectType ==
  ASSUME AdapterTypeOK, NEW s \in Slots, Collect(s)
  PROVE  /\ proc' \in [Slots -> Procs]
         /\ proc'[s].at = "idle" /\ proc'[s].owner = "none"
         /\ \A t \in Slots : t # s => proc'[t] = proc[t]
  BY IdleProcType DEF AdapterTypeOK, Collect, IdleProc

LEMMA SpawnType ==
  ASSUME AdapterTypeOK, NEW s \in Slots, NEW op \in Running, NEW j \in Jobs,
         NEW who \in {"worker", "recovery"}, Spawn(s, op, j, who)
  PROVE  /\ proc' \in [Slots -> Procs]
         /\ proc'[s].job = j /\ proc'[s].owner = who /\ proc'[s].at = op
         /\ \A t \in Slots : t # s => proc'[t] = proc[t]
  BY IdleProcType DEF AdapterTypeOK, Spawn, IdleProc, Procs

(* A caller that dies leaves its adapter processes as they are, but for the    *)
(* name of the caller.                                                        *)
LEMMA OrphanType ==
  ASSUME AdapterTypeOK, NEW children \in SUBSET Slots, Orphan(children)
  PROVE  /\ proc' \in [Slots -> Procs]
         /\ \A s \in Slots : /\ proc'[s].at = proc[s].at
                             /\ proc'[s].job = proc[s].job
                             /\ s \in children => proc'[s].owner = "orphan"
                             /\ s \notin children => proc'[s] = proc[s]
  BY DEF AdapterTypeOK, Orphan, Procs

(* A step of one adapter process keeps the types of the adapter and the host. *)
AdapterTyped == HostTypeOK /\ AdapterTypeOK
Employed == \A s \in Slots : proc[s].at # "idle" => proc[s].job \in Jobs

LEMMA QuiesceStepTyped ==
  ASSUME AdapterTyped, Employed, NEW s \in Slots, QuiesceStep(s)
  PROVE  AdapterTyped' /\ SlotsHeld(s)
PROOF
  <1> USE DEF AdapterTyped, HostTypeOK, hostVars
  <1> DEFINE Steps == Running \cup Ended
  <1>0. /\ QuiesceAt \subseteq Steps /\ "ok" \in Steps /\ "refused" \in Steps
        /\ {"acquiring", "acquired", "quiesced"} \subseteq Phases
    BY DEF Running, Ended, QuiesceAt, Phases, Reversible
  <1>1. CASE QInspect(s)
    <2>1. PICK state \in FileStates :
            /\ proc' = [proc EXCEPT ![s] =
                          [@ EXCEPT !.at = "q_announce", !.mem = state, !.snap = mounts]]
            /\ file' = [file EXCEPT ![proc[s].job] = state]
      BY <1>1 DEF QInspect, FileStates, NoFile, Phases, Reversible
    <2>2. proc' \in [Slots -> Procs]
      <3>1. [proc[s] EXCEPT !.at = "q_announce", !.mem = state, !.snap = mounts] \in Procs
        BY <1>0, <2>1, EnterType DEF AdapterTypeOK, QuiesceAt
      <3> QED
        BY <2>1, <3>1 DEF AdapterTypeOK
    <2>3. SlotsHeld(s)
      BY <1>1, <2>1 DEF QInspect, AdapterTypeOK, Procs, SlotsHeld
    <2>4. AdapterTypeOK'
      BY <2>1, <2>2 DEF AdapterTypeOK
    <2> QED
      BY <1>1, <2>3, <2>4 DEF QInspect
  <1>2. CASE QAnnounce(s)
    BY <1>0, <1>2, WriteType, WithPhaseType DEF QAnnounce, QuiesceAt
  <1>3. CASE QCreate(s)
    BY <1>0, <1>3, GotoType DEF QCreate, AdapterTypeOK, QuiesceAt
  <1>4. CASE QSign(s)
    <2>1. proc' \in [Slots -> Procs] /\ SlotsHeld(s)
      BY <1>0, <1>4, GotoType DEF QSign, QuiesceAt
    <2>2. proc[s].job \in Jobs
      BY <1>4 DEF QSign, Goto, Employed
    <2> QED
      BY <1>4, <2>1, <2>2 DEF QSign, AdapterTypeOK
  <1>5. CASE QRecord(s)
    <2>1. [proc[s].mem EXCEPT !.acq = TRUE] \in FileStates
      BY MemType, FlagType
    <2> QED
      BY <1>0, <1>5, <2>1, WriteType DEF QRecord, QuiesceAt
  <1>6. CASE QAcquired(s)
    BY <1>0, <1>6, WriteType, WithPhaseType DEF QAcquired, QuiesceAt
  <1>7. CASE QBarrier(s)
    BY <1>0, <1>7, GotoType DEF QBarrier, AdapterTypeOK, QuiesceAt
  <1>8. CASE QDone(s)
    BY <1>0, <1>8, WriteType, WithPhaseType DEF QDone, QuiesceAt
  <1>9. CASE QRefuse(s)
    <2>1. proc[s].at # "idle" /\ proc[s].job \in Jobs
      BY <1>9 DEF QRefuse, QuiesceAt, Employed
    <2>2. Held(s) \subseteq FileStates
      <3>1. proc[s].mem \in FileStates /\ [proc[s].mem EXCEPT !.acq = TRUE] \in FileStates
        BY MemType, FlagType
      <3> QED
        BY <1>0, <3>1, WithPhaseType DEF Held
    <2>3. file[proc[s].job] \in FileStates
      BY <2>1 DEF AdapterTypeOK
    <2>4. PICK state \in FileStates :
            /\ file' = [file EXCEPT ![proc[s].job] = state]
            /\ proc' = [proc EXCEPT ![s] = [@ EXCEPT !.at = "refused", !.mem = state]]
      BY <1>9, <2>2, <2>3 DEF QRefuse
    <2>5. proc' \in [Slots -> Procs] /\ SlotsHeld(s)
      BY <1>0, <2>1, <2>4, ZenonT(60) DEF AdapterTypeOK, Procs, SlotsHeld
    <2>6. AdapterTypeOK'
      BY <2>4, <2>5 DEF AdapterTypeOK
    <2>7. HostTypeOK'
      BY <1>9 DEF QRefuse
    <2> QED
      BY <2>5, <2>6, <2>7
  <1> QED
    BY <1>1, <1>2, <1>3, <1>4, <1>5, <1>6, <1>7, <1>8, <1>9 DEF QuiesceStep

LEMMA OtherStepTyped ==
  ASSUME AdapterTyped, Employed, NEW s \in Slots,
         FinalizeStep(s) \/ RollbackStep(s) \/ ReleaseStep(s)
           \/ Refuse(s) \/ Timeout(s) \/ OrphanExits(s)
  PROVE  AdapterTyped' /\ SlotsHeld(s)
PROOF
  <1> USE DEF AdapterTyped, HostTypeOK, hostVars
  <1> DEFINE Steps == Running \cup Ended
             Working == FinalizeAt \cup RollbackAt \cup ReleaseAt
  <1>0. /\ Working \subseteq Steps /\ Ended \subseteq Steps /\ "idle" \notin Steps
        /\ {"finalizing", "finalized", "rollback_failed", "rolled_back"} \subseteq Phases
    BY DEF Running, Ended, QuiesceAt, FinalizeAt, RollbackAt, ReleaseAt, Phases, Reversible,
       Irreversible
  <1>1. proc[s].at # "idle" => proc[s].job \in Jobs /\ file[proc[s].job] \in FileStates
    BY DEF Employed, AdapterTypeOK
  <1>2. ASSUME NEW to \in Steps, NEW m \in FileStates, proc[s].at # "idle",
               \/ proc' = [proc EXCEPT ![s] = [@ EXCEPT !.at = to, !.mem = m]]
               \/ proc' = [proc EXCEPT ![s] = [@ EXCEPT !.at = to, !.mem = m, !.final = TRUE]],
               file' = file \/ file' = [file EXCEPT ![proc[s].job] = m]
        PROVE  AdapterTypeOK' /\ SlotsHeld(s)
    <2>1. proc' \in [Slots -> Procs] /\ SlotsHeld(s)
      BY <1>2, TakeType
    <2>2. file' \in [Jobs -> FileStates]
      BY <1>2 DEF AdapterTypeOK
    <2> QED
      BY <2>1, <2>2 DEF AdapterTypeOK
  <1>3. CASE FinalizeStep(s)
    <2>1. CASE FRead(s)
      BY <1>0, <1>1, <1>2, <2>1 DEF FRead, FinalizeAt
    <2>2. CASE FBarrier(s)
      BY <1>0, <2>2, GotoType DEF FBarrier, FinalizeAt, AdapterTypeOK
    <2>3. CASE FCommit(s)
      BY <1>0, <1>2, <2>3, WithPhaseType DEF FCommit, ReleaseAt
    <2> QED
      BY <1>3, <2>1, <2>2, <2>3 DEF FinalizeStep
  <1>4. CASE RollbackStep(s)
    <2>1. CASE RReadHeld(s)
      BY <1>0, <1>1, <1>2, <2>1 DEF RReadHeld, RollbackAt
    <2>2. CASE RReadFree(s)
      <3>1. [file[proc[s].job] EXCEPT !.phase = "rolled_back"] \in FileStates
        BY <1>0, <1>1, <2>2 DEF RReadFree, FileStates
      <3> QED
        BY <1>0, <1>2, <2>2, <3>1 DEF RReadFree, ReleaseAt
    <2>3. CASE RBarrier(s)
      BY <1>0, <2>3, GotoType DEF RBarrier, RollbackAt, AdapterTypeOK
    <2>4. CASE RMark(s)
      BY <1>0, <2>4, WriteType, WithPhaseType DEF RMark, ReleaseAt
    <2> QED
      BY <1>4, <2>1, <2>2, <2>3, <2>4 DEF RollbackStep
  <1>5. CASE ReleaseStep(s)
    <2>1. CASE Guard(s)
      BY <1>0, <2>1, WriteType, MemType, FlagType DEF Guard, ReleaseAt
    <2>2. CASE Unlink(s)
      BY <1>0, <2>2, GotoType DEF Unlink, ReleaseAt, AdapterTypeOK
    <2>3. CASE Release(s)
      <3>1. PICK p \in Phases :
              Write(s, "release", "delete", [proc[s].mem EXCEPT !.acq = FALSE, !.phase = p])
        BY <1>0, <2>3 DEF Release
      <3>2. [proc[s].mem EXCEPT !.acq = FALSE, !.phase = p] \in FileStates
        BY MemType, FlagType
      <3>3. "delete" \in Running \cup Ended
        BY DEF Running, ReleaseAt
      <3>4. AdapterTypeOK' /\ SlotsHeld(s)
        BY <3>1, <3>2, <3>3, WriteType
      <3> QED
        BY <2>3, <3>4 DEF Release
    <2>4. CASE Delete(s)
      <3>1. NoFile \in FileStates
        BY DEF NoFile, FileStates, UsbStates
      <3>2. proc' \in [Slots -> Procs] /\ SlotsHeld(s)
        BY <1>0, <2>4, GotoType DEF Delete, Ended
      <3> QED
        BY <2>4, <3>1, <3>2 DEF Delete, AdapterTypeOK
    <2> QED
      BY <1>5, <2>1, <2>2, <2>3, <2>4 DEF ReleaseStep
  <1>6. CASE Refuse(s)
    BY <1>0, <1>1, <1>2, <1>6 DEF Refuse, Ended
  <1>7. CASE Timeout(s)
    <2>1. proc[s].at # "idle" /\ "killed" \in Steps
      BY <1>0, <1>7 DEF Timeout, Ended
    <2>2. Goto(s, proc[s].at, "killed")
      BY <1>7 DEF Timeout, Goto
    <2> QED
      BY <1>7, <2>1, <2>2, GotoType DEF Timeout, AdapterTypeOK
  <1>8. CASE OrphanExits(s)
    <2>1. AdapterTypeOK'
      BY <1>8, CollectType DEF OrphanExits, AdapterTypeOK
    <2> QED
      BY <1>8, <2>1, CollectType DEF OrphanExits, SlotsHeld
  <1> QED
    BY <1>3, <1>4, <1>5, <1>6, <1>7, <1>8

LEMMA AdapterStepTyped ==
  ASSUME AdapterTyped, Employed, NEW s \in Slots, AdapterStep(s)
  PROVE  AdapterTyped' /\ SlotsHeld(s) /\ Employed'
PROOF
  <1>1. AdapterTyped' /\ SlotsHeld(s)
    BY QuiesceStepTyped, OtherStepTyped DEF AdapterStep
  <1>2. Employed'
    BY <1>1 DEF Employed, SlotsHeld
  <1> QED
    BY <1>1, <1>2

-----------------------------------------------------------------------------
(* The variables that no adapter process touches.                             *)
TransactionTypeOK ==
  /\ boot \in 1 .. MaxBoots
  /\ lock \in Jobs \cup {NoJob, Recoverer}
  /\ active \in [Jobs -> 0 .. MaxBoots]
  /\ job \in [Jobs -> {"absent", "running", "failed", "safe"}]
  /\ pc \in [Jobs -> WorkerSteps]
  /\ attempted \subseteq Jobs /\ unmounted \subseteq Jobs /\ finalized \subseteq Jobs
  /\ removed \subseteq Jobs /\ doubtful \subseteq Jobs /\ pending \subseteq Jobs
  /\ stale \subseteq Jobs
  /\ rec \in [at : RecoverySteps, job : Jobs \cup {NoJob},
              todo : SUBSET Jobs, bad : BOOLEAN]
  /\ crashes \in 0 .. MaxCrashes
  /\ doomed \subseteq Jobs
RecEmployed == rec.at \notin {"idle", "scan"} => rec.job \in Jobs

LEMMA TypedParts ==
  Typed <=> AdapterTyped /\ Employed /\ TransactionTypeOK /\ RecEmployed
  BY DEF Typed, TypeOK, HasJob, AdapterTyped, Employed, TransactionTypeOK, RecEmployed

LEMMA StepNames ==
  /\ Locked \subseteq Alive /\ Alive \subseteq WorkerSteps
  /\ {"new", "journal", "returning", "dead"} \subseteq WorkerSteps
  /\ CheckStages \cup ActStages \cup WaitStages \cup FailureSteps \subseteq Locked
  /\ {"terminal", "finish"} \subseteq Locked
  /\ "new" \notin Locked /\ "journal" \notin Locked
  /\ "returning" \notin Locked /\ "dead" \notin Locked
  /\ CheckStages = {"validate", "ud_inspect", "preflight", "verify_idle",
       "pre_remove_shfs", "post_finalize_shfs", "post_finalize_idle", "flush",
       "final_idle", "final_identity", "settle", "shfs_health"}
  BY DEF Locked, Alive, WorkerSteps, CheckStages, ActStages, WaitStages, FailureSteps, After

LEMMA AfterLocked == \A c \in CheckStages : After[c] \in Locked
  BY StepNames DEF After, ActStages

(* A worker step keeps the types.                                             *)
LEMMA WorkerStepTyped ==
  ASSUME Typed, NEW j \in Jobs, WorkerStep(j)
  PROVE  Typed'
PROOF
  <1> USE HostAssumption, TransactionAssumption
  <1> SUFFICES AdapterTyped' /\ Employed' /\ TransactionTypeOK' /\ RecEmployed'
    BY DEF Typed, TypeOK, HasJob, AdapterTyped, Employed, TransactionTypeOK, RecEmployed,
       HostTypeOK, AdapterTypeOK
  <1>0. AdapterTyped /\ Employed /\ TransactionTypeOK /\ RecEmployed
    BY TypedParts
  (* Most steps leave the adapter and the recovery alone.                      *)
  <1>1. ASSUME UNCHANGED <<adapterVars, rec>>
        PROVE  AdapterTypeOK' /\ Employed' /\ RecEmployed'
    BY <1>0, <1>1 DEF AdapterTyped, AdapterTypeOK, Employed, RecEmployed, adapterVars
  <1>2. ASSUME UNCHANGED hostVars
        PROVE  HostTypeOK'
    BY <1>0, <1>2 DEF AdapterTyped, HostTypeOK, hostVars
  (* The others start an adapter process or collect one.                       *)
  <1>3. ASSUME UNCHANGED <<hostVars, file, rec>>,
               NEW s \in Slots, NEW op \in Running,
               Collect(s) \/ Spawn(s, op, j, "worker")
        PROVE  AdapterTyped' /\ Employed' /\ RecEmployed'
    <2>1. /\ proc' \in [Slots -> Procs]
          /\ proc'[s].at = "idle" \/ proc'[s].job \in Jobs
          /\ \A t \in Slots : t # s => proc'[t] = proc[t]
      BY <1>0, <1>3, CollectType, SpawnType DEF AdapterTyped
    <2>2. AdapterTypeOK'
      BY <1>0, <1>3, <2>1 DEF AdapterTyped, AdapterTypeOK
    <2>3. Employed'
      BY <1>0, <2>1 DEF Employed
    <2> QED
      BY <1>0, <1>2, <1>3, <2>2, <2>3 DEF AdapterTyped, RecEmployed
  <1> HIDE DEF HostTypeOK
  <1>4. CASE StartWorker(j)
    BY <1>0, <1>1, <1>2, <1>4, StepNames DEF StartWorker, Move, TransactionTypeOK, flagVars,
       AdapterTyped
  <1>5. CASE OpenJournal(j)
    BY <1>0, <1>1, <1>2, <1>5, StepNames DEF OpenJournal, Move, TransactionTypeOK, flagVars,
       AdapterTyped
  <1>6. CASE JournalRefused(j)
    BY <1>0, <1>1, <1>2, <1>6, StepNames DEF JournalRefused, Move, TransactionTypeOK,
       flagVars, AdapterTyped
  <1>7. CASE Check(j)
    BY <1>0, <1>1, <1>2, <1>7, StepNames, AfterLocked DEF Check, Move, TransactionTypeOK,
       flagVars, AdapterTyped
  <1>8. CASE Quiesce(j)
    BY <1>0, <1>3, <1>8, StepNames DEF Quiesce, Move, TransactionTypeOK, Running, QuiesceAt,
       WaitStages
  <1>9. CASE Quiesced(j)
    BY <1>0, <1>3, <1>9, StepNames DEF Quiesced, Move, TransactionTypeOK, flagVars,
       ActStages, Running, QuiesceAt
  <1>10. CASE ListMounts(j)
    BY <1>0, <1>1, <1>2, <1>10, StepNames DEF ListMounts, Move, TransactionTypeOK,
       ActStages, AdapterTyped
  <1>11. CASE Unmount(j)
    BY <1>0, <1>1, <1>11, StepNames DEF Unmount, Move, TransactionTypeOK, ActStages,
       AdapterTyped, HostTypeOK
  <1>12. CASE Finalize(j)
    BY <1>0, <1>3, <1>12, StepNames DEF Finalize, Move, TransactionTypeOK, flagVars,
       Running, FinalizeAt, WaitStages
  <1>13. CASE Finalized(j)
    BY <1>0, <1>3, <1>13, StepNames DEF Finalized, Move, TransactionTypeOK, Running,
       QuiesceAt
  <1>14. CASE OpenExclusive(j)
    BY <1>0, <1>1, <1>14, StepNames DEF OpenExclusive, Move, TransactionTypeOK, flagVars,
       AdapterTyped, HostTypeOK
  <1>15. CASE RemoveUSB(j)
    BY <1>0, <1>1, <1>15, StepNames DEF RemoveUSB, Move, TransactionTypeOK, AdapterTyped,
       HostTypeOK, UsbStates
  <1>16. CASE Publish(j)
    BY <1>0, <1>1, <1>2, <1>16, StepNames DEF Publish, Move, TransactionTypeOK, flagVars,
       AdapterTyped
  <1>17. CASE Fail(j)
    BY <1>0, <1>1, <1>17, StepNames DEF Fail, Move, DropClaim, TransactionTypeOK, flagVars,
       AdapterTyped, HostTypeOK, FailureSteps
  <1>18. CASE CallFails(j)
    BY <1>0, <1>3, <1>18, StepNames DEF CallFails, Move, TransactionTypeOK, Running,
       QuiesceAt, FailureSteps
  <1>19. CASE NothingToRelease(j)
    BY <1>0, <1>1, <1>2, <1>19, StepNames DEF NothingToRelease, Move, TransactionTypeOK,
       flagVars, AdapterTyped, FailureSteps
  <1>20. CASE SkipRollback(j)
    BY <1>0, <1>1, <1>2, <1>20, StepNames DEF SkipRollback, Move, TransactionTypeOK,
       AdapterTyped, FailureSteps
  <1>21. CASE Rollback(j)
    BY <1>0, <1>3, <1>21, StepNames DEF Rollback, Move, TransactionTypeOK, flagVars,
       Running, RollbackAt, FailureSteps
  <1>22. CASE RolledBack(j)
    BY <1>0, <1>3, <1>22, StepNames DEF RolledBack, Move, TransactionTypeOK, Running,
       QuiesceAt, FailureSteps
  <1>23. CASE RecordFailure(j)
    BY <1>0, <1>1, <1>2, <1>23, StepNames DEF RecordFailure, Move, TransactionTypeOK,
       flagVars, AdapterTyped, FailureSteps
  <1>24. CASE CloseJournal(j)
    BY <1>0, <1>1, <1>2, <1>24, StepNames DEF CloseJournal, Move, TransactionTypeOK,
       flagVars, AdapterTyped
  <1>25. CASE ExitWorker(j)
    BY <1>0, <1>1, <1>2, <1>25, StepNames DEF ExitWorker, Move, Forget, TransactionTypeOK,
       AdapterTyped
  <1> QED
    BY <1>4, <1>5, <1>6, <1>7, <1>8, <1>9, <1>10, <1>11, <1>12, <1>13, <1>14, <1>15,
       <1>16, <1>17, <1>18, <1>19, <1>20, <1>21, <1>22, <1>23, <1>24, <1>25 DEF WorkerStep

(* So does a step of the recovery.                                            *)
LEMMA RecoveryTyped ==
  ASSUME Typed, RStart \/ RecoveryStep \/ RecoveryCrash
  PROVE  Typed'
PROOF
  <1> USE HostAssumption, TransactionAssumption
  <1> SUFFICES AdapterTyped' /\ Employed' /\ TransactionTypeOK' /\ RecEmployed'
    BY DEF Typed, TypeOK, HasJob, AdapterTyped, Employed, TransactionTypeOK, RecEmployed,
       HostTypeOK, AdapterTypeOK
  <1>0. AdapterTyped /\ Employed /\ TransactionTypeOK /\ RecEmployed
    BY TypedParts
  <1>1. ASSUME UNCHANGED <<hostVars, adapterVars>>
        PROVE  AdapterTyped' /\ Employed'
    BY <1>0, <1>1 DEF AdapterTyped, HostTypeOK, hostVars, AdapterTypeOK, Employed, adapterVars
  <1>2. ASSUME UNCHANGED <<hostVars, file>>, NEW s \in Slots, rec.job \in Jobs,
               Collect(s) \/ Spawn(s, "r_read", rec.job, "recovery")
        PROVE  AdapterTyped' /\ Employed'
    <2>1. "r_read" \in Running
      BY DEF Running, RollbackAt
    <2>2. /\ proc' \in [Slots -> Procs]
          /\ proc'[s].at = "idle" \/ proc'[s].job \in Jobs
          /\ \A t \in Slots : t # s => proc'[t] = proc[t]
      BY <1>0, <1>2, <2>1, CollectType, SpawnType DEF AdapterTyped
    <2>3. Employed'
      BY <1>0, <2>2 DEF Employed
    <2> QED
      BY <1>0, <1>2, <2>2, <2>3 DEF AdapterTyped, HostTypeOK, hostVars, AdapterTypeOK
  (* The record of the recovery.                                               *)
  <1>3. /\ IdleRecovery \in [at : RecoverySteps, job : Jobs \cup {NoJob},
                              todo : SUBSET Jobs, bad : BOOLEAN]
        /\ Rescan \in [at : RecoverySteps, job : Jobs \cup {NoJob},
                        todo : SUBSET Jobs, bad : BOOLEAN]
        /\ IdleRecovery.at = "idle" /\ Rescan.at = "scan"
    BY <1>0 DEF IdleRecovery, Rescan, RecoverySteps, TransactionTypeOK
  <1>4. CASE RStart
    BY <1>0, <1>1, <1>4 DEF RStart, RecoveryKeeps, TransactionTypeOK, RecEmployed,
       IdleRecovery, RecoverySteps, flagVars
  <1>5. CASE RecoveryStep
    <2>1. CASE RNoRollback
      BY <1>0, <1>1, <2>1 DEF RNoRollback, Recovering, RecoveryKeeps, TransactionTypeOK,
         RecEmployed, RecoverySteps, flagVars
    <2>2. CASE RRollback
      BY <1>0, <1>2, <2>2 DEF RRollback, Recovering, RecoveryKeeps, TransactionTypeOK,
         RecEmployed, RecoverySteps, flagVars
    <2>3. CASE RRolledBack
      <3>1. rec.job \in Jobs
        BY <1>0, <2>3 DEF RRolledBack, Recovering, RecEmployed
      <3>2. PICK bad \in BOOLEAN : rec' = [rec EXCEPT !.at = "record", !.bad = bad]
        BY <2>3 DEF RRolledBack
      <3>3. AdapterTyped' /\ Employed'
        BY <1>2, <2>3, <3>1 DEF RRolledBack
      <3> QED
        BY <1>0, <2>3, <3>1, <3>2, <3>3 DEF RRolledBack, RecoveryKeeps, TransactionTypeOK,
           RecEmployed, RecoverySteps, flagVars
    <2>4. CASE RRecord
      <3>1. TransactionTypeOK'
        BY <1>0, <1>3, <2>4 DEF RRecord, Recovering, RecoveryKeeps, TransactionTypeOK,
           RecoverySteps, flagVars
      <3>2. RecEmployed'
        BY <1>0, <1>3, <2>4 DEF RRecord, Recovering, RecEmployed, TransactionTypeOK
      <3> QED
        BY <1>1, <2>4, <3>1, <3>2 DEF RRecord
    <2>5. CASE RRetire
      BY <1>0, <1>1, <1>3, <2>5 DEF RRetire, Recovering, RecoveryKeeps, TransactionTypeOK,
         RecEmployed, flagVars
    <2>6. CASE RDone
      BY <1>0, <1>1, <1>3, <2>6 DEF RDone, Recovering, RecoveryKeeps, TransactionTypeOK,
         RecEmployed, flagVars
    <2>7. ASSUME NEW j \in Jobs, RSkip(j) \/ RAdopt(j)
          PROVE  AdapterTyped' /\ Employed' /\ TransactionTypeOK' /\ RecEmployed'
      <3>1. AdapterTyped' /\ Employed'
        BY <1>1, <2>7 DEF RSkip, RAdopt
      <3>2. CASE RSkip(j)
        BY <1>0, <3>1, <3>2 DEF RSkip, Recovering, RecoveryKeeps, TransactionTypeOK,
           RecEmployed, RecoverySteps, flagVars
      <3>3. CASE RAdopt(j)
        BY <1>0, <3>1, <3>3 DEF RAdopt, Recovering, RecoveryKeeps, TransactionTypeOK,
           RecEmployed, RecoverySteps, flagVars
      <3> QED
        BY <2>7, <3>2, <3>3
    <2> QED
      BY <1>5, <2>1, <2>2, <2>3, <2>4, <2>5, <2>6, <2>7 DEF RecoveryStep
  <1>6. CASE RecoveryCrash
    <2>1. proc' \in [Slots -> Procs] /\ Employed'
      BY <1>0, <1>6, OrphanType DEF RecoveryCrash, AdapterTyped, Employed
    <2>2. AdapterTyped'
      BY <1>0, <1>6, <2>1 DEF RecoveryCrash, AdapterTyped, HostTypeOK, hostVars,
         AdapterTypeOK
    <2>3. TransactionTypeOK' /\ RecEmployed'
      BY <1>0, <1>3, <1>6 DEF RecoveryCrash, TransactionTypeOK, RecEmployed, flagVars
    <2> QED
      BY <2>1, <2>2, <2>3
  <1> QED
    BY <1>4, <1>5, <1>6

(* So do the steps nobody schedules.                                          *)
LEMMA DisturbanceTyped ==
  ASSUME Typed,
         \/ \E j \in Jobs : Crash(j)
         \/ \E s \in Slots : AdapterActs(s)
         \/ Reboot \/ HostActs \/ DeviceLost \/ ShfsRestarts
  PROVE  Typed'
PROOF
  <1> USE HostAssumption, TransactionAssumption
  <1> SUFFICES AdapterTyped' /\ Employed' /\ TransactionTypeOK' /\ RecEmployed'
    BY DEF Typed, TypeOK, HasJob, AdapterTyped, Employed, TransactionTypeOK, RecEmployed,
       HostTypeOK, AdapterTypeOK
  <1>0. AdapterTyped /\ Employed /\ TransactionTypeOK /\ RecEmployed
    BY TypedParts
  <1>1. ASSUME NEW j \in Jobs, Crash(j)
        PROVE  AdapterTyped' /\ Employed' /\ TransactionTypeOK' /\ RecEmployed'
    <2>1. AdapterTyped' /\ Employed'
      BY <1>0, <1>1, OrphanType DEF Crash, DropClaim, AdapterTyped, HostTypeOK,
         AdapterTypeOK, Employed
    <2>2. TransactionTypeOK' /\ RecEmployed'
      BY <1>0, <1>1, StepNames DEF Crash, Move, Forget, TransactionTypeOK, RecEmployed
    <2> QED
      BY <2>1, <2>2
  <1>2. ASSUME NEW s \in Slots, AdapterActs(s)
        PROVE  AdapterTyped' /\ Employed' /\ TransactionTypeOK' /\ RecEmployed'
    BY <1>0, <1>2, AdapterStepTyped DEF AdapterActs, TransactionKeeps, TransactionTypeOK,
       RecEmployed, flagVars
  <1>3. CASE Reboot
    <2>1. HostTypeOK'
      <3>1. /\ usb' \in {"gone", "other"} /\ mounts' = 0 /\ claim' = NoJob
            /\ marker' = NoJob /\ aged' = FALSE /\ udop' = "idle"
        BY <1>3 DEF Reboot
      <3>2. aged' \in BOOLEAN
        BY <3>1
      <3>3. mounts' \in 0 .. MaxMounts
        BY <3>1
      <3> QED
        BY <3>1, <3>2, <3>3 DEF HostTypeOK, UsbStates, UDOps
    <2>2. AdapterTypeOK' /\ Employed'
      BY <1>3, IdleProcType DEF Reboot, AdapterTypeOK, Employed, IdleProc, NoFile,
         FileStates, UsbStates
    <2>3. TransactionTypeOK' /\ RecEmployed'
      BY <1>0, <1>3, StepNames DEF Reboot, Forget, TransactionTypeOK, RecEmployed,
         IdleRecovery, RecoverySteps
    <2> QED
      BY <2>1, <2>2, <2>3 DEF AdapterTyped
  <1>4. CASE HostActs
    <2>1. HostTypeOK'
      <3>1. aged' \in BOOLEAN
        BY <1>0, <1>4 DEF HostActs, UDStep, UDStart, UDLook, UDAct, ShellMount, MarkerAges,
           Attach, AdapterTyped, HostTypeOK
      <3>2. mounts' \in 0 .. MaxMounts
        BY <1>0, <1>4 DEF HostActs, UDStep, UDStart, UDLook, UDAct, ShellMount, MarkerAges,
           Attach, AdapterTyped, HostTypeOK
      <3>3. /\ usb' \in UsbStates /\ udop' \in UDOps /\ claim' \in Jobs \cup {NoJob}
            /\ marker' \in Jobs \cup {NoJob, Unsigned}
        BY <1>0, <1>4 DEF HostActs, UDStep, UDStart, UDLook, UDAct, ShellMount, MarkerAges,
           Attach, AdapterTyped, HostTypeOK, UsbStates, UDOps
      <3> QED
        BY <3>1, <3>2, <3>3 DEF HostTypeOK
    <2>2. AdapterTypeOK' /\ Employed'
      BY <1>0, <1>4 DEF HostActs, adapterVars, AdapterTyped, AdapterTypeOK, Employed
    <2>3. TransactionTypeOK' /\ RecEmployed'
      BY <1>0, <1>4 DEF HostActs, TransactionKeeps, TransactionTypeOK, RecEmployed, flagVars
    <2> QED
      BY <2>1, <2>2, <2>3 DEF AdapterTyped
  <1>5. CASE DeviceLost
    BY <1>0, <1>5 DEF DeviceLost, Detach, AdapterTyped, HostTypeOK, UsbStates,
       AdapterTypeOK, Employed, adapterVars, TransactionKeeps, TransactionTypeOK,
       RecEmployed, flagVars
  <1>6. CASE ShfsRestarts
    BY <1>0, <1>6 DEF ShfsRestarts, AdapterTyped, HostTypeOK, hostVars,
       AdapterTypeOK, Employed, adapterVars, TransactionKeeps, TransactionTypeOK,
       RecEmployed, flagVars
  <1> QED
    BY <1>1, <1>2, <1>3, <1>4, <1>5, <1>6

LEMMA StepTyped == Typed /\ [Next]_vars => Typed'
PROOF
  <1>1. ASSUME Typed, UNCHANGED vars
        PROVE  Typed'
    BY <1>1 DEF vars, hostVars, adapterVars, flagVars, Typed, TypeOK, HasJob, HostTypeOK,
       AdapterTypeOK
  <1> QED
    BY <1>1, WorkerStepTyped, RecoveryTyped, DisturbanceTyped DEF Next

LEMMA InitTyped == Init => Typed
PROOF
  <1> USE HostAssumption, TransactionAssumption
  <1> SUFFICES ASSUME Init
               PROVE  AdapterTyped /\ Employed /\ TransactionTypeOK /\ RecEmployed
    BY TypedParts
  <1>1. HostTypeOK
    BY DEF Init, HostInit, HostTypeOK, UsbStates, UDOps
  <1>2. AdapterTypeOK /\ Employed
    BY IdleProcType DEF Init, AdapterInit, AdapterTypeOK, Employed, IdleProc, NoFile,
       FileStates, UsbStates
  <1>3. TransactionTypeOK /\ RecEmployed
    BY StepNames DEF Init, TransactionTypeOK, RecEmployed, IdleRecovery, RecoverySteps
  <1> QED
    BY <1>1, <1>2, <1>3 DEF AdapterTyped

(* Every variable keeps its type, in every state and for every value of the   *)
(* constants; and a process that runs has a job.                              *)
THEOREM TypeCorrect == Spec => []TypeOK
PROOF
  <1>1. Spec => []Typed
    BY InitTyped, StepTyped, PTL DEF Spec
  <1>2. Typed => TypeOK
    BY DEF Typed
  <1> QED
    BY <1>1, <1>2, PTL

-----------------------------------------------------------------------------
(* The device is removed unmounted.  Two facts carry this past the unmount    *)
(* barrier, which is already down: the kernel mounts nothing on a device with *)
(* an exclusive claim, and a worker past exclusive_open has that claim as     *)
(* long as the target is attached.  The transaction lock plays no part.       *)
Claiming == {"flush", "final_idle", "final_identity", "usb_remove"}
ClaimKeepsOut == claim # NoJob => mounts = 0
ClaimHeld == \A j \in Jobs : pc[j] \in Claiming /\ usb = "target" => claim = j
Claimed == ClaimKeepsOut /\ ClaimHeld

(* Most steps of a worker come nowhere near the claim.                        *)
LEMMA ClaimUntouched ==
  ASSUME Typed, Claimed, NEW j \in Jobs, UNCHANGED <<usb, mounts, claim>>,
         NEW to, to \in Claiming => pc[j] \in Claiming, Move(j, to)
  PROVE  Claimed'
  BY DEF Claimed, ClaimKeepsOut, ClaimHeld, Move, Typed, TypeOK

LEMMA AfterClaiming ==
  \A c \in CheckStages : After[c] \in Claiming => c \in Claiming
  BY StepNames DEF After, Claiming

LEMMA WorkerStepClaimed ==
  ASSUME Typed, Claimed, NEW j \in Jobs, WorkerStep(j)
  PROVE  Claimed'
PROOF
  <1> USE DEF hostVars, Claiming
  <1>1. CASE OpenExclusive(j)
    BY <1>1, HostAssumption DEF OpenExclusive, Move, Claimed, ClaimKeepsOut, ClaimHeld,
       Typed, TypeOK
  <1>2. CASE RemoveUSB(j)
    BY <1>2 DEF RemoveUSB, Claimed, ClaimKeepsOut, ClaimHeld
  <1>3. CASE Unmount(j)
    <2>1. claim = NoJob /\ UNCHANGED <<usb, claim>> /\ Move(j, "ud_finalize")
      BY <1>3, HostAssumption DEF Unmount, Claimed, ClaimKeepsOut, Typed, TypeOK, HostTypeOK
    <2> QED
      BY <2>1 DEF Move, Claimed, ClaimKeepsOut, ClaimHeld, Typed, TypeOK
  <1>4. CASE Fail(j)
    BY <1>4, HostAssumption DEF Fail, DropClaim, Move, Claimed, ClaimKeepsOut, ClaimHeld,
       Typed, TypeOK
  <1>5. CASE Check(j)
    BY <1>5, ClaimUntouched, AfterClaiming DEF Check
  <1>6. CASE StartWorker(j) \/ OpenJournal(j) \/ JournalRefused(j) \/ Quiesce(j)
    BY <1>6, ClaimUntouched DEF StartWorker, OpenJournal, JournalRefused, Quiesce
  <1>7. CASE Quiesced(j) \/ ListMounts(j) \/ Finalize(j) \/ Finalized(j) \/ Publish(j)
    BY <1>7, ClaimUntouched DEF Quiesced, ListMounts, Finalize, Finalized, Publish
  <1>8. CASE CallFails(j) \/ NothingToRelease(j) \/ SkipRollback(j) \/ Rollback(j)
    BY <1>8, ClaimUntouched DEF CallFails, NothingToRelease, SkipRollback, Rollback
  <1>9. CASE RolledBack(j) \/ RecordFailure(j) \/ CloseJournal(j) \/ ExitWorker(j)
    BY <1>9, ClaimUntouched DEF RolledBack, RecordFailure, CloseJournal, ExitWorker
  <1> QED
    BY <1>1, <1>2, <1>3, <1>4, <1>5, <1>6, <1>7, <1>8, <1>9 DEF WorkerStep

LEMMA OtherStepClaimed ==
  ASSUME Typed, Claimed,
         \/ \E j \in Jobs : Crash(j)
         \/ \E s \in Slots : AdapterActs(s)
         \/ RStart \/ RecoveryStep \/ RecoveryCrash
         \/ Reboot \/ HostActs \/ DeviceLost \/ ShfsRestarts
  PROVE  Claimed'
PROOF
  <1> USE DEF Claimed, ClaimKeepsOut, ClaimHeld
  <1>1. ASSUME UNCHANGED <<usb, mounts, claim, pc>>
        PROVE  Claimed'
    BY <1>1
  <1>2. ASSUME NEW j \in Jobs, Crash(j)
        PROVE  Claimed'
    BY <1>2, HostAssumption DEF Crash, DropClaim, Move, Claiming, Typed, TypeOK
  <1>3. ASSUME NEW s \in Slots, AdapterActs(s)
        PROVE  Claimed'
    <2>1. UNCHANGED <<usb, mounts, claim>>
      BY <1>3 DEF AdapterActs, AdapterStep, QuiesceStep, FinalizeStep, RollbackStep,
         ReleaseStep, QInspect, QAnnounce, QCreate, QSign, QRecord, QAcquired, QBarrier,
         QDone, QRefuse, FRead, FBarrier, FCommit, RReadHeld, RReadFree, RBarrier, RMark,
         Guard, Unlink, Release, Delete, Refuse, Timeout, OrphanExits, hostVars
    <2> QED
      BY <1>1, <1>3, <2>1 DEF AdapterActs, TransactionKeeps
  <1>4. CASE RStart \/ RecoveryStep \/ RecoveryCrash
    BY <1>1, <1>4 DEF RStart, RecoveryStep, RecoveryCrash, RNoRollback, RRollback,
       RRolledBack, RRecord, RRetire, RDone, RSkip, RAdopt, RecoveryKeeps, hostVars
  <1>5. CASE Reboot
    BY <1>5, HostAssumption DEF Reboot, Claiming
  <1>6. CASE HostActs
    <2>1. /\ claim' = claim /\ pc' = pc
          /\ usb' = usb \/ usb' = "other"
          /\ claim # NoJob => mounts' = mounts
      BY <1>6 DEF HostActs, TransactionKeeps, UDStep, UDStart, UDLook, UDAct, ShellMount,
         MarkerAges, Attach, Typed, TypeOK, HostTypeOK
    <2> QED
      BY <2>1
  <1>7. CASE DeviceLost
    BY <1>7 DEF DeviceLost, Detach, TransactionKeeps
  <1>8. CASE ShfsRestarts
    BY <1>1, <1>8 DEF ShfsRestarts, TransactionKeeps, hostVars
  <1> QED
    BY <1>2, <1>3, <1>4, <1>5, <1>6, <1>7, <1>8

(* The USB path is removed with the target on it only while nothing is        *)
(* mounted (eject.go, usb_remove): for any number of jobs, recoveries,        *)
(* crashes and UD steps, and although the marker is released before.          *)
THEOREM RemovalUnmounted == Spec => RemovedUnmounted
PROOF
  <1>1. Init => Typed /\ Claimed
    BY InitTyped DEF Init, HostInit, Claimed, ClaimKeepsOut, ClaimHeld, Claiming
  <1>2. Typed /\ Claimed /\ [Next]_vars => Typed' /\ Claimed'
    <2>1. ASSUME Claimed, UNCHANGED vars
          PROVE  Claimed'
      BY <2>1 DEF vars, hostVars, Claimed, ClaimKeepsOut, ClaimHeld
    <2> QED
      BY <2>1, StepTyped, WorkerStepClaimed, OtherStepClaimed DEF Next
  <1>3. Typed /\ Claimed /\ [Next]_vars
          => [removed' # removed /\ usb = "target" => mounts = 0]_vars
    <2> SUFFICES ASSUME Typed, Claimed, Next, removed' # removed, usb = "target"
                 PROVE  mounts = 0
      BY DEF vars
    <2>1. PICK j \in Jobs : RemoveUSB(j)
      <3>1. ~(RStart \/ RecoveryStep \/ RecoveryCrash)
        BY DEF RStart, RecoveryStep, RecoveryCrash, RNoRollback, RRollback, RRolledBack,
           RRecord, RRetire, RDone, RSkip, RAdopt, RecoveryKeeps, flagVars
      <3>2. ~(Reboot \/ HostActs \/ DeviceLost \/ ShfsRestarts)
              /\ \A s \in Slots : ~AdapterActs(s)
        BY DEF Reboot, Forget, HostActs, DeviceLost, ShfsRestarts, AdapterActs,
           TransactionKeeps, flagVars
      <3>3. ASSUME NEW j \in Jobs, WorkerStep(j) \/ Crash(j)
            PROVE  RemoveUSB(j)
        BY <3>3 DEF WorkerStep, Crash, Forget, flagVars, StartWorker, OpenJournal,
           JournalRefused, Check, Quiesce, Quiesced, ListMounts, Unmount, Finalize,
           Finalized, OpenExclusive, Publish, Fail, CallFails, NothingToRelease,
           SkipRollback, Rollback, RolledBack, RecordFailure, CloseJournal, ExitWorker
      <3> QED
        BY <3>1, <3>2, <3>3 DEF Next
    <2>2. claim = j /\ j # NoJob
      BY <2>1, HostAssumption DEF RemoveUSB, At, Claimed, ClaimHeld, Claiming
    <2> QED
      BY <2>2 DEF Claimed, ClaimKeepsOut
  <1> QED
    BY <1>1, <1>2, <1>3, PTL DEF Spec, RemovedUnmounted

-----------------------------------------------------------------------------
(* One hand at a time.  What OneHand says of the processes follows from who   *)
(* holds the transaction lock: a worker past its journal and a recovery at    *)
(* work hold it, and an adapter process that still has a caller has one that  *)
(* waits for it, which only the holder of the lock does.                      *)
Waiting == WaitStages \cup {"rollback_wait"}
Called(s) == proc[s].owner \in {"worker", "recovery"}

WorkerHolds == \A j \in Jobs : pc[j] \in Locked => lock = j
RecoveryHolds == rec.at # "idle" => lock = Recoverer
CallerWaits ==
  \A s \in Slots :
    /\ proc[s].owner = "worker" => proc[s].job \in Jobs /\ pc[proc[s].job] \in Waiting
    /\ proc[s].owner = "recovery" => rec.at = "rollback"
OneCalled == \A s, t \in Slots : Called(s) /\ Called(t) => s = t
Exclusive == WorkerHolds /\ RecoveryHolds /\ CallerWaits /\ OneCalled

LEMMA ExclusiveIsOneHand == Typed /\ Exclusive => OneHand
  BY TransactionAssumption DEF Exclusive, WorkerHolds, RecoveryHolds, OneCalled, Called,
     OneHand, Recovering

LEMMA WaitingLocked ==
  /\ Waiting \subseteq Locked
  /\ CheckStages \cap Waiting = {} /\ ActStages \cap Waiting = {}
  /\ {"new", "journal", "returning", "dead", "failing", "record", "retire",
       "terminal", "finish"} \cap Waiting = {}
  BY StepNames DEF Waiting, WaitStages, ActStages, Locked, FailureSteps

(* Only the holder of the lock has called anybody.                            *)
LEMMA NobodyCalled ==
  ASSUME Typed, Exclusive, NEW h,
         \/ h \in Jobs /\ pc[h] \in Locked \ Waiting
         \/ h = Recoverer /\ rec.at \notin {"idle", "rollback"}
         \/ lock = NoJob
  PROVE  \A s \in Slots : ~Called(s)
  BY WaitingLocked, TransactionAssumption, HostAssumption DEF Exclusive, WorkerHolds,
     RecoveryHolds, CallerWaits, Called

(* A worker that neither takes nor gives the lock and calls nobody.           *)
LEMMA HolderMoves ==
  ASSUME Typed, Exclusive, NEW j \in Jobs, UNCHANGED <<proc, lock, rec>>,
         NEW to, to \in Locked => pc[j] \in Locked,
         pc[j] \notin Waiting, Move(j, to)
  PROVE  Exclusive'
PROOF
  <1>1. pc' \in [Jobs -> WorkerSteps \cup {to}]
        /\ pc'[j] = to /\ \A k \in Jobs : k # j => pc'[k] = pc[k]
    BY DEF Move, Typed, TypeOK
  <1> QED
    BY <1>1 DEF Exclusive, WorkerHolds, RecoveryHolds, CallerWaits, OneCalled, Called

(* A worker with the lock calls the adapter.                                  *)
LEMMA HolderCalls ==
  ASSUME Typed, Exclusive, NEW j \in Jobs, pc[j] \in Locked \ Waiting,
         NEW to \in Waiting, Move(j, to), UNCHANGED <<lock, rec>>,
         NEW s \in Slots, NEW op \in Running, Spawn(s, op, j, "worker")
  PROVE  Exclusive'
PROOF
  <1>1. \A t \in Slots : ~Called(t)
    BY NobodyCalled
  <1>2. /\ proc'[s].job = j /\ proc'[s].owner = "worker"
        /\ \A t \in Slots : t # s => proc'[t] = proc[t]
    BY SpawnType DEF Typed, TypeOK
  <1>3. pc'[j] = to /\ \A k \in Jobs : k # j => pc'[k] = pc[k]
    BY DEF Move, Typed, TypeOK
  <1> QED
    BY <1>1, <1>2, <1>3, WaitingLocked DEF Exclusive, WorkerHolds, RecoveryHolds,
       CallerWaits, OneCalled, Called

(* A worker with the lock collects the process it called.                     *)
LEMMA HolderCollects ==
  ASSUME Typed, Exclusive, NEW j \in Jobs, pc[j] \in Waiting,
         NEW to \in Locked, Move(j, to), UNCHANGED <<lock, rec>>,
         NEW s \in Slots, Child(s, j), Collect(s)
  PROVE  Exclusive'
PROOF
  <1>1. /\ proc'[s].owner = "none"
        /\ \A t \in Slots : t # s => proc'[t] = proc[t] /\ ~Called(t)
    BY CollectType DEF Typed, TypeOK, Child, Exclusive, OneCalled, Called
  <1>2. pc'[j] = to /\ \A k \in Jobs : k # j => pc'[k] = pc[k]
    BY DEF Move, Typed, TypeOK
  <1> QED
    BY <1>1, <1>2, WaitingLocked DEF Exclusive, WorkerHolds, RecoveryHolds, CallerWaits,
       OneCalled, Called

LEMMA WorkerStepExclusive ==
  ASSUME Typed, Exclusive, NEW j \in Jobs, WorkerStep(j)
  PROVE  Exclusive'
PROOF
  <1> USE DEF adapterVars
  <1>0. "failing" \in Locked /\ "record" \in Locked /\ "retire" \in Locked
        /\ "quiesce_wait" \in Waiting /\ "finalize_wait" \in Waiting
        /\ "rollback_wait" \in Waiting /\ WaitStages \subseteq Waiting
        /\ ActStages \subseteq Locked \ Waiting
        /\ "failing" \in Locked \ Waiting
    BY StepNames, WaitingLocked DEF FailureSteps, Waiting, WaitStages
  <1>1. CASE OpenJournal(j)
    <2>1. \A s \in Slots : ~Called(s)
      BY <1>1, NobodyCalled DEF OpenJournal
    <2>2. pc'[j] = "validate" /\ \A k \in Jobs : k # j => pc'[k] = pc[k]
      BY <1>1 DEF OpenJournal, Move, Typed, TypeOK
    <2> QED
      BY <1>1, <2>1, <2>2, HostAssumption, TransactionAssumption DEF OpenJournal, Exclusive,
         WorkerHolds, RecoveryHolds, CallerWaits, OneCalled, Called
  <1>2. CASE CloseJournal(j)
    <2>1. pc[j] \in Locked \ Waiting
      BY <1>2, StepNames, WaitingLocked DEF CloseJournal, FailureSteps
    <2>2. \A s \in Slots : ~Called(s)
      BY <2>1, NobodyCalled
    <2>3. pc'[j] = "returning" /\ \A k \in Jobs : k # j => pc'[k] = pc[k]
      BY <1>2 DEF CloseJournal, Move, Typed, TypeOK
    <2> QED
      BY <1>2, <2>1, <2>2, <2>3, StepNames, HostAssumption, TransactionAssumption
      DEF CloseJournal, Exclusive, WorkerHolds, RecoveryHolds, CallerWaits, OneCalled, Called
  <1>3. CASE Quiesce(j)
    BY <1>0, <1>3, HolderCalls DEF Quiesce, At, ActStages, Running, QuiesceAt
  <1>4. CASE Finalize(j)
    BY <1>0, <1>4, HolderCalls DEF Finalize, At, ActStages, Running, FinalizeAt
  <1>5. CASE Rollback(j)
    BY <1>0, <1>5, HolderCalls DEF Rollback, At, Running, RollbackAt
  <1>6. CASE Quiesced(j)
    BY <1>0, <1>6, HolderCollects DEF Quiesced, At, ActStages
  <1>7. CASE Finalized(j)
    BY <1>0, <1>7, HolderCollects, StepNames DEF Finalized, At
  <1>8. CASE CallFails(j)
    BY <1>0, <1>8, HolderCollects DEF CallFails
  <1>9. CASE RolledBack(j)
    BY <1>0, <1>9, HolderCollects DEF RolledBack, At
  <1>10. CASE StartWorker(j) \/ JournalRefused(j) \/ ExitWorker(j)
    BY <1>10, HolderMoves, StepNames, WaitingLocked DEF StartWorker, JournalRefused,
       ExitWorker, At
  <1>11. CASE Check(j)
    BY <1>11, HolderMoves, StepNames, WaitingLocked DEF Check
  <1>12. CASE ListMounts(j) \/ Unmount(j) \/ OpenExclusive(j) \/ RemoveUSB(j) \/ Publish(j)
    BY <1>0, <1>12, HolderMoves, StepNames, WaitingLocked DEF ListMounts, Unmount,
       OpenExclusive, RemoveUSB, Publish, At, ActStages
  <1>13. CASE Fail(j)
    BY <1>0, <1>13, HolderMoves, StepNames, WaitingLocked DEF Fail
  <1>14. CASE NothingToRelease(j) \/ SkipRollback(j) \/ RecordFailure(j)
    BY <1>0, <1>14, HolderMoves, WaitingLocked DEF NothingToRelease, SkipRollback,
       RecordFailure, At
  <1> QED
    BY <1>1, <1>2, <1>3, <1>4, <1>5, <1>6, <1>7, <1>8, <1>9, <1>10, <1>11, <1>12, <1>13,
       <1>14 DEF WorkerStep

(* The recovery, of which there is one, works on the same terms.              *)
LEMMA RecoveryExclusive ==
  ASSUME Typed, Exclusive, RStart \/ RecoveryStep \/ RecoveryCrash
  PROVE  Exclusive'
PROOF
  <1> USE DEF Exclusive, WorkerHolds, RecoveryHolds, CallerWaits, OneCalled, Called,
      adapterVars, Recovering, RecoveryKeeps
  (* The recovery looks, and moves on with the lock.                           *)
  <1>1. ASSUME UNCHANGED <<proc, lock, pc>>, rec.at # "idle", rec.at # "rollback"
        PROVE  Exclusive'
    BY <1>1
  <1>2. CASE RStart
    <2>1. \A s \in Slots : ~Called(s)
      BY <1>2, NobodyCalled DEF RStart
    <2>2. \A j \in Jobs : pc[j] \notin Locked
      BY <1>2, HostAssumption DEF RStart
    <2> QED
      BY <1>2, <2>1, <2>2 DEF RStart
  <1>3. CASE RecoveryStep
    <2>1. CASE RNoRollback \/ RRecord \/ RRetire
      BY <1>1, <2>1 DEF RNoRollback, RRecord, RRetire
    <2>2. CASE \E j \in Jobs : RSkip(j) \/ RAdopt(j)
      BY <1>1, <2>2 DEF RSkip, RAdopt
    <2>3. CASE RRollback
      <3>1. \A s \in Slots : ~Called(s)
        BY <2>3, NobodyCalled DEF RRollback
      <3>2. PICK s \in Slots : Spawn(s, "r_read", rec.job, "recovery")
        BY <2>3 DEF RRollback
      <3>3. rec.job \in Jobs /\ rec.at = "adapter" /\ rec'.at = "rollback"
        BY <2>3 DEF RRollback, Typed, HasJob, TypeOK
      <3>4. /\ proc'[s].owner = "recovery"
            /\ \A t \in Slots : t # s => proc'[t] = proc[t]
        BY <3>2, <3>3, SpawnType DEF Typed, TypeOK, Running, RollbackAt
      <3> QED
        BY <2>3, <3>1, <3>3, <3>4 DEF RRollback
    <2>4. CASE RRolledBack
      <3>1. PICK s \in Slots : proc[s].owner = "recovery" /\ Collect(s)
        BY <2>4 DEF RRolledBack
      <3>2. /\ proc'[s].owner = "none"
            /\ \A t \in Slots : t # s => proc'[t] = proc[t] /\ ~Called(t)
        BY <3>1, CollectType DEF Typed, TypeOK
      <3> QED
        BY <2>4, <3>2 DEF RRolledBack
    <2>5. CASE RDone
      <3>1. \A s \in Slots : ~Called(s)
        BY <2>5, NobodyCalled DEF RDone
      <3>2. \A j \in Jobs : pc[j] \notin Locked
        BY <2>5, TransactionAssumption DEF RDone
      <3> QED
        BY <2>5, <3>1, <3>2 DEF RDone, IdleRecovery
    <2> QED
      BY <1>3, <2>1, <2>2, <2>3, <2>4, <2>5 DEF RecoveryStep
  <1>4. CASE RecoveryCrash
    <2>1. \A j \in Jobs : pc[j] \notin Locked
      BY <1>4, TransactionAssumption DEF RecoveryCrash
    <2>2. \A s \in Slots : ~Called(s)'
      <3>1. \A s \in Slots : proc[s].owner # "worker"
        BY <2>1, WaitingLocked
      <3> QED
        BY <1>4, <3>1, OrphanType DEF RecoveryCrash, Typed, TypeOK
    <2> QED
      BY <1>4, <2>1, <2>2 DEF RecoveryCrash, IdleRecovery
  <1> QED
    BY <1>2, <1>3, <1>4

LEMMA DisturbanceExclusive ==
  ASSUME Typed, Exclusive,
         \/ \E j \in Jobs : Crash(j)
         \/ \E s \in Slots : AdapterActs(s)
         \/ Reboot \/ HostActs \/ DeviceLost \/ ShfsRestarts
  PROVE  Exclusive'
PROOF
  <1> USE DEF Exclusive, WorkerHolds, RecoveryHolds, CallerWaits, OneCalled, Called,
      adapterVars
  <1>1. ASSUME NEW j \in Jobs, Crash(j)
        PROVE  Exclusive'
    <2>1. \A s \in Slots : IF Child(s, j) THEN proc'[s].owner = "orphan"
                                         ELSE proc'[s] = proc[s]
      <3>1. PICK children \in SUBSET Slots :
              Orphan(children) /\ children = {s \in Slots : Child(s, j)}
        BY <1>1 DEF Crash
      <3> QED
        BY <3>1, OrphanType DEF Typed, TypeOK
    <2>2. \A s \in Slots : Called(s)' => Called(s) /\ proc'[s] = proc[s] /\ ~Child(s, j)
      BY <2>1
    <2>3. pc'[j] = "dead" /\ \A k \in Jobs : k # j => pc'[k] = pc[k]
      BY <1>1 DEF Crash, Move, Typed, TypeOK
    <2>4. WorkerHolds'
      BY <1>1, <2>3, StepNames DEF Crash
    <2>5. RecoveryHolds'
      BY <1>1, TransactionAssumption DEF Crash
    <2>6. CallerWaits'
      BY <1>1, <2>2, <2>3 DEF Crash, Child
    <2> QED
      BY <2>2, <2>4, <2>5, <2>6
  <1>2. ASSUME NEW s \in Slots, AdapterActs(s)
        PROVE  Exclusive'
    <2>1. SlotsHeld(s)
      BY <1>2, AdapterStepTyped DEF AdapterActs, AdapterTyped, Employed, Typed, TypeOK,
         HasJob
    <2>2. \A t \in Slots : Called(t)' =>
            proc'[t].owner = proc[t].owner /\ proc'[t].job = proc[t].job
      BY <2>1 DEF SlotsHeld
    <2> QED
      BY <1>2, <2>2 DEF AdapterActs, TransactionKeeps
  <1>3. CASE Reboot
    <2>1. \A s \in Slots : proc'[s].owner = "none"
      BY <1>3 DEF Reboot, IdleProc
    <2>2. \A j \in Jobs : pc'[j] \notin Locked
      BY <1>3, StepNames DEF Reboot
    <2> QED
      BY <1>3, <2>1, <2>2 DEF Reboot, IdleRecovery
  <1>4. CASE HostActs \/ DeviceLost \/ ShfsRestarts
    BY <1>4 DEF HostActs, DeviceLost, ShfsRestarts, TransactionKeeps
  <1> QED
    BY <1>1, <1>2, <1>3, <1>4

(* A recovery and a worker never work on a transaction, or call the adapter,  *)
(* at the same time (recover.go: "Recovery must not race it"), for any number *)
(* of jobs, adapter processes, crashes and reboots.                           *)
THEOREM OneHandAtATime == Spec => []OneHand
PROOF
  <1>1. Init => Typed /\ Exclusive
    <2>1. Init => Exclusive
      BY StepNames DEF Init, AdapterInit, IdleProc, IdleRecovery, Exclusive, WorkerHolds,
         RecoveryHolds, CallerWaits, OneCalled, Called
    <2> QED
      BY <2>1, InitTyped
  <1>2. Typed /\ Exclusive /\ [Next]_vars => Typed' /\ Exclusive'
    <2>1. ASSUME Exclusive, UNCHANGED vars
          PROVE  Exclusive'
      BY <2>1 DEF vars, adapterVars, Exclusive, WorkerHolds, RecoveryHolds, CallerWaits,
         OneCalled, Called
    <2> QED
      BY <2>1, StepTyped, WorkerStepExclusive, RecoveryExclusive, DisturbanceExclusive
      DEF Next
  <1>3. Typed /\ Exclusive => OneHand
    BY ExclusiveIsOneHand
  <1> QED
    BY <1>1, <1>2, <1>3, PTL DEF Spec

-----------------------------------------------------------------------------
(* A doomed transaction is never approved.  What dooms it is remembered until *)
(* a stage looks: a restarted shfs by its PID set, a lost device by the path, *)
(* on which the target never comes back.                                      *)
Ending == FailureSteps \cup {"returning", "dead"}
Noticed ==
  \A j \in doomed : \/ pc[j] \in Ending
                    \/ pc[j] \in WatchingShfs /\ j \in stale
                    \/ pc[j] \in WatchingDevice /\ usb # "target"
SafeLate == \A j \in Jobs : job[j] = "safe" => pc[j] \in Ending \cup {"finish"}
Doom == Noticed /\ SafeLate /\ DoomedNeverSafe

LEMMA WatchNames ==
  /\ \A c \in {"new", "journal", "terminal", "finish", "validate"} :
       c \notin WatchingShfs /\ c \notin WatchingDevice /\ c \notin Ending
  /\ "preflight" \notin WatchingShfs
  /\ WatchingShfs \cap Ending = {} /\ WatchingDevice \cap Ending = {}
  /\ {"usb_remove", "settle", "shfs_health"} \subseteq WatchingShfs
  /\ {"quiesce", "strict_unmount", "unmount", "ud_finalize", "verify_idle",
       "exclusive_open", "flush"} \cup WaitStages \subseteq WatchingDevice \cap WatchingShfs
  BY DEF WatchingShfs, WatchingDevice, Ending, Locked, FailureSteps, CheckStages, ActStages,
     WaitStages, After

(* A stage that passes keeps watching what it watched, unless it has looked:  *)
(* at the device (final_identity) or at shfs (shfs_health).                   *)
LEMMA AfterWatches ==
  \A c \in CheckStages :
    /\ c \in WatchingDevice => After[c] \in WatchingDevice \/ c = "final_identity"
    /\ c \in WatchingShfs => After[c] \in WatchingShfs \/ c = "shfs_health"
    /\ c \notin Ending
  BY StepNames DEF After, WatchingDevice, WatchingShfs, Ending, Locked, FailureSteps,
     ActStages, WaitStages

(* A worker that comes from a place where it watches stays in such a place or *)
(* comes to its end, and approves nothing.                                    *)
LEMMA WatchGoesOn ==
  ASSUME Typed, Doom, NEW j \in Jobs, NEW to, Move(j, to),
         UNCHANGED <<stale, doomed>>, usb' = usb \/ usb' = "gone",
         \/ UNCHANGED job
         \/ \E state \in {"running", "failed"} : job' = [job EXCEPT ![j] = state],
         job[j] = "safe" => to \in Ending,
         \/ to \in Ending
         \/ /\ pc[j] \notin Ending
            /\ pc[j] \in WatchingShfs => to \in WatchingShfs
            /\ pc[j] \in WatchingDevice => to \in WatchingDevice
  PROVE  Doom'
PROOF
  <1>1. pc'[j] = to /\ \A k \in Jobs : k # j => pc'[k] = pc[k]
    BY DEF Move, Typed, TypeOK
  <1>2. \A k \in Jobs : job'[k] = "safe" => job[k] = "safe"
    BY DEF Typed, TypeOK
  <1>3. doomed \subseteq Jobs
    BY DEF Typed, TypeOK
  <1>4. Noticed'
    <2>1. \A k \in doomed \ {j} : \/ pc'[k] \in Ending
                                  \/ pc'[k] \in WatchingShfs /\ k \in stale'
                                  \/ pc'[k] \in WatchingDevice /\ usb' # "target"
      BY <1>1, <1>3 DEF Doom, Noticed
    <2>2. j \in doomed => \/ pc'[j] \in Ending
                          \/ pc'[j] \in WatchingShfs /\ j \in stale'
                          \/ pc'[j] \in WatchingDevice /\ usb' # "target"
      <3>1. usb # "target" => usb' # "target"
        OBVIOUS
      <3>2. CASE to \in Ending
        BY <1>1, <3>2
      <3>3. CASE /\ pc[j] \notin Ending
                 /\ pc[j] \in WatchingShfs => to \in WatchingShfs
                 /\ pc[j] \in WatchingDevice => to \in WatchingDevice
        BY <1>1, <3>1, <3>3 DEF Doom, Noticed
      <3> QED
        BY <3>2, <3>3
    <2>3. doomed' = doomed
      OBVIOUS
    <2> QED
      BY <2>1, <2>2, <2>3 DEF Noticed
  <1>5. SafeLate'
    BY <1>1, <1>2 DEF Doom, SafeLate
  <1> QED
    BY <1>2, <1>3, <1>4, <1>5 DEF Doom, DoomedNeverSafe

LEMMA WorkerStepDoom ==
  ASSUME Typed, Doom, NEW j \in Jobs, WorkerStep(j)
  PROVE  Doom'
PROOF
  <1> USE DEF At, hostVars
  <1>0. /\ "failing" \in Ending /\ "record" \in Ending /\ "retire" \in Ending
        /\ "rollback_wait" \in Ending /\ "returning" \in Ending /\ "dead" \in Ending
    BY DEF Ending, FailureSteps
  <1>1. job[j] = "safe" => pc[j] \in Ending \cup {"finish"}
    BY DEF Doom, SafeLate
  <1>2. CASE Check(j)
    <2>1. PICK c \in CheckStages : pc[j] = c /\ Passes(j, c) /\ Move(j, After[c])
      BY <1>2 DEF Check
    <2>2. pc'[j] = After[c] /\ \A k \in Jobs : k # j => pc'[k] = pc[k]
      BY <2>1 DEF Move, Typed, TypeOK
    <2>3. UNCHANGED <<usb, job, doomed>> /\ stale \ {j} \subseteq stale'
            /\ (c \in WatchingShfs => stale' = stale)
      BY <1>2, <2>1, WatchNames DEF Check
    <2>4. c = "final_identity" => usb = "target"
      BY <2>1 DEF Passes
    <2>5. c = "shfs_health" => j \notin stale /\ c \notin WatchingDevice
      BY <2>1 DEF Passes, WatchingDevice
    <2>6. job[j] # "safe"
      BY <1>1, <2>1, AfterWatches, StepNames
    <2>7. Noticed'
      <3> SUFFICES ASSUME NEW k \in doomed, k = j
                   PROVE  \/ pc'[k] \in Ending
                          \/ pc'[k] \in WatchingShfs /\ k \in stale'
                          \/ pc'[k] \in WatchingDevice /\ usb' # "target"
        BY <2>2, <2>3 DEF Doom, Noticed, Typed, TypeOK
      <3> QED
        BY <2>1, <2>2, <2>3, <2>4, <2>5, AfterWatches, WatchNames DEF Doom, Noticed
    <2>8. SafeLate'
      BY <2>2, <2>3, <2>6 DEF Doom, SafeLate
    <2> QED
      BY <2>3, <2>7, <2>8 DEF Doom, DoomedNeverSafe
  <1>3. CASE Publish(j)
    <2>1. j \notin doomed
      BY <1>3, WatchNames DEF Publish, Doom, Noticed
    <2>2. pc'[j] = "finish" /\ \A k \in Jobs : k # j => pc'[k] = pc[k]
      BY <1>3 DEF Publish, Move, Typed, TypeOK
    <2>3. Noticed'
      BY <1>3, <2>1, <2>2 DEF Publish, Doom, Noticed, Typed, TypeOK
    <2>4. SafeLate' /\ DoomedNeverSafe'
      BY <1>3, <2>1, <2>2 DEF Publish, Doom, SafeLate, DoomedNeverSafe, Typed, TypeOK
    <2> QED
      BY <2>3, <2>4 DEF Doom
  <1>4. CASE Fail(j)
    <2>1. job' # job => j \notin doomed
      BY <1>4, WatchNames DEF Fail, Doom, Noticed
    <2>2. pc'[j] \in Ending /\ \A k \in Jobs : k # j => pc'[k] = pc[k]
      BY <1>0, <1>4 DEF Fail, Move, Typed, TypeOK
    <2>3. Noticed'
      BY <1>4, <2>2 DEF Fail, Doom, Noticed, Typed, TypeOK
    <2>4. SafeLate' /\ DoomedNeverSafe'
      BY <1>4, <2>1, <2>2 DEF Fail, Doom, SafeLate, DoomedNeverSafe, Typed, TypeOK
    <2> QED
      BY <2>3, <2>4 DEF Doom
  <1>5. CASE ExitWorker(j)
    <2>1. pc'[j] = "dead" /\ \A k \in Jobs : k # j => pc'[k] = pc[k]
      BY <1>5 DEF ExitWorker, Move, Typed, TypeOK
    <2> QED
      BY <1>0, <1>5, <2>1 DEF ExitWorker, Forget, Doom, Noticed, SafeLate, DoomedNeverSafe,
         Typed, TypeOK
  <1>6. CASE StartWorker(j)
    BY <1>0, <1>1, <1>6, WatchGoesOn, WatchNames DEF StartWorker
  <1>7. CASE OpenJournal(j)
    BY <1>0, <1>1, <1>7, WatchGoesOn, WatchNames DEF OpenJournal
  <1>8. CASE JournalRefused(j)
    BY <1>0, <1>8, WatchGoesOn DEF JournalRefused
  <1>9. CASE Quiesce(j) \/ Quiesced(j) \/ ListMounts(j) \/ Unmount(j) \/ Finalize(j)
    BY <1>1, <1>9, WatchGoesOn, WatchNames DEF Quiesce, Quiesced, ListMounts, Unmount,
       Finalize, WaitStages
  <1>10. CASE Finalized(j) \/ OpenExclusive(j) \/ RemoveUSB(j)
    BY <1>1, <1>10, WatchGoesOn, WatchNames DEF Finalized, OpenExclusive, RemoveUSB,
       WaitStages, WatchingDevice
  <1>11. CASE CallFails(j) \/ NothingToRelease(j) \/ SkipRollback(j) \/ Rollback(j)
    BY <1>0, <1>11, WatchGoesOn DEF CallFails, NothingToRelease, SkipRollback, Rollback
  <1>12. CASE RolledBack(j) \/ RecordFailure(j) \/ CloseJournal(j)
    BY <1>0, <1>12, WatchGoesOn DEF RolledBack, RecordFailure, CloseJournal
  <1> QED
    BY <1>2, <1>3, <1>4, <1>5, <1>6, <1>7, <1>8, <1>9, <1>10, <1>11, <1>12 DEF WorkerStep

LEMMA OtherStepDoom ==
  ASSUME Typed, Doom,
         \/ \E j \in Jobs : Crash(j)
         \/ \E s \in Slots : AdapterActs(s)
         \/ RStart \/ RecoveryStep \/ RecoveryCrash
         \/ Reboot \/ HostActs \/ DeviceLost \/ ShfsRestarts
  PROVE  Doom'
PROOF
  <1> USE DEF Noticed, SafeLate, DoomedNeverSafe
  <1>0. /\ doomed \subseteq Jobs /\ "dead" \in Ending /\ "dead" \notin Alive
        /\ WatchingShfs \subseteq Alive /\ WatchingDevice \subseteq Alive
        /\ Ending \subseteq Alive \cup {"dead"}
    BY DEF Typed, TypeOK, Ending, WatchingShfs, WatchingDevice, Alive, Locked, FailureSteps,
       CheckStages, ActStages, WaitStages, After
  (* Neither the worker nor the host has moved, and no job became safe.        *)
  <1>1. ASSUME UNCHANGED <<usb, pc, stale, doomed>>,
               \/ UNCHANGED job
               \/ \E k \in Jobs : job' = [job EXCEPT ![k] = "failed"]
        PROVE  Doom'
    <2>1. \A k \in Jobs : job'[k] = "safe" => job[k] = "safe"
      BY <1>1 DEF Typed, TypeOK
    <2> QED
      BY <1>0, <1>1, <2>1 DEF Doom
  <1>2. ASSUME NEW j \in Jobs, Crash(j)
        PROVE  Doom'
    <2>1. pc'[j] = "dead" /\ \A k \in Jobs : k # j => pc'[k] = pc[k]
      BY <1>2 DEF Crash, Move, Typed, TypeOK
    <2>2. UNCHANGED <<usb, job, doomed>> /\ stale' = stale \ {j}
      BY <1>2 DEF Crash, Forget
    <2> QED
      BY <1>0, <2>1, <2>2 DEF Doom
  <1>3. ASSUME NEW s \in Slots, AdapterActs(s)
        PROVE  Doom'
    <2>1. UNCHANGED usb
      BY <1>3 DEF AdapterActs, AdapterStep, QuiesceStep, FinalizeStep, RollbackStep,
         ReleaseStep, QInspect, QAnnounce, QCreate, QSign, QRecord, QAcquired, QBarrier,
         QDone, QRefuse, FRead, FBarrier, FCommit, RReadHeld, RReadFree, RBarrier, RMark,
         Guard, Unlink, Release, Delete, Refuse, Timeout, OrphanExits, hostVars
    <2> QED
      BY <1>1, <1>3, <2>1 DEF AdapterActs, TransactionKeeps
  <1>4. CASE RStart \/ RecoveryStep \/ RecoveryCrash
    <2>1. CASE RRecord
      BY <1>1, <2>1 DEF RRecord, Recovering, RecoveryKeeps, hostVars, Typed, HasJob
    <2>2. CASE RStart \/ RecoveryCrash \/ RNoRollback \/ RRollback \/ RRolledBack \/ RRetire
                 \/ RDone \/ \E j \in Jobs : RSkip(j) \/ RAdopt(j)
      BY <1>1, <2>2 DEF RStart, RecoveryCrash, RNoRollback, RRollback, RRolledBack, RRetire,
         RDone, RSkip, RAdopt, RecoveryKeeps, hostVars
    <2> QED
      BY <1>4, <2>1, <2>2 DEF RecoveryStep
  <1>5. CASE Reboot
    <2>1. \A k \in Jobs : /\ pc'[k] = IF pc[k] \in Alive THEN "dead" ELSE pc[k]
                          /\ job'[k] = "absent"
      BY <1>5 DEF Reboot
    <2>2. doomed' = doomed
      BY <1>5 DEF Reboot
    <2>3. \A k \in doomed : pc'[k] \in Ending
      BY <1>0, <2>1 DEF Doom
    <2> QED
      BY <1>0, <2>1, <2>2, <2>3 DEF Doom
  <1>6. CASE HostActs
    <2>1. /\ UNCHANGED <<pc, job, stale, doomed>>
          /\ usb' = usb \/ usb' = "other"
      BY <1>6 DEF HostActs, TransactionKeeps, UDStep, UDStart, UDLook, UDAct, ShellMount,
         MarkerAges, Attach
    <2> QED
      BY <2>1 DEF Doom
  <1>7. CASE DeviceLost
    <2>1. /\ UNCHANGED <<pc, job, stale>> /\ usb' # "target"
          /\ doomed' = doomed \cup {j \in Jobs : pc[j] \in WatchingDevice}
      BY <1>7 DEF DeviceLost, Detach, TransactionKeeps
    <2> QED
      BY <1>0, <2>1, WatchNames DEF Doom
  <1>8. CASE ShfsRestarts
    <2>1. /\ UNCHANGED <<pc, job, usb>> /\ stale' = {j \in Jobs : pc[j] \in Alive}
          /\ doomed' = doomed \cup {j \in Jobs : pc[j] \in WatchingShfs}
      BY <1>8 DEF ShfsRestarts, TransactionKeeps, hostVars
    <2> QED
      BY <1>0, <2>1, WatchNames DEF Doom
  <1> QED
    BY <1>2, <1>3, <1>4, <1>5, <1>6, <1>7, <1>8

(* A job whose shfs restarted, or whose device went or was replaced, at any   *)
(* moment of the window the worker has to watch, ends in no approval, even    *)
(* when workers, recoveries and boots come to an end in between (eject.go,    *)
(* the shfs and identity stages).                                             *)
THEOREM DoomedIsNeverSafe == Spec => []DoomedNeverSafe
PROOF
  <1>1. Init => Typed /\ Doom
    <2>1. Init => Doom
      BY DEF Init, Doom, Noticed, SafeLate, DoomedNeverSafe
    <2> QED
      BY <2>1, InitTyped
  <1>2. Typed /\ Doom /\ [Next]_vars => Typed' /\ Doom'
    <2>1. ASSUME Doom, UNCHANGED vars
          PROVE  Doom'
      BY <2>1 DEF vars, hostVars, Doom, Noticed, SafeLate, DoomedNeverSafe
    <2> QED
      BY <2>1, StepTyped, WorkerStepDoom, OtherStepDoom DEF Next
  <1>3. Doom => DoomedNeverSafe
    BY DEF Doom
  <1> QED
    BY <1>1, <1>2, <1>3, PTL DEF Spec
=============================================================================
