------------------------- MODULE EjectContractProofs -------------------------
(***************************************************************************)
(* EjectTransaction implements EjectContract, for any sets of jobs and       *)
(* adapter slots and any bounds, and with it every approval is earned.       *)
(***************************************************************************)
EXTENDS EjectTransactionProofs

(* Where a job still says "running", and where it must have passed each of    *)
(* its milestones.                                                            *)
Working == CheckStages \cup ActStages \cup WaitStages \cup {"journal", "terminal"}
PastRemove == {"settle", "shfs_health", "terminal", "finish"}
PastFinalize == PastRemove \cup {"verify_idle", "pre_remove_shfs", "post_finalize_shfs",
                  "post_finalize_idle", "exclusive_open", "flush", "final_idle",
                  "final_identity", "usb_remove"}
PastUnmount == PastFinalize \cup {"ud_finalize", "finalize_wait"}
PastHope == PastRemove \cup {"failing", "record", "retire", "returning", "dead"}

Busy(s) == proc[s].at # "idle"

(* Nothing of job j is left on the host, and nothing will put it back.        *)
Clean(j) ==
  /\ marker # j
  /\ file[j] = NoFile
  /\ \A s \in Slots : Busy(s) => proc[s].job # j

(* A worker that has not begun has left nothing; one that lives began in this *)
(* boot.  So the recovery adopts the dead only, and whoever acts on a job      *)
(* besides its worker does so when that is dead, for good.                    *)
Began ==
  \A j \in Jobs :
    /\ pc[j] = "new" => active[j] = 0 /\ job[j] = "absent"
    /\ pc[j] \in Alive => active[j] \in {0, boot}
Adopted == rec.at \notin {"idle", "scan"} => pc[rec.job] = "dead"
Deserted ==
  \A s \in Slots : Busy(s) /\ proc[s].owner # "worker" => pc[proc[s].job] = "dead"

Spoken ==
  \A j \in Jobs :
    /\ pc[j] \in Working => job[j] = "running"
    /\ job[j] = "safe" => j \in removed

Milestones ==
  \A j \in Jobs :
    /\ pc[j] \in PastUnmount => j \in unmounted
    /\ pc[j] \in PastFinalize => j \in finalized /\ Clean(j)
    /\ pc[j] \in PastRemove => j \in removed
    /\ j \in finalized => j \in unmounted
    /\ j \in removed => j \in finalized /\ pc[j] \in PastHope /\ Clean(j) /\ usb # "target"

(* A finalize whose worker waits for it has what it reports.                  *)
Finalizing ==
  \A s \in Slots :
    Busy(s) /\ pc[proc[s].job] = "finalize_wait" =>
      /\ proc[s].at \in FinalizeAt \cup ReleaseAt \cup Ended
      /\ proc[s].at \in {"release", "delete", "ok"} => marker # proc[s].job
      /\ proc[s].at = "ok" => file[proc[s].job] = NoFile

Sound == Began /\ Adopted /\ Deserted /\ Spoken /\ Milestones /\ Finalizing

LEMMA HopeNames ==
  /\ PastRemove \subseteq PastFinalize /\ PastFinalize \subseteq PastUnmount
  /\ PastRemove \subseteq PastHope
  /\ PastUnmount \subseteq Locked /\ PastUnmount \cap FailureSteps = {}
  /\ PastUnmount \subseteq Working \cup {"finish"}
  /\ PastFinalize \cap Waiting = {} /\ PastHope \cap Waiting = {}
  /\ "dead" \notin Waiting \cup PastUnmount \cup Working \cup Alive
  /\ "new" \notin PastHope \cup PastUnmount \cup Working \cup Alive
  /\ Waiting \subseteq Alive /\ Working \subseteq Alive
  /\ CheckStages \cup ActStages \cup WaitStages \subseteq Working
  BY StepNames, WaitingLocked DEF PastRemove, PastFinalize, PastUnmount, PastHope, Working,
     Waiting, WaitStages, ActStages, FailureSteps, Locked, Alive

-----------------------------------------------------------------------------
(* An adapter process of a job whose worker is not dead is the one its worker *)
(* waits for.                                                                 *)
LEMMA OnlyChild ==
  ASSUME Typed, Exclusive, Deserted, NEW s \in Slots, Busy(s), pc[proc[s].job] # "dead"
  PROVE  /\ proc[s].job \in Jobs /\ proc[s].owner = "worker"
         /\ pc[proc[s].job] \in Waiting
         /\ \A t \in Slots : Busy(t) /\ proc[t].job = proc[s].job => t = s
PROOF
  <1>1. proc[s].owner = "worker" /\ proc[s].job \in Jobs
    BY DEF Deserted, Busy, Typed, HasJob
  <1>2. ASSUME NEW t \in Slots, Busy(t), proc[t].job = proc[s].job
        PROVE  t = s
    BY <1>1, <1>2 DEF Deserted, Exclusive, OneCalled, Called
  <1> QED
    BY <1>1, <1>2 DEF Exclusive, CallerWaits

(* What the step of an adapter process can change besides its own slot.       *)
LEMMA AdapterFrame ==
  ASSUME AdapterTyped, Employed, NEW s \in Slots, AdapterStep(s)
  PROVE  /\ Busy(s) /\ UNCHANGED usb
         /\ \A k \in Jobs : k # proc[s].job => file'[k] = file[k]
         /\ \/ marker' \in {marker, NoJob, Unsigned}
            \/ marker' = proc[s].job /\ proc[s].at = "q_sign"
PROOF
  <1> USE DEF Busy, hostVars, Goto, Write, AdapterTyped, AdapterTypeOK, Employed
  <1>1. CASE QuiesceStep(s)
    BY <1>1 DEF QuiesceStep, QInspect, QAnnounce, QCreate, QSign, QRecord, QAcquired,
       QBarrier, QDone, QRefuse, QuiesceAt
  <1>2. CASE FinalizeStep(s) \/ RollbackStep(s)
    BY <1>2 DEF FinalizeStep, RollbackStep, FRead, FBarrier, FCommit, RReadHeld, RReadFree,
       RBarrier, RMark
  <1>3. CASE ReleaseStep(s)
    BY <1>3 DEF ReleaseStep, Guard, Unlink, Release, Delete
  <1>4. CASE Refuse(s) \/ Timeout(s) \/ OrphanExits(s)
    BY <1>4 DEF Refuse, Timeout, OrphanExits, Running, Ended, QuiesceAt, FinalizeAt,
       RollbackAt, ReleaseAt
  <1> QED
    BY <1>1, <1>2, <1>3, <1>4 DEF AdapterStep

(* A finalize goes its way: from the unlink on the marker is not its own, and *)
(* it answers with its state file deleted.                                    *)
Reported(s) ==
  /\ proc[s].at \in FinalizeAt \cup ReleaseAt \cup Ended
  /\ proc[s].at \in {"release", "delete", "ok"} => marker # proc[s].job
  /\ proc[s].at = "ok" => file[proc[s].job] = NoFile

LEMMA ArrivesAt ==
  ASSUME AdapterTypeOK, NEW s \in Slots
  PROVE  /\ FRead(s) => proc'[s].at = "f_barrier"
         /\ FBarrier(s) => proc'[s].at = "f_commit"
         /\ FCommit(s) => proc'[s].at = "guard"
         /\ Guard(s) => proc'[s].at = "unlink"
         /\ Refuse(s) => proc'[s].at = "refused"
         /\ Timeout(s) => proc'[s].at = "killed"
PROOF
  <1> USE DEF AdapterTypeOK, Procs
  <1>1. FRead(s) => proc'[s].at = "f_barrier"
    BY DEF FRead
  <1>2. FBarrier(s) => proc'[s].at = "f_commit"
    BY DEF FBarrier, Goto
  <1>3. FCommit(s) => proc'[s].at = "guard"
    BY DEF FCommit
  <1>4. Guard(s) => proc'[s].at = "unlink"
    BY DEF Guard, Write
  <1>5. Refuse(s) => proc'[s].at = "refused"
    BY DEF Refuse
  <1>6. Timeout(s) => proc'[s].at = "killed"
    BY DEF Timeout
  <1> QED
    BY <1>1, <1>2, <1>3, <1>4, <1>5, <1>6

LEMMA ReportedGoesOn ==
  ASSUME Typed, NEW s \in Slots, AdapterStep(s), proc[s].owner = "worker", Reported(s)
  PROVE  Reported(s)'
PROOF
  <1> USE DEF Reported, Typed, TypeOK, AdapterTypeOK, Procs
  <1>0. AdapterTyped /\ Employed /\ proc[s].job \in Jobs /\ proc[s].at # "idle"
    BY AdapterFrame, TypedParts DEF Busy, Employed
  <1>1. ~QuiesceStep(s) /\ ~RollbackStep(s) /\ ~OrphanExits(s)
    BY DEF QuiesceStep, QInspect, QAnnounce, QCreate, QSign, QRecord, QAcquired, QBarrier,
       QDone, QRefuse, QuiesceAt, RollbackStep, RReadHeld, RReadFree, RBarrier, RMark,
       OrphanExits, Goto, Write, FinalizeAt, ReleaseAt, Ended
  <1>2. CASE FRead(s) \/ FBarrier(s) \/ FCommit(s)
    <2>1. proc'[s].at \in {"f_barrier", "f_commit", "guard"}
      BY <1>2, ArrivesAt
    <2> QED
      BY <2>1 DEF FinalizeAt, ReleaseAt, Ended
  <1>3. CASE Guard(s) \/ Refuse(s) \/ Timeout(s)
    <2>1. proc'[s].at \in {"unlink", "refused", "killed"}
      BY <1>3, ArrivesAt
    <2> QED
      BY <2>1 DEF FinalizeAt, ReleaseAt, Ended
  <1>4. CASE Unlink(s)
    <2>1. proc'[s].at = "release" /\ proc'[s].job = proc[s].job /\ marker' = NoJob
      BY <1>4 DEF Unlink, Goto
    <2> QED
      BY <1>0, <2>1, HostAssumption DEF FinalizeAt, ReleaseAt, Ended
  <1>5. CASE Release(s)
    <2>1. /\ proc'[s].at = "delete" /\ proc'[s].job = proc[s].job /\ marker' = marker
          /\ proc[s].at = "release"
      BY <1>5 DEF Release, Write, hostVars
    <2> QED
      BY <2>1 DEF FinalizeAt, ReleaseAt, Ended
  <1>6. CASE Delete(s)
    <2>1. /\ proc'[s].at = "ok" /\ proc'[s].job = proc[s].job /\ marker' = marker
          /\ proc[s].at = "delete" /\ file'[proc[s].job] = NoFile
      BY <1>0, <1>6 DEF Delete, Goto, hostVars
    <2> QED
      BY <2>1 DEF FinalizeAt, ReleaseAt, Ended
  <1> QED
    BY <1>1, <1>2, <1>3, <1>4, <1>5, <1>6 DEF AdapterStep, FinalizeStep, ReleaseStep

LEMMA AdapterSound ==
  ASSUME Typed, Exclusive, Sound, NEW s \in Slots, AdapterActs(s)
  PROVE  Sound'
PROOF
  <1> DEFINE k == proc[s].job
  <1>0. AdapterTyped /\ Employed /\ AdapterStep(s)
    BY TypedParts DEF AdapterActs
  <1>1. /\ Busy(s) /\ k \in Jobs /\ UNCHANGED usb
        /\ \A j \in Jobs : j # k => file'[j] = file[j]
        /\ \A j \in Jobs : marker' = j => marker = j \/ (j = k /\ proc[s].at = "q_sign")
    <2>1. Busy(s) /\ k \in Jobs /\ UNCHANGED usb
      BY <1>0, AdapterFrame DEF Busy, Employed
    <2>2. \A j \in Jobs : j # k => file'[j] = file[j]
      BY <1>0, AdapterFrame
    <2>3. ASSUME NEW j \in Jobs, marker' = j
          PROVE  marker = j \/ (j = k /\ proc[s].at = "q_sign")
      <3>1. j # NoJob /\ j # Unsigned
        BY HostAssumption
      <3> QED
        BY <1>0, <2>3, <3>1, AdapterFrame
    <2> QED
      BY <2>1, <2>2, <2>3
  <1>2. SlotsHeld(s)
    BY <1>0, AdapterStepTyped
  <1>3. /\ UNCHANGED <<boot, active, job, pc, rec, unmounted, finalized, removed>>
    BY DEF AdapterActs, TransactionKeeps, flagVars
  <1>4. \A t \in Slots : Busy(t)' => Busy(t) /\ proc'[t].job = proc[t].job
                                       /\ proc'[t].owner = proc[t].owner
    BY <1>2 DEF SlotsHeld, Busy
  <1>5. \A t \in Slots : t # s => proc'[t] = proc[t]
    BY <1>2 DEF SlotsHeld
  <1>6. Began' /\ Adopted' /\ Spoken'
    BY <1>3 DEF Sound, Began, Adopted, Spoken
  <1>7. Deserted'
    BY <1>3, <1>4 DEF Sound, Deserted
  <1>8. \A j \in Jobs : Clean(j) => Clean(j)'
    BY <1>1, <1>4 DEF Clean
  <1>9. Milestones'
    BY <1>1, <1>3, <1>8 DEF Sound, Milestones
  <1>10. Finalizing'
    <2> SUFFICES ASSUME NEW t \in Slots, Busy(t)', pc[proc[t].job] = "finalize_wait"
                 PROVE  Reported(t)'
      BY <1>3, <1>4 DEF Finalizing, Reported
    <2>1. Busy(t) /\ Reported(t) /\ proc'[t].job = proc[t].job
      BY <1>4 DEF Sound, Finalizing, Reported
    <2>2. /\ proc[t].owner = "worker" /\ proc[t].job \in Jobs
          /\ Busy(s) /\ proc[s].job = proc[t].job => s = t
      BY <1>1, <2>1, OnlyChild DEF Sound
    <2>3. CASE t = s
      BY <1>0, <2>1, <2>2, <2>3, ReportedGoesOn
    <2>4. CASE t # s
      BY <1>1, <1>5, <2>1, <2>2, <2>4 DEF Reported
    <2> QED
      BY <2>3, <2>4
  <1> QED
    BY <1>6, <1>7, <1>9, <1>10 DEF Sound

-----------------------------------------------------------------------------
(* A worker moves on and calls nobody.                                        *)
LEMMA WorkerGoesOn ==
  ASSUME Typed, Exclusive, Sound, NEW j \in Jobs, NEW to, Move(j, to),
         UNCHANGED <<usb, marker, file, boot, rec, finalized, removed>>,
         unmounted \subseteq unmounted',
         \A s \in Slots : Busy(s)' => Busy(s) /\ proc'[s] = proc[s],
         \A k \in Jobs : active'[k] = active[k] \/ (k = j /\ active'[k] \in {0, boot}),
         \A k \in Jobs : \/ job'[k] = job[k]
                         \/ k = j /\ (job'[k] = "safe" => k \in removed),
         to \notin {"new", "finalize_wait"}, pc[j] # "dead",
         to \in Alive => pc[j] \in Alive \cup {"new"},
         to \in Working => job'[j] = "running",
         to \in PastUnmount => j \in unmounted',
         to \in PastFinalize => pc[j] \in PastFinalize,
         to \in PastRemove => pc[j] \in PastRemove,
         j \in removed => to \in PastHope
  PROVE  Sound'
PROOF
  <1>1. pc'[j] = to /\ \A k \in Jobs : k # j => pc'[k] = pc[k]
    BY DEF Move, Typed, TypeOK
  <1>2. \A k \in Jobs : pc[k] = "dead" => pc'[k] = "dead"
    BY <1>1
  <1>3. Began'
    BY <1>1 DEF Sound, Began
  <1>4. Adopted'
    BY <1>2 DEF Sound, Adopted, Typed, HasJob
  <1>5. Deserted'
    BY <1>2 DEF Sound, Deserted, Busy, Typed, HasJob
  <1>6. Spoken'
    BY <1>1 DEF Sound, Spoken
  <1>7. \A k \in Jobs : Clean(k) => Clean(k)'
    BY DEF Clean
  <1>8. Milestones'
    <2> SUFFICES ASSUME NEW k \in Jobs
                 PROVE  /\ pc'[k] \in PastUnmount => k \in unmounted'
                        /\ pc'[k] \in PastFinalize => k \in finalized /\ Clean(k)'
                        /\ pc'[k] \in PastRemove => k \in removed
                        /\ k \in finalized => k \in unmounted'
                        /\ k \in removed => k \in finalized /\ pc'[k] \in PastHope
                                              /\ Clean(k)' /\ usb # "target"
      BY DEF Milestones
    <2>1. CASE k = j
      BY <1>1, <1>7, <2>1 DEF Sound, Milestones
    <2>2. CASE k # j
      BY <1>1, <1>7, <2>2 DEF Sound, Milestones
    <2> QED
      BY <2>1, <2>2
  <1>9. Finalizing'
    <2> SUFFICES ASSUME NEW s \in Slots, Busy(s)', pc'[proc'[s].job] = "finalize_wait"
                 PROVE  Reported(s)'
      BY DEF Finalizing, Reported
    <2>1. Busy(s) /\ proc'[s] = proc[s] /\ proc[s].job \in Jobs
      BY DEF Busy, Typed, HasJob
    <2>2. pc[proc[s].job] = "finalize_wait"
      BY <1>1, <2>1
    <2> QED
      BY <2>1, <2>2 DEF Sound, Finalizing, Reported
  <1> QED
    BY <1>3, <1>4, <1>5, <1>6, <1>8, <1>9 DEF Sound

(* A worker with the lock calls the adapter.                                  *)
LEMMA WorkerCalls ==
  ASSUME Typed, Exclusive, Sound, NEW j \in Jobs, NEW to \in Waiting, Move(j, to),
         NEW s \in Slots, NEW op \in Running, Spawn(s, op, j, "worker"),
         UNCHANGED <<hostVars, file, boot, active, job, rec, unmounted, finalized, removed>>,
         pc[j] \in Locked \ Waiting, j \notin removed,
         to \in Working => pc[j] \in Working,
         to = "finalize_wait" => op = "f_read" /\ j \in unmounted
  PROVE  Sound'
PROOF
  <1>1. pc'[j] = to /\ \A k \in Jobs : k # j => pc'[k] = pc[k]
    BY DEF Move, Typed, TypeOK
  <1>2. /\ proc'[s].job = j /\ proc'[s].owner = "worker" /\ proc'[s].at = op
        /\ \A t \in Slots : t # s => proc'[t] = proc[t]
    BY SpawnType DEF Typed, TypeOK
  <1>3. /\ pc[j] \in Alive /\ pc[j] # "dead" /\ pc[j] \notin Waiting /\ to \in Alive
        /\ to \notin PastFinalize /\ to \notin PastRemove /\ to # "new"
        /\ to \in PastUnmount => to = "finalize_wait"
    BY HopeNames, StepNames DEF Waiting, WaitStages, PastUnmount
  <1>4. \A t \in Slots : Busy(t) => proc[t].job # j
    BY <1>3, OnlyChild DEF Sound
  <1>5. Began' /\ Spoken'
    BY <1>1, <1>3 DEF Sound, Began, Spoken
  <1>6. Adopted' /\ Deserted'
    <2>1. \A k \in Jobs : pc[k] = "dead" => pc'[k] = "dead"
      BY <1>1, <1>3
    <2>2. Adopted'
      BY <2>1 DEF Sound, Adopted, Typed, HasJob
    <2>3. Deserted'
      BY <1>2, <2>1 DEF Sound, Deserted, Busy, Typed, HasJob
    <2> QED
      BY <2>2, <2>3
  <1>7. \A k \in Jobs : k # j /\ Clean(k) => Clean(k)'
    BY <1>2 DEF Clean, Busy, hostVars
  <1>8. Milestones'
    BY <1>1, <1>3, <1>7 DEF Sound, Milestones, hostVars
  <1>9. Finalizing'
    <2> SUFFICES ASSUME NEW t \in Slots, Busy(t)', pc'[proc'[t].job] = "finalize_wait"
                 PROVE  Reported(t)'
      BY DEF Finalizing, Reported
    <2>1. CASE t = s
      BY <1>1, <1>2, <2>1 DEF Reported, FinalizeAt, ReleaseAt, Ended
    <2>2. CASE t # s
      <3>1. Busy(t) /\ proc'[t] = proc[t] /\ proc[t].job \in Jobs /\ proc[t].job # j
        BY <1>2, <1>4, <2>2 DEF Busy, Typed, HasJob
      <3>2. pc[proc[t].job] = "finalize_wait"
        BY <1>1, <3>1
      <3> QED
        BY <3>1, <3>2 DEF Sound, Finalizing, Reported, hostVars
    <2> QED
      BY <2>1, <2>2
  <1> QED
    BY <1>5, <1>6, <1>8, <1>9 DEF Sound

LEMMA CollectFrame ==
  ASSUME Typed, NEW s \in Slots, Collect(s)
  PROVE  /\ ~Busy(s)'
         /\ \A t \in Slots : Busy(t)' => Busy(t) /\ proc'[t] = proc[t]
  BY CollectType DEF Typed, TypeOK, Busy

LEMMA WorkerStepSound ==
  ASSUME Typed, Exclusive, Sound, NEW j \in Jobs, WorkerStep(j)
  PROVE  Sound'
PROOF
  <1> USE DEF hostVars, adapterVars, flagVars, At
  <1>0. /\ \A k \in Jobs : pc[k] \in Working => job[k] = "running"
        /\ \A k \in Jobs : pc[k] \in PastUnmount => k \in unmounted
        /\ \A k \in removed : pc[k] \in PastHope
        /\ \A k \in Jobs : pc[k] \in PastRemove => k \in removed
        /\ \A k \in Jobs : k \in removed => k \in finalized
        /\ removed \subseteq Jobs
    BY DEF Sound, Spoken, Milestones, Typed, TypeOK
  <1>1. ASSUME UNCHANGED proc
        PROVE  \A s \in Slots : Busy(s)' => Busy(s) /\ proc'[s] = proc[s]
    BY <1>1 DEF Busy
  <1>2. /\ Working = {"validate", "ud_inspect", "preflight", "verify_idle",
             "pre_remove_shfs", "post_finalize_shfs", "post_finalize_idle", "flush",
             "final_idle", "final_identity", "settle", "shfs_health", "quiesce",
             "strict_unmount", "unmount", "ud_finalize", "exclusive_open", "usb_remove",
             "quiesce_wait", "finalize_wait", "journal", "terminal"}
        /\ Alive = Working \cup {"finish", "returning", "failing", "rollback_wait",
             "record", "retire"}
    BY StepNames DEF Working, ActStages, WaitStages, Alive, Locked, FailureSteps
  <1>3. active \in [Jobs -> 0 .. MaxBoots] /\ job \in [Jobs -> {"absent", "running", "failed", "safe"}]
    BY DEF Typed, TypeOK
  <1>4. CASE StartWorker(j)
    <2>1. PICK to \in {"journal", "dead"} :
            Move(j, to) /\ (to = "journal" => job' = [job EXCEPT ![j] = "running"])
              /\ (job' = job \/ job' = [job EXCEPT ![j] = "running"])
      BY <1>4 DEF StartWorker
    <2>2. j \notin removed
      BY <1>0, <1>4 DEF StartWorker, PastHope, PastRemove
    <2> QED
      BY <1>1, <1>2, <1>3, <1>4, <2>1, <2>2, WorkerGoesOn DEF StartWorker, PastUnmount,
         PastFinalize, PastRemove
  <1>5. CASE OpenJournal(j)
    <2>1. j \notin removed
      BY <1>0, <1>5 DEF OpenJournal, PastHope, PastRemove
    <2> QED
      BY <1>0, <1>1, <1>2, <1>3, <1>5, <2>1, WorkerGoesOn DEF OpenJournal, PastUnmount,
         PastFinalize, PastRemove
  <1>6. CASE JournalRefused(j)
    <2>1. j \notin removed
      BY <1>0, <1>6 DEF JournalRefused, PastHope, PastRemove
    <2> QED
      BY <1>1, <1>2, <1>3, <1>6, <2>1, WorkerGoesOn DEF JournalRefused, PastUnmount,
         PastFinalize, PastRemove
  <1>7. CASE Check(j)
    <2>1. PICK c \in CheckStages : pc[j] = c /\ Move(j, After[c])
      BY <1>7 DEF Check
    <2>2. /\ After[c] \in Working \ {"new", "finalize_wait", "journal"} /\ c \in Working
          /\ After[c] \in PastUnmount => c \in PastUnmount
          /\ After[c] \in PastFinalize => c \in PastFinalize
          /\ After[c] \in PastRemove => c \in PastRemove
          /\ c \in PastRemove => After[c] \in PastHope
      BY <2>1, <1>2, StepNames DEF After, PastUnmount, PastFinalize, PastRemove, PastHope
    <2>3. j \in removed => c \in PastRemove
      BY <1>0, <2>1, <2>2, StepNames DEF PastHope
    <2> QED
      BY <1>0, <1>1, <1>2, <1>7, <2>1, <2>2, <2>3, WorkerGoesOn DEF Check
  <1>8. CASE ListMounts(j) \/ Unmount(j) \/ OpenExclusive(j)
    <2>1. j \notin removed
      BY <1>0, <1>8 DEF ListMounts, Unmount, OpenExclusive, PastHope, PastRemove
    <2>2. CASE ListMounts(j)
      <3>1. PICK to \in {"ud_finalize", "unmount"} :
              Move(j, to) /\ (to = "ud_finalize" => unmounted' = unmounted \cup {j})
                /\ unmounted \subseteq unmounted'
        BY <2>2 DEF ListMounts
      <3> QED
        BY <1>0, <1>1, <1>2, <2>1, <2>2, <3>1, WorkerGoesOn DEF ListMounts, PastUnmount,
           PastFinalize, PastRemove
    <2>3. CASE Unmount(j)
      BY <1>0, <1>1, <1>2, <2>1, <2>3, WorkerGoesOn DEF Unmount, PastUnmount, PastFinalize,
         PastRemove
    <2>4. CASE OpenExclusive(j)
      BY <1>0, <1>1, <1>2, <2>1, <2>4, WorkerGoesOn DEF OpenExclusive, PastUnmount,
         PastFinalize, PastRemove
    <2> QED
      BY <1>8, <2>2, <2>3, <2>4
  <1>9. CASE Publish(j)
    BY <1>0, <1>1, <1>2, <1>3, <1>9, WorkerGoesOn DEF Publish, PastUnmount, PastFinalize,
       PastRemove, PastHope
  <1>10. CASE Fail(j)
    BY <1>0, <1>1, <1>2, <1>3, <1>10, HopeNames, WorkerGoesOn DEF Fail, PastUnmount,
       PastFinalize, PastRemove, PastHope
  <1>11. CASE Quiesced(j)
    <2>1. j \notin removed
      BY <1>0, <1>11 DEF Quiesced, PastHope, PastRemove
    <2>2. \A s \in Slots : Busy(s)' => Busy(s) /\ proc'[s] = proc[s]
      BY <1>11, CollectFrame DEF Quiesced
    <2> QED
      BY <1>0, <1>2, <1>11, <2>1, <2>2, WorkerGoesOn DEF Quiesced, PastUnmount,
         PastFinalize, PastRemove
  <1>12. CASE CallFails(j)
    <2>1. \A s \in Slots : Busy(s)' => Busy(s) /\ proc'[s] = proc[s]
      BY <1>12, CollectFrame DEF CallFails
    <2> QED
      BY <1>0, <1>2, <1>12, <2>1, HopeNames, WorkerGoesOn DEF CallFails, WaitStages,
         PastUnmount, PastFinalize, PastRemove, PastHope
  <1>13. CASE RolledBack(j)
    <2>1. \A s \in Slots : Busy(s)' => Busy(s) /\ proc'[s] = proc[s]
      BY <1>13, CollectFrame DEF RolledBack
    <2> QED
      BY <1>0, <1>2, <1>13, <2>1, WorkerGoesOn DEF RolledBack, PastUnmount, PastFinalize,
         PastRemove, PastHope
  <1>14. CASE NothingToRelease(j) \/ SkipRollback(j)
    BY <1>0, <1>1, <1>2, <1>14, WorkerGoesOn DEF NothingToRelease, SkipRollback,
       PastUnmount, PastFinalize, PastRemove, PastHope
  <1>15. CASE RecordFailure(j)
    BY <1>0, <1>1, <1>2, <1>3, <1>15, WorkerGoesOn DEF RecordFailure, PastUnmount,
       PastFinalize, PastRemove, PastHope
  <1>16. CASE CloseJournal(j)
    BY <1>0, <1>1, <1>2, <1>3, <1>16, WorkerGoesOn DEF CloseJournal, PastUnmount,
       PastFinalize, PastRemove, PastHope
  <1>17. CASE ExitWorker(j)
    BY <1>0, <1>1, <1>2, <1>3, <1>17, WorkerGoesOn DEF ExitWorker, Forget, PastUnmount,
       PastFinalize, PastRemove, PastHope
  <1>18. CASE Quiesce(j)
    <2>1. j \notin removed
      BY <1>0, <1>18 DEF Quiesce, PastHope, PastRemove
    <2>2. /\ pc[j] \in Locked \ Waiting /\ "quiesce_wait" \in Waiting /\ pc[j] \in Working
          /\ "q_inspect" \in Running
      BY <1>2, <1>18, StepNames, WaitingLocked DEF Quiesce, ActStages, Waiting, WaitStages,
         Running, QuiesceAt
    <2> QED
      BY <1>18, <2>1, <2>2, WorkerCalls DEF Quiesce
  <1>19. CASE Finalize(j)
    <2>1. j \notin removed /\ j \in unmounted
      BY <1>0, <1>19 DEF Finalize, PastHope, PastRemove, PastUnmount
    <2>2. /\ pc[j] \in Locked \ Waiting /\ "finalize_wait" \in Waiting /\ pc[j] \in Working
          /\ "f_read" \in Running
      BY <1>2, <1>19, StepNames, WaitingLocked DEF Finalize, ActStages, Waiting, WaitStages,
         Running, FinalizeAt
    <2> QED
      BY <1>19, <2>1, <2>2, WorkerCalls DEF Finalize
  <1>20. CASE Rollback(j)
    <2>1. /\ pc[j] \in Locked \ Waiting /\ "rollback_wait" \in Waiting
          /\ "rollback_wait" \notin Working /\ "r_read" \in Running
      BY <1>2, <1>20, StepNames, WaitingLocked DEF Rollback, Waiting, FailureSteps,
         Running, RollbackAt
    <2> QED
      BY <1>20, <2>1, WorkerCalls DEF Rollback, NeedsRelease
  <1>21. CASE Finalized(j)
    <2>1. PICK s \in Slots : Child(s, j) /\ proc[s].at = "ok" /\ Collect(s)
      BY <1>21 DEF Finalized
    <2>2. Busy(s) /\ proc[s].job = j /\ pc[j] = "finalize_wait"
      BY <1>21, <2>1 DEF Finalized, Child, Busy
    <2>3. marker # j /\ file[j] = NoFile
      BY <2>1, <2>2 DEF Sound, Finalizing
    <2>4. /\ ~Busy(s)'
          /\ \A t \in Slots : Busy(t)' => Busy(t) /\ proc'[t] = proc[t]
      BY <2>1, CollectFrame
    <2>5. \A t \in Slots : Busy(t) /\ proc[t].job = j => t = s
      BY <2>2, OnlyChild DEF Sound
    <2>6. Clean(j)'
      BY <1>21, <2>3, <2>4, <2>5 DEF Finalized, Clean
    <2>7. /\ pc'[j] = "verify_idle" /\ \A k \in Jobs : k # j => pc'[k] = pc[k]
          /\ finalized' = finalized \cup {j} /\ UNCHANGED <<usb, marker, file, boot, active,
               job, rec, unmounted, removed>>
      BY <1>21 DEF Finalized, Move, Typed, TypeOK
    <2>8. \A k \in Jobs : Clean(k) => Clean(k)'
      BY <2>4, <2>7 DEF Clean
    <2>9. Began' /\ Spoken' /\ Adopted'
      BY <1>2, <2>2, <2>7 DEF Sound, Began, Spoken, Adopted, Typed, HasJob
    <2>10. Deserted'
      BY <2>2, <2>4, <2>7 DEF Sound, Deserted, Busy, Typed, HasJob
    <2>11. Milestones'
      <3>1. j \in unmounted /\ j \notin removed
        BY <1>0, <2>2 DEF PastUnmount, PastHope, PastRemove
      <3>2. "verify_idle" \in PastUnmount \cap PastFinalize /\ "verify_idle" \notin PastRemove
        BY DEF PastUnmount, PastFinalize, PastRemove
      <3> QED
        BY <2>6, <2>7, <2>8, <3>1, <3>2 DEF Sound, Milestones
    <2>12. Finalizing'
      <3> SUFFICES ASSUME NEW t \in Slots, Busy(t)', pc'[proc'[t].job] = "finalize_wait"
                   PROVE  Reported(t)'
        BY DEF Finalizing, Reported
      <3>1. Busy(t) /\ proc'[t] = proc[t] /\ proc[t].job \in Jobs
        BY <2>4 DEF Busy, Typed, HasJob
      <3>2. pc[proc[t].job] = "finalize_wait"
        BY <2>7, <3>1
      <3> QED
        BY <2>7, <3>1, <3>2 DEF Sound, Finalizing, Reported
    <2> QED
      BY <2>9, <2>10, <2>11, <2>12 DEF Sound
  <1>22. CASE RemoveUSB(j)
    <2>1. /\ pc'[j] = "settle" /\ \A k \in Jobs : k # j => pc'[k] = pc[k]
          /\ removed' = removed \cup {j} /\ usb' = "gone" /\ pc[j] = "usb_remove"
          /\ UNCHANGED <<marker, file, proc, boot, active, job, rec, unmounted, finalized>>
      BY <1>22 DEF RemoveUSB, Move, Typed, TypeOK
    <2>2. \A k \in Jobs : Clean(k) => Clean(k)'
      BY <2>1 DEF Clean, Busy
    <2>3. Began' /\ Spoken' /\ Adopted'
      BY <1>2, <2>1 DEF Sound, Began, Spoken, Adopted, Typed, HasJob
    <2>4. Deserted'
      BY <2>1 DEF Sound, Deserted, Busy, Typed, HasJob
    <2>5. Milestones'
      <3>1. /\ "usb_remove" \in PastFinalize /\ "settle" \in PastRemove
            /\ PastRemove \subseteq PastFinalize /\ PastFinalize \subseteq PastUnmount
            /\ PastRemove \subseteq PastHope
        BY DEF PastUnmount, PastFinalize, PastRemove, PastHope
      <3>2. j \in finalized /\ j \in unmounted /\ Clean(j)
        BY <2>1, <3>1 DEF Sound, Milestones
      <3> QED
        BY <2>1, <2>2, <3>1, <3>2 DEF Sound, Milestones
    <2>6. Finalizing'
      <3> SUFFICES ASSUME NEW t \in Slots, Busy(t)', pc'[proc'[t].job] = "finalize_wait"
                   PROVE  Reported(t)'
        BY DEF Finalizing, Reported
      <3>1. Busy(t) /\ proc'[t] = proc[t] /\ proc[t].job \in Jobs
        BY <2>1 DEF Busy, Typed, HasJob
      <3>2. pc[proc[t].job] = "finalize_wait"
        BY <2>1, <3>1
      <3> QED
        BY <2>1, <3>1, <3>2 DEF Sound, Finalizing, Reported
    <2> QED
      BY <2>3, <2>4, <2>5, <2>6 DEF Sound
  <1> QED
    BY <1>4, <1>5, <1>6, <1>7, <1>8, <1>9, <1>10, <1>11, <1>12, <1>13, <1>14, <1>15,
       <1>16, <1>17, <1>18, <1>19, <1>20, <1>21, <1>22 DEF WorkerStep

(* The recovery works on jobs whose worker is dead, and never rolls back one   *)
(* whose device is removed.                                                   *)
LEMMA RecoverySound ==
  ASSUME Typed, Exclusive, Sound, RStart \/ RecoveryStep \/ RecoveryCrash
  PROVE  Sound'
PROOF
  <1> USE DEF hostVars, adapterVars, flagVars, RecoveryKeeps, Recovering
  (* Its scan changes nothing of a job, or lets an adapter process go.         *)
  <1>1. ASSUME UNCHANGED <<usb, marker, file, boot, pc, unmounted, finalized, removed>>,
               \A s \in Slots : Busy(s)' => /\ Busy(s) /\ proc'[s].at = proc[s].at
                                            /\ proc'[s].job = proc[s].job
                                            /\ \/ proc'[s] = proc[s]
                                               \/ proc[s].owner # "worker",
               \A j \in Jobs : active'[j] = active[j] \/ active'[j] = 0,
               \A j \in Jobs : job'[j] = job[j]
                                 \/ (job'[j] = "failed" /\ pc[j] = "dead")
        PROVE  Began' /\ Deserted' /\ Spoken' /\ Milestones' /\ Finalizing'
    <2>1. Began'
      BY <1>1 DEF Sound, Began, Alive, Locked, CheckStages, ActStages, WaitStages,
         FailureSteps, After
    <2>2. Deserted'
      BY <1>1 DEF Sound, Deserted
    <2>3. Spoken'
      BY <1>1, HopeNames DEF Sound, Spoken
    <2>4. \A j \in Jobs : Clean(j) => Clean(j)'
      BY <1>1 DEF Clean
    <2>5. Milestones'
      BY <1>1, <2>4 DEF Sound, Milestones
    <2>6. Finalizing'
      BY <1>1 DEF Sound, Finalizing
    <2> QED
      BY <2>1, <2>2, <2>3, <2>5, <2>6
  <1>2. ASSUME UNCHANGED proc
        PROVE  \A s \in Slots : Busy(s)' => /\ Busy(s) /\ proc'[s].at = proc[s].at
                                            /\ proc'[s].job = proc[s].job
                                            /\ \/ proc'[s] = proc[s]
                                               \/ proc[s].owner # "worker"
    BY <1>2 DEF Busy
  <1>3. CASE RStart
    <2>1. Adopted'
      BY <1>3 DEF RStart, Adopted, IdleRecovery
    <2> QED
      BY <1>1, <1>2, <1>3, <2>1 DEF RStart, Sound
  <1>4. CASE RecoveryCrash
    <2>1. \A s \in Slots : /\ proc'[s].at = proc[s].at /\ proc'[s].job = proc[s].job
                           /\ proc'[s] = proc[s] \/ proc[s].owner = "recovery"
      BY <1>4, OrphanType DEF RecoveryCrash, Typed, TypeOK
    <2>2. Adopted'
      BY <1>4 DEF RecoveryCrash, Adopted, IdleRecovery
    <2> QED
      BY <1>1, <1>4, <2>1, <2>2 DEF RecoveryCrash, Sound, Busy
  <1>5. CASE RecoveryStep
    <2>0. /\ rec \in [at : RecoverySteps, job : Jobs \cup {NoJob}, todo : SUBSET Jobs,
                      bad : BOOLEAN]
          /\ active \in [Jobs -> 0 .. MaxBoots] /\ pc \in [Jobs -> WorkerSteps]
          /\ job \in [Jobs -> {"absent", "running", "failed", "safe"}]
          /\ rec.at \notin {"idle", "scan"} => rec.job \in Jobs /\ pc[rec.job] = "dead"
      BY DEF Typed, TypeOK, HasJob, Sound, Adopted
    <2>1. CASE RNoRollback \/ RDone \/ \E j \in Jobs : RSkip(j)
      <3>1. Adopted'
        <4>1. CASE RNoRollback
          BY <2>0, <4>1 DEF RNoRollback, Adopted
        <4>2. CASE RDone
          BY <4>2 DEF RDone, Adopted, IdleRecovery
        <4>3. ASSUME NEW j \in Jobs, RSkip(j)
              PROVE  Adopted'
          BY <2>0, <4>3 DEF RSkip, Adopted
        <4> QED
          BY <2>1, <4>1, <4>2, <4>3
      <3> QED
        BY <1>1, <1>2, <2>1, <3>1 DEF RNoRollback, RDone, RSkip, Sound
    <2>2. ASSUME NEW j \in Jobs, RAdopt(j)
          PROVE  Sound'
      <3>1. active[j] # 0 /\ ~WorkerLives(j) /\ rec'.job = j /\ pc' = pc
        BY <2>0, <2>2 DEF RAdopt
      <3>2. pc[j] # "new" /\ pc[j] \notin Alive
        BY <3>1 DEF Sound, Began, WorkerLives
      <3>3. pc[j] = "dead"
        BY <2>0, <3>2 DEF WorkerSteps
      <3>4. Adopted'
        BY <3>1, <3>3 DEF Adopted
      <3> QED
        BY <1>1, <1>2, <2>2, <3>4 DEF RAdopt, Sound
    <2>3. CASE RRolledBack
      <3>1. PICK s \in Slots : Collect(s)
        BY <2>3 DEF RRolledBack
      <3>2. \A t \in Slots : Busy(t)' => Busy(t) /\ proc'[t] = proc[t]
        BY <3>1, CollectFrame
      <3>3. Adopted'
        BY <2>0, <2>3 DEF RRolledBack, Adopted
      <3> QED
        BY <1>1, <2>3, <3>2, <3>3 DEF RRolledBack, Sound
    <2>4. CASE RRecord
      <3>1. Adopted'
        BY <2>0, <2>4 DEF RRecord, Rescan, Adopted
      <3>2. \A j \in Jobs : job'[j] = job[j] \/ (job'[j] = "failed" /\ pc[j] = "dead")
        BY <2>0, <2>4 DEF RRecord
      <3> QED
        BY <1>1, <1>2, <2>4, <3>1, <3>2 DEF RRecord, Sound
    <2>5. CASE RRetire
      <3>1. Adopted'
        BY <2>0, <2>5 DEF RRetire, Rescan, Adopted
      <3> QED
        BY <1>1, <1>2, <2>0, <2>5, <3>1 DEF RRetire, Sound
    <2>6. CASE RRollback
      <3> DEFINE j == rec.job
      <3>1. PICK s \in Slots : Spawn(s, "r_read", j, "recovery")
        BY <2>6 DEF RRollback
      <3>2. /\ j \in Jobs /\ pc[j] = "dead" /\ usb = "target"
            /\ UNCHANGED <<hostVars, file, boot, active, job, pc, unmounted, finalized,
                           removed>>
        BY <2>0, <2>6 DEF RRollback
      <3>3. /\ proc'[s].job = j /\ proc'[s].owner = "recovery"
            /\ \A t \in Slots : t # s => proc'[t] = proc[t]
        BY <3>1, <3>2, SpawnType DEF Typed, TypeOK, Running, RollbackAt
      <3>4. Adopted'
        BY <2>0, <2>6 DEF RRollback, Adopted
      <3>5. Deserted'
        BY <3>2, <3>3 DEF Sound, Deserted, Busy
      <3>6. j \notin removed
        BY <3>2 DEF Sound, Milestones
      <3>7. \A k \in Jobs : k # j /\ Clean(k) => Clean(k)'
        BY <3>2, <3>3 DEF Clean, Busy
      <3>8. Milestones'
        BY <3>2, <3>6, <3>7, HopeNames DEF Sound, Milestones
      <3>9. Finalizing'
        BY <3>2, <3>3 DEF Sound, Finalizing, Busy
      <3>10. Began' /\ Spoken'
        BY <3>2 DEF Sound, Began, Spoken
      <3> QED
        BY <3>4, <3>5, <3>8, <3>9, <3>10 DEF Sound
    <2> QED
      BY <1>5, <2>1, <2>2, <2>3, <2>4, <2>5, <2>6 DEF RecoveryStep
  <1> QED
    BY <1>3, <1>4, <1>5

LEMMA DisturbanceSound ==
  ASSUME Typed, Exclusive, Sound,
         (\E j \in Jobs : Crash(j)) \/ Reboot \/ HostActs \/ DeviceLost \/ ShfsRestarts
  PROVE  Sound'
PROOF
  <1>1. ASSUME NEW j \in Jobs, Crash(j)
        PROVE  Sound'
    <2>1. /\ pc'[j] = "dead" /\ \A k \in Jobs : k # j => pc'[k] = pc[k]
          /\ UNCHANGED <<usb, marker, file, boot, active, job, rec, unmounted, finalized,
                         removed>>
      BY <1>1 DEF Crash, Move, Forget, Typed, TypeOK
    <2>2. \A s \in Slots : /\ proc'[s].at = proc[s].at /\ proc'[s].job = proc[s].job
                           /\ \/ proc'[s] = proc[s]
                              \/ proc[s].job = j
      BY <1>1, OrphanType DEF Crash, Child, Typed, TypeOK
    <2>3. Began' /\ Adopted' /\ Spoken'
      BY <2>1, HopeNames DEF Sound, Began, Adopted, Spoken, Typed, HasJob
    <2>4. Deserted'
      BY <2>1, <2>2 DEF Sound, Deserted, Busy, Typed, HasJob
    <2>5. \A k \in Jobs : Clean(k) => Clean(k)'
      BY <2>1, <2>2 DEF Clean, Busy
    <2>6. Milestones'
      <3>1. "dead" \in PastHope /\ "dead" \notin PastUnmount \cup PastFinalize \cup PastRemove
        BY DEF PastHope, PastUnmount, PastFinalize, PastRemove
      <3> QED
        BY <2>1, <2>5, <3>1 DEF Sound, Milestones
    <2>7. Finalizing'
      BY <2>1, <2>2 DEF Sound, Finalizing, Busy, Typed, HasJob
    <2> QED
      BY <2>3, <2>4, <2>6, <2>7 DEF Sound
  <1>2. CASE Reboot
    <2>1. /\ \A s \in Slots : ~Busy(s)'
          /\ \A k \in Jobs : /\ pc'[k] = IF pc[k] \in Alive THEN "dead" ELSE pc[k]
                             /\ job'[k] = "absent" /\ file'[k] = NoFile
          /\ marker' = NoJob /\ rec' = IdleRecovery /\ usb' # "target"
          /\ UNCHANGED <<active, unmounted, finalized, removed>>
      BY <1>2 DEF Reboot, Forget, Busy, IdleProc
    <2>2. \A k \in Jobs : /\ pc'[k] \in {"new", "dead"}
                          /\ pc'[k] = "new" => pc[k] = "new"
      BY <2>1 DEF Typed, TypeOK, WorkerSteps
    <2>3. Began' /\ Adopted' /\ Spoken'
      BY <2>1, <2>2, HopeNames DEF Sound, Began, Adopted, Spoken, IdleRecovery
    <2>4. Deserted' /\ Finalizing'
      BY <2>1 DEF Deserted, Finalizing
    <2>5. \A k \in Jobs : Clean(k)'
      BY <2>1, HostAssumption DEF Clean
    <2>6. Milestones'
      <3>1. /\ "dead" \in PastHope /\ {"dead", "new"} \cap PastUnmount = {}
            /\ {"dead", "new"} \cap PastFinalize = {} /\ {"dead", "new"} \cap PastRemove = {}
            /\ "new" \notin PastHope
        BY DEF PastHope, PastUnmount, PastFinalize, PastRemove
      <3> QED
        BY <2>1, <2>2, <2>5, <3>1 DEF Sound, Milestones
    <2> QED
      BY <2>3, <2>4, <2>6 DEF Sound
  <1>3. CASE HostActs \/ DeviceLost \/ ShfsRestarts
    <2>1. /\ UNCHANGED <<file, proc, boot, active, job, pc, rec, unmounted, finalized, removed>>
          /\ marker' \in {marker, NoJob} /\ (usb # "target" => usb' # "target")
      BY <1>3 DEF HostActs, DeviceLost, ShfsRestarts, TransactionKeeps, UDStep, UDStart,
         UDLook, UDAct, ShellMount, MarkerAges, Attach, Detach, hostVars, adapterVars, flagVars
    <2>2. \A k \in Jobs : marker # k => marker' # k
      BY <2>1, HostAssumption
    <2>3. \A k \in Jobs : Clean(k) => Clean(k)'
      BY <2>1, <2>2 DEF Clean, Busy
    <2>4. Began' /\ Adopted' /\ Spoken' /\ Deserted'
      BY <2>1 DEF Sound, Began, Adopted, Spoken, Deserted, Busy
    <2>5. Milestones'
      BY <2>1, <2>3 DEF Sound, Milestones
    <2>6. Finalizing'
      BY <2>1, <2>2 DEF Sound, Finalizing, Busy, Typed, HasJob
    <2> QED
      BY <2>4, <2>5, <2>6 DEF Sound
  <1> QED
    BY <1>1, <1>2, <1>3

LEMMA InitSound == Init => Exclusive /\ Sound
PROOF
  <1> SUFFICES ASSUME Init
               PROVE  Exclusive /\ Sound
    OBVIOUS
  <1>1. /\ \A s \in Slots : proc[s].owner = "none" /\ ~Busy(s)
        /\ \A j \in Jobs : pc[j] = "new" /\ active[j] = 0 /\ job[j] = "absent"
        /\ rec.at = "idle" /\ finalized = {} /\ removed = {}
    BY DEF Init, AdapterInit, IdleProc, Busy, IdleRecovery
  <1>2. Exclusive
    BY <1>1, StepNames DEF Exclusive, WorkerHolds, RecoveryHolds, CallerWaits, OneCalled,
       Called
  <1>3. Sound
    BY <1>1, HopeNames DEF Sound, Began, Adopted, Deserted, Spoken, Milestones, Finalizing
  <1> QED
    BY <1>2, <1>3

LEMMA StepSound ==
  Typed /\ Exclusive /\ Sound /\ [Next]_vars => Typed' /\ Exclusive' /\ Sound'
PROOF
  <1>1. ASSUME Exclusive, Sound, UNCHANGED vars
        PROVE  Exclusive' /\ Sound'
    <2> USE DEF vars, hostVars, adapterVars, flagVars
    <2>1. Exclusive'
      BY <1>1 DEF Exclusive, WorkerHolds, RecoveryHolds, CallerWaits, OneCalled, Called
    <2>2. Began' /\ Adopted' /\ Deserted' /\ Spoken' /\ Finalizing'
      BY <1>1 DEF Sound, Began, Adopted, Deserted, Spoken, Finalizing, Busy
    <2>3. Milestones'
      BY <1>1 DEF Sound, Milestones, Clean, Busy
    <2> QED
      BY <2>1, <2>2, <2>3 DEF Sound
  <1>2. Typed /\ Exclusive /\ Next => Exclusive'
    BY WorkerStepExclusive, RecoveryExclusive, DisturbanceExclusive DEF Next
  <1>3. Typed /\ Exclusive /\ Sound /\ Next => Sound'
    BY WorkerStepSound, AdapterSound, RecoverySound, DisturbanceSound DEF Next
  <1> QED
    BY <1>1, <1>2, <1>3, StepTyped

-----------------------------------------------------------------------------
(* The refinement.  The barrier of the contract is read off the marker and    *)
(* the state files, so a step that touches neither leaves it alone.           *)
Holding == {j \in Jobs : marker = j \/ file[j] # NoFile}

(* Each step of the contract, in terms of the concrete state.                 *)
LEMMA ContractSteps ==
  ASSUME NEW j \in Jobs
  PROVE  /\ /\ job[j] = "absent" /\ job' = [job EXCEPT ![j] = "running"]
            /\ UNCHANGED <<usb, marker, file, unmounted, finalized, removed>>
            => Contract!Next
         /\ /\ job[j] # "safe" /\ j \notin removed /\ Holding' \subseteq Holding \cup {j}
            /\ UNCHANGED <<usb, job, unmounted, finalized, removed>>
            => Contract!Next
         /\ /\ job[j] = "running" /\ unmounted' = unmounted \cup {j}
            /\ UNCHANGED <<usb, marker, file, job, finalized, removed>>
            => Contract!Next
         /\ /\ job[j] = "running" /\ j \in unmounted /\ j \notin Holding
            /\ finalized' = finalized \cup {j}
            /\ UNCHANGED <<usb, marker, file, job, unmounted, removed>>
            => Contract!Next
         /\ /\ job[j] = "running" /\ j \in finalized
            /\ removed' = removed \cup {j} /\ usb' # "target"
            /\ UNCHANGED <<marker, file, job, unmounted, finalized>>
            => Contract!Next
         /\ /\ job[j] = "running" /\ j \in removed /\ j \notin Holding /\ usb # "target"
            /\ job' = [job EXCEPT ![j] = "safe"]
            /\ UNCHANGED <<usb, marker, file, unmounted, finalized, removed>>
            => Contract!Next
         /\ /\ job' = [job EXCEPT ![j] = "failed"]
            /\ UNCHANGED <<usb, marker, file, unmounted, finalized, removed>>
            => Contract!Next
PROOF
  <1> USE DEF Contract!Next, Contract!milestones, Contract!Say, Holding
  <1>1. /\ job[j] = "absent" /\ job' = [job EXCEPT ![j] = "running"]
        /\ UNCHANGED <<usb, marker, file, unmounted, finalized, removed>>
        => Contract!Begin(j)
    BY DEF Contract!Begin
  <1>2. /\ job[j] # "safe" /\ j \notin removed /\ Holding' \subseteq Holding \cup {j}
        /\ UNCHANGED <<usb, job, unmounted, finalized, removed>>
        => Contract!Hold(j)
    BY DEF Contract!Hold
  <1>3. /\ job[j] = "running" /\ unmounted' = unmounted \cup {j}
        /\ UNCHANGED <<usb, marker, file, job, finalized, removed>>
        => Contract!Unmount(j)
    BY DEF Contract!Unmount
  <1>4. /\ job[j] = "running" /\ j \in unmounted /\ j \notin Holding
        /\ finalized' = finalized \cup {j}
        /\ UNCHANGED <<usb, marker, file, job, unmounted, removed>>
        => Contract!Finalize(j)
    BY DEF Contract!Finalize
  <1>5. /\ job[j] = "running" /\ j \in finalized
        /\ removed' = removed \cup {j} /\ usb' # "target"
        /\ UNCHANGED <<marker, file, job, unmounted, finalized>>
        => Contract!Remove(j)
    BY DEF Contract!Remove
  <1>6. /\ job[j] = "running" /\ j \in removed /\ j \notin Holding /\ usb # "target"
        /\ job' = [job EXCEPT ![j] = "safe"]
        /\ UNCHANGED <<usb, marker, file, unmounted, finalized, removed>>
        => Contract!Approve(j)
    BY DEF Contract!Approve
  <1>7. /\ job' = [job EXCEPT ![j] = "failed"]
        /\ UNCHANGED <<usb, marker, file, unmounted, finalized, removed>>
        => Contract!Fail(j)
    BY DEF Contract!Fail
  <1> QED
    BY <1>1, <1>2, <1>3, <1>4, <1>5, <1>6, <1>7

Abstract == Contract!Next \/ UNCHANGED Contract!vars

LEMMA ContractIdles ==
  /\ UNCHANGED <<usb, marker, file, job, unmounted, finalized, removed>> => Abstract
  /\ UNCHANGED <<usb, job, unmounted, finalized, removed>> /\ Holding' \subseteq Holding
       => Abstract
  /\ UNCHANGED <<marker, file, job, unmounted, finalized, removed>> /\ usb' # "target"
       => Abstract
PROOF
  <1> USE DEF Abstract, Contract!milestones, Holding
  <1>1. UNCHANGED <<usb, marker, file, job, unmounted, finalized, removed>> => Abstract
    BY DEF Contract!vars
  <1>2. ASSUME UNCHANGED <<usb, job, unmounted, finalized, removed>>, Holding' \subseteq Holding
        PROVE  Abstract
    BY <1>2 DEF Contract!Next, Contract!LetGo
  <1>3. ASSUME UNCHANGED <<marker, file, job, unmounted, finalized, removed>>, usb' # "target"
        PROVE  Abstract
    BY <1>3 DEF Contract!Next, Contract!Lose
  <1> QED
    BY <1>1, <1>2, <1>3

LEMMA WorkerStepImplements ==
  ASSUME Typed, Exclusive, Sound, NEW j \in Jobs, WorkerStep(j)
  PROVE  Abstract
PROOF
  <1> USE DEF hostVars, adapterVars, flagVars, At
  <1>0. /\ pc[j] \in Working => job[j] = "running"
        /\ pc[j] \in PastUnmount => j \in unmounted
        /\ pc[j] \in PastFinalize => j \in finalized /\ j \notin Holding
        /\ pc[j] \in PastRemove => j \in removed
        /\ j \in removed => usb # "target"
    BY DEF Sound, Spoken, Milestones, Clean, Holding
  <1>1. ASSUME UNCHANGED <<usb, marker, file, unmounted, finalized, removed>>,
               \/ UNCHANGED job
               \/ job' = [job EXCEPT ![j] = "failed"]
        PROVE  Abstract
    BY <1>1, ContractSteps, ContractIdles DEF Abstract
  <1>2. CASE StartWorker(j)
    <2>1. job[j] = "absent"
      BY <1>2 DEF StartWorker, Sound, Began
    <2> QED
      BY <1>1, <1>2, <2>1, ContractSteps DEF StartWorker, Abstract
  <1>3. CASE OpenJournal(j) \/ JournalRefused(j) \/ Check(j) \/ RecordFailure(j)
    BY <1>1, <1>3 DEF OpenJournal, JournalRefused, Check, RecordFailure
  <1>4. CASE OpenExclusive(j) \/ NothingToRelease(j) \/ SkipRollback(j) \/ CloseJournal(j)
               \/ ExitWorker(j)
    BY <1>1, <1>4 DEF OpenExclusive, NothingToRelease, SkipRollback, CloseJournal,
       ExitWorker, Forget
  <1>5. CASE Quiesce(j) \/ Quiesced(j) \/ Finalize(j) \/ Rollback(j) \/ RolledBack(j)
    BY <1>1, <1>5 DEF Quiesce, Quiesced, Finalize, Rollback, RolledBack
  <1>6. CASE ListMounts(j) \/ Unmount(j)
    <2>1. job[j] = "running"
      BY <1>0, <1>6 DEF ListMounts, Unmount, Working, ActStages
    <2>2. /\ unmounted' \in {unmounted, unmounted \cup {j}}
          /\ UNCHANGED <<usb, marker, file, job, finalized, removed>>
      BY <1>6 DEF ListMounts, Unmount
    <2> QED
      BY <1>1, <2>1, <2>2, ContractSteps DEF Abstract
  <1>7. CASE CallFails(j)
    <2>1. job[j] = "running"
      BY <1>0, <1>7 DEF CallFails, Working
    <2>2. /\ unmounted' \in {unmounted, unmounted \cup {j}}
          /\ UNCHANGED <<usb, marker, file, job, finalized, removed>>
      BY <1>7 DEF CallFails
    <2> QED
      BY <1>1, <2>1, <2>2, ContractSteps DEF Abstract
  <1>8. CASE Finalized(j)
    <2>1. job[j] = "running" /\ j \in unmounted
      BY <1>0, <1>8 DEF Finalized, Working, WaitStages, PastUnmount
    <2>2. PICK s \in Slots : Child(s, j) /\ proc[s].at = "ok"
      BY <1>8 DEF Finalized
    <2>3. Busy(s) /\ proc[s].job = j /\ pc[j] = "finalize_wait"
      BY <1>8, <2>2 DEF Finalized, Child, Busy
    <2>4. j \notin Holding
      BY <2>2, <2>3 DEF Sound, Finalizing, Holding
    <2> QED
      BY <1>8, <2>1, <2>4, ContractSteps DEF Finalized, Abstract
  <1>9. CASE RemoveUSB(j)
    <2>1. job[j] = "running" /\ j \in finalized
      BY <1>0, <1>9 DEF RemoveUSB, Working, ActStages, PastFinalize
    <2> QED
      BY <1>9, <2>1, ContractSteps DEF RemoveUSB, Abstract
  <1>10. CASE Publish(j) \/ Fail(j)
    <2>1. ASSUME pc[j] = "terminal"
          PROVE  job[j] = "running" /\ j \in removed /\ j \notin Holding /\ usb # "target"
      BY <1>0, <2>1 DEF Working, PastRemove, PastFinalize
    <2>2. /\ job' = job \/ (pc[j] = "terminal" /\ job' = [job EXCEPT ![j] = "safe"])
          /\ UNCHANGED <<usb, marker, file, unmounted, finalized, removed>>
      BY <1>10 DEF Publish, Fail
    <2> QED
      BY <1>1, <2>1, <2>2, ContractSteps DEF Abstract
  <1> QED
    BY <1>2, <1>3, <1>4, <1>5, <1>6, <1>7, <1>8, <1>9, <1>10 DEF WorkerStep

LEMMA OtherStepImplements ==
  ASSUME Typed, Exclusive, Sound,
         \/ \E j \in Jobs : Crash(j)
         \/ \E s \in Slots : AdapterActs(s)
         \/ RStart \/ RecoveryStep \/ RecoveryCrash
         \/ Reboot \/ HostActs \/ DeviceLost \/ ShfsRestarts
  PROVE  Abstract
PROOF
  <1> USE DEF hostVars, adapterVars, flagVars
  <1>1. ASSUME NEW j \in Jobs, Crash(j)
        PROVE  Abstract
    BY <1>1, ContractIdles DEF Crash, Forget
  <1>2. ASSUME NEW s \in Slots, AdapterActs(s)
        PROVE  Abstract
    <2> DEFINE k == proc[s].job
    <2>0. AdapterTyped /\ Employed /\ AdapterStep(s)
      BY <1>2, TypedParts DEF AdapterActs
    <2>1. /\ Busy(s) /\ k \in Jobs
          /\ UNCHANGED <<usb, job, unmounted, finalized, removed>>
      BY <1>2, <2>0, AdapterFrame DEF AdapterActs, TransactionKeeps, Busy, Employed
    <2>2. k \notin removed /\ job[k] # "safe"
      BY <2>1 DEF Sound, Milestones, Spoken, Clean
    <2>3. Holding' \subseteq Holding \cup {k}
      <3> SUFFICES ASSUME NEW j \in Jobs, j # k, marker' = j \/ file'[j] # NoFile
                   PROVE  marker = j \/ file[j] # NoFile
        BY DEF Holding
      <3>1. j # NoJob /\ j # Unsigned
        BY HostAssumption
      <3> QED
        BY <2>0, <3>1, AdapterFrame
    <2> QED
      BY <2>1, <2>2, <2>3, ContractSteps DEF Abstract
  <1>3. CASE RStart \/ RecoveryCrash
    BY <1>3, ContractIdles DEF RStart, RecoveryCrash, RecoveryKeeps
  <1>4. CASE RecoveryStep
    <2>1. CASE RRecord
      <3>1. rec.job \in Jobs
        BY <2>1 DEF RRecord, Recovering, Typed, HasJob
      <3>2. job' = job \/ job' = [job EXCEPT ![rec.job] = "failed"]
        BY <2>1 DEF RRecord
      <3> QED
        BY <2>1, <3>1, <3>2, ContractSteps, ContractIdles DEF RRecord, RecoveryKeeps, Abstract
    <2>2. CASE RNoRollback \/ RRollback \/ RRolledBack \/ RRetire \/ RDone
                 \/ \E j \in Jobs : RSkip(j) \/ RAdopt(j)
      BY <2>2, ContractIdles DEF RNoRollback, RRollback, RRolledBack, RRetire, RDone, RSkip,
         RAdopt, RecoveryKeeps
    <2> QED
      BY <1>4, <2>1, <2>2 DEF RecoveryStep
  <1>5. CASE Reboot
    <2>1. /\ usb' # "target" /\ job' = [j \in Jobs |-> "absent"]
          /\ UNCHANGED <<unmounted, finalized, removed>>
      BY <1>5 DEF Reboot, Forget
    <2>2. Holding' = {}
      <3>1. marker' = NoJob /\ \A j \in Jobs : file'[j] = NoFile
        BY <1>5 DEF Reboot
      <3> QED
        BY <3>1, HostAssumption DEF Holding
    <2>3. Contract!Reboot
      BY <2>1, <2>2 DEF Contract!Reboot, Contract!milestones, Holding
    <2> QED
      BY <2>3 DEF Abstract, Contract!Next
  <1>6. CASE HostActs \/ DeviceLost \/ ShfsRestarts
    <2>1. /\ UNCHANGED <<file, job, unmounted, finalized, removed>>
          /\ marker' \in {marker, NoJob}
          /\ usb' = usb \/ (usb' # "target" /\ marker' = marker)
      BY <1>6 DEF HostActs, DeviceLost, ShfsRestarts, TransactionKeeps, UDStep, UDStart,
         UDLook, UDAct, ShellMount, MarkerAges, Attach, Detach
    <2>2. Holding' \subseteq Holding
      BY <2>1, HostAssumption DEF Holding
    <2>3. CASE usb' = usb
      BY <2>1, <2>2, <2>3 DEF Abstract, Contract!Next, Contract!LetGo, Contract!milestones, Holding
    <2>4. CASE usb' # "target" /\ marker' = marker
      BY <2>1, <2>4 DEF Abstract, Contract!Next, Contract!Lose, Contract!milestones, Holding
    <2> QED
      BY <2>1, <2>3, <2>4
  <1> QED
    BY <1>1, <1>2, <1>3, <1>4, <1>5, <1>6

(* The transaction implements its contract: with any number of jobs, adapter  *)
(* processes, deaths and boots, every step is one of the contract or none of   *)
(* its business.                                                              *)
THEOREM TransactionImplementsContract == Spec => KeepsContract
PROOF
  <1>1. Init => Contract!Init
    BY HostAssumption DEF Init, HostInit, AdapterInit, Contract!Init, NoFile
  <1>2. Typed /\ Exclusive /\ Sound /\ [Next]_vars => [Contract!Next]_(Contract!vars)
    <2>1. UNCHANGED vars => Abstract
      BY ContractIdles DEF vars, hostVars, adapterVars, flagVars
    <2> QED
      BY <2>1, WorkerStepImplements, OtherStepImplements DEF Next, Abstract
  <1> QED
    BY <1>1, <1>2, InitTyped, InitSound, StepSound, PTL DEF Spec, KeepsContract, Contract!Spec

(* What the contract is for.                                                  *)
Orderly ==
  /\ finalized \subseteq unmounted /\ removed \subseteq finalized
  /\ job \in [Jobs -> {"absent", "running", "failed", "safe"}]

LEMMA ContractEarns == Contract!Spec => []Contract!Earned
PROOF
  <1> DEFINE Inv == Contract!Earned /\ Orderly
  <1>1. Contract!Init => Inv
    BY DEF Contract!Init, Contract!Earned, Orderly
  <1>2. Inv /\ [Contract!Next]_(Contract!vars) => Inv'
    <2> SUFFICES ASSUME Inv, [Contract!Next]_(Contract!vars)
                 PROVE  Inv'
      OBVIOUS
    <2> USE DEF Contract!Earned, Orderly, Contract!milestones
    <2>1. CASE UNCHANGED Contract!vars \/ Contract!LetGo \/ Contract!Lose \/ Contract!Reboot
      BY <2>1 DEF Contract!vars, Contract!LetGo, Contract!Lose, Contract!Reboot
    <2>2. ASSUME NEW j \in Jobs, Contract!Begin(j) \/ Contract!Approve(j) \/ Contract!Fail(j)
          PROVE  Inv'
      BY <2>2 DEF Contract!Begin, Contract!Approve, Contract!Fail, Contract!Say
    <2>3. ASSUME NEW j \in Jobs, Contract!Hold(j) \/ Contract!Unmount(j)
                                   \/ Contract!Finalize(j) \/ Contract!Remove(j)
          PROVE  Inv'
      BY <2>3 DEF Contract!Hold, Contract!Unmount, Contract!Finalize, Contract!Remove
    <2> QED
      BY <2>1, <2>2, <2>3 DEF Contract!Next
  <1> QED
    BY <1>1, <1>2, PTL DEF Contract!Spec

(* A job file says safe_to_unplug only when the job unmounted, finalized and   *)
(* removed its own target, which is gone, and left no barrier (eject.go, the   *)
(* terminal stage): for the transaction because it implements the contract,   *)
(* for the contract by its steps.                                             *)
THEOREM ApprovalIsEarned == Spec => []ApprovalEarned
PROOF
  <1>1. Contract!Earned => ApprovalEarned
    BY DEF Contract!Earned, ApprovalEarned
  <1> QED
    BY <1>1, TransactionImplementsContract, ContractEarns, PTL DEF KeepsContract
=============================================================================
