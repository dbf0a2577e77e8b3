-------------------------- MODULE EjectTransaction --------------------------
(***************************************************************************)
(* The safe-eject transaction: the worker `usb-guardian eject`               *)
(* (internal/guardian/eject.go), its durable journal and job file            *)
(* (persist.go), and the recovery command (recover.go), composed with the    *)
(* UD adapter processes they start and the host they act on.                 *)
(*                                                                           *)
(* One action is one durable or visible effect.  A stage that only looks and *)
(* then goes on is a row of the table After.  Every stage may also fail for  *)
(* a reason the model does not keep: each begins with a journal append and a *)
(* job write, and ends in a check that fails closed.                         *)
(*                                                                           *)
(* Workers start whenever they like: the launch protocol that orders them is *)
(* not needed for anything stated here, the transaction lock is.             *)
(*                                                                           *)
(* An operator marked "Variant" is no part of the model: it is the one below *)
(* it with a plausible bug, and shows that a property notices.               *)
(***************************************************************************)
EXTENDS UDAdapter

CONSTANTS
  Recoverer,   (* the recovery command as holder of the transaction lock      *)
  MaxBoots,    (* bound: boots, the first one included                        *)
  MaxCrashes   (* bound: worker and recovery processes that die               *)

ASSUME TransactionAssumption ==
  /\ Recoverer \notin Jobs \cup {NoJob}
  /\ MaxBoots \in Nat \ {0}
  /\ MaxCrashes \in Nat

VARIABLES
  boot,        (* current boot id                                             *)
  lock,        (* holder of .transaction.lock on the boot flash               *)
  active,      (* per job: boot id in its active.json, 0 when there is none   *)
  job,         (* per job: state in its job file under /run                   *)
  pc,          (* per job: where its worker is                                *)
  attempted,   (* jobs with quiesceAttempted                                  *)
  unmounted,   (* jobs that came to strictlyUnmounted and rollbackProhibited,  *)
  finalized,   (* to finalized,                                               *)
  removed,     (* and to removed: also history, kept past the worker's end    *)
  doubtful,    (* jobs with irreversibleAdapterFailure                        *)
  pending,     (* jobs with recoveryPending                                   *)
  stale,       (* jobs whose remembered shfs PID set is not the live one      *)
  rec,         (* the recovery command                                        *)
  crashes,     (* processes that have died so far                             *)
  doomed       (* history: jobs that lost shfs or their device while watching *)

flagVars == <<attempted, unmounted, finalized, removed, doubtful, pending>>
vars == <<hostVars, adapterVars, boot, lock, active, job, pc, flagVars, stale,
          rec, crashes, doomed>>

(* The check stages of Ejector.Run in the order of the code: each goes to the *)
(* one named here when it passes.  The stages in between act, see below.      *)
After == [validate           |-> "ud_inspect",
          ud_inspect         |-> "preflight",
          preflight          |-> "quiesce",
          verify_idle        |-> "pre_remove_shfs",
          pre_remove_shfs    |-> "post_finalize_shfs",
          post_finalize_shfs |-> "post_finalize_idle",
          post_finalize_idle |-> "exclusive_open",
          flush              |-> "final_idle",
          final_idle         |-> "final_identity",
          final_identity     |-> "usb_remove",
          settle             |-> "shfs_health",
          shfs_health        |-> "terminal"]

CheckStages == DOMAIN After
ActStages == {"quiesce", "strict_unmount", "unmount", "ud_finalize",
              "exclusive_open", "usb_remove"}
WaitStages == {"quiesce_wait", "finalize_wait"}
FailureSteps == {"failing", "rollback_wait", "record", "retire"}
(* Where a worker holds the transaction lock.                                 *)
Locked == CheckStages \cup ActStages \cup WaitStages \cup FailureSteps
            \cup {"terminal", "finish"}
Alive == Locked \cup {"journal", "returning"}
WorkerSteps == Alive \cup {"new", "dead"}

(* Stages at which losing shfs, or the device, must be noticed later on.      *)
WatchingShfs == Locked \ (FailureSteps \cup {"validate", "ud_inspect", "preflight",
                                             "terminal", "finish"})
WatchingDevice == Locked \ (FailureSteps \cup {"validate", "usb_remove", "settle",
                                               "shfs_health", "terminal", "finish"})

RecoverySteps == {"idle", "scan", "adapter", "rollback", "record", "retire"}
IdleRecovery == [at |-> "idle", job |-> NoJob, todo |-> {}, bad |-> FALSE]

TypeOK ==
  /\ HostTypeOK
  /\ AdapterTypeOK
  /\ boot \in 1 .. MaxBoots
  /\ lock \in Jobs \cup {NoJob, Recoverer}
  /\ active \in [Jobs -> 0 .. MaxBoots]
  /\ job \in [Jobs -> {"absent", "running", "failed", "safe"}]
  /\ pc \in [Jobs -> WorkerSteps]
  /\ attempted \subseteq Jobs
  /\ unmounted \subseteq Jobs
  /\ finalized \subseteq Jobs
  /\ removed \subseteq Jobs
  /\ doubtful \subseteq Jobs
  /\ pending \subseteq Jobs
  /\ stale \subseteq Jobs
  /\ rec \in [at : RecoverySteps, job : Jobs \cup {NoJob},
              todo : SUBSET Jobs, bad : BOOLEAN]
  /\ crashes \in 0 .. MaxCrashes
  /\ doomed \subseteq Jobs

Init ==
  /\ HostInit
  /\ AdapterInit
  /\ boot = 1
  /\ lock = NoJob
  /\ active = [j \in Jobs |-> 0]
  /\ job = [j \in Jobs |-> "absent"]
  /\ pc = [j \in Jobs |-> "new"]
  /\ attempted = {} /\ unmounted = {} /\ finalized = {}
  /\ removed = {} /\ doubtful = {} /\ pending = {}
  /\ stale = {}
  /\ rec = IdleRecovery
  /\ crashes = 0
  /\ doomed = {}

-----------------------------------------------------------------------------
(* The worker.                                                                *)
At(j, step) == pc[j] = step
Move(j, step) == pc' = [pc EXCEPT ![j] = step]

(* The first job write; if it reports an error, before or after its rename,   *)
(* the process returns at once.                                               *)
StartWorker(j) ==
  /\ At(j, "new")
  /\ \/ Move(j, "journal") /\ job' = [job EXCEPT ![j] = "running"]
     \/ Move(j, "dead") /\ job' = [job EXCEPT ![j] = "running"]
     \/ Move(j, "dead") /\ UNCHANGED job
  /\ UNCHANGED <<hostVars, adapterVars, boot, lock, active, flagVars, stale,
                 rec, crashes, doomed>>

(* Variant: the lock is not tried.                                           *)
OpenJournalUnlocked(j) ==
  /\ At(j, "journal")
  /\ lock' = j
  /\ active' = [active EXCEPT ![j] = boot]
  /\ Move(j, "validate")
  /\ UNCHANGED <<hostVars, adapterVars, boot, job, flagVars, stale, rec,
                 crashes, doomed>>

(* NewJournal: the lock without waiting, then active.json, then the first     *)
(* timeline record.                                                           *)
OpenJournal(j) ==
  /\ At(j, "journal")
  /\ lock = NoJob
  /\ lock' = j
  /\ active' = [active EXCEPT ![j] = boot]
  /\ Move(j, "validate")
  /\ UNCHANGED <<hostVars, adapterVars, boot, job, flagVars, stale, rec,
                 crashes, doomed>>

(* The lock is taken, or a later write fails: the lock is given back at once, *)
(* an active.json already written stays, and the failed job write is not      *)
(* checked.                                                                   *)
JournalRefused(j) ==
  /\ At(j, "journal")
  /\ \/ UNCHANGED active
     \/ lock = NoJob /\ active' = [active EXCEPT ![j] = boot]
  /\ \/ job' = [job EXCEPT ![j] = "failed"]
     \/ UNCHANGED job
  /\ Move(j, "returning")
  /\ UNCHANGED <<hostVars, adapterVars, boot, lock, flagVars, stale, rec,
                 crashes, doomed>>

(* What each check stage demands of the host.  The scans of mounts, holders,  *)
(* swap and open files may refuse for more than a mount: see Fail.            *)
Passes(j, stage) ==
  CASE stage = "validate"       -> usb = "target"
    [] stage = "ud_inspect"     -> InspectOK
    [] stage = "preflight"      -> mounts <= 1
    [] stage = "verify_idle"    -> mounts = 0 /\ usb = "target"
    [] stage \in {"pre_remove_shfs", "post_finalize_shfs", "shfs_health"}
                                -> j \notin stale
    [] stage \in {"post_finalize_idle", "final_idle"}
                                -> mounts = 0
    [] stage = "flush"          -> TRUE
    [] stage = "final_identity" -> usb = "target"
    [] stage = "settle"         -> usb = "gone"

(* Variant: the second look at shfs replaces the PID set of the first.        *)
CheckForgetful(j) ==
  /\ pc[j] \in CheckStages
  /\ Passes(j, pc[j])
  /\ Move(j, After[pc[j]])
  /\ stale' = IF pc[j] \in {"preflight", "verify_idle"} THEN stale \ {j} ELSE stale
  /\ UNCHANGED <<hostVars, adapterVars, boot, lock, active, job, flagVars, rec,
                 crashes, doomed>>

(* A stage passes; preflight remembers the shfs PID set it saw.               *)
Check(j) ==
  /\ pc[j] \in CheckStages
  /\ Passes(j, pc[j])
  /\ Move(j, After[pc[j]])
  /\ stale' = IF pc[j] = "preflight" THEN stale \ {j} ELSE stale
  /\ UNCHANGED <<hostVars, adapterVars, boot, lock, active, job, flagVars, rec,
                 crashes, doomed>>

(* quiesceAttempted, then Coordinator.Quiesce.                                *)
Quiesce(j) ==
  /\ At(j, "quiesce")
  /\ Move(j, "quiesce_wait")
  /\ attempted' = attempted \cup {j}
  /\ \E s \in Slots : Spawn(s, "q_inspect", j, "worker")
  /\ UNCHANGED <<hostVars, file, boot, lock, active, job, unmounted, finalized,
                 removed, doubtful, pending, stale, rec, crashes, doomed>>

(* The adapter process of worker j has ended like this.                       *)
Child(s, j) == proc[s].owner = "worker" /\ proc[s].job = j

Quiesced(j) ==
  /\ At(j, "quiesce_wait")
  /\ \E s \in Slots : Child(s, j) /\ proc[s].at = "ok" /\ Collect(s)
  /\ Move(j, "strict_unmount")
  /\ UNCHANGED <<hostVars, file, boot, lock, active, job, flagVars, stale, rec,
                 crashes, doomed>>

(* The mounts are read again: none leaves nothing to do, one is unmounted     *)
(* next, more than one is a layout the worker refuses.                        *)
ListMounts(j) ==
  /\ At(j, "strict_unmount")
  /\ mounts <= 1
  /\ IF mounts = 0
       THEN Move(j, "ud_finalize") /\ unmounted' = unmounted \cup {j}
       ELSE Move(j, "unmount") /\ UNCHANGED unmounted
  /\ UNCHANGED <<hostVars, adapterVars, boot, lock, active, job, attempted,
                 finalized, removed, doubtful, pending, stale, rec, crashes, doomed>>

(* Variant: a mount that is gone by then is unmounted too.                   *)
UnmountAgain(j) ==
  /\ At(j, "unmount")
  /\ mounts' = mounts - 1
  /\ Move(j, "ud_finalize")
  /\ unmounted' = unmounted \cup {j}
  /\ UNCHANGED <<usb, claim, marker, aged, udop, adapterVars, boot, lock, active,
                 job, attempted, finalized, removed, doubtful, pending, stale, rec,
                 crashes, doomed>>

(* umount(2) without flags, and the boundary behind it.                       *)
Unmount(j) ==
  /\ At(j, "unmount")
  /\ mounts > 0
  /\ mounts' = mounts - 1
  /\ Move(j, "ud_finalize")
  /\ unmounted' = unmounted \cup {j}
  /\ UNCHANGED <<usb, claim, marker, aged, udop, adapterVars, boot, lock, active,
                 job, attempted, finalized, removed, doubtful, pending, stale, rec,
                 crashes, doomed>>

Finalize(j) ==
  /\ At(j, "ud_finalize")
  /\ Move(j, "finalize_wait")
  /\ \E s \in Slots : Spawn(s, "f_read", j, "worker")
  /\ UNCHANGED <<hostVars, file, boot, lock, active, job, flagVars, stale, rec,
                 crashes, doomed>>

(* Variant: a finalize that was killed counts as one that answered.          *)
FinalizedUnanswered(j) ==
  /\ At(j, "finalize_wait")
  /\ \E s \in Slots : Child(s, j) /\ proc[s].at \in {"ok", "killed"} /\ Collect(s)
  /\ Move(j, "verify_idle")
  /\ finalized' = finalized \cup {j}
  /\ UNCHANGED <<hostVars, file, boot, lock, active, job, attempted, unmounted,
                 removed, doubtful, pending, stale, rec, crashes, doomed>>

Finalized(j) ==
  /\ At(j, "finalize_wait")
  /\ \E s \in Slots : Child(s, j) /\ proc[s].at = "ok" /\ Collect(s)
  /\ Move(j, "verify_idle")
  /\ finalized' = finalized \cup {j}
  /\ UNCHANGED <<hostVars, file, boot, lock, active, job, attempted, unmounted,
                 removed, doubtful, pending, stale, rec, crashes, doomed>>

(* Variant: the block node is opened without O_EXCL.                         *)
OpenShared(j) ==
  /\ At(j, "exclusive_open")
  /\ usb # "gone"
  /\ Move(j, "flush")
  /\ UNCHANGED <<hostVars, adapterVars, boot, lock, active, job, flagVars, stale,
                 rec, crashes, doomed>>

(* O_EXCL on the root block node: the kernel refuses while it is mounted.     *)
OpenExclusive(j) ==
  /\ At(j, "exclusive_open")
  /\ usb # "gone" /\ mounts = 0 /\ claim = NoJob
  /\ claim' = j
  /\ Move(j, "flush")
  /\ UNCHANGED <<usb, mounts, marker, aged, udop, adapterVars, boot, lock, active,
                 job, flagVars, stale, rec, crashes, doomed>>

(* The write to <usb path>/remove: it acts on whatever is on the path.        *)
RemoveUSB(j) ==
  /\ At(j, "usb_remove")
  /\ usb # "gone"
  /\ usb' = "gone"
  /\ mounts' = 0
  /\ claim' = NoJob
  /\ removed' = removed \cup {j}
  /\ Move(j, "settle")
  /\ UNCHANGED <<marker, aged, udop, adapterVars, boot, lock, active, job,
                 attempted, unmounted, finalized, doubtful, pending, stale, rec,
                 crashes, doomed>>

(* The only write of safe_to_unplug.                                          *)
Publish(j) ==
  /\ At(j, "terminal")
  /\ job' = [job EXCEPT ![j] = "safe"]
  /\ Move(j, "finish")
  /\ UNCHANGED <<hostVars, adapterVars, boot, lock, active, flagVars, stale, rec,
                 crashes, doomed>>

-----------------------------------------------------------------------------
(* The fail closure.  It closes the exclusive handles first.                  *)
DropClaim(j) == claim' = IF claim = j THEN NoJob ELSE claim

(* A check, a journal append, a job write, a hook or a system call fails.     *)
(* atomicWriteJSON may report an error after its rename.                      *)
Fail(j) ==
  /\ pc[j] \in CheckStages \cup ActStages \cup {"terminal"}
  /\ Move(j, "failing")
  /\ DropClaim(j)
  /\ \/ UNCHANGED job
     \/ At(j, "terminal") /\ job' = [job EXCEPT ![j] = "safe"]
  /\ UNCHANGED <<usb, mounts, marker, aged, udop, adapterVars, boot, lock, active,
                 flagVars, stale, rec, crashes, doomed>>

(* Variant: only an answer of the adapter is an error.                       *)
CallFailsAnswered(j) ==
  /\ pc[j] \in WaitStages
  /\ \E s \in Slots : Child(s, j) /\ proc[s].at = "refused" /\ Collect(s)
  /\ Move(j, "failing")
  /\ UNCHANGED <<hostVars, file, boot, lock, active, job, flagVars, stale, rec,
                 crashes, doomed>>

(* Quiesce or Finalize fails.  Only an answer carries a phase: a killed       *)
(* process leaves none, and an irreversible one counts as unmounted.          *)
CallFails(j) ==
  /\ pc[j] \in WaitStages
  /\ \E s \in Slots :
       /\ Child(s, j)
       /\ proc[s].at \in {"refused", "killed"}
       /\ Collect(s)
       /\ LET crossed == IF proc[s].at = "refused" /\ proc[s].mem.phase \in Irreversible
                           THEN {j} ELSE {}
          IN  /\ doubtful' = doubtful \cup crossed
              /\ unmounted' = unmounted \cup crossed
  /\ Move(j, "failing")
  /\ UNCHANGED <<hostVars, file, boot, lock, active, job, attempted, finalized,
                 removed, pending, stale, rec, crashes, doomed>>

NeedsRelease(j) == j \in attempted /\ j \notin removed

(* The hook after Finalize may fail with the barrier already down: that, like *)
(* every failure with no barrier of this job, leaves nothing to recover.      *)
NothingToRelease(j) ==
  /\ At(j, "failing")
  /\ \/ ~NeedsRelease(j)
     \/ j \in unmounted /\ j \in finalized /\ j \notin doubtful
  /\ Move(j, "record")
  /\ UNCHANGED <<hostVars, adapterVars, boot, lock, active, job, flagVars, stale,
                 rec, crashes, doomed>>

(* rollback_skipped: past the unmount the barrier is not released here; before *)
(* it, an identity that does not match or a journal that does not take         *)
(* rollback_before is reason enough.                                           *)
SkipRollback(j) ==
  /\ At(j, "failing")
  /\ NeedsRelease(j)
  /\ j \in unmounted => j \in doubtful \/ j \notin finalized
  /\ pending' = pending \cup {j}
  /\ Move(j, "record")
  /\ UNCHANGED <<hostVars, adapterVars, boot, lock, active, job, attempted,
                 unmounted, finalized, removed, doubtful, stale, rec, crashes, doomed>>

Rollback(j) ==
  /\ At(j, "failing")
  /\ NeedsRelease(j)
  /\ j \notin unmounted
  /\ usb = "target"
  /\ \E s \in Slots : Spawn(s, "r_read", j, "worker")
  /\ Move(j, "rollback_wait")
  /\ UNCHANGED <<hostVars, file, boot, lock, active, job, flagVars, stale, rec,
                 crashes, doomed>>

(* Variant: a failed rollback is not remembered.                             *)
RolledBackAnyway(j) ==
  /\ At(j, "rollback_wait")
  /\ \E s \in Slots : Child(s, j) /\ proc[s].at \in Ended /\ Collect(s)
  /\ Move(j, "record")
  /\ UNCHANGED <<hostVars, file, boot, lock, active, job, flagVars, stale, rec,
                 crashes, doomed>>

RolledBack(j) ==
  /\ At(j, "rollback_wait")
  /\ \E s \in Slots :
       /\ Child(s, j)
       /\ proc[s].at \in Ended
       /\ Collect(s)
       /\ pending' = IF proc[s].at = "ok" THEN pending ELSE pending \cup {j}
  /\ Move(j, "record")
  /\ UNCHANGED <<hostVars, file, boot, lock, active, job, attempted, unmounted,
                 finalized, removed, doubtful, stale, rec, crashes, doomed>>

(* The failed job file; an error here is returned but stops nothing.          *)
RecordFailure(j) ==
  /\ At(j, "record")
  /\ \/ job' = [job EXCEPT ![j] = "failed"]
     \/ UNCHANGED job
  /\ Move(j, "retire")
  /\ UNCHANGED <<hostVars, adapterVars, boot, lock, active, flagVars, stale, rec,
                 crashes, doomed>>

(* Variant: a journal kept for recovery keeps its lock.                      *)
CloseJournalLocked(j) ==
  /\ pc[j] \in {"finish", "retire"}
  /\ IF j \in pending
       THEN UNCHANGED <<active, lock>>
       ELSE active' = [active EXCEPT ![j] = 0] /\ lock' = NoJob
  /\ Move(j, "returning")
  /\ UNCHANGED <<hostVars, adapterVars, boot, job, flagVars, stale, rec, crashes,
                 doomed>>

(* Journal.Finish removes active.json and lets the lock go; if it fails half  *)
(* way the deferred Close lets it go.  With recovery pending only Close runs. *)
CloseJournal(j) ==
  /\ pc[j] \in {"finish", "retire"}
  /\ \/ UNCHANGED active
     \/ j \notin pending /\ active' = [active EXCEPT ![j] = 0]
  /\ lock' = NoJob
  /\ Move(j, "returning")
  /\ UNCHANGED <<hostVars, adapterVars, boot, job, flagVars, stale, rec, crashes,
                 doomed>>

(* The variables of Run that only the fail closure reads end with the process. *)
Forget(js) ==
  /\ attempted' = attempted \ js
  /\ doubtful' = doubtful \ js
  /\ pending' = pending \ js
  /\ stale' = stale \ js
  /\ UNCHANGED <<unmounted, finalized, removed>>

ExitWorker(j) ==
  /\ At(j, "returning")
  /\ Move(j, "dead")
  /\ Forget({j})
  /\ UNCHANGED <<hostVars, adapterVars, boot, lock, active, job, rec, crashes, doomed>>

WorkerStep(j) ==
  \/ StartWorker(j) \/ OpenJournal(j) \/ JournalRefused(j) \/ Check(j)
  \/ Quiesce(j) \/ Quiesced(j) \/ ListMounts(j) \/ Unmount(j)
  \/ Finalize(j) \/ Finalized(j) \/ OpenExclusive(j) \/ RemoveUSB(j) \/ Publish(j)
  \/ Fail(j) \/ CallFails(j) \/ NothingToRelease(j) \/ SkipRollback(j)
  \/ Rollback(j) \/ RolledBack(j) \/ RecordFailure(j) \/ CloseJournal(j)
  \/ ExitWorker(j)

-----------------------------------------------------------------------------
(* The recovery command.  It scans transactions/ under the same lock; with    *)
(* the lock taken it reports an active worker and does nothing.               *)
Recovering(step) == rec.at = step
RecoveryKeeps == UNCHANGED <<boot, pc, flagVars, stale, crashes, doomed>>

(* Variant: the recovery does not try the lock.                              *)
RStartUnlocked ==
  /\ Recovering("idle")
  /\ lock' = Recoverer
  /\ rec' = [IdleRecovery EXCEPT !.at = "scan", !.todo = Jobs]
  /\ UNCHANGED <<hostVars, adapterVars, active, job>>
  /\ RecoveryKeeps

RStart ==
  /\ Recovering("idle")
  /\ lock = NoJob
  /\ lock' = Recoverer
  /\ rec' = [IdleRecovery EXCEPT !.at = "scan", !.todo = Jobs]
  /\ UNCHANGED <<hostVars, adapterVars, active, job>>
  /\ RecoveryKeeps

(* No active.json, one of a live worker of this boot, or one that cannot be   *)
(* read, appended to or snapshotted.                                          *)
RSkip(j) ==
  /\ Recovering("scan")
  /\ j \in rec.todo
  /\ rec' = [rec EXCEPT !.todo = @ \ {j}]
  /\ UNCHANGED <<hostVars, adapterVars, lock, active, job>>
  /\ RecoveryKeeps

WorkerLives(j) == active[j] = boot /\ pc[j] \in Alive

RAdopt(j) ==
  /\ Recovering("scan")
  /\ j \in rec.todo
  /\ active[j] # 0
  /\ ~WorkerLives(j)
  /\ rec' = [rec EXCEPT !.at = "adapter", !.job = j, !.todo = @ \ {j}, !.bad = FALSE]
  /\ UNCHANGED <<hostVars, adapterVars, lock, active, job>>
  /\ RecoveryKeeps

(* recoverUDAdapterState: nothing to release, or not released: another boot,  *)
(* an irreversible phase, another device, a state file or journal that fails. *)
RNoRollback ==
  /\ Recovering("adapter")
  /\ rec' = [rec EXCEPT !.at = "record", !.bad = file[rec.job] # NoFile]
  /\ UNCHANGED <<hostVars, adapterVars, lock, active, job>>
  /\ RecoveryKeeps

RRollback ==
  /\ Recovering("adapter")
  /\ active[rec.job] = boot
  /\ file[rec.job].phase \in Reversible
  /\ usb = "target"
  /\ \E s \in Slots : Spawn(s, "r_read", rec.job, "recovery")
  /\ rec' = [rec EXCEPT !.at = "rollback"]
  /\ UNCHANGED <<hostVars, file, lock, active, job>>
  /\ RecoveryKeeps

(* Released only if the adapter says so, its state file is gone, and the      *)
(* journal takes recovery_rollback_after.                                     *)
RRolledBack ==
  /\ Recovering("rollback")
  /\ \E s \in Slots :
       /\ proc[s].owner = "recovery"
       /\ proc[s].at \in Ended
       /\ Collect(s)
       /\ \E bad \in {TRUE, ~(proc[s].at = "ok" /\ file[rec.job] = NoFile)} :
            rec' = [rec EXCEPT !.at = "record", !.bad = bad]
  /\ UNCHANGED <<hostVars, file, lock, active, job>>
  /\ RecoveryKeeps

Rescan == [rec EXCEPT !.at = "scan", !.job = NoJob, !.bad = FALSE]

(* The interrupted_by_reboot job file; active.json stays if the write fails   *)
(* or the barrier is unresolved.                                              *)
RRecord ==
  /\ Recovering("record")
  /\ \/ UNCHANGED job /\ rec' = Rescan
     \/ /\ job' = [job EXCEPT ![rec.job] = "failed"]
        /\ \/ rec' = Rescan
           \/ ~rec.bad /\ rec' = [rec EXCEPT !.at = "retire"]
  /\ UNCHANGED <<hostVars, adapterVars, lock, active>>
  /\ RecoveryKeeps

(* active.json is renamed to interrupted-*.json, or that fails.               *)
RRetire ==
  /\ Recovering("retire")
  /\ \/ UNCHANGED active
     \/ active' = [active EXCEPT ![rec.job] = 0]
  /\ rec' = Rescan
  /\ UNCHANGED <<hostVars, adapterVars, lock, job>>
  /\ RecoveryKeeps

RDone ==
  /\ Recovering("scan")
  /\ rec.todo = {}
  /\ lock' = NoJob
  /\ rec' = IdleRecovery
  /\ UNCHANGED <<hostVars, adapterVars, active, job>>
  /\ RecoveryKeeps

RecoveryStep ==
  \/ RNoRollback \/ RRollback \/ RRolledBack \/ RRecord \/ RRetire \/ RDone
  \/ \E j \in Jobs : RSkip(j) \/ RAdopt(j)

-----------------------------------------------------------------------------
(* What nobody schedules.  flock and O_EXCL end with the process; its PHP     *)
(* child does not.                                                            *)
Orphan(children) ==
  proc' = [s \in Slots |-> IF s \in children THEN [proc[s] EXCEPT !.owner = "orphan"]
                                              ELSE proc[s]]

Crash(j) ==
  /\ pc[j] \in Alive
  /\ crashes < MaxCrashes
  /\ crashes' = crashes + 1
  /\ Move(j, "dead")
  /\ lock' = IF lock = j THEN NoJob ELSE lock
  /\ DropClaim(j)
  /\ Orphan({s \in Slots : Child(s, j)})
  /\ Forget({j})
  /\ UNCHANGED <<usb, mounts, marker, aged, udop, file, boot, active, job, rec, doomed>>

(* The API ends a recovery after 30 s, less than its rollback may take.       *)
RecoveryCrash ==
  /\ ~Recovering("idle")
  /\ crashes < MaxCrashes
  /\ crashes' = crashes + 1
  /\ lock' = NoJob
  /\ rec' = IdleRecovery
  /\ Orphan({s \in Slots : proc[s].owner = "recovery"})
  /\ UNCHANGED <<hostVars, file, boot, active, job, pc, flagVars, stale, doomed>>

(* A reboot keeps what is on the boot flash, that is active.json, and clears  *)
(* /run and /var; the device is enumerated anew.                              *)
Reboot ==
  /\ boot < MaxBoots
  /\ boot' = boot + 1
  /\ usb' = IF usb = "gone" THEN "gone" ELSE "other"
  /\ mounts' = 0
  /\ claim' = NoJob
  /\ marker' = NoJob
  /\ aged' = FALSE
  /\ udop' = "idle"
  /\ file' = [j \in Jobs |-> NoFile]
  /\ proc' = [s \in Slots |-> IdleProc]
  /\ lock' = NoJob
  /\ job' = [j \in Jobs |-> "absent"]
  /\ pc' = [j \in Jobs |-> IF pc[j] \in Alive THEN "dead" ELSE pc[j]]
  /\ rec' = IdleRecovery
  /\ Forget(Jobs)
  /\ UNCHANGED <<active, crashes, doomed>>

TransactionKeeps == UNCHANGED <<boot, lock, active, job, pc, flagVars, rec, crashes>>

HostActs ==
  /\ UDStep \/ Attach
  /\ UNCHANGED <<adapterVars, stale, doomed>>
  /\ TransactionKeeps

DeviceLost ==
  /\ Detach
  /\ doomed' = doomed \cup {j \in Jobs : pc[j] \in WatchingDevice}
  /\ UNCHANGED <<adapterVars, stale>>
  /\ TransactionKeeps

(* shfs restarts under other process ids than any live worker has seen.       *)
ShfsRestarts ==
  /\ stale' = {j \in Jobs : pc[j] \in Alive}
  /\ doomed' = doomed \cup {j \in Jobs : pc[j] \in WatchingShfs}
  /\ UNCHANGED <<hostVars, adapterVars>>
  /\ TransactionKeeps

AdapterActs(s) ==
  /\ AdapterStep(s)
  /\ UNCHANGED <<stale, doomed>>
  /\ TransactionKeeps

-----------------------------------------------------------------------------
Next ==
  \/ \E j \in Jobs : WorkerStep(j) \/ Crash(j)
  \/ \E s \in Slots : AdapterActs(s)
  \/ RStart \/ RecoveryStep \/ RecoveryCrash
  \/ Reboot \/ HostActs \/ DeviceLost \/ ShfsRestarts

Spec == Init /\ [][Next]_vars

(* A process that runs goes on: every worker step past the start has a        *)
(* failing alternative, every adapter wait a timeout.  Nobody has to start a  *)
(* worker or a recovery, and nothing of the host has to happen.               *)
WorkerRuns(j) == ~At(j, "new") /\ WorkerStep(j)

FairSpec ==
  /\ Spec
  /\ \A j \in Jobs : WF_vars(WorkerRuns(j))
  /\ \A s \in Slots : WF_vars(AdapterActs(s))
  /\ WF_vars(RecoveryStep)

-----------------------------------------------------------------------------
(* Properties.                                                                *)

(* A job file says safe_to_unplug only when everything the approval promises  *)
(* is true and stays true: the job unmounted, finalized and removed its own   *)
(* target, and it left neither an adapter state file nor a root marker that   *)
(* would block UD (eject.go, the terminal stage).                             *)
ApprovalEarned ==
  \A j \in Jobs : job[j] = "safe" =>
    /\ j \in unmounted \cap finalized \cap removed
    /\ usb # "target"
    /\ file[j] = NoFile
    /\ marker # j

(* A job whose shfs restarted, or whose device went or was replaced, at any   *)
(* moment of the window the worker has to watch never ends in an approval,    *)
(* however the moment falls between two checks (eject.go, shfs and identity   *)
(* stages).                                                                   *)
DoomedNeverSafe == \A j \in doomed : job[j] # "safe"

(* While the worker is at its unmount, from the end of Quiesce to the call of *)
(* Finalize, the root marker is its own and no UD process has got past the    *)
(* marker: UD and the worker never work on the mounts together (eject.go,     *)
(* strict_unmount; ud_adapter.php, adapter_wait_for_barrier).                 *)
UnmountUnderBarrier ==
  \A j \in Jobs :
    pc[j] \in {"strict_unmount", "unmount", "ud_finalize"} =>
      marker = j /\ udop # "committed"

(* A barrier somebody still has to release is always known to the recovery:   *)
(* a root marker or an adapter state file outlives no active.json, whichever  *)
(* of the calls that raise and release it failed or was killed (eject.go,     *)
(* fail; recover.go).                                                         *)
BarrierHasOwner ==
  /\ \A j \in Jobs : marker = j \/ file[j] # NoFile => active[j] # 0
  /\ marker = Unsigned => \E j \in Jobs : active[j] # 0 /\ file[j] # NoFile

(* The recovery and a worker never work on a transaction, or on the adapter,  *)
(* at the same time, and the adapter has one caller at most (recover.go:      *)
(* "Recovery must not race it").                                              *)
OneHand ==
  /\ ~Recovering("idle") => \A j \in Jobs : pc[j] \notin Locked
  /\ \A s, t \in Slots :
       {proc[s].owner, proc[t].owner} \subseteq {"worker", "recovery"} => s = t

(* The USB path is removed with the target on it only while nothing is        *)
(* mounted, whatever mounted in the window between Finalize and the exclusive *)
(* open (eject.go, usb_remove).                                               *)
RemovedUnmounted ==
  [][removed' # removed /\ usb = "target" => mounts = 0]_vars

(* No adapter process gives the marker of another job away.                   *)
ReleasesOwnMarkerOnly ==
  [][\A s \in Slots :
       proc[s].at = "unlink" /\ proc'[s].at = "release" =>
         marker \in {proc[s].job, NoJob}]_vars

(* A state file that says the barrier is being finalized, or is, says so      *)
(* until it is deleted: the boundary is never crossed backwards               *)
(* (ud_adapter.php, finalize; recover.go: "finalized state is never rolled    *)
(* back").                                                                    *)
FinalizedNeverRolledBack ==
  [][\A j \in Jobs : file[j].phase \in Irreversible =>
       file'[j].phase \in Irreversible \cup {"none"}]_vars

(* No rollback starts for a job past its ordinary unmount.                    *)
NoRollbackAfterUnmount ==
  [][\A s \in Slots :
       proc[s].at = "idle" /\ proc'[s].at = "r_read" =>
         proc'[s].job \notin unmounted]_vars

(* What the transaction promises, seen from outside: the abstract state is    *)
(* read off the concrete one.                                                 *)
Contract == INSTANCE EjectContract WITH
  present <- usb = "target",
  held <- {j \in Jobs : marker = j \/ file[j] # NoFile},
  verdict <- job

(* Every behaviour keeps the contract: no step, and no pair of processes one  *)
(* of which has outlived its caller, skips a milestone, approves early, or    *)
(* raises a barrier for a job that is past its removal (eject.go, Run).       *)
KeepsContract == Contract!Spec

(* Every worker comes to its end and every recovery gives the lock back: no   *)
(* failed, refused or killed call leaves the lock held (persist.go, Close).   *)
WorkerEnds == \A j \in Jobs : pc[j] = "journal" ~> pc[j] = "dead"
LockComesBack == lock # NoJob ~> lock = NoJob
=============================================================================
