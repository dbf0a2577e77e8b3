------------------------------ MODULE UDAdapter ------------------------------
(***************************************************************************)
(* scripts/ud_adapter.php: the short-lived processes that raise and release *)
(* the root operation barrier of one job.  Quiesce writes a state file in    *)
(* /run/usb-guardian/ud-adapter, creates the marker exclusively and waits    *)
(* until UD is quiet; Finalize and Rollback release the marker again and     *)
(* delete the state file.  Every durable write is a step of its own, so a    *)
(* process may fail, or be killed by the caller's 45 s timeout, between any  *)
(* two; and a process outlives a caller that dies, because nothing ties the  *)
(* PHP child to the Go parent.                                               *)
(*                                                                           *)
(* At most Cardinality(Slots) adapter processes are alive at a time: the     *)
(* bound of the model, not of the code.                                      *)
(*                                                                           *)
(* An operator marked "Variant" is no part of the model: it is the one below *)
(* it with a plausible bug, and shows that a property notices.               *)
(***************************************************************************)
EXTENDS UsbHost

CONSTANTS Slots

VARIABLES
  file,        (* per job: its adapter state file                             *)
  proc         (* per slot: an adapter process                                *)

adapterVars == <<file, proc>>

(* Variant: a barrier being finalized may be rolled back.                    *)
ReversibleFinalizing == {"prepared", "acquiring", "acquired", "quiesced",
                         "rollback_failed", "rolled_back", "finalizing"}

Reversible == {"prepared", "acquiring", "acquired", "quiesced",
               "rollback_failed", "rolled_back"}
Irreversible == {"finalizing", "finalized"}
Phases == Reversible \cup Irreversible

(* The fields of the state file some code reads back: phase, identity,        *)
(* marker_acquired and marker_release_started.  "none" stands for a file that *)
(* is not there.                                                              *)
FileStates == [phase : Phases \cup {"none"}, dev : UsbStates,
               acq : BOOLEAN, rel : BOOLEAN]
NoFile == [phase |-> "none", dev |-> "gone", acq |-> FALSE, rel |-> FALSE]

QuiesceAt == {"q_inspect", "q_announce", "q_create", "q_sign", "q_record",
              "q_acquired", "q_barrier", "q_done"}
FinalizeAt == {"f_read", "f_barrier", "f_commit"}
RollbackAt == {"r_read", "r_barrier", "r_mark"}
ReleaseAt == {"guard", "unlink", "release", "delete"}
Running == QuiesceAt \cup FinalizeAt \cup RollbackAt \cup ReleaseAt
Ended == {"ok", "refused", "killed"}

(* "final" tells a finalize from a rollback inside the shared release steps;  *)
(* "mem" is the $state array of the process, "snap" its mount_snapshot.       *)
Procs == [at : Running \cup Ended \cup {"idle"},
          job : Jobs \cup {NoJob},
          owner : {"worker", "recovery", "orphan", "none"},
          final : BOOLEAN,
          mem : FileStates,
          snap : 0 .. MaxMounts]
IdleProc == [at |-> "idle", job |-> NoJob, owner |-> "none", final |-> FALSE,
             mem |-> NoFile, snap |-> 0]

AdapterTypeOK ==
  /\ file \in [Jobs -> FileStates]
  /\ proc \in [Slots -> Procs]

AdapterInit ==
  /\ file = [j \in Jobs |-> NoFile]
  /\ proc = [s \in Slots |-> IdleProc]

-----------------------------------------------------------------------------
(* Variant: any marker will do.                                              *)
FindsMarker(j) == marker # NoJob /\ ~aged

(* adapter_barrier_sample: the identity of the state file is the live one,    *)
(* the marker is owned and not too old, there is no UD process, and the mount *)
(* state is what the mode asks for.                                           *)
OwnsMarker(j) == marker = j /\ ~aged

Sample(s, mode) ==
  /\ usb = proc[s].mem.dev
  /\ OwnsMarker(proc[s].job)
  /\ udop = "idle"
  /\ CASE mode = "exact" -> mounts = proc[s].snap
       [] mode = "unmounted" -> mounts = 0
       [] mode = "current" -> TRUE

(* adapter_inspect_device without an owned marker: UD lists the disk and no    *)
(* marker says that an operation is under way.  It looks at no process.       *)
InspectOK ==
  /\ usb # "gone"
  /\ marker = NoJob

(* A step of the process in slot s, and the state file it writes on the way.  *)
Goto(s, from, to) ==
  /\ proc[s].at = from
  /\ proc' = [proc EXCEPT ![s] = [@ EXCEPT !.at = to]]

Write(s, from, to, state) ==
  /\ proc[s].at = from
  /\ proc' = [proc EXCEPT ![s] = [@ EXCEPT !.at = to, !.mem = state]]
  /\ file' = [file EXCEPT ![proc[s].job] = state]

WithPhase(s, p) == [proc[s].mem EXCEPT !.phase = p]

-----------------------------------------------------------------------------
(* The coordinator starts the adapter in a free slot.                         *)
Spawn(s, op, j, who) ==
  /\ proc[s].at = "idle"
  /\ proc' = [proc EXCEPT ![s] = [IdleProc EXCEPT !.at = op, !.job = j, !.owner = who]]

(* The caller has read the answer, or never will.                             *)
Collect(s) == proc' = [proc EXCEPT ![s] = IdleProc]

(* adapter_quiesce, step by step.                                             *)
QInspect(s) ==
  /\ proc[s].at = "q_inspect"
  /\ file[proc[s].job] = NoFile
  /\ InspectOK
  /\ LET state == [NoFile EXCEPT !.phase = "prepared", !.dev = usb]
     IN  /\ proc' = [proc EXCEPT ![s] =
                       [@ EXCEPT !.at = "q_announce", !.mem = state, !.snap = mounts]]
         /\ file' = [file EXCEPT ![proc[s].job] = state]
  /\ UNCHANGED hostVars

(* Phase acquiring_ud_markers, then marker_create_started, which nothing      *)
(* reads: one write stands for both.                                          *)
QAnnounce(s) ==
  /\ Write(s, "q_announce", "q_create", WithPhase(s, "acquiring"))
  /\ UNCHANGED hostVars

(* fopen(marker, 'x'): created only if it is not there, and empty.            *)
QCreate(s) ==
  /\ marker = NoJob
  /\ Goto(s, "q_create", "q_sign")
  /\ marker' = Unsigned
  /\ aged' = FALSE
  /\ UNCHANGED <<usb, mounts, claim, udop, file>>

(* The token is written through the handle, to a file that may be unlinked.   *)
QSign(s) ==
  /\ Goto(s, "q_sign", "q_record")
  /\ marker' = IF marker = Unsigned THEN proc[s].job ELSE marker
  /\ UNCHANGED <<usb, mounts, claim, aged, udop, file>>

QRecord(s) ==
  /\ Write(s, "q_record", "q_acquired", [proc[s].mem EXCEPT !.acq = TRUE])
  /\ UNCHANGED hostVars

QAcquired(s) ==
  /\ Write(s, "q_acquired", "q_barrier", WithPhase(s, "acquired"))
  /\ UNCHANGED hostVars

(* Variant: the marker is raised, UD is not waited for.                      *)
QBarrierUnwatched(s) ==
  /\ Goto(s, "q_barrier", "q_done")
  /\ UNCHANGED <<hostVars, file>>

(* adapter_wait_for_barrier: the last of its samples is the one that counts.  *)
QBarrier(s) ==
  /\ Sample(s, "exact")
  /\ Goto(s, "q_barrier", "q_done")
  /\ UNCHANGED <<hostVars, file>>

QDone(s) ==
  /\ Write(s, "q_done", "ok", WithPhase(s, "quiesced"))
  /\ UNCHANGED hostVars

(* The $state arrays a failing quiesce step can hold: a failed write has its  *)
(* assignments in memory already; a failed side-effect log has not.           *)
Held(s) ==
  CASE proc[s].at = "q_announce" -> {WithPhase(s, "acquiring")}
    [] proc[s].at = "q_record" -> {[proc[s].mem EXCEPT !.acq = TRUE]}
    [] proc[s].at = "q_acquired" -> {proc[s].mem, WithPhase(s, "acquired")}
    [] proc[s].at = "q_done" -> {WithPhase(s, "quiesced")}
    [] OTHER -> {proc[s].mem}

(* A quiesce step fails.  Once the state file exists its catch block writes   *)
(* last_error with whatever $state holds, and that write may fail too.  The   *)
(* answer carries the phase then found on disk (adapter_failure_phase).  A    *)
(* token that is not written in full is unlinked with its marker.             *)
QRefuse(s) ==
  /\ proc[s].at \in QuiesceAt
  /\ \E state \in {file[proc[s].job]}
                    \cup (IF proc[s].at = "q_inspect" THEN {} ELSE Held(s)) :
       /\ file' = [file EXCEPT ![proc[s].job] = state]
       /\ proc' = [proc EXCEPT ![s] = [@ EXCEPT !.at = "refused", !.mem = state]]
  /\ IF proc[s].at = "q_sign"
       THEN marker' = NoJob /\ aged' = FALSE
       ELSE UNCHANGED <<marker, aged>>
  /\ UNCHANGED <<usb, mounts, claim, udop>>

-----------------------------------------------------------------------------
(* adapter_finalize.                                                          *)
FRead(s) ==
  /\ proc[s].at = "f_read"
  /\ file[proc[s].job].phase = "quiesced"
  /\ proc' = [proc EXCEPT ![s] =
                [@ EXCEPT !.at = "f_barrier", !.mem = file[proc[s].job]]]
  /\ UNCHANGED <<hostVars, file>>

FBarrier(s) ==
  /\ Sample(s, "unmounted")
  /\ Goto(s, "f_barrier", "f_commit")
  /\ UNCHANGED <<hostVars, file>>

FCommit(s) ==
  /\ proc[s].at = "f_commit"
  /\ LET state == WithPhase(s, "finalizing")
     IN  /\ proc' = [proc EXCEPT ![s] =
                       [@ EXCEPT !.at = "guard", !.mem = state, !.final = TRUE]]
         /\ file' = [file EXCEPT ![proc[s].job] = state]
  /\ UNCHANGED hostVars

(* adapter_rollback: with the marker there, it must be this job's; gone after *)
(* it was acquired and before a release, it was stolen and the state is kept; *)
(* otherwise there is nothing to release.                                     *)
RReadHeld(s) ==
  /\ proc[s].at = "r_read"
  /\ file[proc[s].job].phase \in Reversible
  /\ usb = file[proc[s].job].dev
  /\ OwnsMarker(proc[s].job)
  /\ proc' = [proc EXCEPT ![s] =
                [@ EXCEPT !.at = "r_barrier", !.mem = file[proc[s].job]]]
  /\ UNCHANGED <<hostVars, file>>

RReadFree(s) ==
  /\ proc[s].at = "r_read"
  /\ file[proc[s].job].phase \in Reversible
  /\ usb = file[proc[s].job].dev
  /\ InspectOK
  /\ udop = "idle"
  /\ file[proc[s].job].acq => file[proc[s].job].rel
  /\ LET state == [file[proc[s].job] EXCEPT !.phase = "rolled_back"]
     IN  /\ proc' = [proc EXCEPT ![s] = [@ EXCEPT !.at = "delete", !.mem = state]]
         /\ file' = [file EXCEPT ![proc[s].job] = state]
  /\ UNCHANGED hostVars

RBarrier(s) ==
  /\ Sample(s, "current")
  /\ Goto(s, "r_barrier", "r_mark")
  /\ UNCHANGED <<hostVars, file>>

RMark(s) ==
  /\ Write(s, "r_mark", "guard", WithPhase(s, "rollback_failed"))
  /\ UNCHANGED hostVars

-----------------------------------------------------------------------------
(* adapter_release_root_marker and adapter_delete_state, shared by both.      *)
Guard(s) ==
  /\ Sample(s, IF proc[s].final THEN "unmounted" ELSE "current")
  /\ Write(s, "guard", "unlink", [proc[s].mem EXCEPT !.rel = TRUE])
  /\ UNCHANGED hostVars

(* unlink() takes the path, whoever's token the file holds by now.            *)
Unlink(s) ==
  /\ Goto(s, "unlink", "release")
  /\ marker' = NoJob
  /\ aged' = FALSE
  /\ UNCHANGED <<usb, mounts, claim, udop, file>>

Release(s) ==
  /\ Write(s, "release", "delete",
           [proc[s].mem EXCEPT !.acq = FALSE,
              !.phase = IF proc[s].final THEN "finalized" ELSE "rolled_back"])
  /\ UNCHANGED hostVars

(* Variant: the answer is good, the state file still there.                  *)
DeleteNothing(s) ==
  /\ Goto(s, "delete", "ok")
  /\ UNCHANGED <<hostVars, file>>

Delete(s) ==
  /\ Goto(s, "delete", "ok")
  /\ file' = [file EXCEPT ![proc[s].job] = NoFile]
  /\ UNCHANGED hostVars

(* A finalize or rollback step fails: the file stays as the last write left   *)
(* it, and the answer carries its phase.                                      *)
Refuse(s) ==
  /\ proc[s].at \in FinalizeAt \cup RollbackAt \cup ReleaseAt
  /\ proc' = [proc EXCEPT ![s] =
                [@ EXCEPT !.at = "refused", !.mem = file[proc[s].job]]]
  /\ UNCHANGED <<hostVars, file>>

(* exec.CommandContext kills the child when the caller's 45 s are over, be it *)
(* on its way to an answer.                                                   *)
Timeout(s) ==
  /\ proc[s].at \in Running \cup {"ok", "refused"}
  /\ proc[s].owner \in {"worker", "recovery"}
  /\ proc' = [proc EXCEPT ![s] = [@ EXCEPT !.at = "killed"]]
  /\ UNCHANGED <<hostVars, file>>

(* Nobody reads the answer of an orphan.                                      *)
OrphanExits(s) ==
  /\ proc[s].owner = "orphan"
  /\ proc[s].at \in Ended
  /\ Collect(s)
  /\ UNCHANGED <<hostVars, file>>

QuiesceStep(s) ==
  \/ QInspect(s) \/ QAnnounce(s) \/ QCreate(s) \/ QSign(s)
  \/ QRecord(s) \/ QAcquired(s) \/ QBarrier(s) \/ QDone(s) \/ QRefuse(s)
ReleaseStep(s) == Guard(s) \/ Unlink(s) \/ Release(s) \/ Delete(s)
FinalizeStep(s) == FRead(s) \/ FBarrier(s) \/ FCommit(s)
RollbackStep(s) == RReadHeld(s) \/ RReadFree(s) \/ RBarrier(s) \/ RMark(s)

AdapterStep(s) ==
  \/ QuiesceStep(s) \/ FinalizeStep(s) \/ RollbackStep(s) \/ ReleaseStep(s)
  \/ Refuse(s) \/ Timeout(s) \/ OrphanExits(s)
=============================================================================
