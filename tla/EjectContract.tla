---------------------------- MODULE EjectContract ----------------------------
(***************************************************************************)
(* What a safe eject promises, with nothing of how it is done.  A job passes *)
(* three milestones in order, it is approved only behind the last of them    *)
(* with the device gone and the barrier down, and an approval can only be    *)
(* withdrawn: the device does not come back under its old identity, and no   *)
(* barrier is raised for an approved job.  EjectTransaction implements this. *)
(***************************************************************************)
CONSTANTS Jobs

VARIABLES
  present,     (* the device the token names is still attached                *)
  held,        (* jobs that left a trace UD or a later quiesce would stop at  *)
  unmounted,   (* jobs past their ordinary unmount,                           *)
  finalized,   (* past the release of their barrier,                          *)
  removed,     (* past the removal of their USB path                          *)
  verdict      (* what the job file says                                      *)

milestones == <<unmounted, finalized, removed>>
vars == <<present, held, milestones, verdict>>

Init ==
  /\ present = TRUE
  /\ held = {}
  /\ unmounted = {} /\ finalized = {} /\ removed = {}
  /\ verdict = [j \in Jobs |-> "absent"]

Say(j, v) == verdict' = [verdict EXCEPT ![j] = v]

Begin(j) ==
  /\ verdict[j] = "absent"
  /\ Say(j, "running")
  /\ UNCHANGED <<present, held, milestones>>

(* A barrier is raised only for a job that may still release it; what others  *)
(* left may go in the same step.                                              *)
Hold(j) ==
  /\ verdict[j] # "safe"
  /\ j \notin removed
  /\ held' \subseteq held \cup {j}
  /\ UNCHANGED <<present, milestones, verdict>>

LetGo ==
  /\ held' \subseteq held
  /\ UNCHANGED <<present, milestones, verdict>>

Unmount(j) ==
  /\ verdict[j] = "running"
  /\ unmounted' = unmounted \cup {j}
  /\ UNCHANGED <<present, held, finalized, removed, verdict>>

Finalize(j) ==
  /\ verdict[j] = "running"
  /\ j \in unmounted \ held
  /\ finalized' = finalized \cup {j}
  /\ UNCHANGED <<present, held, unmounted, removed, verdict>>

Remove(j) ==
  /\ verdict[j] = "running"
  /\ j \in finalized
  /\ removed' = removed \cup {j}
  /\ present' = FALSE
  /\ UNCHANGED <<held, unmounted, finalized, verdict>>

(* Nothing that happens around a job brings its device back.                  *)
Lose ==
  /\ present' = FALSE
  /\ UNCHANGED <<held, milestones, verdict>>

Approve(j) ==
  /\ verdict[j] = "running"
  /\ j \in removed /\ j \notin held /\ ~present
  /\ Say(j, "safe")
  /\ UNCHANGED <<present, held, milestones>>

Fail(j) ==
  /\ Say(j, "failed")
  /\ UNCHANGED <<present, held, milestones>>

(* A reboot keeps nothing of a job but where it came to.                      *)
Reboot ==
  /\ present' = FALSE
  /\ held' = {}
  /\ verdict' = [j \in Jobs |-> "absent"]
  /\ UNCHANGED milestones

Next ==
  \/ \E j \in Jobs : \/ Begin(j) \/ Hold(j) \/ Unmount(j) \/ Finalize(j)
                     \/ Remove(j) \/ Approve(j) \/ Fail(j)
  \/ LetGo \/ Lose \/ Reboot

Spec == Init /\ [][Next]_vars

(* An approved job came all the way, its device is gone and it holds no       *)
(* barrier: by the steps above, from its approval on.                         *)
Earned ==
  \A j \in Jobs : verdict[j] = "safe" =>
    /\ j \in unmounted \cap finalized \cap removed
    /\ ~present
    /\ j \notin held
=============================================================================
