------------------------------- MODULE MCEject -------------------------------
(***************************************************************************)
(* EjectTransaction for TLC.                                                *)
(***************************************************************************)
EXTENDS EjectTransaction, TLC

(* Which job or which free slot is which does not matter to any property.     *)
Symmetry == Permutations(Jobs) \cup Permutations(Slots)

(* Behaviours of Spec in which the host does nothing of its own.              *)
QuietNext ==
  \/ \E j \in Jobs : WorkerStep(j) \/ Crash(j)
  \/ \E s \in Slots : AdapterActs(s)
  \/ RStart \/ RecoveryStep \/ RecoveryCrash
Quiet == Init /\ [][QuietNext]_vars

(* Behaviours of Spec in which UD, the administrator and the clock act too,   *)
(* but only a worker takes the device away, and shfs stays up: two jobs on    *)
(* such a host show what jobs do to each other, and the runs with one job     *)
(* show what becomes of it on the others.                                     *)
Undisturbed == Init /\ [][QuietNext \/ HostActs]_vars
=============================================================================
