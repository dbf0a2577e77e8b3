------------------------------ MODULE MCApproval ------------------------------
(***************************************************************************)
(* SafeApproval for TLC, in three settings chosen by the first state.  A tab   *)
(* that is alone launches, polls and finishes jobs from the first one on.     *)
(* In the others the approval of generation 1 has just been shown, the device  *)
(* may be put back once, and a second job, launched elsewhere, may end safely:  *)
(* with two tabs that both show it, hidden as they like; and with one, and a   *)
(* second one that is opened, both visible.                                   *)
(* And ShfsWatch and Protection, which read the system as a job begins and    *)
(* goes on: they share no state with the page or each other, so a behaviour   *)
(* is one of a single part, chosen in its first state, and the run has the    *)
(* states of the three one beside the other, not their product.              *)
(***************************************************************************)
EXTENDS SafeApproval, ShfsWatch, Protection, TLC

VARIABLE part  (* alone, hiding, opened: the page; shfs; protection            *)
allVars == <<part, vars, watchVars, inspectionVars>>

ASSUME Servers # {} /\ ProtectionAssumption

Symmetry == Permutations(Tabs)

Alone ==
  /\ safe = NoSafe /\ published = 0
  /\ gen = 0 /\ job = [g \in Gens |-> "none"] /\ present = TRUE
  /\ \E u \in Tabs :
       page = [t \in Tabs |-> IF t = u THEN Closed ELSE [Closed EXCEPT !.gone = TRUE]]

Green ==
  [Closed EXCEPT !.open = TRUE, !.visible = TRUE, !.auth = 1, !.green = 1,
                 !.watch = Watchdog, !.expiry = Lease]
JustShown ==
  /\ safe = [gen |-> 1, age |-> 0] /\ published = 1
  /\ gen = 1 /\ job = [g \in Gens |-> IF g = 1 THEN "safe" ELSE "none"] /\ present = FALSE
  /\ \/ part = "hiding" /\ page = [t \in Tabs |-> Green]
     \/ part = "opened" /\ \E u \in Tabs : page = [t \in Tabs |-> IF t = u THEN Green ELSE Closed]

ApprovalInit ==
  /\ mail = [t \in Tabs |-> {}] /\ refused = [g \in Gens |-> 0]
  /\ \/ part = "alone" /\ Alone
     \/ JustShown

ApprovalNext ==
  \/ part = "alone" /\ Next
  \/ /\ Server \/ (\E t \in Tabs : Handles(t)) \/ Tick
     /\ present => present'
     /\ \/ part = "hiding"
        \/ part = "opened" /\ \A t \in Tabs : page'[t].open => page'[t].visible
     /\ \A g \in Gens : job'[g] \notin {"failed", "expired"}
     /\ \A t \in Tabs : page'[t].asked = 0 /\ page'[t].jobs = {}

NoWatch ==
  /\ proc = 0 /\ served = 0 /\ watch = "none" /\ look = "none" /\ conns = 0 /\ found = 0
  /\ left = 0 /\ expected = 0 /\ lost = 0 /\ calm = FALSE
NoInspection ==
  /\ configured = 0 /\ holders = 0 /\ mounts = 0 /\ section = 0 /\ rewriting = 0 /\ member = 0
  /\ next = "none" /\ inventory = 0 /\ lasting = 0 /\ unread = 0

PagesInit ==
  \/ ApprovalInit /\ NoWatch /\ NoInspection
  \/ part = "shfs" /\ WatchInit /\ Init /\ NoInspection
  \/ part = "protection" /\ InspectionInit /\ Init /\ NoWatch

PagesAct == ApprovalNext /\ UNCHANGED <<part, watchVars, inspectionVars>>
ShfsChanges == part = "shfs" /\ ShfsActs /\ UNCHANGED <<part, vars, inspectionVars>>
WorkerLooks == part = "shfs" /\ WatchActs /\ UNCHANGED <<part, vars, inspectionVars>>
UnraidChanges == part = "protection" /\ UnraidActs /\ UNCHANGED <<part, vars, watchVars>>
Inspects == part = "protection" /\ Inspection /\ UNCHANGED <<part, vars, watchVars>>

Approval ==
  /\ PagesInit
  /\ [][\/ PagesAct
        \/ ShfsChanges \/ WorkerLooks
        \/ UnraidChanges \/ Inspects]_allVars
===============================================================================
