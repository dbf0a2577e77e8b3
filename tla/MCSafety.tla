------------------------------- MODULE MCSafety -------------------------------
(***************************************************************************)
(* Which disk, and who uses it, for TLC: TargetIdentity (is it the disk the   *)
(* token names) and UsageScan (is any process still on it).  They share no    *)
(* state, so a behaviour is one of a single part of them, chosen in its first *)
(* state, and the variables of the other keep a value that means nothing: the *)
(* run has the states of the two one beside the other, and not their product. *)
(***************************************************************************)
EXTENDS TargetIdentity, UsageScan, TLC

VARIABLE part         (* identity or usage                                    *)
allVars == <<part, vars, usageVars>>

ASSUME ScanAssumption

Symmetry == Permutations(Names) \cup Permutations(Paths)

NoUsage ==
  /\ ns = 0 /\ link = 0 /\ mounted = 0 /\ user = 0 /\ stage = "none" /\ step = 0 /\ points = 0
  /\ pids = 0 /\ cur = 0 /\ curNs = 0 /\ fds = 0 /\ pardon = 0 /\ steady = 0

SafetyInit ==
  /\ Init
  /\ \/ part = "identity" /\ NoUsage
     \/ part = "usage" /\ UsageInit

DisksComeAndGo == part = "identity" /\ Next /\ UNCHANGED <<part, usageVars>>
HostChangesUsers == part = "usage" /\ HostActs /\ UNCHANGED <<part, vars>>
WorkerScans == part = "usage" /\ WorkerActs /\ UNCHANGED <<part, vars>>

Safety == SafetyInit /\ [][DisksComeAndGo \/ HostChangesUsers \/ WorkerScans]_allVars
=============================================================================
