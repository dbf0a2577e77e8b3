\* One job against everything the host may do, without dying processes.
SPECIFICATION Spec
CONSTANTS
  Jobs = {j1}
  NoJob = NoJob
  Unsigned = Unsigned
  MaxMounts = 2
  Slots = {s1}
  Recoverer = Recoverer
  MaxBoots = 2
  MaxCrashes = 0
INVARIANTS
  TypeOK
  ApprovalEarned
  DoomedNeverSafe
  UnmountUnderBarrier
PROPERTIES
  RemovedUnmounted
  FinalizedNeverRolledBack
