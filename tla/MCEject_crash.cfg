\* A worker or a recovery dies anywhere; its adapter process lives on beside the next one.
SPECIFICATION Spec
CONSTANTS
  Jobs = {j1}
  NoJob = NoJob
  Unsigned = Unsigned
  MaxMounts = 1
  Slots = {s1, s2}
  Recoverer = Recoverer
  MaxBoots = 2
  MaxCrashes = 1
SYMMETRY Symmetry
INVARIANTS
  UnmountUnderBarrier
  OneHand
PROPERTIES
  KeepsContract
