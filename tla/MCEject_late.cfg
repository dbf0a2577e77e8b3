SPECIFICATION Spec
CONSTANTS
  Jobs = {j1}
  NoJob = NoJob
  Unsigned = Unsigned
  MaxMounts = 1
  Slots = {s1, s2}
  Recoverer = Recoverer
  MaxBoots = 1
  MaxCrashes = 0
SYMMETRY Symmetry
PROPERTIES
  NoRollbackAfterUnmount
