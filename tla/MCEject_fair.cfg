\* Termination, one death included.
SPECIFICATION FairSpec
CONSTANTS
  Jobs = {j1}
  NoJob = NoJob
  Unsigned = Unsigned
  MaxMounts = 1
  Slots = {s1}
  Recoverer = Recoverer
  MaxBoots = 1
  MaxCrashes = 1
PROPERTIES
  WorkerEnds
  LockComesBack
