\* Two jobs in turn under one lock, with the barrier handed from one to the other.
SPECIFICATION Undisturbed
CONSTANTS
  Jobs = {j1, j2}
  NoJob = NoJob
  Unsigned = Unsigned
  MaxMounts = 1
  Slots = {s1}
  Recoverer = Recoverer
  MaxBoots = 1
  MaxCrashes = 0
SYMMETRY Symmetry
INVARIANTS
  BarrierHasOwner
  OneHand
PROPERTIES
  ReleasesOwnMarkerOnly
