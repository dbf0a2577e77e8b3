SPECIFICATION Quiet
CONSTANTS
  Jobs = {j1,j2}
  NoJob = NoJob
  Unsigned = Unsigned
  MaxMounts = 0
  Slots = {s1, s2}
  Recoverer = Recoverer
  MaxBoots = 1
  MaxCrashes = 1
SYMMETRY Symmetry
PROPERTIES
  ReleasesOwnMarkerOnly
