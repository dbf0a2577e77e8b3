\* Workers, list, recovery and the page change one store, dying at will; two writers of
\* one file and a snapshot of a new directory, and the power may fail at each step; all mount
\* tables that three mounts and any unmounts can make.
SPECIFICATION LogBehaviour
CONSTANTS
  Jobs = {j1, j2, j3}
  Nobody = Nobody
  Maintainer = Maintainer
  Recoverer = Recoverer
  Clearer = Clearer
  Logs = {api}
  LogKeep = 2
  PerFile = 1
  FlatAt = 2
  MaxTotal = 3
  Retention = 1
  MaxSize = 1
  MaxTime = 2
  States = {w1, w2}
  Snapshots = {s}
  None = None
  Points <- MCPoints
  LogDir <- MCLogDir
  MaxMounts = 3
SYMMETRY Symmetry
INVARIANTS
  TypeOK
  StoreBounded
  OneWriter
  NeverTorn
  DoneIsKept
  NamedSnapshotsExist
  VerifiedIsFlash
  RefusedForCause
PROPERTIES
  EvidenceKept
  OldestFirst
