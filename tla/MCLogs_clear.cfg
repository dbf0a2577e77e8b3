\* clear_logs looks for active.json before it has the lock.
SPECIFICATION LogBehaviour
CONSTANTS
  Jobs = {j1}
  Nobody = Nobody
  Maintainer = Maintainer
  Recoverer = Recoverer
  Clearer = Clearer
  Logs = {api}
  LogKeep = 1
  PerFile = 1
  FlatAt = 2
  MaxTotal = 3
  Retention = 1
  MaxSize = 1
  MaxTime = 0
  States = {w1}
  Snapshots = {}
  None = None
  Points <- MCPoints
  LogDir <- MCLogDir
  MaxMounts = 0
PROPERTIES
  ClearSparesEvidence
