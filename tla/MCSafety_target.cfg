\* Disks come and go under the same names and on the same paths; two processes, one of
\* them a FUSE daemon, come to use the target: all free to change between any two reads.
SPECIFICATION Safety
CONSTANTS
  Names = {sda, sdb}
  Paths = {p1, p2}
  DevNums = {1, 2}
  MaxSeq = 3
  Pids = {p, d}
  Daemons = {d}
  Slots = {s1}
  None = None
SYMMETRY Symmetry
INVARIANTS
  Genuine
  HandleIsTarget
  NoSiblingOverlooked
  SettledIsGone
  SteadyStops
  NoFilesystemLeft
\* The worker may have refused and every process be gone.
CHECK_DEADLOCK FALSE
