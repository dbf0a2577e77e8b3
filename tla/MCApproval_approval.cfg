\* One or two tabs of the page, at any moment hidden, shown, closed or opened; and two shfs
\* processes, and all protections, free to change between any two reads.
SPECIFICATION Approval
CONSTANTS
  Tabs = {t1, t2}
  MaxGen = 2
  Lease = 4
  Watchdog = 2
  Timeout = 1
  Late = 2
  Servers = {f1, f2}
  UD = {"/mnt/disks/a"}
  Else = {"/mnt/cache"}
  MaxMounts = 2
SYMMETRY Symmetry
INVARIANTS
  ApprovalIsRecent
  NoneLost
  NoFalseAlarm
  ProtectedIsRefused
\* An inspection may have refused and every shfs be gone.
CHECK_DEADLOCK FALSE
