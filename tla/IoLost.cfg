SPECIFICATION FairSpec
CONSTANTS
  sched1 = sched1
  sched2 = sched2
  b1 = b1
  Lthread = {a1, a2}
  Sched = {sched1}
  SchedOf <- MCSchedOf
  NoLt = NoLt
  IO_WORKERS = 2
PROPERTY IoCompletes
