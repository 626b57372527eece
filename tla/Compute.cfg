SPECIFICATION FairSpec
CONSTANTS
  sched1 = sched1
  sched2 = sched2
  a1 = a1
  a2 = a2
  b1 = b1
  Populations <- MCPopulations
  Lthread = {a1, a2, b1}
  Sched = {sched1, sched2}
  SchedOf <- MCSchedOf
  NoLt = NoLt
  MaxSched = 2
  CancelComputing = FALSE
INVARIANTS TypeOK OneStackUser FreedIsUnused
PROPERTIES IsIoService ComputeCompletes
