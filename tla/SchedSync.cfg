SPECIFICATION Spec
CONSTANTS
  Lthread = {l1, l2, l3}
  Cond = {c1}
  Fd = {}
  Ev = {}
  Api <- SyncApi
  Unguarded = {}
  NoLt = NoLt
  NoCond = NoCond
  NoFd = NoFd
SYMMETRY Symmetry
INVARIANTS TypeOK OnePlace NoLostLthread NoDangling CondWaitResult JoinResult RunsUntilAllReturn
PROPERTIES FreedWhenGone
