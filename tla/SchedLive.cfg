SPECIFICATION FairSpec
CONSTANTS
  Lthread = {l1, l2}
  Cond = {c1}
  Fd = {f1}
  Ev = {"READ"}
  Api = {"create", "sleep", "yield", "cond", "join", "cancel", "fd"}
  Unguarded = {}
  NoLt = NoLt
  NoCond = NoCond
  NoFd = NoFd
PROPERTIES ReadyRuns TimersFire FdServedWhenPolled
