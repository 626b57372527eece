SPECIFICATION FairSpec
CONSTANTS
  Lthread = {l1, l2}
  Cond = {}
  Fd = {f1}
  Ev = {"READ"}
  Api = {"create", "yield", "fd"}
  Unguarded = {}
  NoLt = NoLt
  NoCond = NoCond
  NoFd = NoFd
PROPERTIES FdServed
