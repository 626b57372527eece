SPECIFICATION Spec
CONSTANTS
  Lthread = {l1, l2}
  Cond = {}
  Fd = {f1, f2}
  Ev = {"READ"}
  Api = {"create", "fd", "close"}
  Unguarded = {"batch"}
  NoLt = NoLt
  NoCond = NoCond
  NoFd = NoFd
INVARIANT NoAbort
