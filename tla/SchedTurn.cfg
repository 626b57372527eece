SPECIFICATION Spec
CONSTANTS
  Lthread = {l1, l2}
  Cond = {}
  Fd = {f1}
  Ev = {"READ", "WRITE"}
  Api = {"create", "fd"}
  Unguarded = {"batch"}
  NoLt = NoLt
  NoCond = NoCond
  NoFd = NoFd
INVARIANT NoAbort
