SPECIFICATION Spec
CONSTANTS
  Lthread = {l1, l2, l3}
  Cond = {}
  Fd = {f1, f2}
  Ev = {"READ", "WRITE"}
  Api <- FdApi
  Unguarded = {}
  NoLt = NoLt
  NoCond = NoCond
  NoFd = NoFd
SYMMETRY Symmetry
INVARIANTS FdConsistent NoAbort
