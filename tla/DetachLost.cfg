SPECIFICATION Spec
CONSTANTS
  Lthread = {l1, l2}
  Cond = {}
  Fd = {}
  Ev = {}
  Api = {"create", "detach2"}
  Unguarded = {}
  NoLt = NoLt
  NoCond = NoCond
  NoFd = NoFd
PROPERTY DetachSticks
