SPECIFICATION LibrarySpec
CONSTANTS
  Capacity = 4
  Val = {v1, v2, "NULL"}
  TailHead = {t1, t2}
  ListHead = {h1, h2}
  Elem = {e1, e2, e3, e4}
  PoolN = 2
  MaxObj = 6
  Locker = {l1, l2, l3}
  MaxDepth = 2
  KFd = {f1, f2, f3}
  LT_MAX_EVENTS = 2
  KUnguarded = {}
  Sleeper = {l1, l2, l3}
  K = 3
  Msecs = {1, 4}
  MaxNow = 26
  DefaultTimeout = 9
  MaxStream = 3
  MaxRoom = 2
  MaxOps = 3
  Length = {1, 3}
  Iovs <- SmallIovs
  Conn = {c1, c2}
  MaxFd = 3
  MaxLen = 3
INVARIANTS
  AllTyped ListsSound MutualExclusion NobodyWaitsForAFreeLock WaitsAccountedFor NoKqueueAbort
  TimersSound CallsReportTruth ConnectionsSound ContainersSound LookupSound
PROPERTIES IsBoundedFifo
CHECK_DEADLOCK FALSE
