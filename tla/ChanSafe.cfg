SPECIFICATION Spec
CONSTANTS
  buf = buf
  sync = sync
  Chan = {buf, sync}
  Lthread = {a, b, c}
  Capacity <- MCCapacity
  SelectArgs <- MCSelectArgs
  MaxVal = 4
INVARIANTS TypeOK QueuedWhileBlocked NobodyWaitsInVain EachValueOnce
PROPERTIES IsChanService
CHECK_DEADLOCK FALSE
SYMMETRY Symmetry
