---------------------------- MODULE BoundedFifo ----------------------------
(***************************************************************************)
(* What fifo.h promises of a queue_t: a FIFO queue of at most Capacity     *)
(* items, whose calls report success, a full queue or an empty one.        *)
(***************************************************************************)
EXTENDS Naturals, Sequences

CONSTANTS Capacity, Val

VARIABLES q,    \* the items, head first
          ret   \* what the last call returned

Add(v)      == Len(q) < Capacity /\ q' = Append(q, v) /\ ret' = "ok"
AddFull     == Len(q) = Capacity /\ ret' = "ENOBUFS" /\ UNCHANGED q
Remove      == q # <<>> /\ q' = Tail(q) /\ ret' = Head(q)
Peek        == q # <<>> /\ ret' = Head(q) /\ UNCHANGED q
Empty       == q = <<>> /\ ret' = "NULL" /\ UNCHANGED q

Init == q = <<>> /\ ret = "NULL"
Next == (\E v \in Val : Add(v)) \/ AddFull \/ Remove \/ Peek \/ Empty
Spec == Init /\ [][Next]_<<q, ret>>
=============================================================================
