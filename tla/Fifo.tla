-------------------------------- MODULE Fifo --------------------------------
(***************************************************************************)
(* queue_t of fifo.c, the circular buffer of a buffered channel.           *)
(***************************************************************************)
EXTENDS Naturals, Sequences

CONSTANTS Capacity,   \* queue->capacity
          Val         \* the pointers stored

(* chan_init creates no queue when it is asked for a capacity of 0.        *)
ASSUME CapacityAssumption == Capacity \in Nat \ {0}

VARIABLES size, next, \* queue->size, queue->next
          data,       \* queue->data, indexed from 0 as in C
          ret         \* what the last call returned

vars == <<size, next, data, ret>>

Slot == 0..(Capacity - 1)

(* queue_init: the slots come from malloc.  "garbage" is no value, so that *)
(* reading a slot that was never written shows.                            *)
Init ==
  /\ size = 0 /\ next = 0
  /\ data = [i \in Slot |-> "garbage"]
  /\ ret = "NULL"

queue_at_capacity == size >= Capacity

(* Fault: off by one.                                                      *)
Wrap_Late(pos) == IF pos > Capacity THEN pos - Capacity ELSE pos

(* The wrap-around test both ends share.                                   *)
Wrap(pos) == IF pos >= Capacity THEN pos - Capacity ELSE pos

queue_add(v) ==
  \/ /\ queue_at_capacity
     /\ ret' = "ENOBUFS"
     /\ UNCHANGED <<size, next, data>>
  \/ /\ ~queue_at_capacity
     /\ data' = [data EXCEPT ![Wrap(next + size)] = v]
     /\ size' = size + 1
     /\ ret' = "ok"
     /\ UNCHANGED next

(* Fault: the head is returned and the tail dropped.                       *)
queue_remove_DropsTail ==
  \/ size > 0 /\ ret' = data[next] /\ size' = size - 1 /\ UNCHANGED <<next, data>>
  \/ size = 0 /\ ret' = "NULL" /\ UNCHANGED <<size, next, data>>

queue_remove ==
  \/ /\ size > 0
     /\ ret' = data[next]
     /\ next' = Wrap(next + 1)
     /\ size' = size - 1
     /\ UNCHANGED data
  \/ size = 0 /\ ret' = "NULL" /\ UNCHANGED <<size, next, data>>

queue_peek ==
  /\ ret' = IF size # 0 THEN data[next] ELSE "NULL"
  /\ UNCHANGED <<size, next, data>>

Next == (\E v \in Val : queue_add(v)) \/ queue_remove \/ queue_peek

Spec == Init /\ [][Next]_vars

-----------------------------------------------------------------------------
TypeOK ==
  /\ size \in 0..Capacity
  /\ next \in Slot
  /\ data \in [Slot -> Val \cup {"garbage"}]
  /\ ret \in Val \cup {"NULL", "ok", "ENOBUFS"}

(* The slots in use, from next on around the end, hold values.             *)
InUse == \A i \in 0..(size - 1) : data[Wrap(next + i)] \in Val

(* The queue as fifo.h describes it.                                       *)
Items == [i \in 1..size |-> data[Wrap(next + (i - 1))]]

Abs == INSTANCE BoundedFifo WITH q <- Items

(* The circular buffer is a bounded FIFO queue: values come out in the     *)
(* order they went in, none is overwritten or lost where the indices wrap, *)
(* and a full and an empty queue are told apart.                           *)
IsBoundedFifo == Abs!Spec
=============================================================================
