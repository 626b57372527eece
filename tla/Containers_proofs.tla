-------------------------- MODULE Containers_proofs --------------------------
(***************************************************************************)
(* Theorems about the containers: the circular buffer, the lists of        *)
(* queue.h and the object pool, for every capacity and any elements.       *)
(***************************************************************************)
EXTENDS Fifo, Queues, MemPool, TLAPS

-----------------------------------------------------------------------------
(* Sequences without repetition, and the set of their elements             *)

(* One element more at the end, as in the change list of kqueue.           *)
LEMMA SetAppend ==
  ASSUME NEW S, NEW q \in Seq(S), NEW w \in S, IsInjective(q), w \notin ToSet(q)
  PROVE  /\ Append(q, w) \in Seq(S) /\ Len(Append(q, w)) = Len(q) + 1
         /\ ToSet(Append(q, w)) = ToSet(q) \cup {w}
         /\ IsInjective(Append(q, w))
<1> DEFINE r == Append(q, w)
<1>1. /\ r \in Seq(S) /\ Len(r) = Len(q) + 1 /\ r[Len(q) + 1] = w
      /\ \A i \in 1..Len(q) : r[i] = q[i]
      /\ DOMAIN r = 1..Len(r) /\ DOMAIN q = 1..Len(q) /\ Len(q) \in Nat
  OBVIOUS
<1> HIDE DEF r
<1>2. \A i \in 1..Len(r) : i \in 1..Len(q) \/ i = Len(q) + 1
  BY <1>1
<1>3. ToSet(r) = ToSet(q) \cup {w}
  <2>1. ASSUME NEW x \in ToSet(r) PROVE x \in ToSet(q) \cup {w}
    BY <1>1, <1>2, <2>1 DEF ToSet
  <2>2. ASSUME NEW x \in ToSet(q) PROVE x \in ToSet(r)
    <3>1. PICK i \in 1..Len(q) : x = q[i]
      BY <1>1, <2>2 DEF ToSet
    <3>2. i \in 1..Len(r) /\ r[i] = x
      BY <1>1, <3>1
    <3> QED BY <1>1, <3>2 DEF ToSet
  <2>3. w \in ToSet(r)
    <3>1. Len(q) + 1 \in DOMAIN r
      BY <1>1
    <3> QED BY <1>1, <3>1 DEF ToSet
  <2> QED BY <2>1, <2>2, <2>3
<1>4. IsInjective(r)
  <2> SUFFICES ASSUME NEW i \in 1..Len(r), NEW j \in 1..Len(r), r[i] = r[j] PROVE i = j
    BY <1>1 DEF IsInjective
  <2>1. \A k \in 1..Len(q) : q[k] # w
    BY <1>1 DEF ToSet
  <2>2. \A k, m \in 1..Len(q) : q[k] = q[m] => k = m
    BY <1>1 DEF IsInjective
  <2> QED BY <1>1, <1>2, <2>1, <2>2
<1> QED BY <1>1, <1>3, <1>4 DEF r

(* Sequences of no element and of one.                                     *)
LEMMA SetSmall ==
  /\ ToSet(<<>>) = {} /\ IsInjective(<<>>)
  /\ \A w : ToSet(<<w>>) = {w} /\ IsInjective(<<w>>)
  BY DEF ToSet, IsInjective

(* The first element is taken away.                                        *)
LEMMA SetTail ==
  ASSUME NEW S, NEW q \in Seq(S), q # <<>>, IsInjective(q)
  PROVE  /\ Head(q) \in S /\ Tail(q) \in Seq(S) /\ IsInjective(Tail(q))
         /\ ToSet(q) = ToSet(Tail(q)) \cup {Head(q)} /\ Head(q) \notin ToSet(Tail(q))
<1> DEFINE r == Tail(q)
<1>1. /\ Len(q) \in Nat \ {0} /\ r \in Seq(S) /\ Len(r) = Len(q) - 1
      /\ \A i \in 1..Len(r) : r[i] = q[i + 1]
      /\ DOMAIN r = 1..Len(r) /\ DOMAIN q = 1..Len(q) /\ Head(q) = q[1] /\ q[1] \in S
  OBVIOUS
<1> HIDE DEF r
<1>2. \A k, m \in 1..Len(q) : q[k] = q[m] => k = m
  BY <1>1 DEF IsInjective
<1>3. IsInjective(r)
  <2> SUFFICES ASSUME NEW i \in 1..Len(r), NEW j \in 1..Len(r), r[i] = r[j] PROVE i = j
    BY <1>1 DEF IsInjective
  <2>1. i + 1 \in 1..Len(q) /\ j + 1 \in 1..Len(q) /\ q[i + 1] = q[j + 1]
    BY <1>1
  <2>2. i + 1 = j + 1
    BY <1>2, <2>1
  <2> QED BY <1>1, <2>2
<1>4. ASSUME NEW x \in ToSet(q) PROVE x \in ToSet(r) \cup {q[1]}
  <2>1. PICK i \in 1..Len(q) : x = q[i]
    BY <1>1, <1>4 DEF ToSet
  <2>2. CASE i # 1
    <3>1. i - 1 \in 1..Len(r) /\ r[i - 1] = q[(i - 1) + 1] /\ (i - 1) + 1 = i
      BY <1>1, <2>2
    <3> QED BY <1>1, <2>1, <3>1 DEF ToSet
  <2> QED BY <2>1, <2>2
<1>5. ASSUME NEW x \in ToSet(r) PROVE x \in ToSet(q) /\ x # q[1]
  <2>1. PICK i \in 1..Len(r) : x = r[i]
    BY <1>1, <1>5 DEF ToSet
  <2>2. i + 1 \in 1..Len(q) /\ x = q[i + 1] /\ 1 \in 1..Len(q) /\ i + 1 # 1
    BY <1>1, <2>1
  <2>3. x # q[1]
    BY <1>2, <2>2
  <2> QED BY <1>1, <2>2, <2>3 DEF ToSet
<1>6. q[1] \in ToSet(q)
  <2>1. 1 \in DOMAIN q
    BY <1>1
  <2> QED BY <2>1 DEF ToSet
<1> QED BY <1>1, <1>3, <1>4, <1>5, <1>6 DEF r

(* An element is put in front.                                             *)
LEMMA SetPush ==
  ASSUME NEW S, NEW q \in Seq(S), NEW o \in S, IsInjective(q), o \notin ToSet(q)
  PROVE  /\ <<o>> \o q \in Seq(S) /\ IsInjective(<<o>> \o q)
         /\ ToSet(<<o>> \o q) = ToSet(q) \cup {o}
<1> DEFINE r == <<o>> \o q
<1>1. /\ Len(q) \in Nat /\ r \in Seq(S) /\ Len(r) = Len(q) + 1 /\ r[1] = o
      /\ \A i \in 1..Len(q) : r[i + 1] = q[i]
      /\ DOMAIN r = 1..Len(r) /\ DOMAIN q = 1..Len(q)
  OBVIOUS
<1> HIDE DEF r
<1>2. /\ \A k, m \in 1..Len(q) : q[k] = q[m] => k = m
      /\ \A k \in 1..Len(q) : q[k] # o
  BY <1>1 DEF IsInjective, ToSet
<1>3. \A i \in 1..Len(r) : i = 1 \/ (i - 1 \in 1..Len(q) /\ r[i] = q[i - 1])
  <2> SUFFICES ASSUME NEW i \in 1..Len(r), i # 1 PROVE i - 1 \in 1..Len(q) /\ r[i] = q[i - 1]
    OBVIOUS
  <2>1. i - 1 \in 1..Len(q) /\ (i - 1) + 1 = i
    BY <1>1
  <2> QED BY <1>1, <2>1
<1>4. IsInjective(r)
  <2> SUFFICES ASSUME NEW i \in 1..Len(r), NEW j \in 1..Len(r), r[i] = r[j] PROVE i = j
    BY <1>1 DEF IsInjective
  <2>1. CASE i = 1 \/ j = 1
    BY <1>1, <1>2, <1>3, <2>1
  <2>2. CASE i # 1 /\ j # 1
    <3>1. i - 1 = j - 1
      BY <1>2, <1>3, <2>2
    <3> QED BY <3>1
  <2> QED BY <2>1, <2>2
<1>5. ToSet(r) = ToSet(q) \cup {o}
  <2>1. ASSUME NEW x \in ToSet(r) PROVE x \in ToSet(q) \cup {o}
    <3>1. PICK i \in 1..Len(r) : x = r[i]
      BY <1>1, <2>1 DEF ToSet
    <3>2. i = 1 \/ (i - 1 \in DOMAIN q /\ x = q[i - 1])
      BY <1>1, <1>3, <3>1
    <3> QED BY <1>1, <3>1, <3>2 DEF ToSet
  <2>2. ASSUME NEW x \in ToSet(q) PROVE x \in ToSet(r)
    <3>1. PICK i \in 1..Len(q) : x = q[i]
      BY <1>1, <2>2 DEF ToSet
    <3>2. i + 1 \in 1..Len(r) /\ r[i + 1] = x
      BY <1>1, <3>1
    <3> QED BY <1>1, <3>2 DEF ToSet
  <2>3. o \in ToSet(r)
    <3>1. 1 \in DOMAIN r
      BY <1>1
    <3> QED BY <1>1, <3>1 DEF ToSet
  <2> QED BY <2>1, <2>2, <2>3
<1> QED BY <1>1, <1>4, <1>5 DEF r

-----------------------------------------------------------------------------
(* The circular buffer implements a bounded FIFO queue                     *)

FifoInv == TypeOK /\ InUse

(* Wrapping maps the positions in use to different slots.                  *)
LEMMA WrapSlots ==
  ASSUME NEW n \in Slot, NEW i \in 0..(Capacity - 1), NEW j \in 0..(Capacity - 1)
  PROVE  /\ Wrap(n + i) \in Slot
         /\ Wrap(n + i) = Wrap(n + j) => i = j
         /\ i > 0 => Wrap(Wrap(n + 1) + (i - 1)) = Wrap(n + i)
  BY CapacityAssumption DEF Wrap, Slot

(* queue_init establishes the invariant.                                   *)
LEMMA FifoInit == Init => FifoInv
  BY CapacityAssumption DEF Init, FifoInv, TypeOK, InUse, Slot

(* queue_add below capacity leaves the values in use where they are and    *)
(* stores the new one behind them.                                         *)
LEMMA AddStep ==
  ASSUME FifoInv, NEW v \in Val, queue_add(v), ~queue_at_capacity
  PROVE  /\ FifoInv'
         /\ size' = size + 1
         /\ \A i \in 0..(size - 1) : data'[Wrap(next' + i)] = data[Wrap(next + i)]
         /\ data'[Wrap(next' + size)] = v
<1> USE CapacityAssumption
<1>1. /\ size \in 0..(Capacity - 1) /\ size' = size + 1 /\ next' = next /\ ret' = "ok"
      /\ data' = [data EXCEPT ![Wrap(next + size)] = v]
  BY DEF FifoInv, TypeOK, queue_add, queue_at_capacity
<1>2. next \in Slot /\ Wrap(next + size) \in Slot
  BY <1>1, WrapSlots DEF FifoInv, TypeOK, Slot
<1>3. data'[Wrap(next' + size)] = v
  BY <1>1, <1>2 DEF FifoInv, TypeOK
<1>4. ASSUME NEW i \in 0..(size - 1)
      PROVE  data'[Wrap(next' + i)] = data[Wrap(next + i)]
  <2>1. i \in 0..(Capacity - 1) /\ i # size
    BY <1>1
  <2>2. Wrap(next + i) \in Slot /\ Wrap(next + i) # Wrap(next + size)
    BY <1>1, <1>2, <2>1, WrapSlots
  <2> QED BY <1>1, <1>2, <2>2 DEF FifoInv, TypeOK
<1>5. TypeOK'
  BY <1>1, <1>2 DEF FifoInv, TypeOK
<1>6. InUse'
  <2> SUFFICES ASSUME NEW i \in 0..(size' - 1) PROVE data'[Wrap(next' + i)] \in Val
    BY DEF InUse
  <2>1. i = size \/ i \in 0..(size - 1)
    BY <1>1
  <2> QED BY <1>3, <1>4, <2>1 DEF FifoInv, InUse
<1> QED BY <1>1, <1>3, <1>4, <1>5, <1>6 DEF FifoInv

(* queue_remove gives out the value at next and shifts the others by one.  *)
LEMMA RemoveStep ==
  ASSUME FifoInv, queue_remove, size > 0
  PROVE  /\ FifoInv'
         /\ size' = size - 1 /\ ret' = data[next]
         /\ \A i \in 0..(size' - 1) : data'[Wrap(next' + i)] = data[Wrap(next + (i + 1))]
<1> USE CapacityAssumption
<1>1. /\ size \in 1..Capacity /\ size' = size - 1 /\ next' = Wrap(next + 1)
      /\ data' = data /\ ret' = data[next] /\ next \in Slot
  BY DEF FifoInv, TypeOK, queue_remove
<1>2. next' \in Slot
  BY <1>1 DEF Wrap, Slot
<1>3. ASSUME NEW i \in 0..(size' - 1)
      PROVE  /\ Wrap(next' + i) = Wrap(next + (i + 1))
             /\ i + 1 \in 0..(size - 1)
  <2>1. i + 1 \in 0..(Capacity - 1) /\ i + 1 > 0 /\ (i + 1) - 1 = i /\ i + 1 \in 0..(size - 1)
    BY <1>1
  <2>2. Wrap(Wrap(next + 1) + ((i + 1) - 1)) = Wrap(next + (i + 1))
    BY <1>1, <2>1, WrapSlots
  <2> QED BY <1>1, <2>1, <2>2
<1>4. data[next] \in Val
  <2>1. Wrap(next + 0) = next /\ 0 \in 0..(size - 1)
    BY <1>1 DEF Wrap, Slot
  <2> QED BY <2>1 DEF FifoInv, InUse
<1>5. TypeOK'
  BY <1>1, <1>2, <1>4 DEF FifoInv, TypeOK
<1>6. InUse'
  BY <1>1, <1>3 DEF FifoInv, InUse
<1> QED BY <1>1, <1>3, <1>5, <1>6 DEF FifoInv

(* A call that only reports: nothing but ret changes.                      *)
LEMMA ReportStep ==
  ASSUME FifoInv, UNCHANGED <<size, next, data>>, ret' \in Val \cup {"NULL", "ok", "ENOBUFS"}
  PROVE  FifoInv'
  BY DEF FifoInv, TypeOK, InUse

(* The value at next is the head of the abstract queue.                    *)
LEMMA HeadItem ==
  ASSUME FifoInv, size > 0
  PROVE  Items # <<>> /\ Head(Items) = data[next] /\ data[next] \in Val
<1>1. Wrap(next + 0) = next /\ 0 \in 0..(size - 1) /\ size \in Nat
  BY CapacityAssumption DEF Wrap, Slot, FifoInv, TypeOK
<1>2. data[next] \in Val
  BY <1>1 DEF FifoInv, InUse
<1>3. Items \in Seq(Val \cup {"garbage"}) /\ Len(Items) = size
  <2>1. \A i \in 1..size : data[Wrap(next + (i - 1))] \in Val \cup {"garbage"}
    BY <1>1 DEF FifoInv, InUse
  <2> QED BY <1>1, <2>1 DEF Items
<1>4. Head(Items) = Items[1]
  BY <1>3
<1>5. Items[1] = data[Wrap(next + 0)]
  BY <1>1 DEF Items
<1> QED BY <1>1, <1>2, <1>3, <1>4, <1>5

(* The slots in use, read from next on, are a sequence of values.          *)
LEMMA ItemsSeq ==
  ASSUME FifoInv
  PROVE  Items \in Seq(Val) /\ Len(Items) = size /\ size \in 0..Capacity
<1>1. size \in 0..Capacity /\ Capacity \in Nat
  BY CapacityAssumption DEF FifoInv, TypeOK
<1>2. \A i \in 1..size : data[Wrap(next + (i - 1))] \in Val
  <2> SUFFICES ASSUME NEW i \in 1..size PROVE data[Wrap(next + (i - 1))] \in Val
    OBVIOUS
  <2>1. i - 1 \in 0..(size - 1)
    BY <1>1
  <2> QED BY <2>1 DEF FifoInv, InUse
<1> QED BY <1>1, <1>2 DEF Items

(* Every call maps to a step of the bounded FIFO queue, or to none.        *)
LEMMA FifoStep ==
  ASSUME FifoInv, [Next]_vars
  PROVE  FifoInv' /\ [Abs!Next]_<<Items, ret>>
<1>1. ASSUME NEW v \in Val, queue_add(v) PROVE FifoInv' /\ [Abs!Next]_<<Items, ret>>
  <2>1. CASE queue_at_capacity
    <3>1. UNCHANGED <<size, next, data>> /\ ret' = "ENOBUFS" /\ size = Capacity
      BY <1>1, <2>1, CapacityAssumption DEF queue_add, queue_at_capacity, FifoInv, TypeOK
    <3>2. Items' = Items
      BY <3>1 DEF Items
    <3>3. Abs!AddFull
      BY <3>1, <3>2, ItemsSeq DEF Abs!AddFull
    <3> QED BY <3>1, <3>3, ReportStep DEF Abs!Next
  <2>2. CASE ~queue_at_capacity
    <3>1. /\ FifoInv' /\ size' = size + 1
          /\ \A i \in 0..(size - 1) : data'[Wrap(next' + i)] = data[Wrap(next + i)]
          /\ data'[Wrap(next' + size)] = v
      BY <1>1, <2>2, AddStep
    <3>2. size \in Nat /\ size < Capacity /\ ret' = "ok"
      BY <1>1, <2>2, CapacityAssumption DEF FifoInv, TypeOK, queue_add, queue_at_capacity
    <3>3. Items' \in Seq(Val) /\ Len(Items') = size + 1
      BY <3>1, ItemsSeq DEF Items, FifoInv, TypeOK, InUse
    <3>4. \A i \in 1..(size + 1) : Items'[i] = Append(Items, v)[i]
      <4> SUFFICES ASSUME NEW i \in 1..(size + 1) PROVE Items'[i] = Append(Items, v)[i]
        OBVIOUS
      <4>1. Items'[i] = data'[Wrap(next' + (i - 1))]
        BY <3>1 DEF Items
      <4>2. CASE i = size + 1
        BY <3>1, <3>2, <4>1, <4>2, ItemsSeq
      <4>3. CASE i \in 1..size
        <5>1. i - 1 \in 0..(size - 1)
          BY <3>2, <4>3
        <5>2. Items[i] = data[Wrap(next + (i - 1))]
          BY <4>3 DEF Items
        <5> QED BY <3>1, <4>1, <4>3, <5>1, <5>2, ItemsSeq
      <4>4. i = size + 1 \/ i \in 1..size
        BY <3>2
      <4> QED BY <4>2, <4>3, <4>4
    <3>5. Items' = Append(Items, v)
      BY <3>2, <3>3, <3>4, ItemsSeq
    <3>6. Abs!Add(v)
      BY <3>2, <3>5, ItemsSeq DEF Abs!Add
    <3> QED BY <3>1, <3>6 DEF Abs!Next
  <2> QED BY <2>1, <2>2
<1>2. ASSUME queue_remove PROVE FifoInv' /\ [Abs!Next]_<<Items, ret>>
  <2>1. CASE size = 0
    <3>1. UNCHANGED <<size, next, data>> /\ ret' = "NULL"
      BY <1>2, <2>1 DEF queue_remove
    <3>2. Items' = Items /\ Items = <<>>
      BY <2>1, <3>1, ItemsSeq DEF Items
    <3> QED BY <3>1, <3>2, ReportStep DEF Abs!Next, Abs!Empty
  <2>2. CASE size # 0
    <3>1. size > 0 /\ size \in Nat
      BY <2>2, ItemsSeq, CapacityAssumption
    <3>2. /\ FifoInv' /\ size' = size - 1 /\ ret' = data[next]
          /\ \A i \in 0..(size' - 1) : data'[Wrap(next' + i)] = data[Wrap(next + (i + 1))]
      BY <1>2, <3>1, RemoveStep
    <3>3. Items' \in Seq(Val) /\ Len(Items') = size - 1
      <4>1. \A i \in 1..size' : data'[Wrap(next' + (i - 1))] \in Val
        <5> SUFFICES ASSUME NEW i \in 1..size' PROVE data'[Wrap(next' + (i - 1))] \in Val
          OBVIOUS
        <5>1. i - 1 \in 0..(size' - 1)
          BY <3>1, <3>2
        <5> QED BY <3>2, <5>1 DEF FifoInv, InUse
      <4>2. size' \in Nat
        BY <3>1, <3>2
      <4> QED BY <3>2, <4>1, <4>2 DEF Items
    <3>4. \A i \in 1..(size - 1) : Items'[i] = Tail(Items)[i]
      <4> SUFFICES ASSUME NEW i \in 1..(size - 1) PROVE Items'[i] = Tail(Items)[i]
        OBVIOUS
      <4>1. Items'[i] = data'[Wrap(next' + (i - 1))]
        BY <3>2 DEF Items
      <4>2. i - 1 \in 0..(size' - 1) /\ (i - 1) + 1 = i /\ i + 1 \in 1..size /\ (i + 1) - 1 = i
        BY <3>1, <3>2
      <4>3. data'[Wrap(next' + (i - 1))] = data[Wrap(next + i)]
        BY <3>2, <4>2
      <4>4. Items[i + 1] = data[Wrap(next + i)]
        BY <4>2 DEF Items
      <4>5. Tail(Items)[i] = Items[i + 1]
        BY <3>1, <4>2, ItemsSeq
      <4> QED BY <4>1, <4>3, <4>4, <4>5
    <3>5. Items' = Tail(Items)
      BY <3>1, <3>3, <3>4, ItemsSeq
    <3>6. Abs!Remove
      BY <3>1, <3>2, <3>5, HeadItem DEF Abs!Remove
    <3> QED BY <3>2, <3>6 DEF Abs!Next
  <2> QED BY <2>1, <2>2
<1>3. ASSUME queue_peek PROVE FifoInv' /\ [Abs!Next]_<<Items, ret>>
  <2>1. UNCHANGED <<size, next, data>> /\ Items' = Items
    BY <1>3 DEF queue_peek, Items
  <2>2. CASE size = 0
    <3>1. ret' = "NULL" /\ Items = <<>>
      BY <1>3, <2>2, ItemsSeq DEF queue_peek
    <3> QED BY <2>1, <3>1, ReportStep DEF Abs!Next, Abs!Empty
  <2>3. CASE size # 0
    <3>1. size > 0
      BY <2>3, ItemsSeq, CapacityAssumption
    <3>2. ret' = data[next]
      BY <1>3, <2>3 DEF queue_peek
    <3>3. Abs!Peek
      BY <2>1, <3>1, <3>2, HeadItem DEF Abs!Peek
    <3> QED BY <2>1, <3>1, <3>2, <3>3, HeadItem, ReportStep DEF Abs!Next
  <2> QED BY <2>2, <2>3
<1>4. ASSUME UNCHANGED vars PROVE FifoInv' /\ [Abs!Next]_<<Items, ret>>
  BY <1>4 DEF vars, FifoInv, TypeOK, InUse, Items
<1> QED BY <1>1, <1>2, <1>3, <1>4 DEF Next

(* No slot is read that was not written, indices stay in bounds.           *)
THEOREM FifoInvariant == Spec => [](TypeOK /\ InUse)
<1>1. FifoInv /\ [Next]_vars => FifoInv'
  BY FifoStep
<1> QED BY FifoInit, <1>1, PTL DEF Spec, FifoInv

(* The circular buffer of fifo.c is the bounded FIFO queue fifo.h          *)
(* describes.                                                              *)
THEOREM FifoRefines == Spec => IsBoundedFifo
<1>1. Init => Abs!Init
  BY DEF Init, Abs!Init, Items
<1>2. FifoInv /\ [Next]_vars => FifoInv' /\ [Abs!Next]_<<Items, ret>>
  BY FifoStep
<1> QED BY FifoInit, <1>1, <1>2, PTL DEF Spec, IsBoundedFifo, Abs!Spec

-----------------------------------------------------------------------------
(* The object pool                                                         *)

PoolInv == PoolTypeOK /\ PoolSound

(* A round of k objects is the next k, each once.                          *)
LEMMA RoundIs ==
  ASSUME PoolInv, NEW k \in 0..PoolN, made + PoolN <= MaxObj
  PROVE  /\ Round(k) \in Seq(1..MaxObj) /\ IsInjective(Round(k))
         /\ ToSet(Round(k)) = (made + 1)..(made + k) /\ (k = PoolN => Round(k) # <<>>)
<1> DEFINE r == Round(k)
<1> USE PoolAssumption
<1>1. made \in 0..MaxObj /\ made + k <= MaxObj
  BY DEF PoolInv, PoolTypeOK
<1>2. /\ DOMAIN r = 1..k /\ r \in [1..k -> 1..MaxObj]
      /\ \A i \in 1..k : r[i] = made + k + 1 - i
  BY <1>1 DEF Round
<1>3. r \in Seq(1..MaxObj) /\ Len(r) = k
  BY <1>2
<1> HIDE DEF r
<1>4. IsInjective(r)
  BY <1>1, <1>2 DEF IsInjective
<1>5. ASSUME NEW x \in (made + 1)..(made + k) PROVE x \in ToSet(r)
  <2>1. made + k + 1 - x \in 1..k /\ made + k + 1 - (made + k + 1 - x) = x
    BY <1>1
  <2> QED BY <1>2, <2>1 DEF ToSet
<1>6. ASSUME NEW x \in ToSet(r) PROVE x \in (made + 1)..(made + k)
  BY <1>1, <1>2, <1>6 DEF ToSet
<1> QED BY <1>3, <1>4, <1>5, <1>6 DEF r

(* Allocating, with rounds that fail half-way, freeing and dropping the    *)
(* free objects keep every object in one place.                            *)
LEMMA PoolStep ==
  ASSUME PoolInv, [PoolNext]_pool_vars
  PROVE  PoolInv'
<1> USE PoolAssumption DEF PoolInv
<1>1. ASSUME chain # <<>>, in_use' = in_use \cup {Head(chain)}, chain' = Tail(chain),
             UNCHANGED <<freed, lost, made>>
      PROVE  PoolInv'
  <2>1. /\ Head(chain) \in 1..MaxObj /\ chain' \in Seq(1..MaxObj) /\ IsInjective(chain')
        /\ ToSet(chain) = ToSet(chain') \cup {Head(chain)} /\ Head(chain) \notin ToSet(chain')
    BY <1>1, SetTail DEF PoolTypeOK, PoolSound
  <2>2. PoolTypeOK'
    BY <1>1, <2>1 DEF PoolTypeOK
  <2>3. PoolSound'
    BY <1>1, <2>1 DEF PoolSound
  <2> QED BY <2>2, <2>3
<1>2. ASSUME chain = <<>>, made + PoolN <= MaxObj, NEW k \in 0..PoolN, NEW half \in BOOLEAN,
             mem_realloc_pool(k, half),
             \/ k < PoolN /\ UNCHANGED <<chain, in_use>>
             \/ /\ k = PoolN
                /\ chain' = Tail(Round(k)) /\ in_use' = in_use \cup {Head(Round(k))}
      PROVE  PoolInv'
  <2> DEFINE r == Round(k)
             top == made + k + 1
  <2>1. /\ r \in Seq(1..MaxObj) /\ IsInjective(r)
        /\ ToSet(r) = (made + 1)..(made + k) /\ (k = PoolN => r # <<>>)
    BY <1>2, RoundIs
  <2>2. /\ made \in 0..MaxObj /\ made + k \in 0..MaxObj
        /\ 1..(made + k) = 1..made \cup (made + 1)..(made + k)
        /\ 1..made \cap (made + 1)..(made + k) = {}
        /\ (made + 1)..(made + k) \subseteq 1..MaxObj
    BY <1>2 DEF PoolTypeOK
  <2>3. ToSet(chain) = {} /\ IsInjective(chain)
    BY <1>2, SetSmall
  <2>4. CASE half
    <3>1. /\ k < PoolN /\ UNCHANGED <<chain, in_use>> /\ freed' = freed \cup ToSet(r)
          /\ lost' = lost \cup {top} /\ made' = top
      BY <1>2, <2>4 DEF mem_realloc_pool
    <3>2. /\ top \in 1..MaxObj /\ 1..top = 1..(made + k) \cup {top}
          /\ top \notin 1..(made + k)
      BY <1>2, <2>2, <3>1
    <3> HIDE DEF r, top
    <3>3. PoolTypeOK'
      BY <2>1, <2>2, <3>1, <3>2 DEF PoolTypeOK
    <3>4. PoolSound'
      <4>1. in_use \cup freed \cup lost = 1..made /\ in_use \cap freed = {}
            /\ lost \cap (in_use \cup freed) = {}
        BY <2>3 DEF PoolSound
      <4> QED BY <2>1, <2>2, <2>3, <3>1, <3>2, <4>1 DEF PoolSound
    <3> QED BY <3>3, <3>4
  <2>5. CASE ~half /\ k < PoolN /\ UNCHANGED <<chain, in_use>>
    <3>1. freed' = freed \cup ToSet(r) /\ lost' = lost /\ made' = made + k
      BY <1>2, <2>2, <2>5 DEF mem_realloc_pool
    <3> HIDE DEF r
    <3>2. PoolTypeOK'
      BY <2>1, <2>2, <2>5, <3>1 DEF PoolTypeOK
    <3>3. PoolSound'
      BY <2>1, <2>2, <2>3, <2>5, <3>1 DEF PoolSound
    <3> QED BY <3>2, <3>3
  <2>6. CASE ~half /\ k = PoolN /\ chain' = Tail(r) /\ in_use' = in_use \cup {Head(r)}
    <3>1. freed' = freed /\ lost' = lost /\ made' = made + k
      BY <1>2, <2>2, <2>6 DEF mem_realloc_pool
    <3> HIDE DEF r
    <3>2. /\ Head(r) \in 1..MaxObj /\ chain' \in Seq(1..MaxObj) /\ IsInjective(chain')
          /\ ToSet(r) = ToSet(chain') \cup {Head(r)} /\ Head(r) \notin ToSet(chain')
      BY <2>1, <2>6, SetTail
    <3>3. PoolTypeOK'
      BY <2>2, <2>6, <3>1, <3>2 DEF PoolTypeOK
    <3>4. PoolSound'
      <4>1. in_use \cup freed \cup lost = 1..made /\ in_use \cap freed = {}
            /\ lost \cap (in_use \cup freed) = {}
        BY <2>3 DEF PoolSound
      <4>2. ToSet(chain') \cup {Head(r)} = (made + 1)..(made + k)
        BY <2>1, <3>2
      <4> QED BY <2>2, <2>6, <3>1, <3>2, <4>1, <4>2 DEF PoolSound
    <3> QED BY <3>3, <3>4
  <2> QED BY <1>2, <2>4, <2>5, <2>6
<1>3. ASSUME mem_free_pool PROVE PoolInv'
  <2>1. chain' = <<>> /\ ToSet(chain') = {} /\ IsInjective(chain')
    BY <1>3, SetSmall DEF mem_free_pool
  <2>2. ToSet(chain) \subseteq 1..made /\ 1..made \subseteq 1..MaxObj
    BY DEF PoolSound, PoolTypeOK
  <2>3. PoolTypeOK'
    <3>1. freed' \subseteq 1..MaxObj
      BY <1>3, <2>2 DEF mem_free_pool, PoolTypeOK
    <3>2. chain' \in Seq(1..MaxObj)
      BY <2>1
    <3> QED BY <1>3, <3>1, <3>2 DEF mem_free_pool, PoolTypeOK
  <2>4. PoolSound'
    BY <1>3, <2>1 DEF mem_free_pool, PoolSound
  <2> QED BY <2>3, <2>4
<1>4. ASSUME NEW o \in in_use, MEM_FREE(o) PROVE PoolInv'
  <2>1. o \in 1..MaxObj /\ o \notin ToSet(chain)
    BY DEF PoolSound, PoolTypeOK
  <2>2. /\ chain' \in Seq(1..MaxObj) /\ IsInjective(chain')
        /\ ToSet(chain') = ToSet(chain) \cup {o}
    BY <1>4, <2>1, SetPush DEF MEM_FREE, PoolSound, PoolTypeOK
  <2>3. PoolTypeOK'
    BY <1>4, <2>2 DEF MEM_FREE, PoolTypeOK
  <2>4. PoolSound'
    BY SMTT(40), <1>4, <2>2 DEF MEM_FREE, PoolSound
  <2> QED BY <2>3, <2>4
<1>5. CASE UNCHANGED pool_vars
  BY <1>5 DEF pool_vars, PoolTypeOK, PoolSound
<1> HIDE DEF PoolInv
<1>6. ASSUME mem_alloc PROVE PoolInv'
  BY <1>1, <1>2, <1>6 DEF mem_alloc
<1> QED BY <1>3, <1>4, <1>5, <1>6 DEF PoolNext

(* mem_init_pool establishes the invariant.                                *)
LEMMA PoolInitInv == PoolInit => PoolInv
<1> SUFFICES ASSUME PoolInit PROVE PoolInv
  OBVIOUS
<1> USE PoolAssumption
<1>1. /\ DOMAIN chain = 1..PoolN /\ chain \in [1..PoolN -> 1..MaxObj]
      /\ \A i \in 1..PoolN : chain[i] = PoolN + 1 - i
  BY DEF PoolInit
<1>2. PoolTypeOK
  BY <1>1 DEF PoolInit, PoolTypeOK
<1>3. IsInjective(chain)
  BY <1>1 DEF IsInjective
<1>4. ASSUME NEW x \in 1..PoolN PROVE x \in ToSet(chain)
  <2>1. PoolN + 1 - x \in 1..PoolN /\ PoolN + 1 - (PoolN + 1 - x) = x
    OBVIOUS
  <2> QED BY <1>1, <2>1 DEF ToSet
<1>5. ASSUME NEW x \in ToSet(chain) PROVE x \in 1..PoolN
  BY <1>1, <1>5 DEF ToSet
<1> QED BY <1>2, <1>3, <1>4, <1>5 DEF PoolInit, PoolInv, PoolSound

(* The object pool of mem.c: every object ever allocated is in the list of *)
(* free objects once, in the hands of one caller, freed, or the half-made  *)
(* one of a failed round, which leaks; and the list leads to no object     *)
(* that somebody holds or that was freed, failed rounds included.          *)
THEOREM PoolSoundHolds == PoolSpec => [](PoolTypeOK /\ PoolSound)
<1>1. PoolInv /\ [PoolNext]_pool_vars => PoolInv'
  BY PoolStep
<1> QED BY PoolInitInv, <1>1, PTL DEF PoolSpec, PoolInv

-----------------------------------------------------------------------------
(* The lists of queue.h                                                    *)

Heads == TailHead \cup ListHead

(* Place i of the list c[h]: the head, then the elements.                  *)
Place(c, h, i) == IF i = 0 THEN h ELSE c[h][i]

(* The pointers nx and pv link up the places of every list of c in their   *)
(* order, each place has one cell, and a tail queue's head points to the   *)
(* last of them.                                                           *)
Linked(nx, pv, c) ==
  /\ nx \in [Cell -> Elem \cup {Null}] /\ pv \in [Cell -> Cell \cup {Null}]
  /\ c \in [Heads -> Seq(Elem)]
  /\ \A g \in Heads : \A i \in 0..Len(c[g]) :
       nx[Place(c, g, i)] = IF i = Len(c[g]) THEN Null ELSE c[g][i + 1]
  /\ \A g \in Heads : \A i \in 1..Len(c[g]) : pv[c[g][i]] = Place(c, g, i - 1)
  /\ \A g \in TailHead : pv[g] = Place(c, g, Len(c[g]))
  /\ \A f, g \in Heads : \A i \in 1..Len(c[f]), j \in 1..Len(c[g]) :
       c[f][i] = c[g][j] => f = g /\ i = j

QueuesInv == QueuesTypeOK /\ Linked(links.next, links.prev, content)

(* Places are cells, no two of them the same one.                          *)
LEMMA PlacesDiffer ==
  ASSUME NEW nx, NEW pv, NEW c, Linked(nx, pv, c),
         NEW f \in Heads, NEW g \in Heads, NEW i \in 0..Len(c[f]), NEW j \in 0..Len(c[g])
  PROVE  /\ Place(c, f, i) \in Cell /\ Place(c, f, i) # Null
         /\ i # 0 => Place(c, f, i) \in Elem
         /\ Place(c, f, i) = Place(c, g, j) => f = g /\ i = j
<1>1. c[f] \in Seq(Elem) /\ c[g] \in Seq(Elem) /\ Len(c[f]) \in Nat /\ Len(c[g]) \in Nat
  BY DEF Linked
<1>2. /\ i # 0 => i \in 1..Len(c[f]) /\ c[f][i] \in Elem
      /\ j # 0 => j \in 1..Len(c[g]) /\ c[g][j] \in Elem
  BY <1>1
<1>3. /\ f \in Cell /\ g \in Cell /\ f \notin Elem /\ g \notin Elem
      /\ Elem \subseteq Cell /\ Null \notin Cell
  BY QueuesAssumption DEF Heads, Cell
<1>4. CASE i = 0
  BY <1>2, <1>3, <1>4 DEF Place
<1>5. CASE i # 0 /\ j = 0
  BY <1>2, <1>3, <1>5 DEF Place
<1>6. CASE i # 0 /\ j # 0
  BY <1>2, <1>3, <1>6 DEF Place, Linked
<1> QED BY <1>4, <1>5, <1>6

(* An element whose prev is not set is in no list.                         *)
LEMMA UnlinkedIsFree ==
  ASSUME NEW nx, NEW pv, NEW c, Linked(nx, pv, c), NEW e \in Elem, pv[e] = Null,
         NEW g \in Heads, NEW i \in 0..Len(c[g])
  PROVE  Place(c, g, i) # e
<1>1. c[g] \in Seq(Elem) /\ Len(c[g]) \in Nat
  BY DEF Linked
<1>2. CASE i = 0
  BY <1>2, QueuesAssumption DEF Place, Heads
<1>3. CASE i # 0
  <2>1. i \in 1..Len(c[g]) /\ i - 1 \in 0..Len(c[g])
    BY <1>1, <1>3
  <2>2. pv[c[g][i]] = Place(c, g, i - 1)
    BY <2>1 DEF Linked
  <2>3. Place(c, g, i - 1) # Null
    BY <2>1, PlacesDiffer
  <2> QED BY <1>3, <2>2, <2>3 DEF Place
<1> QED BY <1>2, <1>3

(* r is s with e behind position k.                                        *)
Inserted(s, k, e, r) ==
  /\ r \in Seq(Elem) /\ Len(r) = Len(s) + 1
  /\ \A i \in 1..Len(r) : r[i] = IF i <= k THEN s[i] ELSE IF i = k + 1 THEN e ELSE s[i - 1]

(* The four assignments all the insertions of e behind the cell p make.    *)
LinksIn(nx, pv, nx2, pv2, h, p, e) ==
  /\ nx2 \in [Cell -> Elem \cup {Null}] /\ pv2 \in [Cell -> Cell \cup {Null}]
  /\ nx2[e] = nx[p] /\ nx2[p] = e /\ \A x \in Cell \ {e, p} : nx2[x] = nx[x]
  /\ pv2[e] = p
  /\ nx[p] # Null => pv2[nx[p]] = e
  /\ nx[p] = Null /\ h \in TailHead => pv2[h] = e
  /\ \A x \in Cell \ {e} : IF nx[p] # Null THEN x # nx[p] => pv2[x] = pv[x]
                           ELSE x # h => pv2[x] = pv[x]

(* An element is linked in behind place k of a list, which becomes s.      *)
LEMMA LinkIn ==
  ASSUME NEW nx, NEW pv, NEW c, Linked(nx, pv, c),
         NEW h \in Heads, NEW k \in 0..Len(c[h]), NEW e \in Elem, pv[e] = Null,
         NEW s, Inserted(c[h], k, e, s),
         NEW nx2, NEW pv2, LinksIn(nx, pv, nx2, pv2, h, Place(c, h, k), e)
  PROVE  Linked(nx2, pv2, [c EXCEPT ![h] = s])
<1> DEFINE p  == Place(c, h, k)
           d  == [c EXCEPT ![h] = s]
           n0 == Len(c[h])
<1> USE DEF Inserted, LinksIn
<1>0. /\ c \in [Heads -> Seq(Elem)] /\ d \in [Heads -> Seq(Elem)] /\ n0 \in Nat
      /\ d[h] = s /\ \A g \in Heads \ {h} : d[g] = c[g]
      /\ Elem \subseteq Cell /\ Null \notin Cell /\ h \in Cell /\ h \notin Elem
      /\ k \in 0..n0 /\ Len(s) = n0 + 1 /\ s[k + 1] = e
  <2>1. c \in [Heads -> Seq(Elem)] /\ n0 \in Nat /\ k + 1 \in 1..Len(s)
    BY DEF Linked
  <2> QED BY <2>1, QueuesAssumption DEF Heads, Cell
<1>1. \A g \in Heads : \A i \in 0..Len(c[g]) :
        /\ Place(c, g, i) \in Cell /\ Place(c, g, i) # e
        /\ Place(c, g, i) = p => g = h /\ i = k
  BY <1>0, PlacesDiffer, UnlinkedIsFree
<1>2. \A i \in 0..n0 + 1 : Place(d, h, i) = IF i <= k THEN Place(c, h, i)
                                            ELSE IF i = k + 1 THEN e ELSE Place(c, h, i - 1)
  <2> SUFFICES ASSUME NEW i \in 0..n0 + 1
               PROVE  Place(d, h, i) = IF i <= k THEN Place(c, h, i)
                                       ELSE IF i = k + 1 THEN e ELSE Place(c, h, i - 1)
    OBVIOUS
  <2>1. CASE i <= k
    BY <1>0, <2>1 DEF Place
  <2>2. CASE i > k + 1
    <3>1. i \in 1..Len(s) /\ i # 0 /\ i - 1 # 0 /\ ~(i <= k) /\ i # k + 1
      BY <1>0, <2>2
    <3>2. s[i] = c[h][i - 1]
      BY <3>1
    <3> QED BY <1>0, <2>2, <3>1, <3>2 DEF Place
  <2>3. CASE i = k + 1
    BY <1>0, <2>3 DEF Place
  <2> QED BY <1>0, <2>1, <2>2, <2>3
<1>3. \A g \in Heads \ {h} : \A i : Place(d, g, i) = Place(c, g, i)
  BY <1>0 DEF Place
<1> HIDE DEF d
<1>4. ASSUME NEW g \in Heads, NEW i \in 0..Len(d[g])
      PROVE  nx2[Place(d, g, i)] = IF i = Len(d[g]) THEN Null ELSE d[g][i + 1]
  <2>1. CASE g # h
    <3>1. Len(d[g]) = Len(c[g]) /\ Place(d, g, i) = Place(c, g, i) /\ d[g] = c[g]
      BY <1>0, <1>3, <2>1
    <3>2. Place(c, g, i) \in Cell \ {e, p}
      BY <1>1, <2>1, <3>1
    <3>3. nx2[Place(c, g, i)] = nx[Place(c, g, i)]
      BY <3>2
    <3> QED BY <3>1, <3>3 DEF Linked
  <2>2. CASE g = h /\ i < k
    <3>1. i \in 0..n0 /\ i # n0 /\ i # n0 + 1 /\ i + 1 \in 1..k
      BY <1>0, <2>2
    <3>2. Place(d, h, i) = Place(c, h, i) /\ Place(c, h, i) \in Cell \ {e, p}
      BY <1>0, <1>1, <1>2, <2>2, <3>1
    <3>3. nx2[Place(d, h, i)] = c[h][i + 1]
      BY <3>1, <3>2 DEF Linked
    <3>4. d[h][i + 1] = c[h][i + 1]
      BY <1>0, <3>1
    <3> QED BY <1>0, <2>2, <3>1, <3>3, <3>4
  <2>3. CASE g = h /\ i = k
    <3>1. Place(d, h, k) = p /\ k # n0 + 1
      BY <1>0, <1>2
    <3> QED BY <1>0, <2>3, <3>1
  <2>4. CASE g = h /\ i = k + 1
    <3>1. Place(d, h, i) = e /\ nx2[e] = nx[p]
      BY <1>0, <1>2, <2>4
    <3>2. nx[p] = IF k = n0 THEN Null ELSE c[h][k + 1]
      BY <1>0 DEF Linked
    <3>3. k # n0 => s[(k + 1) + 1] = c[h][k + 1]
      <4>1. k # n0 => (k + 1) + 1 \in 1..Len(s) /\ ((k + 1) + 1) - 1 = k + 1
                      /\ ~((k + 1) + 1 <= k) /\ (k + 1) + 1 # k + 1
        BY <1>0
      <4> QED BY <4>1
    <3> QED BY <1>0, <2>4, <3>1, <3>2, <3>3
  <2>5. CASE g = h /\ i > k + 1
    <3>1. i \in 0..n0 + 1 /\ i - 1 \in 0..n0 /\ i - 1 # k /\ i - 1 # 0 /\ (i - 1) + 1 = i
      BY <1>0, <2>5
    <3>2. Place(d, h, i) = Place(c, h, i - 1) /\ Place(c, h, i - 1) \in Cell \ {e, p}
      BY <1>0, <1>1, <1>2, <2>5, <3>1
    <3>3. nx2[Place(d, h, i)] = IF i - 1 = n0 THEN Null ELSE c[h][i]
      <4>1. nx[Place(c, h, i - 1)] = IF i - 1 = n0 THEN Null ELSE c[h][(i - 1) + 1]
        BY <3>1 DEF Linked
      <4> QED BY <3>1, <3>2, <4>1
    <3>4. i # n0 + 1 => s[i + 1] = c[h][i]
      <4>1. i # n0 + 1 => i + 1 \in 1..Len(s) /\ (i + 1) - 1 = i /\ ~(i + 1 <= k) /\ i + 1 # k + 1
        BY <1>0, <2>5, <3>1
      <4> QED BY <4>1
    <3> QED BY <1>0, <2>5, <3>1, <3>3, <3>4
  <2> QED BY <1>0, <2>1, <2>2, <2>3, <2>4, <2>5
<1>5. nx[p] = IF k = n0 THEN Null ELSE c[h][k + 1]
  BY <1>0 DEF Linked
<1>6. \A f, g \in Heads : \A i \in 1..Len(c[f]), j \in 1..Len(c[g]) :
        c[f][i] = c[g][j] => f = g /\ i = j
  BY DEF Linked
<1>7. \A g \in Heads : \A i \in 1..Len(c[g]) :
        c[g][i] \in Cell \ {e} /\ c[g][i] # h /\ c[g][i] # Null
  <2> SUFFICES ASSUME NEW g \in Heads, NEW i \in 1..Len(c[g])
               PROVE  c[g][i] \in Cell \ {e} /\ c[g][i] # h /\ c[g][i] # Null
    OBVIOUS
  <2>1. c[g] \in Seq(Elem) /\ c[g][i] \in Elem /\ i \in 0..Len(c[g]) /\ i # 0
    BY <1>0
  <2>2. Place(c, g, i) = c[g][i]
    BY <2>1 DEF Place
  <2> QED BY <1>0, <1>1, <2>1, <2>2
<1>8. ASSUME NEW g \in Heads, NEW i \in 1..Len(c[g]), ~(g = h /\ i = k + 1)
      PROVE  pv2[c[g][i]] = pv[c[g][i]]
  <2>1. CASE k = n0
    BY <1>5, <1>7, <2>1
  <2>2. CASE k # n0
    <3>1. k + 1 \in 1..n0
      BY <1>0, <2>2
    <3>2. c[g][i] # c[h][k + 1] /\ c[h][k + 1] # Null
      BY <1>6, <1>7, <1>8, <3>1
    <3> QED BY <1>5, <1>7, <2>2, <3>2
  <2> QED BY <2>1, <2>2
<1>9. ASSUME NEW g \in Heads, NEW i \in 1..Len(d[g])
      PROVE  pv2[d[g][i]] = Place(d, g, i - 1)
  <2>1. CASE g # h
    <3>1. d[g] = c[g] /\ Place(d, g, i - 1) = Place(c, g, i - 1)
      BY <1>0, <1>3, <2>1
    <3>2. pv2[c[g][i]] = pv[c[g][i]]
      BY <1>8, <2>1, <3>1
    <3> QED BY <3>1, <3>2 DEF Linked
  <2>2. CASE g = h /\ i <= k
    <3>1. i \in 1..n0 /\ i - 1 \in 0..n0 + 1 /\ i - 1 <= k /\ i # k + 1 /\ i \in 1..k
      BY <1>0, <2>2
    <3>2. d[h][i] = c[h][i] /\ Place(d, h, i - 1) = Place(c, h, i - 1)
      BY <1>0, <1>2, <3>1
    <3>3. pv2[c[h][i]] = pv[c[h][i]]
      BY <1>8, <3>1
    <3> QED BY <2>2, <3>1, <3>2, <3>3 DEF Linked
  <2>3. CASE g = h /\ i = k + 1
    <3>1. Place(d, h, k) = p /\ i - 1 = k
      BY <1>0, <1>2, <2>3
    <3> QED BY <1>0, <2>3, <3>1
  <2>4. CASE g = h /\ i = k + 2
    <3>1. /\ k # n0 /\ i \in 1..Len(s) /\ i - 1 = k + 1 /\ k + 1 \in 0..n0 + 1
          /\ k + 1 \in 1..n0 /\ ~(i <= k) /\ i # k + 1
      BY <1>0, <2>4
    <3>2. d[h][i] = c[h][k + 1] /\ nx[p] = c[h][k + 1] /\ c[h][k + 1] # Null
      BY <1>0, <1>5, <1>7, <3>1
    <3>3. Place(d, h, k + 1) = e /\ i - 1 = k + 1
      BY <1>0, <1>2, <2>4, <3>1
    <3> QED BY <2>4, <3>2, <3>3
  <2>5. CASE g = h /\ i > k + 2
    <3>1. /\ i \in 1..Len(s) /\ ~(i <= k) /\ i # k + 1 /\ i - 1 \in 1..n0 /\ i - 1 # k + 1
          /\ i - 1 \in 0..n0 + 1 /\ i - 1 > k + 1 /\ ~(i - 1 <= k)
      BY <1>0, <2>5
    <3>2. d[h][i] = c[h][i - 1] /\ Place(d, h, i - 1) = Place(c, h, (i - 1) - 1)
      <4>1. Place(d, h, i - 1) = Place(c, h, (i - 1) - 1)
        BY <1>2, <3>1
      <4> QED BY <1>0, <3>1, <4>1
    <3>3. pv2[c[h][i - 1]] = pv[c[h][i - 1]]
      BY <1>8, <3>1
    <3> QED BY <2>5, <3>1, <3>2, <3>3 DEF Linked
  <2>6. i \in Nat /\ k \in Nat
    BY <1>0
  <2> QED BY <2>1, <2>2, <2>3, <2>4, <2>5, <2>6
<1>10. ASSUME NEW g \in TailHead PROVE pv2[g] = Place(d, g, Len(d[g]))
  <2>0. g \in Heads /\ g \in Cell /\ g # e /\ g \notin Elem
    BY <1>0, QueuesAssumption DEF Heads, Cell
  <2>1. CASE g # h
    <3>1. pv2[g] = pv[g]
      <4>1. nx[p] # g
        BY <1>5, <1>0, <2>0 DEF Linked
      <4> QED BY <2>0, <2>1, <4>1
    <3> QED BY <1>0, <1>3, <2>0, <2>1, <3>1 DEF Linked
  <2>2. CASE g = h /\ k = n0
    <3>1. Place(d, h, n0 + 1) = e
      BY <1>0, <1>2, <2>2
    <3> QED BY <1>0, <1>5, <2>2, <3>1
  <2>3. CASE g = h /\ k # n0
    <3>1. Place(d, h, n0 + 1) = Place(c, h, n0) /\ k + 1 \in 1..n0
      BY <1>0, <1>2, <2>3
    <3>2. nx[p] # Null /\ nx[p] # h
      BY <1>5, <1>7, <2>3, <3>1
    <3>3. pv2[h] = pv[h]
      BY <2>0, <2>3, <3>2
    <3> QED BY <1>0, <2>3, <3>1, <3>3 DEF Linked
  <2> QED BY <2>1, <2>2, <2>3
<1>11. ASSUME NEW f \in Heads, NEW g \in Heads, NEW i \in 1..Len(d[f]), NEW j \in 1..Len(d[g]),
              d[f][i] = d[g][j]
       PROVE  f = g /\ i = j
  <2> DEFINE Old(g0, i0) == IF g0 # h THEN i0 ELSE IF i0 <= k THEN i0 ELSE i0 - 1
  <2>1. \A g0 \in Heads : \A i0 \in 1..Len(d[g0]) :
          \/ g0 = h /\ i0 = k + 1 /\ d[g0][i0] = e
          \/ /\ Old(g0, i0) \in 1..Len(c[g0]) /\ d[g0][i0] = c[g0][Old(g0, i0)]
             /\ ~(g0 = h /\ i0 = k + 1)
    <3> SUFFICES ASSUME NEW g0 \in Heads, NEW i0 \in 1..Len(d[g0]), ~(g0 = h /\ i0 = k + 1)
                 PROVE  Old(g0, i0) \in 1..Len(c[g0]) /\ d[g0][i0] = c[g0][Old(g0, i0)]
      BY <1>0
    <3>1. CASE g0 # h
      BY <1>0, <3>1
    <3>2. CASE g0 = h /\ i0 <= k
      BY <1>0, <3>2
    <3>3. CASE g0 = h /\ i0 > k
      <4>1. i0 \in 1..Len(s) /\ ~(i0 <= k) /\ i0 # k + 1 /\ i0 - 1 \in 1..n0
        BY <1>0, <3>3
      <4> QED BY <1>0, <3>3, <4>1
    <3> QED BY <1>0, <3>1, <3>2, <3>3
  <2> HIDE DEF Old
  <2>2. /\ (f = h /\ i = k + 1 /\ d[f][i] = e)
           \/ (/\ Old(f, i) \in 1..Len(c[f]) /\ d[f][i] = c[f][Old(f, i)] /\ d[f][i] # e
               /\ ~(f = h /\ i = k + 1))
        /\ (g = h /\ j = k + 1 /\ d[g][j] = e)
           \/ (/\ Old(g, j) \in 1..Len(c[g]) /\ d[g][j] = c[g][Old(g, j)] /\ d[g][j] # e
               /\ ~(g = h /\ j = k + 1))
    <3>1. ASSUME NEW g0 \in Heads, NEW i0 \in 1..Len(d[g0]), ~(g0 = h /\ i0 = k + 1)
          PROVE  Old(g0, i0) \in 1..Len(c[g0]) /\ d[g0][i0] = c[g0][Old(g0, i0)] /\ d[g0][i0] # e
      <4>1. Old(g0, i0) \in 1..Len(c[g0]) /\ d[g0][i0] = c[g0][Old(g0, i0)]
        BY <2>1, <3>1
      <4> QED BY <1>7, <4>1
    <3>2. ASSUME NEW g0 \in Heads, NEW i0 \in 1..Len(d[g0]), g0 = h /\ i0 = k + 1
          PROVE  d[g0][i0] = e
      BY <1>0, <3>2
    <3> QED BY <3>1, <3>2, SMTT(30)
  <2>3. CASE d[f][i] = e
    BY <1>11, <2>2, <2>3
  <2>4. CASE d[f][i] # e
    <3>1. /\ Old(f, i) \in 1..Len(c[f]) /\ Old(g, j) \in 1..Len(c[g])
          /\ c[f][Old(f, i)] = c[g][Old(g, j)] /\ ~(f = h /\ i = k + 1) /\ ~(g = h /\ j = k + 1)
      BY <1>11, <2>2, <2>4
    <3>2. f = g /\ Old(f, i) = Old(g, j)
      BY <1>6, <3>1, SMTT(30)
    <3> QED BY <1>0, <3>1, <3>2 DEF Old
  <2> QED BY <2>3, <2>4
<1> QED BY <1>0, <1>4, <1>9, <1>10, <1>11 DEF Linked, d

(* r is s without position k.                                              *)
Removed(s, k, r) ==
  /\ r \in Seq(Elem) /\ Len(r) = Len(s) - 1
  /\ \A i \in 1..Len(r) : r[i] = IF i < k THEN s[i] ELSE s[i + 1]

(* What a removal of e, which follows the cell p, does to the others.      *)
LinksOut(nx, pv, nx2, pv2, h, p, e) ==
  /\ nx2 \in [Cell -> Elem \cup {Null}] /\ pv2 \in [Cell -> Cell \cup {Null}]
  /\ nx2[p] = nx[e] /\ \A x \in Cell \ {e, p} : nx2[x] = nx[x]
  /\ nx[e] # Null => pv2[nx[e]] = p
  /\ nx[e] = Null /\ h \in TailHead => pv2[h] = p
  /\ \A x \in Cell \ {e} : IF nx[e] # Null THEN x # nx[e] => pv2[x] = pv[x]
                           ELSE x # h => pv2[x] = pv[x]

(* The element at place k is taken out of its list, which becomes s.       *)
LEMMA LinkOut ==
  ASSUME NEW nx, NEW pv, NEW c, Linked(nx, pv, c),
         NEW h \in Heads, NEW k \in 1..Len(c[h]), NEW s, Removed(c[h], k, s),
         NEW nx2, NEW pv2, LinksOut(nx, pv, nx2, pv2, h, Place(c, h, k - 1), c[h][k])
  PROVE  Linked(nx2, pv2, [c EXCEPT ![h] = s])
<1> DEFINE d  == [c EXCEPT ![h] = s]
           n0 == Len(c[h])
           p  == Place(c, h, k - 1)
           e  == c[h][k]
           n  == nx[e]
<1> USE DEF Removed, LinksOut
<1>0. /\ c \in [Heads -> Seq(Elem)] /\ d \in [Heads -> Seq(Elem)] /\ n0 \in Nat
      /\ d[h] = s /\ \A g \in Heads \ {h} : d[g] = c[g]
      /\ Elem \subseteq Cell /\ Null \notin Cell /\ h \in Cell /\ h \notin Elem
      /\ k \in 1..n0 /\ Len(s) = n0 - 1
  <2>1. c \in [Heads -> Seq(Elem)] /\ n0 \in Nat
    BY DEF Linked
  <2> QED BY <2>1, QueuesAssumption DEF Heads, Cell
<1>1. \A g \in Heads : \A i \in 0..Len(c[g]) :
        /\ Place(c, g, i) \in Cell
        /\ Place(c, g, i) = p => g = h /\ i = k - 1
        /\ Place(c, g, i) = e => g = h /\ i = k
  <2> SUFFICES ASSUME NEW g \in Heads, NEW i \in 0..Len(c[g])
               PROVE  /\ Place(c, g, i) \in Cell
                      /\ Place(c, g, i) = p => g = h /\ i = k - 1
                      /\ Place(c, g, i) = e => g = h /\ i = k
    OBVIOUS
  <2>1. k - 1 \in 0..Len(c[h]) /\ k \in 0..Len(c[h]) /\ e = Place(c, h, k)
    BY <1>0 DEF Place
  <2>2. Place(c, g, i) = p => g = h /\ i = k - 1
    BY <2>1, PlacesDiffer
  <2>3. Place(c, g, i) = e => g = h /\ i = k
    BY <2>1, PlacesDiffer
  <2> QED BY <2>2, <2>3, PlacesDiffer
<1>2. \A i \in 0..Len(s) :
        Place(d, h, i) = IF i < k THEN Place(c, h, i) ELSE Place(c, h, i + 1)
  <2> SUFFICES ASSUME NEW i \in 0..Len(s)
               PROVE  Place(d, h, i) = IF i < k THEN Place(c, h, i) ELSE Place(c, h, i + 1)
    OBVIOUS
  <2>1. CASE i = 0
    BY <1>0, <2>1 DEF Place
  <2>2. CASE i # 0
    <3>1. i \in 1..Len(s) /\ i + 1 # 0
      BY <1>0, <2>2
    <3> QED BY <1>0, <2>2, <3>1 DEF Place
  <2> QED BY <2>1, <2>2
<1>3. \A g \in Heads \ {h} : \A i : Place(d, g, i) = Place(c, g, i)
  BY <1>0 DEF Place
<1> HIDE DEF d
<1>4. n = IF k = n0 THEN Null ELSE c[h][k + 1]
  <2>1. k \in 0..Len(c[h]) /\ Place(c, h, k) = e
    BY <1>0 DEF Place
  <2> QED BY <2>1 DEF Linked
<1>5. ASSUME NEW g \in Heads, NEW i \in 0..Len(d[g])
      PROVE  nx2[Place(d, g, i)] = IF i = Len(d[g]) THEN Null ELSE d[g][i + 1]
  <2>1. CASE g # h
    <3>1. Len(d[g]) = Len(c[g]) /\ Place(d, g, i) = Place(c, g, i) /\ d[g] = c[g]
      BY <1>0, <1>3, <2>1
    <3>2. Place(c, g, i) \in Cell \ {e, p}
      BY <1>1, <2>1, <3>1
    <3> QED BY <3>1, <3>2 DEF Linked
  <2>2. CASE g = h /\ i < k - 1
    <3>1. i \in 0..n0 /\ i # n0 /\ i # n0 - 1 /\ i # k /\ i + 1 \in 1..Len(s) /\ i + 1 < k
          /\ i \in 0..Len(s) /\ i < k
      BY <1>0, <2>2
    <3>2. Place(d, h, i) = Place(c, h, i) /\ Place(c, h, i) \in Cell \ {e, p}
      BY <1>0, <1>1, <1>2, <2>2, <3>1
    <3>3. nx2[Place(d, h, i)] = c[h][i + 1]
      BY <3>1, <3>2 DEF Linked
    <3>4. d[h][i + 1] = c[h][i + 1]
      BY <1>0, <3>1
    <3> QED BY <1>0, <2>2, <3>1, <3>3, <3>4
  <2>3. CASE g = h /\ i = k - 1
    <3>1. i \in 0..Len(s) /\ i < k
      BY <1>0, <2>3
    <3>2. Place(d, h, i) = p
      BY <1>2, <2>3, <3>1
    <3>3. k # n0 => k \in 1..Len(s) /\ ~(k < k) /\ i + 1 = k
      BY <1>0, <2>3
    <3>4. k # n0 => s[i + 1] = c[h][k + 1]
      BY <3>3
    <3> QED BY <1>0, <1>4, <2>3, <3>2, <3>4
  <2>4. CASE g = h /\ i >= k
    <3>1. /\ i \in 0..Len(s) /\ ~(i < k) /\ i + 1 \in 0..n0 /\ i + 1 # k /\ i + 1 # k - 1
          /\ i + 1 # 0
      BY <1>0, <2>4
    <3>0. /\ i = Len(s) <=> i + 1 = n0
          /\ i # Len(s) => i + 1 \in 1..Len(s) /\ ~(i + 1 < k)
      <4>1. i \in Int /\ k \in Int /\ Len(s) \in Int /\ n0 = Len(s) + 1 /\ 0 <= i /\ i <= Len(s) /\ i >= k
        BY <1>0, <2>4, <3>1
      <4> HIDE DEF n0
      <4> QED BY <4>1
    <3>2. Place(d, h, i) = Place(c, h, i + 1) /\ Place(c, h, i + 1) \in Cell \ {e, p}
      BY <1>1, <1>2, <3>1
    <3>3. nx2[Place(d, h, i)] = IF i + 1 = n0 THEN Null ELSE c[h][(i + 1) + 1]
      <4>1. nx[Place(c, h, i + 1)] = IF i + 1 = n0 THEN Null ELSE c[h][(i + 1) + 1]
        BY <3>1, SMTT(60) DEF Linked
      <4> QED BY <3>2, <4>1
    <3>4. i # Len(s) => s[i + 1] = c[h][(i + 1) + 1]
      BY <3>0
    <3> QED BY <1>0, <2>4, <3>0, <3>3, <3>4
  <2> QED BY <1>0, <2>1, <2>2, <2>3, <2>4
<1>6. \A f, g \in Heads : \A i \in 1..Len(c[f]), j \in 1..Len(c[g]) :
        c[f][i] = c[g][j] => f = g /\ i = j
  BY DEF Linked
<1>7. \A g \in Heads : \A i \in 1..Len(c[g]) :
        c[g][i] \in Cell /\ c[g][i] # h /\ c[g][i] # Null
  BY <1>0
<1>8. ASSUME NEW g \in Heads, NEW i \in 1..Len(c[g]), ~(g = h /\ i = k), ~(g = h /\ i = k + 1)
      PROVE  pv2[c[g][i]] = pv[c[g][i]]
  <2>0. c[g][i] \in Cell \ {e} /\ c[g][i] # h
    BY <1>0, <1>6, <1>7, <1>8
  <2>1. CASE k = n0
    BY <1>4, <2>0, <2>1
  <2>2. CASE k # n0
    <3>1. k + 1 \in 1..n0
      BY <1>0, <2>2
    <3>2. c[g][i] # c[h][k + 1] /\ c[h][k + 1] # Null
      BY <1>6, <1>7, <1>8, <3>1
    <3> QED BY <1>4, <2>0, <2>2, <3>2
  <2> QED BY <2>1, <2>2
<1>9. ASSUME NEW g \in Heads, NEW i \in 1..Len(d[g])
      PROVE  pv2[d[g][i]] = Place(d, g, i - 1)
  <2>1. CASE g # h
    <3>1. d[g] = c[g] /\ Place(d, g, i - 1) = Place(c, g, i - 1)
      BY <1>0, <1>3, <2>1
    <3>2. pv2[c[g][i]] = pv[c[g][i]]
      BY <1>8, <2>1, <3>1
    <3> QED BY <3>1, <3>2 DEF Linked
  <2>2. CASE g = h /\ i < k
    <3>1. i \in 1..n0 /\ i \in 1..Len(s) /\ i - 1 \in 0..Len(s) /\ i - 1 < k /\ i # k /\ i # k + 1
      BY <1>0, <2>2
    <3>2. d[h][i] = c[h][i] /\ Place(d, h, i - 1) = Place(c, h, i - 1)
      BY <1>0, <1>2, <2>2, <3>1
    <3>3. pv2[c[h][i]] = pv[c[h][i]]
      BY <1>8, <3>1
    <3> QED BY <2>2, <3>1, <3>2, <3>3 DEF Linked
  <2>3. CASE g = h /\ i = k
    <3>1. k # n0 /\ k \in 1..Len(s) /\ ~(k < k) /\ k + 1 \in 1..n0
          /\ k - 1 \in 0..Len(s) /\ k - 1 < k
      BY <1>0, <2>3
    <3>2. d[h][k] = n /\ n # Null
      BY <1>0, <1>4, <1>7, <3>1
    <3>3. Place(d, h, k - 1) = p
      BY <1>2, <3>1
    <3> QED BY <2>3, <3>2, <3>3
  <2>4. CASE g = h /\ i > k
    <3>1. /\ i \in 1..Len(s) /\ ~(i < k) /\ i + 1 \in 1..n0 /\ i + 1 # k /\ i + 1 # k + 1
          /\ i - 1 \in 0..Len(s) /\ ~(i - 1 < k) /\ (i - 1) + 1 = i /\ (i + 1) - 1 = i
      BY <1>0, <2>4
    <3>2. d[h][i] = c[h][i + 1] /\ Place(d, h, i - 1) = Place(c, h, i)
      <4>1. Place(d, h, i - 1) = Place(c, h, (i - 1) + 1)
        BY <1>2, <3>1
      <4> QED BY <1>0, <3>1, <4>1
    <3>3. pv2[c[h][i + 1]] = pv[c[h][i + 1]]
      BY <1>8, <3>1
    <3>4. pv[c[h][i + 1]] = Place(c, h, (i + 1) - 1)
      BY <3>1 DEF Linked
    <3> QED BY <2>4, <3>1, <3>2, <3>3, <3>4
  <2>5. i \in Nat /\ k \in Nat
    BY <1>0
  <2> QED BY <2>1, <2>2, <2>3, <2>4, <2>5
<1>10. ASSUME NEW g \in TailHead PROVE pv2[g] = Place(d, g, Len(d[g]))
  <2>0. g \in Heads /\ g \in Cell /\ g # e /\ g \notin Elem
    BY <1>0, QueuesAssumption DEF Heads, Cell
  <2>1. n # g
    BY <1>4, <1>0, <2>0
  <2>2. CASE g # h
    <3>1. pv2[g] = pv[g]
      BY <2>0, <2>1, <2>2
    <3> QED BY <1>0, <1>3, <2>0, <2>2, <3>1 DEF Linked
  <2>3. CASE g = h /\ k = n0
    <3>1. Len(s) \in 0..Len(s) /\ Len(s) < k /\ Len(s) = k - 1
      BY <1>0, <2>3
    <3>2. Place(d, h, Len(s)) = p
      BY <1>2, <3>1
    <3> QED BY <1>0, <1>4, <2>3, <3>2
  <2>4. CASE g = h /\ k # n0
    <3>1. Len(s) \in 0..Len(s) /\ ~(Len(s) < k) /\ Len(s) + 1 = n0 /\ k + 1 \in 1..n0
      BY <1>0, <2>4
    <3>2. Place(d, h, Len(s)) = Place(c, h, n0)
      BY <1>2, <3>1
    <3>3. n # Null
      BY <1>4, <1>7, <2>4, <3>1
    <3>4. pv2[h] = pv[h]
      BY <2>0, <2>1, <2>4, <3>3
    <3> QED BY <1>0, <2>4, <3>2, <3>4 DEF Linked
  <2> QED BY <2>2, <2>3, <2>4
<1>11. ASSUME NEW f \in Heads, NEW g \in Heads, NEW i \in 1..Len(d[f]), NEW j \in 1..Len(d[g]),
              d[f][i] = d[g][j]
       PROVE  f = g /\ i = j
  <2> DEFINE Old(g0, i0) == IF g0 # h THEN i0 ELSE IF i0 < k THEN i0 ELSE i0 + 1
  <2>1. \A g0 \in Heads : \A i0 \in 1..Len(d[g0]) :
          Old(g0, i0) \in 1..Len(c[g0]) /\ d[g0][i0] = c[g0][Old(g0, i0)]
    <3> SUFFICES ASSUME NEW g0 \in Heads, NEW i0 \in 1..Len(d[g0])
                 PROVE  Old(g0, i0) \in 1..Len(c[g0]) /\ d[g0][i0] = c[g0][Old(g0, i0)]
      OBVIOUS
    <3>1. CASE g0 # h
      BY <1>0, <3>1
    <3>2. CASE g0 = h
      <4>1. i0 \in 1..Len(s) /\ i0 \in 1..n0 /\ i0 + 1 \in 1..n0
        BY <1>0, <3>2
      <4> QED BY <1>0, <3>2, <4>1
    <3> QED BY <3>1, <3>2
  <2> HIDE DEF Old
  <2>2. /\ Old(f, i) \in 1..Len(c[f]) /\ Old(g, j) \in 1..Len(c[g])
        /\ c[f][Old(f, i)] = c[g][Old(g, j)]
    BY <1>11, <2>1
  <2>3. f = g /\ Old(f, i) = Old(g, j)
    BY <1>6, <2>2, SMTT(30)
  <2> QED BY <1>0, <2>3 DEF Old
<1> QED BY <1>0, <1>5, <1>9, <1>10, <1>11 DEF Linked, d

(* The assignments of TAILQ_CONCAT when there is something to move.        *)
LinksJoin(nx, pv, nx2, pv2, h1, h2) ==
  /\ nx2 \in [Cell -> Elem \cup {Null}] /\ pv2 \in [Cell -> Cell \cup {Null}]
  /\ nx2[pv[h1]] = nx[h2] /\ nx2[h2] = Null /\ \A x \in Cell \ {pv[h1], h2} : nx2[x] = nx[x]
  /\ pv2[nx[h2]] = pv[h1] /\ pv2[h1] = pv[h2] /\ pv2[h2] = h2
  /\ \A x \in Cell \ {nx[h2], h1, h2} : pv2[x] = pv[x]

(* TAILQ_CONCAT: the elements of h2, if there are any, follow those of h1. *)
LEMMA Joined ==
  ASSUME NEW nx, NEW pv, NEW c, Linked(nx, pv, c),
         NEW h1 \in TailHead, NEW h2 \in TailHead, h1 # h2, Len(c[h2]) # 0,
         NEW nx2, NEW pv2, LinksJoin(nx, pv, nx2, pv2, h1, h2)
  PROVE  Linked(nx2, pv2, [c EXCEPT ![h1] = c[h1] \o c[h2], ![h2] = <<>>])
<1> DEFINE a == pv[h1]
           b == nx[h2]
<1>00. /\ nx2 \in [Cell -> Elem \cup {Null}] /\ pv2 \in [Cell -> Cell \cup {Null}]
       /\ nx2[a] = b /\ nx2[h2] = Null /\ \A x \in Cell \ {a, h2} : nx2[x] = nx[x]
       /\ pv2[b] = a /\ pv2[h1] = pv[h2] /\ pv2[h2] = h2
       /\ \A x \in Cell \ {b, h1, h2} : pv2[x] = pv[x]
       /\ a = pv[h1] /\ b = nx[h2]
  BY DEF LinksJoin
<1> HIDE DEF a, b
<1> USE <1>00
<1> DEFINE s  == c[h1] \o c[h2]
           d  == [c EXCEPT ![h1] = s, ![h2] = <<>>]
           n1 == Len(c[h1])
           n2 == Len(c[h2])
<1>0. /\ c \in [Heads -> Seq(Elem)] /\ n1 \in Nat /\ n2 \in Nat \ {0} /\ s \in Seq(Elem)
      /\ Len(s) = n1 + n2 /\ \A i \in 1..n1 : s[i] = c[h1][i]
      /\ \A i \in (n1 + 1)..(n1 + n2) : s[i] = c[h2][i - n1]
      /\ h1 \in Heads /\ h2 \in Heads
  <2>1. c \in [Heads -> Seq(Elem)] /\ h1 \in Heads /\ h2 \in Heads
    BY DEF Linked, Heads
  <2> QED BY <2>1
<1> HIDE DEF s
<1>1. /\ d \in [Heads -> Seq(Elem)] /\ d[h1] = s /\ d[h2] = <<>>
      /\ \A g \in Heads \ {h1, h2} : d[g] = c[g]
      /\ Elem \subseteq Cell /\ Null \notin Cell /\ h1 \in Cell /\ h1 \notin Elem
      /\ h2 \in Cell /\ h2 \notin Elem
  <2>1. /\ Elem \subseteq Cell /\ Null \notin Cell /\ h1 \in Cell /\ h1 \notin Elem
        /\ h2 \in Cell /\ h2 \notin Elem
    BY <1>0, QueuesAssumption DEF Heads, Cell
  <2>2. <<>> \in Seq(Elem)
    OBVIOUS
  <2>3. /\ d \in [Heads -> Seq(Elem)] /\ d[h1] = s /\ d[h2] = <<>>
        /\ \A g \in Heads \ {h1, h2} : d[g] = c[g]
    BY <1>0, <2>2
  <2> QED BY <2>1, <2>3
<1>2. /\ a = Place(c, h1, n1) /\ b = c[h2][1] /\ pv[h2] = c[h2][n2] /\ b \in Elem
  <2>1. 0 \in 0..n2 /\ 0 # n2 /\ Place(c, h2, 0) = h2 /\ Place(c, h2, n2) = c[h2][n2]
        /\ 1 \in 1..n2
    BY <1>0 DEF Place
  <2>2. nx[Place(c, h2, 0)] = c[h2][0 + 1]
    BY <1>0, <2>1 DEF Linked
  <2>3. a = Place(c, h1, n1) /\ pv[h2] = Place(c, h2, n2)
    BY DEF Linked
  <2> QED BY <1>0, <2>1, <2>2, <2>3
<1>3. \A g \in Heads : \A i \in 0..Len(c[g]) :
        /\ Place(c, g, i) \in Cell
        /\ Place(c, g, i) = a => g = h1 /\ i = n1
        /\ Place(c, g, i) = h2 => g = h2 /\ i = 0
  <2> SUFFICES ASSUME NEW g \in Heads, NEW i \in 0..Len(c[g])
               PROVE  /\ Place(c, g, i) \in Cell
                      /\ Place(c, g, i) = a => g = h1 /\ i = n1
                      /\ Place(c, g, i) = h2 => g = h2 /\ i = 0
    OBVIOUS
  <2>1. n1 \in 0..Len(c[h1]) /\ 0 \in 0..Len(c[h2]) /\ h2 = Place(c, h2, 0)
    BY <1>0 DEF Place
  <2>2. Place(c, g, i) = a => g = h1 /\ i = n1
    BY <1>0, <1>2, <2>1, PlacesDiffer
  <2>3. Place(c, g, i) = h2 => g = h2 /\ i = 0
    BY <1>0, <2>1, PlacesDiffer
  <2> QED BY <2>2, <2>3, PlacesDiffer
<1>4. \A i \in 0..Len(s) :
        Place(d, h1, i) = IF i <= n1 THEN Place(c, h1, i) ELSE Place(c, h2, i - n1)
  <2> SUFFICES ASSUME NEW i \in 0..Len(s)
               PROVE  Place(d, h1, i) = IF i <= n1 THEN Place(c, h1, i) ELSE Place(c, h2, i - n1)
    OBVIOUS
  <2>1. CASE i = 0
    BY <1>0, <1>1, <2>1 DEF Place
  <2>2. CASE i # 0 /\ i <= n1
    BY <1>0, <1>1, <2>2 DEF Place
  <2>3. CASE i > n1
    <3>1. i \in (n1 + 1)..(n1 + n2) /\ i - n1 # 0 /\ i # 0
      BY <1>0, <2>3
    <3>2. s[i] = c[h2][i - n1]
      BY <1>0, <3>1
    <3> QED BY <1>0, <1>1, <2>3, <3>1, <3>2 DEF Place
  <2> QED BY <1>0, <2>1, <2>2, <2>3
<1>5. (\A g \in Heads \ {h1, h2} : \A i : Place(d, g, i) = Place(c, g, i)) /\ Place(d, h2, 0) = h2
  BY <1>1 DEF Place
<1> HIDE DEF d
<1>6. ASSUME NEW g \in Heads, NEW i \in 0..Len(d[g])
      PROVE  nx2[Place(d, g, i)] = IF i = Len(d[g]) THEN Null ELSE d[g][i + 1]
  <2>1. CASE g # h1 /\ g # h2
    <3>1. Len(d[g]) = Len(c[g]) /\ Place(d, g, i) = Place(c, g, i) /\ d[g] = c[g]
      BY <1>1, <1>5, <2>1
    <3>2. Place(c, g, i) \in Cell \ {a, h2}
      BY <1>3, <2>1, <3>1
    <3> QED BY <3>1, <3>2 DEF Linked
  <2>2. CASE g = h2
    <3>1. i = 0 /\ Len(d[g]) = 0 /\ Place(d, h2, 0) = h2
      BY <1>1, <1>5, <2>2
    <3> QED BY <2>2, <3>1
  <2>3. CASE g = h1 /\ i < n1
    <3>1. /\ i \in 0..Len(s) /\ i <= n1 /\ i \in 0..n1 /\ i # n1 /\ i + 1 \in 1..n1
          /\ i # Len(s)
      BY <1>0, <1>1, <2>3
    <3>2. Place(d, h1, i) = Place(c, h1, i) /\ Place(c, h1, i) \in Cell \ {a, h2}
      BY <1>0, <1>3, <1>4, <3>1
    <3>3. nx2[Place(d, h1, i)] = c[h1][i + 1]
      BY <1>0, <3>1, <3>2 DEF Linked
    <3>4. s[i + 1] = c[h1][i + 1]
      BY <1>0, <3>1
    <3> QED BY <1>1, <2>3, <3>1, <3>3, <3>4
  <2>4. CASE g = h1 /\ i = n1
    <3>1. i \in 0..Len(s) /\ i # Len(s) /\ i + 1 \in (n1 + 1)..(n1 + n2) /\ (i + 1) - n1 = 1
      BY <1>0, <2>4
    <3>2. Place(d, h1, i) = a
      BY <1>0, <1>2, <1>4, <2>4, <3>1
    <3>3. s[i + 1] = c[h2][(i + 1) - n1]
      BY <1>0, <3>1
    <3> QED BY <1>1, <1>2, <2>4, <3>1, <3>2, <3>3
  <2>5. CASE g = h1 /\ i > n1
    <3>1. /\ i \in 0..Len(s) /\ ~(i <= n1) /\ i - n1 \in 0..n2 /\ i - n1 # 0
          /\ (i = Len(s) <=> i - n1 = n2)
          /\ i # Len(s) => i + 1 \in (n1 + 1)..(n1 + n2) /\ (i + 1) - n1 = (i - n1) + 1
      <4>1. /\ i \in Int /\ n1 \in Nat /\ n2 \in Nat /\ Len(s) = n1 + n2 /\ 0 <= i
            /\ i <= Len(s) /\ i > n1
        BY <1>0, <1>1, <2>5
      <4> HIDE DEF n1, n2
      <4> QED BY <4>1
    <3>2. Place(d, h1, i) = Place(c, h2, i - n1) /\ Place(c, h2, i - n1) \in Cell \ {a, h2}
      BY <1>0, <1>3, <1>4, <3>1
    <3>3. nx[Place(c, h2, i - n1)] = IF i - n1 = n2 THEN Null ELSE c[h2][(i - n1) + 1]
      BY <1>0, <3>1 DEF Linked
    <3>4. i # Len(s) => s[i + 1] = c[h2][(i + 1) - n1]
      BY <1>0, <3>1
    <3> QED BY <1>1, <2>5, <3>1, <3>2, <3>3, <3>4
  <2>6. CASE g = h1
    BY <1>0, <1>1, <2>3, <2>4, <2>5, <2>6
  <2> QED BY <2>1, <2>2, <2>6
<1>7. \A f, g \in Heads : \A i \in 1..Len(c[f]), j \in 1..Len(c[g]) :
        c[f][i] = c[g][j] => f = g /\ i = j
  BY DEF Linked
<1>8. ASSUME NEW g \in Heads, NEW i \in 1..Len(c[g]), ~(g = h2 /\ i = 1)
      PROVE  pv2[c[g][i]] = pv[c[g][i]]
  <2>1. 1 \in 1..Len(c[h2]) /\ c[g][i] \in Elem
    BY <1>0
  <2>2. c[g][i] # b
    BY <1>0, <1>2, <1>7, <1>8, <2>1
  <2> QED BY <1>1, <2>1, <2>2
<1>9. ASSUME NEW g \in Heads, NEW i \in 1..Len(d[g])
      PROVE  pv2[d[g][i]] = Place(d, g, i - 1)
  <2>1. CASE g # h1
    <3>1. g # h2
      BY <1>1
    <3>2. d[g] = c[g] /\ Place(d, g, i - 1) = Place(c, g, i - 1)
      BY <1>1, <1>5, <2>1, <3>1
    <3>3. pv2[c[g][i]] = pv[c[g][i]]
      BY <1>8, <3>1, <3>2
    <3> QED BY <3>2, <3>3 DEF Linked
  <2>2. CASE g = h1 /\ i <= n1
    <3>1. i \in 1..n1 /\ i - 1 \in 0..Len(s) /\ i - 1 <= n1
      BY <1>0, <1>1, <2>2
    <3>2. d[h1][i] = c[h1][i] /\ Place(d, h1, i - 1) = Place(c, h1, i - 1)
      BY <1>0, <1>1, <1>4, <3>1
    <3>3. pv2[c[h1][i]] = pv[c[h1][i]]
      BY <1>0, <1>8, <3>1
    <3> QED BY <1>0, <2>2, <3>1, <3>2, <3>3 DEF Linked
  <2>3. CASE g = h1 /\ i = n1 + 1
    <3>1. /\ i \in (n1 + 1)..(n1 + n2) /\ i - n1 = 1 /\ i - 1 = n1 /\ n1 \in 0..Len(s)
          /\ n1 <= n1
      BY <1>0, <1>1, <2>3
    <3>2. d[h1][i] = b
      <4>1. s[i] = c[h2][1]
        BY <1>0, <3>1
      <4> QED BY <1>1, <1>2, <4>1
    <3>3. Place(d, h1, i - 1) = a
      BY <1>2, <1>4, <3>1
    <3> QED BY <2>3, <3>2, <3>3
  <2>4. CASE g = h1 /\ i > n1 + 1
    <3>1. /\ i \in (n1 + 1)..(n1 + n2) /\ i - n1 \in 1..n2 /\ i - n1 # 1
          /\ i - 1 \in 0..Len(s) /\ ~(i - 1 <= n1) /\ (i - 1) - n1 = (i - n1) - 1
      BY <1>0, <1>1, <2>4
    <3>2. d[h1][i] = c[h2][i - n1]
      BY <1>0, <1>1, <3>1
    <3>3. Place(d, h1, i - 1) = Place(c, h2, (i - n1) - 1)
      BY <1>4, <3>1
    <3>4. pv2[c[h2][i - n1]] = pv[c[h2][i - n1]]
      BY <1>0, <1>8, <3>1
    <3>5. pv[c[h2][i - n1]] = Place(c, h2, (i - n1) - 1)
      BY <1>0, <3>1 DEF Linked
    <3> QED BY <2>4, <3>2, <3>3, <3>4, <3>5
  <2>5. i \in Nat
    BY <1>0
  <2> QED BY <1>0, <2>1, <2>2, <2>3, <2>4, <2>5
<1>10. ASSUME NEW g \in TailHead PROVE pv2[g] = Place(d, g, Len(d[g]))
  <2>0. g \in Heads /\ g \in Cell /\ g # b
    BY <1>1, <1>2, QueuesAssumption DEF Heads, Cell
  <2>1. CASE g # h1 /\ g # h2
    <3>1. pv2[g] = pv[g]
      BY <2>0, <2>1
    <3> QED BY <1>1, <1>5, <2>0, <2>1, <3>1 DEF Linked
  <2>2. CASE g = h2
    BY <1>1, <1>5, <2>2
  <2>3. CASE g = h1
    <3>1. Len(s) \in 0..Len(s) /\ ~(Len(s) <= n1) /\ Len(s) - n1 = n2 /\ n2 # 0
      BY <1>0
    <3>2. Place(d, h1, Len(s)) = Place(c, h2, n2)
      BY <1>4, <3>1
    <3> QED BY <1>1, <1>2, <2>3, <3>1, <3>2 DEF Place
  <2> QED BY <2>1, <2>2, <2>3
<1>11. ASSUME NEW f \in Heads, NEW g \in Heads, NEW i \in 1..Len(d[f]), NEW j \in 1..Len(d[g]),
              d[f][i] = d[g][j]
       PROVE  f = g /\ i = j
  <2> DEFINE From(g0, i0) == IF g0 = h1 /\ i0 > n1 THEN h2 ELSE g0
             Old(g0, i0)  == IF g0 = h1 /\ i0 > n1 THEN i0 - n1 ELSE i0
  <2>1. \A g0 \in Heads : \A i0 \in 1..Len(d[g0]) :
          /\ From(g0, i0) \in Heads /\ Old(g0, i0) \in 1..Len(c[From(g0, i0)])
          /\ d[g0][i0] = c[From(g0, i0)][Old(g0, i0)] /\ g0 # h2
    <3> SUFFICES ASSUME NEW g0 \in Heads, NEW i0 \in 1..Len(d[g0])
                 PROVE  /\ From(g0, i0) \in Heads /\ Old(g0, i0) \in 1..Len(c[From(g0, i0)])
                        /\ d[g0][i0] = c[From(g0, i0)][Old(g0, i0)] /\ g0 # h2
      OBVIOUS
    <3>0. g0 # h2
      BY <1>1
    <3>1. CASE g0 # h1
      BY <1>1, <3>0, <3>1
    <3>2. CASE g0 = h1 /\ i0 > n1
      <4>1. i0 \in (n1 + 1)..(n1 + n2) /\ i0 - n1 \in 1..n2
        BY <1>0, <1>1, <3>2, SMTT(30)
      <4> QED BY <1>0, <1>1, <3>0, <3>2, <4>1
    <3>3. CASE g0 = h1 /\ i0 <= n1
      <4>1. i0 \in 1..n1 /\ ~(i0 > n1)
        BY <1>0, <1>1, <3>3
      <4> QED BY <1>0, <1>1, <3>0, <3>3, <4>1
    <3> QED BY <1>0, <3>1, <3>2, <3>3
  <2> HIDE DEF Old, From
  <2>2. /\ From(f, i) \in Heads /\ From(g, j) \in Heads
        /\ Old(f, i) \in 1..Len(c[From(f, i)]) /\ Old(g, j) \in 1..Len(c[From(g, j)])
        /\ c[From(f, i)][Old(f, i)] = c[From(g, j)][Old(g, j)] /\ f # h2 /\ g # h2
    BY <1>11, <2>1
  <2>3. From(f, i) = From(g, j) /\ Old(f, i) = Old(g, j)
    BY <1>7, <2>2
  <2>4. i \in Nat /\ j \in Nat
    BY <1>0
  <2> QED BY <1>0, <2>2, <2>3, <2>4 DEF Old, From
<1> QED BY <1>0, <1>1, <1>6, <1>9, <1>10, <1>11 DEF Linked, d, s

(* The pointers after TAILQ_SWAP and LIST_SWAP.                            *)
LinksSwap(nx, pv, nx2, pv2, h1, h2) ==
  /\ nx2 \in [Cell -> Elem \cup {Null}] /\ pv2 \in [Cell -> Cell \cup {Null}]
  /\ nx2[h1] = nx[h2] /\ nx2[h2] = nx[h1] /\ \A x \in Cell \ {h1, h2} : nx2[x] = nx[x]
  /\ nx[h1] # Null => pv2[nx[h1]] = h2
  /\ nx[h2] # Null => pv2[nx[h2]] = h1
  /\ h1 \in TailHead => /\ pv2[h1] = IF nx[h2] = Null THEN h1 ELSE pv[h2]
                        /\ pv2[h2] = IF nx[h1] = Null THEN h2 ELSE pv[h1]
  /\ \A x \in Cell \ {h1, h2} : x # nx[h1] /\ x # nx[h2] => pv2[x] = pv[x]

(* TAILQ_SWAP, LIST_SWAP: two lists change heads.                          *)
LEMMA Exchanged ==
  ASSUME NEW nx, NEW pv, NEW c, Linked(nx, pv, c),
         NEW h1 \in Heads, NEW h2 \in Heads, h1 # h2, h1 \in TailHead <=> h2 \in TailHead,
         NEW nx2, NEW pv2, LinksSwap(nx, pv, nx2, pv2, h1, h2)
  PROVE  Linked(nx2, pv2, [c EXCEPT ![h1] = c[h2], ![h2] = c[h1]])
<1> USE DEF LinksSwap
<1> DEFINE d == [c EXCEPT ![h1] = c[h2], ![h2] = c[h1]]
           Was(g) == IF g = h1 THEN h2 ELSE IF g = h2 THEN h1 ELSE g
<1>0. /\ c \in [Heads -> Seq(Elem)] /\ d \in [Heads -> Seq(Elem)]
      /\ \A g \in Heads : Was(g) \in Heads /\ d[g] = c[Was(g)] /\ Len(c[g]) \in Nat
      /\ Elem \subseteq Cell /\ Null \notin Cell /\ Heads \subseteq Cell
      /\ \A g \in Heads : g \notin Elem
  <2>1. c \in [Heads -> Seq(Elem)]
    BY DEF Linked
  <2> QED BY <2>1, QueuesAssumption DEF Heads, Cell
<1>1. \A g \in Heads : nx[g] = IF Len(c[g]) = 0 THEN Null ELSE c[g][1]
  <2> SUFFICES ASSUME NEW g \in Heads PROVE nx[g] = IF Len(c[g]) = 0 THEN Null ELSE c[g][1]
    OBVIOUS
  <2>1. 0 \in 0..Len(c[g]) /\ Place(c, g, 0) = g
    BY <1>0 DEF Place
  <2>2. nx[Place(c, g, 0)] = IF 0 = Len(c[g]) THEN Null ELSE c[g][0 + 1]
    BY <2>1 DEF Linked
  <2> QED BY <2>1, <2>2
<1>2. \A g \in Heads : \A i : Place(d, g, i) = IF i = 0 THEN g ELSE Place(c, Was(g), i)
  BY <1>0 DEF Place
<1>3. \A f, g \in Heads : \A i \in 1..Len(c[f]), j \in 1..Len(c[g]) :
        c[f][i] = c[g][j] => f = g /\ i = j
  BY DEF Linked
<1>4. \A g \in Heads : nx2[g] = nx[Was(g)]
  BY <1>0
<1>4a. h1 = Was(h2) /\ h2 = Was(h1) /\ \A f, g \in Heads : Was(f) = Was(g) => f = g
  OBVIOUS
<1> HIDE DEF d
<1>5. ASSUME NEW g \in Heads, NEW i \in 0..Len(d[g])
      PROVE  nx2[Place(d, g, i)] = IF i = Len(d[g]) THEN Null ELSE d[g][i + 1]
  <2>0. d[g] = c[Was(g)] /\ Was(g) \in Heads
    BY <1>0
  <2>1. CASE i = 0
    <3>1. nx2[g] = nx[Was(g)] /\ Place(d, g, i) = g
      BY <1>2, <1>4, <2>1
    <3> HIDE DEF Was
    <3> QED BY <1>1, <2>0, <2>1, <3>1
  <2>2. CASE i # 0
    <3>1. Place(d, g, i) = c[Was(g)][i] /\ i \in 0..Len(c[Was(g)]) /\ c[Was(g)][i] \in Elem
          /\ Place(c, Was(g), i) = c[Was(g)][i]
      BY <1>0, <1>2, <2>0, <2>2 DEF Place
    <3>2. nx2[c[Was(g)][i]] = nx[c[Was(g)][i]]
      BY <1>0, <3>1, SMTT(30)
    <3> HIDE DEF Was
    <3> QED BY <2>0, <3>1, <3>2 DEF Linked
  <2> QED BY <2>1, <2>2
<1>6. ASSUME NEW g \in Heads, NEW i \in 1..Len(d[g])
      PROVE  pv2[d[g][i]] = Place(d, g, i - 1)
  <2>0. /\ d[g] = c[Was(g)] /\ Was(g) \in Heads /\ i \in 1..Len(c[Was(g)])
        /\ c[Was(g)][i] \in Elem /\ c[Was(g)][i] \in Cell \ {h1, h2} /\ i \in Nat
    BY <1>0
  <2>1. pv[c[Was(g)][i]] = Place(c, Was(g), i - 1)
    BY <2>0 DEF Linked
  <2>2. CASE i = 1 /\ g \in {h1, h2}
    <3>1. nx[Was(g)] = c[Was(g)][1] /\ nx[Was(g)] # Null
      BY <1>0, <1>1, <2>0, <2>2
    <3>2. pv2[nx[Was(g)]] = g
      BY <2>2, <3>1
    <3>3. Place(d, g, i - 1) = g
      BY <1>2, <2>2
    <3> QED BY <2>0, <2>2, <3>1, <3>2, <3>3
  <2>3. CASE ~(i = 1 /\ g \in {h1, h2})
    <3>1. c[Was(g)][i] # nx[h1] /\ c[Was(g)][i] # nx[h2]
      <4>1. ASSUME NEW f \in {h1, h2}, c[Was(g)][i] = nx[f] PROVE FALSE
        <5>1. Len(c[f]) # 0 /\ nx[f] = c[f][1]
          BY <1>0, <1>1, <2>0, <4>1
        <5>2. 1 \in 1..Len(c[f])
          BY <1>0, <5>1
        <5>3. Was(g) = f /\ i = 1
          BY <1>3, <2>0, <4>1, <5>1, <5>2
        <5> QED BY <2>3, <5>3
      <4> QED BY <4>1
    <3>2. pv2[c[Was(g)][i]] = Place(c, Was(g), i - 1)
      BY <2>0, <2>1, <3>1
    <3>3. CASE i = 1
      <4>1. Was(g) = g /\ Place(c, g, 0) = g /\ Place(d, g, 0) = g
        BY <1>2, <2>3, <3>3 DEF Place
      <4> QED BY <2>0, <3>2, <3>3, <4>1
    <3>4. CASE i # 1
      <4>1. i - 1 # 0
        BY <2>0, <3>4
      <4> QED BY <1>2, <2>0, <3>2, <4>1
    <3> QED BY <3>3, <3>4
  <2> QED BY <2>2, <2>3
<1>7. ASSUME NEW g \in TailHead PROVE pv2[g] = Place(d, g, Len(d[g]))
  <2>0. g \in Heads /\ g \in Cell /\ g \notin Elem
    BY <1>0 DEF Heads
  <2>1. pv[g] = Place(c, g, Len(c[g]))
    BY DEF Linked
  <2>2. CASE g \notin {h1, h2}
    <3>1. g # nx[h1] /\ g # nx[h2]
      BY <1>0, <2>0 DEF Linked
    <3>2. pv2[g] = pv[g] /\ Was(g) = g /\ d[g] = c[g]
      BY <1>0, <2>0, <2>2, <3>1
    <3> QED BY <2>1, <3>2 DEF Place
  <2>3. CASE g \in {h1, h2}
    <3>1. /\ Was(g) \in TailHead /\ Was(g) \in Heads /\ d[g] = c[Was(g)]
          /\ pv2[g] = IF nx[Was(g)] = Null THEN g ELSE pv[Was(g)]
      BY <1>0, <2>0, <2>3
    <3>2. pv[Was(g)] = Place(c, Was(g), Len(c[Was(g)]))
      BY <3>1 DEF Linked
    <3>3. CASE Len(c[Was(g)]) = 0
      <4>1. nx[Was(g)] = Null
        BY <1>1, <3>1, <3>3
      <4> QED BY <3>1, <3>3, <4>1 DEF Place
    <3>4. CASE Len(c[Was(g)]) # 0
      <4>1. 1 \in 1..Len(c[Was(g)])
        BY <1>0, <3>1, <3>4
      <4>2. nx[Was(g)] = c[Was(g)][1] /\ c[Was(g)][1] \in Elem
        BY <1>0, <1>1, <3>1, <3>4, <4>1
      <4>3. nx[Was(g)] # Null
        BY <1>0, <4>2
      <4> QED BY <3>1, <3>2, <3>4, <4>3 DEF Place
    <3> QED BY <3>3, <3>4
  <2> QED BY <2>2, <2>3
<1>8. ASSUME NEW f \in Heads, NEW g \in Heads, NEW i \in 1..Len(d[f]), NEW j \in 1..Len(d[g]),
             d[f][i] = d[g][j]
      PROVE  f = g /\ i = j
  <2>1. Was(f) = Was(g) /\ i = j
    BY <1>0, <1>3, <1>8
  <2> QED BY <1>4a, <2>1
<1> QED BY <1>0, <1>5, <1>6, <1>7, <1>8 DEF Linked, d

(* How the insertions write such a sequence.                               *)
LEMMA InsertedSeq ==
  ASSUME NEW s \in Seq(Elem), NEW e \in Elem, NEW k \in 0..Len(s)
  PROVE  /\ Inserted(s, Len(s), e, Append(s, e)) /\ Inserted(s, 0, e, <<e>> \o s)
         /\ Inserted(s, k, e, InsertAt(s, k + 1, e))
<1>1. Inserted(s, Len(s), e, Append(s, e)) /\ Inserted(s, 0, e, <<e>> \o s)
  BY DEF Inserted
<1>2. Inserted(s, k, e, InsertAt(s, k + 1, e))
  <2> DEFINE a == SubSeq(s, 1, k)
             b == SubSeq(s, k + 1, Len(s))
             r == InsertAt(s, k + 1, e)
  <2>1. /\ a \in Seq(Elem) /\ Len(a) = k /\ \A i \in 1..k : a[i] = s[i]
    OBVIOUS
  <2>2. /\ b \in Seq(Elem) /\ Len(b) = Len(s) - k /\ \A i \in 1..Len(b) : b[i] = s[k + i]
    OBVIOUS
  <2>3. r = (a \o <<e>>) \o b
    <3>1. (k + 1) - 1 = k
      OBVIOUS
    <3> QED BY <3>1 DEF InsertAt
  <2> HIDE DEF a, b, r
  <2>4. /\ a \o <<e>> \in Seq(Elem) /\ Len(a \o <<e>>) = k + 1
        /\ \A i \in 1..(k + 1) : (a \o <<e>>)[i] = IF i <= k THEN s[i] ELSE e
    BY <2>1
  <2>5. /\ r \in Seq(Elem) /\ Len(r) = Len(s) + 1
        /\ \A i \in 1..Len(r) : r[i] = IF i <= k + 1 THEN (a \o <<e>>)[i] ELSE b[i - (k + 1)]
    BY <2>2, <2>3, <2>4
  <2>6. ASSUME NEW i \in 1..Len(r), i > k + 1 PROVE r[i] = s[i - 1]
    <3>1. i - (k + 1) \in 1..Len(b) /\ k + (i - (k + 1)) = i - 1 /\ ~(i <= k + 1)
      BY <2>2, <2>5, <2>6
    <3> QED BY <2>2, <2>5, <3>1
  <2>7. ASSUME NEW i \in 1..Len(r), i <= k + 1 PROVE r[i] = IF i <= k THEN s[i] ELSE e
    BY <2>4, <2>5, <2>7
  <2> QED BY <2>5, <2>6, <2>7 DEF Inserted, r
<1> QED BY <1>1, <1>2

LEMMA ConcatIs ==
  ASSUME NEW S, NEW a \in Seq(S), NEW b \in Seq(S)
  PROVE  /\ a \o b \in Seq(S) /\ Len(a \o b) = Len(a) + Len(b)
         /\ \A i \in 1..(Len(a) + Len(b)) : (a \o b)[i] = IF i <= Len(a) THEN a[i] ELSE b[i - Len(a)]
         /\ b = <<>> => a \o b = a
  OBVIOUS

(* How a removal writes its.                                               *)
LEMMA RemovedSeq ==
  ASSUME NEW s \in Seq(Elem), NEW k \in 1..Len(s)
  PROVE  Removed(s, k, RemoveAt(s, k))
<1> DEFINE a == SubSeq(s, 1, k - 1)
           b == SubSeq(s, k + 1, Len(s))
           r == RemoveAt(s, k)
<1>1. /\ a \in Seq(Elem) /\ Len(a) = k - 1 /\ \A i \in 1..Len(a) : a[i] = s[i]
  OBVIOUS
<1>2. /\ b \in Seq(Elem) /\ Len(b) = Len(s) - k /\ \A i \in 1..Len(b) : b[i] = s[k + i]
  OBVIOUS
<1>3. r = a \o b
  BY DEF RemoveAt
<1> HIDE DEF a, b, r
<1>4. /\ a \o b \in Seq(Elem) /\ Len(a \o b) = Len(a) + Len(b)
      /\ \A i \in 1..(Len(a) + Len(b)) : (a \o b)[i] = IF i <= Len(a) THEN a[i] ELSE b[i - Len(a)]
  BY <1>1, <1>2, ConcatIs, ZenonT(60)
<1>5. r \in Seq(Elem) /\ Len(r) = Len(s) - 1
  BY <1>1, <1>2, <1>3, <1>4
<1>6. ASSUME NEW i \in 1..Len(r) PROVE r[i] = IF i < k THEN s[i] ELSE s[i + 1]
  <2>1. CASE i < k
    <3>1. i \in 1..Len(a) /\ i \in 1..(Len(a) + Len(b))
      BY <1>1, <1>2, <1>5, <2>1
    <3> QED BY <1>1, <1>3, <1>4, <2>1, <3>1
  <2>2. CASE ~(i < k)
    <3>1. /\ i - Len(a) \in 1..Len(b) /\ k + (i - Len(a)) = i + 1 /\ ~(i <= Len(a))
          /\ i \in 1..(Len(a) + Len(b))
      BY <1>1, <1>2, <1>5, <2>2
    <3> QED BY <1>2, <1>3, <1>4, <2>2, <3>1
  <2> QED BY <2>1, <2>2
<1> QED BY <1>5, <1>6 DEF Removed, r

(* The links and the content after a step.                                 *)
LEMMA Relinked ==
  ASSUME NEW nx2, NEW pv2, NEW c2, links' = [next |-> nx2, prev |-> pv2], content' = c2,
         Linked(nx2, pv2, c2)
  PROVE  QueuesInv'
  BY DEF QueuesInv, QueuesTypeOK, Linked, Heads

(* What the invariant says of the links record.                            *)
LEMMA LinksRecord ==
  ASSUME QueuesInv
  PROVE  /\ Linked(links.next, links.prev, content)
         /\ links = [next |-> links.next, prev |-> links.prev]
         /\ links.next \in [Cell -> Elem \cup {Null}] /\ links.prev \in [Cell -> Cell \cup {Null}]
         /\ content \in [Heads -> Seq(Elem)]
         /\ Elem \subseteq Cell /\ Heads \subseteq Cell /\ Null \notin Cell
         /\ TailHead \subseteq Heads /\ ListHead \subseteq Heads
         /\ \A h \in Heads : h \notin Elem
  BY QueuesAssumption DEF QueuesInv, QueuesTypeOK, Linked, Heads, Cell

(* The last place of a tail queue is where its head points to.             *)
LEMMA LastPlace ==
  ASSUME QueuesInv, NEW h \in Heads, NEW k \in 0..Len(content[h])
  PROVE  /\ links.next[Place(content, h, k)] = IF k = Len(content[h]) THEN Null ELSE content[h][k + 1]
         /\ h \in TailHead => links.prev[h] = Place(content, h, Len(content[h]))
         /\ Place(content, h, k) \in Cell
<1>1. Linked(links.next, links.prev, content)
  BY LinksRecord
<1>2. Place(content, h, k) \in Cell
  BY <1>1, PlacesDiffer
<1> QED BY <1>1, <1>2 DEF Linked

(* An insertion that makes the four assignments keeps the invariant.       *)
LEMMA InsertStep ==
  ASSUME QueuesInv, NEW h \in Heads, NEW k \in 0..Len(content[h]), NEW e \in Unlinked,
         NEW s, Inserted(content[h], k, e, s), content' = [content EXCEPT ![h] = s],
         NEW nx2, NEW pv2, links' = [next |-> nx2, prev |-> pv2],
         LinksIn(links.next, links.prev, nx2, pv2, h, Place(content, h, k), e)
  PROVE  QueuesInv'
<1>1. e \in Elem /\ links.prev[e] = Null
  BY DEF Unlinked
<1>2. Linked(nx2, pv2, [content EXCEPT ![h] = s])
  BY <1>1, LinkIn, LinksRecord
<1> QED BY <1>2, Relinked

LEMMA InsertTailStep == ASSUME QueuesInv, InsertTail PROVE QueuesInv'
<1>1. PICK h \in TailHead, e \in Unlinked :
        /\ links' = TAILQ_INSERT_TAIL(links, h, e)
        /\ content' = [content EXCEPT ![h] = Append(@, e)]
  BY DEF InsertTail
<1> DEFINE nx == links.next
           pv == links.prev
           k == Len(content[h])
           p == pv[h]
           nx2 == [nx EXCEPT ![e] = Null, ![p] = e]
           pv2 == [pv EXCEPT ![e] = p, ![h] = e]
<1>2. /\ h \in Heads /\ content[h] \in Seq(Elem) /\ k \in 0..Len(content[h]) /\ e \in Elem
      /\ pv[e] = Null /\ e \in Cell /\ h \in Cell /\ h # e
  BY LinksRecord DEF Unlinked
<1>3. p = Place(content, h, k) /\ p \in Cell /\ nx[p] = Null
  BY <1>2, LastPlace
<1>4. p # e
  BY <1>2, <1>3, LinksRecord, UnlinkedIsFree
<1>5. links' = [next |-> nx2, prev |-> pv2]
  BY <1>1, LinksRecord DEF TAILQ_INSERT_TAIL
<1>6. LinksIn(nx, pv, nx2, pv2, h, Place(content, h, k), e)
  BY <1>2, <1>3, <1>4, LinksRecord DEF LinksIn
<1>7. Inserted(content[h], k, e, Append(content[h], e))
  BY <1>2, InsertedSeq
<1>8. content' = [content EXCEPT ![h] = Append(content[h], e)]
  BY <1>1
<1> QED BY <1>2, <1>5, <1>6, <1>7, <1>8, InsertStep

(* Behind the head or an element x: INSERT_HEAD is INSERT_AFTER the head.  *)
LEMMA InsertBehind ==
  ASSUME QueuesInv, NEW h \in Heads, NEW k \in 0..Len(content[h]), NEW e \in Unlinked,
         NEW x, x = Place(content, h, k),
         links' = [Behind([links EXCEPT !.next[e] = links.next[x]], h, links.next[x], e)
                     EXCEPT !.next[x] = e, !.prev[e] = x],
         NEW s, Inserted(content[h], k, e, s), content' = [content EXCEPT ![h] = s]
  PROVE  QueuesInv'
<1> DEFINE nx == links.next
           pv == links.prev
           n  == nx[x]
           nx2 == [nx EXCEPT ![e] = n, ![x] = e]
           pv1 == IF n # Null THEN [pv EXCEPT ![n] = e]
                  ELSE IF h \in TailHead THEN [pv EXCEPT ![h] = e] ELSE pv
           pv2 == [pv1 EXCEPT ![e] = x]
<1>1. /\ content[h] \in Seq(Elem) /\ e \in Elem /\ pv[e] = Null /\ e \in Cell /\ h \in Cell /\ h # e
      /\ x \in Cell
  BY LinksRecord, LastPlace DEF Unlinked
<1>2. n \in Elem \cup {Null} /\ (n # Null => n \in Cell)
  BY <1>1, LinksRecord
<1>3. x # e /\ n # e
  <2>1. x # e
    BY <1>1, LinksRecord, UnlinkedIsFree
  <2>2. CASE k = Len(content[h])
    <3>1. n = Null /\ Null \notin Cell
      BY <2>2, LastPlace, LinksRecord
    <3> QED BY <1>1, <2>1, <3>1
  <2>3. CASE k # Len(content[h])
    <3>1. k + 1 \in 0..Len(content[h]) /\ k + 1 # 0
      BY <1>1, <2>3
    <3>2. n = Place(content, h, k + 1)
      BY <2>3, <3>1, LastPlace DEF Place
    <3> QED BY <1>1, <2>1, <3>1, <3>2, LinksRecord, UnlinkedIsFree
  <2> QED BY <2>1, <2>2, <2>3
<1>4. links' = [next |-> nx2, prev |-> pv2]
  BY LinksRecord DEF Behind
<1>5. LinksIn(nx, pv, nx2, pv2, h, Place(content, h, k), e)
  BY <1>1, <1>2, <1>3, LinksRecord DEF LinksIn
<1> HIDE DEF nx2, pv2
<1> QED BY <1>4, <1>5, InsertStep

LEMMA InsertHeadStep == ASSUME QueuesInv, InsertHead PROVE QueuesInv'
<1>1. PICK h \in Heads, e \in Unlinked :
        /\ links' = INSERT_HEAD(links, h, e)
        /\ content' = [content EXCEPT ![h] = <<e>> \o content[h]]
  BY DEF InsertHead, Heads
<1>2. e \in Elem /\ content[h] \in Seq(Elem) /\ 0 \in 0..Len(content[h])
  BY LinksRecord DEF Unlinked
<1>3. Inserted(content[h], 0, e, <<e>> \o content[h]) /\ h = Place(content, h, 0)
  BY <1>2, InsertedSeq DEF Place
<1> QED BY <1>1, <1>2, <1>3, InsertBehind DEF INSERT_HEAD

LEMMA InsertAfterStep == ASSUME QueuesInv, InsertAfter PROVE QueuesInv'
<1>1. PICK h \in Heads, e \in Unlinked : \E i \in DOMAIN content[h] :
        /\ links' = INSERT_AFTER(links, h, content[h][i], e)
        /\ content' = [content EXCEPT ![h] = InsertAt(content[h], i + 1, e)]
  BY DEF InsertAfter, Heads
<1>0. PICK i \in DOMAIN content[h] :
        /\ links' = INSERT_AFTER(links, h, content[h][i], e)
        /\ content' = [content EXCEPT ![h] = InsertAt(content[h], i + 1, e)]
  BY <1>1
<1>2. /\ e \in Elem /\ content[h] \in Seq(Elem) /\ i \in 0..Len(content[h])
      /\ content[h][i] = Place(content, h, i)
  BY LinksRecord DEF Unlinked, Place
<1>3. Inserted(content[h], i, e, InsertAt(content[h], i + 1, e))
  BY <1>2, InsertedSeq
<1> QED BY <1>0, <1>2, <1>3, InsertBehind DEF INSERT_AFTER

LEMMA InsertBeforeStep == ASSUME QueuesInv, InsertBefore PROVE QueuesInv'
<1>1. PICK h \in Heads, e \in Unlinked : \E i \in DOMAIN content[h] :
        /\ links' = INSERT_BEFORE(links, content[h][i], e)
        /\ content' = [content EXCEPT ![h] = InsertAt(content[h], i, e)]
  BY DEF InsertBefore, Heads
<1>0. PICK i \in DOMAIN content[h] :
        /\ links' = INSERT_BEFORE(links, content[h][i], e)
        /\ content' = [content EXCEPT ![h] = InsertAt(content[h], i, e)]
  BY <1>1
<1> DEFINE nx == links.next
           pv == links.prev
           k == i - 1
           x == content[h][i]
           p == pv[x]
           nx2 == [nx EXCEPT ![e] = x, ![p] = e]
           pv2 == [pv EXCEPT ![e] = p, ![x] = e]
<1>2. /\ e \in Elem /\ content[h] \in Seq(Elem) /\ i \in 1..Len(content[h]) /\ k \in 0..Len(content[h])
      /\ pv[e] = Null /\ e \in Cell /\ h \in Cell /\ h # e /\ x \in Cell /\ x \in Elem
      /\ k + 1 = i /\ k # Len(content[h])
  BY LinksRecord DEF Unlinked
<1>3. p = Place(content, h, k) /\ nx[p] = x /\ p \in Cell
  <2>1. p = Place(content, h, k)
    BY <1>2, LinksRecord DEF Linked
  <2> QED BY <1>2, <2>1, LastPlace
<1>4. p # e
  BY <1>2, <1>3, LinksRecord, UnlinkedIsFree
<1>5. x # e
  <2>1. x = Place(content, h, i) /\ i \in 0..Len(content[h])
    BY <1>2 DEF Place
  <2> QED BY <1>2, <2>1, LinksRecord, UnlinkedIsFree
<1>6. links' = [next |-> nx2, prev |-> pv2]
  BY <1>0, LinksRecord DEF INSERT_BEFORE
<1>7. LinksIn(nx, pv, nx2, pv2, h, Place(content, h, k), e)
  BY <1>2, <1>3, <1>4, <1>5, LinksRecord, SMTT(30) DEF LinksIn
<1>8. Inserted(content[h], k, e, InsertAt(content[h], i, e))
  BY <1>2, InsertedSeq
<1> HIDE DEF nx2, pv2, k
<1> QED BY <1>0, <1>2, <1>6, <1>7, <1>8, InsertStep

LEMMA UnlinkStep == ASSUME QueuesInv, Unlink PROVE QueuesInv'
<1>1. PICK h \in Heads : \E i \in DOMAIN content[h] :
        /\ links' = REMOVE(links, h, content[h][i])
        /\ content' = [content EXCEPT ![h] = RemoveAt(content[h], i)]
  BY DEF Unlink, Heads
<1>2. PICK k \in DOMAIN content[h] :
        /\ links' = REMOVE(links, h, content[h][k])
        /\ content' = [content EXCEPT ![h] = RemoveAt(content[h], k)]
  BY <1>1
<1> DEFINE nx == links.next
           pv == links.prev
           e == content[h][k]
           p == pv[e]
           n == nx[e]
           pv1 == IF n # Null THEN [pv EXCEPT ![n] = p]
                  ELSE IF h \in TailHead THEN [pv EXCEPT ![h] = p] ELSE pv
           nx2 == [nx EXCEPT ![p] = n, ![e] = Null]
           pv2 == [pv1 EXCEPT ![e] = Null]
<1>3. /\ content[h] \in Seq(Elem) /\ k \in 1..Len(content[h]) /\ k - 1 \in 0..Len(content[h])
      /\ k \in 0..Len(content[h])
      /\ e \in Elem /\ e \in Cell /\ h \in Cell /\ h # e /\ e = Place(content, h, k)
  BY LinksRecord DEF Place
<1>4. p = Place(content, h, k - 1) /\ p \in Cell /\ n \in Elem \cup {Null} /\ (n # Null => n \in Cell)
  <2>1. p = Place(content, h, k - 1)
    BY <1>3, LinksRecord DEF Linked
  <2> QED BY <1>3, <2>1, LastPlace, LinksRecord
<1>5. p # e
  <2>1. Linked(nx, pv, content) /\ k - 1 # k
    BY <1>3, LinksRecord
  <2> QED BY <1>3, <1>4, <2>1, PlacesDiffer
<1>6. n # e
  <2>1. CASE k = Len(content[h])
    <3>1. n = Null /\ Null \notin Cell
      BY <1>3, <2>1, LastPlace, LinksRecord
    <3> QED BY <1>3, <3>1
  <2>2. CASE k # Len(content[h])
    <3>1. k + 1 \in 0..Len(content[h]) /\ k + 1 # 0 /\ k + 1 # k
      BY <1>3, <2>2
    <3>2. n = Place(content, h, k + 1)
      BY <1>3, <2>2, <3>1, LastPlace DEF Place
    <3>3. Linked(nx, pv, content)
      BY LinksRecord
    <3> QED BY <1>3, <3>1, <3>2, <3>3, PlacesDiffer
  <2> QED BY <2>1, <2>2
<1>7. links' = [next |-> nx2, prev |-> pv2]
  BY <1>2, LinksRecord DEF Behind, REMOVE
<1>8. LinksOut(nx, pv, nx2, pv2, h, Place(content, h, k - 1), content[h][k])
  BY <1>3, <1>4, <1>5, <1>6, LinksRecord, ZenonT(60) DEF LinksOut
<1>9. Removed(content[h], k, RemoveAt(content[h], k))
  BY <1>3, RemovedSeq
<1> HIDE DEF nx2, pv2
<1>10. Linked(nx2, pv2, [content EXCEPT ![h] = RemoveAt(content[h], k)])
  BY <1>3, <1>8, <1>9, LinkOut, LinksRecord
<1> QED BY <1>2, <1>7, <1>10, Relinked

LEMMA ConcatStep == ASSUME QueuesInv, Concat PROVE QueuesInv'
<1>1. PICK h1 \in TailHead, h2 \in TailHead :
        /\ h1 # h2
        /\ links' = TAILQ_CONCAT(links, h1, h2)
        /\ content' = [content EXCEPT ![h1] = content[h1] \o content[h2], ![h2] = <<>>]
  BY DEF Concat
<1> DEFINE nx == links.next
           pv == links.prev
           a == pv[h1]
           b == nx[h2]
           nx2 == [nx EXCEPT ![a] = b, ![h2] = Null]
           pv2 == [pv EXCEPT ![b] = a, ![h1] = pv[h2], ![h2] = h2]
           c2 == [content EXCEPT ![h1] = content[h1] \o content[h2], ![h2] = <<>>]
<1>2. /\ h1 \in Heads /\ h2 \in Heads /\ content[h1] \in Seq(Elem) /\ content[h2] \in Seq(Elem)
      /\ h1 \in Cell /\ h2 \in Cell /\ h1 \notin Elem /\ h2 \notin Elem
      /\ Len(content[h1]) \in Nat /\ Len(content[h2]) \in Nat
  BY LinksRecord
<1>3. /\ b = IF Len(content[h2]) = 0 THEN Null ELSE content[h2][1]
      /\ a = Place(content, h1, Len(content[h1])) /\ a \in Cell
      /\ Len(content[h2]) # 0 => b # Null /\ b \in Elem /\ b \in Cell
  <2>1. h2 = Place(content, h2, 0) /\ 0 \in 0..Len(content[h2]) /\ 0 + 1 = 1
    BY <1>2 DEF Place
  <2>2. b = IF Len(content[h2]) = 0 THEN Null ELSE content[h2][1]
    BY <1>2, <2>1, LastPlace
  <2>3. a = Place(content, h1, Len(content[h1])) /\ a \in Cell
    BY <1>2, LastPlace
  <2>4. ASSUME Len(content[h2]) # 0 PROVE b # Null /\ b \in Elem /\ b \in Cell
    BY <1>2, <2>2, <2>4, LinksRecord
  <2> QED BY <2>2, <2>3, <2>4
<1>4. CASE Len(content[h2]) = 0
  <2>0. content[h2] = <<>>
    BY <1>2, <1>4
  <2>1. content[h2] = <<>> /\ content[h1] \o content[h2] = content[h1]
    BY <1>2, <2>0, ConcatIs
  <2>2. content' = content
    BY <1>1, <1>2, <2>1, LinksRecord
  <2>3. links' = links
    BY <1>1, <1>3, <1>4 DEF TAILQ_CONCAT
  <2> QED BY <2>2, <2>3 DEF QueuesInv, QueuesTypeOK
<1>5. CASE Len(content[h2]) # 0
  <2>0. b # Null /\ b \in Elem /\ b \in Cell /\ b # h1 /\ b # h2
    BY <1>2, <1>3, <1>5
  <2>1. a # h2
    <3>1. h2 = Place(content, h2, 0) /\ 0 \in 0..Len(content[h2]) /\ Len(content[h1]) \in 0..Len(content[h1])
      BY <1>2 DEF Place
    <3>2. Linked(nx, pv, content)
      BY LinksRecord
    <3> QED BY <1>1, <1>2, <1>3, <3>1, <3>2, PlacesDiffer
  <2>2. links' = [next |-> nx2, prev |-> pv2]
    BY <1>1, <2>0, LinksRecord DEF TAILQ_CONCAT
  <2>3. nx2 \in [Cell -> Elem \cup {Null}] /\ pv2 \in [Cell -> Cell \cup {Null}]
    BY <1>2, <1>3, <2>0, LinksRecord
  <2>4. /\ nx2[a] = b /\ nx2[h2] = Null /\ \A x \in Cell \ {a, h2} : nx2[x] = nx[x]
        /\ pv2[b] = a /\ pv2[h1] = pv[h2] /\ pv2[h2] = h2
        /\ \A x \in Cell \ {b, h1, h2} : pv2[x] = pv[x]
    BY <1>1, <1>2, <1>3, <2>0, <2>1, LinksRecord
  <2>5. Linked(nx, pv, content) /\ a = pv[h1] /\ b = nx[h2]
    BY LinksRecord
  <2> HIDE DEF nx2, pv2, nx, pv, a, b
  <2>6. LinksJoin(nx, pv, nx2, pv2, h1, h2)
    BY <2>3, <2>4, <2>5 DEF LinksJoin
  <2>7. Linked(nx2, pv2, c2)
    BY <1>1, <1>5, <2>5, <2>6, Joined
  <2> QED BY <1>1, <2>2, <2>7, Relinked
<1> QED BY <1>4, <1>5

LEMMA SwapStep == ASSUME QueuesInv, Swap PROVE QueuesInv'
<1>0. PICK heads \in {TailHead, ListHead} : \E h1, h2 \in heads :
        /\ h1 # h2
        /\ links' = SWAP(links, h1, h2)
        /\ content' = [content EXCEPT ![h1] = content[h2], ![h2] = content[h1]]
  BY DEF Swap
<1>1. PICK h1 \in Heads, h2 \in Heads :
        /\ h1 # h2 /\ (h1 \in TailHead <=> h2 \in TailHead)
        /\ links' = SWAP(links, h1, h2)
        /\ content' = [content EXCEPT ![h1] = content[h2], ![h2] = content[h1]]
  <2>1. \A h1, h2 \in heads : h1 \in Heads /\ h2 \in Heads /\ (h1 \in TailHead <=> h2 \in TailHead)
    BY QueuesAssumption DEF Heads
  <2> QED BY <1>0, <2>1
<1> DEFINE nx == links.next
           pv == links.prev
           b1 == nx[h1]
           b2 == nx[h2]
           nx2 == [nx EXCEPT ![h1] = b2, ![h2] = b1]
           pv1 == [pv EXCEPT ![h1] = pv[h2], ![h2] = pv[h1]]
           Back(f, n, h) == IF n # Null THEN [f EXCEPT ![n] = h]
                            ELSE IF h \in TailHead THEN [f EXCEPT ![h] = h] ELSE f
           pv2 == Back(Back(pv1, b2, h1), b1, h2)
<1>2. /\ h1 \in Cell /\ h2 \in Cell /\ h1 \notin Elem /\ h2 \notin Elem
      /\ b1 \in Elem \cup {Null} /\ b2 \in Elem \cup {Null} /\ Null \notin Cell /\ Elem \subseteq Cell
  BY LinksRecord
<1>3. b1 = b2 => b1 = Null
  <2>1. Linked(nx, pv, content)
    BY LinksRecord
  <2>2. \A g \in Heads : /\ content[g] \in Seq(Elem)
                         /\ nx[g] = IF Len(content[g]) = 0 THEN Null ELSE content[g][1]
    <3> SUFFICES ASSUME NEW g \in Heads
                 PROVE  /\ content[g] \in Seq(Elem)
                        /\ nx[g] = IF Len(content[g]) = 0 THEN Null ELSE content[g][1]
      OBVIOUS
    <3>1. /\ content[g] \in Seq(Elem) /\ g = Place(content, g, 0) /\ 0 \in 0..Len(content[g])
          /\ 0 + 1 = 1
      BY LinksRecord DEF Place
    <3> QED BY <3>1, LastPlace
  <2>3. SUFFICES ASSUME b1 = b2, b1 # Null PROVE FALSE
    OBVIOUS
  <2>4. 1 \in 1..Len(content[h1]) /\ 1 \in 1..Len(content[h2]) /\ content[h1][1] = content[h2][1]
    BY <2>2, <2>3
  <2> QED BY <1>1, <2>1, <2>4 DEF Linked
<1>4. links' = [next |-> nx2, prev |-> pv2]
  <2> DEFINE q1 == [next |-> nx2, prev |-> pv1]
  <2>1. q1 = [links EXCEPT !.next[h1] = b2, !.prev[h1] = pv[h2], !.next[h2] = b1, !.prev[h2] = pv[h1]]
    <3>1. links = [next |-> nx, prev |-> pv]
      BY LinksRecord
    <3> HIDE DEF nx, pv, b1, b2
    <3>2. PICK r : r = [links EXCEPT !.next[h1] = b2, !.prev[h1] = pv[h2],
                                     !.next[h2] = b1, !.prev[h2] = pv[h1]]
      OBVIOUS
    <3>3. r.next = nx2
      BY <3>1, <3>2
    <3>4. r.prev = pv1
      BY <3>1, <3>2
    <3>5. r = [next |-> r.next, prev |-> r.prev]
      BY <3>1, <3>2
    <3> QED BY <3>2, <3>3, <3>4, <3>5
  <2>2. q1.next[h1] = b2 /\ q1.next[h2] = b1
    BY <1>1, <1>2, LinksRecord
  <2>3. Behind(q1, h1, b2, h1) = [next |-> nx2, prev |-> Back(pv1, b2, h1)]
    BY DEF Behind
  <2>4. Behind([next |-> nx2, prev |-> Back(pv1, b2, h1)], h2, b1, h2) = [next |-> nx2, prev |-> pv2]
    BY DEF Behind
  <2>5. links' = Behind(Behind(q1, h1, q1.next[h1], h1), h2, q1.next[h2], h2)
    BY <1>1, <2>1 DEF SWAP
  <2> QED BY <2>2, <2>3, <2>4, <2>5
<1>5. /\ nx2 \in [Cell -> Elem \cup {Null}]
      /\ nx2[h1] = nx[h2] /\ nx2[h2] = nx[h1] /\ \A x \in Cell \ {h1, h2} : nx2[x] = nx[x]
  BY <1>1, <1>2, LinksRecord
<1>6. pv1 \in [Cell -> Cell \cup {Null}] /\ pv1[h1] = pv[h2] /\ pv1[h2] = pv[h1]
      /\ \A x \in Cell \ {h1, h2} : pv1[x] = pv[x]
  BY <1>1, <1>2, LinksRecord
<1> HIDE DEF pv1, nx2
<1>7. /\ pv2 \in [Cell -> Cell \cup {Null}]
      /\ nx[h1] # Null => pv2[nx[h1]] = h2
      /\ nx[h2] # Null => pv2[nx[h2]] = h1
      /\ h1 \in TailHead => /\ pv2[h1] = IF nx[h2] = Null THEN h1 ELSE pv[h2]
                            /\ pv2[h2] = IF nx[h1] = Null THEN h2 ELSE pv[h1]
      /\ \A x \in Cell \ {h1, h2} : x # nx[h1] /\ x # nx[h2] => pv2[x] = pv[x]
  BY <1>1, <1>2, <1>3, <1>6
<1> HIDE DEF pv2
<1>8. Linked(nx2, pv2, [content EXCEPT ![h1] = content[h2], ![h2] = content[h1]])
  <2>1. Linked(nx, pv, content)
    BY LinksRecord
  <2> HIDE DEF nx, pv
  <2>2. LinksSwap(nx, pv, nx2, pv2, h1, h2)
    BY <1>5, <1>7 DEF LinksSwap
  <2> QED BY <1>1, <2>1, <2>2, Exchanged
<1> QED BY <1>1, <1>4, <1>8, Relinked

LEMMA QueuesInitInv == QueuesInit => QueuesInv
<1> SUFFICES ASSUME QueuesInit PROVE QueuesInv
  OBVIOUS
<1>1. /\ links.next = [x \in Cell |-> Null] /\ content = [h \in Heads |-> <<>>]
      /\ links.prev = [x \in Cell |-> IF x \in TailHead THEN x ELSE Null]
      /\ TailHead \subseteq Cell /\ Heads \subseteq Cell
  BY DEF QueuesInit, Heads, Cell
<1>2. QueuesTypeOK
  BY <1>1 DEF QueuesTypeOK, QueuesInit, Heads
<1>3. Linked(links.next, links.prev, content)
  BY <1>1, <1>2 DEF Linked, Place, QueuesTypeOK, Heads
<1> QED BY <1>2, <1>3 DEF QueuesInv

(* Linked lists are the sequences they hold, in both directions.           *)
LEMMA LinkedIsSequence == QueuesInv => IsSequence
<1> SUFFICES ASSUME QueuesInv PROVE IsSequence
  OBVIOUS
<1> DEFINE nx == links.next
           pv == links.prev
           c == content
<1>1. Linked(nx, pv, c)
  BY LinksRecord
<1>2. ASSUME NEW h \in Heads PROVE Forward(links, h, c[h])
  <2>1. /\ c[h] \in Seq(Elem) /\ Len(c[h]) \in Nat /\ h = Place(c, h, 0) /\ 0 \in 0..Len(c[h])
        /\ 0 + 1 = 1
    BY LinksRecord DEF Place
  <2>2. nx[h] = IF c[h] = <<>> THEN Null ELSE c[h][1]
    BY <2>1, LastPlace
  <2>3. ASSUME NEW i \in DOMAIN c[h] PROVE nx[c[h][i]] = IF i = Len(c[h]) THEN Null ELSE c[h][i + 1]
    <3>1. i \in 0..Len(c[h]) /\ c[h][i] = Place(c, h, i)
      BY <2>1 DEF Place
    <3> QED BY <3>1, LastPlace
  <2> QED BY <2>2, <2>3 DEF Forward
<1>3. ASSUME NEW h \in Heads, NEW i \in 1..Len(c[h])
      PROVE  /\ pv[c[h][i]] = Place(c, h, i - 1)
             /\ i = 1 => pv[c[h][i]] = h
             /\ i # 1 => /\ i - 1 \in 1..Len(c[h]) /\ pv[c[h][i]] = c[h][i - 1]
                         /\ pv[c[h][i - 1]] = Place(c, h, i - 2)
  <2>1. c[h] \in Seq(Elem) /\ Len(c[h]) \in Nat
    BY LinksRecord
  <2>2. pv[c[h][i]] = Place(c, h, i - 1)
    BY <1>1 DEF Linked
  <2>3. CASE i = 1
    BY <2>2, <2>3 DEF Place
  <2>4. CASE i # 1
    <3>1. i - 1 \in 1..Len(c[h]) /\ i - 1 # 0 /\ (i - 1) - 1 = i - 2
      BY <2>1, <2>4
    <3>2. pv[c[h][i - 1]] = Place(c, h, (i - 1) - 1)
      BY <1>1, <3>1 DEF Linked
    <3> QED BY <2>2, <2>4, <3>1, <3>2 DEF Place
  <2> QED BY <2>2, <2>3, <2>4
<1>4. ASSUME NEW h \in TailHead PROVE Backward(links, h, c[h])
  <2>0. h \in Heads /\ c[h] \in Seq(Elem) /\ Len(c[h]) \in Nat /\ pv[h] = Place(c, h, Len(c[h]))
    BY <1>1, LinksRecord DEF Linked
  <2>1. TAILQ_LAST(links, h) = IF c[h] = <<>> THEN Null ELSE c[h][Len(c[h])]
    <3>1. CASE Len(c[h]) = 0
      <4>1. pv[h] = h /\ c[h] = <<>> /\ nx[h] = Null
        BY <1>2, <2>0, <3>1 DEF Place, Forward
      <4> QED BY <4>1 DEF TAILQ_LAST, TAILQ_PREV
    <3>2. CASE Len(c[h]) # 0
      <4> DEFINE n == Len(c[h])
      <4>1. n \in 1..Len(c[h]) /\ pv[h] = c[h][n] /\ n - 1 \in 0..Len(c[h]) /\ n - 1 # Len(c[h])
            /\ (n - 1) + 1 = n /\ c[h] # <<>>
        BY <2>0, <3>2 DEF Place
      <4>2. pv[c[h][n]] = Place(c, h, n - 1)
        BY <1>3, <2>0, <4>1
      <4>3. nx[Place(c, h, n - 1)] = c[h][n]
        BY <2>0, <4>1, LastPlace
      <4> QED BY <4>1, <4>2, <4>3 DEF TAILQ_LAST, TAILQ_PREV
    <3> QED BY <3>1, <3>2
  <2>2. ASSUME NEW i \in DOMAIN c[h] PROVE TAILQ_PREV(links, c[h][i]) = IF i = 1 THEN Null ELSE c[h][i - 1]
    <3>1. i \in 1..Len(c[h])
      BY <2>0
    <3>2. CASE i = 1
      <4>1. pv[c[h][i]] = h /\ pv[h] = Place(c, h, Len(c[h])) /\ Len(c[h]) \in 0..Len(c[h])
        BY <1>3, <2>0, <3>1, <3>2
      <4>2. nx[Place(c, h, Len(c[h]))] = Null
        BY <2>0, <4>1, LastPlace
      <4> QED BY <3>2, <4>1, <4>2 DEF TAILQ_PREV
    <3>3. CASE i # 1
      <4>1. pv[c[h][i]] = c[h][i - 1] /\ pv[c[h][i - 1]] = Place(c, h, i - 2)
        BY <1>3, <2>0, <3>1, <3>3
      <4>2. i - 2 \in 0..Len(c[h]) /\ i - 2 # Len(c[h]) /\ (i - 2) + 1 = i - 1
        BY <2>0, <3>1, <3>3
      <4>3. nx[Place(c, h, i - 2)] = c[h][i - 1]
        BY <2>0, <4>2, LastPlace
      <4> QED BY <3>3, <4>1, <4>3 DEF TAILQ_PREV
    <3> QED BY <3>2, <3>3
  <2> QED BY <2>1, <2>2 DEF Backward
<1>5. ASSUME NEW h \in ListHead, NEW i \in DOMAIN c[h]
      PROVE  LIST_PREV(links, h, c[h][i]) = IF i = 1 THEN Null ELSE c[h][i - 1]
  <2>1. h \in Heads /\ c[h] \in Seq(Elem) /\ i \in 1..Len(c[h]) /\ h \notin Elem
    BY LinksRecord
  <2>2. CASE i = 1
    BY <1>3, <2>1, <2>2 DEF LIST_PREV
  <2>3. CASE i # 1
    <3>1. pv[c[h][i]] = c[h][i - 1] /\ i - 1 \in 1..Len(c[h])
      BY <1>3, <2>1, <2>3
    <3>2. c[h][i - 1] \in Elem
      BY <2>1, <3>1
    <3> QED BY <2>1, <2>3, <3>1, <3>2 DEF LIST_PREV
  <2> QED BY <2>2, <2>3
<1> QED BY <1>2, <1>4, <1>5 DEF IsSequence, Heads

(* Walked forwards or backwards, each tail queue and list of queue.h holds *)
(* the elements its insertions and removals put there, in order, whatever  *)
(* the heads and elements and however often they are joined or exchanged.  *)
THEOREM IsSequenceHolds == QueuesSpec => [](QueuesTypeOK /\ IsSequence)
<1>1. QueuesInv /\ [QueuesNext]_queues_vars => QueuesInv'
  <2> SUFFICES ASSUME QueuesInv, [QueuesNext]_queues_vars PROVE QueuesInv'
    OBVIOUS
  <2>1. CASE QueuesNext
    BY <2>1, InsertTailStep, InsertHeadStep, InsertAfterStep, InsertBeforeStep, UnlinkStep,
       ConcatStep, SwapStep DEF QueuesNext
  <2>2. CASE UNCHANGED queues_vars
    BY <2>2 DEF queues_vars, QueuesInv, QueuesTypeOK, Linked, Heads
  <2> QED BY <2>1, <2>2
<1>2. QueuesInv => QueuesTypeOK /\ IsSequence
  BY LinkedIsSequence DEF QueuesInv
<1> QED BY QueuesInitInv, <1>1, <1>2, PTL DEF QueuesSpec

=============================================================================
