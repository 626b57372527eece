------------------------------- MODULE Ringbuf ------------------------------
(***************************************************************************)
(* The byte ring of klib/ringbuf.c.  Unlike fifo.c it lets a writer        *)
(* overtake the reader: what does not fit pushes the oldest bytes out.     *)
(* Pointers are offsets into buf.                                          *)
(***************************************************************************)
EXTENDS Integers, Sequences, SequencesExt

CONSTANTS Ring,      \* the ring buffers
          Capacity,  \* their capacities
          Data,      \* byte strings to copy in
          MaxSize,   \* bound on the size append_into grows a buffer to
          MaxCalls   \* bound on the number of calls

(* rings: the buffers; held (history): the bytes each should hold;         *)
(* moved: the bytes the last call took out of one, and those it should     *)
(* have; calls: the number of calls.                                       *)
VARIABLES rings, held, moved, calls

ring_vars == <<rings, held, moved, calls>>

Smaller(m, n) == IF m <= n THEN m ELSE n

(* struct ringbuf_t *)
ringbuf_new(capacity) ==
  [buf |-> [i \in 0..capacity |-> 0], head |-> 0, tail |-> 0, size |-> capacity + 1]

Init ==
  /\ rings = [r \in Ring |-> ringbuf_new(Capacity[r])]
  /\ held = [r \in Ring |-> <<>>]
  /\ moved = <<<<>>, <<>>>> /\ calls = 0

ringbuf_capacity(rb) == rb.size - 1

ringbuf_bytes_free(rb) ==
  IF rb.head >= rb.tail THEN ringbuf_capacity(rb) - (rb.head - rb.tail)
  ELSE rb.tail - rb.head - 1

ringbuf_bytes_used(rb) == ringbuf_capacity(rb) - ringbuf_bytes_free(rb)

ringbuf_nextp(rb, p) == (p + 1) % rb.size

(* `if (p == bufend) p = buf', after every advance of head or tail.        *)
Wrap(rb, p) == IF p = rb.size THEN 0 ELSE p

RECURSIVE Put(_, _)

(* The loop of memset, memcpy_into and copy: up to the end of the buffer,  *)
(* then from its start, as often as there are bytes left.                  *)
Put(rb, bytes) ==
  LET n == Smaller(rb.size - rb.head, Len(bytes))
  IN  IF bytes = <<>> THEN rb
      ELSE Put([rb EXCEPT !.buf = [i \in DOMAIN @ |->
                                     IF i \in rb.head..(rb.head + n - 1)
                                     THEN bytes[i - rb.head + 1] ELSE @[i]],
                          !.head = Wrap(rb, rb.head + n)],
               SubSeq(bytes, n + 1, Len(bytes)))

(* The oldest bytes are lost: the tail moves just past the head.           *)
Overtaken(rb, overflow) ==
  IF overflow THEN [rb EXCEPT !.tail = ringbuf_nextp(rb, rb.head)] ELSE rb

RECURSIVE Taken(_, _)

(* The loop of memcpy_from and copy: the count bytes from the tail on.     *)
Taken(rb, count) ==
  LET n == Smaller(rb.size - rb.tail, count)
  IN  IF count = 0 THEN <<>>
      ELSE [i \in 1..n |-> rb.buf[rb.tail + i - 1]]
             \o Taken([rb EXCEPT !.tail = Wrap(rb, rb.tail + n)], count - n)

(* The tail after those rounds.                                            *)
Consumed(rb, count) == [rb EXCEPT !.tail = (@ + count) % rb.size]

Into(rb, bytes) == Overtaken(Put(rb, bytes), Len(bytes) > ringbuf_bytes_free(rb))

RECURSIVE ringbuf_findchr(_, _, _)

ringbuf_findchr(rb, c, offset) ==
  LET used  == ringbuf_bytes_used(rb)
      start == (rb.tail + offset) % rb.size
      n     == Smaller(rb.size - start, used - offset)
      found == {i \in 0..(n - 1) : rb.buf[start + i] = c}
  IN  IF offset >= used THEN used
      ELSE IF found # {} THEN offset + (CHOOSE i \in found : \A j \in found : i <= j)
      ELSE ringbuf_findchr(rb, c, offset + n)

-----------------------------------------------------------------------------
(* What a ring of that capacity holds after bytes were added to old.       *)
LastOf(old, bytes, capacity) ==
  LET all == old \o bytes
  IN  SubSeq(all, 1 + Len(all) - Smaller(capacity, Len(all)), Len(all))

Calls == calls < MaxCalls /\ calls' = calls + 1
NothingTaken == moved' = <<<<>>, <<>>>>

(* r now is rb; bytes were added to it.                                    *)
Added(r, rb, bytes) ==
  /\ Calls
  /\ rings' = [rings EXCEPT ![r] = rb]
  /\ held' = [held EXCEPT ![r] = LastOf(@, bytes, ringbuf_capacity(rb))]
  /\ NothingTaken

ringbuf_memcpy_into(r, bytes) == Added(r, Into(rings[r], bytes), bytes)

(* At most one round over the whole buffer is written.                     *)
ringbuf_memset(r, c, len) ==
  LET bytes == [i \in 1..Smaller(len, rings[r].size) |-> c]
  IN  Added(r, Into(rings[r], bytes), bytes)

(* A buffer that is too small is replaced by a larger one.                 *)
ringbuf_append_into(r, bytes) ==
  LET old == rings[r]
      big == ringbuf_new((old.size - 1) * 2 + Len(bytes))
      rb  == IF ringbuf_bytes_free(old) >= Len(bytes) THEN old
             ELSE Into(big, Taken(old, ringbuf_bytes_used(old)))
  IN  rb.size <= MaxSize /\ Added(r, Into(rb, bytes), bytes)

(* read(2) is asked for at most the bytes up to the end of the buffer, and *)
(* delivers these ones (none: an error or end of file).                    *)
ringbuf_read(r, bytes) ==
  LET rb == rings[r]
  IN  /\ Len(bytes) <= rb.size - rb.head
      /\ Added(r, Into(rb, bytes), bytes)

(* The first count bytes leave r; got is what the caller is given.         *)
Removed(r, count, got) ==
  /\ Calls
  /\ moved' = <<got, SubSeq(held[r], 1, count)>>

ringbuf_memcpy_from(r, count) ==
  LET rb == rings[r]
  IN  IF count > ringbuf_bytes_used(rb)
      THEN Calls /\ NothingTaken /\ UNCHANGED <<rings, held>>
      ELSE /\ Removed(r, count, Taken(rb, count))
           /\ rings' = [rings EXCEPT ![r] = Consumed(rb, count)]
           /\ held' = [held EXCEPT ![r] = SubSeq(@, count + 1, Len(@))]

(* write(2) is offered the bytes up to the end of the buffer and accepts   *)
(* the first n of them.                                                    *)
ringbuf_write(r, count, n) ==
  LET rb == rings[r]
  IN  /\ count <= ringbuf_bytes_used(rb)
      /\ n <= Smaller(rb.size - rb.tail, count)
      /\ Removed(r, n, [i \in 1..n |-> rb.buf[rb.tail + i - 1]])
      /\ rings' = [rings EXCEPT ![r].tail = Wrap(rb, @ + n)]
      /\ held' = [held EXCEPT ![r] = SubSeq(@, n + 1, Len(@))]

(* From one ring to another, which may overflow; refused when the source   *)
(* has not as much.                                                        *)
ringbuf_copy(dst, src, count) ==
  LET got == Taken(rings[src], count)
  IN  /\ dst # src /\ count <= ringbuf_bytes_used(rings[src])
      /\ Removed(src, count, got)
      /\ rings' = [rings EXCEPT ![dst] = Into(@, got), ![src] = Consumed(@, count)]
      /\ held' = [held EXCEPT
           ![dst] = LastOf(@, SubSeq(held[src], 1, count), ringbuf_capacity(rings[dst])),
           ![src] = SubSeq(@, count + 1, Len(@))]

ringbuf_reset(r) ==
  /\ Calls /\ NothingTaken
  /\ rings' = [rings EXCEPT ![r].head = 0, ![r].tail = 0]
  /\ held' = [held EXCEPT ![r] = <<>>]

Byte == UNION {Range(d) : d \in Data}

Next ==
  \E r \in Ring :
    \/ \E d \in Data : ringbuf_memcpy_into(r, d) \/ ringbuf_append_into(r, d)
                         \/ ringbuf_read(r, d)
    \/ \E c \in Byte, len \in {1, rings[r].size + 1} : ringbuf_memset(r, c, len)
    \/ \E count \in 0..(ringbuf_bytes_used(rings[r]) + 1) : ringbuf_memcpy_from(r, count)
    \/ \E count \in 1..ringbuf_bytes_used(rings[r]) :
         \/ \E n \in 0..count : ringbuf_write(r, count, n)
         \/ \E dst \in Ring : ringbuf_copy(dst, r, count)
    \/ ringbuf_reset(r)

Spec == Init /\ [][Next]_ring_vars

TypeOK ==
  /\ \A r \in Ring : LET rb == rings[r] IN
       /\ rb.size \in 1..MaxSize /\ DOMAIN rb.buf = 0..(rb.size - 1)
       /\ rb.head \in DOMAIN rb.buf /\ rb.tail \in DOMAIN rb.buf
  /\ calls \in 0..MaxCalls

(* Overflow, growth and wrap-around included, a ring holds the last bytes  *)
(* that went in and fit, in their order, gives them out oldest first, and  *)
(* findchr finds the first occurrence at or after any offset.              *)
RingKeepsLatest ==
  /\ moved[1] = moved[2]
  /\ \A r \in Ring :
       LET rb == rings[r]  used == held[r]
       IN  /\ Taken(rb, ringbuf_bytes_used(rb)) = used
           /\ \A c \in Byte, offset \in 0..(Len(used) + 1) :
                LET at == {i \in 0..(Len(used) - 1) : i >= offset /\ used[i + 1] = c}
                IN  ringbuf_findchr(rb, c, offset) =
                      IF at = {} THEN Len(used) ELSE CHOOSE i \in at : \A j \in at : i <= j
=============================================================================
