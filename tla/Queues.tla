------------------------------- MODULE Queues -------------------------------
(***************************************************************************)
(* The pointers of the intrusive tail queues and lists of queue.h; the     *)
(* other modules take them for sequences.  A cell is a head or an element; *)
(* heads and elements begin with a pointer to the next element and then    *)
(* have an address: tqh_first and tqh_last of a head, tqe_next and         *)
(* tqe_prev of an element (TAILQ_LAST and TAILQ_PREV rest on this).  The   *)
(* address &x->next is written x.                                          *)
(***************************************************************************)
EXTENDS Integers, Sequences, SequencesExt


CONSTANTS TailHead, ListHead, Elem

Cell == TailHead \cup ListHead \cup Elem
Null == "null"

ASSUME QueuesAssumption ==
  /\ Null \notin Cell
  /\ TailHead \cap ListHead = {} /\ (TailHead \cup ListHead) \cap Elem = {}

VARIABLES
  links,    \* the fields next and prev of every cell
  content   \* history: per head, the sequence the caller expects

queues_vars == <<links, content>>

(* TAILQ_INIT and LIST_INIT; a list head has no second field.              *)
QueuesInit ==
  /\ links = [next |-> [x \in Cell |-> Null],
              prev |-> [x \in Cell |-> IF x \in TailHead THEN x ELSE Null]]
  /\ content = [h \in TailHead \cup ListHead |-> <<>>]

(* Fault: the tail of a queue whose last element goes is not moved.        *)
Behind_KeepsLast(q, h, next, at) ==
  IF next # Null THEN [q EXCEPT !.prev[next] = at] ELSE q

(* The assignment of the address `at' where the link behind e ends: to the *)
(* next element's prev, or to tqh_last of a tail queue.                    *)
Behind(q, h, next, at) ==
  IF next # Null THEN [q EXCEPT !.prev[next] = at]
  ELSE IF h \in TailHead THEN [q EXCEPT !.prev[h] = at]
  ELSE q

TAILQ_INSERT_TAIL(q, h, e) ==
  LET last == q.prev[h]
  IN  [q EXCEPT !.next[e] = Null, !.prev[e] = last, !.next[last] = e, !.prev[h] = e]

(* TAILQ_INSERT_HEAD(h, e) and LIST_INSERT_HEAD(h, e)                      *)
INSERT_HEAD(q, h, e) ==
  [Behind([q EXCEPT !.next[e] = q.next[h]], h, q.next[h], e)
     EXCEPT !.next[h] = e, !.prev[e] = h]

(* TAILQ_INSERT_AFTER(h, x, e) and LIST_INSERT_AFTER(x, e)                 *)
INSERT_AFTER(q, h, x, e) ==
  [Behind([q EXCEPT !.next[e] = q.next[x]], h, q.next[x], e)
     EXCEPT !.next[x] = e, !.prev[e] = x]

(* TAILQ_INSERT_BEFORE(x, e) and LIST_INSERT_BEFORE(x, e)                  *)
INSERT_BEFORE(q, x, e) ==
  LET before == q.prev[x]
  IN  [q EXCEPT !.prev[e] = before, !.next[e] = x, !.next[before] = e, !.prev[x] = e]

(* TAILQ_REMOVE(h, e) and LIST_REMOVE(e).  The fields of e, which keep     *)
(* their values until e is inserted again, are cleared.                    *)
REMOVE(q, h, e) ==
  [Behind(q, h, q.next[e], q.prev[e])
     EXCEPT !.next[q.prev[e]] = q.next[e], !.next[e] = Null, !.prev[e] = Null]

TAILQ_CONCAT(q, h1, h2) ==
  IF q.next[h2] = Null THEN q
  ELSE [q EXCEPT !.next[q.prev[h1]] = q.next[h2], !.prev[q.next[h2]] = q.prev[h1],
                 !.prev[h1] = q.prev[h2], !.next[h2] = Null, !.prev[h2] = h2]

(* TAILQ_SWAP and LIST_SWAP: the heads change their fields, then the first *)
(* element of each (or an empty tail queue's head) is made to point back.  *)
SWAP(q, h1, h2) ==
  LET q1 == [q EXCEPT !.next[h1] = q.next[h2], !.prev[h1] = q.prev[h2],
                      !.next[h2] = q.next[h1], !.prev[h2] = q.prev[h1]]
  IN  Behind(Behind(q1, h1, q1.next[h1], h1), h2, q1.next[h2], h2)

TAILQ_PREV(q, e) == q.next[q.prev[q.prev[e]]]
TAILQ_LAST(q, h) == TAILQ_PREV(q, h)
LIST_PREV(q, h, e) == IF q.prev[e] = h THEN Null ELSE q.prev[e]

(* TAILQ_FOREACH and LIST_FOREACH visit the elements of s, one by one, and *)
(* then end.                                                               *)
Forward(q, h, s) ==
  /\ q.next[h] = IF s = <<>> THEN Null ELSE s[1]
  /\ \A i \in DOMAIN s : q.next[s[i]] = IF i = Len(s) THEN Null ELSE s[i + 1]

(* TAILQ_FOREACH_REVERSE visits the elements of s from the last one on.    *)
Backward(q, h, s) ==
  /\ TAILQ_LAST(q, h) = IF s = <<>> THEN Null ELSE s[Len(s)]
  /\ \A i \in DOMAIN s : TAILQ_PREV(q, s[i]) = IF i = 1 THEN Null ELSE s[i - 1]

Unlinked == {e \in Elem : links.prev[e] = Null}

InsertTail == \E h \in TailHead, e \in Unlinked :
  /\ links' = TAILQ_INSERT_TAIL(links, h, e)
  /\ content' = [content EXCEPT ![h] = Append(@, e)]

InsertHead == \E h \in TailHead \cup ListHead, e \in Unlinked :
  /\ links' = INSERT_HEAD(links, h, e)
  /\ content' = [content EXCEPT ![h] = <<e>> \o @]

InsertAfter == \E h \in TailHead \cup ListHead, e \in Unlinked :
  \E i \in DOMAIN content[h] :
    /\ links' = INSERT_AFTER(links, h, content[h][i], e)
    /\ content' = [content EXCEPT ![h] = InsertAt(@, i + 1, e)]

InsertBefore == \E h \in TailHead \cup ListHead, e \in Unlinked :
  \E i \in DOMAIN content[h] :
    /\ links' = INSERT_BEFORE(links, content[h][i], e)
    /\ content' = [content EXCEPT ![h] = InsertAt(@, i, e)]

Unlink == \E h \in TailHead \cup ListHead : \E i \in DOMAIN content[h] :
  /\ links' = REMOVE(links, h, content[h][i])
  /\ content' = [content EXCEPT ![h] = RemoveAt(@, i)]

Concat == \E h1, h2 \in TailHead :
  /\ h1 # h2
  /\ links' = TAILQ_CONCAT(links, h1, h2)
  /\ content' = [content EXCEPT ![h1] = @ \o content[h2], ![h2] = <<>>]

Swap == \E heads \in {TailHead, ListHead} : \E h1, h2 \in heads :
  /\ h1 # h2
  /\ links' = SWAP(links, h1, h2)
  /\ content' = [content EXCEPT ![h1] = content[h2], ![h2] = content[h1]]

QueuesNext == \/ InsertTail \/ InsertHead \/ InsertAfter \/ InsertBefore
        \/ Unlink \/ Concat \/ Swap

QueuesSpec == QueuesInit /\ [][QueuesNext]_queues_vars

QueuesTypeOK == /\ links \in [next : [Cell -> Elem \cup {Null}],
                        prev : [Cell -> Cell \cup {Null}]]
          /\ content \in [TailHead \cup ListHead -> Seq(Elem)]

(* Walked forwards or backwards, a queue holds the elements its insertions *)
(* and removals put there, in order, also after the last or the only one   *)
(* was removed and after queues were joined or exchanged: the scheduler's  *)
(* ready queue loses and repeats nobody.                                   *)
IsSequence ==
  /\ \A h \in TailHead \cup ListHead : Forward(links, h, content[h])
  /\ \A h \in TailHead : Backward(links, h, content[h])
  /\ \A h \in ListHead : \A i \in DOMAIN content[h] :
       LIST_PREV(links, h, content[h][i]) = IF i = 1 THEN Null ELSE content[h][i - 1]
=============================================================================
