------------------------------- MODULE Tailq -------------------------------
(***************************************************************************)
(* The TAILQ lists of queue.h as sequences: TAILQ_INSERT_TAIL is Append,   *)
(* TAILQ_FIRST is Head.  A list threads through one link field per         *)
(* element, so the code relies on an element being in a list at most once. *)
(***************************************************************************)
EXTENDS Naturals, SequencesExt

InQ(x, q) == \E i \in 1..Len(q) : q[i] = x

Distinct(q) == \A i, j \in 1..Len(q) : q[i] = q[j] => i = j

(* TAILQ_REMOVE                                                            *)
TailqRemove(q, x) ==
  IF InQ(x, q) THEN RemoveAt(q, CHOOSE i \in 1..Len(q) : q[i] = x) ELSE q
=============================================================================
