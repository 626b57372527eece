---------------------------- MODULE ChanService ----------------------------
(***************************************************************************)
(* What a set of channels promises its users: each one passes values on in *)
(* the order in which the sends were called, each at most once.  A send    *)
(* that is given up, or whose select was served elsewhere, withdraws its   *)
(* value.                                                                  *)
(***************************************************************************)
EXTENDS Subseq

CONSTANTS Chan, Val

VARIABLES pending,  \* per channel: the values on offer, oldest first
          taken     \* per channel: the values handed to receivers, in order

Without(s, gone) == Kept(s, {i \in DOMAIN s : s[i] \notin gone})

(* What one step may do to channel c once its withdrawn values are out.    *)
(* A select may offer several values on one channel, or none.              *)
Offer(c, rest) == /\ pending'[c] \in Seq(Val) /\ Len(pending'[c]) >= Len(rest)
                  /\ SubSeq(pending'[c], 1, Len(rest)) = rest
                  /\ taken'[c] = taken[c]
Take(c, rest)  == /\ rest # <<>>
                  /\ pending'[c] = Tail(rest)
                  /\ taken'[c] = Append(taken[c], Head(rest))
Pass(c, rest)  == /\ rest = <<>> /\ pending'[c] = <<>>
                  /\ \E v \in Val : taken'[c] = Append(taken[c], v)

Step(c) == \E gone \in SUBSET Val :
  LET rest == Without(pending[c], gone)
  IN  Offer(c, rest) \/ Take(c, rest) \/ Pass(c, rest)

Init == pending = [c \in Chan |-> <<>>] /\ taken = [c \in Chan |-> <<>>]
Next == \A c \in Chan : Step(c)
Spec == Init /\ [][Next]_<<pending, taken>>
=============================================================================
