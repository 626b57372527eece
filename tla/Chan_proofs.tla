---------------------------- MODULE Chan_proofs ----------------------------
(***************************************************************************)
(* Proofs about Chan, for every number of lthreads, channels and values,   *)
(* every capacity and every set of select arguments.                       *)
(***************************************************************************)
EXTENDS Chan, Tailq_proofs, FiniteSetTheorems, SequenceTheorems

-----------------------------------------------------------------------------
(* Positions, smallest first                                               *)

(* A nonempty set of numbers has a minimum.                                *)
LEMMA MinNat ==
  ASSUME NEW S \in SUBSET Nat, S # {}
  PROVE  Min(S) \in S /\ \A y \in S : Min(S) <= y
<1>1. PICK x \in S : \A y \in S : ~(<<y, x>> \in OpToRel(<, Nat))
  BY NatLessThanWellFounded, WFMin
<1>2. \A y \in S : x <= y
  <2> SUFFICES ASSUME NEW y \in S, y < x PROVE FALSE
    OBVIOUS
  <2>1. <<y, x>> \in {ss \in Nat \X Nat : ss[1] < ss[2]}
    OBVIOUS
  <2> QED BY <1>1, <2>1 DEF OpToRel
<1> QED BY <1>2 DEF Min

(* The positions of a sequence of length n.                                *)
LEMMA UpTo ==
  ASSUME NEW n \in Nat
  PROVE  IsFiniteSet(1..n) /\ Cardinality(1..n) = n
  BY FS_Interval

(* The rank of a number in a finite set of numbers.                        *)
Rank(K, k) == Cardinality({i \in K : i <= k})

(* Ranks grow with the number and lie in 1 .. Cardinality(K).              *)
LEMMA RankGrows ==
  ASSUME NEW K \in SUBSET Nat, IsFiniteSet(K)
  PROVE  /\ \A k \in K : Rank(K, k) \in 1..Cardinality(K)
         /\ \A k, l \in K : k < l => Rank(K, k) < Rank(K, l)
         /\ Cardinality(K) \in Nat
<1>0. Cardinality(K) \in Nat
  BY FS_CardinalityType
<1>1. ASSUME NEW k \in K PROVE Rank(K, k) \in 1..Cardinality(K)
  <2> DEFINE B == {i \in K : i <= k}
  <2>1. IsFiniteSet(B) /\ Cardinality(B) <= Cardinality(K)
    BY FS_Subset
  <2>2. Cardinality(B) \in Nat /\ B # {}
    BY <2>1, FS_CardinalityType
  <2>3. Cardinality(B) # 0
    BY <2>1, <2>2, FS_EmptySet
  <2> QED BY <1>0, <2>1, <2>2, <2>3 DEF Rank
<1>2. ASSUME NEW k \in K, NEW l \in K, k < l PROVE Rank(K, k) < Rank(K, l)
  <2> DEFINE B == {i \in K : i <= k}
             C == {i \in K : i <= l}
  <2>1. IsFiniteSet(C) /\ B \in SUBSET C /\ B # C
    <3>0. k \in Nat /\ l \in Nat /\ \A i \in K : i \in Nat
      OBVIOUS
    <3>1. (\A i \in B : i \in C) /\ l \in C /\ l \notin B /\ (\A i \in C : i \in K)
      BY <1>2, <3>0
    <3>2. IsFiniteSet(C)
      BY <3>1, FS_Subset
    <3> HIDE DEF B, C
    <3> QED BY <3>1, <3>2
  <2>2. Cardinality(B) <= Cardinality(C) /\ Cardinality(B) # Cardinality(C) /\ IsFiniteSet(B)
    BY <2>1, FS_Subset
  <2>3. Cardinality(B) \in Nat /\ Cardinality(C) \in Nat
    BY <2>1, <2>2, FS_CardinalityType
  <2> QED BY <2>2, <2>3 DEF Rank
<1> QED BY <1>0, <1>1, <1>2

(* InOrder lists exactly the members of K, in increasing order.            *)
LEMMA InOrderIs ==
  ASSUME NEW K \in SUBSET Nat, IsFiniteSet(K)
  PROVE  /\ Cardinality(K) \in Nat
         /\ InOrder(K) \in [1..Cardinality(K) -> K]
         /\ \A j \in 1..Cardinality(K) : Rank(K, InOrder(K)[j]) = j
         /\ \A k \in K : \E j \in 1..Cardinality(K) : InOrder(K)[j] = k
         /\ \A i, j \in 1..Cardinality(K) : i < j => InOrder(K)[i] < InOrder(K)[j]
<1> DEFINE n == Cardinality(K)
           f == [k \in K |-> Rank(K, k)]
<1>1. n \in Nat /\ \A k \in K : Rank(K, k) \in 1..n
  BY RankGrows
<1>2. \A k, l \in K : Rank(K, k) = Rank(K, l) => k = l
  <2> SUFFICES ASSUME NEW k \in K, NEW l \in K, k # l PROVE Rank(K, k) # Rank(K, l)
    OBVIOUS
  <2>1. k < l \/ l < k
    OBVIOUS
  <2> QED BY <1>1, <2>1, RankGrows
<1>3. f \in Injection(K, 1..n)
  BY <1>1, <1>2 DEF Injection, IsInjective
<1>4. Cardinality(1..n) = n /\ IsFiniteSet(1..n)
  BY <1>1, FS_Interval
<1>5. f \in Surjection(K, 1..n)
  BY <1>3, <1>4, FS_Injection
<1>6. \A j \in 1..n : \E k \in K : Rank(K, k) = j
  BY <1>5 DEF Surjection
<1>7. \A j \in 1..n : InOrder(K)[j] \in K /\ Rank(K, InOrder(K)[j]) = j
  BY <1>6 DEF InOrder, Rank
<1>8. InOrder(K) \in [1..n -> K]
  BY <1>7 DEF InOrder
<1>9. \A k \in K : \E j \in 1..n : InOrder(K)[j] = k
  BY <1>1, <1>2, <1>7
<1>10. \A i, j \in 1..n : i < j => InOrder(K)[i] < InOrder(K)[j]
  <2> SUFFICES ASSUME NEW i \in 1..n, NEW j \in 1..n, i < j, ~(InOrder(K)[i] < InOrder(K)[j])
               PROVE  FALSE
    OBVIOUS
  <2>1. InOrder(K)[i] \in Nat /\ InOrder(K)[j] \in Nat /\ n \in Nat
    BY <1>1, <1>7
  <2>2. InOrder(K)[j] < InOrder(K)[i] \/ InOrder(K)[j] = InOrder(K)[i]
    BY <2>1
  <2>3. j <= i
    <3>1. CASE InOrder(K)[j] < InOrder(K)[i]
      <4>1. Rank(K, InOrder(K)[j]) < Rank(K, InOrder(K)[i])
        BY <1>7, <3>1, RankGrows
      <4> QED BY <1>1, <1>7, <4>1
    <3>2. CASE InOrder(K)[j] = InOrder(K)[i]
      <4>1. j = i
        BY <1>7, <3>2
      <4> QED BY <1>1, <4>1
    <3> QED BY <2>2, <3>1, <3>2
  <2> QED BY <1>1, <2>3
<1> QED BY <1>1, <1>7, <1>8, <1>9, <1>10

(* An increasing enumeration of K is InOrder(K).                           *)
LEMMA InOrderUnique ==
  ASSUME NEW K \in SUBSET Nat, NEW n \in Nat, NEW f \in [1..n -> K],
         \A i, j \in 1..n : i < j => f[i] < f[j],
         \A k \in K : \E j \in 1..n : f[j] = k
  PROVE  IsFiniteSet(K) /\ Cardinality(K) = n /\ InOrder(K) = f
<1>0. \A i, j \in 1..n : f[i] \in Nat /\ (f[i] = f[j] => i = j) /\ (f[i] <= f[j] => i <= j)
  <2> SUFFICES ASSUME NEW i \in 1..n, NEW j \in 1..n
               PROVE  f[i] \in Nat /\ (f[i] = f[j] => i = j) /\ (f[i] <= f[j] => i <= j)
    OBVIOUS
  <2>1. f[i] \in Nat /\ f[j] \in Nat
    OBVIOUS
  <2>2. i < j \/ i = j \/ j < i
    OBVIOUS
  <2> QED BY <2>1, <2>2
<1>1. f \in Bijection(1..n, K)
  BY <1>0 DEF Bijection, Injection, Surjection, IsInjective
<1>2. IsFiniteSet(1..n) /\ Cardinality(1..n) = n
  BY FS_Interval
<1>3. IsFiniteSet(K) /\ Cardinality(K) = n
  BY <1>1, <1>2, FS_Bijection DEF ExistsBijection
<1>4. ASSUME NEW j \in 1..n PROVE Rank(K, f[j]) = j
  <2> DEFINE B == {i \in K : i <= f[j]}
             g == [i \in 1..j |-> f[i]]
  <2>1. \A i \in 1..j : i \in 1..n /\ f[i] \in B
    <3> SUFFICES ASSUME NEW i \in 1..j PROVE i \in 1..n /\ f[i] \in K /\ f[i] <= f[j]
      OBVIOUS
    <3>1. i \in 1..n /\ (i < j \/ i = j)
      OBVIOUS
    <3> QED BY <1>0, <3>1
  <2>2. \A b \in B : \E i \in 1..j : f[i] = b
    <3> SUFFICES ASSUME NEW b \in B PROVE \E i \in 1..j : f[i] = b
      OBVIOUS
    <3>1. PICK i \in 1..n : f[i] = b
      OBVIOUS
    <3>2. i <= j
      BY <1>0, <3>1
    <3> QED BY <3>1, <3>2
  <2> HIDE DEF B
  <2>3. g \in Bijection(1..j, B)
    BY <1>0, <2>1, <2>2 DEF Bijection, Injection, Surjection, IsInjective
  <2>4. IsFiniteSet(1..j) /\ Cardinality(1..j) = j
    BY FS_Interval
  <2>5. Cardinality(B) = j
    BY <2>3, <2>4, FS_Bijection DEF ExistsBijection
  <2> QED BY <2>5 DEF Rank, B
<1>5. \A j \in 1..n : InOrder(K)[j] = f[j]
  <2> SUFFICES ASSUME NEW j \in 1..n PROVE InOrder(K)[j] = f[j]
    OBVIOUS
  <2>1. InOrder(K)[j] \in K /\ f[j] \in K /\ Rank(K, InOrder(K)[j]) = j /\ Rank(K, f[j]) = j
    BY <1>3, <1>4, InOrderIs
  <2>2. InOrder(K)[j] \in Nat /\ f[j] \in Nat
    BY <2>1
  <2>3. ~(InOrder(K)[j] < f[j]) /\ ~(f[j] < InOrder(K)[j])
    <3>1. \A k, l \in K : k < l => Rank(K, k) < Rank(K, l)
      BY <1>3, RankGrows
    <3>2. ASSUME InOrder(K)[j] < f[j] PROVE FALSE
      <4>1. Rank(K, InOrder(K)[j]) < Rank(K, f[j])
        BY <2>1, <3>1, <3>2
      <4> QED BY <2>1, <4>1
    <3>3. ASSUME f[j] < InOrder(K)[j] PROVE FALSE
      <4>1. Rank(K, f[j]) < Rank(K, InOrder(K)[j])
        BY <2>1, <3>1, <3>3
      <4> QED BY <2>1, <4>1
    <3> QED BY <3>2, <3>3
  <2> QED BY <2>2, <2>3
<1> QED BY <1>3, <1>5, InOrderIs

(* What Kept leaves: the elements at the positions kept, in order.         *)
LEMMA KeptIs ==
  ASSUME NEW S, NEW q \in Seq(S), NEW K \in SUBSET DOMAIN q
  PROVE  /\ IsFiniteSet(K) /\ Cardinality(K) \in Nat
         /\ Kept(q, K) \in Seq(S) /\ Len(Kept(q, K)) = Cardinality(K)
         /\ \A y : InQ(y, Kept(q, K)) <=> \E k \in K : q[k] = y
         /\ Distinct(q) => Distinct(Kept(q, K))
<1> DEFINE n == Cardinality(K)
           o == InOrder(K)
           r == Kept(q, K)
<1>0. DOMAIN q = 1..Len(q) /\ Len(q) \in Nat
  OBVIOUS
<1>1. K \in SUBSET Nat /\ IsFiniteSet(K)
  <2>1. IsFiniteSet(1..Len(q))
    BY <1>0, FS_Interval
  <2>2. K \in SUBSET (1..Len(q))
    BY <1>0
  <2> QED BY <2>1, <2>2, FS_Subset
<1>2. /\ n \in Nat /\ o \in [1..n -> K]
      /\ \A k \in K : \E j \in 1..n : o[j] = k
      /\ \A i, j \in 1..n : i < j => o[i] < o[j]
  BY <1>1, InOrderIs
<1> HIDE DEF n, o
<1>3. r = [j \in 1..n |-> q[o[j]]]
  BY DEF Kept, n, o
<1>4. \A j \in 1..n : q[o[j]] \in S
  BY <1>0, <1>2
<1>5. r \in Seq(S) /\ Len(r) = n
  BY <1>2, <1>3, <1>4
<1> HIDE DEF r
<1>6. ASSUME NEW y PROVE InQ(y, r) <=> \E k \in K : q[k] = y
  BY <1>2, <1>3, <1>5 DEF InQ
<1>7. ASSUME Distinct(q) PROVE Distinct(r)
  <2> SUFFICES ASSUME NEW i \in 1..n, NEW j \in 1..n, r[i] = r[j] PROVE i = j
    BY <1>5 DEF Distinct
  <2>1. q[o[i]] = q[o[j]] /\ o[i] \in 1..Len(q) /\ o[j] \in 1..Len(q)
    BY <1>0, <1>2, <1>3
  <2>2. o[i] = o[j] /\ o[i] \in Nat
    BY <1>0, <1>7, <2>1 DEF Distinct
  <2>3. ~(o[i] < o[j]) /\ ~(o[j] < o[i])
    BY <2>2
  <2>4. ~(i < j) /\ ~(j < i)
    BY <1>2, <2>3
  <2> QED BY <1>2, <2>4
<1> QED BY <1>1, <1>2, <1>5, <1>6, <1>7 DEF n, r

-----------------------------------------------------------------------------
(* The inductive invariant                                                 *)

(* lthread p is in a call that asks to send the i-th of its messages.      *)
Asks(p, i) == pc[p] # "idle" /\ i \in WIdx(sel[p])

(* A served selector, and no other, has the number of its channel.         *)
ReadyOK ==
  \A p \in Lthread : /\ pc[p] = "ready" <=> sel[p].target # None
                     /\ pc[p] = "ready" => sel[p].target \in 1..Len(sel[p].chans)

(* The values asked to be sent are of one call only, and what a served     *)
(* sender asked to send has gone.                                          *)
AskOK ==
  /\ \A p \in Lthread, i \in 1..LTHR_SEL_CHANS :
       Asks(p, i) => sel[p].msgs[i] \in Val /\ fate[sel[p].msgs[i]] = "waiting"
  /\ \A p, q \in Lthread, i, j \in 1..LTHR_SEL_CHANS :
       Asks(p, i) /\ Asks(q, j) /\ sel[p].msgs[i] = sel[q].msgs[j] => p = q /\ i = j
  /\ \A p \in Lthread, v \in Val : Passed(p, v) => v \in Buffered \cup Taken

(* The values sent so far are 1 .. n.                                      *)
FreshOK == \E n \in 0..MaxVal : \A v \in Val : fate[v] # "unused" <=> v <= n

(* All the values in the sequences f, and: each is in one place.           *)
All(f) == UNION {Range(f[c]) : c \in Chan}
Inj(f) == \A c, d \in Chan : \A i \in 1..Len(f[c]), j \in 1..Len(f[d]) :
            f[c][i] = f[d][j] => c = d /\ i = j

(* A value is in one place of one buffer, and has left it once taken.      *)
ValOK == Inj(queue) /\ Buffered \cap Taken = {} /\ returned \subseteq Taken

(* The part of TypeOK and QueuedWhileBlocked about the wait queues.        *)
QueuesOK ==
  /\ sendq \in [Chan -> Seq(Wait)] /\ recvq \in [Chan -> Seq(Wait)]
  /\ send_count \in [Chan -> Nat] /\ recv_count \in [Chan -> Nat]
  /\ \A c \in Chan, w \in Wait :
       /\ InQ(w, sendq[c]) <=> WaitsOn(w, c, WIdx(sel[w[1]]))
       /\ InQ(w, recvq[c]) <=> WaitsOn(w, c, RIdx(sel[w[1]]))
  /\ \A c \in Chan : Distinct(sendq[c]) /\ Distinct(recvq[c])
  /\ \A c \in Chan : send_count[c] = Len(sendq[c]) /\ recv_count[c] = Len(recvq[c])

(* NobodyWaitsInVain, by the members of the queues.                        *)
VainOK ==
  \A c \in Chan :
    /\ \A w : InQ(w, sendq[c]) => ~Room(c)
    /\ \A w : InQ(w, recvq[c]) => queue[c] = <<>> /\ ~closed[c]
    /\ \A v, w : InQ(v, sendq[c]) /\ InQ(w, recvq[c]) => v[1] = w[1]

IInv ==
  /\ TypeOK /\ QueuesOK /\ ReadyOK /\ VainOK
  /\ AskOK /\ FreshOK /\ ValOK /\ SendHonest /\ HandedToOne

-----------------------------------------------------------------------------
(* The wait queues                                                         *)

(* Membership of a sequence, for NobodyWaitsInVain, Buffered and Taken.    *)
LEMMA SeqMembers ==
  ASSUME NEW S, NEW q \in Seq(S)
  PROVE  /\ \A y : y \in Range(q) <=> InQ(y, q)
         /\ \A y : InQ(y, q) => y \in S
         /\ q # <<>> <=> \E y : InQ(y, q)
<1>1. DOMAIN q = 1..Len(q) /\ Len(q) \in Nat /\ (q # <<>> <=> Len(q) > 0)
  OBVIOUS
<1>2. \A y : y \in Range(q) <=> InQ(y, q)
  BY <1>1 DEF Range, InQ
<1>3. \A y : InQ(y, q) => y \in S
  BY <1>1 DEF InQ
<1>4. q # <<>> => InQ(q[1], q)
  BY <1>1 DEF InQ
<1>5. (\E y : InQ(y, q)) => q # <<>>
  BY <1>1 DEF InQ
<1> QED BY <1>2, <1>3, <1>4, <1>5

(* sel_remove_all_chans takes out the waits of P and no others.            *)
LEMMA DequeuedIs ==
  ASSUME NEW q \in [Chan -> Seq(Wait)], NEW P
  PROVE  /\ Dequeued(q, P) \in [Chan -> Seq(Wait)]
         /\ \A c \in Chan :
              /\ \A w : InQ(w, Dequeued(q, P)[c]) <=> InQ(w, q[c]) /\ w[1] \notin P
              /\ Distinct(q[c]) => Distinct(Dequeued(q, P)[c])
<1> SUFFICES ASSUME NEW c \in Chan
             PROVE  /\ Dequeued(q, P)[c] \in Seq(Wait)
                    /\ \A w : InQ(w, Dequeued(q, P)[c]) <=> InQ(w, q[c]) /\ w[1] \notin P
                    /\ Distinct(q[c]) => Distinct(Dequeued(q, P)[c])
  BY DEF Dequeued
<1> DEFINE K == {k \in DOMAIN q[c] : q[c][k][1] \notin P}
<1>1. K \in SUBSET DOMAIN q[c] /\ q[c] \in Seq(Wait) /\ DOMAIN q[c] = 1..Len(q[c])
  OBVIOUS
<1>2. Dequeued(q, P)[c] = Kept(q[c], K)
  BY DEF Dequeued
<1>3. \A w : (\E k \in K : q[c][k] = w) <=> InQ(w, q[c]) /\ w[1] \notin P
  BY <1>1 DEF InQ
<1> HIDE DEF K
<1> QED BY <1>1, <1>2, <1>3, KeptIs

(* It shortens a queue by the number of the waits X it takes out.          *)
LEMMA LenDequeued ==
  ASSUME NEW q \in [Chan -> Seq(Wait)], NEW P, NEW c \in Chan, Distinct(q[c]), NEW X,
         \A w : w \in X <=> InQ(w, q[c]) /\ w[1] \in P
  PROVE  Len(Dequeued(q, P)[c]) = Len(q[c]) - Cardinality(X) /\ Cardinality(X) \in Nat
<1> DEFINE D == 1..Len(q[c])
           R == {k \in D : q[c][k][1] \in P}
           f == [k \in R |-> q[c][k]]
<1>1. Len(q[c]) \in Nat /\ DOMAIN q[c] = D /\ q[c] \in Seq(Wait)
  OBVIOUS
<1>2. IsFiniteSet(D) /\ Cardinality(D) = Len(q[c])
  BY <1>1, UpTo
<1>3. IsFiniteSet(R) /\ D \cap R = R
  <2>1. R \in SUBSET D /\ D \cap R = R
    OBVIOUS
  <2> HIDE DEF R, D
  <2> QED BY <1>2, <2>1, FS_Subset
<1>4. f \in Bijection(R, X)
  <2>1. \A k \in R : q[c][k] \in X
    BY DEF InQ
  <2>2. \A x \in X : \E k \in R : q[c][k] = x
    BY DEF InQ
  <2>3. \A k, l \in R : q[c][k] = q[c][l] => k = l
    BY DEF Distinct
  <2> QED BY <2>1, <2>2, <2>3 DEF Bijection, Injection, Surjection, IsInjective
<1>5. Cardinality(X) = Cardinality(R) /\ Cardinality(R) \in Nat
  BY <1>3, <1>4, FS_Bijection, FS_CardinalityType DEF ExistsBijection
<1>6. Cardinality(D \ R) = Len(q[c]) - Cardinality(R)
  <2> HIDE DEF D, R
  <2>1. Cardinality(D \ R) = Cardinality(D) - Cardinality(D \cap R)
    BY <1>2, FS_Difference
  <2> QED BY <1>2, <1>3, <2>1
<1>7. D \ R = {k \in DOMAIN q[c] : q[c][k][1] \notin P}
  <2>1. \A k : k \in D \ R <=> k \in DOMAIN q[c] /\ q[c][k][1] \notin P
    BY <1>1
  <2> HIDE DEF D, R
  <2> QED BY <2>1
<1>8. Len(Dequeued(q, P)[c]) = Cardinality(D \ R)
  <2>1. Dequeued(q, P)[c] = Kept(q[c], D \ R)
    BY <1>7 DEF Dequeued
  <2>2. D \ R \in SUBSET DOMAIN q[c]
    BY <1>1
  <2> HIDE DEF D, R
  <2> QED BY <1>1, <2>1, <2>2, KeptIs
<1> QED BY <1>5, <1>6, <1>8

(* Blocking appends the waits of the caller, each once.                    *)
Lengthened(q, p, s, idx) ==
  /\ Queued(q, p, s, idx) \in [Chan -> Seq(Wait)]
  /\ \A c \in Chan :
       /\ \A w \in Wait : InQ(w, Queued(q, p, s, idx)[c]) <=>
                    InQ(w, q[c]) \/ (w[1] = p /\ w[2] \in idx /\ s.chans[w[2]] = c)
       /\ Distinct(q[c]) => Distinct(Queued(q, p, s, idx)[c])
       /\ Len(Queued(q, p, s, idx)[c]) = Len(q[c]) + Cardinality({i \in idx : s.chans[i] = c})
       /\ Cardinality({i \in idx : s.chans[i] = c}) \in Nat

(* Block queues each wait of the caller once, behind those already there.  *)
LEMMA QueuedIs ==
  ASSUME NEW q \in [Chan -> Seq(Wait)], NEW p \in Lthread, NEW s,
         NEW idx \in SUBSET (1..LTHR_SEL_CHANS), \A c \in Chan : \A i : ~InQ(<<p, i>>, q[c])
  PROVE  Lengthened(q, p, s, idx)
<1> SUFFICES ASSUME NEW c \in Chan
    PROVE  /\ Queued(q, p, s, idx)[c] \in Seq(Wait)
           /\ \A w \in Wait : InQ(w, Queued(q, p, s, idx)[c]) <=>
                        InQ(w, q[c]) \/ (w[1] = p /\ w[2] \in idx /\ s.chans[w[2]] = c)
           /\ Distinct(q[c]) => Distinct(Queued(q, p, s, idx)[c])
           /\ Len(Queued(q, p, s, idx)[c]) = Len(q[c]) + Cardinality({i \in idx : s.chans[i] = c})
           /\ Cardinality({i \in idx : s.chans[i] = c}) \in Nat
  BY DEF Queued, Lengthened
<1> DEFINE M == {i \in idx : s.chans[i] = c}
           n == Cardinality(M)
           o == InOrder(M)
           r == [k \in 1..n |-> <<p, o[k]>>]
<1>1. M \in SUBSET Nat /\ IsFiniteSet(M)
  <2>1. IsFiniteSet(1..8) /\ LTHR_SEL_CHANS = 8
    BY UpTo DEF LTHR_SEL_CHANS
  <2>2. M \in SUBSET (1..8)
    BY <2>1
  <2> HIDE DEF M
  <2>3. M \in SUBSET Nat
    BY <2>2
  <2> QED BY <2>1, <2>2, <2>3, FS_Subset
<1>2. /\ n \in Nat /\ o \in [1..n -> M]
      /\ \A k \in M : \E j \in 1..n : o[j] = k
      /\ \A i, j \in 1..n : i < j => o[i] < o[j]
  <2> HIDE DEF M
  <2> QED BY <1>1, InOrderIs
<1>3. Queued(q, p, s, idx)[c] = q[c] \o r /\ q[c] \in Seq(Wait)
  BY DEF Queued
<1> HIDE DEF n, o
<1>4. r \in Seq(Wait) /\ Len(r) = n /\ \A j \in 1..n : r[j] = <<p, o[j]>>
  <2>1. \A j \in 1..n : <<p, o[j]>> \in Wait
    BY <1>2 DEF Wait
  <2>2. n \in Nat
    BY <1>2
  <2>3. r \in Seq(Wait)
    BY <2>1, <2>2
  <2>4. Len(r) = n
    BY <2>2
  <2> QED BY <2>3, <2>4
<1> HIDE DEF r
<1>5. \A w \in Wait : InQ(w, r) <=> w[1] = p /\ w[2] \in M
  <2> SUFFICES ASSUME NEW w \in Wait PROVE InQ(w, r) <=> w[1] = p /\ w[2] \in M
    OBVIOUS
  <2>1. w = <<w[1], w[2]>>
    BY DEF Wait
  <2>2. InQ(w, r) => w[1] = p /\ w[2] \in M
    BY <1>2, <1>4 DEF InQ
  <2>3. ASSUME w[1] = p, w[2] \in M PROVE InQ(w, r)
    <3>1. PICK j \in 1..n : o[j] = w[2]
      BY <1>2, <2>3
    <3>2. r[j] = w
      BY <1>4, <2>1, <2>3, <3>1
    <3> QED BY <1>4, <3>2 DEF InQ
  <2> QED BY <2>2, <2>3
<1>6. Distinct(r)
  <2> SUFFICES ASSUME NEW i \in 1..n, NEW j \in 1..n, r[i] = r[j] PROVE i = j
    BY <1>4 DEF Distinct
  <2>1. o[i] = o[j] /\ o[i] \in Nat
    BY <1>1, <1>2, <1>4
  <2>2. ~(i < j) /\ ~(j < i)
    BY <1>2, <2>1
  <2> QED BY <1>2, <2>2
<1>7. \A y : InQ(y, r) => ~InQ(y, q[c])
  BY <1>2, <1>4 DEF InQ
<1>8. /\ q[c] \o r \in Seq(Wait) /\ Len(q[c] \o r) = Len(q[c]) + Len(r)
      /\ \A y : InQ(y, q[c] \o r) <=> InQ(y, q[c]) \/ InQ(y, r)
      /\ Distinct(q[c]) => Distinct(q[c] \o r)
  BY <1>3, <1>4, <1>6, <1>7, QConcat
<1> QED BY <1>2, <1>3, <1>4, <1>5, <1>8 DEF n

(* What is in a queue is a wait of a blocked lthread.                      *)
LEMMA QueuesHold ==
  ASSUME QueuesOK, NEW c \in Chan, NEW w
  PROVE  /\ InQ(w, sendq[c]) => /\ w \in Wait /\ w[1] \in Lthread /\ w[2] \in 1..LTHR_SEL_CHANS
                                /\ w = <<w[1], w[2]>>
                                /\ WaitsOn(w, c, WIdx(sel[w[1]]))
         /\ InQ(w, recvq[c]) => /\ w \in Wait /\ w[1] \in Lthread /\ w[2] \in 1..LTHR_SEL_CHANS
                                /\ w = <<w[1], w[2]>>
                                /\ WaitsOn(w, c, RIdx(sel[w[1]]))
<1>1. sendq[c] \in Seq(Wait) /\ recvq[c] \in Seq(Wait)
  BY DEF QueuesOK
<1>2. InQ(w, sendq[c]) \/ InQ(w, recvq[c]) => w \in Wait
  BY <1>1, SeqMembers
<1>3. w \in Wait => w[1] \in Lthread /\ w[2] \in 1..LTHR_SEL_CHANS /\ w = <<w[1], w[2]>>
  BY DEF Wait
<1>4. w \in Wait => /\ InQ(w, sendq[c]) => WaitsOn(w, c, WIdx(sel[w[1]]))
                    /\ InQ(w, recvq[c]) => WaitsOn(w, c, RIdx(sel[w[1]]))
  BY DEF QueuesOK
<1> QED BY <1>2, <1>3, <1>4

(* The waits of the lthreads in P that the counter of channel c counts.    *)
CountedIn(P, c, Idx(_)) ==
  {x \in P \X (1..LTHR_SEL_CHANS) : x[2] \in Idx(sel[x[1]]) /\ sel[x[1]].chans[x[2]] = c}

(* sel_remove_all_chans on blocked lthreads, none of which stays blocked,  *)
(* keeps queues and counters in agreement.                                 *)
LEMMA Unqueued ==
  ASSUME QueuesOK, NEW P \in SUBSET Lthread, \A p \in P : Waiting(p) /\ ~Waiting(p)',
         sel_remove_all_chans(P),
         \A p \in Lthread \ P : \/ sel'[p] = sel[p] /\ pc'[p] = pc[p]
                                \/ ~Waiting(p) /\ ~Waiting(p)'
  PROVE  /\ QueuesOK'
         /\ \A c \in Chan : \A w : /\ InQ(w, sendq'[c]) <=> InQ(w, sendq[c]) /\ w[1] \notin P
                                   /\ InQ(w, recvq'[c]) <=> InQ(w, recvq[c]) /\ w[1] \notin P
<1>1. sendq' = Dequeued(sendq, P) /\ recvq' = Dequeued(recvq, P)
  BY DEF sel_remove_all_chans
<1>2. sendq \in [Chan -> Seq(Wait)] /\ recvq \in [Chan -> Seq(Wait)]
  BY DEF QueuesOK
<1>3. \A c \in Chan : \A w : /\ InQ(w, sendq'[c]) <=> InQ(w, sendq[c]) /\ w[1] \notin P
                             /\ InQ(w, recvq'[c]) <=> InQ(w, recvq[c]) /\ w[1] \notin P
  BY <1>1, <1>2, DequeuedIs
<1>4. /\ sendq' \in [Chan -> Seq(Wait)] /\ recvq' \in [Chan -> Seq(Wait)]
      /\ \A c \in Chan : Distinct(sendq'[c]) /\ Distinct(recvq'[c])
  BY <1>1, <1>2, DequeuedIs DEF QueuesOK
<1>5. ASSUME NEW c \in Chan, NEW w \in Wait
      PROVE  /\ InQ(w, sendq'[c]) <=> WaitsOn(w, c, WIdx(sel[w[1]]))'
             /\ InQ(w, recvq'[c]) <=> WaitsOn(w, c, RIdx(sel[w[1]]))'
  <2>1. /\ InQ(w, sendq[c]) <=> WaitsOn(w, c, WIdx(sel[w[1]]))
        /\ InQ(w, recvq[c]) <=> WaitsOn(w, c, RIdx(sel[w[1]]))
        /\ w[1] \in Lthread
    BY DEF QueuesOK, Wait
  <2>2. CASE w[1] \in P
    BY <1>3, <2>2 DEF WaitsOn
  <2>3. CASE w[1] \notin P
    <3>1. CASE sel'[w[1]] = sel[w[1]] /\ pc'[w[1]] = pc[w[1]]
      BY <1>3, <2>1, <2>3, <3>1 DEF WaitsOn, Waiting, WIdx, RIdx
    <3>2. CASE ~Waiting(w[1]) /\ ~Waiting(w[1])'
      BY <1>3, <2>1, <2>3, <3>2 DEF WaitsOn
    <3> QED BY <2>1, <2>3, <3>1, <3>2
  <2> QED BY <2>2, <2>3
<1>6. ASSUME NEW c \in Chan
      PROVE  send_count'[c] = Len(sendq'[c]) /\ recv_count'[c] = Len(recvq'[c])
  <2>1. /\ send_count'[c] = send_count[c] - Cardinality(CountedIn(P, c, WIdx))
        /\ recv_count'[c] = recv_count[c] - Cardinality(CountedIn(P, c, RIdx))
    BY DEF sel_remove_all_chans, Uncounted, CountedIn
  <2>2. ASSUME NEW w
        PROVE  /\ w \in CountedIn(P, c, WIdx) <=> InQ(w, sendq[c]) /\ w[1] \in P
               /\ w \in CountedIn(P, c, RIdx) <=> InQ(w, recvq[c]) /\ w[1] \in P
    <3>1. InQ(w, sendq[c]) \/ InQ(w, recvq[c]) => w \in Wait
      BY QueuesHold
    <3>2. w \in P \X (1..LTHR_SEL_CHANS) <=> w \in Wait /\ w[1] \in P
      BY DEF Wait
    <3>3. w \in Wait => /\ InQ(w, sendq[c]) <=> WaitsOn(w, c, WIdx(sel[w[1]]))
                        /\ InQ(w, recvq[c]) <=> WaitsOn(w, c, RIdx(sel[w[1]]))
      BY DEF QueuesOK
    <3> QED BY <3>1, <3>2, <3>3 DEF CountedIn, WaitsOn
  <2>3. Distinct(sendq[c]) /\ Distinct(recvq[c])
    BY DEF QueuesOK
  <2> DEFINE XW == CountedIn(P, c, WIdx)
             XR == CountedIn(P, c, RIdx)
  <2>4. \A w : w \in XW <=> InQ(w, sendq[c]) /\ w[1] \in P
    BY <2>2
  <2>8. \A w : w \in XR <=> InQ(w, recvq[c]) /\ w[1] \in P
    BY <2>2
  <2>5. send_count'[c] = send_count[c] - Cardinality(XW) /\ recv_count'[c] = recv_count[c] - Cardinality(XR)
    BY <2>1
  <2> HIDE DEF XW, XR
  <2>6. Len(sendq'[c]) = Len(sendq[c]) - Cardinality(XW)
    <3>1. sendq \in [Chan -> Seq(Wait)]
      BY <1>2
    <3>2. Distinct(sendq[c])
      BY <2>3
    <3>3. ASSUME NEW X, \A w : w \in X <=> InQ(w, sendq[c]) /\ w[1] \in P
          PROVE  Len(Dequeued(sendq, P)[c]) = Len(sendq[c]) - Cardinality(X)
      BY <3>1, <3>2, <3>3, LenDequeued
    <3> QED BY <1>1, <2>4, <3>3, Zenon
  <2>7. Len(recvq'[c]) = Len(recvq[c]) - Cardinality(XR)
    <3>1. recvq \in [Chan -> Seq(Wait)]
      BY <1>2
    <3>2. Distinct(recvq[c])
      BY <2>3
    <3>3. ASSUME NEW X, \A w : w \in X <=> InQ(w, recvq[c]) /\ w[1] \in P
          PROVE  Len(Dequeued(recvq, P)[c]) = Len(recvq[c]) - Cardinality(X)
      BY <3>1, <3>2, <3>3, LenDequeued
    <3> QED BY <1>1, <2>8, <3>3, Zenon
  <2> QED BY <2>5, <2>6, <2>7 DEF QueuesOK
<1>7. send_count' \in [Chan -> Nat] /\ recv_count' \in [Chan -> Nat]
  <2>1. \A c \in Chan : Len(sendq'[c]) \in Nat /\ Len(recvq'[c]) \in Nat
    BY <1>4
  <2>2. /\ send_count' = [c \in Chan |-> send_count'[c]]
        /\ recv_count' = [c \in Chan |-> recv_count'[c]]
    BY DEF sel_remove_all_chans, Uncounted
  <2> QED BY <1>6, <2>1, <2>2
<1> QED BY <1>3, <1>4, <1>5, <1>6, <1>7 DEF QueuesOK

-----------------------------------------------------------------------------
(* Selectors                                                               *)

(* The parts of a selector: each of its channels is for sending or for     *)
(* receiving, and there are at most LTHR_SEL_CHANS of them.                *)
LEMMA SelFacts ==
  ASSUME NEW s \in Sel
  PROVE  /\ s.chans \in Seq(Chan) /\ s.msgs \in Seq(Val \cup {NULL}) /\ s.wchan_count \in Nat
         /\ s.target \in Nat /\ Len(s.msgs) = Len(s.chans) /\ Len(s.chans) \in Nat
         /\ WIdx(s) \in SUBSET (1..LTHR_SEL_CHANS) /\ RIdx(s) \in SUBSET (1..LTHR_SEL_CHANS)
         /\ WIdx(s) \in SUBSET (1..Len(s.chans)) /\ RIdx(s) \in SUBSET (1..Len(s.chans))
         /\ \A i \in 1..Len(s.chans) : /\ i \in WIdx(s) <=> i \notin RIdx(s)
                                       /\ s.chans[i] \in Chan /\ s.msgs[i] \in Val \cup {NULL}
                                       /\ i \in 1..LTHR_SEL_CHANS
<1>1. /\ s.chans \in Seq(Chan) /\ s.msgs \in Seq(Val \cup {NULL}) /\ s.wchan_count \in Nat
      /\ s.target \in Nat /\ Len(s.msgs) = Len(s.chans) /\ Len(s.chans) <= 8
      /\ s.wchan_count <= Len(s.chans)
  BY DEF Sel, LTHR_SEL_CHANS
<1>2. Len(s.chans) \in Nat
  BY <1>1
<1>3. \A i \in 1..Len(s.chans) : s.chans[i] \in Chan /\ s.msgs[i] \in Val \cup {NULL}
  BY <1>1
<1>4. /\ WIdx(s) \in SUBSET (1..Len(s.chans)) /\ RIdx(s) \in SUBSET (1..Len(s.chans))
      /\ \A i \in 1..Len(s.chans) : i \in WIdx(s) <=> i \notin RIdx(s)
  BY <1>1, <1>2 DEF WIdx, RIdx
<1>5. \A i \in 1..Len(s.chans) : i \in 1..LTHR_SEL_CHANS
  BY <1>1, <1>2 DEF LTHR_SEL_CHANS
<1> QED BY <1>1, <1>2, <1>3, <1>4, <1>5

(* Serving a selector sets its target and one of its messages.             *)
Served(s, i, m) == [s EXCEPT !.target = i, !.msgs[i] = m]

(* Serving channel number i changes the target and message i, nothing      *)
(* else.                                                                   *)
LEMMA SelServed ==
  ASSUME NEW s \in Sel, NEW i \in 1..Len(s.chans), NEW m \in Val \cup {NULL}
  PROVE  /\ Served(s, i, m) \in Sel /\ Served(s, i, m).chans = s.chans
         /\ Served(s, i, m).wchan_count = s.wchan_count
         /\ Served(s, i, m).target = i /\ Served(s, i, m).msgs[i] = m
         /\ \A j \in 1..Len(s.chans) : j # i => Served(s, i, m).msgs[j] = s.msgs[j]
         /\ WIdx(Served(s, i, m)) = WIdx(s) /\ RIdx(Served(s, i, m)) = RIdx(s)
<1> SUFFICES ASSUME NEW t, t = [s EXCEPT !.target = i, !.msgs[i] = m]
             PROVE  /\ t \in Sel /\ t.chans = s.chans /\ t.wchan_count = s.wchan_count
                    /\ t.target = i /\ t.msgs[i] = m
                    /\ \A j \in 1..Len(s.chans) : j # i => t.msgs[j] = s.msgs[j]
                    /\ WIdx(t) = WIdx(s) /\ RIdx(t) = RIdx(s)
  BY Zenon DEF Served
<1>1. /\ s \in [chans : Seq(Chan), msgs : Seq(Val \cup {NULL}), wchan_count : Nat, target : Nat]
      /\ s.chans \in Seq(Chan) /\ s.msgs \in Seq(Val \cup {NULL}) /\ Len(s.msgs) = Len(s.chans)
      /\ Len(s.chans) \in Nat /\ Len(s.chans) <= LTHR_SEL_CHANS /\ s.wchan_count <= Len(s.chans)
  BY DEF Sel
<1>2. /\ t.chans = s.chans /\ t.wchan_count = s.wchan_count /\ t.target = i
      /\ t.msgs = [s.msgs EXCEPT ![i] = m]
  BY <1>1
<1>3. /\ t.msgs \in Seq(Val \cup {NULL}) /\ Len(t.msgs) = Len(s.msgs) /\ t.msgs[i] = m
      /\ \A j \in 1..Len(s.chans) : j # i => t.msgs[j] = s.msgs[j]
  BY <1>1, <1>2
<1>4. t = [chans |-> t.chans, msgs |-> t.msgs, wchan_count |-> t.wchan_count, target |-> t.target]
  BY <1>1
<1>5. t \in [chans : Seq(Chan), msgs : Seq(Val \cup {NULL}), wchan_count : Nat, target : Nat]
  BY <1>1, <1>2, <1>3, <1>4, SMTT(20)
<1>6. t \in Sel
  BY <1>1, <1>2, <1>3, <1>5 DEF Sel
<1> QED BY <1>2, <1>3, <1>6 DEF WIdx, RIdx

(* What one lthread asks, has passed or holds depends on its own state.    *)
LEMMA SelServedFacts ==
  ASSUME TypeOK, ReadyOK,
         NEW p \in Lthread, Waiting(p), NEW i \in 1..Len(sel[p].chans), NEW m \in Val \cup {NULL},
         i \in WIdx(sel[p]) => m = sel[p].msgs[i],
         sel'[p] = Served(sel[p], i, m), pc'[p] = "ready"
  PROVE  /\ sel'[p] \in Sel /\ sel'[p].target # None /\ sel'[p].target \in 1..Len(sel'[p].chans)
         /\ ~Waiting(p)'
         /\ \A j : /\ Asks(p, j)' <=> Asks(p, j)
                   /\ Asks(p, j) => sel'[p].msgs[j] = sel[p].msgs[j]
         /\ \A v : /\ ~Passed(p, v) /\ ~Holds(p, v)
                   /\ Passed(p, v)' <=> i \in WIdx(sel[p]) /\ v = m
                   /\ Holds(p, v)' <=> i \in RIdx(sel[p]) /\ v = m
<1>1. sel[p] \in Sel /\ pc[p] = "blocked"
  BY DEF TypeOK, Waiting
<1>2. /\ sel'[p] \in Sel /\ sel'[p].chans = sel[p].chans /\ sel'[p].target = i
      /\ sel'[p].msgs[i] = m
      /\ \A j \in 1..Len(sel[p].chans) : j # i => sel'[p].msgs[j] = sel[p].msgs[j]
      /\ WIdx(sel'[p]) = WIdx(sel[p]) /\ RIdx(sel'[p]) = RIdx(sel[p])
  <2>1. sel[p] \in Sel
    BY <1>1
  <2> QED BY <2>1, SelServed
<1>3. i # None /\ WIdx(sel[p]) \in SUBSET (1..Len(sel[p].chans))
  BY <1>1, SelFacts DEF None
<1>4. \A j : Asks(p, j)' <=> Asks(p, j)
  BY <1>1, <1>2 DEF Asks
<1>5. \A j : Asks(p, j) => sel'[p].msgs[j] = sel[p].msgs[j]
  <2> SUFFICES ASSUME NEW j, Asks(p, j) PROVE sel'[p].msgs[j] = sel[p].msgs[j]
    OBVIOUS
  <2>1. j \in WIdx(sel[p]) /\ j \in 1..Len(sel[p].chans)
    BY <1>3 DEF Asks
  <2> QED BY <1>2, <2>1
<1>6. ASSUME NEW v
      PROVE  /\ ~Passed(p, v) /\ ~Holds(p, v)
             /\ Passed(p, v)' <=> i \in WIdx(sel[p]) /\ v = m
             /\ Holds(p, v)' <=> i \in RIdx(sel[p]) /\ v = m
  BY <1>1, <1>2 DEF Passed, Holds
<1> QED BY <1>1, <1>2, <1>3, <1>4, <1>5, <1>6 DEF Waiting

(* A step keeps what the calls ask to send; it takes waits off queues only. *)
SameAsks ==
  \A p \in Lthread : \A j : /\ Asks(p, j)' <=> Asks(p, j)
                            /\ Asks(p, j) => sel'[p].msgs[j] = sel[p].msgs[j]
Shrunk ==
  \A d \in Chan : \A x : /\ InQ(x, sendq'[d]) => InQ(x, sendq[d])
                         /\ InQ(x, recvq'[d]) => InQ(x, recvq[d])

(* Serving a waiting selector.                                             *)
LEMMA Serves ==
  ASSUME TypeOK, QueuesOK, ReadyOK, NEW c \in Chan, NEW w,
         InQ(w, sendq[c]) \/ InQ(w, recvq[c]), NEW msg \in Val \cup {NULL},
         w[2] \in WIdx(sel[w[1]]) => msg = sel[w[1]].msgs[w[2]],
         Serve(w, msg)
  PROVE  /\ QueuesOK' /\ ReadyOK' /\ Shrunk /\ SameAsks
         /\ sel' \in [Lthread -> Sel] /\ pc' \in [Lthread -> {"idle", "blocked", "ready"}]
         /\ \A p \in Lthread : \A v :
              /\ Passed(p, v)' <=> \/ Passed(p, v)
                                   \/ p = w[1] /\ w[2] \in WIdx(sel[p]) /\ v = msg
              /\ Holds(p, v)' <=> \/ Holds(p, v)
                                  \/ p = w[1] /\ w[2] \in RIdx(sel[p]) /\ v = msg
<1> DEFINE r == w[1]
           i == w[2]
<1>1. r \in Lthread /\ Waiting(r) /\ i \in 1..Len(sel[r].chans)
  <2>1. /\ w[1] \in Lthread
        /\ WaitsOn(w, c, WIdx(sel[w[1]])) \/ WaitsOn(w, c, RIdx(sel[w[1]]))
    BY QueuesHold
  <2>2. sel[r] \in Sel
    BY <2>1 DEF TypeOK
  <2>3. WIdx(sel[r]) \in SUBSET (1..Len(sel[r].chans)) /\ RIdx(sel[r]) \in SUBSET (1..Len(sel[r].chans))
    BY <2>2, SelFacts
  <2> QED BY <2>1, <2>3 DEF WaitsOn
<1>2. sel \in [Lthread -> Sel]
  BY DEF TypeOK
<1>3. pc \in [Lthread -> {"idle", "blocked", "ready"}]
  BY DEF TypeOK
<1>4. /\ sel'[r] = Served(sel[r], i, msg) /\ pc'[r] = "ready"
      /\ \A p \in Lthread \ {r} : sel'[p] = sel[p] /\ pc'[p] = pc[p]
      /\ sel' = [p \in Lthread |-> sel'[p]]
  BY <1>1, <1>2, <1>3 DEF Serve, Served
<1>5. pc' \in [Lthread -> {"idle", "blocked", "ready"}]
  BY <1>1, <1>3 DEF Serve
<1>6. /\ sel'[r] \in Sel /\ sel'[r].target # None /\ sel'[r].target \in 1..Len(sel'[r].chans)
      /\ ~Waiting(r)'
      /\ \A j : /\ Asks(r, j)' <=> Asks(r, j)
                /\ Asks(r, j) => sel'[r].msgs[j] = sel[r].msgs[j]
      /\ \A v : /\ ~Passed(r, v) /\ ~Holds(r, v)
                /\ Passed(r, v)' <=> i \in WIdx(sel[r]) /\ v = msg
                /\ Holds(r, v)' <=> i \in RIdx(sel[r]) /\ v = msg
  <2> HIDE DEF r, i
  <2>1. i \in WIdx(sel[r]) => msg = sel[r].msgs[i]
    BY DEF r, i
  <2> QED BY <1>1, <1>4, <2>1, SelServedFacts
<1>7. \A p \in Lthread \ {r} :
        /\ \A j : /\ Asks(p, j)' <=> Asks(p, j)
                  /\ Asks(p, j) => sel'[p].msgs[j] = sel[p].msgs[j]
        /\ \A v : (Passed(p, v)' <=> Passed(p, v)) /\ (Holds(p, v)' <=> Holds(p, v))
        /\ Waiting(p)' <=> Waiting(p)
  BY <1>4 DEF Asks, Passed, Holds, Waiting, WIdx, RIdx
<1>8. sel' \in [Lthread -> Sel]
  BY <1>2, <1>4, <1>6
<1>9. ReadyOK'
  BY <1>4, <1>6 DEF ReadyOK
<1>10. SameAsks
  BY <1>6, <1>7 DEF SameAsks
<1>11. QueuesOK' /\ Shrunk
  <2>1. sel_remove_all_chans({r})
    BY DEF Serve
  <2>2. /\ {r} \in SUBSET Lthread /\ \A p \in {r} : Waiting(p) /\ ~Waiting(p)'
        /\ \A p \in Lthread \ {r} : sel'[p] = sel[p] /\ pc'[p] = pc[p]
    BY <1>1, <1>4, <1>6
  <2> HIDE DEF r, i
  <2> QED BY <2>1, <2>2, Unqueued DEF Shrunk
<1>12. ASSUME NEW p \in Lthread, NEW v
       PROVE  /\ Passed(p, v)' <=> \/ Passed(p, v)
                                   \/ p = r /\ i \in WIdx(sel[p]) /\ v = msg
              /\ Holds(p, v)' <=> \/ Holds(p, v)
                                  \/ p = r /\ i \in RIdx(sel[p]) /\ v = msg
  <2>1. CASE p = r
    BY <1>6, <2>1
  <2>2. CASE p # r
    BY <1>7, <2>2
  <2> QED BY <2>1, <2>2
<1> QED BY <1>5, <1>8, <1>9, <1>10, <1>11, <1>12

-----------------------------------------------------------------------------
(* The values                                                              *)

(* What a blocked sender offers is nowhere yet; neither is a fresh value.  *)
LEMMA BlockedNotOut ==
  ASSUME TypeOK, ReadyOK, AskOK, SendHonest,
         NEW p \in Lthread, Waiting(p), NEW i \in WIdx(sel[p])
  PROVE  /\ sel[p].msgs[i] \in Val /\ fate[sel[p].msgs[i]] = "waiting"
         /\ sel[p].msgs[i] \notin Buffered \cup Taken
<1> DEFINE v == sel[p].msgs[i]
<1>1. \A q \in Lthread : WIdx(sel[q]) \in SUBSET (1..LTHR_SEL_CHANS)
  <2> TAKE q \in Lthread
  <2>1. sel[q] \in Sel
    BY DEF TypeOK
  <2> QED BY <2>1, SelFacts
<1>2. Asks(p, i) /\ i \in 1..LTHR_SEL_CHANS
  BY <1>1 DEF Asks, Waiting
<1>3. v \in Val /\ fate[v] = "waiting"
  BY <1>2 DEF AskOK
<1>4. ASSUME v \in Buffered \cup Taken PROVE FALSE
  <2>1. PICK q \in Lthread : Passed(q, v)
    BY <1>3, <1>4 DEF SendHonest
  <2>2. Asks(q, sel[q].target) /\ sel[q].target \in 1..LTHR_SEL_CHANS /\ sel[q].msgs[sel[q].target] = v
    BY <1>1, <2>1 DEF Passed, Asks
  <2>3. q = p
    BY <1>2, <2>2 DEF AskOK
  <2> QED BY <2>1, <2>3 DEF Passed, Waiting
<1> QED BY <1>3, <1>4

(* A value not sent yet is in no buffer and with no receiver.              *)
LEMMA UnusedNotOut ==
  ASSUME SendHonest, HandedToOne, NEW v \in Val, fate[v] = "unused"
  PROVE  v \notin Buffered \cup Taken /\ \A p \in Lthread : ~Holds(p, v)
<1>1. v \notin Buffered \cup Taken
  BY DEF SendHonest
<1> QED BY <1>1 DEF HandedToOne

(* A call returns without blocking: its values N are settled, x of them    *)
(* was sent; it may have served r, which passed u on or got y.             *)
Settled(N, x) ==
  /\ \A v \in Val : v \in N => fate[v] = "unused"
  /\ x # NULL => x \in N
  /\ \A v \in Val : fate'[v] = IF v \in N THEN IF v = x THEN "sent" ELSE "unsent" ELSE fate[v]
Moved(r, x, u, y) ==
  /\ u # NULL => u \in Val /\ fate[u] = "waiting"
  /\ y = NULL \/ y = x
  /\ \A v \in Val :
       /\ v \in (Buffered \cup Taken)' <=> v \in Buffered \cup Taken \/ v = x \/ v = u
       /\ v \in (Taken \ returned)' <=> v \in Taken \ returned \/ v = y
  /\ \A p \in Lthread, v \in Val : Passed(p, v)' <=> Passed(p, v) \/ (p = r /\ v = u)
  /\ \A p \in Lthread, v \in Val : Holds(p, v)' <=> Holds(p, v) \/ (p = r /\ v = y)

(* A call that returns without blocking keeps the values asked, reported   *)
(* and held in agreement.                                                  *)
LEMMA CallReturns ==
  ASSUME AskOK, SendHonest, HandedToOne, SameAsks,
         NEW r \in Lthread, NEW N, NEW x, NEW u, NEW y, Settled(N, x), Moved(r, x, u, y)
  PROVE  AskOK' /\ SendHonest' /\ HandedToOne'
<1>5. /\ \A v \in Val : v \in N => fate[v] = "unused"
      /\ x # NULL => x \in N
      /\ \A v \in Val : fate'[v] = IF v \in N THEN IF v = x THEN "sent" ELSE "unsent" ELSE fate[v]
  BY DEF Settled
<1>6. (u # NULL => u \in Val /\ fate[u] = "waiting") /\ (y = NULL \/ y = x)
  BY DEF Moved
<1>7. \A v \in Val : v \in (Buffered \cup Taken)' <=> v \in Buffered \cup Taken \/ v = x \/ v = u
  BY DEF Moved
<1>8. \A v \in Val : v \in (Taken \ returned)' <=> v \in Taken \ returned \/ v = y
  BY DEF Moved
<1>9. /\ \A p \in Lthread, v \in Val : Passed(p, v)' <=> Passed(p, v) \/ (p = r /\ v = u)
      /\ \A p \in Lthread, v \in Val : Holds(p, v)' <=> Holds(p, v) \/ (p = r /\ v = y)
  BY Zenon DEF Moved
<1>0. \A v \in Val : v # NULL
  BY DEF Val, NULL
<1>1. \A v \in Val : v \in N => v \notin Buffered \cup Taken /\ \A p \in Lthread : ~Holds(p, v)
  BY <1>5, UnusedNotOut
<1>2. AskOK'
  <2>1. ASSUME NEW p \in Lthread, NEW i \in 1..LTHR_SEL_CHANS, Asks(p, i)'
        PROVE  /\ sel'[p].msgs[i] \in Val /\ fate'[sel'[p].msgs[i]] = "waiting"
               /\ Asks(p, i) /\ sel'[p].msgs[i] = sel[p].msgs[i]
    <3>1. Asks(p, i) /\ sel'[p].msgs[i] = sel[p].msgs[i]
      BY <2>1 DEF SameAsks
    <3>2. sel[p].msgs[i] \in Val /\ fate[sel[p].msgs[i]] = "waiting"
      BY <3>1 DEF AskOK
    <3> QED BY <1>5, <3>1, <3>2
  <2>2. \A p, q \in Lthread, i, j \in 1..LTHR_SEL_CHANS :
          Asks(p, i)' /\ Asks(q, j)' /\ sel'[p].msgs[i] = sel'[q].msgs[j] => p = q /\ i = j
    BY <2>1 DEF AskOK
  <2>3. \A p \in Lthread, v \in Val : Passed(p, v)' => v \in (Buffered \cup Taken)'
    BY <1>7, <1>9 DEF AskOK
  <2> QED BY <2>1, <2>2, <2>3 DEF AskOK
<1>3. SendHonest'
  <2> SUFFICES ASSUME NEW v \in Val
               PROVE  /\ fate'[v] = "sent" => v \in (Buffered \cup Taken)'
                      /\ v \in (Buffered \cup Taken)' =>
                           \/ fate'[v] = "sent"
                           \/ fate'[v] = "waiting" /\ \E p \in Lthread : Passed(p, v)'
    BY DEF SendHonest
  <2>1. /\ fate[v] = "sent" => v \in Buffered \cup Taken
        /\ v \in Buffered \cup Taken =>
             \/ fate[v] = "sent"
             \/ fate[v] = "waiting" /\ \E p \in Lthread : Passed(p, v)
    BY DEF SendHonest
  <2>2. fate'[v] = "sent" => v \in (Buffered \cup Taken)'
    BY <1>5, <1>7, <2>1
  <2>3. ASSUME v \in (Buffered \cup Taken)'
        PROVE  \/ fate'[v] = "sent"
               \/ fate'[v] = "waiting" /\ \E p \in Lthread : Passed(p, v)'
    <3>1. CASE v = x
      BY <1>0, <1>5, <3>1
    <3>2. CASE v = u
      BY <1>0, <1>5, <1>6, <1>9, <3>2
    <3>3. CASE v \in Buffered \cup Taken
      BY <1>1, <1>5, <1>9, <2>1, <3>3
    <3> QED BY <1>7, <2>3, <3>1, <3>2, <3>3
  <2> QED BY <2>2, <2>3
<1>4. HandedToOne'
  <2> SUFFICES ASSUME NEW v \in Val
               PROVE  /\ (\E p \in Lthread : Holds(p, v)') <=> v \in (Taken \ returned)'
                      /\ \A p, q \in Lthread : Holds(p, v)' /\ Holds(q, v)' => p = q
    BY DEF HandedToOne
  <2>1. /\ (\E p \in Lthread : Holds(p, v)) <=> v \in Taken \ returned
        /\ \A p, q \in Lthread : Holds(p, v) /\ Holds(q, v) => p = q
    BY DEF HandedToOne
  <2>2. v = y => \A p \in Lthread : ~Holds(p, v)
    BY <1>0, <1>1, <1>5, <1>6
  <2> QED BY <1>8, <1>9, <2>1, <2>2
<1> QED BY <1>2, <1>3, <1>4

(* The blocked or served call of p ends: what it passed on was sent, the   *)
(* rest not; what it holds is returned.                                    *)
LEMMA CallEnds ==
  ASSUME TypeOK, AskOK, FreshOK, ValOK, SendHonest, HandedToOne,
         NEW p \in Lthread, pc[p] # "idle", pc'[p] = "idle",
         \A q \in Lthread \ {p} : pc'[q] = pc[q] /\ sel'[q] = sel[q],
         \A v \in Val : fate'[v] = IF \E j \in WIdx(sel[p]) : sel[p].msgs[j] = v
                                   THEN IF Passed(p, v) THEN "sent" ELSE "unsent"
                                   ELSE fate[v],
         \A v \in Val : v \in returned' <=> v \in returned \/ Holds(p, v),
         returned' \subseteq Val, queue' = queue, taken' = taken
  PROVE  AskOK' /\ FreshOK' /\ ValOK' /\ SendHonest' /\ HandedToOne'
<1>0. /\ Buffered' = Buffered /\ Taken' = Taken
      /\ \A q \in Lthread : WIdx(sel[q]) \in SUBSET (1..LTHR_SEL_CHANS)
  <2>1. Buffered' = Buffered /\ Taken' = Taken
    BY DEF Buffered, Taken
  <2>2. ASSUME NEW q \in Lthread PROVE WIdx(sel[q]) \in SUBSET (1..LTHR_SEL_CHANS)
    <3>1. sel[q] \in Sel
      BY DEF TypeOK
    <3> QED BY <3>1, SelFacts
  <2> QED BY <2>1, <2>2
<1>1. /\ \A j : ~Asks(p, j)' /\ \A v : ~Passed(p, v)' /\ ~Holds(p, v)'
      /\ \A q \in Lthread \ {p} :
           /\ \A j : Asks(q, j)' <=> Asks(q, j)
           /\ \A v : (Passed(q, v)' <=> Passed(q, v)) /\ (Holds(q, v)' <=> Holds(q, v))
  BY DEF Asks, Passed, Holds, WIdx, RIdx
<1>2. ASSUME NEW q \in Lthread, NEW v, Passed(q, v)
      PROVE  \E i \in WIdx(sel[q]) : Asks(q, i) /\ sel[q].msgs[i] = v
  BY <1>2 DEF Passed, Asks
<1>3. ASSUME NEW q \in Lthread \ {p}, NEW i \in 1..LTHR_SEL_CHANS, Asks(q, i),
             NEW j \in WIdx(sel[p]), sel[p].msgs[j] = sel[q].msgs[i]
      PROVE  FALSE
  <2>1. Asks(p, j) /\ j \in 1..LTHR_SEL_CHANS
    BY <1>0 DEF Asks
  <2> QED BY <1>3, <2>1 DEF AskOK
<1>4. AskOK'
  <2>1. ASSUME NEW q \in Lthread, NEW i \in 1..LTHR_SEL_CHANS, Asks(q, i)'
        PROVE  /\ sel'[q].msgs[i] \in Val /\ fate'[sel'[q].msgs[i]] = "waiting"
               /\ Asks(q, i) /\ sel'[q] = sel[q]
    <3>1. q # p /\ Asks(q, i) /\ sel'[q] = sel[q]
      BY <1>1, <2>1
    <3>2. sel[q].msgs[i] \in Val /\ fate[sel[q].msgs[i]] = "waiting"
      BY <3>1 DEF AskOK
    <3>3. ~ \E j \in WIdx(sel[p]) : sel[p].msgs[j] = sel[q].msgs[i]
      BY <1>3, <3>1
    <3> QED BY <3>1, <3>2, <3>3
  <2>2. \A q, r \in Lthread, i, j \in 1..LTHR_SEL_CHANS :
          Asks(q, i)' /\ Asks(r, j)' /\ sel'[q].msgs[i] = sel'[r].msgs[j] => q = r /\ i = j
    BY <2>1 DEF AskOK
  <2>3. \A q \in Lthread, v \in Val : Passed(q, v)' => v \in (Buffered \cup Taken)'
    BY <1>0, <1>1 DEF AskOK
  <2> QED BY <2>1, <2>2, <2>3 DEF AskOK
<1>5. ASSUME NEW v \in Val
      PROVE  (\E j \in WIdx(sel[p]) : sel[p].msgs[j] = v) => fate[v] = "waiting"
  BY <1>0 DEF AskOK, Asks
<1>6. FreshOK'
  <2>1. \A v \in Val : fate'[v] # "unused" <=> fate[v] # "unused"
    BY <1>5
  <2> QED BY <2>1 DEF FreshOK
<1>7. ASSUME NEW v \in Val, Holds(p, v) PROVE v \in Taken
  BY <1>7 DEF HandedToOne
<1>8. ValOK'
  <2>1. returned' \subseteq Taken'
    BY <1>0, <1>7 DEF ValOK
  <2> QED BY <1>0, <2>1 DEF ValOK
<1>9. SendHonest'
  <2> SUFFICES ASSUME NEW v \in Val
               PROVE  /\ fate'[v] = "sent" => v \in Buffered \cup Taken
                      /\ v \in Buffered \cup Taken =>
                           \/ fate'[v] = "sent"
                           \/ fate'[v] = "waiting" /\ \E q \in Lthread : Passed(q, v)'
    BY <1>0 DEF SendHonest
  <2>1. /\ fate[v] = "sent" => v \in Buffered \cup Taken
        /\ v \in Buffered \cup Taken =>
             \/ fate[v] = "sent"
             \/ fate[v] = "waiting" /\ \E q \in Lthread : Passed(q, v)
    BY DEF SendHonest
  <2>2. Passed(p, v) => v \in Buffered \cup Taken
    BY DEF AskOK
  <2>3. ASSUME NEW q \in Lthread, Passed(q, v), fate[v] = "waiting"
        PROVE  \/ fate'[v] = "sent"
               \/ fate'[v] = "waiting" /\ \E l \in Lthread : Passed(l, v)'
    <3>1. PICK i \in WIdx(sel[q]) : Asks(q, i) /\ sel[q].msgs[i] = v
      BY <1>2, <2>3
    <3>2. CASE q = p
      BY <2>3, <3>1, <3>2
    <3>3. CASE q # p
      <4>1. i \in 1..LTHR_SEL_CHANS
        BY <1>0
      <4>2. ~ \E j \in WIdx(sel[p]) : sel[p].msgs[j] = v
        BY <1>3, <3>1, <3>3, <4>1
      <4> QED BY <1>1, <2>3, <3>3, <4>2
    <3> QED BY <3>2, <3>3
  <2> QED BY <1>5, <2>1, <2>2, <2>3
<1>10. HandedToOne'
  <2> SUFFICES ASSUME NEW v \in Val
               PROVE  /\ (\E q \in Lthread : Holds(q, v)') <=> v \in Taken /\ v \notin returned'
                      /\ \A q, r \in Lthread : Holds(q, v)' /\ Holds(r, v)' => q = r
    BY <1>0 DEF HandedToOne
  <2>1. /\ (\E q \in Lthread : Holds(q, v)) <=> v \in Taken \ returned
        /\ \A q, r \in Lthread : Holds(q, v) /\ Holds(r, v) => q = r
    BY DEF HandedToOne
  <2>2. \A q \in Lthread : Holds(q, v)' <=> q # p /\ Holds(q, v)
    BY <1>1
  <2> QED BY <2>1, <2>2
<1> QED BY <1>4, <1>6, <1>8, <1>9, <1>10

(* A call as chan_block_select_ gets it: nobody has served it, and the     *)
(* values it is to send are the next ones, each once.                      *)
GoodCall(s) ==
  /\ s \in Sel /\ s.target = None
  /\ \A i \in WIdx(s) : s.msgs[i] \in Val /\ fate[s.msgs[i]] = "unused"
  /\ \A i, j \in WIdx(s) : s.msgs[i] = s.msgs[j] => i = j
  /\ \E n \in 0..MaxVal : \A v \in Val :
       (fate[v] # "unused" \/ \E j \in WIdx(s) : s.msgs[j] = v) <=> v <= n

(* The selector a call fills in carries the next fresh values, each once.  *)
LEMMA SelectorGood ==
  ASSUME FreshOK, NEW w \in Seq(Chan), NEW r \in Seq(Chan), Len(w) + Len(r) <= LTHR_SEL_CHANS,
         NEW s, s = Selector(w, r, None), \A i \in WIdx(s) : s.msgs[i] \in Val
  PROVE  GoodCall(s)
<1>1. PICK n \in 0..MaxVal : \A v \in Val : fate[v] # "unused" <=> v <= n
  BY DEF FreshOK
<1>2. MaxVal \in Nat /\ n \in Nat /\ Len(w) \in Nat /\ Len(r) \in Nat
  BY ChanAssumption
<1>3. Fresh(Len(w)) = [i \in 1..Len(w) |-> n + i]
  <2>1. {v \in Val : fate[v] # "unused"} = 1..n
    BY <1>1, <1>2 DEF Val
  <2>2. Cardinality(1..n) = n
    BY <1>2, UpTo
  <2> QED BY <2>1, <2>2 DEF Fresh
<1>4. /\ s.chans = w \o r /\ s.wchan_count = Len(w) /\ s.target = None
      /\ s.msgs = [i \in 1..Len(w) |-> n + i] \o [i \in 1..Len(r) |-> NULL]
      /\ s = [chans |-> s.chans, msgs |-> s.msgs, wchan_count |-> s.wchan_count, target |-> s.target]
  BY <1>3 DEF Selector
<1>5. /\ s.chans \in Seq(Chan) /\ Len(s.chans) = Len(w) + Len(r)
      /\ Len(s.msgs) = Len(w) + Len(r) /\ WIdx(s) = 1..Len(w)
      /\ \A i \in 1..Len(w) : s.msgs[i] = n + i
      /\ \A i \in (Len(w) + 1)..(Len(w) + Len(r)) : s.msgs[i] = NULL
  <2> DEFINE a == [i \in 1..Len(w) |-> n + i]
             b == [i \in 1..Len(r) |-> NULL]
  <2>1. a \in Seq(Nat) /\ b \in Seq(Nat) /\ Len(a) = Len(w) /\ Len(b) = Len(r)
    BY <1>2 DEF NULL
  <2>2. /\ \A i \in 1..Len(w) : a[i] = n + i
        /\ \A i \in 1..Len(r) : b[i] = NULL
    OBVIOUS
  <2> HIDE DEF a, b
  <2>3. s.msgs = a \o b
    BY <1>4 DEF a, b
  <2>4. Len(s.msgs) = Len(w) + Len(r)
    <3>1. a \in Seq(Nat)
      BY <2>1
    <3>2. b \in Seq(Nat)
      BY <2>1
    <3>3. Len(a \o b) = Len(a) + Len(b)
      BY <3>1, <3>2
    <3> QED BY <2>1, <2>3, <3>3
  <2>5. \A i \in 1..Len(w) : s.msgs[i] = n + i
    BY <1>2, <2>1, <2>2, <2>3
  <2>6. \A i \in (Len(w) + 1)..(Len(w) + Len(r)) : s.msgs[i] = NULL
    BY <1>2, <2>1, <2>2, <2>3
  <2>7. s.chans \in Seq(Chan) /\ Len(s.chans) = Len(w) + Len(r) /\ WIdx(s) = 1..Len(w)
    BY <1>4 DEF WIdx
  <2> QED BY <2>4, <2>5, <2>6, <2>7
<1>11. \A i \in 1..Len(w) : n + i \in Val
  <2> SUFFICES ASSUME NEW i \in 1..Len(w) PROVE n + i \in Val
    OBVIOUS
  <2>1. i \in WIdx(s) /\ s.msgs[i] = n + i
    BY <1>5
  <2>2. s.msgs[i] \in Val
    BY <2>1
  <2> QED BY <2>1, <2>2
<1>6. s \in Sel
  <2>1. \A i \in 1..(Len(w) + Len(r)) : s.msgs[i] \in Val \cup {NULL}
    <3> SUFFICES ASSUME NEW i \in 1..(Len(w) + Len(r)) PROVE s.msgs[i] \in Val \cup {NULL}
      OBVIOUS
    <3>1. i \in 1..Len(w) \/ i \in (Len(w) + 1)..(Len(w) + Len(r))
      BY <1>2
    <3> QED BY <1>5, <3>1
  <2>2. s.msgs \in Seq(Val \cup {NULL})
    <3>1. DOMAIN s.msgs = 1..(Len(w) + Len(r)) /\ s.msgs = [i \in 1..(Len(w) + Len(r)) |-> s.msgs[i]]
      <4>1. s.msgs \in Seq(Nat)
        BY <1>2, <1>4 DEF NULL
      <4> QED BY <1>5, <4>1
    <3> QED BY <1>2, <2>1, <3>1
  <2>3. s \in [chans : Seq(Chan), msgs : Seq(Val \cup {NULL}), wchan_count : Nat, target : Nat]
    BY <1>2, <1>4, <1>5, <2>2 DEF None
  <2>4. /\ Len(s.msgs) = Len(s.chans) /\ Len(s.chans) <= LTHR_SEL_CHANS
        /\ s.wchan_count <= Len(s.chans)
    <3>1. Len(s.chans) <= LTHR_SEL_CHANS
      BY <1>5
    <3>2. Len(w) <= Len(w) + Len(r)
      BY <1>2
    <3> QED BY <1>4, <1>5, <3>1, <3>2
  <2> QED BY <2>3, <2>4 DEF Sel
<1>7. \A v \in Val : (fate[v] # "unused" \/ \E j \in WIdx(s) : s.msgs[j] = v) <=> v <= n + Len(w)
  <2>0. ASSUME NEW v
        PROVE  (\E j \in WIdx(s) : s.msgs[j] = v) <=> \E j \in 1..Len(w) : n + j = v
    BY <1>5
  <2> SUFFICES ASSUME NEW v \in Val
               PROVE  (v <= n \/ \E j \in 1..Len(w) : n + j = v) <=> v <= n + Len(w)
    BY <1>1, <2>0
  <2>1. v \in Nat /\ (v > n /\ v <= n + Len(w) => v - n \in 1..Len(w) /\ n + (v - n) = v)
    BY <1>2 DEF Val
  <2> QED BY <1>2, <2>1
<1>8. n + Len(w) \in 0..MaxVal
  <2>1. CASE Len(w) = 0
    BY <1>2, <2>1
  <2>2. CASE Len(w) > 0
    <3>1. n + Len(w) \in Val
      BY <1>2, <1>11, <2>2
    <3> QED BY <1>2, <3>1 DEF Val
  <2> QED BY <1>2, <2>1, <2>2
<1>9. \A i \in WIdx(s) : s.msgs[i] \in Val /\ fate[s.msgs[i]] = "unused"
  <2> SUFFICES ASSUME NEW i \in 1..Len(w) PROVE n + i \in Val /\ fate[n + i] = "unused"
    BY <1>5
  <2>1. n + i \in Val /\ ~(n + i <= n)
    BY <1>2, <1>11
  <2> QED BY <1>1, <2>1
<1>10. \A i, j \in WIdx(s) : s.msgs[i] = s.msgs[j] => i = j
  <2> SUFFICES ASSUME NEW i \in 1..Len(w), NEW j \in 1..Len(w), n + i = n + j PROVE i = j
    BY <1>5
  <2>1. i \in Nat /\ j \in Nat /\ n \in Nat
    BY <1>2
  <2> QED BY <2>1
<1> QED BY <1>4, <1>6, <1>7, <1>8, <1>9, <1>10 DEF GoodCall

(* A call that blocks asks to send its values, which wait.                 *)
LEMMA CallBlocks ==
  ASSUME TypeOK, AskOK, SendHonest, HandedToOne, ValOK,
         NEW p \in Lthread, pc[p] = "idle", NEW s, GoodCall(s), pc'[p] = "blocked", sel'[p] = s,
         \A q \in Lthread \ {p} : pc'[q] = pc[q] /\ sel'[q] = sel[q],
         \A v \in Val : fate'[v] = IF \E j \in WIdx(s) : s.msgs[j] = v THEN "waiting" ELSE fate[v],
         UNCHANGED <<queue, taken, returned>>
  PROVE  AskOK' /\ FreshOK' /\ ValOK' /\ SendHonest' /\ HandedToOne'
<1>0. Buffered' = Buffered /\ Taken' = Taken /\ returned' = returned
  BY DEF Buffered, Taken
<1>1. /\ \A j : Asks(p, j)' <=> j \in WIdx(s)
      /\ \A q \in Lthread \ {p} : \A j : Asks(q, j)' <=> Asks(q, j)
      /\ \A q \in Lthread : \A v : (Passed(q, v)' <=> Passed(q, v)) /\ (Holds(q, v)' <=> Holds(q, v))
  BY DEF Asks, Passed, Holds, WIdx, RIdx
<1>2. ASSUME NEW q \in Lthread \ {p}, NEW i \in 1..LTHR_SEL_CHANS, Asks(q, i)
      PROVE  /\ sel[q].msgs[i] \in Val /\ fate[sel[q].msgs[i]] = "waiting"
             /\ \A j \in WIdx(s) : s.msgs[j] # sel[q].msgs[i]
  BY <1>2 DEF AskOK, GoodCall
<1>3. AskOK'
  <2>1. ASSUME NEW q \in Lthread, NEW i \in 1..LTHR_SEL_CHANS, Asks(q, i)'
        PROVE  /\ sel'[q].msgs[i] \in Val /\ fate'[sel'[q].msgs[i]] = "waiting"
               /\ q = p => i \in WIdx(s) /\ sel'[q] = s
               /\ q # p => Asks(q, i) /\ sel'[q] = sel[q]
    <3>1. CASE q = p
      BY <1>1, <2>1, <3>1 DEF GoodCall
    <3>2. CASE q # p
      <4>1. Asks(q, i) /\ sel'[q] = sel[q]
        BY <1>1, <2>1, <3>2
      <4>2. /\ sel[q].msgs[i] \in Val /\ fate[sel[q].msgs[i]] = "waiting"
            /\ \A j \in WIdx(s) : s.msgs[j] # sel[q].msgs[i]
        BY <1>2, <3>2, <4>1
      <4> QED BY <3>2, <4>1, <4>2
    <3> QED BY <3>1, <3>2
  <2>2. ASSUME NEW q \in Lthread, NEW r \in Lthread,
               NEW i \in 1..LTHR_SEL_CHANS, NEW j \in 1..LTHR_SEL_CHANS,
               Asks(q, i)', Asks(r, j)', sel'[q].msgs[i] = sel'[r].msgs[j]
        PROVE  q = r /\ i = j
    <3>1. CASE q = p /\ r = p
      BY <2>1, <2>2, <3>1 DEF GoodCall
    <3>2. CASE q # p /\ r # p
      BY <2>1, <2>2, <3>2 DEF AskOK
    <3>3. CASE q = p /\ r # p
      BY <1>2, <2>1, <2>2, <3>3
    <3>4. CASE q # p /\ r = p
      BY <1>2, <2>1, <2>2, <3>4
    <3> QED BY <3>1, <3>2, <3>3, <3>4
  <2>3. \A q \in Lthread, v \in Val : Passed(q, v)' => v \in (Buffered \cup Taken)'
    BY <1>0, <1>1 DEF AskOK
  <2> QED BY <2>1, <2>2, <2>3 DEF AskOK
<1>4. FreshOK'
  <2>1. \A v \in Val : fate'[v] # "unused" <=> (fate[v] # "unused" \/ \E j \in WIdx(s) : s.msgs[j] = v)
    OBVIOUS
  <2> QED BY <2>1 DEF GoodCall, FreshOK
<1>5. ValOK'
  BY <1>0 DEF ValOK
<1>6. SendHonest'
  <2> SUFFICES ASSUME NEW v \in Val
               PROVE  /\ fate'[v] = "sent" => v \in Buffered \cup Taken
                      /\ v \in Buffered \cup Taken =>
                           \/ fate'[v] = "sent"
                           \/ fate'[v] = "waiting" /\ \E q \in Lthread : Passed(q, v)
    BY <1>0, <1>1 DEF SendHonest
  <2>1. (\E j \in WIdx(s) : s.msgs[j] = v) => v \notin Buffered \cup Taken
    BY UnusedNotOut DEF GoodCall
  <2> QED BY <2>1 DEF SendHonest
<1>7. HandedToOne'
  BY <1>0, <1>1 DEF HandedToOne
<1> QED BY <1>3, <1>4, <1>5, <1>6, <1>7

-----------------------------------------------------------------------------
(* The buffers                                                             *)

(* The values in the sequences f, by position.                             *)
LEMMA InAll ==
  ASSUME NEW f \in [Chan -> Seq(Val)]
  PROVE  /\ \A v : v \in All(f) <=> \E c \in Chan : \E i \in 1..Len(f[c]) : f[c][i] = v
         /\ \A v \in All(f) : v \in Val
<1>1. \A c \in Chan : \A v : v \in Range(f[c]) <=> \E i \in 1..Len(f[c]) : f[c][i] = v
  BY SeqMembers DEF InQ
<1>2. \A v : v \in All(f) <=> \E c \in Chan : v \in Range(f[c])
  BY DEF All
<1> QED BY <1>1, <1>2

(* A value is appended to one of them.                                     *)
Appended(f, c, m) == [f EXCEPT ![c] = Append(f[c], m)]

(* Appending adds the value, and keeps each value in one place.            *)
LEMMA AppendAll ==
  ASSUME NEW f \in [Chan -> Seq(Val)], NEW c \in Chan, NEW m \in Val,
         NEW g, g = Appended(f, c, m)
  PROVE  /\ g \in [Chan -> Seq(Val)] /\ Len(g[c]) = Len(f[c]) + 1
         /\ \A v : v \in All(g) <=> v \in All(f) \/ v = m
         /\ Inj(f) /\ m \notin All(f) => Inj(g)
<1>1. g \in [Chan -> Seq(Val)] /\ g[c] = Append(f[c], m) /\ \A d \in Chan \ {c} : g[d] = f[d]
  BY DEF Appended
<1>2. f[c] \in Seq(Val) /\ Len(f[c]) \in Nat
  OBVIOUS
<1>3. /\ Len(g[c]) = Len(f[c]) + 1 /\ g[c][Len(f[c]) + 1] = m
      /\ \A i \in 1..Len(f[c]) : g[c][i] = f[c][i]
  BY <1>1, <1>2
<1>4. \A i : i \in 1..(Len(f[c]) + 1) <=> i \in 1..Len(f[c]) \/ i = Len(f[c]) + 1
  BY <1>2
<1>5. ASSUME NEW v PROVE v \in All(g) <=> v \in All(f) \/ v = m
  <2>1. /\ v \in All(f) <=> \E d \in Chan : \E i \in 1..Len(f[d]) : f[d][i] = v
        /\ v \in All(g) <=> \E d \in Chan : \E i \in 1..Len(g[d]) : g[d][i] = v
    BY <1>1, InAll
  <2>2. (\E i \in 1..Len(g[c]) : g[c][i] = v) <=> (\E i \in 1..Len(f[c]) : f[c][i] = v) \/ v = m
    BY <1>3, <1>4
  <2>3. ASSUME v \in All(g) PROVE v \in All(f) \/ v = m
    <3>1. PICK d \in Chan : \E i \in 1..Len(g[d]) : g[d][i] = v
      BY <2>1, <2>3
    <3>2. CASE d = c
      BY <2>1, <2>2, <3>1, <3>2
    <3>3. CASE d # c
      BY <1>1, <2>1, <3>1, <3>3
    <3> QED BY <3>2, <3>3
  <2>4. ASSUME v \in All(f) PROVE v \in All(g)
    <3>1. PICK d \in Chan : \E i \in 1..Len(f[d]) : f[d][i] = v
      BY <2>1, <2>4
    <3>2. CASE d = c
      BY <2>1, <2>2, <3>1, <3>2
    <3>3. CASE d # c
      BY <1>1, <2>1, <3>1, <3>3
    <3> QED BY <3>2, <3>3
  <2>5. v = m => v \in All(g)
    BY <2>1, <2>2
  <2> QED BY <2>3, <2>4, <2>5
<1>6. ASSUME Inj(f), m \notin All(f) PROVE Inj(g)
  <2>1. ASSUME NEW d \in Chan, NEW i \in 1..Len(g[d])
        PROVE  \/ d = c /\ i = Len(f[c]) + 1 /\ g[d][i] = m
               \/ i \in 1..Len(f[d]) /\ g[d][i] = f[d][i] /\ g[d][i] # m
    <3>1. CASE d = c /\ i = Len(f[c]) + 1
      BY <1>3, <3>1
    <3>2. CASE ~(d = c /\ i = Len(f[c]) + 1)
      <4>1. i \in 1..Len(f[d]) /\ g[d][i] = f[d][i]
        BY <1>1, <1>3, <1>4, <3>2
      <4>2. f[d][i] \in All(f)
        BY <4>1, InAll
      <4> QED BY <1>6, <4>1, <4>2
    <3> QED BY <3>1, <3>2
  <2> SUFFICES ASSUME NEW d \in Chan, NEW e \in Chan, NEW i \in 1..Len(g[d]), NEW j \in 1..Len(g[e]),
                      g[d][i] = g[e][j]
               PROVE  d = e /\ i = j
    BY DEF Inj
  <2>2. /\ \/ d = c /\ i = Len(f[c]) + 1 /\ g[d][i] = m
           \/ i \in 1..Len(f[d]) /\ g[d][i] = f[d][i] /\ g[d][i] # m
        /\ \/ e = c /\ j = Len(f[c]) + 1 /\ g[e][j] = m
           \/ j \in 1..Len(f[e]) /\ g[e][j] = f[e][j] /\ g[e][j] # m
    BY <2>1
  <2> QED BY <1>6, <2>2 DEF Inj
<1> QED BY <1>1, <1>3, <1>5, <1>6

(* The head of one of them is taken out.                                   *)
Tailed(f, c) == [f EXCEPT ![c] = Tail(f[c])]

(* Taking the head out removes that value and no other.                    *)
LEMMA TailAll ==
  ASSUME NEW f \in [Chan -> Seq(Val)], Inj(f), NEW c \in Chan, f[c] # <<>>,
         NEW g, g = Tailed(f, c)
  PROVE  /\ g \in [Chan -> Seq(Val)] /\ Len(g[c]) = Len(f[c]) - 1
         /\ \A v : v \in All(g) <=> v \in All(f) /\ v # Head(f[c])
         /\ Inj(g) /\ Head(f[c]) \in All(f) /\ Head(f[c]) \in Val
<1>1. f[c] \in Seq(Val) /\ Len(f[c]) \in Nat /\ Len(f[c]) > 0 /\ Head(f[c]) = f[c][1]
  OBVIOUS
<1>2. g \in [Chan -> Seq(Val)] /\ g[c] = Tail(f[c]) /\ \A d \in Chan \ {c} : g[d] = f[d]
  BY <1>1 DEF Tailed
<1>3. Len(g[c]) = Len(f[c]) - 1 /\ \A i \in 1..(Len(f[c]) - 1) : g[c][i] = f[c][i + 1]
  BY <1>1, <1>2
<1>4. /\ \A i \in 1..(Len(f[c]) - 1) : i + 1 \in 1..Len(f[c]) /\ i + 1 # 1
      /\ \A i \in 1..Len(f[c]) : i # 1 => i - 1 \in 1..(Len(f[c]) - 1) /\ (i - 1) + 1 = i
      /\ 1 \in 1..Len(f[c])
  BY <1>1
<1>5. ASSUME NEW d \in Chan, NEW i \in 1..Len(g[d])
      PROVE  \E k \in 1..Len(f[d]) : /\ g[d][i] = f[d][k] /\ f[d][k] # f[c][1]
                                     /\ d = c => k = i + 1
                                     /\ d # c => k = i
  <2>1. CASE d = c
    <3>1. i + 1 \in 1..Len(f[c]) /\ i + 1 # 1 /\ g[c][i] = f[c][i + 1]
      BY <1>3, <1>4, <2>1
    <3>2. f[c][i + 1] # f[c][1]
      BY <1>4, <3>1 DEF Inj
    <3> QED BY <2>1, <3>1, <3>2
  <2>2. CASE d # c
    <3>1. g[d] = f[d]
      BY <1>2, <2>2
    <3>2. f[d][i] # f[c][1]
      BY <1>4, <2>2, <3>1 DEF Inj
    <3> QED BY <2>2, <3>1, <3>2
  <2> QED BY <2>1, <2>2
<1>6. ASSUME NEW v PROVE v \in All(g) <=> v \in All(f) /\ v # f[c][1]
  <2>1. /\ v \in All(f) <=> \E d \in Chan : \E i \in 1..Len(f[d]) : f[d][i] = v
        /\ v \in All(g) <=> \E d \in Chan : \E i \in 1..Len(g[d]) : g[d][i] = v
    <3>1. g \in [Chan -> Seq(Val)]
      BY <1>2
    <3> QED BY <3>1, InAll
  <2>2. v \in All(g) => v \in All(f) /\ v # f[c][1]
    BY <1>5, <2>1
  <2>3. ASSUME v \in All(f), v # f[c][1] PROVE v \in All(g)
    <3>1. PICK d \in Chan : \E i \in 1..Len(f[d]) : f[d][i] = v
      BY <2>1, <2>3
    <3>4. PICK i \in 1..Len(f[d]) : f[d][i] = v
      BY <3>1
    <3>2. CASE d = c
      <4>1. i # 1
        BY <2>3, <3>2, <3>4
      <4>2. i - 1 \in 1..Len(g[c]) /\ g[c][i - 1] = v
        BY <1>3, <1>4, <3>2, <3>4, <4>1
      <4> QED BY <2>1, <4>2
    <3>3. CASE d # c
      BY <1>2, <2>1, <3>3, <3>4
    <3> QED BY <3>2, <3>3
  <2> QED BY <2>2, <2>3
<1>7. Inj(g)
  <2> SUFFICES ASSUME NEW d \in Chan, NEW e \in Chan, NEW i \in 1..Len(g[d]), NEW j \in 1..Len(g[e]),
                      g[d][i] = g[e][j]
               PROVE  d = e /\ i = j
    BY DEF Inj
  <2>1. PICK k \in 1..Len(f[d]) : g[d][i] = f[d][k] /\ (d = c => k = i + 1) /\ (d # c => k = i)
    BY <1>5
  <2>2. PICK l \in 1..Len(f[e]) : g[e][j] = f[e][l] /\ (e = c => l = j + 1) /\ (e # c => l = j)
    BY <1>5
  <2>3. d = e /\ k = l
    <3>1. f[d][k] = f[e][l]
      BY <2>1, <2>2
    <3> QED BY <3>1 DEF Inj
  <2>4. i \in Nat /\ j \in Nat
    <3>1. Len(g[d]) \in Nat /\ Len(g[e]) \in Nat
      BY <1>2
    <3> QED BY <3>1
  <2> QED BY <2>1, <2>2, <2>3, <2>4
<1>8. f[c][1] \in All(f) /\ f[c][1] \in Val
  BY <1>1, <1>4, InAll
<1> QED BY <1>1, <1>2, <1>3, <1>6, <1>7, <1>8

-----------------------------------------------------------------------------
(* The calls                                                               *)

(* Whom a sender and a receiver find: the first in the queue, because      *)
(* every queued selector still waits.                                      *)
LEMMA ReceiverIs ==
  ASSUME TypeOK, QueuesOK, ReadyOK, NEW c \in Chan, NEW w, w = FirstReceiver(c)
  PROVE  /\ w = NoWait => recvq[c] = <<>>
         /\ w # NoWait => InQ(w, recvq[c])
<1>1. recvq[c] \in Seq(Wait)
  BY DEF QueuesOK
<1>2. DOMAIN recvq[c] = 1..Len(recvq[c]) /\ Len(recvq[c]) \in Nat
  BY <1>1
<1>3. ASSUME NEW k \in 1..Len(recvq[c]) PROVE IsWaiting(recvq[c][k])
  <2>1. InQ(recvq[c][k], recvq[c])
    BY DEF InQ
  <2>2. recvq[c][k][1] \in Lthread /\ pc[recvq[c][k][1]] = "blocked"
    BY <2>1, QueuesHold DEF WaitsOn, Waiting
  <2> QED BY <2>2 DEF ReadyOK, IsWaiting
<1> DEFINE found == {k \in DOMAIN recvq[c] : IsWaiting(recvq[c][k])}
<1>4. found = 1..Len(recvq[c])
  BY <1>2, <1>3
<1>5. w = IF found = {} THEN NoWait ELSE recvq[c][Min(found)]
  BY DEF FirstReceiver
<1> HIDE DEF found
<1>6. CASE recvq[c] = <<>>
  BY <1>2, <1>4, <1>5, <1>6
<1>7. CASE recvq[c] # <<>>
  <2>1. Len(recvq[c]) > 0
    BY <1>1, <1>7
  <2>2. found \in SUBSET Nat /\ found # {}
    <3>1. 1 \in 1..Len(recvq[c]) /\ \A k \in 1..Len(recvq[c]) : k \in Nat
      BY <1>2, <2>1
    <3> QED BY <1>4, <3>1
  <2>3. Min(found) \in found
    BY <2>2, MinNat
  <2>4. w = recvq[c][Min(found)]
    BY <1>5, <2>2
  <2>5. InQ(w, recvq[c])
    BY <1>4, <2>3, <2>4 DEF InQ
  <2>6. w # NoWait
    <3>1. w \in Wait
      BY <1>1, <2>5, SeqMembers
    <3> QED BY <3>1 DEF Wait, NoWait
  <2> QED BY <1>7, <2>5, <2>6
<1> QED BY <1>6, <1>7

(* The blocked sender a receiver finds is the head of the queue, if any.   *)
LEMMA SenderIs ==
  ASSUME TypeOK, QueuesOK, ReadyOK, NEW c \in Chan, NEW w, w = HeadSender(c)
  PROVE  /\ w = NoWait => sendq[c] = <<>>
         /\ w # NoWait => InQ(w, sendq[c]) /\ sendq[c] # <<>> /\ w = Head(sendq[c])
<1>1. sendq[c] \in Seq(Wait)
  BY DEF QueuesOK
<1>2. CASE sendq[c] = <<>>
  BY <1>2 DEF HeadSender
<1>3. CASE sendq[c] # <<>>
  <2>1. 1 \in 1..Len(sendq[c]) /\ Head(sendq[c]) = sendq[c][1]
    BY <1>1, <1>3
  <2>2. InQ(Head(sendq[c]), sendq[c])
    BY <2>1 DEF InQ
  <2>3. Head(sendq[c])[1] \in Lthread /\ pc[Head(sendq[c])[1]] = "blocked"
    BY <2>2, QueuesHold DEF WaitsOn, Waiting
  <2>4. IsWaiting(Head(sendq[c]))
    BY <2>3 DEF ReadyOK, IsWaiting
  <2>5. Head(sendq[c]) # NoWait
    <3>1. Head(sendq[c]) \in Wait
      BY <1>1, <2>2, SeqMembers
    <3> QED BY <3>1 DEF Wait, NoWait
  <2> QED BY <1>3, <2>2, <2>4, <2>5 DEF HeadSender
<1> QED BY <1>2, <1>3

(* Nobody is served.                                                       *)
LEMMA Nobody ==
  ASSUME QueuesOK, ReadyOK, ServeNobody
  PROVE  /\ QueuesOK' /\ ReadyOK' /\ SameAsks /\ Shrunk
         /\ \A p \in Lthread : \A v : /\ Passed(p, v)' <=> Passed(p, v)
                                      /\ Holds(p, v)' <=> Holds(p, v)
<1>1. /\ sendq' = sendq /\ recvq' = recvq /\ send_count' = send_count /\ recv_count' = recv_count
      /\ sel' = sel /\ pc' = pc
  BY DEF ServeNobody
<1>2. QueuesOK'
  BY <1>1 DEF QueuesOK, WaitsOn, Waiting, WIdx, RIdx
<1>3. ReadyOK' /\ Shrunk
  BY <1>1 DEF ReadyOK, Shrunk
<1>4. SameAsks
  BY <1>1 DEF SameAsks, Asks, WIdx
<1>5. \A p \in Lthread : \A v : (Passed(p, v)' <=> Passed(p, v)) /\ (Holds(p, v)' <=> Holds(p, v))
  BY <1>1 DEF Passed, Holds, WIdx, RIdx
<1> QED BY <1>2, <1>3, <1>4, <1>5

(* The parts of IInv' for a call that returns without blocking.            *)
LEMMA Returns ==
  ASSUME IInv, NEW s, GoodCall(s), NEW i, SendReturns(s, i), NEW r \in Lthread,
         NEW x, x = IF i \in WIdx(s) THEN s.msgs[i] ELSE NULL,
         NEW u, NEW y, Moved(r, x, u, y),
         QueuesOK', ReadyOK', SameAsks, VainOK', ValOK',
         sel' \in [Lthread -> Sel], pc' \in [Lthread -> {"idle", "blocked", "ready"}],
         queue' \in [Chan -> Seq(Val)], \A c \in Chan : Len(queue'[c]) <= Capacity[c],
         taken' \in [Chan -> Seq(Val)], returned' \subseteq Val,
         UNCHANGED <<closed, disposed, aborted>>
  PROVE  IInv'
<1> DEFINE N == {v \in Val : \E j \in WIdx(s) : s.msgs[j] = v}
<1>1. /\ \A v \in Val : v \in N => fate[v] = "unused"
      /\ x # NULL => x \in N
  BY DEF GoodCall
<1>2. \A v \in Val : fate'[v] = IF v \in N THEN IF v = x THEN "sent" ELSE "unsent" ELSE fate[v]
  <2> SUFFICES ASSUME NEW v \in Val
               PROVE  fate'[v] = IF v \in N THEN IF v = x THEN "sent" ELSE "unsent" ELSE fate[v]
    OBVIOUS
  <2>1. v # NULL
    BY DEF Val, NULL
  <2>2. v = x <=> i \in WIdx(s) /\ s.msgs[i] = v
    BY <2>1
  <2> QED BY <2>2 DEF SendReturns
<1>3. FreshOK'
  <2>1. \A v \in Val : fate'[v] # "unused" <=> (fate[v] # "unused" \/ \E j \in WIdx(s) : s.msgs[j] = v)
    BY <1>2
  <2> QED BY <2>1 DEF GoodCall, FreshOK
<1>4. AskOK' /\ SendHonest' /\ HandedToOne'
  <2>1. AskOK /\ SendHonest /\ HandedToOne
    BY DEF IInv
  <2>2. Settled(N, x)
    BY <1>1, <1>2 DEF Settled
  <2> HIDE DEF N
  <2> QED BY <2>1, <2>2, CallReturns
<1>5. fate' \in [Val -> {"unused", "waiting", "sent", "unsent"}]
  <2>1. fate \in [Val -> {"unused", "waiting", "sent", "unsent"}]
    BY DEF IInv, TypeOK
  <2> QED BY <2>1 DEF SendReturns
<1>6. TypeOK'
  BY <1>5 DEF IInv, TypeOK, QueuesOK
<1> QED BY <1>3, <1>4, <1>6 DEF IInv

(* What IInv says of the values, for the proofs about calls.               *)
LEMMA ValueFacts ==
  ASSUME IInv
  PROVE  /\ queue \in [Chan -> Seq(Val)] /\ taken \in [Chan -> Seq(Val)] /\ returned \subseteq Val
         /\ Buffered = All(queue) /\ Taken = All(taken)
         /\ Inj(queue) /\ Buffered \cap Taken = {} /\ returned \subseteq Taken
         /\ \A v \in Val : v # NULL
<1>1. queue \in [Chan -> Seq(Val)] /\ taken \in [Chan -> Seq(Val)] /\ returned \subseteq Val
  BY DEF IInv, TypeOK
<1>2. Buffered = All(queue) /\ Taken = All(taken)
  BY DEF Buffered, Taken, All
<1>3. Inj(queue) /\ Buffered \cap Taken = {} /\ returned \subseteq Taken
  BY DEF IInv, ValOK
<1>4. \A v \in Val : v # NULL
  BY DEF Val, NULL
<1> QED BY <1>1, <1>2, <1>3, <1>4

(* VainOK at one channel.                                                  *)
VainAt(c) ==
  /\ \A w : InQ(w, sendq[c]) => ~Room(c)
  /\ \A w : InQ(w, recvq[c]) => queue[c] = <<>> /\ ~closed[c]
  /\ \A v, w : InQ(v, sendq[c]) /\ InQ(w, recvq[c]) => v[1] = w[1]

(* VainOK is VainAt of every channel, now and after the step.              *)
LEMMA VainIs ==
  /\ VainOK <=> \A c \in Chan : VainAt(c)
  /\ VainOK' <=> \A c \in Chan : VainAt(c)'
  BY Zenon DEF VainOK, VainAt

(* No wait is added, and the buffer and the flag stay.                     *)
LEMMA VainShrunk ==
  ASSUME VainOK, Shrunk, NEW c \in Chan, queue'[c] = queue[c], closed'[c] = closed[c]
  PROVE  VainAt(c)'
<1>1. Room(c)' <=> Room(c)
  BY DEF Room
<1>2. VainAt(c)
  BY VainIs
<1>3. \A x : /\ InQ(x, sendq'[c]) => InQ(x, sendq[c])
             /\ InQ(x, recvq'[c]) => InQ(x, recvq[c])
  BY DEF Shrunk
<1>4. \A w : InQ(w, sendq'[c]) => ~Room(c)'
  BY <1>1, <1>2, <1>3 DEF VainAt
<1>5. \A w : InQ(w, recvq'[c]) => queue'[c] = <<>> /\ ~closed'[c]
  BY <1>2, <1>3 DEF VainAt
<1>6. \A v, w : InQ(v, sendq'[c]) /\ InQ(w, recvq'[c]) => v[1] = w[1]
  BY <1>2, <1>3 DEF VainAt
<1> QED BY <1>4, <1>5, <1>6, Zenon DEF VainAt

(* chan_try_send buffers the value or hands it to the first receiver.      *)
LEMMA SendIs ==
  ASSUME IInv, NEW s, GoodCall(s), NEW i \in WIdx(s), CanSend(s.chans[i]), chan_try_send(s, i),
         NEW c, c = s.chans[i], NEW m, m = s.msgs[i], NEW w, w = FirstReceiver(c)
  PROVE  /\ c \in Chan /\ m \in Val /\ fate[m] = "unused"
         /\ w = NoWait => recvq[c] = <<>>
         /\ w # NoWait => InQ(w, recvq[c]) /\ queue[c] = <<>>
         /\ \/ /\ w = NoWait /\ Room(c) /\ queue' = [queue EXCEPT ![c] = Append(queue[c], m)]
               /\ ServeNobody /\ taken' = taken
            \/ /\ w # NoWait /\ queue' = queue /\ Serve(w, m)
               /\ taken' = [taken EXCEPT ![c] = Append(taken[c], m)]
<1>1. s \in Sel
  BY DEF GoodCall
<1>2. c \in Chan /\ m \in Val /\ fate[m] = "unused"
  BY <1>1, SelFacts DEF GoodCall
<1>3. /\ w = NoWait => recvq[c] = <<>>
      /\ w # NoWait => InQ(w, recvq[c])
  BY <1>2, ReceiverIs DEF IInv
<1>4. w # NoWait => queue[c] = <<>>
  BY <1>2, <1>3 DEF IInv, VainOK
<1>5. queue \in [Chan -> Seq(Val)]
  BY ValueFacts
<1>6. \/ /\ w = NoWait /\ Room(c) /\ queue' = [queue EXCEPT ![c] = Append(queue[c], m)]
         /\ ServeNobody /\ taken' = taken
      \/ /\ w # NoWait /\ queue' = queue /\ Serve(w, m)
         /\ taken' = [taken EXCEPT ![c] = Append(taken[c], m)]
  <2>1. \/ /\ Room(c) /\ w = NoWait
           /\ queue' = [queue EXCEPT ![c] = Append(queue[c], m)]
           /\ ServeNobody /\ UNCHANGED taken
        \/ /\ Room(c) /\ w # NoWait
           /\ queue' = [queue EXCEPT ![c] = Tail(Append(queue[c], m))]
           /\ Serve(w, Head(Append(queue[c], m)))
           /\ taken' = [taken EXCEPT ![c] = Append(@, Head(Append(queue[c], m)))]
        \/ /\ ~Room(c)
           /\ Serve(w, m) /\ taken' = [taken EXCEPT ![c] = Append(@, m)]
           /\ UNCHANGED queue
    BY Zenon DEF chan_try_send
  <2>3. queue[c] = <<>> => /\ Head(Append(queue[c], m)) = m /\ Tail(Append(queue[c], m)) = queue[c]
    <3>1. queue[c] \in Seq(Val) /\ m \in Val
      BY <1>2, <1>5
    <3> QED BY <3>1
  <2>4. Room(c) \/ w # NoWait
    BY DEF CanSend
  <2>5. [queue EXCEPT ![c] = queue[c]] = queue
    BY <1>5
  <2> QED BY <1>4, <2>1, <2>3, <2>4, <2>5
<1> QED BY <1>2, <1>3, <1>4, <1>6

(* chan_try_send preserves the invariant.                                  *)
LEMMA TrySend ==
  ASSUME IInv, NEW p \in Lthread, NEW s, GoodCall(s), NEW i \in WIdx(s), CanSend(s.chans[i]),
         chan_try_send(s, i)
  PROVE  IInv'
<1> DEFINE c == s.chans[i]
           m == s.msgs[i]
<1>1. s \in Sel
  BY DEF GoodCall
<1>2. c \in Chan /\ m \in Val /\ fate[m] = "unused"
  BY <1>1, SelFacts DEF GoodCall
<1>3. m \notin Buffered \cup Taken
  BY <1>2, UnusedNotOut DEF IInv
<1>4. PICK w : w = FirstReceiver(c)
  OBVIOUS
<1>5. /\ w = NoWait => recvq[c] = <<>>
      /\ w # NoWait => InQ(w, recvq[c])
  <2> HIDE DEF c
  <2> QED BY <1>2, <1>4, ReceiverIs DEF IInv
<1>6. /\ queue \in [Chan -> Seq(Val)] /\ taken \in [Chan -> Seq(Val)] /\ returned \subseteq Val
      /\ Buffered = All(queue) /\ Taken = All(taken) /\ Buffered' = All(queue') /\ Taken' = All(taken')
      /\ Inj(queue) /\ Buffered \cap Taken = {} /\ returned \subseteq Taken
      /\ \A v \in Val : v # NULL
  BY ValueFacts DEF Buffered, Taken, All
<1>7. /\ SendReturns(s, i) /\ UNCHANGED <<closed, disposed, aborted>> /\ returned' = returned
      /\ m = IF i \in WIdx(s) THEN s.msgs[i] ELSE NULL
  BY DEF chan_try_send
<1>8. \/ /\ w = NoWait /\ Room(c) /\ queue' = [queue EXCEPT ![c] = Append(queue[c], m)]
         /\ ServeNobody /\ taken' = taken
      \/ /\ w # NoWait /\ queue' = queue /\ Serve(w, m)
         /\ taken' = [taken EXCEPT ![c] = Append(taken[c], m)]
  BY <1>4, SendIs
<1> HIDE DEF c, m
<1>9. CASE /\ w = NoWait /\ Room(c) /\ queue' = [queue EXCEPT ![c] = Append(queue[c], m)]
           /\ ServeNobody /\ taken' = taken
  <2>1. /\ queue' \in [Chan -> Seq(Val)] /\ Len(queue'[c]) = Len(queue[c]) + 1
        /\ \A v : v \in All(queue') <=> v \in All(queue) \/ v = m
        /\ Inj(queue')
    <3>1. queue \in [Chan -> Seq(Val)]
      BY <1>6
    <3>2. Inj(queue) /\ m \notin All(queue)
      BY <1>3, <1>6
    <3>3. c \in Chan /\ m \in Val
      BY <1>2
    <3>4. queue' = Appended(queue, c, m)
      BY <1>9 DEF Appended
    <3> QED BY <3>1, <3>2, <3>3, <3>4, AppendAll
  <2>2. /\ QueuesOK' /\ ReadyOK' /\ SameAsks /\ Shrunk
        /\ \A q \in Lthread : \A v : /\ Passed(q, v)' <=> Passed(q, v)
                                     /\ Holds(q, v)' <=> Holds(q, v)
    BY <1>9, Nobody DEF IInv
  <2>3. \A d \in Chan : Len(queue'[d]) <= Capacity[d]
    <3> SUFFICES ASSUME NEW d \in Chan PROVE Len(queue'[d]) <= Capacity[d]
      OBVIOUS
    <3>1. CASE d = c
      <4>1. Len(queue[c]) \in Nat /\ Capacity[c] \in Nat /\ Len(queue[c]) < Capacity[c]
        <5>1. queue[c] \in Seq(Val)
          BY <1>2, <1>6
        <5>2. Capacity[c] \in Nat
          BY <1>2, ChanAssumption
        <5> QED BY <1>9, <5>1, <5>2 DEF Room
      <4> QED BY <2>1, <3>1, <4>1
    <3>2. CASE d # c
      <4>1. queue'[d] = queue[d]
        BY <1>6, <1>9, <3>2
      <4> QED BY <4>1 DEF IInv, TypeOK
    <3> QED BY <3>1, <3>2
  <2>4. ValOK'
    BY <1>3, <1>6, <1>7, <1>9, <2>1 DEF ValOK
  <2>5. VainOK'
    <3>1. ASSUME NEW d \in Chan \ {c} PROVE queue'[d] = queue[d] /\ (Room(d)' <=> Room(d))
      BY <1>6, <1>9 DEF Room
    <3>2. \A x : ~InQ(x, sendq'[c]) /\ ~InQ(x, recvq'[c])
      <4>1. \A x : ~InQ(x, sendq[c])
        BY <1>2, <1>9 DEF IInv, VainOK
      <4>2. recvq[c] = <<>>
        BY <1>5, <1>9
      <4>3. \A x : ~InQ(x, recvq[c])
        BY <4>2 DEF InQ
      <4> QED BY <1>2, <2>2, <4>1, <4>3 DEF Shrunk
    <3>3. closed' = closed
      BY <1>7
    <3>4. VainAt(c)'
      BY <3>2 DEF VainAt
    <3>5. ASSUME NEW d \in Chan \ {c} PROVE VainAt(d)'
      BY <2>2, <3>1, <3>3, VainShrunk DEF IInv
    <3> QED BY <3>4, <3>5, VainIs
  <2>6. Moved(p, m, NULL, NULL)
    <3>1. \A v \in Val :
            /\ v \in (Buffered \cup Taken)' <=> v \in Buffered \cup Taken \/ v = m \/ v = NULL
            /\ v \in (Taken \ returned)' <=> v \in Taken \ returned \/ v = NULL
      BY <1>6, <1>7, <1>9, <2>1
    <3>2. /\ \A q \in Lthread, v \in Val : Passed(q, v)' <=> Passed(q, v) \/ (q = p /\ v = NULL)
          /\ \A q \in Lthread, v \in Val : Holds(q, v)' <=> Holds(q, v) \/ (q = p /\ v = NULL)
      BY <1>6, <2>2
    <3> QED BY <3>1, <3>2, Zenon DEF Moved
  <2>7. sel' \in [Lthread -> Sel] /\ pc' \in [Lthread -> {"idle", "blocked", "ready"}]
    BY <1>9 DEF IInv, TypeOK, ServeNobody
  <2>8. taken' \in [Chan -> Seq(Val)] /\ returned' \subseteq Val
    BY <1>6, <1>7, <1>9
  <2> QED BY <1>7, <2>1, <2>2, <2>3, <2>4, <2>5, <2>6, <2>7, <2>8, Returns
<1>10. CASE /\ w # NoWait /\ queue' = queue /\ Serve(w, m)
            /\ taken' = [taken EXCEPT ![c] = Append(taken[c], m)]
  <2>0. InQ(w, recvq[c]) /\ w[1] \in Lthread /\ w[2] \in RIdx(sel[w[1]]) /\ w[2] \notin WIdx(sel[w[1]])
    <3>1. InQ(w, recvq[c])
      BY <1>5, <1>10
    <3>2. w[1] \in Lthread /\ WaitsOn(w, c, RIdx(sel[w[1]]))
      BY <1>2, <3>1, QueuesHold DEF IInv
    <3>3. sel[w[1]] \in Sel
      BY <3>2 DEF IInv, TypeOK
    <3>4. w[2] \in RIdx(sel[w[1]])
      BY <3>2 DEF WaitsOn
    <3> QED BY <3>1, <3>2, <3>3, <3>4, SelFacts
  <2>1. /\ taken' \in [Chan -> Seq(Val)]
        /\ \A v : v \in All(taken') <=> v \in All(taken) \/ v = m
    <3>1. taken \in [Chan -> Seq(Val)]
      BY <1>6
    <3>2. c \in Chan /\ m \in Val
      BY <1>2
    <3>3. taken' = Appended(taken, c, m)
      BY <1>10 DEF Appended
    <3> QED BY <3>1, <3>2, <3>3, AppendAll
  <2>2. /\ QueuesOK' /\ ReadyOK' /\ Shrunk /\ SameAsks
        /\ sel' \in [Lthread -> Sel] /\ pc' \in [Lthread -> {"idle", "blocked", "ready"}]
        /\ \A q \in Lthread : \A v :
             /\ Passed(q, v)' <=> \/ Passed(q, v)
                                  \/ q = w[1] /\ w[2] \in WIdx(sel[q]) /\ v = m
             /\ Holds(q, v)' <=> \/ Holds(q, v)
                                 \/ q = w[1] /\ w[2] \in RIdx(sel[q]) /\ v = m
    <3>1. TypeOK /\ QueuesOK /\ ReadyOK
      BY DEF IInv
    <3>2. m \in Val \cup {NULL}
      BY <1>2
    <3> QED BY <1>2, <1>10, <2>0, <3>1, <3>2, Serves
  <2>3. \A d \in Chan : Len(queue'[d]) <= Capacity[d]
    BY <1>10 DEF IInv, TypeOK
  <2>4. ValOK'
    BY <1>3, <1>6, <1>7, <1>10, <2>1 DEF ValOK
  <2>5. VainOK'
    BY <1>7, <1>10, <2>2, VainShrunk, VainIs DEF IInv
  <2>6. Moved(w[1], m, NULL, m)
    <3>1. \A v \in Val :
            /\ v \in (Buffered \cup Taken)' <=> v \in Buffered \cup Taken \/ v = m \/ v = NULL
            /\ v \in (Taken \ returned)' <=> v \in Taken \ returned \/ v = m
      BY <1>3, <1>6, <1>7, <1>10, <2>1
    <3>2. /\ \A q \in Lthread, v \in Val : Passed(q, v)' <=> Passed(q, v) \/ (q = w[1] /\ v = NULL)
          /\ \A q \in Lthread, v \in Val : Holds(q, v)' <=> Holds(q, v) \/ (q = w[1] /\ v = m)
      BY <1>6, <2>0, <2>2
    <3> QED BY <3>1, <3>2, Zenon DEF Moved
  <2>7. returned' \subseteq Val /\ queue' \in [Chan -> Seq(Val)]
    BY <1>6, <1>7, <1>10
  <2> QED BY <1>7, <2>0, <2>1, <2>2, <2>3, <2>4, <2>5, <2>6, <2>7, Returns
<1> QED BY <1>8, <1>9, <1>10

(* A receiver serves the blocked sender it finds, if any.                  *)
LEMMA HeadServed ==
  ASSUME IInv, NEW p \in Lthread, NEW c \in Chan, NEW w, w = HeadSender(c),
         NEW msg, msg = IF w = NoWait THEN NULL ELSE sel[w[1]].msgs[w[2]],
         IF w = NoWait THEN ServeNobody ELSE Serve(w, msg)
  PROVE  /\ w = NoWait => sendq[c] = <<>> /\ msg = NULL
         /\ w # NoWait => /\ InQ(w, sendq[c])
                          /\ msg \in Val /\ fate[msg] = "waiting" /\ msg \notin Buffered \cup Taken
         /\ QueuesOK' /\ ReadyOK' /\ Shrunk /\ SameAsks
         /\ sel' \in [Lthread -> Sel] /\ pc' \in [Lthread -> {"idle", "blocked", "ready"}]
         /\ \E r \in Lthread :
              /\ \A q \in Lthread, v \in Val : Passed(q, v)' <=> Passed(q, v) \/ (q = r /\ v = msg)
              /\ \A q \in Lthread, v \in Val : Holds(q, v)' <=> Holds(q, v) \/ (q = r /\ v = NULL)
<1>0. TypeOK /\ QueuesOK /\ ReadyOK /\ AskOK /\ SendHonest /\ \A v \in Val : v # NULL
  BY ValueFacts DEF IInv
<1>1. /\ w = NoWait => sendq[c] = <<>>
      /\ w # NoWait => InQ(w, sendq[c])
  BY <1>0, SenderIs
<1>2. CASE w = NoWait
  <2>1. msg = NULL /\ ServeNobody
    BY <1>2
  <2>2. /\ QueuesOK' /\ ReadyOK' /\ SameAsks /\ Shrunk
        /\ \A q \in Lthread : \A v : /\ Passed(q, v)' <=> Passed(q, v)
                                     /\ Holds(q, v)' <=> Holds(q, v)
    BY <1>0, <2>1, Nobody
  <2>3. sel' \in [Lthread -> Sel] /\ pc' \in [Lthread -> {"idle", "blocked", "ready"}]
    BY <1>0, <2>1 DEF TypeOK, ServeNobody
  <2>4. /\ \A q \in Lthread, v \in Val : Passed(q, v)' <=> Passed(q, v) \/ (q = p /\ v = msg)
        /\ \A q \in Lthread, v \in Val : Holds(q, v)' <=> Holds(q, v) \/ (q = p /\ v = NULL)
    BY <1>0, <2>1, <2>2
  <2> QED BY <1>1, <1>2, <2>1, <2>2, <2>3, <2>4
<1>3. CASE w # NoWait
  <2>1. msg = sel[w[1]].msgs[w[2]] /\ Serve(w, msg) /\ InQ(w, sendq[c])
    BY <1>1, <1>3
  <2>2. w[1] \in Lthread /\ WaitsOn(w, c, WIdx(sel[w[1]]))
    BY <1>0, <2>1, QueuesHold
  <2>3. Waiting(w[1]) /\ w[2] \in WIdx(sel[w[1]])
    BY <2>2 DEF WaitsOn
  <2>4. msg \in Val /\ fate[msg] = "waiting" /\ msg \notin Buffered \cup Taken
    BY <1>0, <2>1, <2>2, <2>3, BlockedNotOut
  <2>5. w[2] \notin RIdx(sel[w[1]])
    <3>1. sel[w[1]] \in Sel
      BY <1>0, <2>2 DEF TypeOK
    <3> QED BY <2>3, <3>1, SelFacts
  <2>6. /\ QueuesOK' /\ ReadyOK' /\ Shrunk /\ SameAsks
        /\ sel' \in [Lthread -> Sel] /\ pc' \in [Lthread -> {"idle", "blocked", "ready"}]
        /\ \A q \in Lthread : \A v :
             /\ Passed(q, v)' <=> \/ Passed(q, v)
                                  \/ q = w[1] /\ w[2] \in WIdx(sel[q]) /\ v = msg
             /\ Holds(q, v)' <=> \/ Holds(q, v)
                                 \/ q = w[1] /\ w[2] \in RIdx(sel[q]) /\ v = msg
    <3>1. msg \in Val \cup {NULL}
      BY <2>4
    <3> QED BY <1>0, <2>1, <3>1, Serves
  <2>7. /\ \A q \in Lthread, v \in Val : Passed(q, v)' <=> Passed(q, v) \/ (q = w[1] /\ v = msg)
        /\ \A q \in Lthread, v \in Val : Holds(q, v)' <=> Holds(q, v) \/ (q = w[1] /\ v = NULL)
    BY <1>0, <2>3, <2>5, <2>6
  <2> QED BY <1>3, <2>1, <2>2, <2>4, <2>6, <2>7
<1> QED BY <1>2, <1>3

(* chan_try_recv preserves the invariant.                                  *)
LEMMA TryRecv ==
  ASSUME IInv, NEW p \in Lthread, NEW s, GoodCall(s), NEW i \in RIdx(s), chan_try_recv(s, i)
  PROVE  IInv'
<1> DEFINE c == s.chans[i]
<1>1. s \in Sel
  BY DEF GoodCall
<1>2. c \in Chan /\ i \notin WIdx(s)
  BY <1>1, SelFacts
<1>3. PICK w : w = HeadSender(c)
  OBVIOUS
<1>4. PICK u : u = IF w = NoWait THEN NULL ELSE sel[w[1]].msgs[w[2]]
  OBVIOUS
<1>5. /\ \/ /\ queue[c] # <<>>
            /\ queue' = [queue EXCEPT ![c] = Refilled(c, w, u)]
            /\ RecvReturns(Head(queue[c]))
            /\ taken' = [taken EXCEPT ![c] = Append(@, Head(queue[c]))]
         \/ /\ queue[c] = <<>> /\ w # NoWait
            /\ RecvReturns(u) /\ taken' = [taken EXCEPT ![c] = Append(@, u)]
            /\ UNCHANGED queue
         \/ /\ queue[c] = <<>> /\ w = NoWait
            /\ RecvReturns(NULL)
            /\ UNCHANGED <<queue, taken>>
      /\ IF w = NoWait THEN ServeNobody ELSE Serve(w, u)
      /\ SendReturns(s, i)
      /\ UNCHANGED <<closed, disposed, aborted>>
  BY <1>3, <1>4, Zenon DEF chan_try_recv
<1> HIDE DEF c
<1>6. /\ w = NoWait => sendq[c] = <<>> /\ u = NULL
      /\ w # NoWait => InQ(w, sendq[c]) /\ u \in Val /\ fate[u] = "waiting" /\ u \notin Buffered \cup Taken
      /\ QueuesOK' /\ ReadyOK' /\ Shrunk /\ SameAsks
      /\ sel' \in [Lthread -> Sel] /\ pc' \in [Lthread -> {"idle", "blocked", "ready"}]
      /\ \E r \in Lthread :
           /\ \A q \in Lthread, v \in Val : Passed(q, v)' <=> Passed(q, v) \/ (q = r /\ v = u)
           /\ \A q \in Lthread, v \in Val : Holds(q, v)' <=> Holds(q, v) \/ (q = r /\ v = NULL)
  <2>1. IF w = NoWait THEN ServeNobody ELSE Serve(w, u)
    BY <1>5
  <2>2. c \in Chan
    BY <1>2
  <2> QED BY <1>3, <1>4, <2>1, <2>2, HeadServed
<1>7. PICK r \in Lthread :
        /\ \A q \in Lthread, v \in Val : Passed(q, v)' <=> Passed(q, v) \/ (q = r /\ v = u)
        /\ \A q \in Lthread, v \in Val : Holds(q, v)' <=> Holds(q, v) \/ (q = r /\ v = NULL)
  BY <1>6
<1>8. /\ queue \in [Chan -> Seq(Val)] /\ taken \in [Chan -> Seq(Val)] /\ returned \subseteq Val
      /\ Buffered = All(queue) /\ Taken = All(taken) /\ Buffered' = All(queue') /\ Taken' = All(taken')
      /\ Inj(queue) /\ Buffered \cap Taken = {} /\ returned \subseteq Taken
      /\ \A v \in Val : v # NULL
  BY ValueFacts DEF Buffered, Taken, All
<1>9. queue \in [Chan -> Seq(Val)]
  BY <1>8
<1>10. taken \in [Chan -> Seq(Val)]
  BY <1>8
(* The rest of the proof, from what the case does to the values. *)
<1>11. ASSUME queue' \in [Chan -> Seq(Val)], \A d \in Chan : Len(queue'[d]) <= Capacity[d],
              taken' \in [Chan -> Seq(Val)], returned' \subseteq Val,
              Inj(queue'), All(queue') \cap All(taken') = {}, returned' \subseteq All(taken'),
              \A v \in Val : v \in All(queue') \cup All(taken')
                               <=> v \in Buffered \cup Taken \/ v = NULL \/ v = u,
              \A v \in Val : v \in All(taken') \ returned' <=> v \in Taken \ returned \/ v = NULL,
              VainAt(c)', \A d \in Chan \ {c} : queue'[d] = queue[d]
       PROVE  IInv'
  <2>1. ValOK'
    BY <1>8, <1>11 DEF ValOK
  <2>2. VainOK'
    <3>1. ASSUME NEW d \in Chan \ {c} PROVE VainAt(d)'
      BY <1>5, <1>6, <1>11, VainShrunk DEF IInv
    <3> QED BY <1>11, <3>1, VainIs
  <2>3. Moved(r, NULL, u, NULL)
    <3>1. \A v \in Val :
            /\ v \in (Buffered \cup Taken)' <=> v \in Buffered \cup Taken \/ v = NULL \/ v = u
            /\ v \in (Taken \ returned)' <=> v \in Taken \ returned \/ v = NULL
      BY <1>8, <1>11
    <3>2. u # NULL => u \in Val /\ fate[u] = "waiting"
      BY <1>6
    <3> QED BY <1>7, <3>1, <3>2, Zenon DEF Moved
  <2>4. NULL = IF i \in WIdx(s) THEN s.msgs[i] ELSE NULL
    BY <1>2
  <2>5. SendReturns(s, i) /\ UNCHANGED <<closed, disposed, aborted>>
    BY <1>5
  <2> QED BY <1>6, <1>11, <2>1, <2>2, <2>3, <2>4, <2>5, Returns
<1>12. CASE /\ queue[c] # <<>>
            /\ queue' = [queue EXCEPT ![c] = Refilled(c, w, u)]
            /\ RecvReturns(Head(queue[c]))
            /\ taken' = [taken EXCEPT ![c] = Append(@, Head(queue[c]))]
  <2> DEFINE h == Head(queue[c])
             g == Tailed(queue, c)
  <2>1. /\ g \in [Chan -> Seq(Val)] /\ Len(g[c]) = Len(queue[c]) - 1
        /\ \A v : v \in All(g) <=> v \in All(queue) /\ v # h
        /\ Inj(g) /\ h \in All(queue) /\ h \in Val
    <3>1. Inj(queue) /\ queue[c] # <<>>
      BY <1>8, <1>12
    <3> QED BY <1>2, <1>9, <3>1, TailAll
  <2>2. g \in [Chan -> Seq(Val)]
    BY <2>1
  <2>3. g[c] = Tail(queue[c]) /\ \A d \in Chan \ {c} : g[d] = queue[d]
    BY <1>2, <1>9 DEF Tailed
  <2>4. queue' = IF w = NoWait THEN g ELSE Appended(g, c, u)
    <3>1. Refilled(c, w, u) = IF w = NoWait THEN Tail(queue[c]) ELSE Append(Tail(queue[c]), u)
      <4>1. queue[c] \in Seq(Val)
        BY <1>2, <1>9
      <4>2. Tail(queue[c]) \in Seq(Val)
        BY <1>12, <4>1
      <4>3. CASE w = NoWait
        BY <4>2, <4>3 DEF Refilled
      <4>4. CASE w # NoWait
        BY <1>6, <4>2, <4>4 DEF Refilled
      <4> QED BY <4>3, <4>4
    <3>2. w = NoWait => queue' = g
      BY <1>12, <3>1 DEF Tailed
    <3>3. w # NoWait => queue' = Appended(g, c, u)
      BY <1>2, <1>9, <1>12, <2>2, <2>3, <3>1 DEF Tailed, Appended
    <3> QED BY <3>2, <3>3
  <2>5. taken' = Appended(taken, c, h)
    BY <1>12 DEF Appended
  <2>6. returned' = returned \cup {h}
    <3>1. h # NULL
      BY <1>8, <2>1
    <3>2. returned' = returned \cup ({h} \ {NULL})
      BY <1>12 DEF RecvReturns
    <3> HIDE DEF h
    <3> QED BY <3>1, <3>2
  <2> HIDE DEF g, h
  <2>7. /\ taken' \in [Chan -> Seq(Val)]
        /\ \A v : v \in All(taken') <=> v \in All(taken) \/ v = h
    <3>1. h \in Val
      BY <2>1
    <3>2. c \in Chan
      BY <1>2
    <3> QED BY <1>10, <2>5, <3>1, <3>2, AppendAll
  <2>8. Len(queue[c]) \in Nat /\ Len(queue[c]) > 0 /\ Len(queue[c]) <= Capacity[c] /\ Capacity[c] \in Nat
    <3>1. queue[c] \in Seq(Val)
      BY <1>2, <1>9
    <3>2. Len(queue[c]) <= Capacity[c] /\ Capacity[c] \in Nat
      BY <1>2, ChanAssumption DEF IInv, TypeOK
    <3> QED BY <1>12, <3>1, <3>2
  <2>9. /\ queue' \in [Chan -> Seq(Val)] /\ Inj(queue')
        /\ Len(queue'[c]) = IF w = NoWait THEN Len(queue[c]) - 1 ELSE Len(queue[c])
        /\ \A v \in Val : v \in All(queue') <=> (v \in All(queue) /\ v # h) \/ v = u
        /\ \A v \in All(queue') : v \in Val
        /\ \A d \in Chan \ {c} : queue'[d] = queue[d]
    <3>1. CASE w = NoWait
      <4>1. queue' = g /\ u = NULL
        BY <1>6, <2>4, <3>1
      <4>2. \A v \in All(g) : v \in Val
        BY <2>2, InAll
      <4> QED BY <1>8, <2>1, <2>3, <3>1, <4>1, <4>2
    <3>2. CASE w # NoWait
      <4>1. queue' = Appended(g, c, u) /\ u \in Val /\ u \notin All(g) /\ Inj(g)
        BY <1>6, <1>8, <2>1, <2>4, <3>2
      <4>2. /\ queue' \in [Chan -> Seq(Val)] /\ Len(queue'[c]) = Len(g[c]) + 1
            /\ \A v : v \in All(queue') <=> v \in All(g) \/ v = u
            /\ Inj(queue')
        BY <1>2, <2>2, <4>1, AppendAll
      <4>3. \A v \in All(queue') : v \in Val
        <5>1. queue' \in [Chan -> Seq(Val)]
          BY <4>2
        <5> QED BY <5>1, InAll
      <4>4. \A d \in Chan \ {c} : queue'[d] = queue[d]
        BY <2>2, <2>3, <4>1 DEF Appended
      <4>5. Len(queue'[c]) = Len(queue[c])
        BY <2>1, <2>8, <4>2
      <4> QED BY <2>1, <3>2, <4>2, <4>3, <4>4, <4>5
    <3> QED BY <3>1, <3>2
  <2>10. \A d \in Chan : Len(queue'[d]) <= Capacity[d]
    <3> SUFFICES ASSUME NEW d \in Chan PROVE Len(queue'[d]) <= Capacity[d]
      OBVIOUS
    <3>1. CASE d = c
      BY <2>8, <2>9, <3>1
    <3>2. CASE d # c
      BY <2>9, <3>2 DEF IInv, TypeOK
    <3> QED BY <3>1, <3>2
  <2>11. VainAt(c)'
    <3>1. \A x : ~InQ(x, recvq'[c])
      BY <1>2, <1>6, <1>12 DEF IInv, VainOK, Shrunk
    <3>2. ASSUME NEW x, InQ(x, sendq'[c]) PROVE ~Room(c)'
      <4>1. InQ(x, sendq[c])
        BY <1>2, <1>6, <3>2 DEF Shrunk
      <4>2. w # NoWait
        BY <1>6, <4>1 DEF InQ
      <4>3. ~Room(c)
        BY <1>2, <4>1 DEF IInv, VainOK
      <4> QED BY <2>9, <4>2, <4>3 DEF Room
    <3> QED BY <3>1, <3>2 DEF VainAt
  <2>12. /\ \A v \in Val : v \in All(queue') \cup All(taken')
                             <=> v \in Buffered \cup Taken \/ v = NULL \/ v = u
         /\ \A v \in Val : v \in All(taken') \ returned' <=> v \in Taken \ returned \/ v = NULL
    BY <1>8, <2>1, <2>6, <2>7, <2>9
  <2>13. All(queue') \cap All(taken') = {} /\ returned' \subseteq All(taken') /\ returned' \subseteq Val
    <3>1. ASSUME NEW v \in All(queue'), v \in All(taken') PROVE FALSE
      <4>1. v \in Val /\ ((v \in All(queue) /\ v # h) \/ v = u) /\ (v \in All(taken) \/ v = h)
        BY <2>7, <2>9, <3>1
      <4>2. u = v => u # NULL /\ u \notin All(queue) /\ u \notin All(taken) /\ u # h
        BY <1>6, <1>8, <2>1, <4>1
      <4> QED BY <1>8, <4>1, <4>2
    <3> QED BY <1>8, <2>1, <2>6, <2>7, <3>1
  <2> QED BY <1>11, <2>7, <2>9, <2>10, <2>11, <2>12, <2>13
<1>13. CASE /\ queue[c] = <<>> /\ w # NoWait
            /\ RecvReturns(u) /\ taken' = [taken EXCEPT ![c] = Append(@, u)]
            /\ UNCHANGED queue
  <2>1. u \in Val /\ u \notin All(queue) /\ u \notin All(taken) /\ u \notin returned
    BY <1>6, <1>8, <1>13
  <2>2. taken' = Appended(taken, c, u) /\ returned' = returned \cup {u} /\ queue' = queue
    BY <1>8, <1>13, <2>1 DEF Appended, RecvReturns
  <2>3. /\ taken' \in [Chan -> Seq(Val)]
        /\ \A v : v \in All(taken') <=> v \in All(taken) \/ v = u
    BY <1>2, <1>10, <2>1, <2>2, AppendAll
  <2>4. /\ \A v \in Val : v \in All(queue') \cup All(taken')
                             <=> v \in Buffered \cup Taken \/ v = NULL \/ v = u
        /\ \A v \in Val : v \in All(taken') \ returned' <=> v \in Taken \ returned \/ v = NULL
    BY <1>8, <2>1, <2>2, <2>3
  <2>5. All(queue') \cap All(taken') = {} /\ returned' \subseteq All(taken') /\ returned' \subseteq Val
    BY <1>8, <2>1, <2>2, <2>3
  <2>6. VainAt(c)'
    BY <1>2, <1>5, <1>6, <2>2, VainShrunk DEF IInv
  <2>7. (\A d \in Chan : Len(queue'[d]) <= Capacity[d]) /\ Inj(queue')
    BY <1>8, <2>2 DEF IInv, TypeOK
  <2> QED BY <1>9, <1>11, <2>2, <2>3, <2>4, <2>5, <2>6, <2>7
<1>14. CASE /\ queue[c] = <<>> /\ w = NoWait
            /\ RecvReturns(NULL)
            /\ UNCHANGED <<queue, taken>>
  <2>1. queue' = queue /\ taken' = taken /\ returned' = returned /\ u = NULL
    BY <1>6, <1>14 DEF RecvReturns
  <2>2. VainAt(c)'
    BY <1>2, <1>5, <1>6, <2>1, VainShrunk DEF IInv
  <2>3. (\A d \in Chan : Len(queue'[d]) <= Capacity[d]) /\ Inj(queue')
    BY <1>8, <2>1 DEF IInv, TypeOK
  <2> QED BY <1>8, <1>11, <2>1, <2>2, <2>3
<1> QED BY <1>5, <1>12, <1>13, <1>14

(* A call that gives up at once, no channel being ready.                   *)
LEMMA GivesUp ==
  ASSUME IInv, NEW p \in Lthread, NEW s, GoodCall(s), SendReturns(s, None),
         UNCHANGED <<cvars, pvars, taken, returned>>
  PROVE  IInv'
<1>1. /\ queue' = queue /\ closed' = closed /\ sendq' = sendq /\ recvq' = recvq
      /\ send_count' = send_count /\ recv_count' = recv_count /\ disposed' = disposed
      /\ pc' = pc /\ sel' = sel /\ aborted' = aborted /\ taken' = taken /\ returned' = returned
  BY DEF cvars, pvars
<1>2. TypeOK /\ QueuesOK /\ ReadyOK /\ VainOK /\ ValOK
  BY DEF IInv
<1>3. ServeNobody
  BY <1>1 DEF ServeNobody
<1>4. /\ QueuesOK' /\ ReadyOK' /\ SameAsks /\ Shrunk
      /\ \A q \in Lthread : \A v : /\ Passed(q, v)' <=> Passed(q, v)
                                   /\ Holds(q, v)' <=> Holds(q, v)
  BY <1>2, <1>3, Nobody
<1>5. VainOK'
  BY <1>1, <1>2, <1>4, VainShrunk, VainIs
<1>6. Buffered' = Buffered /\ Taken' = Taken
  BY <1>1 DEF Buffered, Taken
<1>7. ValOK'
  BY <1>1, <1>2, <1>6 DEF ValOK, Inj
<1>8. Moved(p, NULL, NULL, NULL)
  <2>1. \A v \in Val : v # NULL
    BY ValueFacts
  <2>2. \A v \in Val :
          /\ v \in (Buffered \cup Taken)' <=> v \in Buffered \cup Taken \/ v = NULL \/ v = NULL
          /\ v \in (Taken \ returned)' <=> v \in Taken \ returned \/ v = NULL
    BY <1>1, <1>6, <2>1
  <2>3. /\ \A q \in Lthread, v \in Val : Passed(q, v)' <=> Passed(q, v) \/ (q = p /\ v = NULL)
        /\ \A q \in Lthread, v \in Val : Holds(q, v)' <=> Holds(q, v) \/ (q = p /\ v = NULL)
    BY <1>4, <2>1
  <2> QED BY <2>2, <2>3, Zenon DEF Moved
<1>9. NULL = IF None \in WIdx(s) THEN s.msgs[None] ELSE NULL
  BY DEF WIdx, None
<1>10. /\ sel' \in [Lthread -> Sel] /\ pc' \in [Lthread -> {"idle", "blocked", "ready"}]
       /\ queue' \in [Chan -> Seq(Val)] /\ (\A c \in Chan : Len(queue'[c]) <= Capacity[c])
       /\ taken' \in [Chan -> Seq(Val)] /\ returned' \subseteq Val
       /\ UNCHANGED <<closed, disposed, aborted>>
  BY <1>1, <1>2 DEF TypeOK
<1> QED BY <1>4, <1>5, <1>7, <1>8, <1>9, <1>10, Returns

(* A call that blocks: its waits are queued on its channels, where nobody  *)
(* it could deal with waits.                                               *)
LEMMA Blocks ==
  ASSUME IInv, NEW p \in Lthread, pc[p] = "idle", NEW s, GoodCall(s), Block(p, s),
         \A i \in WIdx(s) : ~CanSend(s.chans[i]), \A i \in RIdx(s) : ~CanRecv(s.chans[i])
  PROVE  IInv'
<1>0. TypeOK /\ QueuesOK /\ ReadyOK /\ VainOK /\ AskOK /\ SendHonest /\ HandedToOne /\ ValOK
  BY DEF IInv
<1>1. s \in Sel
  BY DEF GoodCall
<1>2. /\ s.chans \in Seq(Chan) /\ WIdx(s) \in SUBSET (1..LTHR_SEL_CHANS)
      /\ RIdx(s) \in SUBSET (1..LTHR_SEL_CHANS)
      /\ \A i \in WIdx(s) : s.chans[i] \in Chan
      /\ \A i \in RIdx(s) : s.chans[i] \in Chan
  BY <1>1, SelFacts
<1>3. sel \in [Lthread -> Sel] /\ pc \in [Lthread -> {"idle", "blocked", "ready"}]
  BY <1>0 DEF TypeOK
<1>4. /\ sel'[p] = s /\ pc'[p] = "blocked"
      /\ \A q \in Lthread \ {p} : pc'[q] = pc[q] /\ sel'[q] = sel[q]
      /\ sel' \in [Lthread -> Sel] /\ pc' \in [Lthread -> {"idle", "blocked", "ready"}]
      /\ UNCHANGED <<queue, taken, returned, closed, disposed, aborted>>
  BY <1>1, <1>3 DEF Block
<1>5. \A v \in Val : fate'[v] = IF \E j \in WIdx(s) : s.msgs[j] = v THEN "waiting" ELSE fate[v]
  BY DEF Block
<1>6. AskOK' /\ FreshOK' /\ ValOK' /\ SendHonest' /\ HandedToOne'
  <2>1. UNCHANGED <<queue, taken, returned>>
    BY <1>4
  <2> QED BY <1>0, <1>4, <1>5, <2>1, CallBlocks
<1>7. ReadyOK'
  BY <1>0, <1>4 DEF ReadyOK, GoodCall
<1>8. \A c \in Chan : \A i : ~InQ(<<p, i>>, sendq[c]) /\ ~InQ(<<p, i>>, recvq[c])
  BY <1>0, QueuesHold DEF WaitsOn, Waiting
<1>9. sendq \in [Chan -> Seq(Wait)]
  BY <1>0 DEF QueuesOK
<1>10. recvq \in [Chan -> Seq(Wait)]
  BY <1>0 DEF QueuesOK
<1>11. /\ sendq' \in [Chan -> Seq(Wait)]
       /\ \A c \in Chan :
            /\ \A w \in Wait : InQ(w, sendq'[c]) <=>
                         InQ(w, sendq[c]) \/ (w[1] = p /\ w[2] \in WIdx(s) /\ s.chans[w[2]] = c)
            /\ Distinct(sendq[c]) => Distinct(sendq'[c])
            /\ Len(sendq'[c]) = Len(sendq[c]) + Cardinality({i \in WIdx(s) : s.chans[i] = c})
            /\ Cardinality({i \in WIdx(s) : s.chans[i] = c}) \in Nat
  <2>1. sendq' = Queued(sendq, p, s, WIdx(s))
    BY DEF Block
  <2>2. WIdx(s) \in SUBSET (1..LTHR_SEL_CHANS)
    BY <1>2
  <2>3. \A c \in Chan : \A i : ~InQ(<<p, i>>, sendq[c])
    BY <1>8
  <2>4. Lengthened(sendq, p, s, WIdx(s))
    BY <1>9, <2>2, <2>3, QueuedIs
  <2> QED BY <2>1, <2>4 DEF Lengthened
<1>12. /\ recvq' \in [Chan -> Seq(Wait)]
       /\ \A c \in Chan :
            /\ \A w \in Wait : InQ(w, recvq'[c]) <=>
                         InQ(w, recvq[c]) \/ (w[1] = p /\ w[2] \in RIdx(s) /\ s.chans[w[2]] = c)
            /\ Distinct(recvq[c]) => Distinct(recvq'[c])
            /\ Len(recvq'[c]) = Len(recvq[c]) + Cardinality({i \in RIdx(s) : s.chans[i] = c})
            /\ Cardinality({i \in RIdx(s) : s.chans[i] = c}) \in Nat
  <2>1. recvq' = Queued(recvq, p, s, RIdx(s))
    BY DEF Block
  <2>2. RIdx(s) \in SUBSET (1..LTHR_SEL_CHANS)
    BY <1>2
  <2>3. \A c \in Chan : \A i : ~InQ(<<p, i>>, recvq[c])
    BY <1>8
  <2>4. Lengthened(recvq, p, s, RIdx(s))
    BY <1>10, <2>2, <2>3, QueuedIs
  <2> QED BY <2>1, <2>4 DEF Lengthened
<1>13. ASSUME NEW c \in Chan
       PROVE  send_count'[c] = Len(sendq'[c]) /\ recv_count'[c] = Len(recvq'[c])
  <2>1. /\ send_count'[c] = send_count[c] + Cardinality({i \in WIdx(s) : s.chans[i] = c})
        /\ recv_count'[c] = recv_count[c] + Cardinality({i \in RIdx(s) : s.chans[i] = c})
    BY DEF Block, Counted
  <2>2. send_count[c] = Len(sendq[c]) /\ recv_count[c] = Len(recvq[c])
    BY <1>0 DEF QueuesOK
  <2>3. /\ Len(sendq'[c]) = Len(sendq[c]) + Cardinality({i \in WIdx(s) : s.chans[i] = c})
        /\ Len(recvq'[c]) = Len(recvq[c]) + Cardinality({i \in RIdx(s) : s.chans[i] = c})
    BY <1>11, <1>12
  <2> QED BY <2>1, <2>2, <2>3
<1>14. send_count' \in [Chan -> Nat] /\ recv_count' \in [Chan -> Nat]
  <2>1. \A c \in Chan : send_count'[c] \in Nat /\ recv_count'[c] \in Nat
    BY <1>11, <1>12, <1>13
  <2>2. send_count' = [c \in Chan |-> send_count'[c]] /\ recv_count' = [c \in Chan |-> recv_count'[c]]
    BY DEF Block, Counted
  <2> QED BY <2>1, <2>2
<1>15. ASSUME NEW c \in Chan, NEW w \in Wait
       PROVE  /\ InQ(w, sendq'[c]) <=> WaitsOn(w, c, WIdx(sel[w[1]]))'
              /\ InQ(w, recvq'[c]) <=> WaitsOn(w, c, RIdx(sel[w[1]]))'
  <2>0. w[1] \in Lthread
    BY DEF Wait
  <2>1. /\ InQ(w, sendq[c]) <=> WaitsOn(w, c, WIdx(sel[w[1]]))
        /\ InQ(w, recvq[c]) <=> WaitsOn(w, c, RIdx(sel[w[1]]))
    BY <1>0 DEF QueuesOK
  <2>2. CASE w[1] = p
    <3>1. ~WaitsOn(w, c, WIdx(sel[w[1]])) /\ ~WaitsOn(w, c, RIdx(sel[w[1]]))
      BY <2>2 DEF WaitsOn, Waiting
    <3>2. /\ InQ(w, sendq'[c]) <=> w[2] \in WIdx(s) /\ s.chans[w[2]] = c
          /\ InQ(w, recvq'[c]) <=> w[2] \in RIdx(s) /\ s.chans[w[2]] = c
      BY <1>11, <1>12, <2>1, <2>2, <3>1
    <3>3. sel'[w[1]] = s /\ pc'[w[1]] = "blocked"
      BY <1>4, <2>2
    <3>4. WIdx(sel'[w[1]]) = WIdx(s) /\ RIdx(sel'[w[1]]) = RIdx(s)
      BY <3>3
    <3> QED BY <3>2, <3>3, <3>4 DEF WaitsOn, Waiting
  <2>3. CASE w[1] # p
    <3>1. sel'[w[1]] = sel[w[1]] /\ pc'[w[1]] = pc[w[1]]
      BY <1>4, <2>0, <2>3
    <3>2. /\ InQ(w, sendq'[c]) <=> InQ(w, sendq[c])
          /\ InQ(w, recvq'[c]) <=> InQ(w, recvq[c])
      BY <1>11, <1>12, <2>3
    <3> QED BY <2>1, <3>1, <3>2 DEF WaitsOn, Waiting, WIdx, RIdx
  <2> QED BY <2>2, <2>3
<1>16. QueuesOK'
  BY <1>0, <1>11, <1>12, <1>13, <1>14, <1>15 DEF QueuesOK
<1>17. VainOK'
  <2> SUFFICES ASSUME NEW c \in Chan PROVE VainAt(c)'
    BY VainIs
  <2>0. queue'[c] = queue[c] /\ closed'[c] = closed[c] /\ (Room(c)' <=> Room(c)) /\ VainAt(c)
    BY <1>0, <1>4, VainIs DEF Room
  <2>1. \A w : /\ InQ(w, sendq'[c]) => \/ InQ(w, sendq[c])
                                       \/ w[1] = p /\ ~Room(c) /\ \A x : ~InQ(x, recvq[c])
               /\ InQ(w, recvq'[c]) =>
                    \/ InQ(w, recvq[c])
                    \/ w[1] = p /\ queue[c] = <<>> /\ ~closed[c] /\ \A x : ~InQ(x, sendq[c])
    <3> SUFFICES ASSUME NEW w
        PROVE  /\ InQ(w, sendq'[c]) => \/ InQ(w, sendq[c])
                                       \/ w[1] = p /\ ~Room(c) /\ \A x : ~InQ(x, recvq[c])
               /\ InQ(w, recvq'[c]) =>
                    \/ InQ(w, recvq[c])
                    \/ w[1] = p /\ queue[c] = <<>> /\ ~closed[c] /\ \A x : ~InQ(x, sendq[c])
      OBVIOUS
    <3>1. InQ(w, sendq'[c]) \/ InQ(w, recvq'[c]) => w \in Wait
      <4>1. sendq'[c] \in Seq(Wait)
        BY <1>11
      <4>2. recvq'[c] \in Seq(Wait)
        BY <1>12
      <4> QED BY <4>1, <4>2, SeqMembers
    <3>2. ASSUME NEW i \in WIdx(s), s.chans[i] = c PROVE ~Room(c) /\ \A x : ~InQ(x, recvq[c])
      <4>1. ~Room(c) /\ FirstReceiver(c) = NoWait
        BY <3>2 DEF CanSend
      <4>2. recvq[c] = <<>>
        BY <1>0, <4>1, ReceiverIs
      <4> QED BY <4>1, <4>2 DEF InQ
    <3>3. ASSUME NEW i \in RIdx(s), s.chans[i] = c
          PROVE  queue[c] = <<>> /\ ~closed[c] /\ \A x : ~InQ(x, sendq[c])
      <4>1. queue[c] = <<>> /\ ~closed[c] /\ HeadSender(c) = NoWait
        BY <3>3 DEF CanRecv
      <4>2. sendq[c] = <<>>
        BY <1>0, <4>1, SenderIs
      <4> QED BY <4>1, <4>2 DEF InQ
    <3>4. InQ(w, sendq'[c]) =>
            InQ(w, sendq[c]) \/ (w[1] = p /\ w[2] \in WIdx(s) /\ s.chans[w[2]] = c)
      BY <1>11, <3>1
    <3>5. InQ(w, recvq'[c]) =>
            InQ(w, recvq[c]) \/ (w[1] = p /\ w[2] \in RIdx(s) /\ s.chans[w[2]] = c)
      BY <1>12, <3>1
    <3> QED BY <3>2, <3>3, <3>4, <3>5
  <2>2. \A w : InQ(w, sendq'[c]) => ~Room(c)'
    BY <2>0, <2>1 DEF VainAt
  <2>3. \A w : InQ(w, recvq'[c]) => queue'[c] = <<>> /\ ~closed'[c]
    BY <2>0, <2>1 DEF VainAt
  <2>4. \A v, w : InQ(v, sendq'[c]) /\ InQ(w, recvq'[c]) => v[1] = w[1]
    BY <2>0, <2>1 DEF VainAt
  <2> QED BY <2>2, <2>3, <2>4, Zenon DEF VainAt
<1>18. TypeOK'
  <2>1. fate' \in [Val -> {"unused", "waiting", "sent", "unsent"}]
    <3>1. fate \in [Val -> {"unused", "waiting", "sent", "unsent"}]
      BY <1>0 DEF TypeOK
    <3> QED BY <3>1 DEF Block
  <2> QED BY <1>0, <1>4, <1>16, <2>1 DEF TypeOK, QueuesOK
<1> QED BY <1>6, <1>7, <1>16, <1>17, <1>18 DEF IInv

(* An assertion fails or a channel is disposed of: only flags change.      *)
LEMMA Frame ==
  ASSUME IInv, UNCHANGED <<queue, sendq, recvq, send_count, recv_count, pc, sel, hvars>>,
         closed' = closed, disposed' \subseteq Chan, aborted' \in BOOLEAN
  PROVE  IInv'
<1>1. /\ queue' = queue /\ closed' = closed /\ sendq' = sendq /\ recvq' = recvq
      /\ send_count' = send_count /\ recv_count' = recv_count
      /\ pc' = pc /\ sel' = sel /\ fate' = fate /\ taken' = taken /\ returned' = returned
  BY DEF hvars
<1>2. TypeOK'
  BY <1>1 DEF IInv, TypeOK
<1>3. ServeNobody
  BY <1>1 DEF ServeNobody
<1>4. /\ QueuesOK' /\ ReadyOK' /\ SameAsks /\ Shrunk
      /\ \A q \in Lthread : \A v : /\ Passed(q, v)' <=> Passed(q, v)
                                   /\ Holds(q, v)' <=> Holds(q, v)
  BY <1>3, Nobody DEF IInv
<1>5. VainOK'
  BY <1>1, <1>4, VainShrunk, VainIs DEF IInv
<1>6. Buffered' = Buffered /\ Taken' = Taken
  BY <1>1 DEF Buffered, Taken
<1>7. ValOK' /\ FreshOK'
  BY <1>1, <1>6 DEF IInv, ValOK, FreshOK, Inj
<1>8. AskOK'
  <2>1. \A q \in Lthread, j \in 1..LTHR_SEL_CHANS : Asks(q, j)' <=> Asks(q, j)
    BY <1>4 DEF SameAsks
  <2> QED BY <1>1, <1>4, <1>6, <2>1 DEF IInv, AskOK
<1>9. SendHonest'
  BY <1>1, <1>4, <1>6 DEF IInv, SendHonest
<1>10. HandedToOne'
  BY <1>1, <1>4, <1>6 DEF IInv, HandedToOne
<1> QED BY <1>2, <1>4, <1>5, <1>7, <1>8, <1>9, <1>10 DEF IInv

(* chan_block_select_ preserves the invariant.                             *)
LEMMA BlockSelect ==
  ASSUME IInv, NEW p \in Lthread, NEW s, NEW wait, chan_block_select_(p, s, wait), GoodCall(s)
  PROVE  IInv'
<1> DEFINE canW == {i \in WIdx(s) : CanSend(s.chans[i])}
           canR == {i \in RIdx(s) : CanRecv(s.chans[i])}
<1>1. pc[p] = "idle" /\ s \in Sel
  BY DEF chan_block_select_, GoodCall
<1>2. WIdx(s) \in SUBSET Nat /\ RIdx(s) \in SUBSET Nat
  BY <1>1, SelFacts DEF LTHR_SEL_CHANS
<1>3. /\ canW # {} => Min(canW) \in canW
      /\ canR # {} => Min(canR) \in canR
  <2>1. canW \in SUBSET Nat /\ canR \in SUBSET Nat
    BY <1>2
  <2> HIDE DEF canW, canR
  <2> QED BY <2>1, MinNat
<1>4. \/ aborted' = TRUE /\ UNCHANGED <<cvars, pc, sel, hvars>>
      \/ canW # {} /\ chan_try_send(s, Min(canW))
      \/ canW = {} /\ canR # {} /\ chan_try_recv(s, Min(canR))
      \/ SendReturns(s, None) /\ UNCHANGED <<cvars, pvars, taken, returned>>
      \/ canW = {} /\ canR = {} /\ Block(p, s)
  BY Zenon DEF chan_block_select_
<1>5. CASE aborted' = TRUE /\ UNCHANGED <<cvars, pc, sel, hvars>>
  <2>1. /\ UNCHANGED <<queue, sendq, recvq, send_count, recv_count, pc, sel, hvars>>
        /\ closed' = closed /\ disposed' = disposed /\ aborted' \in BOOLEAN
    BY <1>5 DEF cvars
  <2>2. disposed' \subseteq Chan
    BY <2>1 DEF IInv, TypeOK
  <2> QED BY <2>1, <2>2, Frame
<1>6. CASE canW # {} /\ chan_try_send(s, Min(canW))
  <2>1. Min(canW) \in WIdx(s) /\ CanSend(s.chans[Min(canW)])
    BY <1>3, <1>6
  <2>2. PICK i : i = Min(canW)
    OBVIOUS
  <2> HIDE DEF canW
  <2>3. i \in WIdx(s) /\ CanSend(s.chans[i]) /\ chan_try_send(s, i)
    BY <1>6, <2>1, <2>2
  <2> QED BY <2>3, TrySend
<1>7. CASE canW = {} /\ canR # {} /\ chan_try_recv(s, Min(canR))
  <2>1. Min(canR) \in RIdx(s)
    BY <1>3, <1>7
  <2>2. PICK i : i = Min(canR)
    OBVIOUS
  <2> HIDE DEF canR
  <2>3. i \in RIdx(s) /\ chan_try_recv(s, i)
    BY <1>7, <2>1, <2>2
  <2> QED BY <2>3, TryRecv
<1>8. CASE SendReturns(s, None) /\ UNCHANGED <<cvars, pvars, taken, returned>>
  BY <1>8, GivesUp
<1>9. CASE canW = {} /\ canR = {} /\ Block(p, s)
  <2>1. /\ \A i \in WIdx(s) : ~CanSend(s.chans[i])
        /\ \A i \in RIdx(s) : ~CanRecv(s.chans[i])
    BY <1>9
  <2>2. Block(p, s)
    BY <1>9
  <2> QED BY <1>1, <2>1, <2>2, Blocks
<1> HIDE DEF canW, canR
<1> QED BY <1>4, <1>5, <1>6, <1>7, <1>8, <1>9

(* A selector between two calls has its type and no target.                *)
LEMMA UnusedSel ==
  /\ Unused(None) \in Sel /\ Unused(None).target = None
  BY DEF Unused, None, Sel, LTHR_SEL_CHANS

(* The return of a served call preserves the invariant.                    *)
LEMMA WakesUp ==
  ASSUME IInv, NEW p \in Lthread, WakeUp(p)
  PROVE  IInv'
<1>0. TypeOK /\ QueuesOK /\ ReadyOK /\ VainOK /\ AskOK /\ FreshOK /\ ValOK /\ SendHonest /\ HandedToOne
  BY DEF IInv
<1>1. sel \in [Lthread -> Sel] /\ pc \in [Lthread -> {"idle", "blocked", "ready"}]
  BY <1>0 DEF TypeOK
<1>2. /\ pc[p] = "ready" /\ sel'[p] = Unused(None) /\ pc'[p] = "idle"
      /\ \A q \in Lthread \ {p} : pc'[q] = pc[q] /\ sel'[q] = sel[q]
      /\ sel' \in [Lthread -> Sel] /\ pc' \in [Lthread -> {"idle", "blocked", "ready"}]
  BY <1>1, UnusedSel DEF WakeUp
<1>3. /\ queue' = queue /\ closed' = closed /\ sendq' = sendq /\ recvq' = recvq
      /\ send_count' = send_count /\ recv_count' = recv_count /\ disposed' = disposed
      /\ aborted' = aborted /\ taken' = taken
  BY DEF WakeUp, cvars
<1>4. SendReturns(sel[p], sel[p].target)
  BY DEF WakeUp
<1>5. \A v \in Val : fate'[v] = IF \E j \in WIdx(sel[p]) : sel[p].msgs[j] = v
                                THEN IF Passed(p, v) THEN "sent" ELSE "unsent"
                                ELSE fate[v]
  BY <1>2, <1>4 DEF SendReturns, Passed
<1>6. \A v \in Val : v \in returned' <=> v \in returned \/ Holds(p, v)
  <2>1. returned' = returned \cup
          ({IF sel[p].target \in RIdx(sel[p]) THEN sel[p].msgs[sel[p].target] ELSE NULL} \ {NULL})
    BY DEF WakeUp, RecvReturns
  <2>2. \A v \in Val : v # NULL
    BY ValueFacts
  <2> QED BY <1>2, <2>1, <2>2 DEF Holds
<1>7. returned' \subseteq Val
  <2>1. returned' = returned \cup
          ({IF sel[p].target \in RIdx(sel[p]) THEN sel[p].msgs[sel[p].target] ELSE NULL} \ {NULL})
    BY DEF WakeUp, RecvReturns
  <2>2. sel[p] \in Sel
    BY <1>1
  <2>3. sel[p].target \in RIdx(sel[p]) => sel[p].msgs[sel[p].target] \in Val \cup {NULL}
    BY <2>2, SelFacts
  <2>4. returned \subseteq Val
    BY <1>0 DEF TypeOK
  <2> QED BY <2>1, <2>3, <2>4
<1>8. AskOK' /\ FreshOK' /\ ValOK' /\ SendHonest' /\ HandedToOne'
  BY <1>0, <1>2, <1>3, <1>5, <1>6, <1>7, CallEnds
<1>9. ReadyOK'
  BY <1>0, <1>2, UnusedSel DEF ReadyOK
<1>10. QueuesOK'
  <2>1. ASSUME NEW c \in Chan, NEW w \in Wait
        PROVE  /\ WaitsOn(w, c, WIdx(sel[w[1]]))' <=> WaitsOn(w, c, WIdx(sel[w[1]]))
               /\ WaitsOn(w, c, RIdx(sel[w[1]]))' <=> WaitsOn(w, c, RIdx(sel[w[1]]))
    <3>1. w[1] \in Lthread
      BY DEF Wait
    <3>2. CASE w[1] = p
      BY <1>2, <3>2 DEF WaitsOn, Waiting
    <3>3. CASE w[1] # p
      <4>1. sel'[w[1]] = sel[w[1]] /\ pc'[w[1]] = pc[w[1]]
        BY <1>2, <3>1, <3>3
      <4> QED BY <4>1 DEF WaitsOn, Waiting, WIdx, RIdx
    <3> QED BY <3>2, <3>3
  <2> QED BY <1>0, <1>3, <2>1 DEF QueuesOK
<1>11. VainOK'
  BY <1>0, <1>3, VainShrunk, VainIs DEF Shrunk
<1>12. TypeOK'
  <2>1. fate' \in [Val -> {"unused", "waiting", "sent", "unsent"}]
    <3>1. fate \in [Val -> {"unused", "waiting", "sent", "unsent"}]
      BY <1>0 DEF TypeOK
    <3> QED BY <1>4, <3>1 DEF SendReturns
  <2> QED BY <1>0, <1>2, <1>3, <1>7, <2>1 DEF TypeOK
<1> QED BY <1>8, <1>9, <1>10, <1>11, <1>12 DEF IInv

(* The timeout of a blocked call preserves the invariant.                  *)
LEMMA Expires ==
  ASSUME IInv, NEW p \in Lthread, Expire(p)
  PROVE  IInv'
<1>0. TypeOK /\ QueuesOK /\ ReadyOK /\ VainOK /\ AskOK /\ FreshOK /\ ValOK /\ SendHonest /\ HandedToOne
  BY DEF IInv
<1>1. sel \in [Lthread -> Sel] /\ pc \in [Lthread -> {"idle", "blocked", "ready"}]
  BY <1>0 DEF TypeOK
<1>2. /\ pc[p] = "blocked" /\ sel'[p] = Unused(None) /\ pc'[p] = "idle"
      /\ \A q \in Lthread \ {p} : pc'[q] = pc[q] /\ sel'[q] = sel[q]
      /\ sel' \in [Lthread -> Sel] /\ pc' \in [Lthread -> {"idle", "blocked", "ready"}]
  BY <1>1, UnusedSel DEF Expire
<1>3. /\ queue' = queue /\ closed' = closed /\ disposed' = disposed
      /\ aborted' = aborted /\ taken' = taken /\ returned' = returned
  BY DEF Expire
<1>4. SendReturns(sel[p], None) /\ sel_remove_all_chans({p})
  BY DEF Expire
<1>5. \A v \in Val : fate'[v] = IF \E j \in WIdx(sel[p]) : sel[p].msgs[j] = v
                                THEN IF Passed(p, v) THEN "sent" ELSE "unsent"
                                ELSE fate[v]
  <2>1. \A v : ~Passed(p, v)
    BY <1>2 DEF Passed
  <2>2. None \notin WIdx(sel[p])
    BY DEF WIdx, None
  <2> QED BY <1>4, <2>1, <2>2 DEF SendReturns
<1>6. (\A v \in Val : v \in returned' <=> v \in returned \/ Holds(p, v)) /\ returned' \subseteq Val
  BY <1>0, <1>2, <1>3 DEF Holds, TypeOK
<1>7. AskOK' /\ FreshOK' /\ ValOK' /\ SendHonest' /\ HandedToOne'
  BY <1>0, <1>2, <1>3, <1>5, <1>6, CallEnds
<1>8. ReadyOK'
  BY <1>0, <1>2, UnusedSel DEF ReadyOK
<1>9. QueuesOK' /\ Shrunk
  <2>1. /\ {p} \in SUBSET Lthread /\ \A q \in {p} : Waiting(q) /\ ~Waiting(q)'
        /\ \A q \in Lthread \ {p} : sel'[q] = sel[q] /\ pc'[q] = pc[q]
    BY <1>2 DEF Waiting
  <2> QED BY <1>0, <1>4, <2>1, Unqueued DEF Shrunk
<1>10. VainOK'
  BY <1>0, <1>3, <1>9, VainShrunk, VainIs
<1>11. TypeOK'
  <2>1. fate' \in [Val -> {"unused", "waiting", "sent", "unsent"}]
    <3>1. fate \in [Val -> {"unused", "waiting", "sent", "unsent"}]
      BY <1>0 DEF TypeOK
    <3> QED BY <1>4, <3>1 DEF SendReturns
  <2> QED BY <1>0, <1>2, <1>3, <1>9, <2>1 DEF TypeOK, QueuesOK
<1> QED BY <1>7, <1>8, <1>9, <1>10, <1>11 DEF IInv

(* chan_close wakes the receivers of the channel, and these only.          *)
LEMMA WokenIs ==
  ASSUME TypeOK, QueuesOK, ReadyOK, NEW c \in Chan
  PROVE  /\ \A w : InQ(w, recvq[c]) => w[1] \in Woken(c)
         /\ Woken(c) \in SUBSET Lthread
         /\ \A q \in Woken(c) : /\ Waiting(q) /\ FirstWait(c, q) \in RIdx(sel[q])
                                /\ FirstWait(c, q) \in 1..Len(sel[q].chans)
                                /\ FirstWait(c, q) \notin WIdx(sel[q])
<1>1. recvq[c] \in Seq(Wait)
  BY DEF QueuesOK
<1>2. DOMAIN recvq[c] = 1..Len(recvq[c]) /\ Len(recvq[c]) \in Nat
  BY <1>1
<1>3. ASSUME NEW w, InQ(w, recvq[c])
      PROVE  w[1] \in Lthread /\ pc[w[1]] = "blocked" /\ w[2] \in RIdx(sel[w[1]])
  BY <1>3, QueuesHold DEF WaitsOn, Waiting
<1>4. ASSUME NEW w, InQ(w, recvq[c]) PROVE w[1] \in Woken(c)
  <2>1. PICK k \in 1..Len(recvq[c]) : recvq[c][k] = w
    BY <1>4 DEF InQ
  <2>2. w[1] \in Lthread /\ sel[w[1]].target = None
    BY <1>3, <1>4 DEF ReadyOK
  <2> QED BY <1>2, <2>1, <2>2 DEF Woken
<1>5. ASSUME NEW q \in Woken(c)
      PROVE  /\ Waiting(q) /\ FirstWait(c, q) \in RIdx(sel[q])
             /\ FirstWait(c, q) \in 1..Len(sel[q].chans)
             /\ FirstWait(c, q) \notin WIdx(sel[q])
  <2> DEFINE mine == {k \in DOMAIN recvq[c] : recvq[c][k][1] = q}
  <2>1. mine # {} /\ mine \in SUBSET Nat /\ q \in Lthread
    BY <1>2 DEF Woken
  <2>2. \A k \in mine : k \in 1..Len(recvq[c]) /\ recvq[c][k][1] = q
    BY <1>2
  <2>3. FirstWait(c, q) = recvq[c][Min(mine)][2]
    BY DEF FirstWait
  <2> HIDE DEF mine
  <2>4. Min(mine) \in mine
    BY <2>1, MinNat
  <2>5. PICK w : w = recvq[c][Min(mine)]
    OBVIOUS
  <2>6. InQ(w, recvq[c]) /\ w[1] = q
    BY <2>2, <2>4, <2>5 DEF InQ
  <2>7. pc[q] = "blocked" /\ w[2] \in RIdx(sel[q])
    BY <1>3, <2>6
  <2>8. FirstWait(c, q) = w[2]
    BY <2>3, <2>5
  <2>9. sel[q] \in Sel
    BY <2>1 DEF TypeOK
  <2>10. w[2] \in 1..Len(sel[q].chans) /\ w[2] \notin WIdx(sel[q])
    BY <2>7, <2>9, SelFacts
  <2> QED BY <2>7, <2>8, <2>10 DEF Waiting
<1>6. Woken(c) \in SUBSET Lthread
  BY DEF Woken
<1> QED BY <1>4, <1>5, <1>6

(* chan_close preserves the invariant.                                     *)
LEMMA Closes ==
  ASSUME IInv, NEW p \in Lthread, NEW c \in Chan, chan_close(p, c)
  PROVE  IInv'
<1>0. TypeOK /\ QueuesOK /\ ReadyOK /\ VainOK /\ AskOK /\ FreshOK /\ ValOK /\ SendHonest /\ HandedToOne
  BY DEF IInv
<1> DEFINE P == Woken(c)
<1>1. /\ \A w : InQ(w, recvq[c]) => w[1] \in P
      /\ P \in SUBSET Lthread
      /\ \A q \in P : /\ Waiting(q) /\ FirstWait(c, q) \in RIdx(sel[q])
                      /\ FirstWait(c, q) \in 1..Len(sel[q].chans)
                      /\ FirstWait(c, q) \notin WIdx(sel[q])
  BY <1>0, WokenIs
<1>2. /\ queue' = queue /\ disposed' = disposed /\ aborted' = aborted
      /\ fate' = fate /\ taken' = taken /\ returned' = returned
      /\ closed' = [closed EXCEPT ![c] = TRUE] /\ sel_remove_all_chans(P)
  BY DEF chan_close, hvars
<1>3. /\ \A q \in P : sel'[q] = Served(sel[q], FirstWait(c, q), NULL) /\ pc'[q] = "ready"
      /\ \A q \in Lthread \ P : sel'[q] = sel[q] /\ pc'[q] = pc[q]
      /\ sel' = [q \in Lthread |-> sel'[q]] /\ pc' = [q \in Lthread |-> pc'[q]]
  BY <1>1 DEF chan_close, Served
<1> HIDE DEF P
<1>4. ASSUME NEW q \in P
      PROVE  /\ sel'[q] \in Sel /\ sel'[q].target # None /\ sel'[q].target \in 1..Len(sel'[q].chans)
             /\ ~Waiting(q)'
             /\ \A j : /\ Asks(q, j)' <=> Asks(q, j)
                       /\ Asks(q, j) => sel'[q].msgs[j] = sel[q].msgs[j]
             /\ \A v \in Val : /\ Passed(q, v)' <=> Passed(q, v)
                               /\ Holds(q, v)' <=> Holds(q, v)
  <2>1. PICK i : i = FirstWait(c, q)
    OBVIOUS
  <2>2. q \in Lthread /\ Waiting(q) /\ i \in 1..Len(sel[q].chans) /\ i \notin WIdx(sel[q])
    BY <1>1, <2>1
  <2>3. sel'[q] = Served(sel[q], i, NULL) /\ pc'[q] = "ready"
    BY <1>3, <2>1
  <2>4. NULL \in Val \cup {NULL}
    OBVIOUS
  <2>5. /\ sel'[q] \in Sel /\ sel'[q].target # None /\ sel'[q].target \in 1..Len(sel'[q].chans)
        /\ ~Waiting(q)'
        /\ \A j : /\ Asks(q, j)' <=> Asks(q, j)
                  /\ Asks(q, j) => sel'[q].msgs[j] = sel[q].msgs[j]
        /\ \A v : /\ ~Passed(q, v) /\ ~Holds(q, v)
                  /\ Passed(q, v)' <=> i \in WIdx(sel[q]) /\ v = NULL
                  /\ Holds(q, v)' <=> i \in RIdx(sel[q]) /\ v = NULL
    BY <1>0, <2>2, <2>3, <2>4, SelServedFacts
  <2>6. \A v \in Val : v # NULL
    BY ValueFacts
  <2> QED BY <2>5, <2>6
<1>5. ASSUME NEW q \in Lthread \ P
      PROVE  /\ \A j : /\ Asks(q, j)' <=> Asks(q, j)
                       /\ Asks(q, j) => sel'[q].msgs[j] = sel[q].msgs[j]
             /\ \A v : (Passed(q, v)' <=> Passed(q, v)) /\ (Holds(q, v)' <=> Holds(q, v))
  BY <1>3 DEF Asks, Passed, Holds, WIdx, RIdx
<1>6. sel' \in [Lthread -> Sel] /\ pc' \in [Lthread -> {"idle", "blocked", "ready"}]
  <2>1. sel \in [Lthread -> Sel]
    BY <1>0 DEF TypeOK
  <2>2. pc \in [Lthread -> {"idle", "blocked", "ready"}]
    BY <1>0 DEF TypeOK
  <2>3. \A q \in Lthread : sel'[q] \in Sel /\ pc'[q] \in {"idle", "blocked", "ready"}
    BY <1>3, <1>4, <2>1, <2>2
  <2> QED BY <1>3, <2>3
<1>7. ReadyOK'
  <2>1. ASSUME NEW q \in Lthread
        PROVE  /\ pc'[q] = "ready" <=> sel'[q].target # None
               /\ pc'[q] = "ready" => sel'[q].target \in 1..Len(sel'[q].chans)
    <3>1. CASE q \in P
      BY <1>3, <1>4, <3>1
    <3>2. CASE q \notin P
      BY <1>0, <1>3, <3>2 DEF ReadyOK
    <3> QED BY <3>1, <3>2
  <2> QED BY <2>1 DEF ReadyOK
<1>8. SameAsks
  BY <1>4, <1>5 DEF SameAsks
<1>9. /\ QueuesOK'
      /\ \A d \in Chan : \A w : /\ InQ(w, sendq'[d]) <=> InQ(w, sendq[d]) /\ w[1] \notin P
                                /\ InQ(w, recvq'[d]) <=> InQ(w, recvq[d]) /\ w[1] \notin P
  <2>1. /\ P \in SUBSET Lthread /\ \A q \in P : Waiting(q) /\ ~Waiting(q)'
        /\ \A q \in Lthread \ P : sel'[q] = sel[q] /\ pc'[q] = pc[q]
    BY <1>1, <1>3, <1>4
  <2>2. P \in SUBSET Lthread
    BY <2>1
  <2> QED BY <1>0, <1>2, <2>1, <2>2, Unqueued
<1>10. Shrunk
  BY <1>9 DEF Shrunk
<1>11. VainOK'
  <2>1. ASSUME NEW d \in Chan \ {c} PROVE VainAt(d)'
    <3>1. queue'[d] = queue[d] /\ closed'[d] = closed[d]
      BY <1>0, <1>2 DEF TypeOK
    <3> QED BY <1>0, <1>10, <3>1, VainShrunk
  <2>2. VainAt(c)'
    <3>1. \A x : ~InQ(x, recvq'[c])
      BY <1>1, <1>9
    <3>2. VainAt(c) /\ (Room(c)' <=> Room(c))
      BY <1>0, <1>2, VainIs DEF Room
    <3>3. \A x : InQ(x, sendq'[c]) => ~Room(c)'
      BY <1>9, <3>2 DEF VainAt
    <3> QED BY <3>1, <3>3 DEF VainAt
  <2> QED BY <2>1, <2>2, VainIs
<1>12. Buffered' = Buffered /\ Taken' = Taken
  BY <1>2 DEF Buffered, Taken
<1>13. ValOK' /\ FreshOK'
  BY <1>0, <1>2, <1>12 DEF ValOK, FreshOK, Inj
<1>14. AskOK' /\ SendHonest' /\ HandedToOne'
  <2>1. \A v \in Val : v # NULL
    BY ValueFacts
  <2>2. Settled({}, NULL)
    BY <1>2 DEF Settled
  <2>3. Moved(p, NULL, NULL, NULL)
    <3>1. \A v \in Val :
            /\ v \in (Buffered \cup Taken)' <=> v \in Buffered \cup Taken \/ v = NULL \/ v = NULL
            /\ v \in (Taken \ returned)' <=> v \in Taken \ returned \/ v = NULL
      BY <1>2, <1>12, <2>1
    <3>2. /\ \A q \in Lthread, v \in Val : Passed(q, v)' <=> Passed(q, v) \/ (q = p /\ v = NULL)
          /\ \A q \in Lthread, v \in Val : Holds(q, v)' <=> Holds(q, v) \/ (q = p /\ v = NULL)
      BY <1>4, <1>5, <2>1
    <3> QED BY <3>1, <3>2, Zenon DEF Moved
  <2> QED BY <1>0, <1>8, <2>2, <2>3, CallReturns
<1>15. TypeOK'
  <2>1. closed' \in [Chan -> BOOLEAN]
    BY <1>0, <1>2 DEF TypeOK
  <2> QED BY <1>0, <1>2, <1>6, <1>9, <2>1 DEF TypeOK, QueuesOK
<1> QED BY <1>7, <1>9, <1>11, <1>13, <1>14, <1>15 DEF IInv

-----------------------------------------------------------------------------
(* The theorems                                                            *)

(* The invariant holds initially.                                          *)
LEMMA InitIInv == Init => IInv
<1> SUFFICES ASSUME Init PROVE IInv
  OBVIOUS
<1>0. MaxVal \in Nat /\ Capacity \in [Chan -> Nat]
  BY ChanAssumption
<1>1. TypeOK
  <2>1. <<>> \in Seq(Val) /\ <<>> \in Seq(Wait)
    OBVIOUS
  <2>2. /\ queue \in [Chan -> Seq(Val)] /\ taken \in [Chan -> Seq(Val)]
        /\ sendq \in [Chan -> Seq(Wait)] /\ recvq \in [Chan -> Seq(Wait)]
    BY <2>1 DEF Init
  <2>3. \A c \in Chan : Len(queue[c]) <= Capacity[c]
    BY <1>0 DEF Init
  <2>4. sel \in [Lthread -> Sel]
    BY UnusedSel DEF Init
  <2>5. /\ closed \in [Chan -> BOOLEAN]
        /\ send_count \in [Chan -> Nat] /\ recv_count \in [Chan -> Nat]
        /\ pc \in [Lthread -> {"idle", "blocked", "ready"}]
        /\ disposed \subseteq Chan /\ aborted \in BOOLEAN /\ returned \subseteq Val
        /\ fate \in [Val -> {"unused", "waiting", "sent", "unsent"}]
    BY DEF Init
  <2> QED BY <2>2, <2>3, <2>4, <2>5 DEF TypeOK
<1>2. \A c \in Chan : \A w : ~InQ(w, sendq[c]) /\ ~InQ(w, recvq[c])
  BY DEF Init, InQ
<1>3. \A p \in Lthread : /\ pc[p] = "idle" /\ sel[p].target = None
                         /\ \A j : ~Asks(p, j)
                         /\ \A v : ~Passed(p, v) /\ ~Holds(p, v)
  BY UnusedSel DEF Init, Asks, Passed, Holds
<1>4. QueuesOK
  <2>1. \A c \in Chan, w \in Wait : ~WaitsOn(w, c, WIdx(sel[w[1]])) /\ ~WaitsOn(w, c, RIdx(sel[w[1]]))
    BY <1>3 DEF WaitsOn, Waiting, Wait
  <2>2. \A c \in Chan : sendq[c] = <<>> /\ recvq[c] = <<>> /\ send_count[c] = 0 /\ recv_count[c] = 0
    BY DEF Init
  <2>3. \A c \in Chan : Distinct(sendq[c]) /\ Distinct(recvq[c])
    BY <2>2 DEF Distinct
  <2> QED BY <1>1, <1>2, <2>1, <2>2, <2>3 DEF QueuesOK, TypeOK
<1>5. ReadyOK /\ VainOK
  BY <1>2, <1>3 DEF ReadyOK, VainOK
<1>6. Buffered = {} /\ Taken = {} /\ Inj(queue) /\ returned = {}
  BY DEF Init, Buffered, Taken, Inj, Range
<1>7. \A v \in Val : fate[v] = "unused"
  BY DEF Init
<1>8. FreshOK
  <2>1. 0 \in 0..MaxVal /\ \A v \in Val : ~(v <= 0)
    BY <1>0 DEF Val
  <2> QED BY <1>7, <2>1 DEF FreshOK
<1>9. AskOK /\ ValOK /\ SendHonest /\ HandedToOne
  BY <1>3, <1>6, <1>7 DEF AskOK, ValOK, SendHonest, HandedToOne
<1> QED BY <1>1, <1>4, <1>5, <1>8, <1>9 DEF IInv

(* Every step preserves the invariant.                                     *)
LEMMA NextIInv ==
  ASSUME IInv, [Next]_vars
  PROVE  IInv'
<1>0. FreshOK /\ ReadyOK
  BY DEF IInv
<1>1. CASE UNCHANGED vars
  <2>1. /\ UNCHANGED <<queue, sendq, recvq, send_count, recv_count, pc, sel, hvars>>
        /\ closed' = closed /\ disposed' = disposed /\ aborted' = aborted
    BY <1>1 DEF vars, cvars, pvars
  <2>2. disposed' \subseteq Chan /\ aborted' \in BOOLEAN
    BY <2>1 DEF IInv, TypeOK
  <2> QED BY <2>1, <2>2, Frame
<1>2. CASE Next
  <2>1. PICK p \in Lthread : Step(p)
    BY <1>2 DEF Next
  <2>2. ASSUME NEW w \in Seq(Chan), NEW r \in Seq(Chan), Len(w) + Len(r) <= LTHR_SEL_CHANS, NEW wait,
               chan_block_select_(p, Selector(w, r, None), wait)
        PROVE  IInv'
    <3>1. PICK s : s = Selector(w, r, None)
      OBVIOUS
    <3>2. chan_block_select_(p, s, wait)
      BY <2>2, <3>1
    <3>3. \A i \in WIdx(s) : s.msgs[i] \in Val
      BY <3>2 DEF chan_block_select_
    <3>4. GoodCall(s)
      BY <1>0, <2>2, <3>1, <3>3, SelectorGood
    <3> QED BY <3>2, <3>4, BlockSelect
  <2>3. ASSUME NEW c \in Chan, chan_send(p, c) \/ chan_send_noblock(p, c) PROVE IInv'
    <3>1. <<c>> \in Seq(Chan) /\ <<>> \in Seq(Chan) /\ Len(<<c>>) + Len(<<>>) <= LTHR_SEL_CHANS
      BY DEF LTHR_SEL_CHANS
    <3>2. \E wait \in BOOLEAN : chan_block_select_(p, Selector(<<c>>, <<>>, None), wait)
      BY <2>3 DEF chan_send, chan_send_noblock
    <3> QED BY <2>2, <3>1, <3>2
  <2>4. ASSUME NEW c \in Chan, chan_recv(p, c) PROVE IInv'
    <3>1. <<c>> \in Seq(Chan) /\ <<>> \in Seq(Chan) /\ Len(<<>>) + Len(<<c>>) <= LTHR_SEL_CHANS
      BY DEF LTHR_SEL_CHANS
    <3>2. chan_block_select_(p, Selector(<<>>, <<c>>, None), TRUE)
      BY <2>4 DEF chan_recv
    <3> QED BY <2>2, <3>1, <3>2
  <2>5. ASSUME NEW a \in SelectArgs, NEW wait \in BOOLEAN, chan_select(p, a, wait) PROVE IInv'
    <3>1. a[1] \in Seq(Chan) /\ a[2] \in Seq(Chan) /\ Len(a[1]) + Len(a[2]) <= LTHR_SEL_CHANS
      BY ChanAssumption
    <3>2. chan_block_select_(p, Selector(a[1], a[2], sel[p].target), wait)
      BY <2>5 DEF chan_select
    <3>3. pc[p] = "idle"
      BY <3>2 DEF chan_block_select_
    <3>4. sel[p].target = None
      BY <1>0, <3>3 DEF ReadyOK
    <3> QED BY <2>2, <3>1, <3>2, <3>4
  <2>6. ASSUME NEW c \in Chan, chan_close(p, c) PROVE IInv'
    BY <2>6, Closes
  <2>7. ASSUME NEW c \in Chan, chan_dispose(p, c) PROVE IInv'
    <3>1. /\ UNCHANGED <<queue, sendq, recvq, send_count, recv_count, pc, sel, hvars>>
          /\ closed' = closed /\ disposed' = disposed \cup {c} /\ aborted' = aborted
      BY <2>7 DEF chan_dispose, pvars
    <3>2. disposed' \subseteq Chan /\ aborted' \in BOOLEAN
      BY <3>1 DEF IInv, TypeOK
    <3> QED BY <3>1, <3>2, Frame
  <2>8. CASE WakeUp(p)
    BY <2>8, WakesUp
  <2>9. CASE Expire(p)
    BY <2>9, Expires
  <2> QED BY <2>1, <2>3, <2>4, <2>5, <2>6, <2>7, <2>8, <2>9 DEF Step
<1> QED BY <1>1, <1>2

(* Everything the proofs use holds in every reachable state of chan.c.     *)
THEOREM Invariance == Spec => []IInv
<1>1. Init => IInv
  BY InitIInv
<1>2. IInv /\ [Next]_vars => IInv'
  BY NextIInv
<1> QED BY <1>1, <1>2, PTL DEF Spec

(* Each variable keeps its type: no buffer grows beyond its capacity and   *)
(* no counter of waits drops below zero, however calls, timeouts and       *)
(* chan_close interleave.                                                  *)
THEOREM TypeCorrect == Spec => []TypeOK
<1>1. IInv => TypeOK
  BY DEF IInv
<1> QED BY <1>1, Invariance, PTL

(* A selector, which lies on its caller's stack, is queued on each of its  *)
(* channels while the call is blocked and on none from the moment it is    *)
(* served, timed out or woken; send_count and recv_count agree; no stale   *)
(* target is left for the next chan_select.                                *)
THEOREM QueuedWhileBlockedHolds == Spec => []QueuedWhileBlocked
<1>1. IInv => QueuedWhileBlocked
  BY DEF IInv, QueuesOK, ReadyOK, QueuedWhileBlocked
<1> QED BY <1>1, Invariance, PTL

(* chan_block_select_ blocks nobody whom a buffered value, a free place or *)
(* another waiting lthread could serve.                                    *)
THEOREM NobodyWaitsInVainHolds == Spec => []NobodyWaitsInVain
<1>1. IInv => NobodyWaitsInVain
  <2> SUFFICES ASSUME IInv, NEW c \in Chan
               PROVE  /\ sendq[c] # <<>> => ~Room(c)
                      /\ recvq[c] # <<>> => queue[c] = <<>> /\ ~closed[c]
                      /\ \A v \in Range(sendq[c]), w \in Range(recvq[c]) : v[1] = w[1]
    BY DEF NobodyWaitsInVain
  <2>1. sendq[c] \in Seq(Wait)
    BY DEF IInv, TypeOK
  <2>2. recvq[c] \in Seq(Wait)
    BY DEF IInv, TypeOK
  <2>3. /\ \A w : w \in Range(sendq[c]) <=> InQ(w, sendq[c])
        /\ sendq[c] # <<>> <=> \E w : InQ(w, sendq[c])
    BY <2>1, SeqMembers
  <2>4. /\ \A w : w \in Range(recvq[c]) <=> InQ(w, recvq[c])
        /\ recvq[c] # <<>> <=> \E w : InQ(w, recvq[c])
    BY <2>2, SeqMembers
  <2>5. VainAt(c)
    BY VainIs DEF IInv
  <2> QED BY <2>3, <2>4, <2>5 DEF VainAt
<1> QED BY <1>1, Invariance, PTL

(* No value is lost, delivered twice or misreported between the sender's   *)
(* call and the receiver's, whoever runs first.                            *)
THEOREM EachValueOnceHolds == Spec => []EachValueOnce
<1>1. IInv => EachValueOnce
  BY DEF IInv, EachValueOnce
<1> QED BY <1>1, Invariance, PTL

-----------------------------------------------------------------------------
(* The refinement: what withdrawing values leaves on offer                 *)

(* Keeping every position keeps the sequence, keeping none leaves nothing. *)
LEMMA KeptAll ==
  ASSUME NEW S, NEW q \in Seq(S)
  PROVE  Kept(q, DOMAIN q) = q /\ Kept(q, {}) = <<>>
<1> DEFINE n == Len(q)
           f == [j \in 1..n |-> j]
<1>1. n \in Nat /\ DOMAIN q = 1..n
  OBVIOUS
<1>2. /\ 1..n \in SUBSET Nat /\ f \in [1..n -> 1..n]
      /\ \A i, j \in 1..n : i < j => f[i] < f[j]
      /\ \A k \in 1..n : \E j \in 1..n : f[j] = k
  BY <1>1
<1>3. Cardinality(1..n) = n /\ InOrder(1..n) = f
  <2> HIDE DEF f, n
  <2> QED BY <1>1, <1>2, InOrderUnique
<1>4. Kept(q, DOMAIN q) = [j \in 1..n |-> q[f[j]]]
  BY <1>1, <1>3 DEF Kept
<1>5. [j \in 1..n |-> q[f[j]]] = q
  BY <1>1
<1>6. Cardinality({}) = 0
  BY FS_EmptySet
<1>7. Kept(q, {}) = <<>>
  BY <1>6 DEF Kept
<1> QED BY <1>4, <1>5, <1>7

(* Keeping all of q and the positions K of what follows it.                *)
Behind(q, r, K, J) ==
  \A j : j \in J <=> j \in DOMAIN (q \o r) /\ (j <= Len(q) \/ j - Len(q) \in K)

(* What is kept of q followed by r is q followed by what is kept of r.     *)
LEMMA KeptConcat ==
  ASSUME NEW S, NEW q \in Seq(S), NEW r \in Seq(S), NEW K \in SUBSET DOMAIN r, NEW J,
         Behind(q, r, K, J)
  PROVE  Kept(q \o r, J) = q \o Kept(r, K)
<1> DEFINE n == Len(q)
           m == Cardinality(K)
           o == InOrder(K)
           g == [j \in 1..(n + m) |-> IF j <= n THEN j ELSE n + o[j - n]]
<1>1. n \in Nat /\ DOMAIN q = 1..n /\ Len(r) \in Nat /\ DOMAIN r = 1..Len(r)
  OBVIOUS
<1>2. DOMAIN (q \o r) = 1..(n + Len(r)) /\ q \o r \in Seq(S)
  OBVIOUS
<1>3. IsFiniteSet(K) /\ Kept(r, K) \in Seq(S) /\ Len(Kept(r, K)) = m
  BY KeptIs
<1>4. K \in SUBSET Nat
  BY <1>1
<1>5. /\ m \in Nat /\ o \in [1..m -> K] /\ \A k \in K : \E j \in 1..m : o[j] = k
      /\ \A i, j \in 1..m : i < j => o[i] < o[j]
  BY <1>3, <1>4, InOrderIs
<1>6. Kept(r, K) = [j \in 1..m |-> r[o[j]]]
  BY DEF Kept
<1> HIDE DEF n, m, o
<1>7. \A j \in 1..m : o[j] \in 1..Len(r) /\ o[j] \in K
  BY <1>1, <1>5
<1>8. \A j : j \in J <=> j \in 1..(n + Len(r)) /\ (j <= n \/ j - n \in K)
  BY <1>2 DEF n, Behind
<1>9. g \in [1..(n + m) -> J]
  <2> SUFFICES ASSUME NEW j \in 1..(n + m) PROVE (IF j <= n THEN j ELSE n + o[j - n]) \in J
    OBVIOUS
  <2>1. CASE j <= n
    <3>1. j \in 1..(n + Len(r))
      BY <1>1, <1>5, <2>1
    <3> QED BY <1>8, <2>1, <3>1
  <2>2. CASE j > n
    <3>1. j - n \in 1..m
      BY <1>1, <1>5, <2>2
    <3>2. o[j - n] \in 1..Len(r) /\ o[j - n] \in K
      BY <1>7, <3>1
    <3>3. n + o[j - n] \in 1..(n + Len(r)) /\ (n + o[j - n]) - n = o[j - n]
      BY <1>1, <3>2
    <3> QED BY <1>1, <1>8, <2>2, <3>2, <3>3
  <2> QED BY <1>1, <1>5, <2>1, <2>2
<1>10. ASSUME NEW i \in 1..(n + m), NEW j \in 1..(n + m), i < j PROVE g[i] < g[j]
  <2>0. i \in Nat /\ j \in Nat
    BY <1>1, <1>5
  <2>1. CASE j <= n
    BY <1>1, <1>10, <2>0, <2>1
  <2>2. CASE i <= n /\ j > n
    <3>1. o[j - n] \in 1..Len(r)
      BY <1>1, <1>5, <1>7, <2>2
    <3> QED BY <1>1, <2>0, <2>2, <3>1
  <2>3. CASE i > n
    <3>1. i - n \in 1..m /\ j - n \in 1..m /\ i - n < j - n
      BY <1>1, <1>5, <1>10, <2>0, <2>3
    <3>2. o[i - n] < o[j - n] /\ o[i - n] \in 1..Len(r) /\ o[j - n] \in 1..Len(r)
      BY <1>5, <1>7, <3>1
    <3>3. g[i] = n + o[i - n] /\ g[j] = n + o[j - n]
      BY <1>1, <1>10, <2>0, <2>3
    <3> HIDE DEF g
    <3> QED BY <1>1, <3>2, <3>3
  <2> QED BY <1>1, <1>10, <2>0, <2>1, <2>2, <2>3
<1>11. ASSUME NEW k \in J PROVE \E j \in 1..(n + m) : g[j] = k
  <2>1. k \in 1..(n + Len(r)) /\ (k <= n \/ k - n \in K)
    BY <1>8
  <2>2. CASE k <= n
    <3>1. k \in 1..(n + m) /\ g[k] = k
      BY <1>1, <1>5, <2>1, <2>2
    <3> QED BY <3>1
  <2>3. CASE k > n
    <3>1. k - n \in K
      BY <1>1, <2>1, <2>3
    <3>2. PICK j \in 1..m : o[j] = k - n
      BY <1>5, <3>1
    <3>3. n + j \in 1..(n + m) /\ n + j > n /\ (n + j) - n = j
      BY <1>1, <1>5
    <3>4. g[n + j] = n + o[j]
      BY <1>1, <1>5, <3>3
    <3>5. n + (k - n) = k
      BY <1>1, <2>1
    <3> QED BY <3>2, <3>3, <3>4, <3>5
  <2> QED BY <1>1, <2>1, <2>2, <2>3
<1>12. J \in SUBSET Nat /\ n + m \in Nat
  BY <1>1, <1>5, <1>8
<1>13. Cardinality(J) = n + m /\ InOrder(J) = g
  <2> HIDE DEF g
  <2> QED BY <1>9, <1>10, <1>11, <1>12, InOrderUnique
<1>14. Kept(q \o r, J) = [j \in 1..(n + m) |-> (q \o r)[g[j]]]
  BY <1>13 DEF Kept
<1>15. ASSUME NEW j \in 1..(n + m) PROVE (q \o r)[g[j]] = (q \o Kept(r, K))[j]
  <2>1. CASE j <= n
    <3>1. g[j] = j /\ j \in 1..n
      BY <1>1, <1>5, <2>1
    <3> QED BY <1>1, <1>3, <3>1 DEF n
  <2>2. CASE j > n
    <3>1. PICK k \in 1..m : k = j - n
      BY <1>1, <1>5, <2>2
    <3>2. g[j] = n + o[k] /\ o[k] \in 1..Len(r) /\ j = n + k
      BY <1>1, <1>5, <1>7, <2>2, <3>1
    <3> HIDE DEF g
    <3>3. (q \o r)[n + o[k]] = r[o[k]]
      BY <1>1, <3>2 DEF n
    <3>4. (q \o Kept(r, K))[n + k] = Kept(r, K)[k]
      <4>1. k \in 1..Len(Kept(r, K)) /\ Kept(r, K) \in Seq(S)
        BY <1>3 DEF m
      <4> QED BY <1>1, <4>1 DEF n
    <3>5. Kept(r, K)[k] = r[o[k]]
      BY <1>6
    <3>6. (q \o r)[g[j]] = r[o[k]]
      BY <3>2, <3>3
    <3>7. (q \o Kept(r, K))[j] = Kept(r, K)[k]
      BY <3>2, <3>4
    <3> QED BY <3>5, <3>6, <3>7
  <2>3. j <= n \/ j > n
    BY <1>1, <1>5
  <2> HIDE DEF g
  <2> QED BY <2>1, <2>2, <2>3
<1>16. q \o Kept(r, K) \in Seq(S) /\ Len(q \o Kept(r, K)) = n + m
  BY <1>1, <1>3 DEF n, m
<1> HIDE DEF g
<1>17. PICK x : x = q \o Kept(r, K)
  OBVIOUS
<1>18. x = [j \in 1..(n + m) |-> x[j]]
  <2>1. x \in Seq(S) /\ Len(x) = n + m
    BY <1>16, <1>17
  <2> QED BY <1>12, <2>1
<1>19. \A j \in 1..(n + m) : x[j] = (q \o r)[g[j]]
  BY <1>15, <1>17
<1> QED BY <1>14, <1>17, <1>18, <1>19

(* Keeping the first position too.                                         *)
LEMMA KeptHead ==
  ASSUME NEW S, NEW r \in Seq(S), r # <<>>, NEW K \in SUBSET DOMAIN r, 1 \notin K, NEW J,
         \A j : j \in J <=> j = 1 \/ j \in K
  PROVE  Kept(r, J) = <<r[1]>> \o Kept(r, K)
<1> DEFINE m == Cardinality(K)
           o == InOrder(K)
           g == [j \in 1..(m + 1) |-> IF j = 1 THEN 1 ELSE o[j - 1]]
<1>1. Len(r) \in Nat /\ DOMAIN r = 1..Len(r) /\ r[1] \in S
  OBVIOUS
<1>2. IsFiniteSet(K) /\ Kept(r, K) \in Seq(S) /\ Len(Kept(r, K)) = m
  BY KeptIs
<1>3. K \in SUBSET Nat
  BY <1>1
<1>4. /\ m \in Nat /\ o \in [1..m -> K] /\ \A k \in K : \E j \in 1..m : o[j] = k
      /\ \A i, j \in 1..m : i < j => o[i] < o[j]
  BY <1>2, <1>3, InOrderIs
<1>5. Kept(r, K) = [j \in 1..m |-> r[o[j]]]
  BY DEF Kept
<1> HIDE DEF m, o
<1>6. \A j \in 1..m : o[j] \in Nat /\ o[j] > 1 /\ o[j] \in K
  <2>1. \A k \in K : k \in Nat /\ k > 1
    BY <1>1
  <2> QED BY <1>4, <2>1
<1>7. ASSUME NEW j \in 1..(m + 1), j # 1 PROVE j - 1 \in 1..m /\ g[j] = o[j - 1]
  BY <1>4, <1>7
<1>8. g[1] = 1 /\ 1 \in 1..(m + 1)
  BY <1>4
<1>9. g \in [1..(m + 1) -> J]
  BY <1>4, <1>6
<1> HIDE DEF g
<1>10. ASSUME NEW i \in 1..(m + 1), NEW j \in 1..(m + 1), i < j PROVE g[i] < g[j]
  <2>1. i \in Nat /\ j \in Nat /\ j # 1
    BY <1>4, <1>10
  <2>2. CASE i = 1
    BY <1>6, <1>7, <1>8, <2>1, <2>2
  <2>3. CASE i # 1
    <3>1. i - 1 \in 1..m /\ j - 1 \in 1..m /\ i - 1 < j - 1
      BY <1>7, <1>10, <2>1, <2>3
    <3> QED BY <1>4, <1>7, <2>1, <2>3, <3>1
  <2> QED BY <2>2, <2>3
<1>11. ASSUME NEW k \in J PROVE \E j \in 1..(m + 1) : g[j] = k
  <2>1. CASE k = 1
    BY <1>8, <2>1
  <2>2. CASE k \in K
    <3>1. PICK j \in 1..m : o[j] = k
      BY <1>4, <2>2
    <3>2. j + 1 \in 1..(m + 1) /\ j + 1 # 1 /\ (j + 1) - 1 = j
      BY <1>4
    <3> QED BY <1>7, <3>1, <3>2
  <2> QED BY <2>1, <2>2
<1>12. J \in SUBSET Nat /\ m + 1 \in Nat
  BY <1>3, <1>4
<1>13. Cardinality(J) = m + 1 /\ InOrder(J) = g
  BY <1>9, <1>10, <1>11, <1>12, InOrderUnique
<1>14. Kept(r, J) = [j \in 1..(m + 1) |-> r[g[j]]]
  BY <1>13 DEF Kept
<1>15. ASSUME NEW j \in 1..(m + 1) PROVE r[g[j]] = (<<r[1]>> \o Kept(r, K))[j]
  <2>1. CASE j = 1
    BY <1>1, <1>2, <1>8, <2>1
  <2>2. CASE j # 1
    <3>1. PICK k \in 1..m : k = j - 1
      BY <1>7, <2>2
    <3>2. j = 1 + k /\ g[j] = o[k]
      BY <1>4, <1>7, <2>2, <3>1
    <3>3. (<<r[1]>> \o Kept(r, K))[1 + k] = Kept(r, K)[k]
      <4>1. k \in 1..Len(Kept(r, K)) /\ Kept(r, K) \in Seq(S) /\ Len(<<r[1]>>) = 1 /\ <<r[1]>> \in Seq(S)
        BY <1>1, <1>2 DEF m
      <4> QED BY <4>1
    <3> QED BY <1>5, <3>2, <3>3
  <2> QED BY <2>1, <2>2
<1>16. <<r[1]>> \o Kept(r, K) \in Seq(S) /\ Len(<<r[1]>> \o Kept(r, K)) = m + 1
  <2>1. <<r[1]>> \in Seq(S) /\ Len(<<r[1]>>) = 1
    BY <1>1
  <2> QED BY <1>2, <1>4, <2>1 DEF m
<1> QED BY <1>12, <1>14, <1>15, <1>16

(* The values of the blocked senders of channel c, in the order in which   *)
(* their waits are queued.                                                 *)
Asked(c) == [k \in DOMAIN sendq[c] |-> sel[sendq[c][k][1]].msgs[sendq[c][k][2]]]

(* Every queued wait is of a blocked call and offers a value that is in no *)
(* buffer.                                                                 *)
LEMMA AskedIs ==
  ASSUME IInv, NEW c \in Chan
  PROVE  /\ sendq[c] \in Seq(Wait) /\ DOMAIN sendq[c] = 1..Len(sendq[c]) /\ Len(sendq[c]) \in Nat
         /\ Asked(c) \in Seq(Val) /\ Len(Asked(c)) = Len(sendq[c])
         /\ queue[c] \in Seq(Val) /\ \A i \in 1..Len(queue[c]) : queue[c][i] \in Buffered
         /\ Offered[c] = queue[c] \o Asked(c)
         /\ \A k \in DOMAIN sendq[c] :
              /\ sendq[c][k] \in Wait /\ sendq[c][k][1] \in Lthread
              /\ sendq[c][k][2] \in 1..LTHR_SEL_CHANS
              /\ Waiting(sendq[c][k][1]) /\ Asks(sendq[c][k][1], sendq[c][k][2])
              /\ Asked(c)[k] = sel[sendq[c][k][1]].msgs[sendq[c][k][2]]
              /\ Asked(c)[k] \in Val /\ Asked(c)[k] \notin Buffered
<1>0. TypeOK /\ QueuesOK /\ ReadyOK /\ AskOK /\ SendHonest
  BY DEF IInv
<1>1. sendq[c] \in Seq(Wait)
  BY <1>0 DEF TypeOK
<1>2. DOMAIN sendq[c] = 1..Len(sendq[c]) /\ Len(sendq[c]) \in Nat
  BY <1>1
<1>3. ASSUME NEW k \in DOMAIN sendq[c]
      PROVE  /\ sendq[c][k] \in Wait /\ sendq[c][k][1] \in Lthread
             /\ sendq[c][k][2] \in 1..LTHR_SEL_CHANS
             /\ Waiting(sendq[c][k][1]) /\ Asks(sendq[c][k][1], sendq[c][k][2])
             /\ Asked(c)[k] = sel[sendq[c][k][1]].msgs[sendq[c][k][2]]
             /\ Asked(c)[k] \in Val /\ Asked(c)[k] \notin Buffered
  <2>1. PICK w : w = sendq[c][k]
    OBVIOUS
  <2>2. InQ(w, sendq[c])
    BY <1>2, <2>1 DEF InQ
  <2>3. /\ w \in Wait /\ w[1] \in Lthread /\ w[2] \in 1..LTHR_SEL_CHANS
        /\ WaitsOn(w, c, WIdx(sel[w[1]]))
    BY <1>0, <2>2, QueuesHold
  <2>4. Waiting(w[1]) /\ w[2] \in WIdx(sel[w[1]])
    BY <2>3 DEF WaitsOn
  <2>5. Asks(w[1], w[2])
    BY <2>4 DEF Asks, Waiting
  <2>6. sel[w[1]].msgs[w[2]] \in Val /\ sel[w[1]].msgs[w[2]] \notin Buffered \cup Taken
    BY <1>0, <2>3, <2>4, BlockedNotOut
  <2>7. Asked(c)[k] = sel[w[1]].msgs[w[2]]
    BY <2>1 DEF Asked
  <2> QED BY <2>1, <2>3, <2>4, <2>5, <2>6, <2>7
<1>4. Asked(c) \in Seq(Val) /\ Len(Asked(c)) = Len(sendq[c])
  <2>1. Asked(c) = [k \in 1..Len(sendq[c]) |-> Asked(c)[k]]
    BY <1>2 DEF Asked
  <2>2. \A k \in 1..Len(sendq[c]) : Asked(c)[k] \in Val
    BY <1>2, <1>3
  <2>3. PICK a : a = Asked(c)
    OBVIOUS
  <2>4. a = [k \in 1..Len(sendq[c]) |-> a[k]] /\ \A k \in 1..Len(sendq[c]) : a[k] \in Val
    BY <2>1, <2>2, <2>3
  <2>5. a \in Seq(Val) /\ Len(a) = Len(sendq[c])
    BY <1>2, <2>4
  <2> QED BY <2>3, <2>5
<1>5. queue[c] \in Seq(Val)
  BY <1>0 DEF TypeOK
<1>6. \A i \in 1..Len(queue[c]) : queue[c][i] \in Buffered
  <2>1. queue \in [Chan -> Seq(Val)] /\ Buffered = All(queue)
    BY ValueFacts
  <2> QED BY <2>1, InAll
<1>7. Offered[c] = queue[c] \o Asked(c)
  BY DEF Offered, Asked
<1> QED BY <1>1, <1>2, <1>3, <1>4, <1>5, <1>6, <1>7

(* The values that the blocked calls of P asked to send, but x.            *)
Withdrawn(P, x) ==
  {v \in Val : v # x /\ \E p \in P, i \in 1..LTHR_SEL_CHANS :
                 Waiting(p) /\ Asks(p, i) /\ sel[p].msgs[i] = v}

Others(c, P, x) == {k \in DOMAIN sendq[c] : sendq[c][k][1] \notin P \/ Asked(c)[k] = x}

(* Without these, the buffer and the values of the others are on offer.    *)
LEMMA Withdraws ==
  ASSUME IInv, NEW c \in Chan, NEW P \in SUBSET Lthread, NEW x
  PROVE  Service!Without(Offered[c], Withdrawn(P, x)) = queue[c] \o Kept(Asked(c), Others(c, P, x))
<1> DEFINE K == Others(c, P, x)
           q == queue[c]
           r == Asked(c)
           o == Offered[c]
           W == Withdrawn(P, x)
<1>0. /\ q \in Seq(Val) /\ r \in Seq(Val) /\ o = q \o r
      /\ DOMAIN sendq[c] = 1..Len(r) /\ \A i \in 1..Len(q) : q[i] \in Buffered
  BY AskedIs
<1>1. AskOK /\ TypeOK /\ ReadyOK /\ SendHonest
  BY DEF IInv
<1>2. ASSUME NEW v \in W PROVE v \notin Buffered
  <2>1. PICK p \in P, i \in 1..LTHR_SEL_CHANS : Waiting(p) /\ Asks(p, i) /\ sel[p].msgs[i] = v
    BY DEF Withdrawn
  <2>2. p \in Lthread /\ i \in WIdx(sel[p])
    BY <2>1 DEF Asks
  <2> QED BY <1>1, <2>1, <2>2, BlockedNotOut
<1>3. ASSUME NEW k \in 1..Len(r) PROVE r[k] \in W <=> k \notin K
  <2>1. PICK w : w = sendq[c][k]
    OBVIOUS
  <2>2. /\ w[1] \in Lthread /\ w[2] \in 1..LTHR_SEL_CHANS /\ Waiting(w[1]) /\ Asks(w[1], w[2])
        /\ r[k] = sel[w[1]].msgs[w[2]] /\ r[k] \in Val
    BY <1>0, <2>1, AskedIs
  <2>3. k \notin K <=> w[1] \in P /\ r[k] # x
    BY <1>0, <2>1 DEF Others
  <2>4. w[1] \in P /\ r[k] # x => r[k] \in W
    BY <2>2 DEF Withdrawn
  <2>5. ASSUME r[k] \in W PROVE w[1] \in P /\ r[k] # x
    <3>1. PICK p \in P, i \in 1..LTHR_SEL_CHANS : Asks(p, i) /\ sel[p].msgs[i] = r[k]
      BY <2>5 DEF Withdrawn
    <3>2. p = w[1]
      BY <1>1, <2>2, <3>1 DEF AskOK
    <3> QED BY <2>5, <3>1, <3>2 DEF Withdrawn
  <2> QED BY <2>3, <2>4, <2>5
<1> DEFINE J == {j \in DOMAIN o : o[j] \notin W}
<1>4. Service!Without(o, W) = Kept(o, J)
  BY Zenon DEF Service!Without, Service!Kept, Service!InOrder, Service!Cardinality,
               Kept, InOrder, Cardinality
<1>5. K \in SUBSET DOMAIN r
  BY <1>0 DEF Others
<1> HIDE DEF K, q, r, o, W
<1>6. ASSUME NEW j PROVE j \in J <=> j \in DOMAIN (q \o r) /\ (j <= Len(q) \/ j - Len(q) \in K)
  <2>1. j \in J <=> j \in DOMAIN (q \o r) /\ (q \o r)[j] \notin W
    BY <1>0
  <2>2. /\ DOMAIN (q \o r) = 1..(Len(q) + Len(r)) /\ Len(q) \in Nat /\ Len(r) \in Nat
        /\ DOMAIN r = 1..Len(r)
    BY <1>0
  <2>3. ASSUME j \in 1..Len(q) PROVE (q \o r)[j] \notin W
    <3>1. (q \o r)[j] = q[j]
      BY <1>0, <2>3
    <3> QED BY <1>0, <1>2, <2>3, <3>1
  <2>4. ASSUME j \in (Len(q) + 1)..(Len(q) + Len(r)) PROVE (q \o r)[j] \in W <=> j - Len(q) \notin K
    <3>1. PICK k \in 1..Len(r) : k = j - Len(q)
      BY <2>2, <2>4
    <3>2. (q \o r)[j] = r[k]
      BY <1>0, <2>2, <2>4, <3>1
    <3> QED BY <1>3, <3>1, <3>2
  <2>5. j \in DOMAIN (q \o r) => j \in 1..Len(q) \/ j \in (Len(q) + 1)..(Len(q) + Len(r))
    BY <2>2
  <2>6. j \in 1..Len(q) => j <= Len(q)
    BY <2>2
  <2>7. j \in (Len(q) + 1)..(Len(q) + Len(r)) => ~(j <= Len(q))
    BY <2>2
  <2> QED BY <2>1, <2>3, <2>4, <2>5, <2>6, <2>7
<1> HIDE DEF J
<1>7. Kept(q \o r, J) = q \o Kept(r, K)
  <2>1. PICK a : a = q
    OBVIOUS
  <2>2. PICK b : b = r
    OBVIOUS
  <2>3. PICK I, L : I = J /\ L = K
    OBVIOUS
  <2>4. a \in Seq(Val)
    BY <1>0, <2>1
  <2>5. b \in Seq(Val)
    BY <1>0, <2>2
  <2>6. L \in SUBSET DOMAIN b
    BY <1>5, <2>2, <2>3
  <2>7. Behind(q, r, K, J)
    BY <1>6, Zenon DEF Behind
  <2>8. Behind(a, b, L, I)
    BY <2>1, <2>2, <2>3, <2>7
  <2>9. Kept(a \o b, I) = a \o Kept(b, L)
    BY ONLY <2>4, <2>5, <2>6, <2>8, KeptConcat, SMTT(20)
  <2> QED BY <2>1, <2>2, <2>3, <2>9
<1> QED BY <1>0, <1>4, <1>7 DEF K, q, r, o, W

(* sel_remove_all_chans on P leaves the values of the others.              *)
LEMMA AskedAfter ==
  ASSUME IInv, NEW c \in Chan, NEW P, sendq' = Dequeued(sendq, P),
         \A q \in Lthread \ P : Waiting(q) => sel'[q] = sel[q], NEW K,
         K = {k \in DOMAIN sendq[c] : sendq[c][k][1] \notin P}
  PROVE  Asked(c)' = Kept(Asked(c), K) /\ Asked(c)' \in Seq(Val)
<1> DEFINE m == Cardinality(K)
           o == InOrder(K)
<1>0. /\ sendq[c] \in Seq(Wait) /\ DOMAIN sendq[c] = 1..Len(sendq[c])
      /\ Asked(c) \in Seq(Val) /\ Len(Asked(c)) = Len(sendq[c])
  BY AskedIs
<1>1. K \in SUBSET DOMAIN sendq[c] /\ K \in SUBSET Nat /\ K \in SUBSET DOMAIN Asked(c)
  BY <1>0
<1>2. sendq'[c] = Kept(sendq[c], K)
  BY DEF Dequeued
<1>3. IsFiniteSet(K)
  BY <1>0, <1>1, KeptIs
<1>4. m \in Nat /\ o \in [1..m -> K]
  BY <1>1, <1>3, InOrderIs
<1>5. sendq'[c] = [j \in 1..m |-> sendq[c][o[j]]]
  BY <1>2 DEF Kept
<1> HIDE DEF m, o
<1>6. ASSUME NEW j \in 1..m
      PROVE  sel'[sendq[c][o[j]][1]].msgs[sendq[c][o[j]][2]] = Asked(c)[o[j]]
  <2>1. PICK k \in K : k = o[j]
    BY <1>4
  <2>2. /\ sendq[c][k][1] \in Lthread /\ Waiting(sendq[c][k][1]) /\ sendq[c][k][1] \notin P
        /\ Asked(c)[k] = sel[sendq[c][k][1]].msgs[sendq[c][k][2]]
    BY AskedIs
  <2>3. sel'[sendq[c][k][1]] = sel[sendq[c][k][1]]
    BY <2>2
  <2> QED BY <2>1, <2>2, <2>3
<1>7. Asked(c)' = [j \in 1..m |-> sel'[sendq[c][o[j]][1]].msgs[sendq[c][o[j]][2]]]
  <2>1. DOMAIN sendq'[c] = 1..m /\ \A j \in 1..m : sendq'[c][j] = sendq[c][o[j]]
    BY <1>5
  <2>2. Asked(c)' = [j \in DOMAIN sendq'[c] |-> sel'[sendq'[c][j][1]].msgs[sendq'[c][j][2]]]
    BY DEF Asked
  <2> QED BY <2>1, <2>2
<1>8. Asked(c)' = Kept(Asked(c), K)
  <2>1. Kept(Asked(c), K) = [j \in 1..m |-> Asked(c)[o[j]]]
    BY DEF Kept, m, o
  <2> QED BY <1>6, <1>7, <2>1
<1>9. Kept(Asked(c), K) \in Seq(Val)
  BY <1>0, <1>1, KeptIs
<1> QED BY <1>8, <1>9

(* The steps of the service, from what is left on offer: nothing is taken. *)
LEMMA Offers ==
  ASSUME NEW c \in Chan, NEW gone \in SUBSET Val, NEW rest \in Seq(Val), NEW more \in Seq(Val),
         Service!Without(Offered[c], gone) = rest,
         Offered'[c] = rest \o more, taken'[c] = taken[c]
  PROVE  Service!Step(c)
<1>1. /\ rest \o more \in Seq(Val) /\ Len(rest \o more) >= Len(rest)
      /\ SubSeq(rest \o more, 1, Len(rest)) = rest
  OBVIOUS
<1>2. Service!Offer(c, rest)
  BY <1>1 DEF Service!Offer
<1> QED BY <1>2 DEF Service!Step

(* A receiver takes the oldest value left on offer.                        *)
LEMMA Takes ==
  ASSUME NEW c \in Chan, NEW gone \in SUBSET Val, NEW rest, rest # <<>>,
         Service!Without(Offered[c], gone) = rest,
         Offered'[c] = Tail(rest), taken'[c] = Append(taken[c], Head(rest))
  PROVE  Service!Step(c)
<1>1. Service!Take(c, rest)
  BY DEF Service!Take
<1> QED BY <1>1 DEF Service!Step

(* Nothing is left on offer and a value goes straight to a receiver.       *)
LEMMA Passes ==
  ASSUME NEW c \in Chan, NEW gone \in SUBSET Val, NEW v \in Val,
         Service!Without(Offered[c], gone) = <<>>,
         Offered'[c] = <<>>, taken'[c] = Append(taken[c], v)
  PROVE  Service!Step(c)
<1>1. Service!Pass(c, <<>>)
  BY DEF Service!Pass
<1> QED BY <1>1 DEF Service!Step

(* Nothing is withdrawn.                                                   *)
LEMMA AllRemains ==
  ASSUME IInv, NEW c \in Chan
  PROVE  /\ Offered[c] \in Seq(Val) /\ Service!Without(Offered[c], {}) = Offered[c]
         /\ Offered'[c] = queue'[c] \o Asked(c)'
<1>1. queue[c] \in Seq(Val) /\ Asked(c) \in Seq(Val) /\ Offered[c] = queue[c] \o Asked(c)
  BY AskedIs
<1>2. Offered[c] \in Seq(Val)
  BY <1>1
<1>3. PICK o : o = Offered[c]
  OBVIOUS
<1>4. Service!Without(o, {}) = Kept(o, {i \in DOMAIN o : o[i] \notin {}})
  BY Zenon DEF Service!Without, Service!Kept, Service!InOrder, Service!Cardinality,
               Kept, InOrder, Cardinality
<1>5. {i \in DOMAIN o : o[i] \notin {}} = DOMAIN o
  OBVIOUS
<1>6. Kept(o, DOMAIN o) = o
  BY <1>2, <1>3, KeptAll
<1>7. Offered'[c] = queue'[c] \o Asked(c)'
  BY DEF Offered, Asked
<1> QED BY <1>2, <1>3, <1>4, <1>5, <1>6, <1>7

(* The waits of P are taken off the queues, with their values ...          *)
LEMMA Remains ==
  ASSUME IInv, NEW c \in Chan, NEW P \in SUBSET Lthread, sendq' = Dequeued(sendq, P),
         \A q \in Lthread \ P : Waiting(q) => sel'[q] = sel[q]
  PROVE  /\ Asked(c)' \in Seq(Val)
         /\ Service!Without(Offered[c], Withdrawn(P, NULL)) = queue[c] \o Asked(c)'
         /\ Withdrawn(P, NULL) \in SUBSET Val
<1>1. PICK K : K = {k \in DOMAIN sendq[c] : sendq[c][k][1] \notin P}
  OBVIOUS
<1>2. K = Others(c, P, NULL)
  <2>1. \A k \in DOMAIN sendq[c] : Asked(c)[k] # NULL
    BY AskedIs, ValueFacts
  <2> QED BY <1>1, <2>1 DEF Others
<1>3. Asked(c)' = Kept(Asked(c), K) /\ Asked(c)' \in Seq(Val)
  BY <1>1, AskedAfter
<1>4. Service!Without(Offered[c], Withdrawn(P, NULL)) = queue[c] \o Kept(Asked(c), K)
  BY <1>2, Withdraws
<1>5. Withdrawn(P, NULL) \in SUBSET Val
  BY DEF Withdrawn
<1> QED BY <1>3, <1>4, <1>5

(* ... but for the value of the first sender of c.                         *)
LEMMA HeadRemains ==
  ASSUME IInv, NEW c \in Chan, NEW p \in Lthread, sendq' = Dequeued(sendq, {p}),
         \A q \in Lthread \ {p} : Waiting(q) => sel'[q] = sel[q],
         sendq[c] # <<>>, sendq[c][1][1] = p, NEW v, v = Asked(c)[1]
  PROVE  /\ Asked(c)' \in Seq(Val) /\ v \in Val
         /\ Service!Without(Offered[c], Withdrawn({p}, v)) = queue[c] \o (<<v>> \o Asked(c)')
         /\ Withdrawn({p}, v) \in SUBSET Val
<1>0. /\ sendq[c] \in Seq(Wait) /\ DOMAIN sendq[c] = 1..Len(sendq[c]) /\ Len(sendq[c]) \in Nat
      /\ Asked(c) \in Seq(Val) /\ Len(Asked(c)) = Len(sendq[c])
  BY AskedIs
<1>1. 1 \in DOMAIN sendq[c] /\ 1 \in DOMAIN Asked(c) /\ v \in Val /\ Asked(c) # <<>>
  <2>1. Len(sendq[c]) > 0
    BY <1>0
  <2> QED BY <1>0, <2>1
<1>2. PICK K : K = {k \in DOMAIN sendq[c] : sendq[c][k][1] \notin {p}}
  OBVIOUS
<1>3. PICK J : J = Others(c, {p}, v)
  OBVIOUS
<1>4. ASSUME NEW k \in DOMAIN sendq[c], Asked(c)[k] = v PROVE k = 1
  <2>1. PICK w : w = sendq[c][k]
    OBVIOUS
  <2>2. PICK u : u = sendq[c][1]
    OBVIOUS
  <2>3. /\ w \in Wait /\ w[1] \in Lthread /\ w[2] \in 1..LTHR_SEL_CHANS /\ Asks(w[1], w[2])
        /\ Asked(c)[k] = sel[w[1]].msgs[w[2]]
    BY <2>1, AskedIs
  <2>4. /\ u \in Wait /\ u[1] \in Lthread /\ u[2] \in 1..LTHR_SEL_CHANS /\ Asks(u[1], u[2])
        /\ Asked(c)[1] = sel[u[1]].msgs[u[2]]
    BY <1>1, <2>2, AskedIs
  <2>5. w[1] = u[1] /\ w[2] = u[2]
    <3>1. sel[w[1]].msgs[w[2]] = sel[u[1]].msgs[u[2]]
      BY <1>4, <2>3, <2>4
    <3>2. AskOK
      BY DEF IInv
    <3> QED BY <2>3, <2>4, <3>1, <3>2 DEF AskOK
  <2>6. w = u
    BY <2>3, <2>4, <2>5 DEF Wait
  <2>7. Distinct(sendq[c])
    BY DEF IInv, QueuesOK
  <2> QED BY <1>0, <1>1, <2>1, <2>2, <2>6, <2>7 DEF Distinct
<1>5. \A j : j \in J <=> j = 1 \/ j \in K
  BY <1>1, <1>2, <1>3, <1>4 DEF Others
<1>6. 1 \notin K /\ K \in SUBSET DOMAIN Asked(c)
  BY <1>0, <1>2
<1>7. Kept(Asked(c), J) = <<v>> \o Kept(Asked(c), K)
  <2>1. PICK a : a = Asked(c)
    OBVIOUS
  <2>2. a \in Seq(Val) /\ a # <<>>
    BY <1>0, <1>1, <2>1
  <2>3. K \in SUBSET DOMAIN a /\ 1 \notin K
    BY <1>6, <2>1
  <2>4. Kept(a, J) = <<a[1]>> \o Kept(a, K)
    BY ONLY <1>5, <2>2, <2>3, KeptHead
  <2> QED BY <2>1, <2>4
<1>8. Asked(c)' = Kept(Asked(c), K) /\ Asked(c)' \in Seq(Val)
  BY <1>2, AskedAfter
<1>9. Service!Without(Offered[c], Withdrawn({p}, v)) = queue[c] \o Kept(Asked(c), J)
  <2>1. {p} \in SUBSET Lthread
    OBVIOUS
  <2> QED BY <1>3, <2>1, Withdraws
<1>10. Withdrawn({p}, v) \in SUBSET Val
  BY DEF Withdrawn
<1> QED BY <1>1, <1>7, <1>8, <1>9, <1>10

(* A channel whose buffer the step leaves alone.                           *)
LEMMA Untouched ==
  ASSUME IInv, NEW c \in Chan, queue'[c] = queue[c], taken'[c] = taken[c],
         Asked(c)' = Asked(c)
  PROVE  Service!Step(c)
<1>1. Offered[c] \in Seq(Val) /\ Service!Without(Offered[c], {}) = Offered[c]
  BY AllRemains
<1>2. Offered'[c] = Offered[c] \o <<>>
  <2>1. Offered'[c] = queue[c] \o Asked(c) /\ Offered[c] = queue[c] \o Asked(c)
    BY AllRemains, AskedIs
  <2> QED BY <1>1, <2>1
<1>3. {} \in SUBSET Val /\ <<>> \in Seq(Val)
  OBVIOUS
<1> QED BY <1>1, <1>2, <1>3, Offers

(* A channel from which only the waits of P are taken.                     *)
LEMMA Shrinks ==
  ASSUME IInv, NEW c \in Chan, queue'[c] = queue[c], taken'[c] = taken[c],
         NEW P \in SUBSET Lthread, sendq' = Dequeued(sendq, P),
         \A q \in Lthread \ P : Waiting(q) => sel'[q] = sel[q]
  PROVE  Service!Step(c)
<1>1. /\ Asked(c)' \in Seq(Val) /\ Withdrawn(P, NULL) \in SUBSET Val
      /\ Service!Without(Offered[c], Withdrawn(P, NULL)) = queue[c] \o Asked(c)'
  BY Remains
<1>2. PICK rest : rest = queue[c] \o Asked(c)'
  OBVIOUS
<1>3. rest \in Seq(Val)
  <2>1. queue[c] \in Seq(Val)
    BY AskedIs
  <2> QED BY <1>1, <1>2, <2>1
<1>4. Offered'[c] = rest \o <<>> /\ <<>> \in Seq(Val)
  <2>1. Offered'[c] = rest
    BY <1>2, AllRemains
  <2> QED BY <1>3, <2>1
<1> QED BY <1>1, <1>2, <1>3, <1>4, Offers

(* The blocked senders stay as they are.                                   *)
LEMMA SameAsked ==
  ASSUME IInv, NEW c \in Chan, sendq'[c] = sendq[c],
         \A q \in Lthread : Waiting(q) => sel'[q] = sel[q]
  PROVE  Asked(c)' = Asked(c)
<1>1. \A k \in DOMAIN sendq[c] : sel'[sendq[c][k][1]] = sel[sendq[c][k][1]]
  BY AskedIs
<1>2. Asked(c)' = [k \in DOMAIN sendq'[c] |-> sel'[sendq'[c][k][1]].msgs[sendq'[c][k][2]]]
  BY DEF Asked
<1> QED BY <1>1, <1>2 DEF Asked

(* No sender is blocked on c, before or after.                             *)
LEMMA NoneAsked ==
  ASSUME NEW c \in Chan
  PROVE  /\ sendq[c] = <<>> => Asked(c) = <<>>
         /\ sendq'[c] = <<>> => Asked(c)' = <<>>
  BY DEF Asked

(* Serving changes one selector only.                                      *)
LEMMA ServeFrame ==
  ASSUME TypeOK, NEW w, w[1] \in Lthread, NEW m, Serve(w, m)
  PROVE  /\ sendq' = Dequeued(sendq, {w[1]}) /\ {w[1]} \in SUBSET Lthread
         /\ \A q \in Lthread \ {w[1]} : Waiting(q) => sel'[q] = sel[q]
<1>1. sel \in [Lthread -> Sel]
  BY DEF TypeOK
<1>2. sendq' = Dequeued(sendq, {w[1]})
  BY DEF Serve, sel_remove_all_chans
<1>3. sel' = [sel EXCEPT ![w[1]].target = w[2], ![w[1]].msgs[w[2]] = m]
  BY DEF Serve
<1>4. \A q \in Lthread \ {w[1]} : sel'[q] = sel[q]
  BY <1>1, <1>3
<1> QED BY <1>2, <1>4

(* chan_try_send: the value is added behind all others, or goes straight   *)
(* to a receiver when no other is on offer.                                *)
LEMMA SendStep ==
  ASSUME IInv, NEW s, GoodCall(s), NEW i \in WIdx(s), CanSend(s.chans[i]), chan_try_send(s, i),
         NEW d \in Chan
  PROVE  Service!Step(d)
<1>1. PICK c : c = s.chans[i]
  OBVIOUS
<1>2. PICK m : m = s.msgs[i]
  OBVIOUS
<1>3. PICK w : w = FirstReceiver(c)
  OBVIOUS
<1>4. /\ c \in Chan /\ m \in Val
      /\ w # NoWait => InQ(w, recvq[c]) /\ queue[c] = <<>>
      /\ \/ /\ w = NoWait /\ Room(c) /\ queue' = [queue EXCEPT ![c] = Append(queue[c], m)]
            /\ ServeNobody /\ taken' = taken
         \/ /\ w # NoWait /\ queue' = queue /\ Serve(w, m)
            /\ taken' = [taken EXCEPT ![c] = Append(taken[c], m)]
  BY <1>1, <1>2, <1>3, SendIs
<1>5. /\ TypeOK /\ QueuesOK /\ VainAt(c)
      /\ queue \in [Chan -> Seq(Val)] /\ taken \in [Chan -> Seq(Val)]
  BY <1>4, ValueFacts, VainIs DEF IInv
<1>6. CASE /\ Room(c) /\ queue' = [queue EXCEPT ![c] = Append(queue[c], m)]
           /\ ServeNobody /\ taken' = taken
  <2>1. sendq' = sendq /\ sel' = sel
    BY <1>6 DEF ServeNobody
  <2>2. CASE d # c
    <3>1. queue'[d] = queue[d] /\ taken'[d] = taken[d]
      BY <1>5, <1>6, <2>2
    <3>2. Asked(d)' = Asked(d)
      BY <2>1, SameAsked
    <3> QED BY <3>1, <3>2, Untouched
  <2>3. CASE d = c
    <3>1. sendq[c] = <<>>
      <4>1. sendq[c] \in Seq(Wait)
        BY <1>4, <1>5 DEF TypeOK
      <4> QED BY <1>5, <1>6, <4>1, SeqMembers DEF VainAt
    <3>2. Asked(c) = <<>> /\ Asked(c)' = <<>>
      BY <1>4, <2>1, <3>1, NoneAsked
    <3>3. queue'[c] = Append(queue[c], m) /\ queue[c] \in Seq(Val) /\ taken'[c] = taken[c]
      BY <1>4, <1>5, <1>6
    <3>4. Offered[c] = queue[c] \o Asked(c) /\ Offered'[c] = queue'[c] \o Asked(c)'
      BY <1>4, AskedIs, AllRemains
    <3>5. PICK q \in Seq(Val) : q = queue[c]
      BY <3>3
    <3>6. q \o <<>> = q /\ Append(q, m) \o <<>> = q \o <<m>> /\ <<m>> \in Seq(Val)
      BY <1>4
    <3>7. Offered[c] = q /\ Offered'[c] = q \o <<m>>
      BY <3>2, <3>3, <3>4, <3>5, <3>6
    <3>8. Service!Without(Offered[c], {}) = q /\ {} \in SUBSET Val
      BY <1>4, <3>7, AllRemains
    <3> QED BY <1>4, <2>3, <3>3, <3>6, <3>7, <3>8, Offers
  <2> QED BY <2>2, <2>3
<1>7. CASE /\ w # NoWait /\ queue' = queue /\ Serve(w, m)
           /\ taken' = [taken EXCEPT ![c] = Append(taken[c], m)]
  <2>1. InQ(w, recvq[c]) /\ queue[c] = <<>>
    BY <1>4, <1>7
  <2>2. w[1] \in Lthread
    BY <1>4, <1>5, <2>1, QueuesHold
  <2>3. /\ sendq' = Dequeued(sendq, {w[1]}) /\ {w[1]} \in SUBSET Lthread
        /\ \A q \in Lthread \ {w[1]} : Waiting(q) => sel'[q] = sel[q]
    BY <1>5, <1>7, <2>2, ServeFrame
  <2>4. CASE d # c
    <3>1. queue'[d] = queue[d] /\ taken'[d] = taken[d]
      BY <1>5, <1>7, <2>4
    <3> QED BY <2>3, <3>1, Shrinks
  <2>5. CASE d = c
    <3>1. sendq'[c] = <<>>
      <4>1. sendq \in [Chan -> Seq(Wait)]
        BY <1>5 DEF TypeOK
      <4>2. /\ sendq'[c] \in Seq(Wait)
            /\ \A x : InQ(x, sendq'[c]) => InQ(x, sendq[c]) /\ x[1] \notin {w[1]}
        <5>1. PICK P : P = {w[1]}
          OBVIOUS
        <5>2. /\ Dequeued(sendq, P)[c] \in Seq(Wait)
              /\ \A x : InQ(x, Dequeued(sendq, P)[c]) => InQ(x, sendq[c]) /\ x[1] \notin P
          <6>1. c \in Chan
            BY <1>4
          <6>2. /\ Dequeued(sendq, P) \in [Chan -> Seq(Wait)]
                /\ \A e \in Chan : \A x : InQ(x, Dequeued(sendq, P)[e]) <=>
                                         InQ(x, sendq[e]) /\ x[1] \notin P
            BY <4>1, DequeuedIs, Zenon
          <6> QED BY <6>1, <6>2
        <5> QED BY <2>3, <5>1, <5>2
      <4>3. \A x : ~InQ(x, sendq'[c])
        BY <1>5, <2>1, <4>2 DEF VainAt
      <4> QED BY <4>2, <4>3, SeqMembers
    <3>2. Asked(c)' = <<>>
      BY <1>4, <3>1, NoneAsked
    <3>3. /\ Service!Without(Offered[c], Withdrawn({w[1]}, NULL)) = queue[c] \o Asked(c)'
          /\ Withdrawn({w[1]}, NULL) \in SUBSET Val
      BY <1>4, <2>3, Remains
    <3>4. queue[c] \o Asked(c)' = <<>>
      BY <2>1, <3>2
    <3>5. Offered'[c] = <<>>
      <4>1. Offered'[c] = queue'[c] \o Asked(c)'
        BY <1>4, AllRemains
      <4> QED BY <1>7, <3>4, <4>1
    <3>6. taken'[c] = Append(taken[c], m)
      BY <1>4, <1>5, <1>7
    <3> QED BY <1>4, <2>5, <3>3, <3>4, <3>5, <3>6, Passes
  <2> QED BY <2>4, <2>5
<1> QED BY <1>4, <1>6, <1>7

(* Head and tail of a concatenation.                                       *)
LEMMA TailConcat ==
  ASSUME NEW S, NEW q \in Seq(S), NEW b \in Seq(S), q # <<>>
  PROVE  Head(q \o b) = Head(q) /\ Tail(q \o b) = Tail(q) \o b
<1>1. /\ q \o b \in Seq(S) /\ Len(q \o b) = Len(q) + Len(b)
      /\ Len(q) \in Nat /\ Len(q) > 0 /\ Len(b) \in Nat
  OBVIOUS
<1>2. \A i \in 1..(Len(q) + Len(b)) : (q \o b)[i] = IF i <= Len(q) THEN q[i] ELSE b[i - Len(q)]
  BY ConcatProperties
<1>3. /\ Tail(q) \in Seq(S) /\ Len(Tail(q)) = Len(q) - 1
      /\ \A i \in 1..(Len(q) - 1) : Tail(q)[i] = q[i + 1]
  BY HeadTailProperties
<1>4. PICK x : x = Tail(q \o b)
  OBVIOUS
<1>5. PICK y : y = Tail(q) \o b
  OBVIOUS
<1>6. q \o b # <<>>
  BY <1>1
<1>7. /\ x \in Seq(S) /\ Len(x) = Len(q) + Len(b) - 1
      /\ \A i \in 1..(Len(q) + Len(b) - 1) : x[i] = (q \o b)[i + 1]
  BY <1>1, <1>4, <1>6, HeadTailProperties
<1>8. /\ y \in Seq(S) /\ Len(y) = Len(q) - 1 + Len(b)
      /\ \A i \in 1..(Len(q) - 1 + Len(b)) :
           y[i] = IF i <= Len(q) - 1 THEN Tail(q)[i] ELSE b[i - (Len(q) - 1)]
  BY <1>3, <1>5, ConcatProperties
<1>9. ASSUME NEW i \in 1..(Len(q) + Len(b) - 1) PROVE x[i] = y[i]
  <2>1. /\ i + 1 \in 1..(Len(q) + Len(b)) /\ i \in 1..(Len(q) - 1 + Len(b)) /\ i \in Nat
        /\ (i + 1) - Len(q) = i - (Len(q) - 1) /\ (i + 1 <= Len(q) <=> i <= Len(q) - 1)
        /\ (i <= Len(q) - 1 => i \in 1..(Len(q) - 1))
    BY <1>1
  <2> QED BY <1>2, <1>3, <1>7, <1>8, <2>1
<1>10. x = y
  <2>1. Len(x) = Len(y) /\ \A i \in 1..Len(x) : x[i] = y[i]
    BY <1>1, <1>7, <1>8, <1>9
  <2> QED BY <1>7, <1>8, <2>1, SeqEqual
<1>11. Head(q \o b) = Head(q)
  BY <1>1, <1>2, <1>6
<1> QED BY <1>4, <1>5, <1>10, <1>11

(* Taking the head of a sequence made of three parts.                      *)
HeadOff(rest, q, u, a) ==
  /\ rest # <<>>
  /\ q # <<>> => Head(rest) = Head(q) /\ Tail(rest) = (Tail(q) \o <<u>>) \o a
  /\ q = <<>> => Head(rest) = u /\ Tail(rest) = <<>> \o a

(* The head comes from the first part that has one.                        *)
LEMMA Spliced ==
  ASSUME NEW S, NEW q \in Seq(S), NEW a \in Seq(S), NEW u \in S,
         NEW rest, rest = q \o (<<u>> \o a)
  PROVE  HeadOff(rest, q, u, a)
<1>1. <<u>> \in Seq(S) /\ <<u>> \o a \in Seq(S) /\ Len(<<u>> \o a) = 1 + Len(a) /\ Len(a) \in Nat
  OBVIOUS
<1>2. PICK b : b = <<u>> \o a
  OBVIOUS
<1>3. b \in Seq(S) /\ Len(b) = 1 + Len(a)
  BY <1>1, <1>2
<1>4. rest \in Seq(S) /\ rest # <<>>
  BY <1>1, <1>2, <1>3
<1>5. ASSUME q = <<>> PROVE Head(rest) = u /\ Tail(rest) = <<>> \o a
  <2>1. rest = b
    BY <1>2, <1>3, <1>5
  <2>2. Head(b) = u /\ Tail(b) = a /\ <<>> \o a = a
    BY <1>2
  <2> QED BY <2>1, <2>2
<1>6. ASSUME q # <<>> PROVE Head(rest) = Head(q) /\ Tail(rest) = (Tail(q) \o <<u>>) \o a
  <2>1. rest = q \o b
    BY <1>2
  <2>2. Head(rest) = Head(q) /\ Tail(rest) = Tail(q) \o b
    <3>1. b \in Seq(S)
      BY <1>3
    <3> QED BY ONLY <1>6, <2>1, <3>1, q \in Seq(S), TailConcat
  <2>3. Tail(q) \in Seq(S)
    BY <1>6
  <2>4. Tail(q) \o (<<u>> \o a) = (Tail(q) \o <<u>>) \o a
    BY <1>1, <2>3, ConcatAssociative
  <2> QED BY <1>2, <2>2, <2>4
<1> QED BY <1>4, <1>5, <1>6 DEF HeadOff

(* chan_try_recv: the oldest value on offer is taken, the place of a       *)
(* buffered one being given to the first blocked sender.                   *)
LEMMA RecvStep ==
  ASSUME IInv, NEW s, GoodCall(s), NEW i \in RIdx(s), chan_try_recv(s, i), NEW d \in Chan
  PROVE  Service!Step(d)
<1>1. PICK c : c = s.chans[i]
  OBVIOUS
<1>2. c \in Chan
  <2>1. s \in Sel
    BY DEF GoodCall
  <2> QED BY <1>1, <2>1, SelFacts
<1>3. PICK w : w = HeadSender(c)
  OBVIOUS
<1>4. PICK u : u = IF w = NoWait THEN NULL ELSE sel[w[1]].msgs[w[2]]
  OBVIOUS
<1>5. /\ \/ /\ queue[c] # <<>>
            /\ queue' = [queue EXCEPT ![c] = Refilled(c, w, u)]
            /\ taken' = [taken EXCEPT ![c] = Append(@, Head(queue[c]))]
         \/ /\ queue[c] = <<>> /\ w # NoWait
            /\ taken' = [taken EXCEPT ![c] = Append(@, u)] /\ queue' = queue
         \/ queue[c] = <<>> /\ w = NoWait /\ queue' = queue /\ taken' = taken
      /\ IF w = NoWait THEN ServeNobody ELSE Serve(w, u)
  BY <1>1, <1>3, <1>4, Zenon DEF chan_try_recv
<1>6. /\ TypeOK /\ QueuesOK /\ ReadyOK
      /\ queue \in [Chan -> Seq(Val)] /\ taken \in [Chan -> Seq(Val)]
  BY ValueFacts DEF IInv
<1>7. /\ w = NoWait => sendq[c] = <<>>
      /\ w # NoWait => InQ(w, sendq[c]) /\ sendq[c] # <<>> /\ w = Head(sendq[c])
  BY <1>2, <1>3, <1>6, SenderIs
<1>8. /\ \A e \in Chan \ {c} : queue'[e] = queue[e] /\ taken'[e] = taken[e]
      /\ queue[c] # <<>> => /\ queue'[c] = Refilled(c, w, u)
                            /\ taken'[c] = Append(taken[c], Head(queue[c]))
      /\ queue[c] = <<>> => queue'[c] = <<>>
      /\ queue[c] = <<>> /\ w # NoWait => taken'[c] = Append(taken[c], u)
      /\ queue[c] = <<>> /\ w = NoWait => taken'[c] = taken[c]
  BY <1>2, <1>5, <1>6
<1>9. PICK q \in Seq(Val) : q = queue[c]
  BY <1>2, <1>6
<1>10. /\ Offered[c] = queue[c] \o Asked(c) /\ Offered'[c] = queue'[c] \o Asked(c)'
       /\ Service!Without(Offered[c], {}) = Offered[c] /\ {} \in SUBSET Val
  BY <1>2, AskedIs, AllRemains
<1>11. CASE w = NoWait
  <2>1. sendq' = sendq /\ sel' = sel
    BY <1>5, <1>11 DEF ServeNobody
  <2>2. Asked(d)' = Asked(d)
    BY <2>1, SameAsked
  <2>3. CASE d # c \/ queue[c] = <<>>
    <3>1. queue'[d] = queue[d] /\ taken'[d] = taken[d]
      BY <1>8, <1>11, <2>3
    <3> QED BY <2>2, <3>1, Untouched
  <2>4. CASE d = c /\ queue[c] # <<>>
    <3>1. Asked(c) = <<>> /\ Asked(c)' = <<>>
      BY <1>2, <1>7, <1>11, <2>1, NoneAsked
    <3>2. queue'[c] = Tail(q) \o <<>> /\ taken'[c] = Append(taken[c], Head(q))
      BY <1>8, <1>9, <1>11, <2>4 DEF Refilled
    <3>3. q \o <<>> = q /\ (Tail(q) \o <<>>) \o <<>> = Tail(q)
      BY <1>9, <2>4
    <3>4. Offered[c] = q /\ Offered'[c] = Tail(q)
      BY <1>9, <1>10, <3>1, <3>2, <3>3
    <3> QED BY <1>2, <1>9, <1>10, <2>4, <3>2, <3>4, Takes
  <2> QED BY <2>3, <2>4
<1>12. CASE w # NoWait
  <2>1. /\ sendq[c] \in Seq(Wait) /\ sendq[c] # <<>> /\ w = sendq[c][1] /\ InQ(w, sendq[c])
        /\ Serve(w, u) /\ u = sel[w[1]].msgs[w[2]]
    <3>1. sendq[c] \in Seq(Wait)
      BY <1>2, <1>6 DEF TypeOK
    <3> QED BY <1>4, <1>5, <1>7, <1>12, <3>1
  <2>2. w[1] \in Lthread
    BY <1>2, <1>6, <2>1, QueuesHold
  <2>3. /\ sendq' = Dequeued(sendq, {w[1]}) /\ {w[1]} \in SUBSET Lthread
        /\ \A r \in Lthread \ {w[1]} : Waiting(r) => sel'[r] = sel[r]
    BY <1>6, <2>1, <2>2, ServeFrame
  <2>4. CASE d # c
    <3>1. queue'[d] = queue[d] /\ taken'[d] = taken[d]
      BY <1>8, <2>4
    <3> QED BY <2>3, <3>1, Shrinks
  <2>5. CASE d = c
    <3>1. u = Asked(c)[1]
      <4>1. 1 \in DOMAIN sendq[c]
        <5>1. \A x \in Seq(Wait) : x # <<>> => 1 \in DOMAIN x
          OBVIOUS
        <5> QED BY <2>1, <5>1, Zenon
      <4>2. Asked(c)[1] = sel[sendq[c][1][1]].msgs[sendq[c][1][2]]
        BY <4>1 DEF Asked
      <4> QED BY <2>1, <4>2
    <3>2. PICK p \in Lthread : p = w[1]
      BY <2>2
    <3>3. /\ Asked(c)' \in Seq(Val) /\ u \in Val
          /\ Service!Without(Offered[c], Withdrawn({p}, u)) = queue[c] \o (<<u>> \o Asked(c)')
          /\ Withdrawn({p}, u) \in SUBSET Val
      <4>1. sendq' = Dequeued(sendq, {p}) /\ \A r \in Lthread \ {p} : Waiting(r) => sel'[r] = sel[r]
        BY <2>3, <3>2
      <4>2. sendq[c] # <<>> /\ sendq[c][1][1] = p
        BY <2>1, <3>2
      <4> QED BY <1>2, <3>1, <4>1, <4>2, HeadRemains
    <3>4. PICK a \in Seq(Val) : a = Asked(c)'
      BY <3>3
    <3>5. PICK rest : rest = q \o (<<u>> \o a)
      OBVIOUS
    <3>6. /\ rest # <<>>
          /\ q # <<>> => Head(rest) = Head(q) /\ Tail(rest) = (Tail(q) \o <<u>>) \o a
          /\ q = <<>> => Head(rest) = u /\ Tail(rest) = <<>> \o a
      <4>1. u \in Val
        BY <3>3
      <4>2. HeadOff(rest, q, u, a)
        BY ONLY <3>5, <4>1, q \in Seq(Val), a \in Seq(Val), Spliced
      <4> QED BY <4>2, Zenon DEF HeadOff
    <3>7. Offered'[c] = Tail(rest) /\ taken'[c] = Append(taken[c], Head(rest))
      <4>1. CASE q # <<>>
        <5>1. queue'[c] = Tail(q) \o <<u>> /\ taken'[c] = Append(taken[c], Head(q))
          BY <1>8, <1>9, <1>12, <4>1 DEF Refilled
        <5> QED BY <1>10, <3>4, <3>6, <4>1, <5>1
      <4>2. CASE q = <<>>
        <5>1. queue'[c] = <<>> /\ taken'[c] = Append(taken[c], u)
          BY <1>8, <1>9, <1>12, <4>2
        <5> QED BY <1>10, <3>4, <3>6, <4>2, <5>1
      <4> QED BY <4>1, <4>2
    <3>8. Service!Without(Offered[c], Withdrawn({p}, u)) = rest
      BY <1>9, <3>3, <3>4, <3>5
    <3> QED BY <1>2, <2>5, <3>3, <3>6, <3>7, <3>8, Takes
  <2> QED BY <2>4, <2>5
<1> QED BY <1>11, <1>12

(* Blocking adds the values of the caller behind all others.               *)
LEMMA BlockStep ==
  ASSUME IInv, NEW p \in Lthread, pc[p] = "idle", NEW s, GoodCall(s), Block(p, s), NEW c \in Chan
  PROVE  Service!Step(c)
<1> DEFINE M == {i \in WIdx(s) : s.chans[i] = c}
           n == Cardinality(M)
           o == InOrder(M)
           l == Len(sendq[c])
           more == [k \in 1..n |-> s.msgs[o[k]]]
<1>0. /\ sendq[c] \in Seq(Wait) /\ DOMAIN sendq[c] = 1..l /\ l \in Nat
      /\ Asked(c) \in Seq(Val) /\ Len(Asked(c)) = l /\ queue[c] \in Seq(Val)
      /\ Offered[c] = queue[c] \o Asked(c)
  BY AskedIs
<1>1. s \in Sel /\ \A i \in WIdx(s) : s.msgs[i] \in Val
  BY DEF GoodCall
<1>2. M \in SUBSET Nat /\ IsFiniteSet(M)
  <2>1. WIdx(s) \in SUBSET (1..LTHR_SEL_CHANS)
    BY <1>1, SelFacts
  <2>2. M \in SUBSET (1..8) /\ IsFiniteSet(1..8)
    BY <2>1, UpTo DEF LTHR_SEL_CHANS
  <2> HIDE DEF M
  <2>3. M \in SUBSET Nat
    BY <2>2
  <2> QED BY <2>2, <2>3, FS_Subset
<1>3. n \in Nat /\ o \in [1..n -> M]
  <2> HIDE DEF M
  <2> QED BY <1>2, InOrderIs
<1>4. /\ sendq'[c] = sendq[c] \o [k \in 1..n |-> <<p, o[k]>>]
      /\ queue' = queue /\ taken' = taken
  BY DEF Block, Queued
<1>5. \A k \in 1..n : o[k] \in WIdx(s)
  BY <1>3
<1>6. sel'[p] = s /\ \A q \in Lthread \ {p} : sel'[q] = sel[q]
  <2>1. sel \in [Lthread -> Sel]
    BY DEF IInv, TypeOK
  <2> QED BY <2>1 DEF Block
<1> HIDE DEF M, n, o, l
<1>7. more \in Seq(Val) /\ Len(more) = n
  <2>1. \A k \in 1..n : s.msgs[o[k]] \in Val
    BY <1>1, <1>5
  <2> QED BY <1>3, <2>1
<1>8. /\ DOMAIN sendq'[c] = 1..(l + n)
      /\ \A k \in 1..l : sendq'[c][k] = sendq[c][k]
      /\ \A k \in 1..n : sendq'[c][l + k] = <<p, o[k]>>
  <2>1. PICK r : r = [k \in 1..n |-> <<p, o[k]>>]
    OBVIOUS
  <2>2. r \in Seq(Wait) /\ Len(r) = n /\ \A k \in 1..n : r[k] = <<p, o[k]>>
    <3>1. WIdx(s) \in SUBSET (1..LTHR_SEL_CHANS)
      BY <1>1, SelFacts
    <3>2. \A k \in 1..n : <<p, o[k]>> \in Wait
      BY <1>5, <3>1 DEF Wait
    <3> QED BY <1>3, <2>1, <3>2
  <2>3. PICK b : b = sendq[c]
    OBVIOUS
  <2>4. b \in Seq(Wait) /\ Len(b) = l
    BY <1>0, <2>3 DEF l
  <2>5. PICK x : x = b \o r
    OBVIOUS
  <2>6. /\ x \in Seq(Wait) /\ Len(x) = l + n
        /\ \A k \in 1..(l + n) : x[k] = IF k <= l THEN b[k] ELSE r[k - l]
    BY <2>2, <2>4, <2>5, ConcatProperties
  <2>7. DOMAIN x = 1..(l + n)
    BY <2>6
  <2>8. \A k \in 1..l : k \in 1..(l + n) /\ k <= l
    BY <1>0, <1>3
  <2>9. \A k \in 1..n : l + k \in 1..(l + n) /\ ~(l + k <= l) /\ (l + k) - l = k
    BY <1>0, <1>3
  <2>10. sendq'[c] = x
    BY <1>4, <2>1, <2>3, <2>5
  <2> QED BY <2>2, <2>3, <2>6, <2>7, <2>8, <2>9, <2>10
<1>9. Asked(c)' = Asked(c) \o more
  <2>1. Asked(c)' = [k \in 1..(l + n) |-> sel'[sendq'[c][k][1]].msgs[sendq'[c][k][2]]]
    BY <1>8 DEF Asked
  <2>2. ASSUME NEW k \in 1..l PROVE sel'[sendq'[c][k][1]].msgs[sendq'[c][k][2]] = Asked(c)[k]
    <3>1. /\ sendq[c][k][1] \in Lthread /\ Waiting(sendq[c][k][1])
          /\ Asked(c)[k] = sel[sendq[c][k][1]].msgs[sendq[c][k][2]]
      BY <1>0, AskedIs
    <3>2. sendq[c][k][1] # p
      BY <3>1 DEF Waiting
    <3> QED BY <1>6, <1>8, <3>1, <3>2
  <2>3. ASSUME NEW k \in 1..n PROVE sel'[sendq'[c][l + k][1]].msgs[sendq'[c][l + k][2]] = more[k]
    BY <1>6, <1>8
  <2>4. PICK a : a = Asked(c)
    OBVIOUS
  <2>5. PICK m : m = more
    OBVIOUS
  <2>6. PICK x : x = Asked(c)'
    OBVIOUS
  <2>7. x = [k \in 1..(l + n) |-> x[k]] /\ (\A k \in 1..l : x[k] = a[k])
    <3>1. \A k \in 1..l : k \in 1..(l + n)
      BY <1>0, <1>3
    <3> QED BY <2>1, <2>2, <2>4, <2>6, <3>1
  <2>8. \A k \in 1..n : x[l + k] = m[k]
    <3>1. \A k \in 1..n : l + k \in 1..(l + n)
      BY <1>0, <1>3
    <3> HIDE DEF more
    <3> QED BY <2>1, <2>3, <2>5, <2>6, <3>1
  <2>9. a \in Seq(Val) /\ Len(a) = l /\ m \in Seq(Val) /\ Len(m) = n
    BY <1>0, <1>7, <2>4, <2>5
  <2>10. /\ a \o m \in Seq(Val) /\ Len(a \o m) = l + n
         /\ \A k \in 1..(l + n) : (a \o m)[k] = IF k <= l THEN a[k] ELSE m[k - l]
    BY <2>9, ConcatProperties
  <2>11. ASSUME NEW k \in 1..(l + n) PROVE x[k] = (a \o m)[k]
    <3>1. CASE k <= l
      <4>1. k \in 1..l
        BY <1>0, <3>1
      <4> QED BY <2>7, <2>10, <3>1, <4>1
    <3>2. CASE k > l
      <4>1. PICK j \in 1..n : j = k - l
        BY <1>0, <1>3, <3>2
      <4>2. k = l + j /\ ~(k <= l)
        BY <1>0, <3>2, <4>1
      <4> QED BY <2>8, <2>10, <4>1, <4>2
    <3>3. k <= l \/ k > l
      BY <1>0, <1>3
    <3> QED BY <3>1, <3>2, <3>3
  <2>12. a \o m = [k \in 1..(l + n) |-> (a \o m)[k]]
    <3>1. PICK y : y = a \o m
      OBVIOUS
    <3>2. y \in Seq(Val) /\ Len(y) = l + n
      BY <2>10, <3>1
    <3>3. l + n \in Nat
      BY <1>0, <1>3
    <3>4. y = [k \in 1..(l + n) |-> y[k]]
      BY <3>2, <3>3
    <3> QED BY <3>1, <3>4
  <2>13. x = a \o m
    BY <2>7, <2>11, <2>12
  <2> QED BY <2>4, <2>5, <2>6, <2>13
<1> HIDE DEF more
<1>10. /\ Offered[c] \in Seq(Val) /\ Service!Without(Offered[c], {}) = Offered[c]
       /\ Offered'[c] = queue'[c] \o Asked(c)' /\ {} \in SUBSET Val
  BY AllRemains
<1>11. Offered'[c] = Offered[c] \o more
  <2>1. (queue[c] \o Asked(c)) \o more = queue[c] \o (Asked(c) \o more)
    <3>1. PICK q, a, m : q = queue[c] /\ a = Asked(c) /\ m = more
      OBVIOUS
    <3>2. q \in Seq(Val)
      BY <1>0, <3>1
    <3>3. a \in Seq(Val)
      BY <1>0, <3>1
    <3>4. m \in Seq(Val)
      BY <1>7, <3>1
    <3>5. (q \o a) \o m = q \o (a \o m)
      BY ONLY <3>2, <3>3, <3>4, ConcatAssociative
    <3> QED BY <3>1, <3>5
  <2> QED BY <1>0, <1>4, <1>9, <1>10, <2>1
<1>12. taken'[c] = taken[c]
  BY <1>4
<1> QED BY <1>7, <1>10, <1>11, <1>12, Offers

(* What a call of chan_block_select_ does, as far as the service goes.     *)
LEMMA Branches ==
  ASSUME NEW p \in Lthread, NEW s, NEW wait, chan_block_select_(p, s, wait), GoodCall(s)
  PROVE  \/ UNCHANGED <<queue, sendq, taken, sel>>
         \/ \E i \in WIdx(s) : CanSend(s.chans[i]) /\ chan_try_send(s, i)
         \/ \E i \in RIdx(s) : chan_try_recv(s, i)
         \/ Block(p, s)
<1> DEFINE canW == {i \in WIdx(s) : CanSend(s.chans[i])}
           canR == {i \in RIdx(s) : CanRecv(s.chans[i])}
<1>1. \/ aborted' = TRUE /\ UNCHANGED <<cvars, pc, sel, hvars>>
      \/ canW # {} /\ chan_try_send(s, Min(canW))
      \/ canW = {} /\ canR # {} /\ chan_try_recv(s, Min(canR))
      \/ SendReturns(s, None) /\ UNCHANGED <<cvars, pvars, taken, returned>>
      \/ canW = {} /\ canR = {} /\ Block(p, s)
  BY Zenon DEF chan_block_select_
<1>2. canW \in SUBSET Nat /\ canR \in SUBSET Nat
  <2>1. s \in Sel
    BY DEF GoodCall
  <2> QED BY <2>1, SelFacts DEF LTHR_SEL_CHANS
<1>3. /\ canW # {} => Min(canW) \in canW
      /\ canR # {} => Min(canR) \in canR
  <2> HIDE DEF canW, canR
  <2> QED BY <1>2, MinNat
<1>4. /\ \A i \in canW : i \in WIdx(s) /\ CanSend(s.chans[i])
      /\ \A i \in canR : i \in RIdx(s)
  OBVIOUS
<1>5. /\ UNCHANGED <<cvars, pc, sel, hvars>> => UNCHANGED <<queue, sendq, taken, sel>>
      /\ UNCHANGED <<cvars, pvars, taken, returned>> => UNCHANGED <<queue, sendq, taken, sel>>
  BY DEF cvars, pvars, hvars
<1> HIDE DEF canW, canR
<1> QED BY <1>1, <1>3, <1>4, <1>5

(* Every step of chan.c is a step of the service.                          *)
LEMMA NextStep ==
  ASSUME IInv, [Next]_vars
  PROVE  [Service!Next]_<<Offered, taken>>
<1>0. TypeOK /\ QueuesOK /\ ReadyOK /\ FreshOK /\ sel \in [Lthread -> Sel]
  BY DEF IInv, TypeOK
<1>1. CASE UNCHANGED vars
  <2>1. queue' = queue /\ sendq' = sendq /\ sel' = sel /\ taken' = taken
    BY <1>1 DEF vars, cvars, pvars, hvars
  <2> QED BY <2>1 DEF Offered
<1>2. ASSUME NEW c \in Chan, UNCHANGED <<queue, sendq, taken>>,
             \A q \in Lthread : Waiting(q) => sel'[q] = sel[q]
      PROVE  Service!Step(c)
  <2>1. Asked(c)' = Asked(c)
    BY <1>2, SameAsked
  <2> QED BY <1>2, <2>1, Untouched
<1>3. ASSUME NEW c \in Chan, NEW P \in SUBSET Lthread, sel_remove_all_chans(P),
             UNCHANGED <<queue, taken>>, \A q \in Lthread \ P : sel'[q] = sel[q]
      PROVE  Service!Step(c)
  <2>1. sendq' = Dequeued(sendq, P)
    BY <1>3 DEF sel_remove_all_chans
  <2> QED BY <1>3, <2>1, Shrinks
<1>4. CASE Next
  <2> SUFFICES ASSUME NEW d \in Chan PROVE Service!Step(d)
    BY DEF Service!Next
  <2>1. PICK p \in Lthread : Step(p)
    BY <1>4 DEF Next
  <2>2. ASSUME NEW w \in Seq(Chan), NEW r \in Seq(Chan), Len(w) + Len(r) <= LTHR_SEL_CHANS, NEW wait,
               chan_block_select_(p, Selector(w, r, None), wait)
        PROVE  Service!Step(d)
    <3>1. PICK s : s = Selector(w, r, None)
      OBVIOUS
    <3>2. chan_block_select_(p, s, wait)
      BY <2>2, <3>1
    <3>3. pc[p] = "idle" /\ \A i \in WIdx(s) : s.msgs[i] \in Val
      BY <3>2 DEF chan_block_select_
    <3>4. GoodCall(s)
      BY <1>0, <2>2, <3>1, <3>3, SelectorGood
    <3>5. \/ UNCHANGED <<queue, sendq, taken, sel>>
          \/ \E i \in WIdx(s) : CanSend(s.chans[i]) /\ chan_try_send(s, i)
          \/ \E i \in RIdx(s) : chan_try_recv(s, i)
          \/ Block(p, s)
      BY <3>2, <3>4, Branches
    <3>6. CASE UNCHANGED <<queue, sendq, taken, sel>>
      BY <1>2, <3>6
    <3> QED BY <3>3, <3>4, <3>5, <3>6, SendStep, RecvStep, BlockStep
  <2>3. ASSUME NEW c \in Chan, chan_send(p, c) \/ chan_send_noblock(p, c) PROVE Service!Step(d)
    <3>1. <<c>> \in Seq(Chan) /\ <<>> \in Seq(Chan) /\ Len(<<c>>) + Len(<<>>) <= LTHR_SEL_CHANS
      BY DEF LTHR_SEL_CHANS
    <3>2. \E wait \in BOOLEAN : chan_block_select_(p, Selector(<<c>>, <<>>, None), wait)
      BY <2>3 DEF chan_send, chan_send_noblock
    <3> QED BY <2>2, <3>1, <3>2
  <2>4. ASSUME NEW c \in Chan, chan_recv(p, c) PROVE Service!Step(d)
    <3>1. <<c>> \in Seq(Chan) /\ <<>> \in Seq(Chan) /\ Len(<<>>) + Len(<<c>>) <= LTHR_SEL_CHANS
      BY DEF LTHR_SEL_CHANS
    <3>2. chan_block_select_(p, Selector(<<>>, <<c>>, None), TRUE)
      BY <2>4 DEF chan_recv
    <3> QED BY <2>2, <3>1, <3>2
  <2>5. ASSUME NEW a \in SelectArgs, NEW wait \in BOOLEAN, chan_select(p, a, wait)
        PROVE  Service!Step(d)
    <3>1. a[1] \in Seq(Chan) /\ a[2] \in Seq(Chan) /\ Len(a[1]) + Len(a[2]) <= LTHR_SEL_CHANS
      BY ChanAssumption
    <3>2. chan_block_select_(p, Selector(a[1], a[2], sel[p].target), wait)
      BY <2>5 DEF chan_select
    <3>3. pc[p] = "idle"
      BY <3>2 DEF chan_block_select_
    <3>4. sel[p].target = None
      BY <1>0, <3>3 DEF ReadyOK
    <3> QED BY <2>2, <3>1, <3>2, <3>4
  <2>6. ASSUME NEW c \in Chan, chan_close(p, c) PROVE Service!Step(d)
    <3>1. sel_remove_all_chans(Woken(c)) /\ queue' = queue /\ taken' = taken
      BY <2>6 DEF chan_close, hvars
    <3>2. \A q \in Lthread \ Woken(c) : sel'[q] = sel[q]
      BY <2>6 DEF chan_close
    <3>3. Woken(c) \in SUBSET Lthread
      BY DEF Woken
    <3> QED BY <1>3, <3>1, <3>2, <3>3
  <2>7. ASSUME NEW c \in Chan, chan_dispose(p, c) PROVE Service!Step(d)
    <3>1. UNCHANGED <<queue, sendq, taken, sel>>
      BY <2>7 DEF chan_dispose, pvars, hvars
    <3> QED BY <1>2, <3>1
  <2>8. CASE WakeUp(p)
    <3>1. pc[p] = "ready" /\ UNCHANGED <<queue, sendq, taken>>
      BY <2>8 DEF WakeUp, cvars
    <3>2. \A q \in Lthread \ {p} : sel'[q] = sel[q]
      BY <1>0, <2>8 DEF WakeUp
    <3>3. \A q \in Lthread : Waiting(q) => sel'[q] = sel[q]
      BY <3>1, <3>2 DEF Waiting
    <3> QED BY <1>2, <3>1, <3>3
  <2>9. CASE Expire(p)
    <3>1. sel_remove_all_chans({p}) /\ queue' = queue /\ taken' = taken
      BY <2>9 DEF Expire
    <3>2. (\A q \in Lthread \ {p} : sel'[q] = sel[q]) /\ {p} \in SUBSET Lthread
      BY <1>0, <2>9 DEF Expire
    <3> QED BY <1>3, <3>1, <3>2
  <2> QED BY <2>1, <2>3, <2>4, <2>5, <2>6, <2>7, <2>8, <2>9 DEF Step
<1> QED BY <1>1, <1>4

(* chan.c implements ChanService: through buffer, blocked senders, direct  *)
(* hand-over, timeouts, chan_close and select alike, the values of a       *)
(* channel reach its receivers in the order in which they were offered,    *)
(* each at most once, and a withdrawn value reaches none.                  *)
THEOREM ChanRefines == Spec => IsChanService
<1>1. Init => Service!Init
  <2> SUFFICES ASSUME Init PROVE Service!Init
    OBVIOUS
  <2>1. \A c \in Chan : queue[c] = <<>> /\ sendq[c] = <<>>
    BY DEF Init
  <2>2. \A c \in Chan : queue[c] \o Asked(c) = <<>>
    BY <2>1, NoneAsked
  <2>3. Offered = [c \in Chan |-> queue[c] \o Asked(c)]
    BY DEF Offered, Asked
  <2>4. Offered = [c \in Chan |-> <<>>]
    BY <2>2, <2>3
  <2> QED BY <2>4 DEF Init, Service!Init
<1>2. IInv /\ [Next]_vars => [Service!Next]_<<Offered, taken>>
  BY NextStep
<1> QED BY <1>1, <1>2, Invariance, PTL DEF Spec, IsChanService, Service!Spec
=============================================================================
