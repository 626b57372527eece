---------------------------- MODULE Tailq_proofs ----------------------------
(* What the list operations do to membership and distinctness.             *)
EXTENDS Tailq, TLAPS

(* TAILQ_INSERT_TAIL adds its element and keeps the list free of           *)
(* duplicates if the element was not in it.                                *)
LEMMA QAppend ==
  ASSUME NEW S, NEW q \in Seq(S), NEW x \in S
  PROVE  /\ Append(q, x) \in Seq(S)
         /\ \A y : InQ(y, Append(q, x)) <=> InQ(y, q) \/ y = x
         /\ Distinct(q) /\ ~InQ(x, q) => Distinct(Append(q, x))
<1>1. \A y : InQ(y, Append(q, x)) <=> InQ(y, q) \/ y = x
  <2> SUFFICES ASSUME NEW y PROVE InQ(y, Append(q, x)) <=> InQ(y, q) \/ y = x
    OBVIOUS
  <2>1. InQ(y, q) => InQ(y, Append(q, x))
    BY DEF InQ
  <2>2. InQ(x, Append(q, x))
    <3>1. Append(q, x)[Len(q) + 1] = x /\ Len(q) + 1 \in 1..Len(Append(q, x))
      OBVIOUS
    <3> QED BY <3>1 DEF InQ
  <2>3. InQ(y, Append(q, x)) => InQ(y, q) \/ y = x
    BY DEF InQ
  <2> QED BY <2>1, <2>2, <2>3
<1>2. Distinct(q) /\ ~InQ(x, q) => Distinct(Append(q, x))
  BY DEF InQ, Distinct
<1> QED BY <1>1, <1>2

(* Removing the first element.                                             *)
LEMMA QTail ==
  ASSUME NEW S, NEW q \in Seq(S), q # <<>>
  PROVE  /\ Tail(q) \in Seq(S) /\ Head(q) \in S
         /\ InQ(Head(q), q)
         /\ \A y : InQ(y, Tail(q)) => InQ(y, q)
         /\ \A y : InQ(y, q) => InQ(y, Tail(q)) \/ y = Head(q)
         /\ Distinct(q) => Distinct(Tail(q)) /\ ~InQ(Head(q), Tail(q))
<1>1. Tail(q) \in Seq(S) /\ Head(q) \in S /\ Len(q) \in Nat /\ Len(q) > 0
  OBVIOUS
<1>2. InQ(Head(q), q)
  BY <1>1 DEF InQ
<1>3. \A i \in 1..Len(Tail(q)) : Tail(q)[i] = q[i + 1] /\ i + 1 \in 1..Len(q)
  OBVIOUS
<1>4. \A y : InQ(y, Tail(q)) => InQ(y, q)
  BY <1>3 DEF InQ
<1>5. \A i \in 2..Len(q) : i - 1 \in 1..Len(Tail(q)) /\ Tail(q)[i - 1] = q[i]
  OBVIOUS
<1>6. ASSUME NEW y, InQ(y, q), y # Head(q) PROVE InQ(y, Tail(q))
  <2>1. PICK i \in 1..Len(q) : q[i] = y
    BY <1>6 DEF InQ
  <2>2. i # 1
    BY <1>1, <1>6, <2>1
  <2>3. i - 1 \in 1..Len(Tail(q)) /\ Tail(q)[i - 1] = y
    BY <1>1, <1>5, <2>1, <2>2
  <2> QED BY <2>3 DEF InQ
<1>7. Distinct(q) => Distinct(Tail(q)) /\ ~InQ(Head(q), Tail(q))
  BY <1>1, <1>3 DEF Distinct, InQ
<1> QED BY <1>1, <1>2, <1>4, <1>6, <1>7

(* Moving a whole list behind another, as lthread_cond_broadcast does.     *)
LEMMA QConcat ==
  ASSUME NEW S, NEW q \in Seq(S), NEW r \in Seq(S)
  PROVE  /\ q \o r \in Seq(S)
         /\ \A y : InQ(y, q \o r) <=> InQ(y, q) \/ InQ(y, r)
         /\ Distinct(q) /\ Distinct(r) /\ (\A y : ~(InQ(y, q) /\ InQ(y, r)))
              => Distinct(q \o r)
<1>1. q \o r \in Seq(S) /\ Len(q \o r) = Len(q) + Len(r)
  OBVIOUS
<1>2. \A i \in 1..Len(q) : (q \o r)[i] = q[i] /\ i \in 1..Len(q \o r)
  OBVIOUS
<1>3. \A i \in 1..Len(r) : (q \o r)[Len(q) + i] = r[i] /\ Len(q) + i \in 1..Len(q \o r)
  OBVIOUS
<1>4. \A i \in 1..Len(q \o r) :
        \/ i \in 1..Len(q) /\ (q \o r)[i] = q[i]
        \/ i - Len(q) \in 1..Len(r) /\ (q \o r)[i] = r[i - Len(q)]
  OBVIOUS
<1>5. \A y : InQ(y, q \o r) <=> InQ(y, q) \/ InQ(y, r)
  <2> SUFFICES ASSUME NEW y PROVE InQ(y, q \o r) <=> InQ(y, q) \/ InQ(y, r)
    OBVIOUS
  <2>1. InQ(y, q) => InQ(y, q \o r)
    BY <1>2 DEF InQ
  <2>2. InQ(y, r) => InQ(y, q \o r)
    BY <1>3 DEF InQ
  <2>3. InQ(y, q \o r) => InQ(y, q) \/ InQ(y, r)
    BY <1>4 DEF InQ
  <2> QED BY <2>1, <2>2, <2>3
<1>6. ASSUME Distinct(q), Distinct(r), \A y : ~(InQ(y, q) /\ InQ(y, r)),
             NEW i \in 1..Len(q \o r), NEW j \in 1..Len(q \o r),
             (q \o r)[i] = (q \o r)[j]
      PROVE  i = j
  <2>1. CASE i \in 1..Len(q) /\ j \in 1..Len(q)
    BY <1>2, <1>6, <2>1 DEF Distinct
  <2>2. CASE i - Len(q) \in 1..Len(r) /\ j - Len(q) \in 1..Len(r)
    <3>1. (q \o r)[i] = r[i - Len(q)] /\ (q \o r)[j] = r[j - Len(q)]
      BY <1>3, <2>2
    <3>2. i - Len(q) = j - Len(q)
      BY <3>1, <1>6, <2>2 DEF Distinct
    <3> QED BY <3>2
  <2>3. CASE i \in 1..Len(q) /\ j - Len(q) \in 1..Len(r)
    <3>1. q[i] = r[j - Len(q)]
      BY <1>6, <1>2, <1>3, <2>3
    <3>2. InQ(q[i], q) /\ InQ(q[i], r)
      BY <3>1, <2>3 DEF InQ
    <3> QED BY <3>2, <1>6
  <2>4. CASE j \in 1..Len(q) /\ i - Len(q) \in 1..Len(r)
    <3>1. q[j] = r[i - Len(q)]
      BY <1>6, <1>2, <1>3, <2>4
    <3>2. InQ(q[j], q) /\ InQ(q[j], r)
      BY <3>1, <2>4 DEF InQ
    <3> QED BY <3>2, <1>6
  <2> QED BY <1>4, <2>1, <2>2, <2>3, <2>4
<1>7. Distinct(q) /\ Distinct(r) /\ (\A y : ~(InQ(y, q) /\ InQ(y, r))) => Distinct(q \o r)
  BY <1>6 DEF Distinct
<1> QED BY <1>1, <1>5, <1>7

(* TAILQ_REMOVE takes out its element and no other.                        *)
LEMMA QRemove ==
  ASSUME NEW S, NEW q \in Seq(S), NEW x \in S
  PROVE  /\ TailqRemove(q, x) \in Seq(S)
         /\ \A y : InQ(y, TailqRemove(q, x)) => InQ(y, q)
         /\ \A y : InQ(y, q) /\ y # x => InQ(y, TailqRemove(q, x))
         /\ Distinct(q) => Distinct(TailqRemove(q, x)) /\ ~InQ(x, TailqRemove(q, x))
<1>1. CASE ~InQ(x, q)
  BY <1>1 DEF TailqRemove
<1>2. CASE InQ(x, q)
  <2> DEFINE p == CHOOSE i \in 1..Len(q) : q[i] = x
             r == RemoveAt(q, p)
  <2>1. p \in 1..Len(q) /\ q[p] = x
    BY <1>2 DEF InQ
  <2>2. TailqRemove(q, x) = r
    BY <1>2 DEF TailqRemove
  <2> HIDE DEF p
  <2>3. /\ r \in Seq(S) /\ Len(r) = Len(q) - 1
        /\ \A i \in 1..Len(r) : r[i] = IF i < p THEN q[i] ELSE q[i + 1]
    <3> DEFINE a == SubSeq(q, 1, p - 1)
               b == SubSeq(q, p + 1, Len(q))
    <3>1. /\ a \in Seq(S) /\ Len(a) = p - 1
          /\ \A i \in 1..(p - 1) : a[i] = q[i]
      BY <2>1
    <3>2. b \in Seq(S) /\ Len(b) = Len(q) - p
      BY <2>1
    <3>3. \A i \in 1..(Len(q) - p) : b[i] = q[p + i]
      BY <2>1
    <3>4. r = a \o b
      BY DEF RemoveAt
    <3> HIDE DEF a, b, r
    <3>5. r \in Seq(S) /\ Len(r) = Len(q) - 1
      <4>1. Len(q) \in Nat /\ Len(a) + Len(b) = Len(q) - 1
        BY <2>1, <3>1, <3>2
      <4>2. a \in Seq(S) /\ b \in Seq(S)
        BY <3>1, <3>2
      <4>3. a \o b \in Seq(S) /\ Len(a \o b) = Len(a) + Len(b)
        BY <4>2
      <4> QED BY <4>1, <4>3, <3>4
    <3>6. ASSUME NEW i \in 1..Len(r), i < p PROVE r[i] = q[i]
      BY <2>1, <3>1, <3>2, <3>4, <3>5, <3>6
    <3>7. ASSUME NEW i \in 1..Len(r), ~(i < p) PROVE r[i] = q[i + 1]
      <4>1. r[i] = b[i - (p - 1)]
        BY <2>1, <3>1, <3>2, <3>4, <3>5, <3>7
      <4>2. i - (p - 1) \in 1..(Len(q) - p) /\ p + (i - (p - 1)) = i + 1
        BY <2>1, <3>5, <3>7
      <4> QED BY <4>1, <4>2, <3>3
    <3> QED BY <3>5, <3>6, <3>7
  <2> HIDE DEF r
  <2>4. \A y : InQ(y, r) => InQ(y, q)
    <3> SUFFICES ASSUME NEW y, InQ(y, r) PROVE InQ(y, q)
      OBVIOUS
    <3>1. PICK i \in 1..Len(r) : r[i] = y
      BY DEF InQ
    <3>2. i \in 1..Len(q) /\ i + 1 \in 1..Len(q)
      BY <2>3
    <3>3. q[i] = y \/ q[i + 1] = y
      BY <2>3, <3>1
    <3> QED BY <3>2, <3>3 DEF InQ
  <2>5. ASSUME NEW y, InQ(y, q), y # x PROVE InQ(y, r)
    <3>1. PICK i \in 1..Len(q) : q[i] = y
      BY <2>5 DEF InQ
    <3>2. CASE i < p
      BY <3>1, <3>2, <2>1, <2>3 DEF InQ
    <3>3. CASE i > p
      <4>1. i - 1 \in 1..Len(r) /\ r[i - 1] = y
        BY <3>1, <3>3, <2>1, <2>3
      <4> QED BY <4>1 DEF InQ
    <3> QED BY <3>1, <3>2, <3>3, <2>1, <2>5
  <2>6. ASSUME Distinct(q) PROVE Distinct(r) /\ ~InQ(x, r)
    <3> DEFINE at(i) == IF i < p THEN i ELSE i + 1
    <3>1. \A i \in 1..Len(r) : at(i) \in 1..Len(q) /\ r[i] = q[at(i)] /\ at(i) # p
      BY <2>1, <2>3
    <3>2. \A i, j \in 1..Len(r) : at(i) = at(j) => i = j
      BY <2>1, <2>3
    <3> HIDE DEF at
    <3>3. Distinct(r)
      BY <2>6, <3>1, <3>2 DEF Distinct
    <3>4. ~InQ(x, r)
      BY <2>1, <2>6, <3>1 DEF Distinct, InQ
    <3> QED BY <3>3, <3>4
  <2> QED BY <2>2, <2>3, <2>4, <2>5, <2>6
<1> QED BY <1>1, <1>2
=============================================================================
