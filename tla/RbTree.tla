------------------------------- MODULE RbTree -------------------------------
(***************************************************************************)
(* The red-black tree of tree.h, which holds the sleeping and the waiting  *)
(* lthreads.  A tree is its links; a node is named by its key.  Left and   *)
(* right are treated alike: each half of a symmetric macro is the same     *)
(* definition with the side as a parameter.                                *)
(***************************************************************************)
EXTENDS Integers, Sequences, FiniteSets, FiniteSetsExt

CONSTANT MaxKey       \* bound on the keys, which are positive

VARIABLES tree, in_tree   \* the links; history: the keys inserted

tree_vars == <<tree, in_tree>>

Node == 1..MaxKey
NIL  == 0
L == "left"
R == "right"
Opp(s) == IF s = L THEN R ELSE L

Init ==
  /\ tree = [root |-> NIL,
             ch  |-> [s \in {L, R} |-> [n \in Node |-> NIL]],
             par |-> [n \in Node |-> NIL],
             red |-> {}]
  /\ in_tree = {}

Red(t, n)   == n # NIL /\ n \in t.red
Black(t, n) == ~Red(t, n)

SetPar(t, n, p) == IF n = NIL THEN t ELSE [t EXCEPT !.par[n] = p]

(* The link from p (or from the head) to old leads to new.                 *)
Relink(t, p, old, new) ==
  IF p = NIL THEN [t EXCEPT !.root = new]
  ELSE [t EXCEPT !.ch[IF t.ch[L][p] = old THEN L ELSE R][p] = new]

(* RB_ROTATE_LEFT(elm) is Rotate(t, elm, L).                               *)
Rotate(t, elm, s) ==
  LET tmp   == t.ch[Opp(s)][elm]
      inner == t.ch[s][tmp]
      t1 == SetPar([t EXCEPT !.ch[Opp(s)][elm] = inner], inner, elm)
      t2 == Relink([t1 EXCEPT !.par[tmp] = t1.par[elm]], t1.par[elm], elm, tmp)
  IN  [t2 EXCEPT !.ch[s][tmp] = elm, !.par[elm] = tmp]

(* RB_SET_BLACKRED                                                         *)
BlackRed(t, black, red) == [t EXCEPT !.red = (@ \ {black}) \cup {red}]

RECURSIVE InsertColor(_, _)

Recolour(t, parent, gparent, uncle) ==
  BlackRed([t EXCEPT !.red = @ \ {uncle}], parent, gparent)

(* RB_INSERT_COLOR                                                         *)
InsertColor(t, elm) ==
  LET parent == t.par[elm]
  IN  IF Black(t, parent) THEN [t EXCEPT !.red = @ \ {t.root}]
      ELSE LET gparent == t.par[parent]
               s       == IF t.ch[L][gparent] = parent THEN L ELSE R
               uncle   == t.ch[Opp(s)][gparent]
               inside  == t.ch[Opp(s)][parent] = elm
               t1 == IF inside THEN Rotate(t, parent, s) ELSE t
               up == IF inside THEN elm ELSE parent
           IN  IF Red(t, uncle)
               THEN InsertColor(Recolour(t, parent, gparent, uncle), gparent)
               ELSE InsertColor(Rotate(BlackRed(t1, up, gparent), gparent, Opp(s)),
                                IF inside THEN parent ELSE elm)

RECURSIVE RemoveColor(_, _, _)

(* The first test of RB_REMOVE_COLOR: the brother of the removed side.     *)
BlackBrother(t, parent, s) ==
  LET tmp == t.ch[Opp(s)][parent]
  IN  IF Red(t, tmp) THEN Rotate(BlackRed(t, tmp, parent), parent, s) ELSE t

(* The last case of RB_REMOVE_COLOR: the brother has a red child.          *)
TakeFromBrother(t, parent, s) ==
  LET tmp  == t.ch[Opp(s)][parent]
      near == t.ch[s][tmp]
      t1 == IF Black(t, t.ch[Opp(s)][tmp])
            THEN Rotate([t EXCEPT !.red = (@ \ {near}) \cup {tmp}], tmp, Opp(s))
            ELSE t
      top == t1.ch[Opp(s)][parent]
      t2 == [t1 EXCEPT !.red = ((@ \ {parent, top}) \ {t1.ch[Opp(s)][top]})
                                 \cup (IF Red(t1, parent) THEN {top} ELSE {})]
      t3 == Rotate(t2, parent, s)
  IN  [t3 EXCEPT !.red = @ \ {t3.root}]

(* RB_REMOVE_COLOR                                                         *)
RemoveColor(t, parent, elm) ==
  IF Red(t, elm) \/ elm = t.root THEN [t EXCEPT !.red = @ \ {elm}]
  ELSE LET s   == IF t.ch[L][parent] = elm THEN L ELSE R
           t1  == BlackBrother(t, parent, s)
           tmp == t1.ch[Opp(s)][parent]
       IN  IF Black(t1, t1.ch[L][tmp]) /\ Black(t1, t1.ch[R][tmp])
           THEN RemoveColor([t1 EXCEPT !.red = @ \cup {tmp}], t1.par[parent], parent)
           ELSE TakeFromBrother(t1, parent, s)

RECURSIVE Down(_, _, _)

(* The last node in direction s below n: RB_MINMAX.                        *)
Down(t, n, s) == IF n = NIL \/ t.ch[s][n] = NIL THEN n ELSE Down(t, t.ch[s][n], s)

(* RB_REMOVE of a node with at most one child: it is unlinked.             *)
Unlink(t, elm) ==
  LET child == IF t.ch[L][elm] = NIL THEN t.ch[R][elm] ELSE t.ch[L][elm]
  IN  Relink(SetPar(t, child, t.par[elm]), t.par[elm], elm, child)

(* Fault: the children of old are not told of their new parent.            *)
TakePlace_KeepsParent(t, elm, old) ==
  Relink([t EXCEPT !.par[elm] = t.par[old],
                   !.ch[L][elm] = t.ch[L][old], !.ch[R][elm] = t.ch[R][old],
                   !.red = IF old \in @ THEN @ \cup {elm} ELSE @ \ {elm}],
         t.par[old], old, elm)

(* The successor elm takes the place, the links and the colour of old.     *)
TakePlace(t, elm, old) ==
  LET t1 == Relink([t EXCEPT !.par[elm] = t.par[old],
                             !.ch[L][elm] = t.ch[L][old],
                             !.ch[R][elm] = t.ch[R][old],
                             !.red = IF old \in @ THEN @ \cup {elm} ELSE @ \ {elm}],
                    t.par[old], old, elm)
  IN  SetPar(SetPar(t1, t.ch[L][old], elm), t.ch[R][old], elm)

(* RB_REMOVE.  The links of the node removed, which the code leaves as     *)
(* they are until RB_SET overwrites them, are cleared at once.             *)
RB_REMOVE(t, old) ==
  LET two   == t.ch[L][old] # NIL /\ t.ch[R][old] # NIL
      elm   == IF two THEN Down(t, t.ch[R][old], L) ELSE old
      child == IF two \/ t.ch[L][elm] = NIL THEN t.ch[R][elm] ELSE t.ch[L][elm]
      parent == IF two /\ t.par[elm] = old THEN elm ELSE t.par[elm]
      t1 == Unlink(t, elm)
      t2 == IF two THEN TakePlace(t1, elm, old) ELSE t1
      t3 == IF Black(t, elm) THEN RemoveColor(t2, parent, child) ELSE t2
  IN  [t3 EXCEPT !.ch[L][old] = NIL, !.ch[R][old] = NIL, !.par[old] = NIL,
                 !.red = @ \ {old}]

RECURSIVE Search(_, _, _)

(* The way down to key k from n: the node with that key, or the last one.  *)
Search(t, n, k) ==
  LET next == t.ch[IF k < n THEN L ELSE R][n]
  IN  IF k = n \/ next = NIL THEN n ELSE Search(t, next, k)

(* Returns NIL, or the node that has the key already.                      *)
RB_FIND(t, k) ==
  IF t.root = NIL \/ Search(t, t.root, k) # k THEN NIL ELSE k

(* RB_INSERT of a key that RB_FIND does not find.                          *)
RB_INSERT(t, elm) ==
  LET parent == IF t.root = NIL THEN NIL ELSE Search(t, t.root, elm)
      t1 == [t EXCEPT !.par[elm] = parent, !.ch[L][elm] = NIL, !.ch[R][elm] = NIL,
                      !.red = @ \cup {elm}]
  IN  InsertColor(IF parent = NIL THEN [t1 EXCEPT !.root = elm]
                  ELSE [t1 EXCEPT !.ch[IF elm < parent THEN L ELSE R][parent] = elm],
                  elm)

RECURSIVE Above(_, _, _)

(* The first ancestor that n is not on side s of.                          *)
Above(t, n, s) ==
  IF t.par[n] # NIL /\ t.ch[s][t.par[n]] = n THEN Above(t, t.par[n], s) ELSE t.par[n]

RB_NEXT(t, n) == IF t.ch[R][n] # NIL THEN Down(t, t.ch[R][n], L) ELSE Above(t, n, R)
RB_PREV(t, n) == IF t.ch[L][n] # NIL THEN Down(t, t.ch[L][n], R) ELSE Above(t, n, L)
RB_MIN(t) == Down(t, t.root, L)
RB_MAX(t) == Down(t, t.root, R)

RECURSIVE NearestFrom(_, _, _, _)

NearestFrom(t, n, k, res) ==
  IF n = NIL THEN res
  ELSE IF k = n THEN n
  ELSE IF k < n THEN NearestFrom(t, t.ch[L][n], k, n)
  ELSE NearestFrom(t, t.ch[R][n], k, res)

RB_NFIND(t, k) == NearestFrom(t, t.root, k, NIL)

RECURSIVE Walk(_, _)

(* RB_FOREACH from n on.                                                   *)
Walk(t, n) == IF n = NIL THEN <<>> ELSE <<n>> \o Walk(t, RB_NEXT(t, n))

Insert(k) ==
  /\ IF RB_FIND(tree, k) = NIL THEN tree' = RB_INSERT(tree, k) ELSE tree' = tree
  /\ in_tree' = in_tree \cup {k}

Remove(k) ==
  /\ k \in in_tree
  /\ tree' = RB_REMOVE(tree, k)
  /\ in_tree' = in_tree \ {k}

Next == \E k \in Node : Insert(k) \/ Remove(k)

Spec == Init /\ [][Next]_tree_vars

TypeOK ==
  /\ tree \in [root : 0..MaxKey, ch : [{L, R} -> [Node -> 0..MaxKey]],
               par : [Node -> 0..MaxKey], red : SUBSET Node]
  /\ in_tree \subseteq Node

RECURSIVE BlackHeight(_, _)

(* The number of black nodes on every way down from n, -1 if it differs.   *)
BlackHeight(t, n) ==
  IF n = NIL THEN 0
  ELSE LET l == BlackHeight(t, t.ch[L][n])
           r == BlackHeight(t, t.ch[R][n])
       IN  IF l = -1 \/ l # r THEN -1 ELSE l + (IF Black(t, n) THEN 1 ELSE 0)

(* After every insertion and removal the tree is balanced as red-black     *)
(* trees are: a black root, no red node below a red one, as many black     *)
(* nodes on every way down; and the parent links mirror the child links.   *)
RedBlack ==
  /\ Black(tree, tree.root)
  /\ \A n \in in_tree : Red(tree, n) => Black(tree, tree.par[n])
  /\ BlackHeight(tree, tree.root) # -1
  /\ tree.root # NIL => tree.par[tree.root] = NIL
  /\ \A n \in in_tree, s \in {L, R} :
       tree.ch[s][n] # NIL => tree.par[tree.ch[s][n]] = n

(* Whatever was inserted and removed, the walks and searches the scheduler *)
(* makes (RB_MIN, RB_FIND, RB_FOREACH and the others) see the keys of a    *)
(* sorted set: a sleeper or a waiter never gets out of reach.              *)
IsSortedSet ==
  LET Above_(k) == {n \in in_tree : n > k}
      Below_(k) == {n \in in_tree : n < k}
      Least(S) == IF S = {} THEN NIL ELSE Min(S)
      Most(S)  == IF S = {} THEN NIL ELSE Max(S)
  IN  /\ Walk(tree, RB_MIN(tree)) =
           [i \in 1..Cardinality(in_tree) |->
              CHOOSE n \in in_tree : Cardinality(Below_(n)) = i - 1]
      /\ RB_MIN(tree) = Least(in_tree) /\ RB_MAX(tree) = Most(in_tree)
      /\ \A n \in in_tree : /\ RB_NEXT(tree, n) = Least(Above_(n))
                            /\ RB_PREV(tree, n) = Most(Below_(n))
      /\ \A k \in Node : /\ RB_FIND(tree, k) = IF k \in in_tree THEN k ELSE NIL
                         /\ RB_NFIND(tree, k) = Least({n \in in_tree : n >= k})
=============================================================================
