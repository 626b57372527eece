------------------------------- MODULE MemPool ------------------------------
(***************************************************************************)
(* The object pool of common/mem.c.  Objects are numbered in the order in  *)
(* which they are allocated; any calloc may fail.  total_n, which counts   *)
(* the first round twice and is read by nobody, is left out.               *)
(***************************************************************************)
EXTENDS Integers, Sequences, FiniteSets, SequencesExt

CONSTANTS PoolN,     \* m->n: objects per allocation round
          MaxObj     \* bound: objects allocated in all

ASSUME PoolAssumption == PoolN \in Nat \ {0} /\ MaxObj \in Nat /\ PoolN <= MaxObj

VARIABLES
  chain,             \* m->l: the free objects, first to last
  in_use, freed,     \* the objects handed out, and those given back to free
  lost,              \* the mem_obj nobody has a pointer to any more
  made               \* how many objects were allocated so far

pool_vars == <<chain, in_use, freed, lost, made>>

(* The objects of a round of k, the last one at the head.                  *)
Round(k) == [i \in 1..k |-> made + k + 1 - i]

(* mem_init_pool; without a first round there is no pool.                  *)
PoolInit ==
  /\ chain = [i \in 1..PoolN |-> PoolN + 1 - i]
  /\ made = PoolN /\ in_use = {} /\ freed = {} /\ lost = {}

(* mem_realloc_pool for an empty list, when the first k objects of the     *)
(* round can be allocated: unless that is all of them, those are freed.    *)
(* The next one fails at its mem_obj, or (half) at what the mem_obj is     *)
(* for: it is not on the list yet, and mem_free_pool does not find it.     *)
mem_realloc_pool(k, half) ==
  /\ half => k < PoolN
  /\ made' = made + k + (IF half THEN 1 ELSE 0)
  /\ freed' = IF k < PoolN THEN freed \cup ToSet(Round(k)) ELSE freed
  /\ lost' = IF half THEN lost \cup {made + k + 1} ELSE lost

(* The first free object; NULL when there is none and none can be made.    *)
mem_alloc ==
  \/ /\ chain # <<>>
     /\ in_use' = in_use \cup {Head(chain)} /\ chain' = Tail(chain)
     /\ UNCHANGED <<freed, lost, made>>
  \/ /\ chain = <<>> /\ made + PoolN <= MaxObj
     /\ \E k \in 0..PoolN, half \in BOOLEAN :
          /\ mem_realloc_pool(k, half)
          /\ \/ k < PoolN /\ UNCHANGED <<chain, in_use>>
             \/ /\ k = PoolN
                /\ chain' = Tail(Round(k)) /\ in_use' = in_use \cup {Head(Round(k))}

(* An object goes back to the head of the list of the pool it came from.   *)
MEM_FREE(o) ==
  /\ o \in in_use
  /\ in_use' = in_use \ {o} /\ chain' = <<o>> \o chain
  /\ UNCHANGED <<freed, lost, made>>

(* The free objects are freed; the pool itself and the others stay.        *)
mem_free_pool ==
  /\ freed' = freed \cup ToSet(chain) /\ chain' = <<>>
  /\ UNCHANGED <<in_use, lost, made>>

PoolNext == mem_alloc \/ mem_free_pool \/ \E o \in in_use : MEM_FREE(o)

PoolSpec == PoolInit /\ [][PoolNext]_pool_vars

PoolTypeOK ==
  /\ chain \in Seq(1..MaxObj) /\ made \in 0..MaxObj
  /\ in_use \subseteq 1..MaxObj /\ freed \subseteq 1..MaxObj /\ lost \subseteq 1..MaxObj

(* Rounds that fail half-way included, an object is free, in use or freed, *)
(* never two of these: no two callers hold the same object, and none holds *)
(* one that was freed.  The only ones that are none of these, and leak,    *)
(* are the half-made ones of failed rounds.                                *)
PoolSound ==
  /\ IsInjective(chain)
  /\ ToSet(chain) \cap in_use = {} /\ freed \cap (ToSet(chain) \cup in_use) = {}
  /\ lost \cap (ToSet(chain) \cup in_use \cup freed) = {}
  /\ ToSet(chain) \cup in_use \cup freed \cup lost = 1..made
=============================================================================
