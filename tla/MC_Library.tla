----------------------------- MODULE MC_Library -----------------------------
(***************************************************************************)
(* The sequential parts of the library on small instances, in one run: a   *)
(* behaviour is a behaviour of one part, the variables of the others stay  *)
(* as they are.                                                            *)
(***************************************************************************)
EXTENDS Library

VARIABLES
  part,
  tree, in_tree,
  resolvers, look, expected,
  rings, held, moved, calls

tree_vars     == <<tree, in_tree>>
resolver_vars == <<resolvers, look, expected>>
ring_vars     == <<rings, held, moved, calls>>

(* Two iovecs, and three of which the first is empty.                      *)
Region(base, len) == [base |-> base, len |-> len]
SmallIovs == {<<Region(0, 1), Region(1, 2)>>, <<Region(0, 0), Region(0, 2), Region(2, 1)>>}

(* Replies with up to two records: addresses, an alias, an address of      *)
(* another class and one that is too long.                                 *)
Record(type, class, compressed, rdata) ==
  [type |-> type, class |-> class, compressed |-> compressed, rdata |-> rdata]
Records == {Record("A", "IN", TRUE, <<9>>), Record("A", "IN", FALSE, <<8>>),
            Record("CNAME", "IN", TRUE, <<1, 97, 0>>),
            Record("A", "CH", FALSE, <<7>>), Record("A", "IN", TRUE, <<1, 2>>)}

RB == INSTANCE RbTree WITH MaxKey <- 8
RS == INSTANCE Resolver WITH
        Confs <- {<<<<"nameserver", 1>>, <<"search", 7>>, <<"nameserver", 2>>>>},
        Hosts <- {<<97, 98, 46, 99>>, <<97>>},
        Replies <- {[answers |-> s] : s \in BoundedSeq(Records, 2)},
        MaxAsk <- 4
RG == INSTANCE Ringbuf WITH Ring <- {"r1", "r2"}, Capacity <- [r1 |-> 3, r2 |-> 2],
                            Data <- {<<1, 2>>, <<2, 1, 2, 2, 1>>},
                            MaxSize <- 12, MaxCalls <- 4

Parts == {"fifo", "mutex", "clock", "tree", "queues", "kqueue", "socket",
          "resolver", "tcp", "ring", "pool"}

LibraryInit ==
  /\ part \in Parts
  /\ Init /\ MutexInit /\ ClockInit /\ RB!Init /\ QueuesInit /\ KqueueInit
  /\ SocketInit /\ RS!Init /\ TcpInit /\ RG!Init /\ PoolInit

Others(p) ==
  /\ part = p /\ part' = part
  /\ IF p = "fifo" THEN TRUE ELSE UNCHANGED vars
  /\ IF p = "mutex" THEN TRUE ELSE UNCHANGED mutex_vars
  /\ IF p = "clock" THEN TRUE ELSE UNCHANGED clock_vars
  /\ IF p = "tree" THEN TRUE ELSE UNCHANGED tree_vars
  /\ IF p = "queues" THEN TRUE ELSE UNCHANGED queues_vars
  /\ IF p = "kqueue" THEN TRUE ELSE UNCHANGED kqueue_vars
  /\ IF p = "socket" THEN TRUE ELSE UNCHANGED socket_vars
  /\ IF p = "resolver" THEN TRUE ELSE UNCHANGED resolver_vars
  /\ IF p = "tcp" THEN TRUE ELSE UNCHANGED tcp_vars
  /\ IF p = "ring" THEN TRUE ELSE UNCHANGED ring_vars
  /\ IF p = "pool" THEN TRUE ELSE UNCHANGED pool_vars

LibraryNext ==
  \/ Others("fifo") /\ Next
  \/ Others("mutex") /\ MutexNext
  \/ Others("clock") /\ ClockNext
  \/ Others("tree") /\ RB!Next
  \/ Others("queues") /\ QueuesNext
  \/ Others("kqueue") /\ KqueueNext
  \/ Others("socket") /\ SocketNext
  \/ Others("resolver") /\ RS!Next
  \/ Others("tcp") /\ TcpNext
  \/ Others("ring") /\ RG!Next
  \/ Others("pool") /\ PoolNext

LibrarySpec ==
  LibraryInit /\ [][LibraryNext]_<<part, vars, mutex_vars, clock_vars, tree_vars,
    queues_vars, kqueue_vars, socket_vars, resolver_vars, tcp_vars, ring_vars, pool_vars>>

-----------------------------------------------------------------------------
(* tree.h and klib/ringbuf.c: the pointers always spell a balanced search  *)
(* tree with the keys inserted; overwriting or growing, a ring keeps the   *)
(* latest bytes.                                                           *)
ContainersSound ==
  /\ RB!TypeOK /\ RB!RedBlack /\ RB!IsSortedSet
  /\ RG!TypeOK /\ RG!RingKeepsLatest

(* dns_lookup: the query names the host, the address returned is that of   *)
(* the first address record, whatever records and compressed names come    *)
(* before it, and every error path closes the descriptor it opened.        *)
LookupSound ==
  RS!TypeOK /\ RS!QueryNamesHost /\ RS!AddressFromReply /\ RS!SocketsClosed

(* dns_lookup: `retry the next' asks the servers of the list in order.     *)
ServersInTurn == RS!AsksInOrder
=============================================================================
