------------------------------ MODULE Library ------------------------------
(***************************************************************************)
(* The sequential parts of the library side by side.  They share nothing:  *)
(* together they are what each of them is alone.                           *)
(***************************************************************************)
EXTENDS Fifo, Queues, MemPool, Mutex, Kqueue, SleepClock, Socket, TcpConn

PartsSpec ==
  /\ Spec /\ QueuesSpec /\ PoolSpec /\ MutexSpec /\ KqueueSpec
  /\ ClockSpec /\ SocketSpec /\ TcpSpec

(* Every variable has its type: no index leaves its buffer, no pointer its *)
(* cells, no counter its range.                                            *)
AllTyped ==
  /\ TypeOK /\ QueuesTypeOK /\ PoolTypeOK /\ MutexTypeOK /\ KqueueTypeOK
  /\ ClockTypeOK /\ SocketTypeOK /\ TcpTypeOK

(* queue.h and mem.c: walked in either direction, the pointers spell lists *)
(* with the elements in their order; the list of free objects leads to no  *)
(* object that somebody holds, and only what a failed round had half made  *)
(* is lost.                                                                *)
ListsSound == IsSequence /\ PoolSound
=============================================================================
