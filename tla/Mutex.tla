------------------------------- MODULE Mutex -------------------------------
(***************************************************************************)
(* lthread_mutex of lthread.c: a reentrant lock built on a condition       *)
(* variable.  Lthreads of one scheduler run in turns, so a call is one     *)
(* step up to lthread_cond_wait.  Which lthread runs next is left open:    *)
(* the order of the ready queue is not relied on here.                     *)
(***************************************************************************)
EXTENDS Integers, Tailq

CONSTANTS Locker,     \* lthreads
          MaxDepth    \* bound: nested locks of one lthread

ASSUME MutexAssumption == MaxDepth \in Nat \ {0}

VARIABLES
  locked, holder,     \* m->locked, m->lthread
  blocked_lthreads,   \* m->c
  mpc,                \* per lthread: "out", "blocked" in lock, "ready" in lock
  depth               \* per lthread: locks it was given and has not given back

mutex_vars == <<locked, holder, blocked_lthreads, mpc, depth>>

Nobody == "nobody"

(* lthread_mutex_create.                                                   *)
MutexInit ==
  /\ locked = 0 /\ holder = Nobody /\ blocked_lthreads = <<>>
  /\ mpc = [l \in Locker |-> "out"] /\ depth = [l \in Locker |-> 0]

lthread_mutex_check == locked = 0

(* The end of lthread_mutex_lock.                                          *)
Acquire(l) ==
  /\ locked' = 1 /\ holder' = l
  /\ depth' = [depth EXCEPT ![l] = 1]
  /\ mpc' = [mpc EXCEPT ![l] = "out"]

(* lthread_cond_wait with a timeout of 3 s.                                *)
CondWait(l, queue) ==
  /\ blocked_lthreads' = Append(queue, l)
  /\ mpc' = [mpc EXCEPT ![l] = "blocked"]
  /\ UNCHANGED <<locked, holder, depth>>

(* Fault: `if' instead of `while'.                                         *)
Retest_Takes(l, queue) == Acquire(l) /\ blocked_lthreads' = queue

(* while (m->locked) ..., with the condition variable's queue as it is.    *)
Retest(l, queue) ==
  \/ ~lthread_mutex_check /\ CondWait(l, queue)
  \/ lthread_mutex_check /\ Acquire(l) /\ blocked_lthreads' = queue

lthread_mutex_lock(l) ==
  /\ mpc[l] = "out"
  /\ \/ /\ locked > 0 /\ holder = l
        /\ depth[l] < MaxDepth
        /\ locked' = locked + 1
        /\ depth' = [depth EXCEPT ![l] = @ + 1]
        /\ UNCHANGED <<holder, blocked_lthreads, mpc>>
     \/ ~(locked > 0 /\ holder = l) /\ Retest(l, blocked_lthreads)

(* lthread_cond_wait returns after a broadcast.                            *)
Woken(l) == mpc[l] = "ready" /\ Retest(l, blocked_lthreads)

(* The timer of lthread_cond_wait fires: the scheduler resumes the lthread *)
(* at once, which unlinks itself and tests again.                          *)
Slice(l) ==
  /\ mpc[l] = "blocked"
  /\ Retest(l, TailqRemove(blocked_lthreads, l))

(* Fault: only the first waiter is told.                                   *)
Broadcast_Signal ==
  LET first == {blocked_lthreads[i] : i \in 1..Min({1, Len(blocked_lthreads)})}
  IN  /\ blocked_lthreads' = SubSeq(blocked_lthreads, 2, Len(blocked_lthreads))
      /\ mpc' = [l \in Locker |-> IF l \in first THEN "ready" ELSE mpc[l]]

Broadcast ==
  /\ blocked_lthreads' = <<>>
  /\ mpc' = [l \in Locker |-> IF mpc[l] = "blocked" THEN "ready" ELSE mpc[l]]

(* Contract: only the lthread that holds the lock gives it back.  The code *)
(* prints a message for any other and carries the call out.                *)
lthread_mutex_unlock(l) ==
  /\ mpc[l] = "out"
  /\ \/ locked = 0 /\ UNCHANGED mutex_vars
     \/ /\ locked > 0 /\ holder = l
        /\ locked' = locked - 1
        /\ depth' = [depth EXCEPT ![l] = @ - 1]
        /\ Broadcast
        /\ UNCHANGED holder

MutexNext == \E l \in Locker :
          \/ lthread_mutex_lock(l) \/ lthread_mutex_unlock(l)
          \/ Woken(l) \/ Slice(l)

MutexSpec == MutexInit /\ [][MutexNext]_mutex_vars

MutexTypeOK ==
  /\ locked \in 0..MaxDepth /\ holder \in Locker \cup {Nobody}
  /\ blocked_lthreads \in Seq(Locker)
  /\ mpc \in [Locker -> {"out", "blocked", "ready"}]
  /\ depth \in [Locker -> 0..MaxDepth]

(* The lock is held by at most one lthread, which is the one m->lthread    *)
(* names, and m->locked counts its nested calls, however the 3 s slices,   *)
(* the broadcasts and the tests of the waiters interleave.                 *)
MutualExclusion ==
  /\ locked > 0 => holder \in Locker
  /\ \A l \in Locker : depth[l] = IF holder = l THEN locked ELSE 0

(* While the lock is free nobody is left blocked for it (each waiter is on *)
(* its way to test again), and a blocked lthread is in the condition       *)
(* variable's queue exactly once.                                          *)
NobodyWaitsForAFreeLock ==
  /\ lthread_mutex_check => \A l \in Locker : mpc[l] # "blocked"
  /\ Distinct(blocked_lthreads)
  /\ \A l \in Locker : InQ(l, blocked_lthreads) <=> mpc[l] = "blocked"
=============================================================================
