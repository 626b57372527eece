--------------------------- MODULE Library_proofs ---------------------------
(***************************************************************************)
(* Theorems about the sequential parts of the library, for every value of  *)
(* their constants: the mutex, the kqueue poller under the event loop, the *)
(* clock of the sleepers, the connections, and all of them side by side.   *)
(***************************************************************************)
EXTENDS Library, Containers_proofs, Socket_proofs, Tailq_proofs, FiniteSetTheorems

-----------------------------------------------------------------------------
(* The mutex, for any number of lthreads and any nesting                   *)

(* Which lthreads are in a call is all that ties mutual exclusion to the   *)
(* queue: who waits does not hold the lock, so that no test of a waiter    *)
(* meets m->lthread = lt, and nested calls are those of the holder.        *)
WaiterHoldsNothing == \A l \in Locker : mpc[l] # "out" => depth[l] = 0

MutexInv == MutexTypeOK /\ MutualExclusion /\ NobodyWaitsForAFreeLock /\ WaiterHoldsNothing

(* The first test of a waiter and every later one.  queue is the condition *)
(* variable's queue without l.                                             *)
LEMMA RetestStep ==
  ASSUME MutexTypeOK, MutualExclusion, WaiterHoldsNothing,
         NEW l \in Locker, NEW queue \in Seq(Locker), Retest(l, queue), depth[l] = 0,
         ~lthread_mutex_check \/ \A j \in Locker : mpc[j] # "blocked",
         Distinct(queue), ~InQ(l, queue),
         \A j \in Locker \ {l} : InQ(j, queue) <=> mpc[j] = "blocked"
  PROVE  MutexInv'
<1> USE MutexAssumption DEF MutexTypeOK, MutualExclusion, NobodyWaitsForAFreeLock, WaiterHoldsNothing, lthread_mutex_check
<1>1. CASE ~lthread_mutex_check /\ CondWait(l, queue)
  <2>1. /\ Append(queue, l) \in Seq(Locker) /\ Distinct(Append(queue, l))
        /\ \A y : InQ(y, Append(queue, l)) <=> InQ(y, queue) \/ y = l
    BY QAppend
  <2>2. MutexTypeOK'
    BY <1>1, <2>1 DEF CondWait
  <2>3. MutualExclusion' /\ WaiterHoldsNothing'
    BY <1>1 DEF CondWait
  <2>4. NobodyWaitsForAFreeLock'
    BY <1>1, <2>1 DEF CondWait
  <2> QED BY <2>2, <2>3, <2>4 DEF MutexInv
<1>2. CASE lthread_mutex_check /\ Acquire(l) /\ blocked_lthreads' = queue
  <2>1. MutexTypeOK'
    BY <1>2 DEF Acquire
  <2>2. MutualExclusion' /\ WaiterHoldsNothing'
    BY <1>2 DEF Acquire
  <2>3. NobodyWaitsForAFreeLock'
    BY <1>2 DEF Acquire
  <2> QED BY <2>1, <2>2, <2>3 DEF MutexInv
<1> QED BY <1>1, <1>2 DEF Retest

(* Locking, unlocking, a broadcast heard and a time slice that ends keep   *)
(* the invariant.                                                          *)
LEMMA MutexStep ==
  ASSUME MutexInv, [MutexNext]_mutex_vars
  PROVE  MutexInv'
<1> USE MutexAssumption DEF MutexInv
<1>1. ASSUME NEW l \in Locker, lthread_mutex_lock(l) PROVE MutexInv'
  <2>1. CASE /\ locked > 0 /\ holder = l /\ depth[l] < MaxDepth
             /\ locked' = locked + 1 /\ depth' = [depth EXCEPT ![l] = @ + 1]
             /\ UNCHANGED <<holder, blocked_lthreads, mpc>>
    <3>1. mpc[l] = "out" /\ depth[l] = locked
      BY <1>1, <2>1 DEF lthread_mutex_lock, MutualExclusion
    <3> QED BY <2>1, <3>1
      DEF MutexTypeOK, MutualExclusion, NobodyWaitsForAFreeLock, WaiterHoldsNothing, lthread_mutex_check
  <2>2. CASE ~(locked > 0 /\ holder = l) /\ Retest(l, blocked_lthreads)
    <3>1. mpc[l] = "out" /\ depth[l] = 0
      BY <1>1, <2>2 DEF lthread_mutex_lock, MutualExclusion, MutexTypeOK
    <3> QED BY <2>2, <3>1, RetestStep DEF MutexTypeOK, NobodyWaitsForAFreeLock
  <2> QED BY <1>1, <2>1, <2>2 DEF lthread_mutex_lock
<1>2. ASSUME NEW l \in Locker, lthread_mutex_unlock(l) PROVE MutexInv'
  <2>1. CASE UNCHANGED mutex_vars
    BY <2>1 DEF mutex_vars, MutexTypeOK, MutualExclusion, NobodyWaitsForAFreeLock, WaiterHoldsNothing,
                lthread_mutex_check
  <2>2. CASE /\ locked > 0 /\ holder = l /\ locked' = locked - 1
             /\ depth' = [depth EXCEPT ![l] = @ - 1] /\ Broadcast /\ UNCHANGED holder
    <3>1. mpc[l] = "out" /\ depth[l] = locked /\ \A x : ~InQ(x, <<>>)
      BY <1>2, <2>2 DEF lthread_mutex_unlock, MutualExclusion, InQ
    <3>2. MutexTypeOK'
      BY <2>2, <3>1 DEF MutexTypeOK, Broadcast
    <3>3. MutualExclusion' /\ WaiterHoldsNothing'
      BY <2>2, <3>1 DEF MutexTypeOK, MutualExclusion, WaiterHoldsNothing, Broadcast
    <3>4. NobodyWaitsForAFreeLock'
      BY <2>2, <3>1 DEF MutexTypeOK, NobodyWaitsForAFreeLock, Broadcast, Distinct
    <3> QED BY <3>2, <3>3, <3>4
  <2> QED BY <1>2, <2>1, <2>2 DEF lthread_mutex_unlock
<1>3. ASSUME NEW l \in Locker, Woken(l) PROVE MutexInv'
  <2>1. mpc[l] = "ready" /\ depth[l] = 0
    BY <1>3 DEF Woken, WaiterHoldsNothing
  <2> QED BY <1>3, <2>1, RetestStep DEF Woken, MutexTypeOK, NobodyWaitsForAFreeLock
<1>4. ASSUME NEW l \in Locker, Slice(l) PROVE MutexInv'
  <2> DEFINE queue == TailqRemove(blocked_lthreads, l)
  <2>1. mpc[l] = "blocked" /\ depth[l] = 0 /\ Retest(l, queue)
    BY <1>4 DEF Slice, WaiterHoldsNothing
  <2>2. /\ queue \in Seq(Locker) /\ Distinct(queue) /\ ~InQ(l, queue)
        /\ \A j \in Locker \ {l} : InQ(j, queue) <=> InQ(j, blocked_lthreads)
    BY QRemove DEF MutexTypeOK, NobodyWaitsForAFreeLock
  <2> HIDE DEF queue
  <2> QED BY <2>1, <2>2, RetestStep DEF NobodyWaitsForAFreeLock
<1>5. CASE UNCHANGED mutex_vars
  BY <1>5 DEF mutex_vars, MutexTypeOK, MutualExclusion, NobodyWaitsForAFreeLock, WaiterHoldsNothing,
              lthread_mutex_check
<1> HIDE DEF MutexInv
<1> QED BY <1>1, <1>2, <1>3, <1>4, <1>5 DEF MutexNext

(* MutexInv holds throughout.                                                  *)
THEOREM MutexInvariance == MutexSpec => []MutexInv
<1>1. MutexInit => MutexInv
  BY MutexAssumption
     DEF MutexInit, MutexInv, MutexTypeOK, MutualExclusion, NobodyWaitsForAFreeLock,
         WaiterHoldsNothing, lthread_mutex_check, Distinct, InQ
<1>2. MutexInv /\ [MutexNext]_mutex_vars => MutexInv'
  BY MutexStep
<1> QED BY <1>1, <1>2, PTL DEF MutexSpec

(* lthread_mutex: at most one lthread is between lock and unlock, it is    *)
(* the one m->lthread names, and m->locked counts its nested locks.        *)
THEOREM MutualExclusionHolds == MutexSpec => []MutualExclusion
<1>1. MutexInv => MutualExclusion
  BY DEF MutexInv
<1> QED BY MutexInvariance, <1>1, PTL

(* No wakeup is lost: whenever the mutex is free, every lthread that was   *)
(* blocked on it has been told by lthread_mutex_unlock to test again, and  *)
(* the condition variable's queue holds the blocked ones, each once.       *)
THEOREM NobodyWaitsForAFreeLockHolds == MutexSpec => []NobodyWaitsForAFreeLock
<1>1. MutexInv => NobodyWaitsForAFreeLock
  BY DEF MutexInv
<1> QED BY MutexInvariance, <1>1, PTL

-----------------------------------------------------------------------------
(* kqueue, for any descriptors and any LT_MAX_EVENTS                       *)

(* A step keeps the types, whichever clauses the callers keep.             *)
LEMMA KqueueTypeStep ==
  ASSUME KqueueTypeOK, [KqueueNext]_kqueue_vars
  PROVE  KqueueTypeOK'
<1> USE KqueueAssumption DEF KqueueTypeOK, InLoop
<1>1. ASSUME NEW w \in EvKey, Register(w) PROVE KqueueTypeOK'
  <2>1. ToSet(changelist) \subseteq EvKey
    BY DEF ToSet
  <2>2. CASE /\ Len(changelist) < LT_MAX_EVENTS
             /\ changelist' = Append(changelist, w) /\ UNCHANGED knotes
    BY <1>1, <2>2 DEF Register
  <2>3. CASE Full(w)
    BY <1>1, <2>1, <2>3 DEF Register, Full
  <2> QED BY <1>1, <2>2, <2>3 DEF Register
<1>2. ASSUME Poll PROVE KqueueTypeOK'
  <2>1. PICK fired \in SUBSET (knotes \cup ToSet(changelist)) :
          eventlist' = fired /\ knotes' = (knotes \cup ToSet(changelist)) \ fired
    BY <1>2 DEF Poll
  <2>2. ToSet(changelist) \subseteq EvKey
    BY DEF ToSet
  <2>3. changelist' \in Seq(EvKey) /\ Len(changelist') <= LT_MAX_EVENTS
    BY <1>2 DEF Poll
  <2> QED BY <1>2, <2>1, <2>2, <2>3 DEF Poll
<1>3. ASSUME NEW w \in EvKey, TakeEvent(w) PROVE KqueueTypeOK'
  BY <1>3 DEF TakeEvent, Filters
<1>4. ASSUME HandleEv PROVE KqueueTypeOK'
  BY <1>4 DEF HandleEv, Filters
<1>5. ASSUME EvChecked PROVE KqueueTypeOK'
  BY <1>5 DEF EvChecked, Filters
<1>6. ASSUME NEW w \in EvKey, EndWait(w) PROVE KqueueTypeOK'
  BY <1>6 DEF EndWait
<1>7. ASSUME NEW fd \in KFd, Close(fd) PROVE KqueueTypeOK'
  BY <1>7 DEF Close
<1>8. CASE UNCHANGED kqueue_vars
  BY <1>8 DEF kqueue_vars
<1> HIDE DEF KqueueTypeOK
<1> QED BY <1>1, <1>2, <1>3, <1>4, <1>5, <1>6, <1>7, <1>8 DEF KqueueNext

(* Nothing is registered, fetched or in hand when the scheduler begins.    *)
LEMMA KqueueTypeInit == KqueueInit => KqueueTypeOK
<1>1. <<>> \in Seq(EvKey) /\ Len(<<>>) = 0
  OBVIOUS
<1>2. 0 <= LT_MAX_EVENTS
  BY KqueueAssumption
<1> QED BY <1>1, <1>2 DEF KqueueInit, KqueueTypeOK, Filters

(* The change list does not outgrow its array, whatever the callers do.    *)
THEOREM KqueueTypeCorrect == KqueueSpec => []KqueueTypeOK
<1>1. KqueueInit => KqueueTypeOK
  BY KqueueTypeInit
<1>2. KqueueTypeOK /\ [KqueueNext]_kqueue_vars => KqueueTypeOK'
  BY KqueueTypeStep
<1> QED BY <1>1, <1>2, PTL DEF KqueueSpec

(* What the clauses of the contract add up to: a descriptor has one        *)
(* waiter, so that the HANDLE_EV which finds somebody is the one for the   *)
(* filter of the event, and the other finds nobody.                        *)
ServedForItsEvent ==
  /\ \A v, w \in waiters : v[1] = w[1] => v = w
  /\ \A v, w \in kev : v = w
  /\ \A w \in kev : /\ <<w[1], knext>> \in waiters => w[2] = knext
                    /\ Passed(w[2]) => w[2] \in kserved

KqueueInv == KqueueTypeOK /\ WaitsAccountedFor /\ NoKqueueAbort /\ ServedForItsEvent

(* Registering, polling, handling an event and ending a wait keep every    *)
(* wait in one place.                                                      *)
LEMMA KqueueStep ==
  ASSUME KUnguarded = {}, KqueueInv, [KqueueNext]_kqueue_vars
  PROVE  KqueueInv'
<1> USE KqueueAssumption
<1>0. KqueueTypeOK'
  BY KqueueTypeStep DEF KqueueInv
<1> USE DEF KqueueInv, WaitsAccountedFor, NoKqueueAbort
<1>1. ASSUME NEW w \in EvKey, Register(w) PROVE KqueueInv'
  <2>1. /\ w \notin ToSet(changelist) /\ w \notin knotes /\ w \notin eventlist /\ w \notin Pending
        /\ waiters' = waiters \cup {w} /\ eventlist' = eventlist /\ aborted' = aborted
        /\ kev' = kev /\ knext' = knext /\ kserved' = kserved
        /\ (\A v \in waiters : v[1] # w[1]) /\ ~\E v \in kev : w = <<v[1], knext>>
    BY <1>1 DEF Register, InLoop
  <2>2. Pending' = Pending /\ ServedForItsEvent'
    BY <2>1 DEF Pending, Passed, ServedForItsEvent
  <2>3. CASE changelist' = Append(changelist, w) /\ UNCHANGED knotes
    <3>1. ToSet(changelist') = ToSet(changelist) \cup {w} /\ IsInjective(changelist')
      BY <2>1, <2>3, SetAppend DEF KqueueTypeOK
    <3> QED BY <1>0, <2>1, <2>2, <2>3, <3>1
  <2>4. CASE Full(w)
    <3>1. ToSet(changelist') = {w} /\ IsInjective(changelist')
      BY <2>4, SetSmall DEF Full
    <3>2. knotes' = knotes \cup ToSet(changelist)
      BY <2>4 DEF Full
    <3> QED BY <1>0, <2>1, <2>2, <3>1, <3>2
  <2> QED BY <1>1, <2>3, <2>4 DEF Register
<1>2. ASSUME Poll PROVE KqueueInv'
  <2>1. PICK fired \in SUBSET (knotes \cup ToSet(changelist)) :
          eventlist' = fired /\ knotes' = (knotes \cup ToSet(changelist)) \ fired
    BY <1>2 DEF Poll
  <2>2. /\ changelist' = <<>> /\ waiters' = waiters /\ eventlist = {} /\ aborted' = aborted
        /\ kev = {} /\ kev' = kev /\ knext' = knext /\ kserved' = kserved
    BY <1>2 DEF Poll, InLoop
  <2>3. ToSet(changelist') = {} /\ IsInjective(changelist')
    BY <2>2, SetSmall
  <2>4. Pending = {} /\ Pending' = {} /\ ServedForItsEvent'
    BY <2>2 DEF Pending, ServedForItsEvent
  <2> QED BY <1>0, <2>1, <2>2, <2>3, <2>4
<1>3. ASSUME NEW w \in EvKey, TakeEvent(w) PROVE KqueueInv'
  <2>1. /\ w \in eventlist /\ eventlist' = eventlist \ {w} /\ kev = {} /\ kev' = {w}
        /\ knext' = "EVFILT_READ" /\ kserved' = {} /\ aborted' = aborted
        /\ waiters' = waiters /\ knotes' = knotes /\ changelist' = changelist
    BY <1>3 DEF TakeEvent
  <2>2. Pending = {} /\ Pending' = {w}
    BY <2>1 DEF Pending, Passed
  <2>3. WaitsAccountedFor'
    BY <2>1, <2>2
  <2>4. w \in waiters /\ w = <<w[1], w[2]>> /\ w[2] \in Filters
    BY <2>1 DEF EvKey
  <2>5. <<w[1], "EVFILT_READ">> \in waiters => w[2] = "EVFILT_READ"
    BY <2>4 DEF ServedForItsEvent
  <2>6. ServedForItsEvent'
    BY <2>1, <2>4, <2>5 DEF ServedForItsEvent, Passed, Filters
  <2> QED BY <1>0, <2>1, <2>3, <2>6
<1>4. ASSUME HandleEv PROVE KqueueInv'
  <2>1. PICK w \in kev :
          /\ waiters' = waiters \ {<<w[1], knext>>}
          /\ kserved' = IF <<w[1], knext>> \in waiters THEN kserved \cup {knext} ELSE kserved
    BY <1>4 DEF HandleEv
  <2>2. /\ knext # "check" /\ knext' = (IF knext = "EVFILT_READ" THEN "EVFILT_WRITE" ELSE "check")
        /\ changelist' = changelist /\ knotes' = knotes /\ eventlist' = eventlist
        /\ kev' = kev /\ kev = {w} /\ aborted' = aborted
    BY <1>4, <2>1 DEF HandleEv, ServedForItsEvent
  <2>3. /\ w = <<w[1], w[2]>> /\ w[2] \in Filters /\ knext \in Filters
    BY <2>2 DEF KqueueTypeOK, EvKey
  <2>4. CASE w[2] = knext
    <3>1. Pending = {w} /\ Pending' = {} /\ Passed(w[2])'
      BY <2>2, <2>3, <2>4 DEF Pending, Passed, Filters
    <3>2. w \in waiters /\ <<w[1], knext>> = w
      BY <2>3, <2>4, <3>1
    <3>3. WaitsAccountedFor'
      BY <2>1, <2>2, <3>1, <3>2
    <3>4. kserved' = kserved \cup {w[2]} /\ waiters' = waiters \ {w}
      BY <2>1, <2>4, <3>2
    <3>5. <<w[1], knext'>> \notin waiters'
      BY <3>2, <3>4 DEF ServedForItsEvent
    <3>6. ServedForItsEvent'
      BY <2>2, <3>4, <3>5 DEF ServedForItsEvent
    <3> QED BY <1>0, <2>2, <3>3, <3>6
  <2>5. CASE w[2] # knext
    <3>1. waiters' = waiters /\ kserved' = kserved
      BY <2>1, <2>2, <2>5 DEF ServedForItsEvent
    <3>2. Pending' = Pending /\ (Passed(w[2])' <=> Passed(w[2]))
      BY <2>2, <2>3, <2>5 DEF Pending, Passed, Filters
    <3>3. WaitsAccountedFor'
      BY <2>2, <3>1, <3>2
    <3>4. <<w[1], knext'>> \in waiters => w[2] = knext'
      <4>1. CASE knext = "EVFILT_READ"
        BY <2>2, <2>3, <2>5, <4>1 DEF Filters
      <4>2. CASE knext = "EVFILT_WRITE"
        <5>1. <<w[1], "check">> \notin waiters
          BY DEF KqueueTypeOK, EvKey, Filters
        <5> QED BY <2>2, <4>2, <5>1
      <4> QED BY <2>3, <4>1, <4>2 DEF Filters
    <3>5. ServedForItsEvent'
      BY <2>2, <3>1, <3>2, <3>4 DEF ServedForItsEvent
    <3> QED BY <1>0, <2>2, <3>3, <3>5
  <2> QED BY <2>4, <2>5
<1>5. ASSUME EvChecked PROVE KqueueInv'
  <2>1. PICK w \in kev : TRUE
    BY <1>5 DEF EvChecked
  <2>2. /\ knext = "check" /\ kev' = {} /\ knext' = "EVFILT_READ" /\ kserved' = {}
        /\ aborted' = (kserved = {}) /\ changelist' = changelist /\ knotes' = knotes
        /\ eventlist' = eventlist /\ waiters' = waiters
    BY <1>5 DEF EvChecked
  <2>3. \A v \in kev : Passed(v[2])
    BY <2>2 DEF KqueueTypeOK, EvKey, Filters, Passed
  <2>4. kserved # {}
    BY <2>1, <2>3 DEF ServedForItsEvent
  <2>5. Pending = {} /\ Pending' = {}
    BY <2>2, <2>3 DEF Pending
  <2>6. ServedForItsEvent'
    BY <2>2 DEF ServedForItsEvent
  <2> QED BY <1>0, <2>2, <2>4, <2>5, <2>6
<1>6. ASSUME NEW w \in EvKey, EndWait(w) PROVE KqueueInv'
  <2>1. /\ w \in knotes /\ knotes' = knotes \ {w} /\ waiters' = waiters \ {w} /\ aborted' = FALSE
        /\ kev' = kev /\ knext' = knext /\ kserved' = kserved
        /\ changelist' = changelist /\ eventlist' = eventlist
    BY <1>6 DEF EndWait, InLoop
  <2>2. Pending' = Pending /\ ServedForItsEvent'
    BY <2>1 DEF Pending, Passed, ServedForItsEvent
  <2> QED BY <1>0, <2>1, <2>2
<1>7. ASSUME NEW fd \in KFd, Close(fd) PROVE KqueueInv'
  <2>1. /\ ~\E w \in ToSet(changelist) \cup eventlist \cup Pending : w[1] = fd
        /\ knotes' = {w \in knotes : w[1] # fd} /\ waiters' = {w \in waiters : w[1] # fd}
        /\ kev' = kev /\ knext' = knext /\ kserved' = kserved /\ aborted' = aborted
        /\ changelist' = changelist /\ eventlist' = eventlist
    BY <1>7 DEF Close, InLoop
  <2>2. Pending' = Pending /\ ServedForItsEvent'
    BY <2>1 DEF Pending, Passed, ServedForItsEvent
  <2> QED BY <1>0, <2>1, <2>2
<1>8. CASE UNCHANGED kqueue_vars
  BY <1>0, <1>8 DEF kqueue_vars, Pending, Passed, ServedForItsEvent
<1> HIDE DEF KqueueInv
<1> QED BY <1>1, <1>2, <1>3, <1>4, <1>5, <1>6, <1>7, <1>8 DEF KqueueNext

(* KqueueInv holds throughout, when the callers keep their contract.       *)
THEOREM KqueueInvariance ==
  ASSUME KUnguarded = {}
  PROVE  KqueueSpec => []KqueueInv
<1>1. KqueueInit => KqueueInv
  <2>1. ToSet(<<>>) = {} /\ IsInjective(<<>>)
    BY SetSmall
  <2>2. KqueueInit => Pending = {} /\ ServedForItsEvent
    BY DEF KqueueInit, Pending, ServedForItsEvent
  <2>3. KqueueInit => WaitsAccountedFor /\ NoKqueueAbort
    BY <2>1, <2>2 DEF KqueueInit, WaitsAccountedFor, NoKqueueAbort
  <2> QED BY <2>2, <2>3, KqueueTypeInit DEF KqueueInv
<1>2. KqueueInv /\ [KqueueNext]_kqueue_vars => KqueueInv'
  BY KqueueStep
<1> QED BY <1>1, <1>2, PTL DEF KqueueSpec

(* When the callers keep the clauses fd, batch and delete,                 *)
(* lthread_kqueue.c and lthread_run lose no wait and keep none that is     *)
(* over: each waiter has its registration once, in the change list, in the *)
(* kernel, among the events fetched or as the event in hand, also when a   *)
(* full change list is flushed and although HANDLE_EV is run for both      *)
(* filters of a descriptor.                                                *)
THEOREM WaitsAccountedForHolds ==
  ASSUME KUnguarded = {}
  PROVE  KqueueSpec => []WaitsAccountedFor
<1>1. KqueueInv => WaitsAccountedFor
  BY DEF KqueueInv
<1> QED BY KqueueInvariance, <1>1, PTL

(* Under the same clauses no assertion of the event loop or of a deletion  *)
(* fails.                                                                  *)
THEOREM NoKqueueAbortHolds ==
  ASSUME KUnguarded = {}
  PROVE  KqueueSpec => []NoKqueueAbort
<1>1. KqueueInv => NoKqueueAbort
  BY DEF KqueueInv
<1> QED BY KqueueInvariance, <1>1, PTL

-----------------------------------------------------------------------------
(* The clock of the sleepers, for any number of them, any sleeps and any   *)
(* number K of units                                                       *)

(* A key is not before the time asked for, and not more than the sleepers  *)
(* there are behind it; the clock is past a key by less than a second, and *)
(* before all the keys when the loop polls.                                *)
KeysInTime ==
  /\ \A l \in Asleep : /\ due[l] <= sleep_usecs[l]
                        /\ sleep_usecs[l] <= due[l] + Cardinality(Sleeper)
                        /\ now <= sleep_usecs[l] + (K * K - K)
  /\ polling => \A l \in Asleep : now < sleep_usecs[l]

ClockInv == ClockTypeOK /\ KeysInTime /\ TimersSound

(* The sleepers are too few to have all the keys _lthread_sched_sleep may  *)
(* try: it finds a free one, and takes the first.                          *)
LEMMA FreeKeyIs ==
  ASSUME ClockTypeOK, NEW t \in Nat
  PROVE  /\ FreeKey(t) \in t..(t + Cardinality(Sleeper))
         /\ \A l \in Asleep : sleep_usecs[l] # FreeKey(t)
<1> DEFINE n    == Cardinality(Sleeper)
           Keys == t..(t + n)
           Taken0 == {sleep_usecs[l] : l \in Asleep}
           Free == {k \in Keys : k \notin Taken0}
<1>1. IsFiniteSet(Sleeper) /\ n \in Nat
  BY ClockAssumption, FS_CardinalityType
<1>2. IsFiniteSet(Asleep) /\ Cardinality(Asleep) <= n
  <2>1. Asleep \subseteq Sleeper
    BY DEF Asleep
  <2> QED BY <1>1, <2>1, FS_Subset
<1>3. IsFiniteSet(Taken0) /\ Cardinality(Taken0) <= n
  <2> DEFINE f == [l \in Asleep |-> sleep_usecs[l]]
  <2>1. f \in Surjection(Asleep, Taken0)
    BY DEF Surjection
  <2>2. IsFiniteSet(Taken0) /\ Cardinality(Taken0) <= Cardinality(Asleep)
    BY <1>2, <2>1, FS_Surjection
  <2>3. Cardinality(Taken0) \in Nat /\ Cardinality(Asleep) \in Nat
    BY <1>2, <2>2, FS_CardinalityType
  <2> HIDE DEF n, Taken0
  <2> QED BY <1>1, <1>2, <2>2, <2>3
<1>4. Free # {}
  <2> SUFFICES ASSUME Keys \subseteq Taken0 PROVE FALSE
    BY DEF Free
  <2>1. Cardinality(Keys) = n + 1
    <3>1. t \in Int /\ t + n \in Int /\ t <= t + n /\ ((t + n) - t) + 1 = n + 1
      BY <1>1
    <3> HIDE DEF n
    <3> QED BY <3>1, FS_Interval
  <2>2. Cardinality(Keys) <= Cardinality(Taken0)
    BY <1>3, FS_Subset
  <2>3. Cardinality(Taken0) \in Nat
    BY <1>3, FS_CardinalityType
  <2> HIDE DEF n, Keys, Taken0
  <2> QED BY <1>1, <1>3, <2>1, <2>2, <2>3
<1>5. PICK k \in Free : \A j \in Free : k <= j
  <2>1. Free \in SUBSET Nat
    BY <1>1
  <2> HIDE DEF Free
  <2> QED BY <1>4, <2>1, LeastNat
<1>6. /\ k \in Keys /\ \A l \in Asleep : sleep_usecs[l] # k
      /\ \A j \in t..(k - 1) : \E l \in Asleep : sleep_usecs[l] = j
  <2>1. k \in Keys /\ \A l \in Asleep : sleep_usecs[l] # k
    OBVIOUS
  <2>2. ASSUME NEW j \in t..(k - 1) PROVE \E l \in Asleep : sleep_usecs[l] = j
    <3>1. j \in Keys /\ ~(k <= j)
      BY <1>1
    <3>2. j \notin Free
      BY <1>5, <3>1
    <3> QED BY <3>1, <3>2
  <2> QED BY <2>1, <2>2
<1> QED BY <1>6 DEF FreeKey

(* What epoll_wait is told to wait is less than a second too long.         *)
LEMMA PollMsecsIs ==
  ASSUME NEW u \in Nat
  PROVE  PollMsecs(u) \in Nat /\ PollMsecs(u) * K <= u + (K * K - K)
<1> DEFINE q == u \div (K * K)
           d == u \div K
           m == u % K
<1>0. K \in Nat /\ K > 0
  BY ClockAssumption
<1>1. K * K \in Nat /\ K * K > 0 /\ K * K >= K
  BY <1>0
<1>2. q \in Nat /\ (K * K) * q <= u
  BY <1>1
<1>3. d \in Nat /\ m \in 0..(K - 1) /\ K * d <= u
  BY <1>0
<1>4. CASE q # 0
  <2>1. PollMsecs(u) = q * K + m
    BY <1>4 DEF PollMsecs
  <2>2. (q * K + m) * K = (K * K) * q + m * K
    <3>1. \A a, b, c \in Nat : (a * c + b) * c = (c * c) * a + b * c
      OBVIOUS
    <3>2. q \in Nat /\ m \in Nat /\ K \in Nat
      BY <1>0, <1>2, <1>3
    <3> HIDE DEF q, m
    <3> QED BY <3>1, <3>2
  <2>3. m * K <= K * K - K
    BY <1>0, <1>3
  <2>4. q * K + m \in Nat
    BY <1>0, <1>2, <1>3
  <2> HIDE DEF q, m
  <2> QED BY <1>0, <1>1, <1>2, <1>3, <2>1, <2>2, <2>3, <2>4
<1>5. CASE q = 0
  <2>1. PollMsecs(u) = d
    BY <1>5 DEF PollMsecs
  <2> HIDE DEF d
  <2> QED BY <1>0, <1>1, <1>3, <2>1
<1> QED BY <1>4, <1>5

LEMMA SleepStep ==
  ASSUME ClockInv, NEW l \in Sleeper, NEW msecs \in Msecs, _lthread_sched_sleep(l, msecs)
  PROVE  ClockInv'
<1> USE DEF ClockInv, ClockTypeOK
<1> DEFINE t == now + msecs * K
           k == FreeKey(t)
           n == Cardinality(Sleeper)
<1>0. /\ K \in Nat /\ K > 0 /\ K * K \in Nat /\ K * K >= K /\ n \in Nat
      /\ msecs \in Nat /\ now \in Nat /\ now > 0 /\ MaxNow \in Nat
  <2>1. K \in Nat /\ K > 0 /\ n \in Nat /\ msecs \in Nat /\ now \in Nat /\ now > 0 /\ MaxNow \in Nat
    BY ClockAssumption, FS_CardinalityType
  <2>2. K * K \in Nat /\ K * K >= K
    BY <2>1
  <2> QED BY <2>1, <2>2
<1>1. t \in Nat /\ t >= now
  <2>1. msecs * K \in Nat
    BY <1>0
  <2> QED BY <1>0, <2>1
<1> HIDE DEF t
<1>2. k \in t..(t + n) /\ \A x \in Asleep : sleep_usecs[x] # k
  BY <1>1, FreeKeyIs
<1> HIDE DEF k, n
<1>3. k \in Nat /\ k # 0 /\ t <= k /\ k <= t + n
  BY <1>0, <1>1, <1>2
<1>4. /\ sleep_usecs' = [sleep_usecs EXCEPT ![l] = k] /\ due' = [due EXCEPT ![l] = t]
      /\ now' = now /\ late' = late /\ polling' = polling /\ polling = FALSE
  BY DEF _lthread_sched_sleep, t, k
<1>5. ClockTypeOK'
  BY <1>1, <1>3, <1>4
<1>6. /\ l \in Asleep' /\ sleep_usecs'[l] = k /\ due'[l] = t
      /\ \A x \in Asleep' : x # l => /\ x \in Asleep /\ x \in Sleeper /\ sleep_usecs'[x] = sleep_usecs[x]
                                     /\ due'[x] = due[x]
  BY <1>1, <1>3, <1>4 DEF Asleep
<1>7. KeysInTime'
  <2>1. now <= k + (K * K - K)
    BY <1>0, <1>1, <1>3
  <2>2. ASSUME NEW x \in Asleep'
        PROVE  /\ due'[x] <= sleep_usecs'[x] /\ sleep_usecs'[x] <= due'[x] + n
               /\ now' <= sleep_usecs'[x] + (K * K - K)
    <3>1. CASE x = l
      BY <1>3, <1>4, <1>6, <2>1, <3>1
    <3>2. CASE x # l
      <4>1. /\ due[x] <= sleep_usecs[x] /\ sleep_usecs[x] <= due[x] + n
            /\ now <= sleep_usecs[x] + (K * K - K)
        BY <1>6, <3>2 DEF KeysInTime, n
      <4> QED BY <1>4, <1>6, <3>2, <4>1
    <3> QED BY <3>1, <3>2
  <2> QED BY <1>4, <2>2 DEF KeysInTime, n
<1>8. KeysAreUnique'
  BY <1>2, <1>6 DEF TimersSound, KeysAreUnique
<1>9. SleepsOutItsTime'
  <2>1. ASSUME NEW x \in Asleep' PROVE now' - due'[x] < K * K + n
    <3>1. CASE x = l
      BY <1>0, <1>1, <1>4, <1>6, <3>1
    <3>2. CASE x # l
      <4>1. now - due[x] < K * K + n
        BY <1>6, <3>2 DEF TimersSound, SleepsOutItsTime, n
      <4> QED BY <1>4, <1>6, <3>2, <4>1
    <3> QED BY <3>1, <3>2
  <2>2. late' \in 0..((K * K + n) - 1)
    BY <1>4 DEF TimersSound, SleepsOutItsTime, n
  <2> QED BY <2>1, <2>2 DEF SleepsOutItsTime, n
<1> QED BY <1>5, <1>7, <1>8, <1>9 DEF TimersSound

LEMMA PollStep == ASSUME ClockInv, _lthread_poll PROVE ClockInv'
<1> USE DEF ClockInv, ClockTypeOK
<1> DEFINE u == _lthread_min_timeout
           p == PollMsecs(u) * K
           n == Cardinality(Sleeper)
<1>0. K \in Nat /\ K > 0 /\ n \in Nat /\ now \in Nat /\ now > 0 /\ MaxNow \in Nat /\ DefaultTimeout \in Nat
  BY ClockAssumption, FS_CardinalityType
<1>00. K * K \in Nat /\ K * K >= K
  BY <1>0
<1>1. /\ polling /\ now' \in now..(now + Max({1, p})) /\ now' <= MaxNow /\ polling' = FALSE
      /\ UNCHANGED <<sleep_usecs, due, late>>
  BY DEF _lthread_poll
<1>2. Asleep' = Asleep
  BY <1>1 DEF Asleep
<1>3. ASSUME NEW l \in Asleep PROVE now' <= sleep_usecs[l] + (K * K - K)
  <2> DEFINE Keys == {sleep_usecs[x] : x \in Asleep}
             first == Min(Keys)
  <2>1. Keys \in SUBSET Nat /\ Keys # {} /\ sleep_usecs[l] \in Keys
    BY <1>3 DEF Asleep
  <2>2. first \in Keys /\ first <= sleep_usecs[l]
    BY <2>1, MinIs
  <2>3. first \in Nat /\ now < first
    BY <1>1, <2>1, <2>2 DEF KeysInTime
  <2>4. u = first - now
    <3>1. Asleep # {}
      BY <1>3
    <3> QED BY <1>0, <2>3, <3>1 DEF _lthread_min_timeout
  <2> HIDE DEF first, u
  <2>5. u \in Nat
    BY <1>0, <2>3, <2>4
  <2>6. PollMsecs(u) \in Nat /\ p <= u + (K * K - K)
    BY <2>5, PollMsecsIs
  <2>7. p \in Nat
    BY <1>0, <2>6
  <2> HIDE DEF p
  <2>8. Max({1, p}) \in {1, p}
    <3>1. {1, p} \in SUBSET Nat /\ {1, p} # {} /\ 1 + p \in Nat /\ \A y \in {1, p} : y <= 1 + p
      BY <2>7
    <3> QED BY <3>1, MaxIs
  <2>9. now + Max({1, p}) <= first + (K * K - K)
    <3>1. now + p <= first + (K * K - K)
      BY <1>0, <1>00, <2>3, <2>4, <2>5, <2>6, <2>7
    <3>2. now + 1 <= first + (K * K - K)
      BY <1>0, <1>00, <2>3
    <3> QED BY <2>8, <3>1, <3>2
  <2>10. now' <= first + (K * K - K) /\ now' \in Int
    <3>1. Max({1, p}) \in Int
      BY <2>7, <2>8
    <3> QED BY <1>0, <1>00, <1>1, <2>3, <2>9, <3>1
  <2>11. sleep_usecs[l] \in Nat
    BY <2>1
  <2> QED BY <1>0, <1>00, <2>2, <2>3, <2>10, <2>11
<1>4. now' \in 1..MaxNow
  <2>1. now' \in Int /\ now' >= now
    BY <1>1
  <2> QED BY <1>0, <1>1, <2>1
<1>5. ClockTypeOK'
  BY <1>1, <1>4
<1>6. KeysInTime'
  <2>1. ASSUME NEW l \in Asleep'
        PROVE  /\ due'[l] <= sleep_usecs'[l] /\ sleep_usecs'[l] <= due'[l] + n
               /\ now' <= sleep_usecs'[l] + (K * K - K)
    BY <1>1, <1>2, <1>3 DEF KeysInTime
  <2> QED BY <1>1, <2>1 DEF KeysInTime
<1>7. KeysAreUnique'
  BY <1>1, <1>2 DEF TimersSound, KeysAreUnique
<1>8. SleepsOutItsTime'
  <2>1. ASSUME NEW l \in Asleep' PROVE now' - due'[l] < K * K + n
    <3>1. /\ now' <= sleep_usecs[l] + (K * K - K) /\ sleep_usecs[l] <= due[l] + n
          /\ sleep_usecs[l] \in Nat /\ due[l] \in Nat /\ due'[l] = due[l] /\ now' \in Int
      BY <1>1, <1>2, <1>3, <1>4 DEF KeysInTime, Asleep
    <3> HIDE DEF n
    <3> QED BY <1>0, <1>00, <3>1
  <2>2. late' \in 0..((K * K + n) - 1)
    BY <1>1 DEF TimersSound, SleepsOutItsTime
  <2> QED BY <2>1, <2>2 DEF SleepsOutItsTime
<1> QED BY <1>5, <1>6, <1>7, <1>8 DEF TimersSound

LEMMA ResumeStep == ASSUME ClockInv, _lthread_resume_expired PROVE ClockInv'
<1> USE DEF ClockInv, ClockTypeOK
<1> DEFINE n == Cardinality(Sleeper)
<1>0. K \in Nat /\ K > 0 /\ n \in Nat /\ now \in Nat
  BY ClockAssumption, FS_CardinalityType
<1>1. PICK l \in Asleep : /\ sleep_usecs[l] <= now
                         /\ sleep_usecs' = [sleep_usecs EXCEPT ![l] = 0]
                         /\ late' = now - due[l]
  BY DEF _lthread_resume_expired
<1>2. UNCHANGED <<now, due, polling>> /\ ~polling
  BY DEF _lthread_resume_expired
<1>3. \A x \in Asleep' : x \in Asleep /\ sleep_usecs'[x] = sleep_usecs[x]
  BY <1>1 DEF Asleep
<1>4. late' \in 0..((K * K + n) - 1)
  <2>1. /\ due[l] \in Nat /\ sleep_usecs[l] \in Nat /\ due[l] <= sleep_usecs[l]
        /\ now - due[l] < K * K + n
    BY <1>1 DEF KeysInTime, TimersSound, SleepsOutItsTime, Asleep
  <2>2. K * K \in Nat
    BY <1>0
  <2> HIDE DEF n
  <2> QED BY <1>0, <1>1, <2>1, <2>2
<1>5. ClockTypeOK'
  <2>1. l \in Sleeper /\ due[l] \in Nat
    BY DEF Asleep
  <2>2. now - due[l] \in Int
    BY <1>0, <2>1
  <2> QED BY <1>1, <1>2, <2>1, <2>2
<1>6. KeysInTime'
  BY <1>2, <1>3 DEF KeysInTime
<1>7. KeysAreUnique'
  BY <1>3 DEF TimersSound, KeysAreUnique
<1>8. SleepsOutItsTime'
  BY <1>2, <1>3, <1>4 DEF TimersSound, SleepsOutItsTime
<1> QED BY <1>5, <1>6, <1>7, <1>8 DEF TimersSound

(* No two lthreads have the same key in the sleep tree, and none wakes     *)
(* early or later than a second and the keys it had to skip, for any       *)
(* number of sleepers, any lengths of sleep and any units.                 *)
THEOREM TimersSoundHolds == ClockSpec => [](ClockTypeOK /\ TimersSound)
<1>1. ClockInit => ClockInv
  <2> SUFFICES ASSUME ClockInit PROVE ClockInv
    OBVIOUS
  <2>1. /\ K \in Nat /\ K > 0 /\ MaxNow \in Nat /\ MaxNow > 0 /\ Cardinality(Sleeper) \in Nat
    BY ClockAssumption, FS_CardinalityType
  <2>2. K * K \in Nat /\ K * K > 0
    BY <2>1
  <2>3. Asleep = {} /\ ClockTypeOK
    <3>1. now \in 1..MaxNow /\ late \in Int
      BY <2>1 DEF ClockInit
    <3>4. polling \in BOOLEAN
      BY Zenon DEF ClockInit
    <3>2. sleep_usecs \in [Sleeper -> Nat] /\ due \in [Sleeper -> Nat]
      BY DEF ClockInit
    <3>3. Asleep = {}
      BY DEF ClockInit, Asleep
    <3> QED BY <3>1, <3>2, <3>3, <3>4 DEF ClockTypeOK
  <2>4. 0 \in 0..((K * K + Cardinality(Sleeper)) - 1)
    BY <2>1, <2>2
  <2> QED BY <2>3, <2>4 DEF ClockInit, ClockInv, KeysInTime, TimersSound, KeysAreUnique, SleepsOutItsTime
<1>2. ClockInv /\ [ClockNext]_clock_vars => ClockInv'
  <2> SUFFICES ASSUME ClockInv, [ClockNext]_clock_vars PROVE ClockInv'
    OBVIOUS
  <2>1. CASE StepsOver
    BY <2>1 DEF StepsOver, ClockInv, ClockTypeOK, KeysInTime, TimersSound, KeysAreUnique,
                SleepsOutItsTime, Asleep
  <2>2. CASE UNCHANGED clock_vars
    BY <2>2 DEF clock_vars, ClockInv, ClockTypeOK, KeysInTime, TimersSound, KeysAreUnique,
                SleepsOutItsTime, Asleep
  <2> QED BY <2>1, <2>2, SleepStep, PollStep, ResumeStep DEF ClockNext
<1>3. ClockInv => ClockTypeOK /\ TimersSound
  BY DEF ClockInv
<1> QED BY <1>1, <1>2, <1>3, PTL DEF ClockSpec

-----------------------------------------------------------------------------
(* The connections, for any number of them, any descriptors and lengths    *)

OpType == [fn : {"none", "connect", "readfull", "readfull_done", "write"},
           conn : Conn \cup {"none"}, n : Int, buf : Seq(1..MaxLen), from : 0..MaxLen]

(* A dial in progress has a descriptor and its connection is not in use;   *)
(* the loop of net_conn_readfull has the first `from' bytes in its buffer, *)
(* and room for more.                                                      *)
OpSound ==
  /\ op.fn = "connect" => op.conn \in Conn \ live /\ op.n \in 1..MaxFd
  /\ op.fn = "readfull" => /\ op.n \in 1..MaxLen /\ op.from < op.n
                           /\ Len(op.buf) = op.from /\ \A i \in 1..op.from : op.buf[i] = i

(* DescriptorsOwned without the sets.                                      *)
Owned ==
  /\ \A c \in live : conn_fd[c] \in open_fds /\ (op.fn = "connect" => conn_fd[c] # op.n)
  /\ op.fn = "connect" => op.n \in open_fds
  /\ \A fd \in open_fds : (\E c \in live : conn_fd[c] = fd) \/ (op.fn = "connect" /\ op.n = fd)
  /\ \A c, d \in live : conn_fd[c] = conn_fd[d] => c = d

LEMMA OwnedIs == Owned <=> DescriptorsOwned
<1> DEFINE own == {conn_fd[c] : c \in live}
           dialling == IF op.fn = "connect" THEN {op.n} ELSE {}
<1>1. \A fd : fd \in dialling <=> op.fn = "connect" /\ fd = op.n
  OBVIOUS
<1>2. \A fd : fd \in own <=> \E c \in live : conn_fd[c] = fd
  OBVIOUS
<1> HIDE DEF own, dialling
<1>3. /\ open_fds = own \cup dialling
      /\ own \cap dialling = {}
      /\ \A c, d \in live : conn_fd[c] = conn_fd[d] => c = d
      <=> Owned
  BY <1>1, <1>2 DEF Owned
<1> QED BY <1>3 DEF DescriptorsOwned, own, dialling

TcpInv == TcpTypeOK /\ OpSound /\ Owned /\ FullIsFull

(* A new descriptor is one that is not open.                               *)
LEMMA NewFdIs ==
  ASSUME TcpTypeOK, FreeFd # {}
  PROVE  NewFd \in 1..MaxFd /\ NewFd \notin open_fds
<1>1. FreeFd \in SUBSET Nat
  BY TcpAssumption DEF FreeFd
<1>2. NewFd \in FreeFd
  BY <1>1, MinIs DEF NewFd
<1> QED BY <1>2 DEF FreeFd

LEMMA NoOpIs ==
  /\ NoOp \in OpType /\ NoOp.fn = "none" /\ NoOp.buf = <<>> /\ NoOp.from = 0
<1>1. 0 \in 0..MaxLen /\ <<>> \in Seq(1..MaxLen) /\ 0 \in Int
  BY TcpAssumption
<1> QED BY <1>1 DEF NoOp, OpType

(* The operation ends.                                                     *)
LEMMA OpEnds ==
  ASSUME TcpInv, op' = NoOp,
         conn_fd' \in [Conn -> {NoFd} \cup 1..MaxFd], open_fds' \subseteq 1..MaxFd, live' \subseteq Conn,
         \A c \in live' : conn_fd'[c] \in open_fds',
         \A fd \in open_fds' : \E c \in live' : conn_fd'[c] = fd,
         \A c, d \in live' : conn_fd'[c] = conn_fd'[d] => c = d
  PROVE  TcpInv'
<1>1. op'.fn = "none" /\ op' \in OpType
  BY NoOpIs
<1>2. TcpTypeOK'
  BY <1>1 DEF TcpTypeOK, OpType
<1>3. OpSound' /\ Owned' /\ FullIsFull'
  BY <1>1 DEF OpSound, Owned, FullIsFull
<1> QED BY <1>2, <1>3 DEF TcpInv

LEMMA OpOnly ==
  ASSUME TcpInv, op'.fn # "connect", op.fn # "connect", op' \in OpType, OpSound', FullIsFull',
         UNCHANGED <<conn_fd, open_fds, live>>
  PROVE  TcpInv'
<1>1. TcpTypeOK'
  BY DEF TcpInv, TcpTypeOK, OpType
<1>2. Owned'
  BY DEF TcpInv, Owned
<1> QED BY <1>1, <1>2 DEF TcpInv

(* A connection begins, with a new descriptor or that of the dial, or is   *)
(* closed, and what else ends an operation.                                *)
LEMMA TcpEnds ==
  ASSUME TcpInv,
         \/ \E c \in Conn : tcp_conn_init(c) \/ net_conn_close(c) \/ net_conn_shutdown(c) \/ net_conn_read(c)
         \/ \E c \in Conn : tcp_dial_ipv4(c) /\ UNCHANGED open_fds /\ op' = NoOp
         \/ ConnectFails \/ Connected \/ WriteMore \/ ReadDone
  PROVE  TcpInv'
<1> USE DEF TcpInv
<1>0. op' = NoOp
  BY DEF tcp_conn_init, net_conn_close, net_conn_shutdown, net_conn_read, ConnectFails, Connected,
         WriteMore, ReadDone, EndsWith
<1>1. ASSUME NEW c \in Conn, tcp_conn_init(c) PROVE TcpInv'
  <2>1. /\ NewFd \in 1..MaxFd /\ NewFd \notin open_fds /\ c \notin live /\ op.fn # "connect"
        /\ conn_fd' = [conn_fd EXCEPT ![c] = NewFd]
        /\ open_fds' = open_fds \cup {NewFd} /\ live' = live \cup {c}
    BY <1>1, NewFdIs DEF tcp_conn_init, Idle
  <2>2. /\ conn_fd'[c] = NewFd /\ \A d \in live : conn_fd'[d] = conn_fd[d]
    BY <2>1 DEF TcpTypeOK
  <2> QED BY <1>0, <2>1, <2>2, OpEnds DEF TcpTypeOK, Owned
<1>2. ASSUME NEW c \in Conn, net_conn_close(c) PROVE TcpInv'
  <2>1. c \in live /\ conn_fd[c] \in open_fds /\ op.fn # "connect" /\ conn_fd[c] # NoFd
    BY <1>2 DEF net_conn_close, Idle, Owned, TcpTypeOK, NoFd
  <2>2. conn_fd' = conn_fd /\ live' = live \ {c} /\ open_fds' = open_fds \ {conn_fd[c]}
    BY <1>2, <2>1 DEF net_conn_close
  <2> QED BY <1>0, <2>1, <2>2, OpEnds DEF TcpTypeOK, Owned
<1>3. CASE /\ op.fn # "connect" /\ UNCHANGED <<conn_fd, open_fds, live>>
  BY <1>0, <1>3, OpEnds DEF TcpTypeOK, Owned
<1>4. CASE ConnectFails
  <2>1. op.fn = "connect" /\ open_fds' = open_fds \ {op.n} /\ UNCHANGED <<conn_fd, live>>
    BY <1>4 DEF ConnectFails
  <2> QED BY <1>0, <2>1, OpEnds DEF TcpTypeOK, Owned
<1>5. CASE Connected
  <2>1. /\ op.fn = "connect" /\ conn_fd' = [conn_fd EXCEPT ![op.conn] = op.n]
        /\ live' = live \cup {op.conn} /\ open_fds' = open_fds
        /\ op.conn \in Conn /\ op.conn \notin live /\ op.n \in 1..MaxFd
    BY <1>5 DEF Connected, OpSound
  <2>2. conn_fd'[op.conn] = op.n /\ \A d \in live : conn_fd'[d] = conn_fd[d]
    BY <2>1 DEF TcpTypeOK
  <2> QED BY <1>0, <2>1, <2>2, OpEnds DEF TcpTypeOK, Owned
<1> QED BY <1>1, <1>2, <1>3, <1>4, <1>5
        DEF tcp_dial_ipv4, net_conn_shutdown, net_conn_read, WriteMore, ReadDone, Idle

(* The dial has its socket.                                                *)
LEMMA DialStep ==
  ASSUME TcpInv, NEW c \in Conn, tcp_dial_ipv4(c)
  PROVE  TcpInv'
<1> USE DEF TcpInv
<1>1. CASE \E e \in {-1, -2, -3} : EndsWith("dial", e) /\ UNCHANGED open_fds
  BY <1>1, TcpEnds DEF EndsWith
<1>2. CASE /\ FreeFd # {}
           /\ op' = [NoOp EXCEPT !.fn = "connect", !.conn = c, !.n = NewFd]
           /\ open_fds' = open_fds \cup {NewFd}
  <2>1. /\ NewFd \in 1..MaxFd /\ NewFd \notin open_fds /\ NewFd \in Int
        /\ c \notin live /\ op.fn # "connect" /\ UNCHANGED <<conn_fd, live>>
    BY <1>2, NewFdIs DEF tcp_dial_ipv4, Idle
  <2>2. /\ op' \in OpType /\ op'.fn = "connect" /\ op'.conn = c /\ op'.n = NewFd
    BY <1>2, <2>1, NoOpIs DEF OpType
  <2>3. TcpTypeOK' /\ OpSound' /\ FullIsFull'
    BY <1>2, <2>1, <2>2 DEF TcpTypeOK, OpType, OpSound, FullIsFull
  <2>4. Owned'
    BY <1>2, <2>1, <2>2 DEF Owned
  <2> QED BY <2>3, <2>4
<1> QED BY <1>1, <1>2 DEF tcp_dial_ipv4

LEMMA BeginLoopStep ==
  ASSUME TcpInv, NEW c \in Conn, NEW len \in 1..MaxLen, NEW fn \in {"readfull", "write"},
         BeginLoop(fn, c, len)
  PROVE  TcpInv'
<1>1. /\ op' = [NoOp EXCEPT !.fn = fn, !.conn = c, !.n = len] /\ UNCHANGED <<conn_fd, open_fds, live>>
      /\ op.fn # "connect" /\ len \in Int /\ 0 < len
  BY TcpAssumption DEF BeginLoop, Idle
<1>2. op' \in OpType /\ op'.fn = fn /\ op'.n = len /\ op'.buf = <<>> /\ op'.from = 0
  BY <1>1, NoOpIs DEF OpType
<1>3. OpSound' /\ FullIsFull'
  BY <1>1, <1>2 DEF OpSound, FullIsFull
<1> QED BY <1>1, <1>2, <1>3, OpOnly

(* k more bytes are behind those in the buffer.                            *)
LEMMA FilledIs ==
  ASSUME TcpInv, op.fn = "readfull", NEW k \in 1..(op.n - Len(op.buf))
  PROVE  /\ Filled(k) \in Seq(1..MaxLen) /\ Len(Filled(k)) = op.from + k
         /\ \A i \in 1..(op.from + k) : Filled(k)[i] = i
         /\ op.from + k \in 0..MaxLen /\ op.from + k <= op.n
<1> DEFINE a == op.buf
           b == [i \in 1..k |-> op.from + i]
           m == op.from
<1>1. /\ a \in Seq(1..MaxLen) /\ m \in Nat /\ Len(a) = m /\ op.n \in 1..MaxLen /\ MaxLen \in Nat
      /\ \A i \in 1..m : a[i] = i
  BY TcpAssumption DEF TcpInv, TcpTypeOK, OpSound
<1>2. k \in Nat /\ k > 0 /\ m + k <= op.n /\ m + k \in 0..MaxLen
  BY <1>1
<1>3. /\ b \in Seq(1..MaxLen) /\ Len(b) = k /\ \A i \in 1..k : b[i] = m + i
  <2>1. \A i \in 1..k : m + i \in 1..MaxLen
    BY <1>1, <1>2, SMTT(30)
  <2>2. b \in [1..k -> 1..MaxLen]
    BY <2>1
  <2>3. b \in Seq(1..MaxLen)
    BY <1>2, <2>2
  <2>4. Len(b) = k
    BY <1>2, <2>2, <2>3
  <2> QED BY <2>3, <2>4
<1>4. Filled(k) = a \o b
  BY DEF Filled
<1> HIDE DEF a, b, m
<1>5. /\ a \o b \in Seq(1..MaxLen) /\ Len(a \o b) = Len(a) + Len(b)
      /\ \A i \in 1..(Len(a) + Len(b)) : (a \o b)[i] = IF i <= Len(a) THEN a[i] ELSE b[i - Len(a)]
  BY <1>1, <1>3, ConcatIs, ZenonT(60)
<1>6. ASSUME NEW i \in 1..(m + k) PROVE (a \o b)[i] = i
  <2>1. i \in 1..(Len(a) + Len(b)) /\ (a \o b)[i] = IF i <= m THEN a[i] ELSE b[i - m]
    BY <1>1, <1>3, <1>5
  <2>2. CASE i <= m
    <3>1. i \in 1..m
      BY <1>1, <1>2, <2>2
    <3> QED BY <1>1, <2>1, <2>2, <3>1
  <2>3. CASE ~(i <= m)
    <3>1. i - m \in 1..k /\ m + (i - m) = i
      BY <1>1, <1>2, <2>3
    <3> QED BY <1>3, <2>1, <2>3, <3>1
  <2> QED BY <2>2, <2>3
<1>7. Len(a \o b) = m + k
  BY <1>1, <1>3, <1>5
<1> QED BY <1>2, <1>4, <1>5, <1>6, <1>7 DEF m

LEMMA ReadMoreStep == ASSUME TcpInv, ReadMore PROVE TcpInv'
<1>0. /\ op.fn = "readfull" /\ UNCHANGED <<conn_fd, open_fds, live>> /\ op \in OpType
      /\ op.n \in 1..MaxLen /\ op.from \in Nat
  <2>1. op.fn = "readfull" /\ UNCHANGED <<conn_fd, open_fds, live>>
    BY DEF ReadMore
  <2>2. op \in OpType
    BY DEF TcpInv, TcpTypeOK, OpType
  <2>3. op.from \in 0..MaxLen
    BY <2>2 DEF OpType
  <2>4. op.n \in 1..MaxLen
    BY <2>1 DEF TcpInv, OpSound
  <2> QED BY <2>1, <2>2, <2>3, <2>4, TcpAssumption
<1>1. CASE \E r \in -2..0 : op' = [op EXCEPT !.fn = "readfull_done", !.n = r]
  <2>1. PICK r \in -2..0 : op' = [op EXCEPT !.fn = "readfull_done", !.n = r]
    BY <1>1
  <2>2. r \in Int /\ ~(r > 0)
    OBVIOUS
  <2>3. op' \in OpType /\ op'.fn = "readfull_done" /\ op'.n = r
    BY <1>0, <2>1, <2>2 DEF OpType
  <2>4. OpSound' /\ FullIsFull'
    BY <2>2, <2>3 DEF OpSound, FullIsFull
  <2> QED BY <1>0, <2>3, <2>4, OpOnly
<1>2. CASE \E k \in 1..(op.n - Len(op.buf)) :
             op' = [op EXCEPT !.buf = Filled(k), !.from = @ + k,
                              !.fn = IF op.from + k = op.n THEN "readfull_done" ELSE @]
  <2>1. PICK k \in 1..(op.n - Len(op.buf)) :
             op' = [op EXCEPT !.buf = Filled(k), !.from = @ + k,
                              !.fn = IF op.from + k = op.n THEN "readfull_done" ELSE @]
    BY <1>2
  <2>2. /\ Filled(k) \in Seq(1..MaxLen) /\ Len(Filled(k)) = op.from + k
        /\ \A i \in 1..(op.from + k) : Filled(k)[i] = i
        /\ op.from + k \in 0..MaxLen /\ op.from + k <= op.n
    BY <1>0, FilledIs
  <2>3. /\ op' \in OpType /\ op'.n = op.n /\ op'.buf = Filled(k) /\ op'.from = op.from + k
        /\ op'.fn = IF op.from + k = op.n THEN "readfull_done" ELSE "readfull"
    BY <1>0, <2>1, <2>2 DEF OpType
  <2>4. OpSound'
    BY <1>0, <2>2, <2>3 DEF OpSound
  <2>5. FullIsFull'
    <3> SUFFICES ASSUME op'.fn = "readfull_done" PROVE op'.buf = [i \in 1..op'.n |-> i]
      BY DEF FullIsFull
    <3>1. op.from + k = op.n
      BY <2>3
    <3>2. op'.buf \in Seq(1..MaxLen) /\ Len(op'.buf) = op'.n /\ \A i \in 1..op'.n : op'.buf[i] = i
      BY <2>2, <2>3, <3>1
    <3>3. DOMAIN op'.buf = 1..op'.n
      BY <3>2
    <3> QED BY <3>2, <3>3
  <2> QED BY <1>0, <2>3, <2>4, <2>5, OpOnly
<1> QED BY <1>1, <1>2 DEF ReadMore

(* mux/tcp_conn.c: every open descriptor has exactly one owner, a          *)
(* connection in use or the dial in progress, whatever fails on the way,   *)
(* and a read that claims to be full has the bytes of the stream in order, *)
(* whatever pieces they came in.                                           *)
THEOREM ConnectionsSoundHolds == TcpSpec => [](TcpTypeOK /\ ConnectionsSound)
<1>1. TcpInit => TcpInv
  <2> SUFFICES ASSUME TcpInit PROVE TcpInv
    OBVIOUS
  <2>1. op \in OpType /\ op.fn = "none"
    BY NoOpIs DEF TcpInit
  <2>2. TcpTypeOK
    BY <2>1 DEF TcpInit, TcpTypeOK, OpType
  <2> QED BY <2>1, <2>2 DEF TcpInit, TcpInv, OpSound, Owned, FullIsFull
<1>2. TcpInv /\ [TcpNext]_tcp_vars => TcpInv'
  <2> SUFFICES ASSUME TcpInv, [TcpNext]_tcp_vars PROVE TcpInv'
    OBVIOUS
  <2>1. CASE UNCHANGED tcp_vars
    BY <2>1 DEF tcp_vars, TcpInv, TcpTypeOK, OpSound, Owned, FullIsFull
  <2> QED BY <2>1, TcpEnds, DialStep, BeginLoopStep, ReadMoreStep DEF TcpNext
<1>3. TcpInv => TcpTypeOK /\ ConnectionsSound
  BY OwnedIs DEF TcpInv, ConnectionsSound
<1> QED BY <1>1, <1>2, <1>3, PTL DEF TcpSpec

-----------------------------------------------------------------------------
(* All the parts                                                           *)

(* queue.h and mem.c: the lists are what their operations made them, no    *)
(* free object is one that somebody holds, and only the half-made objects  *)
(* of failed rounds are neither free, in use nor freed.                    *)
THEOREM ListsSoundHolds == QueuesSpec /\ PoolSpec => []ListsSound
<1>1. IsSequence /\ PoolSound => ListsSound
  BY DEF ListsSound
<1> QED BY IsSequenceHolds, PoolSoundHolds, <1>1, PTL

(* Side by side, the parts keep every variable in its type: no index of    *)
(* the circular buffer leaves it, no pointer of a list its cells, no       *)
(* number of a sleeper, a call or a connection its range.                  *)
THEOREM AllTypedHolds == PartsSpec => []AllTyped
<1>1. MutexInv => MutexTypeOK
  BY DEF MutexInv
<1>2. (TypeOK /\ QueuesTypeOK /\ PoolTypeOK /\ MutexTypeOK /\ KqueueTypeOK
        /\ ClockTypeOK /\ SocketTypeOK /\ TcpTypeOK) => AllTyped
  BY DEF AllTyped
<1> QED BY FifoInvariant, IsSequenceHolds, PoolSoundHolds, MutexInvariance, KqueueTypeCorrect,
           TimersSoundHolds, CallsReportTruthHolds, ConnectionsSoundHolds, <1>1, <1>2, PTL DEF PartsSpec

=============================================================================
