----------------------------- MODULE SleepClock -----------------------------
(***************************************************************************)
(* The clock of the scheduler: how long _lthread_poll lets epoll_wait wait *)
(* for the first sleeper, and what two sleepers that expire in the same    *)
(* microsecond do.  LthreadSched leaves the clock out.                     *)
(*                                                                         *)
(* One second is K milliseconds and one millisecond K microseconds (1000   *)
(* in the code).  Only epoll_wait takes time here.                         *)
(***************************************************************************)
EXTENDS Integers, FiniteSets, FiniteSetsExt

CONSTANTS Sleeper,    \* lthreads
          K,          \* units, 1000 in the code
          Msecs,      \* the arguments of lthread_sleep
          MaxNow,     \* bound on the clock
          DefaultTimeout

ASSUME ClockAssumption ==
  /\ IsFiniteSet(Sleeper)
  /\ K \in Nat \ {0} /\ MaxNow \in Nat \ {0} /\ DefaultTimeout \in Nat
  /\ Msecs \subseteq Nat

VARIABLES
  now,                \* _lthread_diff_usecs(sched->birth, _lthread_usec_now())
  sleep_usecs,        \* per lthread: its key in the sleep tree, 0 when awake
  due,                \* per lthread: when the last sleep should end
  late,               \* history: how late the sleeper resumed last was
  polling             \* the loop is about to poll

clock_vars == <<now, sleep_usecs, due, late, polling>>

ClockInit ==
  /\ now = 1 /\ polling = FALSE
  /\ sleep_usecs = [l \in Sleeper |-> 0]
  /\ due = [l \in Sleeper |-> 0] /\ late = 0

Asleep == {l \in Sleeper : sleep_usecs[l] # 0}

(* RB_INSERT fails on a key in use: the key is incremented until it fits,  *)
(* in a loop that nothing interrupts and that ends at the least free key.  *)
(* That keys are unique is RB_INSERT's doing and holds here by definition; *)
(* what is to be shown is how far from its due time a key ends up.         *)
FreeKey(t) ==
  CHOOSE k \in t..(t + Cardinality(Sleeper)) :
    /\ \A l \in Asleep : sleep_usecs[l] # k
    /\ \A j \in t..(k - 1) : \E l \in Asleep : sleep_usecs[l] = j

(* Each lthread sleeps once: a second sleep is another lthread's.  Bound:  *)
(* the sleep and a delay of a second end before MaxNow.                    *)
_lthread_sched_sleep(l, msecs) ==
  /\ ~polling /\ due[l] = 0
  /\ LET t == now + msecs * K
     IN  /\ t + K * K <= MaxNow
         /\ sleep_usecs' = [sleep_usecs EXCEPT ![l] = FreeKey(t)]
         /\ due' = [due EXCEPT ![l] = t]
  /\ UNCHANGED <<now, late, polling>>

(* lthread_run: the due sleepers are resumed, then the loop goes on to its *)
(* poll.                                                                   *)
StepsOver ==
  /\ ~polling /\ polling' = TRUE
  /\ \A l \in Asleep : sleep_usecs[l] > now
  /\ UNCHANGED <<now, sleep_usecs, due, late>>

_lthread_min_timeout ==
  IF Asleep = {} THEN DefaultTimeout
  ELSE LET first == Min({sleep_usecs[l] : l \in Asleep})
       IN  IF first > now THEN first - now ELSE 0

(* Fault: the microseconds are taken for milliseconds from one second on.  *)
PollMsecs_Plain(usecs) == IF usecs \div (K * K) # 0 THEN usecs ELSE usecs \div K

(* The milliseconds passed to epoll_wait: `tv_nsec = (usecs % 1000) *      *)
(* 1000000' from one second on.                                            *)
PollMsecs(usecs) ==
  LET tv_sec == usecs \div (K * K)
  IN  IF tv_sec # 0 THEN tv_sec * K + (usecs % K) ELSE usecs \div K

(* epoll_wait returns when its time is over, or at an event before; with   *)
(* less than a millisecond to go the loop spins, which takes time too.     *)
_lthread_poll ==
  /\ polling
  /\ now' \in now..(now + Max({1, PollMsecs(_lthread_min_timeout) * K}))
  /\ now' <= MaxNow
  /\ polling' = FALSE
  /\ UNCHANGED <<sleep_usecs, due, late>>

(* The sleepers whose key has passed wake, in the order of their keys.     *)
_lthread_resume_expired ==
  /\ ~polling
  /\ \E l \in Asleep :
       /\ sleep_usecs[l] <= now
       /\ \A x \in Asleep : sleep_usecs[l] <= sleep_usecs[x]
       /\ sleep_usecs' = [sleep_usecs EXCEPT ![l] = 0]
       /\ late' = now - due[l]
  /\ UNCHANGED <<now, due, polling>>

ClockNext ==
  \/ \E l \in Sleeper, msecs \in Msecs : _lthread_sched_sleep(l, msecs)
  \/ StepsOver \/ _lthread_poll \/ _lthread_resume_expired

ClockSpec == ClockInit /\ [][ClockNext]_clock_vars

ClockTypeOK ==
  /\ now \in 1..MaxNow /\ polling \in BOOLEAN
  /\ sleep_usecs \in [Sleeper -> Nat] /\ due \in [Sleeper -> Nat]
  /\ late \in Int

(* A sleep ends no sooner than asked for and less than a second, and the   *)
(* keys skipped, after it: the odd fraction of _lthread_poll's timeout     *)
(* (lthread_sched.c:96) and the keys taken in the sleep tree cost no more. *)
SleepsOutItsTime ==
  LET bound == K * K + Cardinality(Sleeper)
  IN  /\ late \in 0..(bound - 1)
      /\ \A l \in Asleep : now - due[l] < bound

(* No two lthreads have the same key in the sleep tree: RB_REMOVE of one   *)
(* would otherwise be asked for a node the tree does not hold.             *)
KeysAreUnique ==
  \A l, x \in Asleep : sleep_usecs[l] = sleep_usecs[x] => l = x

(* The sleep tree and the timeout of the poll: no sleeper shares a key     *)
(* with another, none wakes early or is left asleep by too long a poll.    *)
TimersSound == KeysAreUnique /\ SleepsOutItsTime
=============================================================================
