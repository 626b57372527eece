---------------------------- MODULE LthreadSched ----------------------------
(***************************************************************************)
(* One lthread scheduler: the run loop of lthread_sched.c, the life of an  *)
(* lthread and the API an lthread calls while it runs (lthread.c), the     *)
(* waits on file descriptors (lthread_sched.c, lthread_epoll.c) and the    *)
(* scheduler's side of disk IO (lthread_io.c).                             *)
(*                                                                         *)
(* The scheduler and its lthreads share one pthread, so a step here is a   *)
(* stretch of C code between two context switches (or between two calls of *)
(* the user's function).  `ctl' says whose code runs:                      *)
(*    "loop"    lthread_run(), at the place `phase' names                  *)
(*    "resume"  _lthread_resume(cur), before _switch()                     *)
(*    "run"     cur itself                                                 *)
(*    "back"    _lthread_resume(cur), after _switch() returned             *)
(* The kernel (fd readiness) and the IO workers take steps at any time.    *)
(*                                                                         *)
(* The clock is abstracted: which sleepers are due when a pass of the loop *)
(* starts is a free choice, so every order of expiry is covered.           *)
(***************************************************************************)
EXTENDS Tailq

CONSTANTS Lthread,    \* struct lthread objects; one allocation each
          Cond,       \* struct lthread_cond objects
          Fd,         \* sockets
          Ev,         \* the events waited for, a subset of AllEv
          Api,        \* the calls the program makes
          Unguarded,  \* the clauses of the client contract it ignores
          NoLt, NoCond, NoFd    \* the null values

AllEv == {"READ", "WRITE"}

ApiNames ==
  {"create", "sleep", "yield", "cond", "join", "detach", "detach2",
   "wakeup", "cancel", "fd", "close", "io"}

(* The clauses of the client contract, see MayJoin and its neighbours.     *)
Clauses == {"join", "wakeup", "cancel", "fd", "batch"}

ASSUME ConstAssumption ==
  /\ Ev \subseteq AllEv
  /\ Api \subseteq ApiNames
  /\ Unguarded \subseteq Clauses
  /\ NoLt \notin Lthread
  /\ NoCond \notin Cond
  /\ NoFd \notin Fd

NoKey == <<NoFd, "READ">>         \* fd_wait = -1
Key   == Fd \X Ev                 \* FD_KEY(fd, ev)

(***************************************************************************)
(* The bits of lt->state.  LT_ST_READY is set and never tested, so it is   *)
(* left out; WAIT_IO stands for LT_ST_WAIT_IO_READ and _WRITE; the bits of *)
(* lthread_compute and of lthread_poll(fds) are not modelled here.         *)
(***************************************************************************)
Flag == {"NEW", "EXITED", "BUSY", "SLEEPING", "EXPIRED", "FDEOF", "DETACH",
         "CANCELLED", "WAIT_READ", "WAIT_WRITE", "WAIT_IO"}

WaitFlag(e) == IF e = "READ" THEN "WAIT_READ" ELSE "WAIT_WRITE"

VARIABLES
  st,        \* lt->state
  heap,      \* the lthreads that are allocated
  pc,        \* where an lthread's own code stands (see PC)
  arg,       \* the target of the join it is in, else NoLt
  on,        \* the condition variable it waits on, else NoCond
  lt_join,   \* lt->lt_join
  fd_wait,   \* lt->fd_wait
  ready,     \* sched->ready
  sleeping,  \* sched->sleeping
  busy,      \* sched->busy
  waiting,   \* sched->waiting
  defer,     \* sched->defer
  blocked,   \* c->blocked_lthreads
  io,        \* jobs handed to the IO workers and not finished
  epoll,     \* the kernel's interest list: fd -> event, "off" (oneshot) or "none"
  pending,   \* keys whose event has happened in the kernel
  phase, ctl, cur,
  due,       \* sleepers whose time has come in this pass
  last,      \* lt_last_ready
  events,    \* fds of the event list not handled yet
  ev         \* the event being handled

tvars == <<st, heap, pc, arg, on, lt_join>>
qvars == <<ready, sleeping, busy, blocked>>
fvars == <<fd_wait, waiting, epoll>>
ivars == <<io, defer>>
cvars == <<phase, ctl, cur>>
lvars == <<due, last, events, ev>>
vars  == <<tvars, qvars, fvars, ivars, pending, cvars, lvars>>

(* "new": created; "user": running its function; "sleep", "cond", "join",  *)
(* "fd", "io": inside that call; "gone": its code will not run again.      *)
PC == {"unborn", "new", "user", "sleep", "cond", "join", "fd", "io", "gone"}

NoEv == [fd |-> NoFd, next |-> "READ", hit |-> FALSE, eof |-> FALSE]

Phase == {"head", "expired", "ready", "defer", "poll", "events", "done", "abort"}

Has(lt, f) == f \in st[lt]
Stopped    == phase \in {"done", "abort"}
At(c)      == ctl = c /\ ~Stopped

-----------------------------------------------------------------------------
(***************************************************************************)
(* Helpers shared by the handlers.                                         *)
(***************************************************************************)

(* _lthread_desched_sleep: the flags and the sleep tree after it ran on    *)
(* every member of L.                                                      *)
DeschedFlags(flags) ==
  IF "SLEEPING" \in flags THEN flags \ {"SLEEPING", "EXPIRED"} ELSE flags
DeschedSt(L) == [l \in Lthread |-> IF l \in L THEN DeschedFlags(st[l]) ELSE st[l]]
SleepingWithout(L) == sleeping \ {l \in L : Has(l, "SLEEPING")}

(* RB_FIND in the waiting tree.                                            *)
WaitersOf(k) == {w \in waiting : fd_wait[w] = k}

(* _lthread_cancel_event(lt): flags lose the wait bit, ...                 *)
UnwaitFlags(flags) ==
  IF "WAIT_READ" \in flags THEN flags \ {"WAIT_READ"} ELSE flags \ {"WAIT_WRITE"}
Waits(lt) == Has(lt, "WAIT_READ") \/ Has(lt, "WAIT_WRITE")
(* Fault: the fd stays in the poller.                                      *)
ClearEpoll_Keeps(lt) == epoll
(* ... the fd leaves the poller, which must know it, ...                   *)
ClearEpoll(lt) == IF Waits(lt) THEN [epoll EXCEPT ![fd_wait[lt][1]] = "none"] ELSE epoll
ClearFails(lt) == Waits(lt) /\ epoll[fd_wait[lt][1]] = "none"
(* ... and whoever the tree holds under its key is descheduled.            *)
EventFound(lt) == IF fd_wait[lt] = NoKey THEN {} ELSE WaitersOf(fd_wait[lt])

(* _lthread_sched_sleep up to the yield: into the sleep tree if timed.     *)
SleepFlags(timed) == IF timed THEN {"SLEEPING"} ELSE {}
InsertSleeping(lt, timed) ==
  /\ sleeping' = IF timed THEN sleeping \cup {lt} ELSE sleeping
  /\ due' = due \ {lt}

(* _lthread_yield: control returns to _lthread_resume.                     *)
Yield == ctl' = "back" /\ UNCHANGED <<phase, cur>>

(* Faults: sched->current_lthread is left set; the ready loop does not     *)
(* stop at lt_last_ready.                                                  *)
ToLoop_KeepsCurrent ==
  ctl' = "loop" /\ phase' = (IF phase = "ready" /\ cur = last THEN "defer" ELSE phase) /\ UNCHANGED cur
ToLoop_NoLast == ctl' = "loop" /\ UNCHANGED phase /\ cur' = NoLt

(* The end of _lthread_resume: back to the loop that called it.            *)
ToLoop ==
  /\ ctl' = "loop"
  /\ phase' = IF phase = "ready" /\ cur = last THEN "defer" ELSE phase
  /\ cur' = NoLt

(* lt is done for: its joiner, if any, is made ready and a detached lthread *)
(* is freed.                                                               *)
Joiner(lt) == {j \in Lthread : lt_join[lt] = j}
ReadyWith(L) == IF L = {} THEN ready ELSE Append(ready, CHOOSE l \in L : TRUE)
(* Faults: the joiner is not made ready; a joinable lthread is freed too.  *)
Bury_ForgetsJoiner(lt) ==
  /\ sleeping' = SleepingWithout(Joiner(lt)) /\ UNCHANGED ready
  /\ lt_join' = [lt_join EXCEPT ![lt] = NoLt]
  /\ heap' = IF Has(lt, "DETACH") THEN heap \ {lt} ELSE heap
  /\ pc' = [pc EXCEPT ![lt] = "gone"]
Bury_AlwaysFrees(lt) ==
  /\ sleeping' = SleepingWithout(Joiner(lt)) /\ ready' = ReadyWith(Joiner(lt))
  /\ lt_join' = [lt_join EXCEPT ![lt] = NoLt]
  /\ heap' = heap \ {lt}
  /\ pc' = [pc EXCEPT ![lt] = "gone"]

Bury(lt) ==
  /\ sleeping' = SleepingWithout(Joiner(lt))
  /\ ready' = ReadyWith(Joiner(lt))
  /\ lt_join' = [lt_join EXCEPT ![lt] = NoLt]
  /\ heap' = IF Has(lt, "DETACH") THEN heap \ {lt} ELSE heap
  /\ pc' = [pc EXCEPT ![lt] = "gone"]

-----------------------------------------------------------------------------
(***************************************************************************)
(* _lthread_resume                                                         *)
(***************************************************************************)
ResumeCancelled ==
  /\ At("resume") /\ Has(cur, "CANCELLED")
  /\ Bury(cur)
  /\ st' = DeschedSt(Joiner(cur))
  /\ busy' = IF Has(cur, "BUSY") THEN busy \ {cur} ELSE busy
  /\ ToLoop
  /\ UNCHANGED <<arg, on, blocked, fvars, ivars, pending, lvars>>

ResumeSwitch ==
  /\ At("resume") /\ ~Has(cur, "CANCELLED")
  /\ ctl' = "run"
  /\ IF Has(cur, "NEW")      \* _lthread_init
       THEN /\ st' = [st EXCEPT ![cur] = {}]
            /\ pc' = [pc EXCEPT ![cur] = "user"]
       ELSE UNCHANGED <<st, pc>>
  /\ UNCHANGED <<heap, arg, on, lt_join, qvars, fvars, ivars, pending,
                 phase, cur, lvars>>

ResumeExited ==
  /\ At("back") /\ Has(cur, "EXITED")
  /\ Bury(cur)
  /\ st' = DeschedSt(Joiner(cur))
  /\ ToLoop
  /\ UNCHANGED <<arg, on, busy, blocked, fvars, ivars, pending, lvars>>

(* Fault: EXPIRED is not cleared.                                          *)
ResumeYielded_KeepsExpired ==
  /\ At("back") /\ ~Has(cur, "EXITED")
  /\ ToLoop
  /\ UNCHANGED <<tvars, qvars, fvars, ivars, pending, lvars>>

(* Only _lthread_resume_expired looks at the result: it clears EXPIRED.    *)
ResumeYielded ==
  /\ At("back") /\ ~Has(cur, "EXITED")
  /\ st' = [st EXCEPT ![cur] = IF phase = "expired" THEN @ \ {"EXPIRED"} ELSE @]
  /\ ToLoop
  /\ UNCHANGED <<heap, pc, arg, on, lt_join, qvars, fvars, ivars, pending, lvars>>

-----------------------------------------------------------------------------
(***************************************************************************)
(* lthread_run, one action per step of its loop.                           *)
(***************************************************************************)
Loop(p) == At("loop") /\ phase = p

(* Fault: a container is not looked at.                                    *)
IsDone_NotBusy == waiting = {} /\ sleeping = {} /\ ready = <<>>

IsDone == waiting = {} /\ busy = {} /\ sleeping = {} /\ ready = <<>>

RunReturns ==
  /\ Loop("head") /\ IsDone
  /\ phase' = "done"
  /\ UNCHANGED <<tvars, qvars, fvars, ivars, pending, ctl, cur, lvars>>

(* A new pass; the clock read in _lthread_resume_expired makes D due.      *)
StartPass(D) ==
  /\ Loop("head") /\ ~IsDone
  /\ phase' = "expired"
  /\ due' = D
  /\ UNCHANGED <<tvars, qvars, fvars, ivars, pending, ctl, cur, last, events, ev>>

(* Fault: EXPIRED is not set.                                              *)
Expire_NotMarked(lt) ==
  /\ Loop("expired") /\ lt \in due \cap sleeping
  /\ waiting' = waiting \ EventFound(lt)
  /\ sleeping' = SleepingWithout(EventFound(lt) \cup {lt})
  /\ st' = [DeschedSt(EventFound(lt)) EXCEPT ![lt] = DeschedFlags(UnwaitFlags(st[lt]))]
  /\ epoll' = ClearEpoll(lt) /\ fd_wait' = [fd_wait EXCEPT ![lt] = NoKey]
  /\ ctl' = "resume" /\ cur' = lt
  /\ UNCHANGED <<heap, pc, arg, on, lt_join, ready, busy, blocked, ivars, pending, phase, lvars>>

Expire(lt) ==
  /\ Loop("expired")
  /\ lt \in due \cap sleeping
  /\ LET found == EventFound(lt)
     IN  /\ waiting' = waiting \ found
         /\ sleeping' = SleepingWithout(found \cup {lt})
         /\ st' = [DeschedSt(found) EXCEPT
                     ![lt] = DeschedFlags(UnwaitFlags(st[lt])) \cup {"EXPIRED"}]
  /\ epoll' = ClearEpoll(lt)
  /\ fd_wait' = [fd_wait EXCEPT ![lt] = NoKey]
  /\ phase' = IF ClearFails(lt) THEN "abort" ELSE phase
  /\ ctl' = "resume" /\ cur' = lt
  /\ UNCHANGED <<heap, pc, arg, on, lt_join, ready, busy, blocked, ivars, pending, lvars>>

ExpireEnd ==
  /\ Loop("expired") /\ due \cap sleeping = {}
  /\ phase' = "ready"
  /\ due' = {}
  /\ last' = IF ready = <<>> THEN NoLt ELSE ready[Len(ready)]
  /\ UNCHANGED <<tvars, qvars, fvars, ivars, pending, ctl, cur, events, ev>>

RunReady ==
  /\ Loop("ready") /\ ready # <<>>
  /\ ready' = Tail(ready)
  /\ ctl' = "resume" /\ cur' = Head(ready)
  /\ UNCHANGED <<tvars, sleeping, busy, blocked, fvars, ivars, pending, phase, lvars>>

ReadyEnd ==
  /\ Loop("ready") /\ ready = <<>>
  /\ phase' = "defer"
  /\ UNCHANGED <<tvars, qvars, fvars, ivars, pending, ctl, cur, lvars>>

RunDefer ==
  /\ Loop("defer") /\ defer # <<>>
  /\ defer' = Tail(defer)
  /\ busy' = busy \ {Head(defer)}
  /\ ctl' = "resume" /\ cur' = Head(defer)
  /\ UNCHANGED <<tvars, ready, sleeping, blocked, fvars, io, pending, phase, lvars>>

DeferEnd ==
  /\ Loop("defer") /\ defer = <<>>
  /\ phase' = "poll"
  /\ last' = NoLt
  /\ UNCHANGED <<tvars, qvars, fvars, ivars, pending, ctl, cur, due, events, ev>>

(* _lthread_poll returns at once when an lthread is ready, or when the     *)
(* next sleeper is already late.                                           *)
PollSkip ==
  /\ Loop("poll") /\ (ready # <<>> \/ sleeping # {})
  /\ phase' = "head"
  /\ UNCHANGED <<tvars, qvars, fvars, ivars, pending, ctl, cur, lvars>>

(* epoll_wait: every armed fd whose event happened; EPOLLONESHOT disarms.  *)
Fired == {fd \in Fd : epoll[fd] \in Ev /\ <<fd, epoll[fd]>> \in pending}
Poll ==
  /\ Loop("poll") /\ ready = <<>>
  /\ phase' = "events"
  /\ events' = Fired
  /\ epoll' = [fd \in Fd |-> IF fd \in Fired THEN "off" ELSE epoll[fd]]
  /\ UNCHANGED <<tvars, qvars, fd_wait, waiting, ivars, pending, ctl, cur, due, last, ev>>

TakeEvent(fd, eof) ==
  /\ Loop("events") /\ ev = NoEv
  /\ fd \in events
  /\ events' = events \ {fd}
  /\ ev' = [fd |-> fd, next |-> "READ", hit |-> FALSE, eof |-> eof]
  /\ UNCHANGED <<tvars, qvars, fvars, ivars, pending, cvars, due, last>>

(* HANDLE_EV, once per event whatever the poller reported.                 *)
After(e) == IF e = "READ" THEN "WRITE" ELSE "check"
HandleEv ==
  /\ Loop("events") /\ ev.fd # NoFd /\ ev.next # "check"
  /\ LET W == WaitersOf(<<ev.fd, ev.next>>)
     IN  IF W = {}
           THEN /\ ev' = [ev EXCEPT !.next = After(@)]
                /\ UNCHANGED <<st, sleeping, waiting, cvars>>
           ELSE \E w \in W :
                  /\ waiting' = waiting \ {w}
                  /\ sleeping' = SleepingWithout({w})
                  /\ st' = [st EXCEPT ![w] = DeschedFlags(@) \cup
                                             (IF ev.eof THEN {"FDEOF"} ELSE {})]
                  /\ ev' = [ev EXCEPT !.next = After(@), !.hit = TRUE]
                  /\ ctl' = "resume" /\ cur' = w
                  /\ UNCHANGED phase
  /\ UNCHANGED <<heap, pc, arg, on, lt_join, ready, busy, blocked, fd_wait, epoll,
                 ivars, pending, due, last, events>>

(* assert(lt_write != NULL || lt_read != NULL)                             *)
EvChecked ==
  /\ Loop("events") /\ ev.next = "check"
  /\ phase' = IF ev.hit THEN phase ELSE "abort"
  /\ ev' = NoEv
  /\ UNCHANGED <<tvars, qvars, fvars, ivars, pending, ctl, cur, due, last, events>>

EventsEnd ==
  /\ Loop("events") /\ ev = NoEv /\ events = {}
  /\ phase' = "head"
  /\ UNCHANGED <<tvars, qvars, fvars, ivars, pending, ctl, cur, lvars>>

-----------------------------------------------------------------------------
(***************************************************************************)
(* The calls of the running lthread, and the contract its program keeps:   *)
(* the limits within which the code keeps its promises.  A clause named in *)
(* Unguarded is waived.                                                    *)
(***************************************************************************)
Call(op) == At("run") /\ pc[cur] = "user" /\ op \in Api
Waived(clause) == clause \in Unguarded

Parked(t) ==
  \/ pc[t] \in {"sleep", "fd"} /\ t \in sleeping
  \/ pc[t] = "fd" /\ t \in waiting
  \/ pc[t] = "io"

Joined(t) == \E l \in Lthread : arg[l] = t

(* Documented: an lthread is joined by one lthread, and either joined or   *)
(* detached.  "join": not joined on once the scheduler dropped it as       *)
(* cancelled.                                                              *)
MayJoin(t) ==
  /\ t \in heap /\ t # cur /\ ~Has(t, "DETACH") /\ ~Joined(t)
  /\ Waived("join") \/ pc[t] # "gone" \/ Has(t, "EXITED")
(* An lthread that is done may be freed already: it is not detached.       *)
MayDetach(t) == t \in heap /\ ~Joined(t) /\ pc[t] # "gone"
(* "wakeup": only an lthread in lthread_sleep is woken.                    *)
MayWakeup(t) == t \in heap /\ (Waived("wakeup") \/ pc[t] = "sleep")
(* "cancel": only an lthread parked in sleep, an fd wait or disk IO is     *)
(* cancelled, and once.  "batch": not while its fd's event is fetched and  *)
(* not handled.                                                            *)
MayCancel(t) ==
  /\ t \in heap
  /\ Waived("cancel") \/ (t # cur /\ Parked(t) /\ ~Has(t, "CANCELLED"))
  /\ Waived("batch") \/ fd_wait[t][1] \notin events
(* "fd": one lthread at a time waits on an fd.  "batch": it does not turn  *)
(* to writing on the fd while the event that woke it is being handled.     *)
MayWaitFd(fd, e) ==
  /\ Waived("fd") \/ \A w \in waiting : fd_wait[w][1] # fd
  /\ Waived("batch") \/ <<fd, e>> # <<ev.fd, ev.next>>
MayClose(fd)  == Waived("batch") \/ fd \notin events

lthread_create(t) ==
  /\ Call("create") /\ pc[t] = "unborn"
  /\ heap' = heap \cup {t}
  /\ st' = [st EXCEPT ![t] = {"NEW"}]
  /\ pc' = [pc EXCEPT ![t] = "new"]
  /\ ready' = Append(ready, t)
  /\ UNCHANGED <<arg, on, lt_join, sleeping, busy, blocked, fvars, ivars, pending,
                 cvars, lvars>>

(* lthread_exit, and the return of the lthread's function in _exec         *)
lthread_exit ==
  /\ At("run") /\ pc[cur] = "user"
  /\ st' = [st EXCEPT ![cur] = @ \cup {"EXITED"}]
  /\ Yield
  /\ UNCHANGED <<heap, pc, arg, on, lt_join, qvars, fvars, ivars, pending, lvars>>

lthread_detach ==
  /\ Call("detach") /\ MayDetach(cur)
  /\ st' = [st EXCEPT ![cur] = @ \cup {"DETACH"}]
  /\ UNCHANGED <<heap, pc, arg, on, lt_join, qvars, fvars, ivars, pending, cvars, lvars>>

lthread_detach2(t) ==
  /\ Call("detach2") /\ t # cur /\ MayDetach(t)
  /\ st' = [st EXCEPT ![t] = @ \cup {"DETACH"}]
  /\ UNCHANGED <<heap, pc, arg, on, lt_join, qvars, fvars, ivars, pending, cvars, lvars>>

(* lthread_sleep(msecs > 0)                                                *)
lthread_sleep ==
  /\ Call("sleep")
  /\ InsertSleeping(cur, TRUE)
  /\ st' = [st EXCEPT ![cur] = @ \cup SleepFlags(TRUE)]
  /\ pc' = [pc EXCEPT ![cur] = "sleep"]
  /\ Yield
  /\ UNCHANGED <<heap, arg, on, lt_join, ready, busy, blocked, fvars, ivars, pending,
                 last, events, ev>>

(* Fault: inserted at the head of the ready queue.                         *)
lthread_sleep0_AtHead ==
  /\ Call("yield") /\ ready' = <<cur>> \o ready /\ Yield
  /\ UNCHANGED <<tvars, sleeping, busy, blocked, fvars, ivars, pending, lvars>>

(* lthread_sleep(0), and _lthread_renice when its count of calls is full   *)
lthread_sleep0 ==
  /\ Call("yield")
  /\ ready' = Append(ready, cur)
  /\ Yield
  /\ UNCHANGED <<tvars, sleeping, busy, blocked, fvars, ivars, pending, lvars>>

lthread_wakeup(t) ==
  /\ Call("wakeup") /\ MayWakeup(t)
  /\ IF Has(t, "SLEEPING")
       THEN /\ ready' = Append(ready, t)
            /\ sleeping' = SleepingWithout({t})
            /\ st' = DeschedSt({t})
       ELSE UNCHANGED <<ready, sleeping, st>>
  /\ UNCHANGED <<heap, pc, arg, on, lt_join, busy, blocked, fvars, ivars, pending,
                 cvars, lvars>>

(* _lthread_sched_busy_sleep up to the yield                               *)
BusySleep(p, timed) ==
  /\ busy' = busy \cup {cur}
  /\ st' = [st EXCEPT ![cur] = @ \cup {"BUSY"} \cup SleepFlags(timed)]
  /\ InsertSleeping(cur, timed)
  /\ pc' = [pc EXCEPT ![cur] = p]
  /\ Yield

lthread_cond_wait(c, timed) ==
  /\ Call("cond")
  /\ blocked' = [blocked EXCEPT ![c] = Append(@, cur)]
  /\ on' = [on EXCEPT ![cur] = c]
  /\ BusySleep("cond", timed)
  /\ UNCHANGED <<heap, arg, lt_join, ready, fvars, ivars, pending, last, events, ev>>

(* Fault: the signalled lthread keeps its timer.                           *)
lthread_cond_signal_KeepsTimer(c) ==
  /\ Call("cond") /\ blocked[c] # <<>>
  /\ blocked' = [blocked EXCEPT ![c] = Tail(@)]
  /\ ready' = Append(ready, Head(blocked[c]))
  /\ UNCHANGED <<tvars, sleeping, busy, fvars, ivars, pending, cvars, lvars>>

lthread_cond_signal(c) ==
  /\ Call("cond") /\ blocked[c] # <<>>
  /\ blocked' = [blocked EXCEPT ![c] = Tail(@)]
  /\ sleeping' = SleepingWithout({Head(blocked[c])})
  /\ st' = DeschedSt({Head(blocked[c])})
  /\ ready' = Append(ready, Head(blocked[c]))
  /\ UNCHANGED <<heap, pc, arg, on, lt_join, busy, fvars, ivars, pending, cvars, lvars>>

lthread_cond_broadcast(c) ==
  /\ Call("cond") /\ blocked[c] # <<>>
  /\ blocked' = [blocked EXCEPT ![c] = <<>>]
  /\ LET B == {l \in Lthread : InQ(l, blocked[c])}
     IN  sleeping' = SleepingWithout(B) /\ st' = DeschedSt(B)
  /\ ready' = ready \o blocked[c]
  /\ UNCHANGED <<heap, pc, arg, on, lt_join, busy, fvars, ivars, pending, cvars, lvars>>

(* lthread_join on an lthread that is still around ...                     *)
lthread_join(t, timed) ==
  /\ Call("join") /\ MayJoin(t) /\ ~Has(t, "EXITED")
  /\ lt_join' = [lt_join EXCEPT ![t] = cur]
  /\ arg' = [arg EXCEPT ![cur] = t]
  /\ BusySleep("join", timed)
  /\ UNCHANGED <<heap, on, ready, blocked, fvars, ivars, pending, last, events, ev>>

(* ... and on one that has exited: freed, -1.                              *)
lthread_join_exited(t) ==
  /\ Call("join") /\ MayJoin(t) /\ Has(t, "EXITED")
  /\ lt_join' = [lt_join EXCEPT ![t] = cur]
  /\ heap' = heap \ {t}
  /\ UNCHANGED <<st, pc, arg, on, qvars, fvars, ivars, pending, cvars, lvars>>

lthread_cancel(t) ==
  /\ Call("cancel") /\ MayCancel(t)
  /\ LET found == EventFound(t)
     IN  /\ waiting' = waiting \ found
         /\ sleeping' = SleepingWithout(found \cup {t})
         /\ st' = [DeschedSt(found) EXCEPT
                     ![t] = UnwaitFlags(DeschedFlags(st[t])) \cup {"CANCELLED"}]
  /\ epoll' = ClearEpoll(t)
  /\ fd_wait' = [fd_wait EXCEPT ![t] = NoKey]
  /\ phase' = IF ClearFails(t) THEN "abort" ELSE phase
  /\ ready' = IF Has(t, "WAIT_IO") THEN ready ELSE Append(ready, t)
  /\ UNCHANGED <<heap, pc, arg, on, lt_join, busy, blocked, ivars, pending,
                 ctl, cur, lvars>>

(* Fault: the disarmed oneshot registration of an fd is not armed again.   *)
lthread_wait_NotRearmed(fd, e, timed) ==
  /\ Call("fd") /\ MayWaitFd(fd, e)
  /\ epoll' = [epoll EXCEPT ![fd] = IF @ = "none" THEN e ELSE @]
  /\ st' = [st EXCEPT ![cur] = @ \cup {WaitFlag(e)} \cup SleepFlags(timed)]
  /\ fd_wait' = [fd_wait EXCEPT ![cur] = <<fd, e>>]
  /\ waiting' = waiting \cup {cur}
  /\ InsertSleeping(cur, timed)
  /\ pc' = [pc EXCEPT ![cur] = "fd"]
  /\ Yield
  /\ UNCHANGED <<heap, arg, on, lt_join, ready, busy, blocked, ivars, pending, last, events, ev>>

(* _lthread_sched_event up to the yield, from lthread_wait_read/_write and *)
(* the socket calls that met EAGAIN                                        *)
lthread_wait(fd, e, timed) ==
  /\ Call("fd") /\ MayWaitFd(fd, e)
  /\ epoll' = [epoll EXCEPT ![fd] = e]
  /\ IF Waits(cur) \/ WaitersOf(<<fd, e>>) # {}
       THEN /\ phase' = "abort"
            /\ UNCHANGED <<st, fd_wait, waiting, sleeping, due, pc, ctl, cur>>
       ELSE /\ st' = [st EXCEPT ![cur] = @ \cup {WaitFlag(e)} \cup SleepFlags(timed)]
            /\ fd_wait' = [fd_wait EXCEPT ![cur] = <<fd, e>>]
            /\ waiting' = waiting \cup {cur}
            /\ InsertSleeping(cur, timed)
            /\ pc' = [pc EXCEPT ![cur] = "fd"]
            /\ Yield
  /\ UNCHANGED <<heap, arg, on, lt_join, ready, busy, blocked, ivars, pending,
                 last, events, ev>>

(* Fault: the waiters are not made ready.                                  *)
lthread_close_NotReady(fd) ==
  /\ Call("close") /\ MayClose(fd)
  /\ LET C == {w \in waiting : fd_wait[w][1] = fd}
     IN  waiting' = waiting \ C /\ sleeping' = SleepingWithout(C) /\ st' = DeschedSt(C)
  /\ epoll' = [epoll EXCEPT ![fd] = "none"]
  /\ pending' = {k \in pending : k[1] # fd}
  /\ UNCHANGED <<heap, pc, arg, on, lt_join, ready, busy, blocked, fd_wait, ivars, cvars, lvars>>

lthread_close(fd) ==
  /\ Call("close") /\ MayClose(fd)
  /\ LET R == WaitersOf(<<fd, "READ">>)
         W == WaitersOf(<<fd, "WRITE">>)
         closed == DeschedSt(R \cup W)
     IN  /\ waiting' = waiting \ (R \cup W)
         /\ sleeping' = SleepingWithout(R \cup W)
         /\ ready' = ready \o (IF R = {} THEN <<>> ELSE <<CHOOSE r \in R : TRUE>>)
                           \o (IF W = {} THEN <<>> ELSE <<CHOOSE w \in W : TRUE>>)
         /\ st' = [l \in Lthread |->
                     IF l \in R \cup W THEN closed[l] \cup {"FDEOF"}
                     ELSE IF l = cur THEN st[l] \ {"FDEOF"} ELSE st[l]]
  /\ epoll' = [epoll EXCEPT ![fd] = "none"]
  /\ pending' = {k \in pending : k[1] # fd}
  /\ UNCHANGED <<heap, pc, arg, on, lt_join, busy, blocked, fd_wait, ivars, cvars, lvars>>

(* lthread_io_read / lthread_io_write up to the yield                      *)
lthread_io ==
  /\ Call("io")
  /\ st' = [st EXCEPT ![cur] = @ \cup {"WAIT_IO"}]
  /\ busy' = busy \cup {cur}
  /\ io' = io \cup {cur}
  /\ pc' = [pc EXCEPT ![cur] = "io"]
  /\ Yield
  /\ UNCHANGED <<heap, arg, on, lt_join, ready, sleeping, blocked, fvars, defer,
                 pending, lvars>>

-----------------------------------------------------------------------------
(***************************************************************************)
(* What each blocking call does once its lthread is switched in again.     *)
(***************************************************************************)
Back(p) == At("run") /\ pc[cur] = p

SleepReturns ==
  /\ Back("sleep")
  /\ st' = [st EXCEPT ![cur] = @ \ {"SLEEPING"}]
  /\ pc' = [pc EXCEPT ![cur] = "user"]
  /\ UNCHANGED <<heap, arg, on, lt_join, qvars, fvars, ivars, pending, cvars, lvars>>

(* the end of _lthread_sched_busy_sleep                                    *)
Unbusy ==
  /\ st' = [st EXCEPT ![cur] = @ \ {"SLEEPING", "BUSY"}]
  /\ busy' = busy \ {cur}
  /\ pc' = [pc EXCEPT ![cur] = "user"]

CondWaitReturns ==
  /\ Back("cond")
  /\ Unbusy
  /\ blocked' = IF Has(cur, "EXPIRED")
                  THEN [blocked EXCEPT ![on[cur]] = TailqRemove(@, cur)]
                  ELSE blocked
  /\ on' = [on EXCEPT ![cur] = NoCond]
  /\ UNCHANGED <<heap, arg, lt_join, ready, sleeping, fvars, ivars, pending, cvars, lvars>>

(* Fault: the target is freed after a timeout too.                         *)
JoinReturns_AlwaysFrees ==
  /\ Back("join") /\ Unbusy
  /\ heap' = heap \ {arg[cur]}
  /\ arg' = [arg EXCEPT ![cur] = NoLt]
  /\ UNCHANGED <<on, lt_join, ready, sleeping, blocked, fvars, ivars, pending, cvars, lvars>>

JoinReturns ==
  /\ Back("join")
  /\ Unbusy
  /\ IF Has(cur, "EXPIRED")
       THEN lt_join' = [lt_join EXCEPT ![arg[cur]] = NoLt] /\ heap' = heap
       ELSE heap' = heap \ {arg[cur]} /\ lt_join' = lt_join
  /\ arg' = [arg EXCEPT ![cur] = NoLt]
  /\ UNCHANGED <<on, ready, sleeping, blocked, fvars, ivars, pending, cvars, lvars>>

(* the end of _lthread_sched_event; the caller then reads or writes the fd *)
FdReturns ==
  /\ Back("fd")
  /\ st' = [st EXCEPT ![cur] = @ \ {"SLEEPING", "WAIT_READ", "WAIT_WRITE"}]
  /\ fd_wait' = [fd_wait EXCEPT ![cur] = NoKey]
  /\ pending' = IF Has(cur, "FDEOF") THEN pending ELSE pending \ {fd_wait[cur]}
  /\ pc' = [pc EXCEPT ![cur] = "user"]
  /\ UNCHANGED <<heap, arg, on, lt_join, qvars, waiting, epoll, ivars, cvars, lvars>>

IoReturns ==
  /\ Back("io")
  /\ st' = [st EXCEPT ![cur] = @ \ {"WAIT_IO"}]
  /\ pc' = [pc EXCEPT ![cur] = "user"]
  /\ UNCHANGED <<heap, arg, on, lt_join, qvars, fvars, ivars, pending, cvars, lvars>>

-----------------------------------------------------------------------------
(* An IO worker finished lt's job and put it on the defer queue.           *)
IoDone(lt) ==
  /\ ~Stopped /\ lt \in io
  /\ io' = io \ {lt}
  /\ defer' = Append(defer, lt)
  /\ UNCHANGED <<tvars, qvars, fvars, pending, cvars, lvars>>

(* The kernel: a peer sent data, or a send buffer drained.  Only epoll_wait *)
(* looks, so nothing is lost by letting it happen just before.             *)
Arrive(k) ==
  /\ Loop("poll") /\ k \notin pending
  /\ pending' = pending \cup {k}
  /\ UNCHANGED <<tvars, qvars, fvars, ivars, cvars, lvars>>

(* lthread_run has returned, or an assertion ended the process.            *)
Stop == Stopped /\ UNCHANGED vars

-----------------------------------------------------------------------------
(* lthread_run is entered with the lthreads main created; here one.        *)
InitWith(m) ==
  /\ st = [l \in Lthread |-> IF l = m THEN {"NEW"} ELSE {}]
  /\ heap = {m}
  /\ pc = [l \in Lthread |-> IF l = m THEN "new" ELSE "unborn"]
  /\ arg = [l \in Lthread |-> NoLt]
  /\ on = [l \in Lthread |-> NoCond]
  /\ lt_join = [l \in Lthread |-> NoLt]
  /\ fd_wait = [l \in Lthread |-> NoKey]
  /\ ready = <<m>>
  /\ sleeping = {} /\ busy = {} /\ waiting = {} /\ io = {}
  /\ defer = <<>>
  /\ blocked = [c \in Cond |-> <<>>]
  /\ epoll = [fd \in Fd |-> "none"]
  /\ pending = {}
  /\ phase = "head" /\ ctl = "loop" /\ cur = NoLt
  /\ due = {} /\ last = NoLt /\ events = {} /\ ev = NoEv

Init == \E m \in Lthread : InitWith(m)

Resume == ResumeCancelled \/ ResumeSwitch \/ ResumeExited \/ ResumeYielded

Loops ==
  \/ RunReturns
  \/ \E D \in SUBSET sleeping : StartPass(D)
  \/ \E lt \in Lthread : Expire(lt)
  \/ ExpireEnd \/ RunReady \/ ReadyEnd \/ RunDefer \/ DeferEnd
  \/ PollSkip \/ Poll
  \/ \E fd \in Fd, eof \in BOOLEAN : TakeEvent(fd, eof)
  \/ HandleEv \/ EvChecked \/ EventsEnd

Returns ==
  \/ SleepReturns \/ CondWaitReturns \/ JoinReturns \/ FdReturns \/ IoReturns

(* calls that give up the CPU *)
Yields ==
  \/ lthread_exit \/ lthread_sleep \/ lthread_sleep0 \/ lthread_io
  \/ \E c \in Cond, timed \in BOOLEAN : lthread_cond_wait(c, timed)
  \/ \E t \in Lthread, timed \in BOOLEAN : lthread_join(t, timed)
  \/ \E fd \in Fd, e \in Ev, timed \in BOOLEAN : lthread_wait(fd, e, timed)

Calls ==
  \/ lthread_detach
  \/ \E t \in Lthread : \/ lthread_create(t) \/ lthread_detach2(t)
                        \/ lthread_wakeup(t) \/ lthread_join_exited(t)
                        \/ lthread_cancel(t)
  \/ \E c \in Cond : lthread_cond_signal(c) \/ lthread_cond_broadcast(c)
  \/ \E fd \in Fd : lthread_close(fd)

Outside ==
  \/ \E lt \in Lthread : IoDone(lt)
  \/ \E k \in Key : Arrive(k)

Next == Resume \/ Loops \/ Returns \/ Yields \/ Calls \/ Outside \/ Stop

Spec == Init /\ [][Next]_vars

(***************************************************************************)
(* The scheduler's own code always goes on; an lthread gives up the CPU    *)
(* sooner or later, which is what cooperative scheduling asks of it; an IO *)
(* worker finishes its jobs; and the clock advances, so a sleeper is due   *)
(* in some later pass if there are passes without end.  Nothing is assumed *)
(* of the kernel's events.                                                 *)
(***************************************************************************)
ClockReaches(lt) == \E D \in SUBSET sleeping : lt \in D /\ StartPass(D)

Fairness ==
  /\ WF_vars(Resume \/ Loops \/ Returns)
  /\ WF_vars(Yields)
  /\ \A lt \in Lthread : WF_vars(IoDone(lt)) /\ SF_vars(ClockReaches(lt))

FairSpec == Spec /\ Fairness

-----------------------------------------------------------------------------
(***************************************************************************)
(* Properties                                                              *)
(***************************************************************************)
TypeOK ==
  /\ st \in [Lthread -> SUBSET Flag]
  /\ heap \subseteq Lthread
  /\ pc \in [Lthread -> PC]
  /\ arg \in [Lthread -> Lthread \cup {NoLt}]
  /\ on \in [Lthread -> Cond \cup {NoCond}]
  /\ lt_join \in [Lthread -> Lthread \cup {NoLt}]
  /\ fd_wait \in [Lthread -> Key \cup {NoKey}]
  /\ ready \in Seq(Lthread)
  /\ sleeping \subseteq Lthread
  /\ busy \subseteq Lthread
  /\ waiting \subseteq Lthread
  /\ defer \in Seq(Lthread)
  /\ blocked \in [Cond -> Seq(Lthread)]
  /\ io \subseteq Lthread
  /\ epoll \in [Fd -> Ev \cup {"off", "none"}]
  /\ pending \subseteq Key
  /\ phase \in Phase
  /\ ctl \in {"loop", "resume", "run", "back"}
  /\ cur \in Lthread \cup {NoLt}
  /\ ctl = "loop" <=> cur = NoLt
  /\ due \subseteq Lthread
  /\ last \in Lthread \cup {NoLt}
  /\ events \subseteq Fd
  /\ ev \in [fd : Fd \cup {NoFd}, next : {"READ", "WRITE", "check"},
             hit : BOOLEAN, eof : BOOLEAN]

Active(lt)  == ctl \in {"resume", "run"} /\ cur = lt
Blocked(lt) == pc[lt] = "cond" /\ InQ(lt, blocked[on[lt]])

(* Every queue of the scheduler threads through one link field per         *)
(* lthread, so an lthread may be in a queue once, and may be scheduled to  *)
(* run by one party only: the ready queue, the defer queue, an IO worker   *)
(* or the CPU.  Whoever is in the ready queue has left the sleep tree, the *)
(* event tree and its condition variable.                                  *)
OnePlace ==
  /\ Distinct(ready) /\ Distinct(defer) /\ \A c \in Cond : Distinct(blocked[c])
  /\ \A lt \in Lthread :
       /\ ~(InQ(lt, ready) /\ (InQ(lt, defer) \/ Active(lt) \/ lt \in io))
       /\ ~(InQ(lt, defer) /\ (Active(lt) \/ lt \in io))
       /\ ~(Active(lt) /\ lt \in io)
       /\ InQ(lt, ready) => lt \notin sleeping \cup waiting /\ ~Blocked(lt)
       /\ Active(lt) => lt \notin sleeping \cup waiting

(* An lthread that is not done can always be reached by something that     *)
(* will run it: a queue, a timer, its fd, a worker, a signal, or the exit  *)
(* of the lthread it joins on.                                             *)
NoLostLthread ==
  \A lt \in heap : pc[lt] # "gone" =>
    \/ InQ(lt, ready) \/ InQ(lt, defer) \/ Active(lt)
    \/ ctl = "back" /\ cur = lt /\ Has(lt, "EXITED")
    \/ lt \in sleeping \cup waiting \cup io
    \/ Blocked(lt)
    \/ /\ pc[lt] = "join" /\ lt_join[arg[lt]] = lt
       /\ pc[arg[lt]] # "gone"

(* Nothing the scheduler will follow points to a freed lthread.            *)
NoDangling ==
  /\ \A lt \in Lthread : \/ InQ(lt, ready) \/ InQ(lt, defer) \/ Active(lt)
                          \/ \E c \in Cond : InQ(lt, blocked[c])
                         => lt \in heap
  /\ sleeping \cup waiting \cup busy \cup io \subseteq heap
  /\ \A lt \in heap : pc[lt] = "join" => arg[lt] \in heap
  /\ \A lt \in heap : pc[lt] # "gone" => lt_join[lt] \in heap \cup {NoLt}

(* lthread_cond_wait reports -2 and unlinks itself exactly when nobody     *)
(* signalled it: EXPIRED is set and cleared at the right times.            *)
CondWaitResult ==
  Back("cond") => (Has(cur, "EXPIRED") <=> InQ(cur, blocked[on[cur]]))

(* lthread_join frees its target only once the target is over, and on -2   *)
(* the target is still there for the next join.                            *)
JoinResult ==
  Back("join") =>
    /\ ~Has(cur, "EXPIRED") => pc[arg[cur]] = "gone"
    /\ Has(cur, "EXPIRED") => pc[arg[cur]] # "gone" /\ lt_join[arg[cur]] = cur

(* "Runs lthread scheduler until all lthreads return": the four containers *)
(* _lthread_sched_isdone looks at account for every unfinished lthread.    *)
RunsUntilAllReturn ==
  phase = "done" => \A lt \in Lthread : pc[lt] \in {"unborn", "gone"}

(* Every lthread in the waiting tree is heard: the poller is armed for its *)
(* event, or the event was fetched and the loop is still to look for its   *)
(* waiter.  A oneshot registration that is spent is never left behind.     *)
Heard ==
  \A lt \in waiting : \/ epoll[fd_wait[lt][1]] = fd_wait[lt][2]
                      \/ fd_wait[lt][1] \in events
                      \/ fd_wait[lt][1] = ev.fd /\ ~ev.hit

(* However a wait on an fd ends (event, timeout, lthread_close or          *)
(* lthread_cancel), the waiting tree, the sleep tree, the ready queue and  *)
(* the poller agree on where the lthread is and what it waits for, it is   *)
(* in one of them until it runs, and lthread_run goes on until it has      *)
(* ended.                                                                  *)
FdConsistent == OnePlace /\ NoLostLthread /\ RunsUntilAllReturn /\ Heard

(* No assertion of the scheduler or of the poller fails.                   *)
NoAbort == phase # "abort"

(* The memory of an lthread, its stack included, is freed only when its    *)
(* code is over.                                                           *)
FreedWhenGone == [][\A lt \in heap \ heap' : pc'[lt] = "gone"]_vars

(* What lthread.rst says of lthread_detach and lthread_detach2: an lthread *)
(* is marked as detached, and freed once it exits.                         *)
DetachSticks == [][\A lt \in heap \cap heap' : Has(lt, "DETACH") => "DETACH" \in st'[lt]]_vars

-----------------------------------------------------------------------------
(* Whoever is in the ready queue gets the CPU, however many others keep    *)
(* the queue busy: the stretch of the queue run in a pass ends at          *)
(* lt_last_ready.  (Without disk IO: the loop over the defer queue has no  *)
(* such end, see the README.)                                              *)
ReadyRuns == \A lt \in Lthread : InQ(lt, ready) ~> cur = lt

(* A timed wait ends: whatever happens meanwhile, the lthread runs again   *)
(* or is dropped as cancelled.                                             *)
TimersFire == \A lt \in Lthread : lt \in sleeping ~> cur = lt

(* An lthread waiting on an fd whose event has happened stops waiting.     *)
Served(lt) == (lt \in waiting /\ fd_wait[lt] \in pending) ~> lt \notin waiting
FdServed   == \A lt \in Lthread : Served(lt)

(* The same, provided the loop gets to its poll again and again: the       *)
(* oneshot registration of a waiter is never lost.                         *)
FdServedWhenPolled == []<>(phase = "events") => FdServed

-----------------------------------------------------------------------------
(***************************************************************************)
(* The inductive invariant behind the safety properties, for a program     *)
(* that keeps the contract (Unguarded = {}).  It says for every place      *)
(* `pc' an lthread's code can stand at, which queues hold it and which     *)
(* bits of its state are set.                                              *)
(***************************************************************************)
QueuesOK ==
  /\ Distinct(ready) /\ Distinct(defer) /\ \A c \in Cond : Distinct(blocked[c])
  /\ \A lt \in Lthread :
       /\ InQ(lt, ready) => pc[lt] \notin {"unborn", "gone", "io"} /\ ~Active(lt)
       /\ InQ(lt, defer) => pc[lt] = "io" /\ ~Active(lt)
       /\ cur = lt => pc[lt] \notin {"unborn", "gone"}
  /\ \A lt \in Lthread, c \in Cond : InQ(lt, blocked[c]) => pc[lt] = "cond" /\ on[lt] = c

FlagsOf(lt) ==
  /\ Has(lt, "NEW") <=> pc[lt] = "new"
  /\ Has(lt, "SLEEPING") <=> lt \in sleeping
  /\ Has(lt, "BUSY") <=> pc[lt] \in {"cond", "join"}
  /\ Has(lt, "EXPIRED") => pc[lt] = "gone" \/ (phase \in {"expired", "abort"} /\ ctl # "loop" /\ cur = lt)
  /\ Has(lt, "EXITED") => pc[lt] = "gone" \/ (pc[lt] = "user" /\ ctl = "back" /\ cur = lt)
  /\ Has(lt, "EXITED") => ~InQ(lt, ready)
  /\ Has(lt, "CANCELLED") => /\ pc[lt] \in {"sleep", "fd", "io", "gone"}
                             /\ cur = lt => ctl = "resume"
                             /\ ~Waits(lt)
  /\ pc[lt] = "io" => Has(lt, "WAIT_IO")
  /\ Has(lt, "WAIT_IO") => pc[lt] \in {"io", "gone"}
  /\ Waits(lt) => pc[lt] = "fd"
  /\ ~(Has(lt, "WAIT_READ") /\ Has(lt, "WAIT_WRITE"))

FlagsOK == \A lt \in Lthread : FlagsOf(lt)

HeapOK ==
  \A lt \in Lthread :
    /\ lt \in heap => pc[lt] # "unborn"
    /\ pc[lt] \notin {"unborn", "gone"} => lt \in heap

(* Where an lthread that is neither done nor fresh is to be found.         *)
PlacesOK ==
  \A lt \in Lthread :
    /\ pc[lt] = "new" => InQ(lt, ready) \/ Active(lt)
    /\ pc[lt] = "user" => \/ InQ(lt, ready) \/ Active(lt)
                          \/ ctl = "back" /\ cur = lt /\ Has(lt, "EXITED")
    /\ pc[lt] = "sleep" => lt \in sleeping \/ InQ(lt, ready) \/ Active(lt)
    /\ pc[lt] = "fd" => lt \in waiting \/ InQ(lt, ready) \/ Active(lt)
    /\ pc[lt] = "io" => lt \in io \/ InQ(lt, defer) \/ Active(lt)
    /\ lt \in io => pc[lt] = "io" /\ ~InQ(lt, defer) /\ ~Active(lt)
    /\ lt \in waiting => pc[lt] = "fd" /\ ~InQ(lt, ready) /\ ~Active(lt)
    /\ lt \in sleeping => /\ pc[lt] \in {"sleep", "fd", "cond", "join"}
                          /\ ~InQ(lt, ready) /\ ~Active(lt)
                          /\ pc[lt] = "fd" => lt \in waiting
    /\ lt \in busy <=> (pc[lt] \in {"cond", "join"} \/ (pc[lt] = "io" /\ ~Active(lt)))

CondOK ==
  \A lt \in Lthread : pc[lt] = "cond" =>
    /\ on[lt] \in Cond
    /\ InQ(lt, ready) => ~InQ(lt, blocked[on[lt]])
    /\ Active(lt) => (Has(lt, "EXPIRED") <=> InQ(lt, blocked[on[lt]]))
    /\ ~InQ(lt, ready) /\ ~Active(lt) => InQ(lt, blocked[on[lt]])

(* A joiner is linked from its target until the target is over; from then  *)
(* on it is on its way to free the target.                                 *)
JoinOK ==
  /\ \A lt \in Lthread : arg[lt] # NoLt <=> pc[lt] = "join"
  /\ \A l, m \in Lthread : arg[l] = arg[m] /\ arg[l] # NoLt => l = m
  /\ \A lt \in Lthread : pc[lt] = "join" =>
       /\ arg[lt] \in heap /\ ~Has(arg[lt], "DETACH") /\ arg[lt] # lt
       /\ InQ(lt, ready) => pc[arg[lt]] = "gone"
       /\ Active(lt) => (Has(lt, "EXPIRED") <=> pc[arg[lt]] # "gone")
       /\ ~InQ(lt, ready) /\ ~Active(lt) => pc[arg[lt]] # "gone"
       /\ pc[arg[lt]] # "gone" => lt_join[arg[lt]] = lt
  /\ \A t \in Lthread : lt_join[t] # NoLt /\ pc[t] # "gone" =>
       pc[lt_join[t]] = "join" /\ arg[lt_join[t]] = t

FdOK ==
  /\ \A lt \in Lthread : fd_wait[lt] # NoKey => pc[lt] = "fd" /\ ~Has(lt, "CANCELLED")
  /\ \A lt \in waiting : fd_wait[lt] # NoKey
  /\ \A v, w \in waiting : fd_wait[v] = fd_wait[w] => v = w

(* lthread_run returns for good.                                           *)
DoneOK == phase = "done" => ctl = "loop" /\ IsDone

IInv == TypeOK /\ QueuesOK /\ FlagsOK /\ HeapOK /\ PlacesOK /\ CondOK /\ JoinOK /\ FdOK
=============================================================================
