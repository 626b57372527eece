------------------------------ MODULE IoWorker ------------------------------
(***************************************************************************)
(* Disk IO (lthread_io.c): the lthreads of several schedulers, each in a   *)
(* pthread of its own, hand read and write jobs to native worker threads.  *)
(* A step is a stretch of one pthread's code that touches shared state     *)
(* once: a critical section, or one access outside any.                    *)
(*                                                                         *)
(* Of the scheduler only what disk IO meets is kept: the lthreads that are *)
(* ready to run, the defer queue, the busy list, the poll with its eventfd *)
(* and the end of lthread_run.  LthreadSched has the rest.                 *)
(***************************************************************************)
EXTENDS Tailq

CONSTANTS Lthread, Sched, NoLt,
          SchedOf(_),     \* lt->sched
          IO_WORKERS

ASSUME IoAssumption ==
  /\ IO_WORKERS \in Nat \ {0}
  /\ NoLt \notin Lthread
  /\ \A lt \in Lthread : SchedOf(lt) \in Sched

Worker == 0..(IO_WORKERS - 1)

VARIABLES
  io_selector,   \* static, shared by all schedulers, behind no lock
  lthreads,      \* io_worker->lthreads
  wpc, hand,     \* a worker's place in its code, and its lt
  spc, cur, sel, \* a scheduler's place, the lthread it runs, its io_selector read
  lpc,           \* an lthread is in "user" code, in an "io" call or "gone"
  ret,           \* lt->io.ret: "stale" until the worker has stored a result
  heap,          \* the lthreads that are allocated
  busy, defer,   \* sched->busy, sched->defer
  eventfd,       \* sched->eventfd is readable
  crashed        \* an assertion failed

svars == <<io_selector, spc, cur, sel>>
wvars == <<wpc, hand>>
tvars == <<lpc, ret, heap>>
vars  == <<svars, wvars, tvars, lthreads, busy, defer, eventfd, crashed>>

WPC == {"check", "work", "defer", "trigger", "park", "wait"}
SPC == {"loop", "store", "queue", "signal", "poll", "done"}

Init ==
  /\ io_selector = 0
  /\ lthreads = [w \in Worker |-> <<>>]
  /\ wpc = [w \in Worker |-> "check"] /\ hand = [w \in Worker |-> NoLt]
  /\ spc = [s \in Sched |-> "loop"] /\ cur = [s \in Sched |-> NoLt]
  /\ sel = [s \in Sched |-> 0]
  /\ lpc = [lt \in Lthread |-> "user"]
  /\ ret = [lt \in Lthread |-> "stale"]
  /\ heap = Lthread
  /\ busy = [s \in Sched |-> {}] /\ defer = [s \in Sched |-> <<>>]
  /\ eventfd = [s \in Sched |-> FALSE]
  /\ crashed = FALSE

-----------------------------------------------------------------------------
(* A scheduler's pthread                                                   *)

Ready(s) == {lt \in Lthread : SchedOf(lt) = s /\ lpc[lt] = "user"}
SchedAt(s, p, q) == ~crashed /\ spc[s] = p /\ spc' = [spc EXCEPT ![s] = q]

(* lthread_io_read, lthread_io_write: the job is described in lt->io, and  *)
(* _lthread_io_add picks a worker: io_selector is read, ...                *)
lthread_io(s, lt) ==
  /\ SchedAt(s, "loop", "store") /\ lt \in Ready(s)
  /\ cur' = [cur EXCEPT ![s] = lt]
  /\ lpc' = [lpc EXCEPT ![lt] = "io"]
  /\ ret' = [ret EXCEPT ![lt] = "stale"]
  /\ sel' = [sel EXCEPT ![s] = io_selector]
  /\ UNCHANGED <<io_selector, wvars, heap, lthreads, busy, defer, eventfd, crashed>>

(* Faults: no %; the lthread is not put on the busy list.                  *)
StoreSelector_NoWrap(s) ==
  /\ SchedAt(s, "store", "queue")
  /\ io_selector' = sel[s] + 1
  /\ busy' = [busy EXCEPT ![s] = @ \cup {cur[s]}]
  /\ UNCHANGED <<cur, sel, wvars, tvars, lthreads, defer, eventfd, crashed>>
StoreSelector_NotBusy(s) ==
  /\ SchedAt(s, "store", "queue")
  /\ io_selector' = (sel[s] + 1) % IO_WORKERS
  /\ UNCHANGED <<cur, sel, wvars, tvars, lthreads, busy, defer, eventfd, crashed>>

(* ... and written.  The library is built with -O2, which leaves one store *)
(* of the value after the %; the race with other schedulers is between the *)
(* read and this store.                                                    *)
StoreSelector(s) ==
  /\ SchedAt(s, "store", "queue")
  /\ io_selector' = (sel[s] + 1) % IO_WORKERS
  /\ busy' = [busy EXCEPT ![s] = @ \cup {cur[s]}]
  /\ UNCHANGED <<cur, sel, wvars, tvars, lthreads, defer, eventfd, crashed>>

QueueJob(s) ==
  /\ SchedAt(s, "queue", "signal")
  /\ lthreads' = [lthreads EXCEPT ![sel[s]] = Append(@, cur[s])]
  /\ UNCHANGED <<io_selector, cur, sel, wvars, tvars, busy, defer, eventfd, crashed>>

(* pthread_cond_signal: it wakes the worker if it waits, and is lost if    *)
(* not.  Then the lthread yields.                                          *)
SignalWorker(s) ==
  /\ SchedAt(s, "signal", "loop")
  /\ wpc' = [wpc EXCEPT ![sel[s]] = IF @ = "wait" THEN "check" ELSE @]
  /\ cur' = [cur EXCEPT ![s] = NoLt] /\ sel' = [sel EXCEPT ![s] = 0]
  /\ UNCHANGED <<io_selector, hand, tvars, lthreads, busy, defer, eventfd, crashed>>

(* An lthread's function returns; a detached lthread is freed at once.     *)
LthreadReturns(s, lt, detached) ==
  /\ SchedAt(s, "loop", "loop") /\ lt \in Ready(s)
  /\ lpc' = [lpc EXCEPT ![lt] = "gone"]
  /\ heap' = IF detached THEN heap \ {lt} ELSE heap
  /\ UNCHANGED <<io_selector, cur, sel, wvars, ret, lthreads, busy, defer, eventfd, crashed>>

(* Step 3 of lthread_run; the lthread returns from its call with io.ret,   *)
(* which is stale from then on.                                            *)
TakeDefer(s) ==
  /\ SchedAt(s, "loop", "loop") /\ defer[s] # <<>>
  /\ LET lt == Head(defer[s])
     IN  /\ busy' = [busy EXCEPT ![s] = @ \ {lt}]
         /\ lpc' = [lpc EXCEPT ![lt] = "user"]
         /\ ret' = [ret EXCEPT ![lt] = "stale"]
  /\ defer' = [defer EXCEPT ![s] = Tail(@)]
  /\ UNCHANGED <<io_selector, cur, sel, wvars, heap, lthreads, eventfd, crashed>>

(* The test that ends step 3 is made without the lock; _lthread_poll       *)
(* sleeps when nobody is ready ...                                         *)
DeferEmpty(s) ==
  /\ SchedAt(s, "loop", "poll") /\ defer[s] = <<>>
  /\ Ready(s) = {} /\ busy[s] # {}
  /\ UNCHANGED <<io_selector, cur, sel, wvars, tvars, lthreads, busy, defer, eventfd, crashed>>

(* ... until the eventfd is written to, which is cleared, or a timeout.    *)
PollTriggered(s) ==
  /\ SchedAt(s, "poll", "loop") /\ eventfd[s]
  /\ eventfd' = [eventfd EXCEPT ![s] = FALSE]
  /\ UNCHANGED <<io_selector, cur, sel, wvars, tvars, lthreads, busy, defer, crashed>>

PollTimeout(s) ==
  /\ SchedAt(s, "poll", "loop") /\ ~eventfd[s]
  /\ UNCHANGED <<io_selector, cur, sel, wvars, tvars, lthreads, busy, defer, eventfd, crashed>>

(* lthread_run returns and frees the scheduler.                            *)
RunReturns(s) ==
  /\ SchedAt(s, "loop", "done") /\ Ready(s) = {} /\ busy[s] = {}
  /\ UNCHANGED <<io_selector, cur, sel, wvars, tvars, lthreads, busy, defer, eventfd, crashed>>

-----------------------------------------------------------------------------
(* A worker's pthread                                                      *)

WorkerAt(w, p, q) == ~crashed /\ wpc[w] = p /\ wpc' = [wpc EXCEPT ![w] = q]

(* Fault: the job stays in the queue.                                      *)
TakeJob_NotRemoved(w) ==
  /\ WorkerAt(w, "check", "work") /\ lthreads[w] # <<>>
  /\ hand' = [hand EXCEPT ![w] = Head(lthreads[w])]
  /\ UNCHANGED <<svars, tvars, lthreads, busy, defer, eventfd, crashed>>

TakeJob(w) ==
  /\ WorkerAt(w, "check", "work") /\ lthreads[w] # <<>>
  /\ hand' = [hand EXCEPT ![w] = Head(lthreads[w])]
  /\ lthreads' = [lthreads EXCEPT ![w] = Tail(@)]
  /\ UNCHANGED <<svars, tvars, busy, defer, eventfd, crashed>>

(* "we have no work to do, break and wait": the lock is given up ...       *)
NoJob(w) ==
  /\ WorkerAt(w, "check", "park") /\ lthreads[w] = <<>>
  /\ UNCHANGED <<svars, hand, tvars, lthreads, busy, defer, eventfd, crashed>>

(* ... and only then is the condition variable waited on.                  *)
Park(w) ==
  /\ WorkerAt(w, "park", "wait")
  /\ UNCHANGED <<svars, hand, tvars, lthreads, busy, defer, eventfd, crashed>>

(* pthread_cond_wait may return without a signal.                          *)
SpuriousWakeup(w) ==
  /\ WorkerAt(w, "wait", "check")
  /\ UNCHANGED <<svars, hand, tvars, lthreads, busy, defer, eventfd, crashed>>

(* Fault: the result is not stored.                                        *)
Work_NoResult(w) ==
  /\ WorkerAt(w, "work", "defer")
  /\ UNCHANGED <<svars, hand, tvars, lthreads, busy, defer, eventfd, crashed>>

(* read(2), write(2)                                                       *)
Work(w) ==
  /\ WorkerAt(w, "work", "defer")
  /\ ret' = [ret EXCEPT ![hand[w]] = "fresh"]
  /\ UNCHANGED <<svars, hand, lpc, heap, lthreads, busy, defer, eventfd, crashed>>

DeferLthread(w) ==
  /\ WorkerAt(w, "defer", "trigger")
  /\ defer' = [defer EXCEPT ![SchedOf(hand[w])] = Append(@, hand[w])]
  /\ UNCHANGED <<svars, hand, tvars, lthreads, busy, eventfd, crashed>>

(* _lthread_poller_ev_trigger(lt->sched)                                   *)
SchedAlive(lt) == lt \in heap /\ spc[SchedOf(lt)] # "done"
(* Fault: the eventfd is not written to.                                   *)
Trigger_Missing(w) ==
  /\ WorkerAt(w, "trigger", "check") /\ SchedAlive(hand[w])
  /\ hand' = [hand EXCEPT ![w] = NoLt]
  /\ UNCHANGED <<svars, tvars, lthreads, busy, defer, eventfd, crashed>>

Trigger(w) ==
  /\ WorkerAt(w, "trigger", "check") /\ SchedAlive(hand[w])
  /\ eventfd' = [eventfd EXCEPT ![SchedOf(hand[w])] = TRUE]
  /\ hand' = [hand EXCEPT ![w] = NoLt]
  /\ UNCHANGED <<svars, tvars, lthreads, busy, defer, crashed>>

(* The same when lt or its scheduler was freed meanwhile: what is read     *)
(* there may name any eventfd, or none, and then the assertion fails.      *)
TriggerFreed(w) ==
  /\ WorkerAt(w, "trigger", "check") /\ ~SchedAlive(hand[w])
  /\ \/ \E s \in Sched : /\ spc[s] # "done"
                         /\ eventfd' = [eventfd EXCEPT ![s] = TRUE]
                         /\ UNCHANGED crashed
     \/ crashed' = TRUE /\ UNCHANGED eventfd
  /\ hand' = [hand EXCEPT ![w] = NoLt]
  /\ UNCHANGED <<svars, tvars, lthreads, busy, defer>>

-----------------------------------------------------------------------------
Submits(s) == StoreSelector(s) \/ QueueJob(s) \/ SignalWorker(s)
Polls(s)   == DeferEmpty(s) \/ PollTriggered(s) \/ PollTimeout(s)
Runs(s)    == \E lt \in Lthread : \/ lthread_io(s, lt)
                                  \/ \E d \in BOOLEAN : LthreadReturns(s, lt, d)
WorkerStep(w) ==
  TakeJob(w) \/ NoJob(w) \/ Park(w) \/ Work(w) \/ DeferLthread(w) \/ Trigger(w) \/ TriggerFreed(w)

Stop == (crashed \/ \A s \in Sched : spc[s] = "done") /\ UNCHANGED vars

Next ==
  \/ \E s \in Sched : Runs(s) \/ Submits(s) \/ TakeDefer(s) \/ Polls(s) \/ RunReturns(s)
  \/ \E w \in Worker : WorkerStep(w) \/ SpuriousWakeup(w)
  \/ Stop

Spec == Init /\ [][Next]_vars

(***************************************************************************)
(* Every pthread goes on, and each pass of lthread_run drains the defer    *)
(* queue.  Nothing makes a condition variable wake up spuriously.          *)
(***************************************************************************)
Fairness ==
  /\ \A s \in Sched : /\ WF_vars(Submits(s) \/ Polls(s))
                      /\ SF_vars(TakeDefer(s))
  /\ \A w \in Worker : WF_vars(WorkerStep(w))

FairSpec == Spec /\ Fairness

-----------------------------------------------------------------------------
TypeOK ==
  /\ io_selector \in Worker
  /\ lthreads \in [Worker -> Seq(Lthread)]
  /\ wpc \in [Worker -> WPC] /\ hand \in [Worker -> Lthread \cup {NoLt}]
  /\ spc \in [Sched -> SPC] /\ cur \in [Sched -> Lthread \cup {NoLt}]
  /\ sel \in [Sched -> Worker]
  /\ lpc \in [Lthread -> {"user", "io", "gone"}]
  /\ ret \in [Lthread -> {"stale", "fresh"}]
  /\ heap \subseteq Lthread
  /\ busy \in [Sched -> SUBSET Lthread] /\ defer \in [Sched -> Seq(Lthread)]
  /\ eventfd \in [Sched -> BOOLEAN]
  /\ crashed \in BOOLEAN

(* The lthreads whose job is queued or in a worker's hand.                 *)
Pending == {lt \in Lthread : \E w \in Worker :
              InQ(lt, lthreads[w]) \/ (wpc[w] \in {"work", "defer"} /\ hand[w] = lt)}

Service == INSTANCE IoService WITH io <- Pending

(* Whatever the order in which schedulers and workers take their steps, a  *)
(* job is carried out once, by one worker, and its lthread comes back once *)
(* to the scheduler it came from.                                          *)
IsIoService == Service!Spec

(* "signal the prev scheduler in case it was sleeping in a poll": a        *)
(* scheduler does not sleep in its poll on an lthread the workers have     *)
(* given back, because the eventfd is set or about to be.                  *)
NoSleepOnDefer ==
  \A s \in Sched : spc[s] = "poll" /\ defer[s] # <<>> =>
    \/ eventfd[s]
    \/ \E w \in Worker : wpc[w] = "trigger" /\ SchedOf(hand[w]) = s /\ SchedAlive(hand[w])

(* An lthread goes on after lthread_io_read only with the result of this   *)
(* very call, and none of its job's memory is in a worker's hands then.    *)
ResultReady ==
  \A lt \in Lthread :
    /\ InQ(lt, defer[SchedOf(lt)]) => ret[lt] = "fresh"
    /\ lpc[lt] # "io" => lt \notin Pending

(* A scheduler is not freed while a worker still owes it an lthread.       *)
SchedOutlivesJobs ==
  \A s \in Sched : spc[s] = "done" =>
    defer[s] = <<>> /\ \A lt \in Pending : SchedOf(lt) # s

(* The lthread a worker follows to the scheduler it signals is still       *)
(* allocated, and so is the scheduler.                                     *)
TriggerAlive == \A w \in Worker : wpc[w] = "trigger" => SchedAlive(hand[w])

(* "the actual lthread yields until the read/write is done": the call      *)
(* ends.                                                                   *)
IoCompletes == \A lt \in Lthread : lpc[lt] = "io" ~> (lpc[lt] # "io" \/ crashed)
=============================================================================
