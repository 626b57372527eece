-------------------------- MODULE IoWorker_proofs --------------------------
(***************************************************************************)
(* Theorems about IoWorker, for any number of lthreads, schedulers and     *)
(* workers.                                                                *)
(***************************************************************************)
EXTENDS IoWorker, Tailq_proofs

(* Where the job of an lthread can be.                                     *)
Submitting(lt) == spc[SchedOf(lt)] \in {"store", "queue"} /\ cur[SchedOf(lt)] = lt
Queued(lt, w)  == InQ(lt, lthreads[w])
Held(lt, w)    == wpc[w] \in {"work", "defer"} /\ hand[w] = lt
Deferred(lt)   == InQ(lt, defer[SchedOf(lt)])

(* Each pthread's own variables fit its place in the code.                 *)
LocalOK ==
  /\ \A s \in Sched : spc[s] \in {"store", "queue", "signal"} =>
                        cur[s] \in Lthread /\ SchedOf(cur[s]) = s
  /\ \A w \in Worker : wpc[w] \in {"work", "defer", "trigger"} => hand[w] \in Lthread

(* The lists are lists, and the defer queues hold their own lthreads.      *)
ListsOK ==
  /\ \A w \in Worker : Distinct(lthreads[w])
  /\ \A s \in Sched : Distinct(defer[s]) /\ \A lt \in Lthread : InQ(lt, defer[s]) => SchedOf(lt) = s

(* A job is in one place, from lthread_io to the end of the call.          *)
JobOK ==
  \A lt \in Lthread :
    /\ Submitting(lt) \/ Deferred(lt) => lpc[lt] = "io" /\ lt \notin Pending
    /\ lt \in Pending => lpc[lt] = "io"
    /\ lpc[lt] # "gone" => lt \in heap
    /\ ~(Submitting(lt) /\ Deferred(lt))
    /\ \A w, v \in Worker : /\ Queued(lt, w) => ~Held(lt, v) /\ (Queued(lt, v) => v = w)
                            /\ Held(lt, w) /\ Held(lt, v) => v = w
    /\ \A w \in Worker : Held(lt, w) /\ wpc[w] = "defer" => ret[lt] = "fresh"
    /\ Deferred(lt) => ret[lt] = "fresh"

(* The scheduler counts on every lthread that is to come back.             *)
BusyOK ==
  /\ \A lt \in Lthread :
       lt \in Pending \/ Deferred(lt) \/ (Submitting(lt) /\ spc[SchedOf(lt)] = "queue")
         => lt \in busy[SchedOf(lt)]
  /\ \A s \in Sched : spc[s] = "done" => busy[s] = {}

IInv == TypeOK /\ LocalOK /\ ListsOK /\ JobOK /\ BusyOK /\ NoSleepOnDefer

USE DEF SchedAt, WorkerAt, svars, wvars, tvars

-----------------------------------------------------------------------------
(* Types                                                                   *)

(* The selector counts modulo IO_WORKERS, so it names a worker.            *)
LEMMA SelectorInRange ==
  0 \in Worker /\ \A w \in Worker : (w + 1) % IO_WORKERS \in Worker
  BY IoAssumption DEF Worker

(* All of it is well typed when io_worker_init is done.                    *)
LEMMA TypeInit == Init => TypeOK /\ LocalOK
<1>1. 0 \in Worker
  BY SelectorInRange
<1>2. ASSUME Init PROVE TypeOK
  <2>1. /\ io_selector \in Worker /\ wpc \in [Worker -> WPC] /\ spc \in [Sched -> SPC]
        /\ hand \in [Worker -> Lthread \cup {NoLt}] /\ cur \in [Sched -> Lthread \cup {NoLt}]
    BY <1>1, <1>2 DEF Init, WPC, SPC
  <2>2. lthreads \in [Worker -> Seq(Lthread)] /\ defer \in [Sched -> Seq(Lthread)]
    BY <1>2 DEF Init
  <2>3. /\ sel \in [Sched -> Worker] /\ busy \in [Sched -> SUBSET Lthread]
        /\ lpc \in [Lthread -> {"user", "io", "gone"}] /\ ret \in [Lthread -> {"stale", "fresh"}]
        /\ heap \subseteq Lthread /\ eventfd \in [Sched -> BOOLEAN] /\ crashed \in BOOLEAN
    BY <1>1, <1>2 DEF Init
  <2> QED BY <2>1, <2>2, <2>3 DEF TypeOK
<1> QED BY <1>2 DEF Init, LocalOK

(* Every step of a scheduler and of a worker keeps the types.              *)
LEMMA TypeNext == TypeOK /\ LocalOK /\ [Next]_vars => TypeOK' /\ LocalOK'
<1> SUFFICES ASSUME TypeOK, LocalOK, [Next]_vars PROVE TypeOK' /\ LocalOK'
  OBVIOUS
<1> USE IoAssumption DEF TypeOK, LocalOK, WPC, SPC
<1>1. ASSUME NEW s \in Sched, NEW lt \in Lthread, lthread_io(s, lt) PROVE TypeOK' /\ LocalOK'
  BY <1>1 DEF lthread_io, Ready
<1>2. ASSUME NEW s \in Sched, NEW lt \in Lthread, NEW d \in BOOLEAN, LthreadReturns(s, lt, d)
      PROVE  TypeOK' /\ LocalOK'
  BY <1>2 DEF LthreadReturns
<1>3. ASSUME NEW s \in Sched, StoreSelector(s) PROVE TypeOK' /\ LocalOK'
  BY <1>3, SelectorInRange DEF StoreSelector
<1>4. ASSUME NEW s \in Sched, QueueJob(s) PROVE TypeOK' /\ LocalOK'
  BY <1>4 DEF QueueJob
<1>5. ASSUME NEW s \in Sched, SignalWorker(s) PROVE TypeOK' /\ LocalOK'
  <2>1. sel[s] \in Worker
    OBVIOUS
  <2>2. wpc' \in [Worker -> WPC] /\ \A w \in Worker :
          wpc'[w] \in {"work", "defer", "trigger"} => wpc'[w] = wpc[w]
    <3>1. wpc' = [wpc EXCEPT ![sel[s]] = IF @ = "wait" THEN "check" ELSE @]
      BY <1>5 DEF SignalWorker
    <3>2. CASE wpc[sel[s]] = "wait"
      BY <2>1, <3>1, <3>2
    <3>3. CASE wpc[sel[s]] # "wait"
      BY <2>1, <3>1, <3>3
    <3> QED BY <3>2, <3>3
  <2>3. TypeOK'
    BY <1>5, <2>2, SelectorInRange DEF SignalWorker
  <2>4. LocalOK'
    BY <1>5, <2>2 DEF SignalWorker
  <2> QED BY <2>3, <2>4
<1>6. ASSUME NEW s \in Sched, TakeDefer(s) PROVE TypeOK' /\ LocalOK'
  <2>1. Head(defer[s]) \in Lthread /\ Tail(defer[s]) \in Seq(Lthread)
    BY <1>6, QTail DEF TakeDefer
  <2>2. TypeOK'
    BY <1>6, <2>1 DEF TakeDefer
  <2>3. LocalOK'
    BY <1>6, <2>1 DEF TakeDefer
  <2> QED BY <2>2, <2>3
<1>7. ASSUME NEW s \in Sched, DeferEmpty(s) PROVE TypeOK' /\ LocalOK'
  BY <1>7 DEF DeferEmpty
<1>8. ASSUME NEW s \in Sched, PollTriggered(s) PROVE TypeOK' /\ LocalOK'
  BY <1>8 DEF PollTriggered
<1>9. ASSUME NEW s \in Sched, PollTimeout(s) PROVE TypeOK' /\ LocalOK'
  BY <1>9 DEF PollTimeout
<1>10. ASSUME NEW s \in Sched, RunReturns(s) PROVE TypeOK' /\ LocalOK'
  BY <1>10 DEF RunReturns
<1>11. ASSUME NEW w \in Worker, TakeJob(w) PROVE TypeOK' /\ LocalOK'
  BY <1>11, QTail DEF TakeJob
<1>12. ASSUME NEW w \in Worker, NoJob(w) PROVE TypeOK' /\ LocalOK'
  BY <1>12 DEF NoJob
<1>13. ASSUME NEW w \in Worker, Park(w) PROVE TypeOK' /\ LocalOK'
  BY <1>13 DEF Park
<1>14. ASSUME NEW w \in Worker, SpuriousWakeup(w) PROVE TypeOK' /\ LocalOK'
  BY <1>14 DEF SpuriousWakeup
<1>15. ASSUME NEW w \in Worker, Work(w) PROVE TypeOK' /\ LocalOK'
  BY <1>15 DEF Work
<1>16. ASSUME NEW w \in Worker, DeferLthread(w) PROVE TypeOK' /\ LocalOK'
  BY <1>16 DEF DeferLthread
<1>17. ASSUME NEW w \in Worker, Trigger(w) PROVE TypeOK' /\ LocalOK'
  BY <1>17 DEF Trigger
<1>18. ASSUME NEW w \in Worker, TriggerFreed(w) PROVE TypeOK' /\ LocalOK'
  BY <1>18 DEF TriggerFreed
<1>19. ASSUME UNCHANGED vars PROVE TypeOK' /\ LocalOK'
  BY <1>19 DEF vars
<1> HIDE DEF TypeOK, LocalOK
<1> QED
  BY <1>1, <1>2, <1>3, <1>4, <1>5, <1>6, <1>7, <1>8, <1>9, <1>10, <1>11, <1>12, <1>13,
     <1>14, <1>15, <1>16, <1>17, <1>18, <1>19
  DEF Next, Runs, Submits, Polls, WorkerStep, Stop

(* Every variable keeps its type: io_selector names a worker however the   *)
(* schedulers race for it, and nobody touches an lthread that is not one.  *)
THEOREM TypeCorrect == Spec => []TypeOK
  BY TypeInit, TypeNext, PTL DEF Spec

-----------------------------------------------------------------------------
(* Safety                                                                  *)

(* The schedulers and workers start without a job.                         *)
LEMMA InvInit == Init => IInv
<1> SUFFICES ASSUME Init PROVE IInv
  OBVIOUS
<1>1. \A w \in Worker : \A x : ~InQ(x, lthreads[w])
  BY DEF Init, InQ
<1>2. \A s \in Sched : \A x : ~InQ(x, defer[s])
  BY DEF Init, InQ
<1>3. Pending = {}
  BY <1>1 DEF Init, Pending
<1>4. ListsOK
  BY <1>2 DEF ListsOK, Init, Distinct
<1>5. JobOK
  BY <1>1, <1>2, <1>3, IoAssumption DEF Init, JobOK, Submitting, Queued, Held, Deferred
<1>6. BusyOK /\ NoSleepOnDefer
  BY <1>2, <1>3, IoAssumption DEF Init, BusyOK, NoSleepOnDefer, Submitting, Deferred
<1> QED BY TypeInit, <1>4, <1>5, <1>6 DEF IInv

(* Nobody falls asleep on a full defer queue, and no trigger that is on    *)
(* its way to a sleeper is lost.                                           *)
WakesKept ==
  /\ \A s \in Sched :
       /\ spc'[s] = "poll" /\ defer'[s] # <<>> => spc[s] = "poll" /\ defer[s] # <<>>
       /\ spc'[s] = "poll" /\ eventfd[s] => eventfd'[s]
  /\ \A w \in Worker :
       wpc[w] = "trigger" /\ SchedAlive(hand[w]) /\ spc'[SchedOf(hand[w])] = "poll" =>
         \/ wpc'[w] = "trigger" /\ hand'[w] = hand[w] /\ hand[w] \in heap'
         \/ eventfd'[SchedOf(hand[w])]

(* Such a step keeps NoSleepOnDefer.                                       *)
LEMMA WakeFrame ==
  ASSUME NoSleepOnDefer, WakesKept
  PROVE  NoSleepOnDefer'
<1> SUFFICES ASSUME NEW s \in Sched, spc'[s] = "poll", defer'[s] # <<>>, ~eventfd'[s]
             PROVE  \E w \in Worker : /\ wpc'[w] = "trigger" /\ SchedOf(hand'[w]) = s
                                      /\ hand'[w] \in heap' /\ spc'[SchedOf(hand'[w])] # "done"
  BY DEF NoSleepOnDefer, SchedAlive
<1>1. PICK w \in Worker : wpc[w] = "trigger" /\ SchedOf(hand[w]) = s /\ SchedAlive(hand[w])
  BY DEF NoSleepOnDefer, WakesKept
<1>2. wpc'[w] = "trigger" /\ hand'[w] = hand[w] /\ hand[w] \in heap'
  BY <1>1 DEF WakesKept
<1> QED BY <1>1, <1>2

(* Steps of a scheduler that move no job from one place to another.        *)
LEMMA QuietSchedStep ==
  ASSUME IInv, NEW s \in Sched,
         \/ (\E lt \in Lthread : lthread_io(s, lt) \/ \E d \in BOOLEAN : LthreadReturns(s, lt, d))
         \/ StoreSelector(s) \/ SignalWorker(s) \/ DeferEmpty(s) \/ PollTriggered(s)
         \/ PollTimeout(s) \/ RunReturns(s)
  PROVE  ListsOK' /\ JobOK' /\ BusyOK' /\ NoSleepOnDefer' /\ UNCHANGED <<Pending, defer>>
<1> USE IoAssumption DEF IInv, TypeOK, LocalOK, WPC, SPC
<1> DEFINE Goal == ListsOK' /\ JobOK' /\ BusyOK' /\ NoSleepOnDefer' /\ UNCHANGED <<Pending, defer>>
<1>1. ASSUME NEW lt \in Lthread, lthread_io(s, lt) PROVE Goal
  <2>1. Pending' = Pending /\ defer' = defer
    BY <1>1 DEF lthread_io, Ready, Pending
  <2>2. ListsOK'
    BY <1>1 DEF lthread_io, Ready, ListsOK
  <2>3. JobOK'
    <3>1. lt \notin Pending /\ ~Deferred(lt) /\ SchedOf(lt) = s
      BY <1>1 DEF JobOK, lthread_io, Ready
    <3> SUFFICES ASSUME NEW k \in Lthread PROVE JobOK!(k)'
      BY DEF JobOK
    <3>2. CASE k = lt
      BY <1>1, <2>1, <3>1, <3>2 DEF lthread_io, Ready, JobOK, Submitting, Queued, Held, Deferred, Pending
    <3>3. CASE k # lt
      BY <1>1, <2>1, <3>3 DEF lthread_io, Ready, JobOK, Submitting, Queued, Held, Deferred
    <3> QED BY <3>2, <3>3
  <2>4. BusyOK'
    BY <1>1, <2>1 DEF lthread_io, Ready, JobOK, BusyOK, Submitting, Deferred
  <2>5. NoSleepOnDefer'
    <3>1. WakesKept
      BY <1>1 DEF lthread_io, Ready, WakesKept, SchedAlive
    <3> QED BY <3>1, WakeFrame
  <2> QED BY <2>1, <2>2, <2>3, <2>4, <2>5
<1>2. ASSUME NEW lt \in Lthread, NEW d \in BOOLEAN, LthreadReturns(s, lt, d) PROVE Goal
  <2>1. Pending' = Pending /\ defer' = defer
    BY <1>2 DEF LthreadReturns, Ready, Pending
  <2>2. ListsOK'
    BY <1>2 DEF LthreadReturns, Ready, ListsOK
  <2>3. JobOK'
    BY <1>2, <2>1 DEF LthreadReturns, Ready, JobOK, Submitting, Queued, Held, Deferred
  <2>4. BusyOK'
    BY <1>2, <2>1 DEF LthreadReturns, Ready, JobOK, BusyOK, Submitting, Deferred
  <2>5. NoSleepOnDefer'
    <3>1. WakesKept
      BY <1>2 DEF LthreadReturns, Ready, WakesKept, SchedAlive
    <3> QED BY <3>1, WakeFrame
  <2> QED BY <2>1, <2>2, <2>3, <2>4, <2>5
<1>3. ASSUME StoreSelector(s) PROVE Goal
  <2>1. Pending' = Pending /\ defer' = defer
    BY <1>3 DEF StoreSelector, Pending
  <2>2. ListsOK'
    BY <1>3 DEF StoreSelector, ListsOK
  <2>3. JobOK'
    BY <1>3, <2>1 DEF StoreSelector, JobOK, Submitting, Queued, Held, Deferred
  <2>4. BusyOK'
    BY <1>3, <2>1 DEF StoreSelector, JobOK, BusyOK, Submitting, Deferred
  <2>5. NoSleepOnDefer'
    <3>1. WakesKept
      BY <1>3 DEF StoreSelector, WakesKept, SchedAlive
    <3> QED BY <3>1, WakeFrame
  <2> QED BY <2>1, <2>2, <2>3, <2>4, <2>5
<1>4. ASSUME SignalWorker(s) PROVE Goal
  <2>1. Pending' = Pending /\ defer' = defer
    BY <1>4 DEF SignalWorker, Pending
  <2>2. ListsOK'
    BY <1>4 DEF SignalWorker, ListsOK
  <2>3. JobOK'
    BY <1>4, <2>1 DEF SignalWorker, JobOK, Submitting, Queued, Held, Deferred
  <2>4. BusyOK'
    BY <1>4, <2>1 DEF SignalWorker, JobOK, BusyOK, Submitting, Deferred
  <2>5. NoSleepOnDefer'
    <3>1. WakesKept
      BY <1>4 DEF SignalWorker, WakesKept, SchedAlive
    <3> QED BY <3>1, WakeFrame
  <2> QED BY <2>1, <2>2, <2>3, <2>4, <2>5
<1>5. ASSUME DeferEmpty(s) PROVE Goal
  <2>1. Pending' = Pending /\ defer' = defer
    BY <1>5 DEF DeferEmpty, Pending
  <2>2. ListsOK'
    BY <1>5 DEF DeferEmpty, ListsOK
  <2>3. JobOK'
    BY <1>5, <2>1 DEF DeferEmpty, JobOK, Submitting, Queued, Held, Deferred
  <2>4. BusyOK'
    BY <1>5, <2>1 DEF DeferEmpty, JobOK, BusyOK, Submitting, Deferred
  <2>5. NoSleepOnDefer'
    <3>1. WakesKept
      BY <1>5 DEF DeferEmpty, WakesKept, SchedAlive
    <3> QED BY <3>1, WakeFrame
  <2> QED BY <2>1, <2>2, <2>3, <2>4, <2>5
<1>6. ASSUME PollTriggered(s) PROVE Goal
  <2>1. Pending' = Pending /\ defer' = defer
    BY <1>6 DEF PollTriggered, Pending
  <2>2. ListsOK'
    BY <1>6 DEF PollTriggered, ListsOK
  <2>3. JobOK'
    BY <1>6, <2>1 DEF PollTriggered, JobOK, Submitting, Queued, Held, Deferred
  <2>4. BusyOK'
    BY <1>6, <2>1 DEF PollTriggered, JobOK, BusyOK, Submitting, Deferred
  <2>5. NoSleepOnDefer'
    <3>1. WakesKept
      BY <1>6 DEF PollTriggered, WakesKept, SchedAlive
    <3> QED BY <3>1, WakeFrame
  <2> QED BY <2>1, <2>2, <2>3, <2>4, <2>5
<1>7. ASSUME PollTimeout(s) PROVE Goal
  <2>1. Pending' = Pending /\ defer' = defer
    BY <1>7 DEF PollTimeout, Pending
  <2>2. ListsOK'
    BY <1>7 DEF PollTimeout, ListsOK
  <2>3. JobOK'
    BY <1>7, <2>1 DEF PollTimeout, JobOK, Submitting, Queued, Held, Deferred
  <2>4. BusyOK'
    BY <1>7, <2>1 DEF PollTimeout, JobOK, BusyOK, Submitting, Deferred
  <2>5. NoSleepOnDefer'
    <3>1. WakesKept
      BY <1>7 DEF PollTimeout, WakesKept, SchedAlive
    <3> QED BY <3>1, WakeFrame
  <2> QED BY <2>1, <2>2, <2>3, <2>4, <2>5
<1>8. ASSUME RunReturns(s) PROVE Goal
  <2>1. Pending' = Pending /\ defer' = defer
    BY <1>8 DEF RunReturns, Pending
  <2>2. ListsOK'
    BY <1>8 DEF RunReturns, ListsOK
  <2>3. JobOK'
    BY <1>8, <2>1 DEF RunReturns, JobOK, Submitting, Queued, Held, Deferred
  <2>4. BusyOK'
    BY <1>8, <2>1 DEF RunReturns, JobOK, BusyOK, Submitting, Deferred
  <2>5. NoSleepOnDefer'
    <3>1. WakesKept
      BY <1>8 DEF RunReturns, WakesKept, SchedAlive
    <3> QED BY <3>1, WakeFrame
  <2> QED BY <2>1, <2>2, <2>3, <2>4, <2>5
<1> HIDE DEF IInv, Goal
<1> QED BY <1>1, <1>2, <1>3, <1>4, <1>5, <1>6, <1>7, <1>8 DEF Goal

(* The same for a worker.                                                  *)
LEMMA QuietWorkerStep ==
  ASSUME IInv, NEW w \in Worker,
         NoJob(w) \/ Park(w) \/ SpuriousWakeup(w) \/ Trigger(w) \/ TriggerFreed(w)
  PROVE  ListsOK' /\ JobOK' /\ BusyOK' /\ NoSleepOnDefer' /\ UNCHANGED <<Pending, defer>>
<1> USE IoAssumption DEF IInv, TypeOK, LocalOK, WPC, SPC
<1> DEFINE Goal == ListsOK' /\ JobOK' /\ BusyOK' /\ NoSleepOnDefer' /\ UNCHANGED <<Pending, defer>>
<1>1. ASSUME NoJob(w) PROVE Goal
  <2>1. Pending' = Pending /\ defer' = defer
    BY <1>1 DEF NoJob, Pending
  <2>2. ListsOK'
    BY <1>1 DEF NoJob, ListsOK
  <2>3. JobOK'
    BY <1>1, <2>1 DEF NoJob, JobOK, Submitting, Queued, Held, Deferred
  <2>4. BusyOK'
    BY <1>1, <2>1 DEF NoJob, JobOK, BusyOK, Submitting, Deferred
  <2>5. NoSleepOnDefer'
    <3>1. WakesKept
      BY <1>1 DEF NoJob, WakesKept, SchedAlive
    <3> QED BY <3>1, WakeFrame
  <2> QED BY <2>1, <2>2, <2>3, <2>4, <2>5
<1>2. ASSUME Park(w) PROVE Goal
  <2>1. Pending' = Pending /\ defer' = defer
    BY <1>2 DEF Park, Pending
  <2>2. ListsOK'
    BY <1>2 DEF Park, ListsOK
  <2>3. JobOK'
    BY <1>2, <2>1 DEF Park, JobOK, Submitting, Queued, Held, Deferred
  <2>4. BusyOK'
    BY <1>2, <2>1 DEF Park, JobOK, BusyOK, Submitting, Deferred
  <2>5. NoSleepOnDefer'
    <3>1. WakesKept
      BY <1>2 DEF Park, WakesKept, SchedAlive
    <3> QED BY <3>1, WakeFrame
  <2> QED BY <2>1, <2>2, <2>3, <2>4, <2>5
<1>3. ASSUME SpuriousWakeup(w) PROVE Goal
  <2>1. Pending' = Pending /\ defer' = defer
    BY <1>3 DEF SpuriousWakeup, Pending
  <2>2. ListsOK'
    BY <1>3 DEF SpuriousWakeup, ListsOK
  <2>3. JobOK'
    BY <1>3, <2>1 DEF SpuriousWakeup, JobOK, Submitting, Queued, Held, Deferred
  <2>4. BusyOK'
    BY <1>3, <2>1 DEF SpuriousWakeup, JobOK, BusyOK, Submitting, Deferred
  <2>5. NoSleepOnDefer'
    <3>1. WakesKept
      BY <1>3 DEF SpuriousWakeup, WakesKept, SchedAlive
    <3> QED BY <3>1, WakeFrame
  <2> QED BY <2>1, <2>2, <2>3, <2>4, <2>5
<1>4. ASSUME Trigger(w) PROVE Goal
  <2>1. Pending' = Pending /\ defer' = defer
    BY <1>4 DEF Trigger, Pending
  <2>2. ListsOK'
    BY <1>4 DEF Trigger, ListsOK
  <2>3. JobOK'
    BY <1>4, <2>1 DEF Trigger, JobOK, Submitting, Queued, Held, Deferred
  <2>4. BusyOK'
    BY <1>4, <2>1 DEF Trigger, JobOK, BusyOK, Submitting, Deferred
  <2>5. NoSleepOnDefer'
    <3>1. WakesKept
      BY <1>4 DEF Trigger, WakesKept, SchedAlive
    <3> QED BY <3>1, WakeFrame
  <2> QED BY <2>1, <2>2, <2>3, <2>4, <2>5
<1>5. ASSUME TriggerFreed(w) PROVE Goal
  <2>1. Pending' = Pending /\ defer' = defer
    BY <1>5 DEF TriggerFreed, Pending
  <2>2. ListsOK'
    BY <1>5 DEF TriggerFreed, ListsOK
  <2>3. JobOK'
    BY <1>5, <2>1 DEF TriggerFreed, JobOK, Submitting, Queued, Held, Deferred
  <2>4. BusyOK'
    BY <1>5, <2>1 DEF TriggerFreed, JobOK, BusyOK, Submitting, Deferred
  <2>5. NoSleepOnDefer'
    <3>1. WakesKept
      BY <1>5 DEF TriggerFreed, WakesKept, SchedAlive
    <3> QED BY <3>1, WakeFrame
  <2> QED BY <2>1, <2>2, <2>3, <2>4, <2>5
<1> HIDE DEF IInv, Goal
<1> QED BY <1>1, <1>2, <1>3, <1>4, <1>5 DEF Goal

(* Pending in terms of the places of a job.                                *)
LEMMA PendingIs ==
  /\ \A k : k \in Pending <=> k \in Lthread /\ \E v \in Worker : Queued(k, v) \/ Held(k, v)
  /\ \A k : k \in Pending' <=> k \in Lthread /\ \E v \in Worker : Queued(k, v)' \/ Held(k, v)'
  BY DEF Pending, Queued, Held

(* _lthread_io_add hands the job to the worker it chose.                   *)
LEMMA QueueStep ==
  ASSUME IInv, NEW s \in Sched, QueueJob(s)
  PROVE  ListsOK' /\ JobOK' /\ BusyOK' /\ NoSleepOnDefer' /\ Service!Submit(cur[s])
<1> USE IoAssumption DEF IInv, TypeOK, LocalOK, WPC, SPC
<1>1. /\ cur[s] \in Lthread /\ SchedOf(cur[s]) = s /\ sel[s] \in Worker
      /\ Submitting(cur[s]) /\ spc[s] = "queue"
  BY DEF QueueJob, Submitting
<1>2. lpc[cur[s]] = "io" /\ cur[s] \notin Pending /\ ~Deferred(cur[s])
  BY <1>1 DEF JobOK
<1>3. ~InQ(cur[s], lthreads[sel[s]])
  BY <1>1, <1>2 DEF Pending
<1>4. /\ \A x : InQ(x, lthreads'[sel[s]]) <=> InQ(x, lthreads[sel[s]]) \/ x = cur[s]
      /\ Distinct(lthreads'[sel[s]])
      /\ \A w \in Worker \ {sel[s]} : lthreads'[w] = lthreads[w]
  BY <1>1, <1>3, QAppend DEF QueueJob, ListsOK
<1>5. Pending' = Pending \cup {cur[s]}
  <2>1. \A k \in Lthread, v \in Worker :
          /\ Queued(k, v)' <=> Queued(k, v) \/ (k = cur[s] /\ v = sel[s])
          /\ Held(k, v)' <=> Held(k, v)
    BY <1>1, <1>4 DEF QueueJob, Queued, Held
  <2> HIDE DEF IInv
  <2> QED BY <1>1, <2>1, PendingIs
<1>6. ListsOK'
  BY <1>4 DEF QueueJob, ListsOK
<1>7. JobOK'
  <2> SUFFICES ASSUME NEW k \in Lthread PROVE JobOK!(k)'
    BY DEF JobOK
  <2>1. CASE k = cur[s]
    BY <1>1, <1>2, <1>4, <1>5, <2>1 DEF QueueJob, JobOK, Submitting, Queued, Held, Deferred, Pending
  <2>2. CASE k # cur[s]
    BY <1>1, <1>4, <1>5, <2>2 DEF QueueJob, JobOK, Submitting, Queued, Held, Deferred
  <2> QED BY <2>1, <2>2
<1>8. BusyOK'
  BY <1>1, <1>5 DEF QueueJob, BusyOK, Submitting, Deferred
<1>9. NoSleepOnDefer'
  <2>1. WakesKept
    BY DEF QueueJob, WakesKept, SchedAlive
  <2> QED BY <2>1, WakeFrame
<1>10. Service!Submit(cur[s])
  BY <1>1, <1>2, <1>5 DEF QueueJob, Service!Submit, Service!InQ, Deferred, InQ
<1> HIDE DEF IInv
<1> QED BY <1>6, <1>7, <1>8, <1>9, <1>10

(* The worker takes a job from its queue: it is still pending.             *)
LEMMA TakeStep ==
  ASSUME IInv, NEW w \in Worker, TakeJob(w)
  PROVE  ListsOK' /\ JobOK' /\ BusyOK' /\ NoSleepOnDefer' /\ UNCHANGED <<Pending, defer>>
<1> USE IoAssumption DEF IInv, TypeOK, LocalOK, WPC, SPC
<1> DEFINE job == Head(lthreads[w])
<1>1. /\ job \in Lthread /\ InQ(job, lthreads[w])
      /\ \A x : InQ(x, lthreads'[w]) <=> InQ(x, lthreads[w]) /\ x # job
      /\ Distinct(lthreads'[w])
      /\ \A v \in Worker \ {w} : lthreads'[v] = lthreads[v]
  BY QTail DEF TakeJob, ListsOK
<1>2. /\ hand'[w] = job /\ wpc'[w] = "work" /\ wpc[w] = "check"
      /\ \A v \in Worker \ {w} : hand'[v] = hand[v] /\ wpc'[v] = wpc[v]
  BY DEF TakeJob
<1>3. Queued(job, w)
  BY <1>1 DEF Queued
<1> HIDE DEF job
<1>4. Pending' = Pending
  <2>1. \A k \in Lthread, v \in Worker :
          /\ Queued(k, v)' <=> Queued(k, v) /\ ~(k = job /\ v = w)
          /\ Held(k, v)' <=> Held(k, v) \/ (k = job /\ v = w)
    BY <1>1, <1>2 DEF TakeJob, Queued, Held
  <2> HIDE DEF IInv
  <2> QED BY <1>1, <1>3, <2>1, PendingIs
<1>5. ListsOK'
  BY <1>1 DEF TakeJob, ListsOK
<1>6. JobOK'
  <2> SUFFICES ASSUME NEW k \in Lthread PROVE JobOK!(k)'
    BY DEF JobOK
  <2>1. CASE k = job
    BY <1>1, <1>2, <1>3, <1>4, <2>1 DEF TakeJob, JobOK, Submitting, Queued, Held, Deferred, Pending
  <2>2. CASE k # job
    BY <1>1, <1>2, <1>4, <2>2 DEF TakeJob, JobOK, Submitting, Queued, Held, Deferred
  <2> QED BY <2>1, <2>2
<1>7. BusyOK'
  BY <1>4 DEF TakeJob, BusyOK, Submitting, Deferred
<1>8. NoSleepOnDefer'
  <2>1. WakesKept
    BY DEF TakeJob, WakesKept, SchedAlive
  <2> QED BY <2>1, WakeFrame
<1> HIDE DEF IInv
<1> QED BY <1>4, <1>5, <1>6, <1>7, <1>8 DEF TakeJob

(* read(2) or write(2) has left its result in lt->io.ret.                  *)
LEMMA WorkStep ==
  ASSUME IInv, NEW w \in Worker, Work(w)
  PROVE  ListsOK' /\ JobOK' /\ BusyOK' /\ NoSleepOnDefer' /\ UNCHANGED <<Pending, defer>>
<1> USE IoAssumption DEF IInv, TypeOK, LocalOK, WPC, SPC
<1>1. hand[w] \in Lthread /\ Held(hand[w], w) /\ ret'[hand[w]] = "fresh"
  BY DEF Work, Held
<1>2. Pending' = Pending
  BY DEF Work, Pending
<1>3. ListsOK'
  BY DEF Work, ListsOK
<1>4. JobOK'
  <2>1. \A k \in Lthread, v \in Worker :
          /\ Queued(k, v)' <=> Queued(k, v)
          /\ Held(k, v)' <=> Held(k, v)
          /\ wpc'[v] = "defer" => wpc[v] = "defer" \/ v = w
    BY DEF Work, Queued, Held
  <2>2. \A k \in Lthread : /\ Submitting(k)' <=> Submitting(k)
                           /\ Deferred(k)' <=> Deferred(k)
                           /\ ret[k] = "fresh" => ret'[k] = "fresh"
    BY DEF Work, Submitting, Deferred
  <2>3. lpc' = lpc /\ heap' = heap
    BY DEF Work
  <2>4. \A k \in Lthread, v \in Worker : Held(k, v)' /\ wpc'[v] = "defer" => ret'[k] = "fresh"
    BY <1>1, <2>1, <2>2 DEF JobOK, Held
  <2> HIDE DEF IInv
  <2>5. JobOK
    BY DEF IInv
  <2> QED BY <1>2, <2>1, <2>2, <2>3, <2>4, <2>5 DEF JobOK
<1>5. BusyOK'
  BY <1>2 DEF Work, BusyOK, Submitting, Deferred
<1>6. NoSleepOnDefer'
  <2>1. WakesKept
    BY DEF Work, WakesKept, SchedAlive
  <2> QED BY <2>1, WakeFrame
<1> HIDE DEF IInv
<1> QED BY <1>2, <1>3, <1>4, <1>5, <1>6 DEF Work

(* The worker hands the lthread back and goes on to wake its scheduler.    *)
LEMMA DeferStep ==
  ASSUME IInv, NEW w \in Worker, DeferLthread(w)
  PROVE  ListsOK' /\ JobOK' /\ BusyOK' /\ NoSleepOnDefer' /\ Service!Done(hand[w])
<1> USE IoAssumption DEF IInv, TypeOK, LocalOK, WPC, SPC
<1> DEFINE lt == hand[w]
           s  == SchedOf(lt)
<1>1. lt \in Lthread /\ s \in Sched /\ Held(lt, w) /\ lt \in Pending
  BY DEF DeferLthread, Held, Pending
<1>2. /\ lpc[lt] = "io" /\ lt \in heap /\ ret[lt] = "fresh" /\ lt \in busy[s]
      /\ ~Submitting(lt) /\ ~Deferred(lt)
      /\ \A v \in Worker : ~Queued(lt, v) /\ (Held(lt, v) => v = w)
  BY <1>1 DEF DeferLthread, JobOK, BusyOK
<1>3. /\ \A x : InQ(x, defer'[s]) <=> InQ(x, defer[s]) \/ x = lt
      /\ Distinct(defer'[s])
      /\ \A t \in Sched \ {s} : defer'[t] = defer[t]
  BY <1>1, <1>2, QAppend DEF DeferLthread, ListsOK, Deferred
<1>4. /\ wpc'[w] = "trigger" /\ wpc[w] = "defer" /\ hand' = hand
      /\ \A v \in Worker \ {w} : wpc'[v] = wpc[v]
  BY DEF DeferLthread
<1>5. \A k \in Lthread, v \in Worker :
        /\ Queued(k, v)' <=> Queued(k, v)
        /\ Held(k, v)' <=> Held(k, v) /\ k # lt
  <2>1. \A k \in Lthread, v \in Worker : Queued(k, v)' <=> Queued(k, v)
    BY DEF DeferLthread, Queued
  <2>2. \A k \in Lthread, v \in Worker : Held(k, v)' <=> Held(k, v) /\ k # lt
    BY <1>2, <1>4 DEF Held
  <2> QED BY <2>1, <2>2
<1>6. \A k \in Lthread : /\ Submitting(k)' <=> Submitting(k)
                         /\ Deferred(k)' <=> Deferred(k) \/ k = lt
  BY <1>1, <1>3 DEF DeferLthread, Submitting, Deferred
<1>7. UNCHANGED <<lpc, heap, ret, busy, spc>>
  BY DEF DeferLthread
<1> HIDE DEF lt, s
<1>8. Pending' = Pending \ {lt}
  <2> HIDE DEF IInv
  <2> QED BY <1>1, <1>2, <1>5, PendingIs
<1>9. ListsOK'
  BY <1>1, <1>3 DEF DeferLthread, ListsOK, s
<1>10. JobOK'
  <2>1. JobOK
    BY DEF IInv
  <2> HIDE DEF IInv
  <2> SUFFICES ASSUME NEW k \in Lthread PROVE JobOK!(k)'
    BY DEF JobOK
  <2>2. CASE k = lt
    BY <1>1, <1>2, <1>5, <1>6, <1>7, <1>8, <2>1, <2>2 DEF JobOK
  <2>3. CASE k # lt
    BY <1>4, <1>5, <1>6, <1>7, <1>8, <2>1, <2>3 DEF JobOK, Held
  <2> QED BY <2>2, <2>3
<1>11. BusyOK'
  BY <1>1, <1>2, <1>6, <1>7, <1>8 DEF BusyOK, s
<1>12. NoSleepOnDefer'
  <2> SUFFICES ASSUME NEW t \in Sched, spc'[t] = "poll", defer'[t] # <<>>, ~eventfd'[t]
               PROVE  \E v \in Worker : /\ wpc'[v] = "trigger" /\ SchedOf(hand'[v]) = t
                                        /\ hand'[v] \in heap' /\ spc'[SchedOf(hand'[v])] # "done"
    BY DEF NoSleepOnDefer, SchedAlive
  <2>1. CASE t = s
    BY <1>1, <1>2, <1>4, <1>7, <2>1 DEF lt, s
  <2>2. CASE t # s
    <3>1. spc[t] = "poll" /\ defer[t] # <<>> /\ ~eventfd[t]
      BY <1>3, <1>7, <2>2 DEF DeferLthread
    <3>2. PICK v \in Worker : wpc[v] = "trigger" /\ SchedOf(hand[v]) = t /\ SchedAlive(hand[v])
      BY <3>1 DEF NoSleepOnDefer
    <3> QED BY <1>4, <1>7, <3>2 DEF SchedAlive
  <2> QED BY <2>1, <2>2
<1>13. Service!Done(hand[w])
  BY <1>1, <1>8 DEF DeferLthread, Service!Done, lt
<1> HIDE DEF IInv
<1> QED BY <1>9, <1>10, <1>11, <1>12, <1>13

(* The scheduler resumes an lthread from its defer queue.                  *)
LEMMA ResumeStep ==
  ASSUME IInv, NEW s \in Sched, TakeDefer(s)
  PROVE  ListsOK' /\ JobOK' /\ BusyOK' /\ NoSleepOnDefer' /\ Service!Take(s)
<1> USE IoAssumption DEF IInv, TypeOK, LocalOK, WPC, SPC
<1> DEFINE lt == Head(defer[s])
<1>1. /\ lt \in Lthread /\ InQ(lt, defer[s])
      /\ \A x : InQ(x, defer'[s]) <=> InQ(x, defer[s]) /\ x # lt
      /\ Distinct(defer'[s])
      /\ \A t \in Sched \ {s} : defer'[t] = defer[t]
  BY QTail DEF TakeDefer, ListsOK
<1>2. SchedOf(lt) = s /\ Deferred(lt)
  BY <1>1 DEF ListsOK, Deferred
<1>3. lpc[lt] = "io" /\ lt \in heap /\ lt \notin Pending /\ ~Submitting(lt)
  BY <1>1, <1>2 DEF JobOK
<1>4. \A k \in Lthread : /\ Submitting(k)' <=> Submitting(k)
                         /\ Deferred(k)' <=> Deferred(k) /\ k # lt
                         /\ k # lt => lpc'[k] = lpc[k] /\ ret'[k] = ret[k]
  BY <1>1, <1>2 DEF TakeDefer, Submitting, Deferred
<1>5. \A k \in Lthread, v \in Worker : (Queued(k, v)' <=> Queued(k, v)) /\ (Held(k, v)' <=> Held(k, v))
  BY DEF TakeDefer, Queued, Held
<1>6. Pending' = Pending
  BY DEF TakeDefer, Pending
<1>7. lt \in Lthread /\ lpc'[lt] = "user" /\ heap' = heap /\ wpc' = wpc
  BY <1>1 DEF TakeDefer
<1>8. /\ \A k \in Lthread \ {lt} : k \in busy[SchedOf(k)] => k \in busy'[SchedOf(k)]
      /\ \A t \in Sched : busy[t] = {} => busy'[t] = {}
      /\ spc' = spc
  BY DEF TakeDefer
<1> HIDE DEF lt
<1>9. ListsOK'
  BY <1>1 DEF TakeDefer, ListsOK
<1>10. JobOK'
  <2>1. JobOK
    BY DEF IInv
  <2> HIDE DEF IInv
  <2> SUFFICES ASSUME NEW k \in Lthread PROVE JobOK!(k)'
    BY DEF JobOK
  <2>4. CASE k = lt
    BY <1>3, <1>4, <1>5, <1>6, <1>7, <2>1, <2>4, PendingIs DEF JobOK
  <2>5. CASE k # lt
    BY <1>4, <1>5, <1>6, <1>7, <2>1, <2>5 DEF JobOK
  <2> QED BY <2>4, <2>5
<1>11. BusyOK'
  <2>1. BusyOK /\ \A k \in Lthread : SchedOf(k) \in Sched
    BY DEF IInv
  <2> HIDE DEF IInv
  <2> QED BY <1>3, <1>4, <1>6, <1>8, <2>1 DEF BusyOK
<1>12. NoSleepOnDefer'
  <2>1. WakesKept
    BY DEF TakeDefer, WakesKept, SchedAlive
  <2> QED BY <2>1, WakeFrame
<1>13. Service!Take(s)
  BY <1>6 DEF TakeDefer, Service!Take
<1> HIDE DEF IInv
<1> QED BY <1>9, <1>10, <1>11, <1>12, <1>13

(* Every step preserves the invariant, and is one of IoService or does not *)
(* show there.                                                             *)
LEMMA Step ==
  ASSUME IInv, [Next]_vars
  PROVE  IInv' /\ [Service!Next]_<<Pending, defer>>
<1> DEFINE Goal == /\ ListsOK' /\ JobOK' /\ BusyOK' /\ NoSleepOnDefer'
                   /\ [Service!Next]_<<Pending, defer>>
<1>1. TypeOK' /\ LocalOK'
  BY TypeNext DEF IInv
<1>2. ASSUME NEW s \in Sched, Runs(s) \/ Submits(s) \/ Polls(s) \/ RunReturns(s) PROVE Goal
  <2>1. CASE QueueJob(s)
    <3>1. cur[s] \in Lthread
      BY <2>1 DEF IInv, LocalOK, QueueJob
    <3> QED BY <2>1, <3>1, QueueStep DEF Service!Next
  <2>2. CASE ~QueueJob(s)
    BY <1>2, <2>2, QuietSchedStep DEF Runs, Submits, Polls
  <2> QED BY <2>1, <2>2
<1>3. ASSUME NEW s \in Sched, TakeDefer(s) PROVE Goal
  BY <1>3, ResumeStep DEF Service!Next
<1>4. ASSUME NEW w \in Worker, WorkerStep(w) \/ SpuriousWakeup(w) PROVE Goal
  <2>1. CASE TakeJob(w)
    BY <2>1, TakeStep
  <2>2. CASE Work(w)
    BY <2>2, WorkStep
  <2>3. CASE DeferLthread(w)
    <3>1. hand[w] \in Lthread
      BY <2>3 DEF IInv, LocalOK, DeferLthread
    <3> QED BY <2>3, <3>1, DeferStep DEF Service!Next
  <2>4. CASE ~(TakeJob(w) \/ Work(w) \/ DeferLthread(w))
    BY <1>4, <2>4, QuietWorkerStep DEF WorkerStep
  <2> QED BY <2>1, <2>2, <2>3, <2>4
<1>5. ASSUME UNCHANGED vars PROVE Goal
  <2>1. Pending' = Pending /\ defer' = defer
    BY <1>5 DEF vars, Pending
  <2>2. ListsOK' /\ BusyOK' /\ NoSleepOnDefer'
    BY <1>5, <2>1 DEF vars, IInv, ListsOK, BusyOK, NoSleepOnDefer, SchedAlive, Submitting, Deferred
  <2>3. JobOK'
    BY <1>5, <2>1 DEF vars, IInv, JobOK, Submitting, Queued, Held, Deferred
  <2> QED BY <2>1, <2>2, <2>3
<1>6. Goal
  BY <1>2, <1>3, <1>4, <1>5 DEF Next, Stop
<1> QED BY <1>1, <1>6 DEF IInv

-----------------------------------------------------------------------------
(* IInv holds throughout: an lthread's job is in one place at a time, the  *)
(* scheduler counts on it, and a scheduler asleep will be woken for it.    *)
THEOREM Invariance == Spec => []IInv
<1>1. IInv /\ [Next]_vars => IInv'
  BY Step
<1> QED BY InvInit, <1>1, PTL DEF Spec

(* A scheduler does not sleep in its poll on an lthread that a worker has  *)
(* put on its defer queue: the eventfd is set, or a worker is about to set *)
(* it.                                                                     *)
THEOREM NoSleepOnDeferHolds == Spec => []NoSleepOnDefer
<1>1. IInv => NoSleepOnDefer
  BY DEF IInv
<1> QED BY Invariance, <1>1, PTL

(* lthread_io_read and _write return with the result of this call, when no *)
(* worker has the job any more.                                            *)
THEOREM ResultReadyHolds == Spec => []ResultReady
<1>1. IInv => ResultReady
  BY DEF IInv, TypeOK, JobOK, ResultReady, Deferred
<1> QED BY Invariance, <1>1, PTL

(* lthread_run does not return while a worker owes it an lthread.          *)
THEOREM SchedOutlivesJobsHolds == Spec => []SchedOutlivesJobs
<1>1. ASSUME IInv PROVE SchedOutlivesJobs
  <2> SUFFICES ASSUME NEW s \in Sched, spc[s] = "done"
               PROVE  defer[s] = <<>> /\ \A lt \in Pending : SchedOf(lt) # s
    BY DEF SchedOutlivesJobs
  <2>1. busy[s] = {} /\ defer[s] \in Seq(Lthread)
    BY <1>1 DEF IInv, TypeOK, BusyOK
  <2>2. BusyOK /\ ListsOK
    BY <1>1 DEF IInv
  <2>3. \A lt \in Pending : SchedOf(lt) # s
    BY <2>1, <2>2, PendingIs DEF BusyOK
  <2>4. ASSUME defer[s] # <<>> PROVE FALSE
    <3> DEFINE lt == Head(defer[s])
    <3>1. lt \in Lthread /\ InQ(lt, defer[s])
      BY <2>1, <2>4, QTail
    <3> HIDE DEF lt
    <3>2. SchedOf(lt) = s
      BY <2>2, <3>1 DEF ListsOK
    <3>3. Deferred(lt)
      BY <3>1, <3>2 DEF Deferred
    <3> QED BY <2>1, <2>2, <3>1, <3>2, <3>3 DEF BusyOK
  <2> QED BY <2>3, <2>4
<1> QED BY Invariance, <1>1, PTL

(* lthread_io.c gives the schedulers what IoService promises them and      *)
(* LthreadSched relies on: a job handed in is carried out once and comes   *)
(* back once, to the scheduler it came from.                               *)
THEOREM IoRefines == Spec => IsIoService
<1>1. Init => Service!Init
  BY DEF Init, Service!Init, Pending, InQ
<1>2. IInv /\ [Next]_vars => IInv' /\ [Service!Next]_<<Pending, defer>>
  BY Step
<1> QED BY InvInit, <1>1, <1>2, PTL DEF Spec, IsIoService, Service!Spec
=============================================================================
