------------------------------ MODULE Compute ------------------------------
(***************************************************************************)
(* lthread_compute.c: an lthread between lthread_compute_begin and         *)
(* lthread_compute_end runs on a native compute scheduler.  Compute        *)
(* schedulers are started on demand and end themselves after 60 seconds    *)
(* without work.  As in IoWorker a step is a stretch of one pthread's code *)
(* that touches shared state once; lthreads_mutex, run_mutex and           *)
(* defer_mutex guard single steps, sched_mutex is held over several.       *)
(***************************************************************************)
EXTENDS Tailq

CONSTANTS Lthread, Sched, NoLt,
          SchedOf(_),       \* lt->sched
          Populations,      \* the sets of lthreads to start with
          MaxSched,         \* bound: how many compute schedulers are started
          CancelComputing   \* contract: TRUE lets clients cancel computing lthreads

ASSUME ComputeAssumption ==
  /\ MaxSched \in Nat \ {0} /\ CancelComputing \in BOOLEAN
  /\ NoLt \notin Lthread /\ Populations \subseteq SUBSET Lthread
  /\ \A lt \in Lthread : SchedOf(lt) \in Sched
  /\ 0 \notin Sched      \* the owner of a free mutex

CSched == 1..MaxSched
None == 0

VARIABLES
  sched_mutex,        \* who holds it: a scheduler, or None
  compute_scheds,     \* the list
  compute_st,         \* per compute scheduler: "BUSY" or "FREE"
  lthreads,           \* per compute scheduler: its queue
  kpc, hand,          \* per compute scheduler: place in its code, its lt
  spc, cur,           \* per scheduler: place in its code, the lthread it is about
  lpc,                \* per lthread: in "user" code, in "compute" or "gone"
  csched,             \* lt->compute_sched
  pending, runcompute,\* the lthreads with LT_ST_PENDING_RUNCOMPUTE, _RUNCOMPUTE
  cancelled, aborting,\* with LT_ST_CANCELLED; put on ready by lthread_cancel
  busy, defer,        \* sched->busy, sched->defer
  eventfd

kvars == <<sched_mutex, compute_scheds, compute_st, kpc, hand>>
tvars == <<lpc, csched, pending, runcompute, cancelled, aborting>>
qvars == <<lthreads, busy, defer, eventfd>>
vars  == <<kvars, tvars, qvars, spc, cur>>

Init ==
  /\ sched_mutex = None /\ compute_scheds = <<>>
  /\ compute_st = [k \in CSched |-> "BUSY"]     \* calloc: LT_COMPUTE_BUSY is 0
  /\ lthreads = [k \in CSched |-> <<>>]
  /\ kpc = [k \in CSched |-> "none"] /\ hand = [k \in CSched |-> NoLt]
  /\ spc = [s \in Sched |-> "loop"] /\ cur = [s \in Sched |-> NoLt]
  /\ \E some \in Populations :
       lpc = [lt \in Lthread |-> IF lt \in some THEN "user" ELSE "gone"]
  /\ csched = [lt \in Lthread |-> None]
  /\ pending = {} /\ runcompute = {} /\ cancelled = {} /\ aborting = {}
  /\ busy = [s \in Sched |-> {}] /\ defer = [s \in Sched |-> <<>>]
  /\ eventfd = [s \in Sched |-> FALSE]

-----------------------------------------------------------------------------
(* A scheduler's pthread                                                   *)

Ready(s) == {lt \in Lthread \ cancelled : SchedOf(lt) = s /\ lpc[lt] = "user"}
SchedAt(s, p, q) == spc[s] = p /\ spc' = [spc EXCEPT ![s] = q]

(* A compute scheduler is allocated and its pthread started.               *)
_lthread_compute_sched_create(k) ==
  /\ kpc[k] = "none" /\ \A j \in 1..(k - 1) : kpc[j] # "none"
  /\ kpc' = [kpc EXCEPT ![k] = "check"]
  /\ compute_scheds' = <<k>> \o compute_scheds

Free == {i \in DOMAIN compute_scheds : compute_st[compute_scheds[i]] = "FREE"}

(* lthread_compute_begin takes sched_mutex and finds a compute scheduler:  *)
(* the first that is free, else a new one, else, if it cannot be made, the *)
(* first.  (If there is none either, the call returns -1.)                 *)
lthread_compute_begin(s, lt) ==
  /\ SchedAt(s, "loop", "insert") /\ lt \in Ready(s)
  /\ sched_mutex = None /\ sched_mutex' = s
  /\ cur' = [cur EXCEPT ![s] = lt]
  /\ \/ /\ Free # {}
        /\ \E i \in Free : (\A j \in Free : i <= j) /\ csched' = [csched EXCEPT ![lt] = compute_scheds[i]]
        /\ UNCHANGED <<kpc, compute_scheds>>
     \/ /\ Free = {}
        /\ \E k \in CSched : /\ _lthread_compute_sched_create(k)
                             /\ csched' = [csched EXCEPT ![lt] = k]
     \/ /\ Free = {} /\ compute_scheds # <<>>
        /\ csched' = [csched EXCEPT ![lt] = Head(compute_scheds)]
        /\ UNCHANGED <<kpc, compute_scheds>>
  /\ UNCHANGED <<compute_st, hand, lpc, pending, runcompute, cancelled, aborting, qvars>>

(* Still in lthread_compute_begin: PENDING, and into the queue.            *)
Insert(s) ==
  /\ SchedAt(s, "insert", "switch")
  /\ lpc' = [lpc EXCEPT ![cur[s]] = "compute"]
  /\ pending' = pending \cup {cur[s]}
  /\ lthreads' = [lthreads EXCEPT ![csched[cur[s]]] = Append(@, cur[s])]
  /\ sched_mutex' = None
  /\ UNCHANGED <<compute_scheds, compute_st, kpc, hand, csched, runcompute, cancelled, aborting,
                 busy, defer, eventfd, cur>>

(* The scheduler leaves the lthread's stack and is back in _lthread_resume.*)
Switch(s) ==
  /\ SchedAt(s, "switch", "add")
  /\ UNCHANGED <<kvars, tvars, qvars, cur>>

(* _lthread_compute_add: from here on the compute scheduler may run it ... *)
_lthread_compute_add(s) ==
  /\ SchedAt(s, "add", "signal")
  /\ busy' = [busy EXCEPT ![s] = @ \cup {cur[s]}]
  /\ pending' = pending \ {cur[s]}
  /\ runcompute' = runcompute \cup {cur[s]}
  /\ UNCHANGED <<kvars, lpc, csched, cancelled, aborting, lthreads, defer, eventfd, cur>>

(* ... and it is signalled, in case it waits.                              *)
Signal(s) ==
  /\ SchedAt(s, "signal", "loop")
  /\ kpc' = [kpc EXCEPT ![csched[cur[s]]] = IF @ = "wait" THEN "check" ELSE @]
  /\ cur' = [cur EXCEPT ![s] = NoLt]
  /\ UNCHANGED <<sched_mutex, compute_scheds, compute_st, hand, tvars, qvars>>

(* Fault: the flag is not set.                                             *)
lthread_cancel_NoFlag(s, lt) ==
  /\ SchedAt(s, "loop", "cancel") /\ SchedOf(lt) = s /\ lt \notin cancelled
  /\ Ready(s) \ {lt} # {} /\ lpc[lt] = "user"
  /\ cur' = [cur EXCEPT ![s] = lt]
  /\ UNCHANGED <<kvars, tvars, qvars>>

(* lthread_cancel, called by another lthread of the same scheduler: the    *)
(* flag is set, ...                                                        *)
lthread_cancel(s, lt) ==
  /\ SchedAt(s, "loop", "cancel") /\ SchedOf(lt) = s /\ lt \notin cancelled
  /\ Ready(s) \ {lt} # {}
  /\ lpc[lt] = "user" \/ (CancelComputing /\ lpc[lt] = "compute")
  /\ cancelled' = cancelled \cup {lt}
  /\ cur' = [cur EXCEPT ![s] = lt]
  /\ UNCHANGED <<kvars, lpc, csched, pending, runcompute, aborting, qvars>>

(* ... and the flags of the compute scheduler are tested.                  *)
CancelReady(s) ==
  /\ SchedAt(s, "cancel", "loop")
  /\ aborting' = IF cur[s] \in pending \cup runcompute THEN aborting
                                                      ELSE aborting \cup {cur[s]}
  /\ cur' = [cur EXCEPT ![s] = NoLt]
  /\ UNCHANGED <<kvars, lpc, csched, pending, runcompute, cancelled, qvars>>

(* _lthread_resume of an lthread that returns, and of one that was         *)
(* cancelled.  Detached or joined, it may be freed from then on.           *)
LthreadReturns(s, lt) ==
  /\ SchedAt(s, "loop", "loop") /\ lt \in Ready(s)
  /\ lpc' = [lpc EXCEPT ![lt] = "gone"]
  /\ UNCHANGED <<kvars, csched, pending, runcompute, cancelled, aborting, qvars, cur>>

ResumeCancelled(s, lt) ==
  /\ SchedAt(s, "loop", "loop") /\ SchedOf(lt) = s /\ lt \in aborting
  /\ lpc' = [lpc EXCEPT ![lt] = "gone"]
  /\ aborting' = aborting \ {lt}
  /\ UNCHANGED <<kvars, csched, pending, runcompute, cancelled, qvars, cur>>

(* Step 3 of lthread_run.                                                  *)
TakeDefer(s) ==
  /\ SchedAt(s, "loop", "loop") /\ defer[s] # <<>>
  /\ LET lt == Head(defer[s])
     IN  /\ busy' = [busy EXCEPT ![s] = @ \ {lt}]
         /\ lpc' = [lpc EXCEPT ![lt] = IF lt \in cancelled THEN "gone" ELSE "user"]
         /\ csched' = [csched EXCEPT ![lt] = None]
  /\ defer' = [defer EXCEPT ![s] = Tail(@)]
  /\ UNCHANGED <<kvars, pending, runcompute, cancelled, aborting, lthreads, eventfd, cur>>

(* _lthread_poll, which ends when the eventfd is written to or in time.    *)
Sleep(s) ==
  /\ SchedAt(s, "loop", "poll") /\ defer[s] = <<>>
  /\ Ready(s) = {} /\ {lt \in aborting : SchedOf(lt) = s} = {} /\ busy[s] # {}
  /\ UNCHANGED <<kvars, tvars, qvars, cur>>

WakeUp(s) ==
  /\ SchedAt(s, "poll", "loop")
  /\ eventfd' = [eventfd EXCEPT ![s] = FALSE]
  /\ UNCHANGED <<kvars, tvars, lthreads, busy, defer, cur>>

RunReturns(s) ==
  /\ SchedAt(s, "loop", "done") /\ busy[s] = {}
  /\ Ready(s) = {} /\ {lt \in aborting : SchedOf(lt) = s} = {}
  /\ UNCHANGED <<kvars, tvars, qvars, cur>>

-----------------------------------------------------------------------------
(* A compute scheduler's pthread: _lthread_compute_run                     *)

At(k, p, q) == kpc[k] = p /\ kpc' = [kpc EXCEPT ![k] = q]

(* Fault: an lthread that is not yet off its stack is taken.               *)
Take_Pending(k) ==
  /\ At(k, "check", "run") /\ lthreads[k] # <<>>
  /\ hand' = [hand EXCEPT ![k] = Head(lthreads[k])]
  /\ lthreads' = [lthreads EXCEPT ![k] = Tail(@)]
  /\ compute_st' = [compute_st EXCEPT ![k] = "BUSY"]
  /\ UNCHANGED <<sched_mutex, compute_scheds, tvars, busy, defer, eventfd, spc, cur>>

(* The first lthread is run, once it is no longer PENDING.                 *)
Take(k) ==
  /\ At(k, "check", "run") /\ lthreads[k] # <<>>
  /\ Head(lthreads[k]) \notin pending
  /\ hand' = [hand EXCEPT ![k] = Head(lthreads[k])]
  /\ lthreads' = [lthreads EXCEPT ![k] = Tail(@)]
  /\ compute_st' = [compute_st EXCEPT ![k] = "BUSY"]
  /\ UNCHANGED <<sched_mutex, compute_scheds, tvars, busy, defer, eventfd, spc, cur>>

(* lthread_compute_end switches back.                                      *)
lthread_compute_end(k) ==
  /\ At(k, "run", "handback")
  /\ compute_st' = [compute_st EXCEPT ![k] = "FREE"]
  /\ UNCHANGED <<sched_mutex, compute_scheds, hand, tvars, qvars, spc, cur>>

(* Fault: the lthread goes to the scheduler's queue twice.                 *)
HandBack_Retakes(k) ==
  /\ At(k, "handback", "handback") \/ At(k, "handback", "trigger")
  /\ defer' = [defer EXCEPT ![SchedOf(hand[k])] = Append(@, hand[k])]
  /\ runcompute' = runcompute \ {hand[k]}
  /\ UNCHANGED <<sched_mutex, compute_scheds, compute_st, hand, lpc, csched, pending, cancelled,
                 aborting, lthreads, busy, eventfd, spc, cur>>

(* `lt->state &= CLEARBIT(RUNCOMPUTE)' under defer_mutex.  The bits of the *)
(* state word are separate sets here, so that an update lost between this  *)
(* and the unlocked |= CANCELLED of lthread_cancel or &= CLEARBIT(EXPIRED) *)
(* of _lthread_resume_expired is not modelled.                             *)
HandBack(k) ==
  /\ At(k, "handback", "trigger")
  /\ defer' = [defer EXCEPT ![SchedOf(hand[k])] = Append(@, hand[k])]
  /\ runcompute' = runcompute \ {hand[k]}
  /\ UNCHANGED <<sched_mutex, compute_scheds, compute_st, hand, lpc, csched, pending, cancelled,
                 aborting, lthreads, busy, eventfd, spc, cur>>

(* _lthread_poller_ev_trigger(lt->sched): lt may be freed by now, and then *)
(* what is read there may name any scheduler or none.                      *)
Trigger(k) ==
  /\ At(k, "trigger", "check")
  /\ \E s \in IF lpc[hand[k]] # "gone" THEN {SchedOf(hand[k])} ELSE Sched :
       eventfd' = [eventfd EXCEPT ![s] = TRUE]
  /\ hand' = [hand EXCEPT ![k] = NoLt]
  /\ UNCHANGED <<sched_mutex, compute_scheds, compute_st, tvars, lthreads, busy, defer, spc, cur>>

(* "we have no work to do": lthreads_mutex is given up, ...                *)
NoWork(k) ==
  /\ At(k, "check", "park") /\ lthreads[k] = <<>>
  /\ UNCHANGED <<sched_mutex, compute_scheds, compute_st, hand, tvars, qvars, spc, cur>>

(* ... and only then is the condition variable waited on.                  *)
Wait(k) ==
  /\ At(k, "park", "wait")
  /\ UNCHANGED <<sched_mutex, compute_scheds, compute_st, hand, tvars, qvars, spc, cur>>

SpuriousWakeup(k) ==
  /\ At(k, "wait", "check")
  /\ UNCHANGED <<sched_mutex, compute_scheds, compute_st, hand, tvars, qvars, spc, cur>>

(* The 60 seconds are over.  Timing assumption: no scheduler takes as long *)
(* to get from one statement of _lthread_compute_add to the next.          *)
TimedOut(k) ==
  /\ At(k, "wait", "timedout")
  /\ \A s \in Sched : ~(spc[s] = "signal" /\ csched[cur[s]] = k)
  /\ UNCHANGED <<sched_mutex, compute_scheds, compute_st, hand, tvars, qvars, spc, cur>>

(* Fault: sched_mutex is not taken.                                        *)
Exit_NoMutex(k) ==
  /\ At(k, "timedout", "freed") /\ lthreads[k] = <<>>
  /\ compute_scheds' = TailqRemove(compute_scheds, k)
  /\ UNCHANGED <<sched_mutex, compute_st, hand, tvars, qvars, spc, cur>>

(* Still no work: off the list, and free.                                  *)
Exit(k) ==
  /\ At(k, "timedout", "freed") /\ sched_mutex = None /\ lthreads[k] = <<>>
  /\ compute_scheds' = TailqRemove(compute_scheds, k)
  /\ UNCHANGED <<sched_mutex, compute_st, hand, tvars, qvars, spc, cur>>

(* Fault: work that came without a signal is not looked for.               *)
Stay_Waits(k) ==
  /\ At(k, "timedout", "wait") /\ sched_mutex = None /\ lthreads[k] # <<>>
  /\ UNCHANGED <<sched_mutex, compute_scheds, compute_st, hand, tvars, qvars, spc, cur>>

(* Work came meanwhile, or its signal was lost between NoWork and Wait.    *)
Stay(k) ==
  /\ At(k, "timedout", "check") /\ sched_mutex = None /\ lthreads[k] # <<>>
  /\ UNCHANGED <<sched_mutex, compute_scheds, compute_st, hand, tvars, qvars, spc, cur>>

-----------------------------------------------------------------------------
Begins(s) == Insert(s) \/ Switch(s) \/ _lthread_compute_add(s) \/ Signal(s) \/ CancelReady(s)
Resumes(s) == \E lt \in Lthread :
  \/ lthread_compute_begin(s, lt) \/ lthread_cancel(s, lt)
  \/ LthreadReturns(s, lt) \/ ResumeCancelled(s, lt)
Computes(k) ==
  \/ Take(k) \/ lthread_compute_end(k) \/ HandBack(k) \/ Trigger(k)
  \/ NoWork(k) \/ Wait(k) \/ TimedOut(k) \/ Exit(k) \/ Stay(k)

Stop == (\A s \in Sched : spc[s] = "done") /\ UNCHANGED vars

Next ==
  \/ \E s \in Sched : Resumes(s) \/ Begins(s) \/ TakeDefer(s) \/ Sleep(s) \/ WakeUp(s) \/ RunReturns(s)
  \/ \E k \in CSched : Computes(k) \/ SpuriousWakeup(k)
  \/ Stop

Spec == Init /\ [][Next]_vars

(* Every pthread goes on, timers run out, a computation ends, and each     *)
(* pass of lthread_run drains the defer queue.                             *)
Fairness ==
  /\ \A s \in Sched : WF_vars(Begins(s)) /\ WF_vars(WakeUp(s)) /\ SF_vars(TakeDefer(s))
  /\ \A k \in CSched : WF_vars(Computes(k)) /\ SF_vars(Stay(k))

FairSpec == Spec /\ Fairness

-----------------------------------------------------------------------------
KPC == {"none", "check", "run", "handback", "trigger", "park", "wait", "timedout", "freed"}

TypeOK ==
  /\ sched_mutex \in Sched \cup {None}
  /\ compute_scheds \in Seq(CSched) /\ compute_st \in [CSched -> {"BUSY", "FREE"}]
  /\ lthreads \in [CSched -> Seq(Lthread)]
  /\ kpc \in [CSched -> KPC] /\ hand \in [CSched -> Lthread \cup {NoLt}]
  /\ spc \in [Sched -> {"loop", "insert", "switch", "add", "signal", "cancel", "poll", "done"}]
  /\ cur \in [Sched -> Lthread \cup {NoLt}]
  /\ lpc \in [Lthread -> {"user", "compute", "gone"}]
  /\ csched \in [Lthread -> CSched \cup {None}]
  /\ pending \subseteq Lthread /\ runcompute \subseteq Lthread
  /\ cancelled \subseteq Lthread /\ aborting \subseteq cancelled
  /\ busy \in [Sched -> SUBSET Lthread] /\ defer \in [Sched -> Seq(Lthread)]
  /\ eventfd \in [Sched -> BOOLEAN]

Computing == {lt \in Lthread : \E k \in CSched :
                InQ(lt, lthreads[k]) \/ (kpc[k] \in {"run", "handback"} /\ hand[k] = lt)}

Service == INSTANCE IoService WITH io <- Computing

(* To the schedulers a compute section is what disk IO is: the lthread is  *)
(* run once, by one compute scheduler, and comes back once to where it     *)
(* came from.                                                              *)
IsIoService == Service!Spec

(* LT_ST_PENDING_RUNCOMPUTE keeps two pthreads off one stack: while a      *)
(* compute scheduler runs an lthread, its own scheduler has left that      *)
(* lthread's stack and does not run it.                                    *)
OneStackUser ==
  \A k \in CSched : kpc[k] = "run" =>
    LET lt == hand[k]
        s  == SchedOf(lt)
    IN  /\ lpc[lt] = "compute" /\ lt \notin pending
        /\ ~(spc[s] \in {"insert", "switch"} /\ cur[s] = lt)
        /\ \A j \in CSched \ {k} : kpc[j] = "run" => hand[j] # lt

(* A compute scheduler that ends itself is not about to be used: no begin  *)
(* has chosen it, no lthread is queued with it and nobody signals it.      *)
FreedIsUnused ==
  \A k \in CSched : kpc[k] = "freed" =>
    /\ lthreads[k] = <<>> /\ ~InQ(k, compute_scheds)
    /\ \A s \in Sched : spc[s] \in {"insert", "add", "signal"} => csched[cur[s]] # k

(* Every compute section ends, although a signal sent between NoWork and   *)
(* Wait is lost: the time-out makes the compute scheduler look again.      *)
ComputeCompletes ==
  \A lt \in Lthread : lpc[lt] = "compute" ~> lpc[lt] # "compute"

(* lthread_cancel: "we don't schedule the cancelled lthread if it was      *)
(* running in a compute scheduler": an lthread that is to come back by the *)
(* defer queue is not put on the ready queue as well, to be freed there.   *)
CancelWaitsForCompute ==
  \A lt \in aborting : lt \notin Computing /\ ~InQ(lt, defer[SchedOf(lt)])
=============================================================================
