--------------------------- MODULE Compute_proofs ---------------------------
(***************************************************************************)
(* Theorems about Compute, for any number of lthreads, schedulers and      *)
(* compute schedulers.                                                     *)
(***************************************************************************)
EXTENDS Compute, Tailq_proofs

(* Where an lthread in a compute section can be.                           *)
Queued(lt, k) == InQ(lt, lthreads[k])
Held(lt, k)   == kpc[k] \in {"run", "handback"} /\ hand[k] = lt
Deferred(lt)  == InQ(lt, defer[SchedOf(lt)])

(* lthread_compute_begin and _lthread_compute_add are at work on lt.       *)
Beginning(lt, at) == spc[SchedOf(lt)] \in at /\ cur[SchedOf(lt)] = lt

(* Each pthread's own variables fit its place in the code, and the defer   *)
(* queues hold their own lthreads.                                         *)
LocalOK ==
  /\ \A s \in Sched : spc[s] \in {"insert", "switch", "add", "signal"} =>
       cur[s] \in Lthread /\ SchedOf(cur[s]) = s /\ csched[cur[s]] \in CSched
  /\ \A s \in Sched : spc[s] = "cancel" => cur[s] \in cancelled
  /\ \A s \in Sched, lt \in Lthread : InQ(lt, defer[s]) => SchedOf(lt) = s
  /\ \A k \in CSched : kpc[k] \in {"run", "handback", "trigger"} => hand[k] \in Lthread

(* The lists are lists.                                                    *)
ListsOK ==
  /\ \A k \in CSched : Distinct(lthreads[k])
  /\ \A s \in Sched : Distinct(defer[s])
  /\ Distinct(compute_scheds)

(* An lthread in a compute section is in one place, and nobody cancels it. *)
JobOK ==
  \A lt \in Lthread :
    /\ lt \in Computing \/ Deferred(lt) => lpc[lt] = "compute"
    /\ ~(lt \in Computing /\ Deferred(lt))
    /\ \A k, j \in CSched : /\ Queued(lt, k) => ~Held(lt, j) /\ (Queued(lt, j) => j = k)
                            /\ Held(lt, k) /\ Held(lt, j) => j = k
    /\ lpc[lt] = "compute" => lt \notin cancelled
    /\ Beginning(lt, {"insert"}) => lpc[lt] = "user" /\ lt \notin cancelled

(* PENDING is set exactly while the lthread is queued and its scheduler is *)
(* still on its stack, or has yet to say that it is not.                   *)
PendingOK ==
  \A lt \in Lthread :
    /\ lt \in pending <=> Beginning(lt, {"switch", "add"})
    /\ lt \in pending => Queued(lt, csched[lt])
    /\ \A k \in CSched : Held(lt, k) => lt \notin pending

(* Who holds sched_mutex has chosen a compute scheduler from the list.     *)
MutexOK ==
  /\ \A s \in Sched : spc[s] = "insert" <=> sched_mutex = s
  /\ \A s \in Sched : spc[s] = "insert" => InQ(csched[cur[s]], compute_scheds)

(* A compute scheduler that times out or has gone is not in use.           *)
IdleOK ==
  /\ \A k \in CSched : InQ(k, compute_scheds) => kpc[k] \notin {"none", "freed"}
  /\ \A k \in CSched : kpc[k] = "timedout" =>
       \A s \in Sched : spc[s] = "signal" /\ csched[cur[s]] = k => Queued(cur[s], k)
  /\ \A k \in CSched : kpc[k] = "freed" =>
       /\ lthreads[k] = <<>>
       /\ \A s \in Sched : spc[s] \in {"insert", "switch", "add", "signal"} => csched[cur[s]] # k

IInv == TypeOK /\ LocalOK /\ ListsOK /\ JobOK /\ PendingOK /\ MutexOK /\ IdleOK

USE DEF SchedAt, At, kvars, tvars, qvars

-----------------------------------------------------------------------------
(* Types                                                                   *)

(* All of it is well typed before the first compute section.               *)
LEMMA TypeInit == Init => TypeOK /\ LocalOK
<1> SUFFICES ASSUME Init PROVE TypeOK /\ LocalOK
  OBVIOUS
<1>1. /\ sched_mutex \in Sched \cup {None} /\ compute_scheds \in Seq(CSched)
      /\ compute_st \in [CSched -> {"BUSY", "FREE"}] /\ kpc \in [CSched -> KPC]
      /\ hand \in [CSched -> Lthread \cup {NoLt}] /\ cur \in [Sched -> Lthread \cup {NoLt}]
  BY DEF Init, KPC
<1>2. lthreads \in [CSched -> Seq(Lthread)] /\ defer \in [Sched -> Seq(Lthread)]
  BY DEF Init
<1>3. /\ spc \in [Sched -> {"loop", "insert", "switch", "add", "signal", "cancel", "poll", "done"}]
      /\ lpc \in [Lthread -> {"user", "compute", "gone"}] /\ csched \in [Lthread -> CSched \cup {None}]
      /\ busy \in [Sched -> SUBSET Lthread] /\ eventfd \in [Sched -> BOOLEAN]
  BY DEF Init
<1>4. /\ pending \subseteq Lthread /\ runcompute \subseteq Lthread
      /\ cancelled \subseteq Lthread /\ aborting \subseteq cancelled
  BY DEF Init
<1>5. TypeOK
  BY <1>1, <1>2, <1>3, <1>4 DEF TypeOK
<1>6. LocalOK
  BY DEF Init, LocalOK, InQ
<1> QED BY <1>5, <1>6

(* Every step of a scheduler and of a compute scheduler keeps the types.   *)
LEMMA TypeNext == TypeOK /\ LocalOK /\ [Next]_vars => TypeOK' /\ LocalOK'
<1> SUFFICES ASSUME TypeOK, LocalOK, [Next]_vars PROVE TypeOK' /\ LocalOK'
  OBVIOUS
<1> USE ComputeAssumption DEF TypeOK, LocalOK, KPC
<1>1. ASSUME NEW s \in Sched, NEW lt \in Lthread, lthread_compute_begin(s, lt) PROVE TypeOK' /\ LocalOK'
  <2>1. /\ kpc' \in [CSched -> KPC] /\ compute_scheds' \in Seq(CSched)
        /\ csched' \in [Lthread -> CSched \cup {None}] /\ csched'[lt] \in CSched
        /\ \A j \in Lthread \ {lt} : csched'[j] = csched[j]
        /\ \A k \in CSched : kpc'[k] \in {"run", "handback", "trigger"} => kpc'[k] = kpc[k]
    <3>1. CASE \E i \in DOMAIN compute_scheds : /\ csched' = [csched EXCEPT ![lt] = compute_scheds[i]]
                                                /\ UNCHANGED <<kpc, compute_scheds>>
      BY <3>1
    <3>2. CASE \E k \in CSched : /\ _lthread_compute_sched_create(k)
                                 /\ csched' = [csched EXCEPT ![lt] = k]
      BY <3>2 DEF _lthread_compute_sched_create
    <3>3. CASE /\ compute_scheds # <<>> /\ csched' = [csched EXCEPT ![lt] = Head(compute_scheds)]
               /\ UNCHANGED <<kpc, compute_scheds>>
      BY <3>3
    <3> QED BY <1>1, <3>1, <3>2, <3>3 DEF lthread_compute_begin, Free
  <2>2. TypeOK'
    <3>1. /\ sched_mutex' \in Sched \cup {None} /\ cur' \in [Sched -> Lthread \cup {NoLt}]
          /\ spc' \in [Sched -> {"loop", "insert", "switch", "add", "signal", "cancel", "poll", "done"}]
      BY <1>1 DEF lthread_compute_begin
    <3>2. UNCHANGED <<compute_st, hand, lpc, pending, runcompute, cancelled, aborting, qvars>>
      BY <1>1 DEF lthread_compute_begin
    <3> QED BY <2>1, <3>1, <3>2
  <2>3. LocalOK'
    <3>1. /\ spc' = [spc EXCEPT ![s] = "insert"] /\ cur' = [cur EXCEPT ![s] = lt]
          /\ SchedOf(lt) = s /\ UNCHANGED <<hand, defer, cancelled>>
      BY <1>1 DEF lthread_compute_begin, Ready
    <3>2. ASSUME NEW t \in Sched, spc'[t] \in {"insert", "switch", "add", "signal"}
          PROVE  cur'[t] \in Lthread /\ SchedOf(cur'[t]) = t /\ csched'[cur'[t]] \in CSched
      <4>1. CASE t = s
        BY <2>1, <3>1, <4>1
      <4>2. CASE t # s
        <5>1. spc'[t] = spc[t] /\ cur'[t] = cur[t]
          BY <3>1, <4>2
        <5>2. cur[t] \in Lthread /\ SchedOf(cur[t]) = t /\ csched[cur[t]] \in CSched
          BY <3>2, <5>1
        <5>3. cur[t] # lt
          BY <3>1, <4>2, <5>2
        <5> HIDE DEF TypeOK, LocalOK, KPC
        <5> QED BY <2>1, <5>1, <5>2, <5>3
      <4> QED BY <4>1, <4>2
    <3>3. \A t \in Sched : spc'[t] = "cancel" => cur'[t] \in cancelled'
      BY <3>1
    <3>4. \A k \in CSched : kpc'[k] \in {"run", "handback", "trigger"} => hand'[k] \in Lthread
      BY <2>1, <3>1
    <3> QED BY <3>1, <3>2, <3>3, <3>4
  <2> QED BY <2>2, <2>3
<1>2. ASSUME NEW s \in Sched, NEW lt \in Lthread, lthread_cancel(s, lt) PROVE TypeOK' /\ LocalOK'
  BY <1>2 DEF lthread_cancel, Ready
<1>3. ASSUME NEW s \in Sched, NEW lt \in Lthread, LthreadReturns(s, lt) PROVE TypeOK' /\ LocalOK'
  BY <1>3 DEF LthreadReturns, Ready
<1>4. ASSUME NEW s \in Sched, NEW lt \in Lthread, ResumeCancelled(s, lt) PROVE TypeOK' /\ LocalOK'
  BY <1>4 DEF ResumeCancelled, Ready
<1>5. ASSUME NEW s \in Sched, Insert(s) PROVE TypeOK' /\ LocalOK'
  BY <1>5 DEF Insert
<1>6. ASSUME NEW s \in Sched, Switch(s) PROVE TypeOK' /\ LocalOK'
  BY <1>6 DEF Switch
<1>7. ASSUME NEW s \in Sched, _lthread_compute_add(s) PROVE TypeOK' /\ LocalOK'
  BY <1>7 DEF _lthread_compute_add
<1>8. ASSUME NEW s \in Sched, Signal(s) PROVE TypeOK' /\ LocalOK'
  <2>1. cur[s] \in Lthread /\ csched[cur[s]] \in CSched
    BY <1>8 DEF Signal
  <2>2. kpc' \in [CSched -> KPC] /\ \A k \in CSched :
          kpc'[k] \in {"run", "handback", "trigger"} => kpc'[k] = kpc[k]
    <3>1. kpc' = [kpc EXCEPT ![csched[cur[s]]] = IF @ = "wait" THEN "check" ELSE @]
      BY <1>8 DEF Signal
    <3>2. CASE kpc[csched[cur[s]]] = "wait"
      BY <2>1, <3>1, <3>2
    <3>3. CASE kpc[csched[cur[s]]] # "wait"
      BY <2>1, <3>1, <3>3
    <3> QED BY <3>2, <3>3
  <2>3. TypeOK'
    BY <1>8, <2>2 DEF Signal
  <2>4. LocalOK'
    BY <1>8, <2>2 DEF Signal
  <2> QED BY <2>3, <2>4
<1>9. ASSUME NEW s \in Sched, CancelReady(s) PROVE TypeOK' /\ LocalOK'
  BY <1>9 DEF CancelReady
<1>10. ASSUME NEW s \in Sched, TakeDefer(s) PROVE TypeOK' /\ LocalOK'
  <2>1. /\ Head(defer[s]) \in Lthread /\ Tail(defer[s]) \in Seq(Lthread)
        /\ SchedOf(Head(defer[s])) = s
        /\ \A x : InQ(x, Tail(defer[s])) => InQ(x, defer[s])
    BY <1>10, QTail DEF TakeDefer
  <2>2. TypeOK'
    BY <1>10, <2>1 DEF TakeDefer
  <2>3. LocalOK'
    BY <1>10, <2>1 DEF TakeDefer
  <2> QED BY <2>2, <2>3
<1>11. ASSUME NEW s \in Sched, Sleep(s) PROVE TypeOK' /\ LocalOK'
  BY <1>11 DEF Sleep
<1>12. ASSUME NEW s \in Sched, WakeUp(s) PROVE TypeOK' /\ LocalOK'
  BY <1>12 DEF WakeUp
<1>13. ASSUME NEW s \in Sched, RunReturns(s) PROVE TypeOK' /\ LocalOK'
  BY <1>13 DEF RunReturns
<1>14. ASSUME NEW k \in CSched, Take(k) PROVE TypeOK' /\ LocalOK'
  <2>1. Head(lthreads[k]) \in Lthread /\ Tail(lthreads[k]) \in Seq(Lthread)
    BY <1>14, QTail DEF Take
  <2> QED BY <1>14, <2>1 DEF Take
<1>15. ASSUME NEW k \in CSched, lthread_compute_end(k) PROVE TypeOK' /\ LocalOK'
  BY <1>15 DEF lthread_compute_end
<1>16. ASSUME NEW k \in CSched, HandBack(k) PROVE TypeOK' /\ LocalOK'
  <2>1. /\ hand[k] \in Lthread
        /\ defer' \in [Sched -> Seq(Lthread)]
        /\ \A s \in Sched : \A x : InQ(x, defer'[s]) <=> InQ(x, defer[s]) \/ (x = hand[k] /\ SchedOf(x) = s)
    <3>1. hand[k] \in Lthread
      BY <1>16 DEF HandBack
    <3> QED BY <1>16, <3>1, QAppend DEF HandBack
  <2>2. TypeOK'
    BY <1>16, <2>1 DEF HandBack
  <2>3. LocalOK'
    BY <1>16, <2>1 DEF HandBack
  <2> QED BY <2>2, <2>3
<1>17. ASSUME NEW k \in CSched, Trigger(k) PROVE TypeOK' /\ LocalOK'
  BY <1>17 DEF Trigger
<1>18. ASSUME NEW k \in CSched, NoWork(k) PROVE TypeOK' /\ LocalOK'
  BY <1>18 DEF NoWork
<1>19. ASSUME NEW k \in CSched, Wait(k) PROVE TypeOK' /\ LocalOK'
  BY <1>19 DEF Wait
<1>20. ASSUME NEW k \in CSched, TimedOut(k) PROVE TypeOK' /\ LocalOK'
  BY <1>20 DEF TimedOut
<1>21. ASSUME NEW k \in CSched, Exit(k) PROVE TypeOK' /\ LocalOK'
  <2>1. TailqRemove(compute_scheds, k) \in Seq(CSched)
    BY QRemove
  <2> QED BY <1>21, <2>1 DEF Exit
<1>22. ASSUME NEW k \in CSched, Stay(k) PROVE TypeOK' /\ LocalOK'
  BY <1>22 DEF Stay
<1>23. ASSUME NEW k \in CSched, SpuriousWakeup(k) PROVE TypeOK' /\ LocalOK'
  BY <1>23 DEF SpuriousWakeup
<1>24. ASSUME UNCHANGED vars PROVE TypeOK' /\ LocalOK'
  BY <1>24 DEF vars
<1> HIDE DEF TypeOK, LocalOK
<1> QED
  BY <1>1, <1>2, <1>3, <1>4, <1>5, <1>6, <1>7, <1>8, <1>9, <1>10, <1>11, <1>12, <1>13,
     <1>14, <1>15, <1>16, <1>17, <1>18, <1>19, <1>20, <1>21, <1>22, <1>23, <1>24
  DEF Next, Begins, Resumes, Computes, Stop

(* Every variable keeps its type, also when clients cancel lthreads that   *)
(* are in a compute section: an lthread that begins one has a compute      *)
(* scheduler, and what CancelReady puts on the ready queue is cancelled.   *)
THEOREM TypeCorrect == Spec => []TypeOK
  BY TypeInit, TypeNext, PTL DEF Spec

-----------------------------------------------------------------------------
(* Safety, when no lthread in a compute section is cancelled               *)

(* Computing in terms of the places an lthread can be in.                  *)
LEMMA ComputingIs ==
  /\ Computing \subseteq Lthread /\ Computing' \subseteq Lthread
  /\ \A lt \in Lthread : lt \in Computing <=> \E k \in CSched : Queued(lt, k) \/ Held(lt, k)
  /\ \A lt \in Lthread : lt \in Computing' <=> \E k \in CSched : Queued(lt, k)' \/ Held(lt, k)'
  BY DEF Computing, Queued, Held

(* Nobody is computing at first and there is no compute scheduler.         *)
LEMMA InvInit == Init => IInv
<1> SUFFICES ASSUME Init PROVE IInv
  OBVIOUS
<1>1. \A lt \in Lthread, k \in CSched : ~Queued(lt, k) /\ ~Held(lt, k)
  BY DEF Init, InQ, Queued, Held
<1>2. \A lt \in Lthread : lt \notin Computing /\ ~Deferred(lt)
  BY <1>1, ComputingIs, ComputeAssumption DEF Init, Deferred, InQ
<1>3. ListsOK
  BY DEF ListsOK, Init, Distinct
<1>4. \A lt \in Lthread : ~Beginning(lt, {"insert"}) /\ ~Beginning(lt, {"switch", "add"})
  BY ComputeAssumption DEF Init, Beginning
<1>5. JobOK
  BY <1>1, <1>2, <1>4 DEF JobOK, Init
<1>6. PendingOK
  BY <1>1, <1>4 DEF PendingOK, Init
<1>7. MutexOK
  BY ComputeAssumption DEF Init, MutexOK, None
<1>8. IdleOK
  BY DEF Init, IdleOK, InQ
<1> QED BY TypeInit, <1>3, <1>5, <1>6, <1>7, <1>8 DEF IInv

(* No lthread goes from one place to another.                              *)
PlacesKept ==
  /\ lthreads' = lthreads /\ defer' = defer
  /\ \A k \in CSched : kpc[k] \in {"run", "handback"} \/ kpc'[k] \in {"run", "handback"} =>
       /\ kpc[k] \in {"run", "handback"} /\ kpc'[k] \in {"run", "handback"}
       /\ hand'[k] = hand[k]

(* Then everyone is where they were.                                       *)
LEMMA PlacesFrame ==
  ASSUME PlacesKept
  PROVE  Computing' = Computing /\ defer' = defer
<1>1. \A lt \in Lthread, k \in CSched : (Queued(lt, k)' <=> Queued(lt, k)) /\ (Held(lt, k)' <=> Held(lt, k))
  BY DEF PlacesKept, Queued, Held
<1>2. Computing' = Computing
  BY <1>1, ComputingIs
<1> QED BY <1>2 DEF PlacesKept


(* Such a step keeps JobOK if who computes stays so and is not cancelled,  *)
(* and who begins is in user code and is not cancelled either.             *)
JobsKept ==
  \A lt \in Lthread :
    /\ lpc'[lt] = "compute" <=> lpc[lt] = "compute"
    /\ lpc[lt] = "compute" /\ lt \in cancelled' => lt \in cancelled
    /\ Beginning(lt, {"insert"})' => lpc'[lt] = "user" /\ lt \notin cancelled'

(* A step that keeps the places and the jobs keeps JobOK.                  *)
LEMMA JobFrame ==
  ASSUME JobOK, PlacesKept, JobsKept
  PROVE  JobOK'
<1> SUFFICES ASSUME NEW lt \in Lthread PROVE JobOK!(lt)'
  BY DEF JobOK
<1>1. JobOK!(lt) /\ JobsKept!(lt)
  BY DEF JobOK, JobsKept
<1>2. /\ lt \in Computing' <=> lt \in Computing
      /\ Deferred(lt)' <=> Deferred(lt)
      /\ \A k \in CSched : (Queued(lt, k)' <=> Queued(lt, k)) /\ (Held(lt, k)' <=> Held(lt, k))
  BY PlacesFrame DEF PlacesKept, Queued, Held, Deferred
<1> QED BY <1>1, <1>2 DEF JobOK, JobsKept

(* It keeps PendingOK if _lthread_compute_begin and _add keep the flag.    *)
PendingKept ==
  \A lt \in Lthread :
    /\ lt \in pending' <=> Beginning(lt, {"switch", "add"})'
    /\ lt \in pending' => lt \in pending /\ csched'[lt] = csched[lt] /\ csched[lt] \in CSched

(* A step that keeps the places and what is pending keeps PendingOK.       *)
LEMMA PendingFrame ==
  ASSUME PendingOK, PlacesKept, PendingKept
  PROVE  PendingOK'
<1> SUFFICES ASSUME NEW lt \in Lthread PROVE PendingOK!(lt)'
  BY DEF PendingOK
<1>1. PendingOK!(lt) /\ PendingKept!(lt)
  BY DEF PendingOK, PendingKept
<1>2. \A k \in CSched : (Queued(lt, k)' <=> Queued(lt, k)) /\ (Held(lt, k)' <=> Held(lt, k))
  BY DEF PlacesKept, Queued, Held
<1>3. lt \in pending' => Queued(lt, csched[lt])'
  BY <1>1, <1>2 DEF Queued, PlacesKept
<1> QED BY <1>1, <1>2, <1>3 DEF PendingOK, PendingKept

(* It keeps IdleOK if it ends no compute scheduler and uses no other one.  *)
IdleKept ==
  /\ compute_scheds' = compute_scheds
  /\ \A k \in CSched, c \in {"none", "freed", "timedout"} : kpc'[k] = c => kpc[k] = c
  /\ \A s \in Sched : spc'[s] \in {"insert", "switch", "add", "signal"} =>
       /\ spc[s] \in {"insert", "switch", "add", "signal"}
       /\ cur'[s] = cur[s] /\ cur[s] \in Lthread /\ csched'[cur[s]] = csched[cur[s]]
       /\ spc'[s] = "signal" => spc[s] = "signal" \/ Queued(cur[s], csched[cur[s]])

(* A step that keeps the places and the idle schedulers keeps IdleOK.      *)
LEMMA IdleFrame ==
  ASSUME IdleOK, PlacesKept, IdleKept
  PROVE  IdleOK'
<1>1. \A k \in CSched : InQ(k, compute_scheds') => kpc'[k] \notin {"none", "freed"}
  BY DEF IdleOK, IdleKept
<1>2. ASSUME NEW k \in CSched, kpc'[k] = "timedout", NEW s \in Sched, spc'[s] = "signal", csched'[cur'[s]] = k
      PROVE  Queued(cur[s], k)'
  <2>1. kpc[k] = "timedout" /\ cur'[s] = cur[s] /\ cur[s] \in Lthread /\ csched[cur[s]] = k
    BY <1>2 DEF IdleKept
  <2>2. Queued(cur[s], k)
    BY <1>2, <2>1 DEF IdleOK, IdleKept
  <2> QED BY <2>1, <2>2 DEF Queued, PlacesKept
<1>3. ASSUME NEW k \in CSched, kpc'[k] = "freed"
      PROVE  /\ lthreads'[k] = <<>>
             /\ \A s \in Sched : spc'[s] \in {"insert", "switch", "add", "signal"} => csched'[cur'[s]] # k
  BY <1>3 DEF IdleOK, IdleKept, PlacesKept
<1> QED BY <1>1, <1>2, <1>3 DEF IdleOK


(* Steps of a scheduler that take no lthread from one place to another.    *)
LEMMA QuietSchedStep ==
  ASSUME IInv, CancelComputing = FALSE, NEW s \in Sched,
         \/ \E lt \in Lthread : lthread_cancel(s, lt) \/ LthreadReturns(s, lt) \/ ResumeCancelled(s, lt)
         \/ Switch(s) \/ _lthread_compute_add(s) \/ Signal(s) \/ CancelReady(s)
         \/ Sleep(s) \/ WakeUp(s) \/ RunReturns(s)
  PROVE  ListsOK' /\ JobOK' /\ PendingOK' /\ MutexOK' /\ IdleOK' /\ UNCHANGED <<Computing, defer>>
<1> USE ComputeAssumption DEF IInv, TypeOK, LocalOK, KPC
<1> DEFINE Goal == /\ ListsOK' /\ JobOK' /\ PendingOK' /\ MutexOK' /\ IdleOK'
                   /\ UNCHANGED <<Computing, defer>>
<1>1. ASSUME NEW lt \in Lthread, lthread_cancel(s, lt) PROVE Goal
  <2>1. PlacesKept
    BY <1>1 DEF lthread_cancel, Ready, PlacesKept
  <2>2. ListsOK'
    BY <1>1 DEF lthread_cancel, Ready, ListsOK
  <2>3. JobOK'
    <3>1. JobsKept
      BY <1>1 DEF lthread_cancel, Ready, JobOK, JobsKept, Beginning
    <3> QED BY <2>1, <3>1, JobFrame
  <2>4. PendingOK'
    <3>1. PendingKept
      BY <1>1 DEF lthread_cancel, Ready, PendingOK, PendingKept, Beginning
    <3> QED BY <2>1, <3>1, PendingFrame
  <2>5. MutexOK'
    BY <1>1 DEF lthread_cancel, Ready, MutexOK
  <2>6. IdleOK'
    <3>1. IdleKept
      BY <1>1 DEF lthread_cancel, Ready, PendingOK, IdleKept, Beginning
    <3> QED BY <2>1, <3>1, IdleFrame
  <2> QED BY <2>1, <2>2, <2>3, <2>4, <2>5, <2>6, PlacesFrame
<1>2. ASSUME NEW lt \in Lthread, LthreadReturns(s, lt) PROVE Goal
  <2>1. PlacesKept
    BY <1>2 DEF LthreadReturns, Ready, PlacesKept
  <2>2. ListsOK'
    BY <1>2 DEF LthreadReturns, Ready, ListsOK
  <2>3. JobOK'
    <3>1. JobsKept
      BY <1>2 DEF LthreadReturns, Ready, JobOK, JobsKept, Beginning
    <3> QED BY <2>1, <3>1, JobFrame
  <2>4. PendingOK'
    <3>1. PendingKept
      BY <1>2 DEF LthreadReturns, Ready, PendingOK, PendingKept, Beginning
    <3> QED BY <2>1, <3>1, PendingFrame
  <2>5. MutexOK'
    BY <1>2 DEF LthreadReturns, Ready, MutexOK
  <2>6. IdleOK'
    <3>1. IdleKept
      BY <1>2 DEF LthreadReturns, Ready, PendingOK, IdleKept, Beginning
    <3> QED BY <2>1, <3>1, IdleFrame
  <2> QED BY <2>1, <2>2, <2>3, <2>4, <2>5, <2>6, PlacesFrame
<1>3. ASSUME NEW lt \in Lthread, ResumeCancelled(s, lt) PROVE Goal
  <2>1. PlacesKept
    BY <1>3 DEF ResumeCancelled, PlacesKept
  <2>2. ListsOK'
    BY <1>3 DEF ResumeCancelled, ListsOK
  <2>3. JobOK'
    <3>1. JobsKept
      BY <1>3 DEF ResumeCancelled, JobOK, JobsKept, Beginning
    <3> QED BY <2>1, <3>1, JobFrame
  <2>4. PendingOK'
    <3>1. PendingKept
      BY <1>3 DEF ResumeCancelled, PendingOK, PendingKept, Beginning
    <3> QED BY <2>1, <3>1, PendingFrame
  <2>5. MutexOK'
    BY <1>3 DEF ResumeCancelled, MutexOK
  <2>6. IdleOK'
    <3>1. IdleKept
      BY <1>3 DEF ResumeCancelled, PendingOK, IdleKept, Beginning
    <3> QED BY <2>1, <3>1, IdleFrame
  <2> QED BY <2>1, <2>2, <2>3, <2>4, <2>5, <2>6, PlacesFrame
<1>4. ASSUME Switch(s) PROVE Goal
  <2>1. PlacesKept
    BY <1>4 DEF Switch, PlacesKept
  <2>2. ListsOK'
    BY <1>4 DEF Switch, ListsOK
  <2>3. JobOK'
    <3>1. JobsKept
      BY <1>4 DEF Switch, JobOK, JobsKept, Beginning
    <3> QED BY <2>1, <3>1, JobFrame
  <2>4. PendingOK'
    <3>1. PendingKept
      BY <1>4 DEF Switch, PendingOK, PendingKept, Beginning
    <3> QED BY <2>1, <3>1, PendingFrame
  <2>5. MutexOK'
    BY <1>4 DEF Switch, MutexOK
  <2>6. IdleOK'
    <3>1. IdleKept
      BY <1>4 DEF Switch, PendingOK, IdleKept, Beginning
    <3> QED BY <2>1, <3>1, IdleFrame
  <2> QED BY <2>1, <2>2, <2>3, <2>4, <2>5, <2>6, PlacesFrame
<1>5. ASSUME _lthread_compute_add(s) PROVE Goal
  <2>1. PlacesKept
    BY <1>5 DEF _lthread_compute_add, PlacesKept
  <2>2. ListsOK'
    BY <1>5 DEF _lthread_compute_add, ListsOK
  <2>3. JobOK'
    <3>1. JobsKept
      BY <1>5 DEF _lthread_compute_add, JobOK, JobsKept, Beginning
    <3> QED BY <2>1, <3>1, JobFrame
  <2>4. PendingOK'
    <3>1. PendingKept
      BY <1>5 DEF _lthread_compute_add, PendingOK, PendingKept, Beginning
    <3> QED BY <2>1, <3>1, PendingFrame
  <2>5. MutexOK'
    BY <1>5 DEF _lthread_compute_add, MutexOK
  <2>6. IdleOK'
    <3>1. IdleKept
      BY <1>5 DEF _lthread_compute_add, PendingOK, IdleKept, Beginning
    <3> QED BY <2>1, <3>1, IdleFrame
  <2> QED BY <2>1, <2>2, <2>3, <2>4, <2>5, <2>6, PlacesFrame
<1>6. ASSUME Signal(s) PROVE Goal
  <2>1. PlacesKept
    BY <1>6 DEF Signal, PlacesKept
  <2>2. ListsOK'
    BY <1>6 DEF Signal, ListsOK
  <2>3. JobOK'
    <3>1. JobsKept
      BY <1>6 DEF Signal, JobOK, JobsKept, Beginning
    <3> QED BY <2>1, <3>1, JobFrame
  <2>4. PendingOK'
    <3>1. PendingKept
      BY <1>6 DEF Signal, PendingOK, PendingKept, Beginning
    <3> QED BY <2>1, <3>1, PendingFrame
  <2>5. MutexOK'
    BY <1>6 DEF Signal, MutexOK
  <2>6. IdleOK'
    <3>1. IdleKept
      BY <1>6 DEF Signal, PendingOK, IdleKept, Beginning
    <3> QED BY <2>1, <3>1, IdleFrame
  <2> QED BY <2>1, <2>2, <2>3, <2>4, <2>5, <2>6, PlacesFrame
<1>7. ASSUME CancelReady(s) PROVE Goal
  <2>1. PlacesKept
    BY <1>7 DEF CancelReady, PlacesKept
  <2>2. ListsOK'
    BY <1>7 DEF CancelReady, ListsOK
  <2>3. JobOK'
    <3>1. JobsKept
      BY <1>7 DEF CancelReady, JobOK, JobsKept, Beginning
    <3> QED BY <2>1, <3>1, JobFrame
  <2>4. PendingOK'
    <3>1. PendingKept
      BY <1>7 DEF CancelReady, PendingOK, PendingKept, Beginning
    <3> QED BY <2>1, <3>1, PendingFrame
  <2>5. MutexOK'
    BY <1>7 DEF CancelReady, MutexOK
  <2>6. IdleOK'
    <3>1. IdleKept
      BY <1>7 DEF CancelReady, PendingOK, IdleKept, Beginning
    <3> QED BY <2>1, <3>1, IdleFrame
  <2> QED BY <2>1, <2>2, <2>3, <2>4, <2>5, <2>6, PlacesFrame
<1>8. ASSUME Sleep(s) PROVE Goal
  <2>1. PlacesKept
    BY <1>8 DEF Sleep, PlacesKept
  <2>2. ListsOK'
    BY <1>8 DEF Sleep, ListsOK
  <2>3. JobOK'
    <3>1. JobsKept
      BY <1>8 DEF Sleep, JobOK, JobsKept, Beginning
    <3> QED BY <2>1, <3>1, JobFrame
  <2>4. PendingOK'
    <3>1. PendingKept
      BY <1>8 DEF Sleep, PendingOK, PendingKept, Beginning
    <3> QED BY <2>1, <3>1, PendingFrame
  <2>5. MutexOK'
    BY <1>8 DEF Sleep, MutexOK
  <2>6. IdleOK'
    <3>1. IdleKept
      BY <1>8 DEF Sleep, PendingOK, IdleKept, Beginning
    <3> QED BY <2>1, <3>1, IdleFrame
  <2> QED BY <2>1, <2>2, <2>3, <2>4, <2>5, <2>6, PlacesFrame
<1>9. ASSUME WakeUp(s) PROVE Goal
  <2>1. PlacesKept
    BY <1>9 DEF WakeUp, PlacesKept
  <2>2. ListsOK'
    BY <1>9 DEF WakeUp, ListsOK
  <2>3. JobOK'
    <3>1. JobsKept
      BY <1>9 DEF WakeUp, JobOK, JobsKept, Beginning
    <3> QED BY <2>1, <3>1, JobFrame
  <2>4. PendingOK'
    <3>1. PendingKept
      BY <1>9 DEF WakeUp, PendingOK, PendingKept, Beginning
    <3> QED BY <2>1, <3>1, PendingFrame
  <2>5. MutexOK'
    BY <1>9 DEF WakeUp, MutexOK
  <2>6. IdleOK'
    <3>1. IdleKept
      BY <1>9 DEF WakeUp, PendingOK, IdleKept, Beginning
    <3> QED BY <2>1, <3>1, IdleFrame
  <2> QED BY <2>1, <2>2, <2>3, <2>4, <2>5, <2>6, PlacesFrame
<1>10. ASSUME RunReturns(s) PROVE Goal
  <2>1. PlacesKept
    BY <1>10 DEF RunReturns, PlacesKept
  <2>2. ListsOK'
    BY <1>10 DEF RunReturns, ListsOK
  <2>3. JobOK'
    <3>1. JobsKept
      BY <1>10 DEF RunReturns, JobOK, JobsKept, Beginning
    <3> QED BY <2>1, <3>1, JobFrame
  <2>4. PendingOK'
    <3>1. PendingKept
      BY <1>10 DEF RunReturns, PendingOK, PendingKept, Beginning
    <3> QED BY <2>1, <3>1, PendingFrame
  <2>5. MutexOK'
    BY <1>10 DEF RunReturns, MutexOK
  <2>6. IdleOK'
    <3>1. IdleKept
      BY <1>10 DEF RunReturns, PendingOK, IdleKept, Beginning
    <3> QED BY <2>1, <3>1, IdleFrame
  <2> QED BY <2>1, <2>2, <2>3, <2>4, <2>5, <2>6, PlacesFrame
<1> HIDE DEF IInv, Goal
<1> QED BY <1>1, <1>2, <1>3, <1>4, <1>5, <1>6, <1>7, <1>8, <1>9, <1>10 DEF Goal

(* The same for a compute scheduler.                                       *)
LEMMA QuietComputeStep ==
  ASSUME IInv, NEW k \in CSched,
         \/ lthread_compute_end(k) \/ Trigger(k) \/ NoWork(k) \/ Wait(k) \/ SpuriousWakeup(k)
         \/ TimedOut(k) \/ Exit(k) \/ Stay(k)
  PROVE  ListsOK' /\ JobOK' /\ PendingOK' /\ MutexOK' /\ IdleOK' /\ UNCHANGED <<Computing, defer>>
<1> USE ComputeAssumption DEF IInv, TypeOK, LocalOK, KPC
<1> DEFINE Goal == /\ ListsOK' /\ JobOK' /\ PendingOK' /\ MutexOK' /\ IdleOK'
                   /\ UNCHANGED <<Computing, defer>>
<1>1. ASSUME lthread_compute_end(k) PROVE Goal
  <2>1. PlacesKept
    BY <1>1 DEF lthread_compute_end, PlacesKept
  <2>2. ListsOK'
    BY <1>1 DEF lthread_compute_end, ListsOK
  <2>3. JobOK'
    <3>1. JobsKept
      BY <1>1 DEF lthread_compute_end, JobOK, JobsKept, Beginning
    <3> QED BY <2>1, <3>1, JobFrame
  <2>4. PendingOK'
    <3>1. PendingKept
      BY <1>1 DEF lthread_compute_end, PendingOK, PendingKept, Beginning
    <3> QED BY <2>1, <3>1, PendingFrame
  <2>5. MutexOK'
    BY <1>1 DEF lthread_compute_end, MutexOK
  <2>6. IdleOK'
    <3>1. IdleKept
      BY <1>1 DEF lthread_compute_end, PendingOK, IdleKept, Beginning
    <3> QED BY <2>1, <3>1, IdleFrame
  <2> QED BY <2>1, <2>2, <2>3, <2>4, <2>5, <2>6, PlacesFrame
<1>2. ASSUME Trigger(k) PROVE Goal
  <2>1. PlacesKept
    BY <1>2 DEF Trigger, PlacesKept
  <2>2. ListsOK'
    BY <1>2 DEF Trigger, ListsOK
  <2>3. JobOK'
    <3>1. JobsKept
      BY <1>2 DEF Trigger, JobOK, JobsKept, Beginning
    <3> QED BY <2>1, <3>1, JobFrame
  <2>4. PendingOK'
    <3>1. PendingKept
      BY <1>2 DEF Trigger, PendingOK, PendingKept, Beginning
    <3> QED BY <2>1, <3>1, PendingFrame
  <2>5. MutexOK'
    BY <1>2 DEF Trigger, MutexOK
  <2>6. IdleOK'
    <3>1. IdleKept
      BY <1>2 DEF Trigger, PendingOK, IdleKept, Beginning
    <3> QED BY <2>1, <3>1, IdleFrame
  <2> QED BY <2>1, <2>2, <2>3, <2>4, <2>5, <2>6, PlacesFrame
<1>3. ASSUME NoWork(k) PROVE Goal
  <2>1. PlacesKept
    BY <1>3 DEF NoWork, PlacesKept
  <2>2. ListsOK'
    BY <1>3 DEF NoWork, ListsOK
  <2>3. JobOK'
    <3>1. JobsKept
      BY <1>3 DEF NoWork, JobOK, JobsKept, Beginning
    <3> QED BY <2>1, <3>1, JobFrame
  <2>4. PendingOK'
    <3>1. PendingKept
      BY <1>3 DEF NoWork, PendingOK, PendingKept, Beginning
    <3> QED BY <2>1, <3>1, PendingFrame
  <2>5. MutexOK'
    BY <1>3 DEF NoWork, MutexOK
  <2>6. IdleOK'
    <3>1. IdleKept
      BY <1>3 DEF NoWork, PendingOK, IdleKept, Beginning
    <3> QED BY <2>1, <3>1, IdleFrame
  <2> QED BY <2>1, <2>2, <2>3, <2>4, <2>5, <2>6, PlacesFrame
<1>4. ASSUME Wait(k) PROVE Goal
  <2>1. PlacesKept
    BY <1>4 DEF Wait, PlacesKept
  <2>2. ListsOK'
    BY <1>4 DEF Wait, ListsOK
  <2>3. JobOK'
    <3>1. JobsKept
      BY <1>4 DEF Wait, JobOK, JobsKept, Beginning
    <3> QED BY <2>1, <3>1, JobFrame
  <2>4. PendingOK'
    <3>1. PendingKept
      BY <1>4 DEF Wait, PendingOK, PendingKept, Beginning
    <3> QED BY <2>1, <3>1, PendingFrame
  <2>5. MutexOK'
    BY <1>4 DEF Wait, MutexOK
  <2>6. IdleOK'
    <3>1. IdleKept
      BY <1>4 DEF Wait, PendingOK, IdleKept, Beginning
    <3> QED BY <2>1, <3>1, IdleFrame
  <2> QED BY <2>1, <2>2, <2>3, <2>4, <2>5, <2>6, PlacesFrame
<1>5. ASSUME TimedOut(k) PROVE Goal
  <2>1. PlacesKept
    BY <1>5 DEF TimedOut, PlacesKept
  <2>2. ListsOK'
    BY <1>5 DEF TimedOut, ListsOK
  <2>3. JobOK'
    <3>1. JobsKept
      BY <1>5 DEF TimedOut, JobOK, JobsKept, Beginning
    <3> QED BY <2>1, <3>1, JobFrame
  <2>4. PendingOK'
    <3>1. PendingKept
      BY <1>5 DEF TimedOut, PendingOK, PendingKept, Beginning
    <3> QED BY <2>1, <3>1, PendingFrame
  <2>5. MutexOK'
    BY <1>5 DEF TimedOut, MutexOK
  <2>6. IdleOK'
    <3>1. /\ compute_scheds' = compute_scheds /\ lthreads' = lthreads
          /\ UNCHANGED <<spc, cur, csched>>
          /\ \A j \in CSched : kpc'[j] \in {"none", "freed"} => kpc'[j] = kpc[j]
          /\ \A j \in CSched \ {k} : kpc'[j] = kpc[j]
      BY <1>5 DEF TimedOut
    <3>2. \A s \in Sched : ~(spc[s] = "signal" /\ csched[cur[s]] = k)
      BY <1>5 DEF TimedOut
    <3>3. IdleOK
      OBVIOUS
    <3> HIDE DEF IInv, TypeOK, LocalOK
    <3> QED BY <3>1, <3>2, <3>3 DEF IdleOK, Queued
  <2> QED BY <2>1, <2>2, <2>3, <2>4, <2>5, <2>6, PlacesFrame
<1>6. ASSUME Exit(k) PROVE Goal
  <2>0. /\ \A x : InQ(x, compute_scheds') => InQ(x, compute_scheds)
        /\ Distinct(compute_scheds') /\ ~InQ(k, compute_scheds')
        /\ \A s \in Sched : spc[s] # "insert"
    BY <1>6, QRemove DEF Exit, ListsOK, MutexOK, None
  <2>1. PlacesKept
    BY <1>6, <2>0 DEF Exit, PlacesKept
  <2>2. ListsOK'
    BY <1>6, <2>0 DEF Exit, ListsOK
  <2>3. JobOK'
    <3>1. JobsKept
      BY <1>6, <2>0 DEF Exit, JobOK, JobsKept, Beginning
    <3> QED BY <2>1, <3>1, JobFrame
  <2>4. PendingOK'
    <3>1. PendingKept
      BY <1>6, <2>0 DEF Exit, PendingOK, PendingKept, Beginning
    <3> QED BY <2>1, <3>1, PendingFrame
  <2>5. MutexOK'
    BY <1>6, <2>0 DEF Exit, MutexOK
  <2>6. IdleOK'
    <3>1. /\ UNCHANGED <<spc, cur, csched, lthreads>> /\ lthreads[k] = <<>>
          /\ kpc[k] = "timedout" /\ kpc'[k] = "freed"
          /\ \A j \in CSched \ {k} : kpc'[j] = kpc[j]
      BY <1>6 DEF Exit
    <3>2. \A x : ~InQ(x, lthreads[k])
      BY <3>1 DEF InQ
    <3>3. \A s \in Sched : spc[s] \in {"switch", "add"} => Queued(cur[s], csched[cur[s]])
      BY DEF PendingOK, Beginning
    <3>4. \A s \in Sched : spc[s] \in {"insert", "switch", "add", "signal"} => csched[cur[s]] # k
      BY <2>0, <3>1, <3>2, <3>3 DEF IdleOK, Queued
    <3>5. IdleOK
      OBVIOUS
    <3> HIDE DEF IInv, TypeOK, LocalOK
    <3> QED BY <2>0, <3>1, <3>4, <3>5 DEF IdleOK, Queued
  <2> QED BY <2>1, <2>2, <2>3, <2>4, <2>5, <2>6, PlacesFrame
<1>7. ASSUME Stay(k) PROVE Goal
  <2>1. PlacesKept
    BY <1>7 DEF Stay, PlacesKept
  <2>2. ListsOK'
    BY <1>7 DEF Stay, ListsOK
  <2>3. JobOK'
    <3>1. JobsKept
      BY <1>7 DEF Stay, JobOK, JobsKept, Beginning
    <3> QED BY <2>1, <3>1, JobFrame
  <2>4. PendingOK'
    <3>1. PendingKept
      BY <1>7 DEF Stay, PendingOK, PendingKept, Beginning
    <3> QED BY <2>1, <3>1, PendingFrame
  <2>5. MutexOK'
    BY <1>7 DEF Stay, MutexOK
  <2>6. IdleOK'
    <3>1. IdleKept
      BY <1>7 DEF Stay, PendingOK, IdleKept, Beginning
    <3> QED BY <2>1, <3>1, IdleFrame
  <2> QED BY <2>1, <2>2, <2>3, <2>4, <2>5, <2>6, PlacesFrame
<1>8. ASSUME SpuriousWakeup(k) PROVE Goal
  <2>1. PlacesKept
    BY <1>8 DEF SpuriousWakeup, PlacesKept
  <2>2. ListsOK'
    BY <1>8 DEF SpuriousWakeup, ListsOK
  <2>3. JobOK'
    <3>1. JobsKept
      BY <1>8 DEF SpuriousWakeup, JobOK, JobsKept, Beginning
    <3> QED BY <2>1, <3>1, JobFrame
  <2>4. PendingOK'
    <3>1. PendingKept
      BY <1>8 DEF SpuriousWakeup, PendingOK, PendingKept, Beginning
    <3> QED BY <2>1, <3>1, PendingFrame
  <2>5. MutexOK'
    BY <1>8 DEF SpuriousWakeup, MutexOK
  <2>6. IdleOK'
    <3>1. IdleKept
      BY <1>8 DEF SpuriousWakeup, PendingOK, IdleKept, Beginning
    <3> QED BY <2>1, <3>1, IdleFrame
  <2> QED BY <2>1, <2>2, <2>3, <2>4, <2>5, <2>6, PlacesFrame
<1> HIDE DEF IInv, Goal
<1> QED BY <1>1, <1>2, <1>3, <1>4, <1>5, <1>6, <1>7, <1>8 DEF Goal


(* lthread_compute_begin chooses from the list, or adds to it.             *)
LEMMA BeginStep ==
  ASSUME IInv, NEW s \in Sched, NEW lt \in Lthread, lthread_compute_begin(s, lt)
  PROVE  ListsOK' /\ JobOK' /\ PendingOK' /\ MutexOK' /\ IdleOK' /\ UNCHANGED <<Computing, defer>>
<1> USE ComputeAssumption DEF IInv, TypeOK, LocalOK, KPC
<1>1. /\ spc[s] = "loop" /\ spc' = [spc EXCEPT ![s] = "insert"] /\ cur' = [cur EXCEPT ![s] = lt]
      /\ SchedOf(lt) = s /\ lpc[lt] = "user" /\ lt \notin cancelled
      /\ sched_mutex = None /\ sched_mutex' = s
      /\ UNCHANGED <<hand, lpc, pending, cancelled, lthreads, defer>>
  BY DEF lthread_compute_begin, Ready
<1>2. PICK c \in CSched :
        /\ csched' = [csched EXCEPT ![lt] = c]
        /\ Distinct(compute_scheds')
        /\ \A x : InQ(x, compute_scheds') <=> InQ(x, compute_scheds) \/ x = c
        /\ kpc'[c] \notin {"none", "freed", "run", "handback", "timedout"} \/ kpc'[c] = kpc[c]
        /\ kpc'[c] \notin {"none", "freed"}
        /\ kpc[c] = "none" \/ kpc'[c] = kpc[c]
        /\ \A k \in CSched \ {c} : kpc'[k] = kpc[k]
  <2>1. CASE \E i \in DOMAIN compute_scheds : /\ csched' = [csched EXCEPT ![lt] = compute_scheds[i]]
                                              /\ UNCHANGED <<kpc, compute_scheds>>
    <3>1. PICK i \in DOMAIN compute_scheds : csched' = [csched EXCEPT ![lt] = compute_scheds[i]]
      BY <2>1
    <3>2. compute_scheds[i] \in CSched /\ InQ(compute_scheds[i], compute_scheds)
      <4>1. compute_scheds \in Seq(CSched) /\ i \in 1..Len(compute_scheds)
        BY <3>1
      <4> HIDE DEF IInv, TypeOK, LocalOK, KPC
      <4> QED BY <4>1 DEF InQ
    <3>3. PICK c \in CSched : csched' = [csched EXCEPT ![lt] = c] /\ InQ(c, compute_scheds)
      BY <3>1, <3>2
    <3>4. kpc[c] \notin {"none", "freed"} /\ Distinct(compute_scheds)
      BY <3>3 DEF IdleOK, ListsOK
    <3>5. kpc' = kpc /\ compute_scheds' = compute_scheds
      BY <2>1
    <3> HIDE DEF IInv, TypeOK, LocalOK
    <3> QED BY <3>3, <3>4, <3>5
  <2>2. CASE \E k \in CSched : /\ _lthread_compute_sched_create(k)
                               /\ csched' = [csched EXCEPT ![lt] = k]
    <3>1. PICK k \in CSched : _lthread_compute_sched_create(k) /\ csched' = [csched EXCEPT ![lt] = k]
      BY <2>2
    <3>2. kpc[k] = "none" /\ kpc' = [kpc EXCEPT ![k] = "check"] /\ compute_scheds' = <<k>> \o compute_scheds
      BY <3>1 DEF _lthread_compute_sched_create
    <3>3. ~InQ(k, compute_scheds) /\ Distinct(compute_scheds)
      BY <3>2 DEF IdleOK, ListsOK
    <3>4. <<k>> \in Seq(CSched) /\ (\A x : InQ(x, <<k>>) <=> x = k) /\ Distinct(<<k>>)
      BY DEF InQ, Distinct
    <3>5. Distinct(compute_scheds') /\ \A x : InQ(x, compute_scheds') <=> InQ(x, compute_scheds) \/ x = k
      <4>1. \A y : ~(InQ(y, <<k>>) /\ InQ(y, compute_scheds))
        BY <3>3, <3>4
      <4>2. \A y : InQ(y, <<k>> \o compute_scheds) <=> InQ(y, <<k>>) \/ InQ(y, compute_scheds)
        BY <3>4, QConcat
      <4>3. Distinct(<<k>> \o compute_scheds)
        BY <3>3, <3>4, <4>1, QConcat
      <4> QED BY <3>2, <3>4, <4>2, <4>3
    <3>6. kpc'[k] = "check" /\ \A j \in CSched \ {k} : kpc'[j] = kpc[j]
      BY <3>1, <3>2
    <3> HIDE DEF IInv, TypeOK, LocalOK, KPC
    <3> QED BY <3>1, <3>2, <3>5, <3>6
  <2>3. CASE /\ compute_scheds # <<>> /\ csched' = [csched EXCEPT ![lt] = Head(compute_scheds)]
             /\ UNCHANGED <<kpc, compute_scheds>>
    <3>1. Head(compute_scheds) \in CSched /\ InQ(Head(compute_scheds), compute_scheds)
      BY <2>3, QTail
    <3>2. kpc[Head(compute_scheds)] \notin {"none", "freed"} /\ Distinct(compute_scheds)
      BY <3>1 DEF IdleOK, ListsOK
    <3>3. PICK c \in CSched : c = Head(compute_scheds)
      BY <3>1
    <3> HIDE DEF IInv, TypeOK, LocalOK, KPC
    <3> QED BY <2>3, <3>1, <3>2, <3>3
  <2> QED BY <2>1, <2>2, <2>3 DEF lthread_compute_begin, Free
<1>3. PlacesKept
  BY <1>1, <1>2 DEF PlacesKept
<1>4. ListsOK'
  BY <1>1, <1>2 DEF ListsOK
<1>5. JobOK'
  <2>1. JobsKept
    BY <1>1 DEF JobOK, JobsKept, Beginning
  <2> QED BY <1>3, <2>1, JobFrame
<1>6. PendingOK'
  <2>1. \A k \in Lthread : Beginning(k, {"switch", "add"})' <=> Beginning(k, {"switch", "add"})
    BY <1>1 DEF Beginning
  <2>2. \A k \in pending : k # lt /\ csched[k] \in CSched
    BY <1>1 DEF PendingOK, Beginning
  <2>3. PendingKept
    BY <1>1, <1>2, <2>1, <2>2 DEF PendingOK, PendingKept
  <2> QED BY <1>3, <2>3, PendingFrame
<1>7. MutexOK'
  <2>1. \A t \in Sched : t # s => spc'[t] # "insert" /\ sched_mutex' # t
    BY <1>1 DEF MutexOK, None
  <2>2. spc'[s] = "insert" /\ csched'[cur'[s]] = c
    BY <1>1, <1>2
  <2> QED BY <1>1, <1>2, <2>1, <2>2 DEF MutexOK
<1>8. IdleOK'
  <2>1. \A k \in CSched : InQ(k, compute_scheds') => kpc'[k] \notin {"none", "freed"}
    BY <1>2 DEF IdleOK
  <2>2. \A t \in Sched \ {s} : spc'[t] \in {"insert", "switch", "add", "signal"} =>
          spc'[t] = spc[t] /\ cur'[t] = cur[t] /\ csched'[cur[t]] = csched[cur[t]]
    BY <1>1, <1>2
  <2>3. spc'[s] = "insert" /\ csched'[cur'[s]] = c
    BY <1>1, <1>2
  <2>4. /\ \A k \in CSched, p \in {"timedout", "freed"} : kpc'[k] = p => kpc[k] = p
        /\ kpc'[c] # "freed" /\ lthreads' = lthreads
    BY <1>1, <1>2
  <2>5. IdleOK
    OBVIOUS
  <2> HIDE DEF IInv, TypeOK, LocalOK
  <2>6. ASSUME NEW k \in CSched, kpc'[k] = "timedout", NEW t \in Sched, spc'[t] = "signal", csched'[cur'[t]] = k
        PROVE  Queued(cur[t], k)' /\ cur'[t] = cur[t]
    BY <2>2, <2>3, <2>4, <2>5, <2>6 DEF IdleOK, Queued
  <2>7. ASSUME NEW k \in CSched, kpc'[k] = "freed"
        PROVE  /\ lthreads'[k] = <<>>
               /\ \A t \in Sched : spc'[t] \in {"insert", "switch", "add", "signal"} => csched'[cur'[t]] # k
    BY <2>2, <2>3, <2>4, <2>5, <2>7 DEF IdleOK
  <2> QED BY <2>1, <2>6, <2>7 DEF IdleOK, Queued
<1> HIDE DEF IInv
<1> QED BY <1>3, <1>4, <1>5, <1>6, <1>7, <1>8, PlacesFrame

(* Insert hands the lthread over: a job is submitted.                      *)
LEMMA InsertStep ==
  ASSUME IInv, NEW s \in Sched, Insert(s)
  PROVE  ListsOK' /\ JobOK' /\ PendingOK' /\ MutexOK' /\ IdleOK' /\ Service!Submit(cur[s])
<1> USE ComputeAssumption DEF IInv, TypeOK, LocalOK, KPC
<1> DEFINE lt == cur[s]
           c  == csched[lt]
<1>1. /\ lt \in Lthread /\ SchedOf(lt) = s /\ c \in CSched /\ spc[s] = "insert" /\ sched_mutex = s
      /\ spc' = [spc EXCEPT ![s] = "switch"] /\ sched_mutex' = None
      /\ lpc' = [lpc EXCEPT ![lt] = "compute"] /\ pending' = pending \cup {lt}
      /\ lthreads' = [lthreads EXCEPT ![c] = Append(@, lt)]
      /\ UNCHANGED <<compute_scheds, kpc, hand, csched, cancelled, defer, cur>>
  BY DEF Insert, MutexOK
<1>2. lpc[lt] = "user" /\ lt \notin cancelled /\ lt \notin Computing /\ ~Deferred(lt)
  BY <1>1 DEF JobOK, Beginning
<1>3. \A k \in CSched : ~Queued(lt, k) /\ ~Held(lt, k)
  BY <1>1, <1>2, ComputingIs
<1>4. /\ \A x : InQ(x, lthreads'[c]) <=> InQ(x, lthreads[c]) \/ x = lt
      /\ Distinct(lthreads'[c])
      /\ \A k \in CSched \ {c} : lthreads'[k] = lthreads[k]
  <2>1. lthreads[c] \in Seq(Lthread) /\ Distinct(lthreads[c]) /\ ~InQ(lt, lthreads[c])
    BY <1>1, <1>3 DEF ListsOK, Queued
  <2> QED BY <1>1, <2>1, QAppend
<1>5. \A j \in Lthread, k \in CSched : /\ Queued(j, k)' <=> Queued(j, k) \/ (j = lt /\ k = c)
                                       /\ Held(j, k)' <=> Held(j, k)
  BY <1>1, <1>4 DEF Queued, Held
<1>6. \A j \in Lthread : /\ Deferred(j)' <=> Deferred(j)
                         /\ lpc'[j] = IF j = lt THEN "compute" ELSE lpc[j]
                         /\ j \in Computing' <=> j \in Computing \/ j = lt
                         /\ Beginning(j, {"insert"})' => Beginning(j, {"insert"}) /\ j # lt
                         /\ Beginning(j, {"switch", "add"})' <=> Beginning(j, {"switch", "add"}) \/ j = lt
  <2>1. \A j \in Lthread : j \in Computing' <=> j \in Computing \/ j = lt
    BY <1>1, <1>5, ComputingIs
  <2> QED BY <1>1, <2>1 DEF Deferred, Beginning
<1>7. ListsOK'
  BY <1>1, <1>4 DEF ListsOK
<1>8. MutexOK'
  BY <1>1 DEF MutexOK, None
<1>9. IdleOK'
  <2>1. kpc[c] # "freed" /\ \A x, k : Queued(x, k) /\ k \in CSched => Queued(x, k)'
    BY <1>1, <1>4 DEF IdleOK, Queued
  <2> QED BY <1>1, <1>4, <2>1 DEF IdleOK, Queued
<1>10. JobOK /\ PendingOK /\ Computing \subseteq Lthread /\ Computing' \subseteq Lthread
  BY ComputingIs
<1>11. lt \in Lthread /\ c \in CSched /\ cancelled' = cancelled /\ pending' = pending \cup {lt} /\ csched' = csched
  BY <1>1
<1>12. Service!Submit(cur[s])
  BY <1>1, <1>2, <1>6, <1>10 DEF Service!Submit, Service!InQ, InQ, Deferred
<1>13. Queued(lt, c)' /\ \A j \in pending : csched[j] \in CSched
  BY <1>1, <1>5 DEF PendingOK, Beginning
<1> HIDE DEF IInv, TypeOK, LocalOK, lt, c
<1>14. JobOK'
  <2> SUFFICES ASSUME NEW j \in Lthread PROVE JobOK!(j)'
    BY DEF JobOK
  <2>1. CASE j = lt
    BY <1>2, <1>3, <1>5, <1>6, <1>11, <2>1 DEF JobOK
  <2>2. CASE j # lt
    BY <1>5, <1>6, <1>10, <1>11, <2>2 DEF JobOK
  <2> QED BY <2>1, <2>2
<1>15. PendingOK'
  <2> SUFFICES ASSUME NEW j \in Lthread PROVE PendingOK!(j)'
    BY DEF PendingOK
  <2>1. CASE j = lt
    BY <1>3, <1>5, <1>6, <1>11, <1>13, <2>1 DEF PendingOK, c
  <2>2. CASE j # lt
    <3>1. j \in pending => Queued(j, csched[j])'
      BY <1>4, <1>10, <1>11, <1>13 DEF PendingOK, Queued
    <3> QED BY <1>5, <1>6, <1>10, <1>11, <2>2, <3>1 DEF PendingOK
  <2> QED BY <2>1, <2>2
<1> QED BY <1>7, <1>8, <1>9, <1>12, <1>14, <1>15

(* A compute scheduler takes the first lthread of its queue.               *)
LEMMA TakeStep ==
  ASSUME IInv, NEW k \in CSched, Take(k)
  PROVE  ListsOK' /\ JobOK' /\ PendingOK' /\ MutexOK' /\ IdleOK' /\ UNCHANGED <<Computing, defer>>
<1> USE ComputeAssumption DEF IInv, TypeOK, LocalOK, KPC
<1> DEFINE lt == Head(lthreads[k])
<1>1. /\ kpc[k] = "check" /\ kpc' = [kpc EXCEPT ![k] = "run"] /\ hand' = [hand EXCEPT ![k] = lt]
      /\ lt \notin pending /\ lthreads[k] # <<>>
      /\ UNCHANGED <<sched_mutex, compute_scheds, lpc, csched, pending, cancelled, defer, spc, cur>>
  BY DEF Take
<1>2. /\ lt \in Lthread /\ InQ(lt, lthreads[k])
      /\ \A x : InQ(x, lthreads'[k]) <=> InQ(x, lthreads[k]) /\ x # lt
      /\ Distinct(lthreads'[k])
      /\ \A j \in CSched \ {k} : lthreads'[j] = lthreads[j]
  BY QTail DEF Take, ListsOK
<1> HIDE DEF lt
<1>3. \A x \in Lthread, j \in CSched :
        /\ Queued(x, j)' <=> Queued(x, j) /\ ~(x = lt /\ j = k)
        /\ Held(x, j)' <=> Held(x, j) \/ (x = lt /\ j = k)
  BY <1>1, <1>2 DEF Queued, Held
<1>4. Queued(lt, k)
  BY <1>2 DEF Queued
<1>5. Computing' = Computing
  <2>1. \A x \in Lthread : x \in Computing' <=> x \in Computing
    <3> SUFFICES ASSUME NEW x \in Lthread PROVE x \in Computing' <=> x \in Computing
      OBVIOUS
    <3>1. CASE x = lt
      BY <1>3, <1>4, <3>1, ComputingIs
    <3>2. CASE x # lt
      BY <1>3, <3>2, ComputingIs
    <3> QED BY <3>1, <3>2
  <2>2. Computing \subseteq Lthread /\ Computing' \subseteq Lthread
    BY ComputingIs
  <2> HIDE DEF IInv, TypeOK, LocalOK, KPC
  <2> QED BY <2>1, <2>2
<1>6. ListsOK'
  BY <1>1, <1>2 DEF ListsOK
<1>7. MutexOK'
  BY <1>1 DEF MutexOK
<1>8. IdleOK'
  BY <1>1, <1>2 DEF IdleOK, Queued
<1>9. \A j \in Lthread : /\ Deferred(j)' <=> Deferred(j)
                         /\ Beginning(j, {"insert"})' <=> Beginning(j, {"insert"})
                         /\ Beginning(j, {"switch", "add"})' <=> Beginning(j, {"switch", "add"})
  BY <1>1 DEF Deferred, Beginning
<1>10. JobOK /\ PendingOK
  OBVIOUS
<1> HIDE DEF IInv, TypeOK, LocalOK
<1>11. JobOK'
  <2> SUFFICES ASSUME NEW j \in Lthread PROVE JobOK!(j)'
    BY DEF JobOK
  <2>1. CASE j = lt
    BY <1>1, <1>3, <1>4, <1>5, <1>9, <1>10, <2>1 DEF JobOK
  <2>2. CASE j # lt
    BY <1>1, <1>3, <1>5, <1>9, <1>10, <2>2 DEF JobOK
  <2> QED BY <2>1, <2>2
<1>12. PendingOK'
  <2> SUFFICES ASSUME NEW j \in Lthread PROVE PendingOK!(j)'
    BY DEF PendingOK
  <2>1. CASE j = lt
    BY <1>1, <1>9, <1>10, <2>1 DEF PendingOK
  <2>2. CASE j # lt
    <3>1. Queued(j, csched[j]) => Queued(j, csched[j])'
      BY <1>1, <1>2, <2>2 DEF Queued, Take
    <3> QED BY <1>1, <1>3, <1>9, <1>10, <2>2, <3>1 DEF PendingOK
  <2> QED BY <2>1, <2>2
<1> QED BY <1>1, <1>5, <1>6, <1>7, <1>8, <1>11, <1>12

(* It hands the lthread back to its scheduler: the job is done.            *)
LEMMA HandBackStep ==
  ASSUME IInv, NEW k \in CSched, HandBack(k)
  PROVE  ListsOK' /\ JobOK' /\ PendingOK' /\ MutexOK' /\ IdleOK' /\ Service!Done(hand[k])
<1> USE ComputeAssumption DEF IInv, TypeOK, LocalOK, KPC
<1> DEFINE lt == hand[k]
           s  == SchedOf(lt)
<1>1. /\ kpc[k] = "handback" /\ kpc' = [kpc EXCEPT ![k] = "trigger"] /\ lt \in Lthread /\ s \in Sched
      /\ defer' = [defer EXCEPT ![s] = Append(@, lt)]
      /\ UNCHANGED <<sched_mutex, compute_scheds, hand, lpc, csched, pending, cancelled, lthreads, spc, cur>>
  BY DEF HandBack
<1>2. Held(lt, k) /\ lt \in Computing
  BY <1>1, ComputingIs DEF Held
<1>3. lpc[lt] = "compute" /\ ~Deferred(lt)
  BY <1>1, <1>2 DEF JobOK
<1>4. /\ \A x : InQ(x, defer'[s]) <=> InQ(x, defer[s]) \/ x = lt
      /\ Distinct(defer'[s])
      /\ \A t \in Sched \ {s} : defer'[t] = defer[t]
  <2>1. defer[s] \in Seq(Lthread) /\ Distinct(defer[s]) /\ ~InQ(lt, defer[s])
    BY <1>1, <1>3 DEF ListsOK, Deferred
  <2> QED BY <1>1, <2>1, QAppend
<1>5. \A j \in Lthread, i \in CSched : /\ Queued(j, i)' <=> Queued(j, i)
                                       /\ Held(j, i)' <=> Held(j, i) /\ i # k
  BY <1>1 DEF Queued, Held
<1>6. \A j \in Lthread : /\ Deferred(j)' <=> Deferred(j) \/ j = lt
                         /\ Beginning(j, {"insert"})' <=> Beginning(j, {"insert"})
                         /\ Beginning(j, {"switch", "add"})' <=> Beginning(j, {"switch", "add"})
  BY <1>1, <1>4 DEF Deferred, Beginning
<1>7. \A j \in Lthread : Held(j, k) => j = lt
  BY DEF Held
<1>8. \A i \in CSched : ~Queued(lt, i) /\ (Held(lt, i) => i = k)
  BY <1>1, <1>2 DEF JobOK
<1> HIDE DEF lt, s
<1>9. Computing' = Computing \ {lt}
  <2>1. \A j \in Lthread : j \in Computing' <=> j \in Computing /\ j # lt
    <3> SUFFICES ASSUME NEW j \in Lthread PROVE j \in Computing' <=> j \in Computing /\ j # lt
      OBVIOUS
    <3>1. CASE j = lt
      BY <1>5, <1>8, <3>1, ComputingIs
    <3>2. CASE j # lt
      BY <1>5, <1>7, <3>2, ComputingIs
    <3> QED BY <3>1, <3>2
  <2> QED BY <2>1, ComputingIs
<1>10. ListsOK'
  BY <1>1, <1>4 DEF ListsOK
<1>11. MutexOK'
  BY <1>1 DEF MutexOK
<1>12. IdleOK'
  BY <1>1 DEF IdleOK, Queued
<1>13. Service!Done(lt)
  BY <1>1, <1>2, <1>9 DEF Service!Done, s
<1>14. JobOK /\ PendingOK
  OBVIOUS
<1> HIDE DEF IInv, TypeOK, LocalOK
<1>15. JobOK'
  <2> SUFFICES ASSUME NEW j \in Lthread PROVE JobOK!(j)'
    BY DEF JobOK
  <2>1. CASE j = lt
    BY <1>1, <1>3, <1>5, <1>6, <1>8, <1>9, <1>14, <2>1 DEF JobOK
  <2>2. CASE j # lt
    BY <1>1, <1>5, <1>6, <1>9, <1>14, <2>2 DEF JobOK
  <2> QED BY <2>1, <2>2
<1>16. PendingOK'
  <2> SUFFICES ASSUME NEW j \in Lthread PROVE PendingOK!(j)'
    BY DEF PendingOK
  <2>1. Queued(j, csched[j]) => Queued(j, csched[j])'
    BY <1>1 DEF Queued
  <2> QED BY <1>1, <1>5, <1>6, <1>14, <2>1 DEF PendingOK
<1> QED BY <1>10, <1>11, <1>12, <1>13, <1>15, <1>16 DEF lt

(* The scheduler resumes it from its defer queue.                          *)
LEMMA ResumeStep ==
  ASSUME IInv, NEW s \in Sched, TakeDefer(s)
  PROVE  ListsOK' /\ JobOK' /\ PendingOK' /\ MutexOK' /\ IdleOK' /\ Service!Take(s)
<1> USE ComputeAssumption DEF IInv, TypeOK, LocalOK, KPC
<1> DEFINE lt == Head(defer[s])
<1>1. /\ spc[s] = "loop" /\ spc' = spc /\ defer[s] # <<>>
      /\ lpc' = [lpc EXCEPT ![lt] = IF lt \in cancelled THEN "gone" ELSE "user"]
      /\ csched' = [csched EXCEPT ![lt] = None]
      /\ UNCHANGED <<kvars, pending, cancelled, lthreads, cur>>
  BY DEF TakeDefer
<1>2. /\ lt \in Lthread /\ InQ(lt, defer[s])
      /\ \A x : InQ(x, defer'[s]) <=> InQ(x, defer[s]) /\ x # lt
      /\ Distinct(defer'[s])
      /\ \A t \in Sched \ {s} : defer'[t] = defer[t]
  BY QTail DEF TakeDefer, ListsOK
<1>3. SchedOf(lt) = s /\ Deferred(lt)
  BY <1>2 DEF Deferred
<1>4. lpc[lt] = "compute" /\ lt \notin Computing /\ lt \notin pending
  <2>1. lt \notin pending
    BY <1>1, <1>2, <1>3 DEF PendingOK, Beginning
  <2> QED BY <1>2, <1>3, <2>1 DEF JobOK
<1>5. \A k \in CSched : ~Queued(lt, k) /\ ~Held(lt, k)
  BY <1>2, <1>4, ComputingIs
<1> HIDE DEF lt
<1>6. \A j \in Lthread, k \in CSched : (Queued(j, k)' <=> Queued(j, k)) /\ (Held(j, k)' <=> Held(j, k))
  BY <1>1 DEF Queued, Held
<1>7. Computing' = Computing
  BY <1>1 DEF Computing
<1>8. \A j \in Lthread : /\ Deferred(j)' <=> Deferred(j) /\ j # lt
                         /\ Beginning(j, {"insert"})' <=> Beginning(j, {"insert"})
                         /\ Beginning(j, {"switch", "add"})' <=> Beginning(j, {"switch", "add"})
                         /\ j # lt => lpc'[j] = lpc[j] /\ csched'[j] = csched[j]
  <2> SUFFICES ASSUME NEW j \in Lthread
      PROVE  /\ Deferred(j)' <=> Deferred(j) /\ j # lt
             /\ Beginning(j, {"insert"})' <=> Beginning(j, {"insert"})
             /\ Beginning(j, {"switch", "add"})' <=> Beginning(j, {"switch", "add"})
             /\ j # lt => lpc'[j] = lpc[j] /\ csched'[j] = csched[j]
    OBVIOUS
  <2>1. Deferred(j)' <=> Deferred(j) /\ j # lt
    <3>1. CASE SchedOf(j) = s
      BY <1>2, <3>1 DEF Deferred
    <3>2. CASE SchedOf(j) # s
      <4>1. SchedOf(j) \in Sched \ {s} /\ j # lt
        BY <1>3, <3>2
      <4> HIDE DEF IInv, TypeOK, LocalOK, KPC
      <4> QED BY <1>2, <4>1 DEF Deferred
    <3> QED BY <3>1, <3>2
  <2>2. /\ Beginning(j, {"insert"})' <=> Beginning(j, {"insert"})
        /\ Beginning(j, {"switch", "add"})' <=> Beginning(j, {"switch", "add"})
    BY <1>1 DEF Beginning
  <2>3. j # lt => lpc'[j] = lpc[j] /\ csched'[j] = csched[j]
    BY <1>1
  <2> QED BY <2>1, <2>2, <2>3
<1>9. \A t \in Sched : spc[t] \in {"insert", "switch", "add", "signal"} =>
        cur[t] # lt /\ cur[t] \in Lthread /\ csched'[cur[t]] = csched[cur[t]]
  BY <1>1, <1>2, <1>3
<1>10. lpc'[lt] # "compute" /\ ~Beginning(lt, {"insert"})
  BY <1>1, <1>2, <1>3 DEF Beginning
<1>11. ListsOK'
  BY <1>1, <1>2 DEF ListsOK
<1>12. MutexOK'
  BY <1>1, <1>9 DEF MutexOK
<1>13. IdleOK'
  BY <1>1, <1>9 DEF IdleOK, Queued
<1>14. Service!Take(s)
  BY <1>7 DEF TakeDefer, Service!Take
<1>15. JobOK /\ PendingOK /\ lt \in Lthread
  BY <1>2
<1> HIDE DEF IInv, TypeOK, LocalOK
<1>16. JobOK'
  <2> SUFFICES ASSUME NEW j \in Lthread PROVE JobOK!(j)'
    BY DEF JobOK
  <2>1. CASE j = lt
    BY <1>1, <1>4, <1>5, <1>6, <1>7, <1>8, <1>10, <2>1 DEF JobOK
  <2>2. CASE j # lt
    BY <1>1, <1>6, <1>7, <1>8, <1>15, <2>2 DEF JobOK
  <2> QED BY <2>1, <2>2
<1>17. PendingOK'
  <2> SUFFICES ASSUME NEW j \in Lthread PROVE PendingOK!(j)'
    BY DEF PendingOK
  <2>1. j \in pending => Queued(j, csched[j])' /\ csched'[j] = csched[j]
    BY <1>1, <1>4, <1>8, <1>15 DEF PendingOK, Queued
  <2> QED BY <1>1, <1>6, <1>8, <1>15, <2>1 DEF PendingOK
<1> QED BY <1>11, <1>12, <1>13, <1>14, <1>16, <1>17

(* Every step preserves the invariant, and is one of IoService or does not *)
(* show there.                                                             *)
LEMMA Step ==
  ASSUME IInv, CancelComputing = FALSE, [Next]_vars
  PROVE  IInv' /\ [Service!Next]_<<Computing, defer>>
<1> DEFINE Goal == /\ ListsOK' /\ JobOK' /\ PendingOK' /\ MutexOK' /\ IdleOK'
                   /\ [Service!Next]_<<Computing, defer>>
<1>1. TypeOK' /\ LocalOK'
  BY TypeNext DEF IInv
<1>2. ASSUME NEW s \in Sched, Resumes(s) \/ Begins(s) \/ Sleep(s) \/ WakeUp(s) \/ RunReturns(s)
      PROVE  Goal
  <2>1. ASSUME NEW lt \in Lthread, lthread_compute_begin(s, lt) PROVE Goal
    BY <2>1, BeginStep
  <2>2. CASE Insert(s)
    <3>1. cur[s] \in Lthread
      BY <2>2 DEF IInv, LocalOK, Insert
    <3> QED BY <2>2, <3>1, InsertStep DEF Service!Next
  <2>3. CASE ~Insert(s) /\ ~\E lt \in Lthread : lthread_compute_begin(s, lt)
    BY <1>2, <2>3, QuietSchedStep DEF Resumes, Begins
  <2> QED BY <2>1, <2>2, <2>3
<1>3. ASSUME NEW s \in Sched, TakeDefer(s) PROVE Goal
  BY <1>3, ResumeStep DEF Service!Next
<1>4. ASSUME NEW k \in CSched, Computes(k) \/ SpuriousWakeup(k) PROVE Goal
  <2>1. CASE Take(k)
    BY <2>1, TakeStep
  <2>2. CASE HandBack(k)
    <3>1. hand[k] \in Lthread
      BY <2>2 DEF IInv, LocalOK, HandBack
    <3> QED BY <2>2, <3>1, HandBackStep DEF Service!Next
  <2>3. CASE ~Take(k) /\ ~HandBack(k)
    BY <1>4, <2>3, QuietComputeStep DEF Computes
  <2> QED BY <2>1, <2>2, <2>3
<1>5. ASSUME UNCHANGED vars PROVE Goal
  <2>1. PlacesKept /\ UNCHANGED <<Computing, defer>>
    BY <1>5, PlacesFrame DEF vars, PlacesKept
  <2>2. ListsOK' /\ MutexOK' /\ IdleOK'
    BY <1>5 DEF vars, IInv, ListsOK, MutexOK, IdleOK, Queued
  <2>3. JobOK'
    BY <1>5, <2>1 DEF vars, IInv, JobOK, Queued, Held, Deferred, Beginning
  <2>4. PendingOK'
    BY <1>5 DEF vars, IInv, PendingOK, Queued, Held, Beginning
  <2> QED BY <2>1, <2>2, <2>3, <2>4
<1>6. Goal
  BY <1>2, <1>3, <1>4, <1>5 DEF Next, Stop
<1> QED BY <1>1, <1>6 DEF IInv

-----------------------------------------------------------------------------
(* IInv holds throughout: an lthread in a compute section is in one place, *)
(* PENDING while its scheduler is on its stack, and the compute scheduler  *)
(* that was chosen for it does not end itself.                             *)
THEOREM Invariance == ASSUME CancelComputing = FALSE PROVE Spec => []IInv
<1>1. IInv /\ [Next]_vars => IInv'
  BY Step
<1> QED BY InvInit, <1>1, PTL DEF Spec

(* No two pthreads on one stack: while a compute scheduler runs an lthread *)
(* its own scheduler has left that lthread's stack, and no other compute   *)
(* scheduler runs it.                                                      *)
THEOREM OneStackUserHolds == ASSUME CancelComputing = FALSE PROVE Spec => []OneStackUser
<1>1. ASSUME IInv PROVE OneStackUser
  <2> SUFFICES ASSUME NEW k \in CSched, kpc[k] = "run"
               PROVE  /\ lpc[hand[k]] = "compute" /\ hand[k] \notin pending
                      /\ ~(/\ spc[SchedOf(hand[k])] \in {"insert", "switch"}
                           /\ cur[SchedOf(hand[k])] = hand[k])
                      /\ \A j \in CSched \ {k} : kpc[j] = "run" => hand[j] # hand[k]
    BY DEF OneStackUser
  <2> DEFINE lt == hand[k]
  <2>1. lt \in Lthread /\ Held(lt, k) /\ \A j \in CSched : kpc[j] = "run" /\ hand[j] = lt => Held(lt, j)
    BY <1>1 DEF IInv, LocalOK, Held
  <2>2. JobOK!(lt) /\ PendingOK!(lt) /\ lt \in Computing
    BY <1>1, <2>1, ComputingIs DEF IInv, JobOK, PendingOK
  <2> HIDE DEF lt
  <2>3. ~Beginning(lt, {"insert"}) /\ ~Beginning(lt, {"switch", "add"}) /\ lt \notin pending
    BY <2>1, <2>2 DEF JobOK, PendingOK
  <2>4. ~(spc[SchedOf(lt)] \in {"insert", "switch"} /\ cur[SchedOf(lt)] = lt)
    BY <2>3 DEF Beginning
  <2>5. lpc[lt] = "compute" /\ \A j \in CSched \ {k} : kpc[j] = "run" => hand[j] # lt
    BY <2>1, <2>2 DEF JobOK
  <2> QED BY <2>3, <2>4, <2>5 DEF lt
<1> QED BY Invariance, <1>1, PTL

(* A compute scheduler that frees itself after its time-out is off the     *)
(* list, has no lthread queued, and is not the one some                    *)
(* lthread_compute_begin has chosen or is about to signal.                 *)
THEOREM FreedIsUnusedHolds == ASSUME CancelComputing = FALSE PROVE Spec => []FreedIsUnused
<1>1. IInv => FreedIsUnused
  BY DEF IInv, IdleOK, FreedIsUnused
<1> QED BY Invariance, <1>1, PTL

(* To the schedulers a compute section is what disk IO is: it is run once  *)
(* and comes back once, to the scheduler it came from.                     *)
THEOREM ComputeRefines == ASSUME CancelComputing = FALSE PROVE Spec => IsIoService
<1>1. Init => Service!Init
  BY DEF Init, Service!Init, Computing, InQ
<1>2. IInv /\ [Next]_vars => IInv' /\ [Service!Next]_<<Computing, defer>>
  BY Step
<1> QED BY InvInit, <1>1, <1>2, PTL DEF Spec, IsIoService, Service!Spec
=============================================================================
