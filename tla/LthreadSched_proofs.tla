------------------------ MODULE LthreadSched_proofs ------------------------
(***************************************************************************)
(* Theorems about LthreadSched, for any number of lthreads, condition      *)
(* variables and file descriptors.                                         *)
(***************************************************************************)
EXTENDS LthreadSched, Tailq_proofs

USE DEF Has, Waits, At, Stopped, tvars, qvars, fvars, ivars, cvars, lvars

-----------------------------------------------------------------------------
(* Types                                                                   *)

(* No key of the event tree is taken for fd_wait = -1.                     *)
LEMMA KeyTypes == NoKey \notin Key /\ Key \subseteq Fd \X AllEv /\ \A k \in Key : k[1] \in Fd
  BY ConstAssumption DEF Key, NoKey

(* The state sched_create and main leave is well typed.                    *)
LEMMA TypeInit == Init => TypeOK
  BY ConstAssumption DEF Init, InitWith, TypeOK, Flag, PC, Phase, NoEv, NoKey

(* Every handler keeps the types.                                          *)
LEMMA TypeNext == TypeOK /\ [Next]_vars => TypeOK'
<1> SUFFICES ASSUME TypeOK, [Next]_vars PROVE TypeOK'
  OBVIOUS
<1> USE ConstAssumption DEF TypeOK, Flag, PC, Phase, NoEv
<1>1. ASSUME ResumeCancelled PROVE TypeOK'
  BY <1>1 DEF ResumeCancelled, Bury, ToLoop, DeschedSt, DeschedFlags, Joiner, ReadyWith,
     SleepingWithout
<1>2. ASSUME ResumeSwitch PROVE TypeOK'
  <2>1. cur \in Lthread
    BY <1>2 DEF ResumeSwitch
  <2>2. \/ st' = [st EXCEPT ![cur] = {}] /\ pc' = [pc EXCEPT ![cur] = "user"]
        \/ st' = st /\ pc' = pc
    BY <1>2, Zenon DEF ResumeSwitch
  <2>3. st' \in [Lthread -> SUBSET Flag] /\ pc' \in [Lthread -> PC]
    <3>1. /\ st \in [Lthread -> SUBSET Flag] /\ pc \in [Lthread -> PC]
          /\ {} \in SUBSET Flag /\ "user" \in PC
      OBVIOUS
    <3> HIDE DEF TypeOK, Flag, PC, Phase, NoEv
    <3> QED BY <2>1, <2>2, <3>1
  <2>4. /\ ctl' = "run" /\ ctl # "loop"
        /\ UNCHANGED <<heap, arg, on, lt_join, ready, sleeping, busy, blocked, fd_wait, waiting,
                       epoll, io, defer, pending, phase, cur, due, last, events, ev>>
    BY <1>2, Zenon DEF ResumeSwitch
  <2> QED BY <2>3, <2>4
<1>3. ASSUME ResumeExited PROVE TypeOK'
  BY <1>3 DEF ResumeExited, Bury, ToLoop, DeschedSt, DeschedFlags, Joiner, ReadyWith,
     SleepingWithout
<1>4. ASSUME ResumeYielded PROVE TypeOK'
  BY <1>4 DEF ResumeYielded, ToLoop
<1>5. ASSUME RunReturns PROVE TypeOK'
  BY <1>5 DEF RunReturns, Loop
<1>6. ASSUME NEW D \in SUBSET sleeping, StartPass(D) PROVE TypeOK'
  BY <1>6 DEF StartPass, Loop
<1>7. ASSUME NEW lt \in Lthread, Expire(lt) PROVE TypeOK'
  <2>1. DeschedFlags(UnwaitFlags(st[lt])) \cup {"EXPIRED"} \in SUBSET Flag
    BY DEF DeschedFlags, UnwaitFlags
  <2>2. \A L : DeschedSt(L) \in [Lthread -> SUBSET Flag]
    BY DEF DeschedSt, DeschedFlags
  <2>3. st' \in [Lthread -> SUBSET Flag]
    <3>1. st' = [DeschedSt(EventFound(lt)) EXCEPT
                   ![lt] = DeschedFlags(UnwaitFlags(st[lt])) \cup {"EXPIRED"}]
      BY <1>7 DEF Expire
    <3> HIDE DEF TypeOK, Flag, PC, Phase, NoEv
    <3> QED BY <2>1, <2>2, <3>1
  <2>4. epoll' \in [Fd -> Ev \cup {"off", "none"}]
    BY <1>7 DEF Expire, ClearEpoll
  <2>5. waiting' \subseteq Lthread /\ sleeping' \subseteq Lthread
    BY <1>7 DEF Expire, SleepingWithout
  <2>6. /\ fd_wait' = [fd_wait EXCEPT ![lt] = NoKey] /\ phase' \in Phase
        /\ ctl' = "resume" /\ cur' = lt
        /\ UNCHANGED <<heap, pc, arg, on, lt_join, ready, busy, blocked, ivars, pending, lvars>>
    BY <1>7 DEF Expire
  <2>7. fd_wait' \in [Lthread -> Key \cup {NoKey}] /\ cur' \in Lthread /\ cur' # NoLt
    BY <2>6
  <2> QED BY <2>3, <2>4, <2>5, <2>6, <2>7
<1>8. ASSUME ExpireEnd PROVE TypeOK'
  BY <1>8 DEF ExpireEnd, Loop
<1>9. ASSUME RunReady PROVE TypeOK'
  BY <1>9 DEF RunReady, Loop
<1>10. ASSUME ReadyEnd PROVE TypeOK'
  BY <1>10 DEF ReadyEnd, Loop
<1>11. ASSUME RunDefer PROVE TypeOK'
  BY <1>11 DEF RunDefer, Loop
<1>12. ASSUME DeferEnd PROVE TypeOK'
  BY <1>12 DEF DeferEnd, Loop
<1>13. ASSUME PollSkip PROVE TypeOK'
  BY <1>13 DEF PollSkip, Loop
<1>14. ASSUME Poll PROVE TypeOK'
  BY <1>14 DEF Poll, Loop, Fired
<1>15. ASSUME NEW fd \in Fd, NEW eof \in BOOLEAN, TakeEvent(fd, eof) PROVE TypeOK'
  BY <1>15 DEF TakeEvent, Loop
<1>16. ASSUME HandleEv PROVE TypeOK'
  <2> DEFINE W == WaitersOf(<<ev.fd, ev.next>>)
  <2>1. ev' \in [fd : Fd \cup {NoFd}, next : {"READ", "WRITE", "check"},
                  hit : BOOLEAN, eof : BOOLEAN]
    <3>1. \/ ev' = [ev EXCEPT !.next = After(@)]
          \/ ev' = [ev EXCEPT !.next = After(@), !.hit = TRUE]
      BY <1>16 DEF HandleEv
    <3>2. After(ev.next) \in {"READ", "WRITE", "check"}
      BY DEF After
    <3> QED BY <3>1, <3>2
  <2>2. CASE W = {}
    BY <1>16, <2>1, <2>2 DEF HandleEv
  <2>3. CASE W # {}
    <3>1. PICK w \in W :
            /\ waiting' = waiting \ {w}
            /\ sleeping' = SleepingWithout({w})
            /\ st' = [st EXCEPT ![w] = DeschedFlags(@) \cup
                                        (IF ev.eof THEN {"FDEOF"} ELSE {})]
            /\ ctl' = "resume" /\ cur' = w /\ phase' = phase
      BY <1>16, <2>3 DEF HandleEv
    <3>2. w \in Lthread
      BY DEF WaitersOf
    <3>3. st' \in [Lthread -> SUBSET Flag] /\ sleeping' \subseteq Lthread
      BY <3>1, <3>2 DEF DeschedFlags, SleepingWithout
    <3> HIDE DEF W
    <3> QED BY <1>16, <2>1, <3>1, <3>2, <3>3 DEF HandleEv
  <2> QED BY <2>2, <2>3
<1>17. ASSUME EvChecked PROVE TypeOK'
  BY <1>17 DEF EvChecked, Loop
<1>18. ASSUME EventsEnd PROVE TypeOK'
  BY <1>18 DEF EventsEnd, Loop
<1>19. ASSUME SleepReturns PROVE TypeOK'
  BY <1>19 DEF SleepReturns, Back
<1>20. ASSUME CondWaitReturns PROVE TypeOK'
  <2>1. cur \in Lthread
    BY <1>20 DEF CondWaitReturns, Back
  <2>2. \A c \in Cond : TailqRemove(blocked[c], cur) \in Seq(Lthread)
    BY <2>1, QRemove
  <2>3. blocked' \in [Cond -> Seq(Lthread)]
    <3>1. CASE on[cur] \in Cond
      BY <1>20, <2>2, <3>1 DEF CondWaitReturns
    <3>2. CASE on[cur] \notin Cond
      BY <1>20, <3>2 DEF CondWaitReturns
    <3> QED BY <3>1, <3>2
  <2> QED BY <1>20, <2>1, <2>3 DEF CondWaitReturns, Back, Unbusy
<1>21. ASSUME JoinReturns PROVE TypeOK'
  BY <1>21 DEF JoinReturns, Back, Unbusy
<1>22. ASSUME FdReturns PROVE TypeOK'
  BY <1>22 DEF FdReturns, Back
<1>23. ASSUME IoReturns PROVE TypeOK'
  BY <1>23 DEF IoReturns, Back
<1>24. ASSUME lthread_exit PROVE TypeOK'
  BY <1>24 DEF lthread_exit, Yield
<1>25. ASSUME lthread_sleep PROVE TypeOK'
  BY <1>25 DEF lthread_sleep, Call, Yield, InsertSleeping, SleepFlags
<1>26. ASSUME lthread_sleep0 PROVE TypeOK'
  BY <1>26 DEF lthread_sleep0, Call, Yield
<1>27. ASSUME lthread_io PROVE TypeOK'
  BY <1>27 DEF lthread_io, Call, Yield
<1>28. ASSUME NEW c \in Cond, NEW timed \in BOOLEAN, lthread_cond_wait(c, timed) PROVE TypeOK'
  BY <1>28 DEF lthread_cond_wait, Call, BusySleep, Yield, InsertSleeping, SleepFlags
<1>29. ASSUME NEW t \in Lthread, NEW timed \in BOOLEAN, lthread_join(t, timed) PROVE TypeOK'
  BY <1>29 DEF lthread_join, Call, MayJoin, BusySleep, Yield, InsertSleeping, SleepFlags
<1>30. ASSUME NEW fd \in Fd, NEW e \in Ev, NEW timed \in BOOLEAN, lthread_wait(fd, e, timed) PROVE TypeOK'
  <2> DEFINE Bad == Waits(cur) \/ WaitersOf(<<fd, e>>) # {}
  <2>1. epoll' \in [Fd -> Ev \cup {"off", "none"}] /\ cur \in Lthread
    BY <1>30 DEF lthread_wait, Call
  <2>2. <<fd, e>> \in Key /\ WaitFlag(e) \in Flag /\ SleepFlags(timed) \subseteq Flag
    BY DEF Key, WaitFlag, SleepFlags
  <2>3. UNCHANGED <<heap, arg, on, lt_join, ready, busy, blocked, io, defer, pending,
                    last, events, ev>>
    BY <1>30 DEF lthread_wait
  <2>4. CASE Bad
    <3>1. /\ phase' = "abort"
          /\ UNCHANGED <<st, fd_wait, waiting, sleeping, due, pc, ctl, cur>>
      BY <1>30, <2>4, Zenon DEF lthread_wait
    <3> HIDE DEF Bad
    <3> QED BY <2>1, <2>3, <3>1
  <2>5. CASE ~Bad
    <3>1. /\ st' = [st EXCEPT ![cur] = @ \cup {WaitFlag(e)} \cup SleepFlags(timed)]
          /\ fd_wait' = [fd_wait EXCEPT ![cur] = <<fd, e>>]
          /\ waiting' = waiting \cup {cur}
          /\ InsertSleeping(cur, timed)
          /\ pc' = [pc EXCEPT ![cur] = "fd"]
          /\ Yield
      BY <1>30, <2>5, Zenon DEF lthread_wait
    <3> HIDE DEF Bad
    <3> QED BY <2>1, <2>2, <2>3, <3>1 DEF Yield, InsertSleeping
  <2> QED BY <2>4, <2>5
<1>31. ASSUME lthread_detach PROVE TypeOK'
  BY <1>31 DEF lthread_detach, Call
<1>32. ASSUME NEW t \in Lthread, lthread_create(t) PROVE TypeOK'
  BY <1>32 DEF lthread_create, Call
<1>33. ASSUME NEW t \in Lthread, lthread_detach2(t) PROVE TypeOK'
  BY <1>33 DEF lthread_detach2, Call
<1>34. ASSUME NEW t \in Lthread, lthread_wakeup(t) PROVE TypeOK'
  <2>1. UNCHANGED <<heap, pc, arg, on, lt_join, busy, blocked, fvars, ivars, pending,
                    cvars, lvars>>
    BY <1>34 DEF lthread_wakeup
  <2>2. CASE Has(t, "SLEEPING")
    <3>1. /\ ready' = Append(ready, t)
          /\ sleeping' = SleepingWithout({t})
          /\ st' = DeschedSt({t})
      BY <1>34, <2>2, Zenon DEF lthread_wakeup
    <3> QED BY <2>1, <3>1 DEF DeschedSt, DeschedFlags, SleepingWithout
  <2>3. CASE ~Has(t, "SLEEPING")
    <3>1. UNCHANGED <<ready, sleeping, st>>
      BY <1>34, <2>3, Zenon DEF lthread_wakeup
    <3> QED BY <2>1, <3>1
  <2> QED BY <2>2, <2>3
<1>35. ASSUME NEW t \in Lthread, lthread_join_exited(t) PROVE TypeOK'
  BY <1>35 DEF lthread_join_exited, Call
<1>36. ASSUME NEW t \in Lthread, lthread_cancel(t) PROVE TypeOK'
  <2>1. st' \in [Lthread -> SUBSET Flag]
    BY <1>36 DEF lthread_cancel, DeschedSt, DeschedFlags, UnwaitFlags
  <2>2. epoll' \in [Fd -> Ev \cup {"off", "none"}]
    BY <1>36 DEF lthread_cancel, ClearEpoll
  <2>3. fd_wait' \in [Lthread -> Key \cup {NoKey}]
    BY <1>36 DEF lthread_cancel
  <2>4. waiting' \subseteq Lthread /\ sleeping' \subseteq Lthread
    BY <1>36 DEF lthread_cancel, SleepingWithout
  <2>5. ready' \in Seq(Lthread)
    BY <1>36 DEF lthread_cancel
  <2> QED BY <1>36, <2>1, <2>2, <2>3, <2>4, <2>5 DEF lthread_cancel
<1>37. ASSUME NEW c \in Cond, lthread_cond_signal(c) PROVE TypeOK'
  BY <1>37 DEF lthread_cond_signal, Call, SleepingWithout, DeschedSt, DeschedFlags
<1>38. ASSUME NEW c \in Cond, lthread_cond_broadcast(c) PROVE TypeOK'
  BY <1>38 DEF lthread_cond_broadcast, Call, SleepingWithout, DeschedSt, DeschedFlags
<1>39. ASSUME NEW fd \in Fd, lthread_close(fd) PROVE TypeOK'
  BY <1>39 DEF lthread_close, Call, WaitersOf, SleepingWithout, DeschedSt, DeschedFlags
<1>40. ASSUME NEW lt \in Lthread, IoDone(lt) PROVE TypeOK'
  BY <1>40 DEF IoDone
<1>41. ASSUME NEW k \in Key, Arrive(k) PROVE TypeOK'
  BY <1>41 DEF Arrive, Loop
<1>42. ASSUME UNCHANGED vars PROVE TypeOK'
  BY <1>42 DEF vars
<1> HIDE DEF TypeOK, Flag, PC, Phase, NoEv
<1> QED
  BY <1>1, <1>2, <1>3, <1>4, <1>5, <1>6, <1>7, <1>8, <1>9, <1>10, <1>11, <1>12, <1>13,
     <1>14, <1>15, <1>16, <1>17, <1>18, <1>19, <1>20, <1>21, <1>22, <1>23, <1>24, <1>25,
     <1>26, <1>27, <1>28, <1>29, <1>30, <1>31, <1>32, <1>33, <1>34, <1>35, <1>36, <1>37,
     <1>38, <1>39, <1>40, <1>41, <1>42
  DEF Next, Resume, Loops, Returns, Yields, Calls, Outside, Stop

(* Every variable keeps its type, whatever the program calls: all lists    *)
(* hold lthreads, all links and keys are of their kind.                    *)
THEOREM TypeCorrect == Spec => []TypeOK
  BY TypeInit, TypeNext, PTL DEF Spec

-----------------------------------------------------------------------------
(* Safety                                                                  *)

(* The state lthread_run starts in satisfies the invariant.                *)
LEMMA InvInit == Init => IInv
  BY TypeInit, ConstAssumption DEF Init, InitWith, IInv, TypeOK, QueuesOK, FlagsOK,
     FlagsOf, HeapOK, PlacesOK,
    CondOK, JoinOK, FdOK, InQ, Distinct, Active, NoKey

(* While the contract is kept, _lthread_cancel_event finds nobody but the  *)
(* lthread itself in the event tree.                                       *)
LEMMA FoundSelf ==
  ASSUME FdOK, NEW lt \in Lthread, pc[lt] = "fd" => lt \in waiting
  PROVE  EventFound(lt) = {lt} \cap waiting
  BY DEF FdOK, EventFound, WaitersOf

(* Burying cur releases its joiner j, if it has one.                       *)
LEMMA BuryEffect ==
  ASSUME TypeOK, Distinct(ready), cur \in Lthread, Bury(cur),
         st' = DeschedSt(Joiner(cur)),
         lt_join[cur] # NoLt => ~InQ(lt_join[cur], ready)
  PROVE  /\ ready' \in Seq(Lthread) /\ Distinct(ready')
         /\ \A y : InQ(y, ready') <=> InQ(y, ready) \/ (y = lt_join[cur] /\ y # NoLt)
         /\ sleeping' = sleeping \ {l \in Lthread : l = lt_join[cur] /\ "SLEEPING" \in st[l]}
         /\ \A l \in Lthread : st'[l] = IF l = lt_join[cur] THEN DeschedFlags(st[l]) ELSE st[l]
<1>1. CASE lt_join[cur] = NoLt
  <2>1. Joiner(cur) = {}
    BY <1>1, ConstAssumption DEF Joiner
  <2> QED BY <1>1, <2>1, ConstAssumption DEF Bury, ReadyWith, SleepingWithout, DeschedSt, TypeOK
<1>2. CASE lt_join[cur] # NoLt
  <2>1. lt_join[cur] \in Lthread
    BY <1>2 DEF TypeOK
  <2>2. Joiner(cur) = {lt_join[cur]}
    BY <2>1 DEF Joiner
  <2>3. ready' = Append(ready, lt_join[cur])
    BY <2>2 DEF Bury, ReadyWith
  <2>4. /\ ready' \in Seq(Lthread) /\ Distinct(ready')
        /\ \A y : InQ(y, ready') <=> InQ(y, ready) \/ (y = lt_join[cur] /\ y # NoLt)
    BY <1>2, <2>1, <2>3, QAppend DEF TypeOK
  <2>5. sleeping' = sleeping \ {l \in Lthread : l = lt_join[cur] /\ "SLEEPING" \in st[l]}
    BY <2>1, <2>2 DEF Bury, SleepingWithout, TypeOK
  <2>6. \A l \in Lthread : st'[l] = IF l = lt_join[cur] THEN DeschedFlags(st[l]) ELSE st[l]
    BY <2>1, <2>2 DEF DeschedSt
  <2> QED BY <2>4, <2>5, <2>6
<1> QED BY <1>1, <1>2

(* JoinOK is about joiners and their targets only: a step that leaves both *)
(* alone preserves it.                                                     *)
LEMMA JoinFrame ==
  ASSUME TypeOK, JoinOK, heap' = heap, arg' = arg, lt_join' = lt_join,
         \A l \in Lthread : /\ pc'[l] = "join" <=> pc[l] = "join"
                            /\ pc'[l] = "gone" <=> pc[l] = "gone"
                            /\ "DETACH" \in st'[l] <=> "DETACH" \in st[l],
         \A l \in Lthread : pc[l] = "join" =>
            /\ "EXPIRED" \in st'[l] <=> "EXPIRED" \in st[l]
            /\ InQ(l, ready') <=> InQ(l, ready)
            /\ Active(l)' <=> Active(l)
  PROVE  JoinOK'
<1> HIDE DEF Active
<1>1. /\ \A lt \in Lthread : arg'[lt] # NoLt <=> pc'[lt] = "join"
      /\ \A l, m \in Lthread : arg'[l] = arg'[m] /\ arg'[l] # NoLt => l = m
  BY DEF JoinOK
<1>2. \A lt \in Lthread : pc'[lt] = "join" =>
       /\ arg'[lt] \in heap' /\ "DETACH" \notin st'[arg'[lt]] /\ arg'[lt] # lt
       /\ InQ(lt, ready') => pc'[arg'[lt]] = "gone"
       /\ Active(lt)' => ("EXPIRED" \in st'[lt] <=> pc'[arg'[lt]] # "gone")
       /\ ~InQ(lt, ready') /\ ~Active(lt)' => pc'[arg'[lt]] # "gone"
       /\ pc'[arg'[lt]] # "gone" => lt_join'[arg'[lt]] = lt
  BY DEF JoinOK, TypeOK
<1>3. \A t \in Lthread : lt_join'[t] # NoLt /\ pc'[t] # "gone" =>
       pc'[lt_join'[t]] = "join" /\ arg'[lt_join'[t]] = t
  BY DEF JoinOK, TypeOK
<1> QED BY <1>1, <1>2, <1>3 DEF JoinOK

(* Every step of the loop, of a call or of the outside preserves the       *)
(* invariant, if the program keeps the contract.                           *)
LEMMA InvNext ==
  ASSUME Unguarded = {}, IInv, [Next]_vars
  PROVE  IInv'
<1> USE ConstAssumption DEF IInv, TypeOK, QueuesOK, FlagsOK, FlagsOf, HeapOK, PlacesOK, CondOK, JoinOK, FdOK, Active
<1>1. ASSUME ResumeCancelled PROVE IInv'
  <2>1. cur \in Lthread /\ pc[cur] \notin {"gone", "unborn", "cond", "join"} /\ ~Waits(cur)
    BY <1>1 DEF ResumeCancelled
  <2>2. lt_join[cur] # NoLt =>
          /\ lt_join[cur] \in Lthread /\ pc[lt_join[cur]] = "join" /\ arg[lt_join[cur]] = cur
          /\ lt_join[cur] # cur /\ ~InQ(lt_join[cur], ready)
    BY <2>1 DEF TypeOK, JoinOK
  <2>3. /\ Distinct(ready')
        /\ \A y : InQ(y, ready') <=> InQ(y, ready) \/ (y = lt_join[cur] /\ y # NoLt)
        /\ sleeping' = sleeping \ {l \in Lthread : l = lt_join[cur] /\ "SLEEPING" \in st[l]}
        /\ \A l \in Lthread : st'[l] = IF l = lt_join[cur] THEN DeschedFlags(st[l]) ELSE st[l]
    BY <1>1, <2>1, <2>2, BuryEffect DEF ResumeCancelled
  <2>4. ~InQ(cur, ready) /\ ~InQ(cur, defer) /\ cur \notin sleeping \cup waiting \cup io
    BY <1>1, <2>1 DEF ResumeCancelled
  <2>5. /\ \A l \in Lthread : \A f : f \in st'[l] <=> f \in st[l] /\ ~(l = lt_join[cur] /\ "SLEEPING" \in st[l] /\ f \in {"SLEEPING", "EXPIRED"})
    <3> HIDE DEF TypeOK, QueuesOK, FlagsOK, HeapOK, PlacesOK, CondOK, JoinOK, FdOK, Active
    <3> SUFFICES ASSUME NEW l \in Lthread, NEW f
                 PROVE  f \in st'[l] <=> f \in st[l] /\ ~(l = lt_join[cur] /\ "SLEEPING" \in st[l] /\ f \in {"SLEEPING", "EXPIRED"})
      OBVIOUS
    <3>1. CASE l = lt_join[cur]
      BY <2>3, <3>1 DEF DeschedFlags
    <3>2. CASE l # lt_join[cur]
      BY <2>3, <3>2
    <3> QED BY <3>1, <3>2
  <2>6. QueuesOK'
    BY <1>1, <2>1, <2>2, <2>3, <2>4, <2>5 DEF ResumeCancelled, Bury, ToLoop
  <2>7. FlagsOK'
    BY <1>1, <2>1, <2>2, <2>3, <2>4, <2>5 DEF ResumeCancelled, Bury, ToLoop
  <2>8. HeapOK'
    BY <1>1, <2>1, <2>2, <2>3, <2>4, <2>5 DEF ResumeCancelled, Bury, ToLoop
  <2>9. PlacesOK'
    BY <1>1, <2>1, <2>2, <2>3, <2>4, <2>5 DEF ResumeCancelled, Bury, ToLoop
  <2>10. CondOK'
    BY <1>1, <2>1, <2>2, <2>3, <2>4, <2>5 DEF ResumeCancelled, Bury, ToLoop
  <2>11. JoinOK'
    BY <1>1, <2>1, <2>2, <2>3, <2>4, <2>5 DEF ResumeCancelled, Bury, ToLoop
  <2>12. FdOK'
    BY <1>1, <2>1, <2>2, <2>3, <2>4, <2>5 DEF ResumeCancelled, Bury, ToLoop
  <2> QED BY TypeNext, <1>1, <2>6, <2>7, <2>8, <2>9, <2>10, <2>11, <2>12 DEF IInv, Next,
     Resume, Loops, Returns, Yields, Calls, Outside
<1>2. ASSUME ResumeSwitch PROVE IInv'
  <2>1. QueuesOK'
    BY <1>2 DEF ResumeSwitch
  <2>2. FlagsOK'
    BY <1>2 DEF ResumeSwitch
  <2>3. HeapOK'
    BY <1>2 DEF ResumeSwitch
  <2>4. PlacesOK'
    BY <1>2 DEF ResumeSwitch
  <2>5. CondOK'
    BY <1>2 DEF ResumeSwitch
  <2>6. JoinOK'
    BY <1>2 DEF ResumeSwitch
  <2>7. FdOK'
    BY <1>2 DEF ResumeSwitch
  <2> QED BY TypeNext, <1>2, <2>1, <2>2, <2>3, <2>4, <2>5, <2>6, <2>7 DEF IInv, Next,
     Resume, Loops, Returns, Yields, Calls, Outside
<1>3. ASSUME ResumeExited PROVE IInv'
  <2>1. cur \in Lthread /\ pc[cur] \notin {"gone", "unborn", "cond", "join"} /\ ~Waits(cur)
    BY <1>3 DEF ResumeExited
  <2>2. lt_join[cur] # NoLt =>
          /\ lt_join[cur] \in Lthread /\ pc[lt_join[cur]] = "join" /\ arg[lt_join[cur]] = cur
          /\ lt_join[cur] # cur /\ ~InQ(lt_join[cur], ready)
    BY <2>1 DEF TypeOK, JoinOK
  <2>3. /\ Distinct(ready')
        /\ \A y : InQ(y, ready') <=> InQ(y, ready) \/ (y = lt_join[cur] /\ y # NoLt)
        /\ sleeping' = sleeping \ {l \in Lthread : l = lt_join[cur] /\ "SLEEPING" \in st[l]}
        /\ \A l \in Lthread : st'[l] = IF l = lt_join[cur] THEN DeschedFlags(st[l]) ELSE st[l]
    BY <1>3, <2>1, <2>2, BuryEffect DEF ResumeExited
  <2>4. ~InQ(cur, ready) /\ ~InQ(cur, defer) /\ cur \notin sleeping \cup waiting \cup io
    BY <1>3, <2>1 DEF ResumeExited
  <2>5. /\ \A l \in Lthread : \A f : f \in st'[l] <=> f \in st[l] /\ ~(l = lt_join[cur] /\ "SLEEPING" \in st[l] /\ f \in {"SLEEPING", "EXPIRED"})
    <3> HIDE DEF TypeOK, QueuesOK, FlagsOK, HeapOK, PlacesOK, CondOK, JoinOK, FdOK, Active
    <3> SUFFICES ASSUME NEW l \in Lthread, NEW f
                 PROVE  f \in st'[l] <=> f \in st[l] /\ ~(l = lt_join[cur] /\ "SLEEPING" \in st[l] /\ f \in {"SLEEPING", "EXPIRED"})
      OBVIOUS
    <3>1. CASE l = lt_join[cur]
      BY <2>3, <3>1 DEF DeschedFlags
    <3>2. CASE l # lt_join[cur]
      BY <2>3, <3>2
    <3> QED BY <3>1, <3>2
  <2>6. QueuesOK'
    BY <1>3, <2>1, <2>2, <2>3, <2>4, <2>5 DEF ResumeExited, Bury, ToLoop
  <2>7. FlagsOK'
    <3>1. /\ ctl = "back" /\ ctl' = "loop" /\ "EXITED" \in st[cur]
          /\ waiting' = waiting /\ cur' = NoLt
          /\ pc'[cur] = "gone" /\ \A l \in Lthread : l # cur => pc'[l] = pc[l]
      BY <1>3, <2>1 DEF ResumeExited, Bury, ToLoop
    <3> HIDE DEF TypeOK, QueuesOK, FlagsOf, HeapOK, PlacesOK, CondOK, JoinOK, FdOK, Active
    <3> SUFFICES ASSUME NEW l \in Lthread PROVE FlagsOf(l)'
      OBVIOUS
    <3>2. FlagsOf(l)
      OBVIOUS
    <3>3. CASE l = cur
      BY <2>1, <2>2, <2>3, <2>4, <2>5, <3>1, <3>2, <3>3 DEF FlagsOf
    <3>4. CASE l # cur
      BY <2>1, <2>2, <2>3, <2>4, <2>5, <3>1, <3>2, <3>4 DEF FlagsOf
    <3> QED BY <3>3, <3>4
  <2>8. HeapOK'
    BY <1>3, <2>1, <2>2, <2>3, <2>4, <2>5 DEF ResumeExited, Bury, ToLoop
  <2>9. PlacesOK'
    BY <1>3, <2>1, <2>2, <2>3, <2>4, <2>5 DEF ResumeExited, Bury, ToLoop
  <2>10. CondOK'
    BY <1>3, <2>1, <2>2, <2>3, <2>4, <2>5 DEF ResumeExited, Bury, ToLoop
  <2>11. JoinOK'
    BY <1>3, <2>1, <2>2, <2>3, <2>4, <2>5 DEF ResumeExited, Bury, ToLoop
  <2>12. FdOK'
    BY <1>3, <2>1, <2>2, <2>3, <2>4, <2>5 DEF ResumeExited, Bury, ToLoop
  <2> QED BY TypeNext, <1>3, <2>6, <2>7, <2>8, <2>9, <2>10, <2>11, <2>12 DEF IInv, Next,
     Resume, Loops, Returns, Yields, Calls, Outside
<1>4. ASSUME ResumeYielded PROVE IInv'
  <2>1. QueuesOK'
    BY <1>4 DEF ResumeYielded, ToLoop
  <2>2. FlagsOK'
    BY <1>4 DEF ResumeYielded, ToLoop
  <2>3. HeapOK'
    BY <1>4 DEF ResumeYielded, ToLoop
  <2>4. PlacesOK'
    BY <1>4 DEF ResumeYielded, ToLoop
  <2>5. CondOK'
    BY <1>4 DEF ResumeYielded, ToLoop
  <2>6. JoinOK'
    BY <1>4 DEF ResumeYielded, ToLoop
  <2>7. FdOK'
    BY <1>4 DEF ResumeYielded, ToLoop
  <2> QED BY TypeNext, <1>4, <2>1, <2>2, <2>3, <2>4, <2>5, <2>6, <2>7 DEF IInv, Next,
     Resume, Loops, Returns, Yields, Calls, Outside
<1>5. ASSUME RunReturns PROVE IInv'
  <2>1. QueuesOK'
    BY <1>5 DEF RunReturns, Loop
  <2>2. FlagsOK'
    BY <1>5 DEF RunReturns, Loop
  <2>3. HeapOK'
    BY <1>5 DEF RunReturns, Loop
  <2>4. PlacesOK'
    BY <1>5 DEF RunReturns, Loop
  <2>5. CondOK'
    BY <1>5 DEF RunReturns, Loop
  <2>6. JoinOK'
    BY <1>5 DEF RunReturns, Loop
  <2>7. FdOK'
    BY <1>5 DEF RunReturns, Loop
  <2> QED BY TypeNext, <1>5, <2>1, <2>2, <2>3, <2>4, <2>5, <2>6, <2>7 DEF IInv, Next,
     Resume, Loops, Returns, Yields, Calls, Outside
<1>6. ASSUME NEW D \in SUBSET sleeping, StartPass(D) PROVE IInv'
  <2>1. QueuesOK'
    BY <1>6 DEF StartPass, Loop
  <2>2. FlagsOK'
    BY <1>6 DEF StartPass, Loop
  <2>3. HeapOK'
    BY <1>6 DEF StartPass, Loop
  <2>4. PlacesOK'
    BY <1>6 DEF StartPass, Loop
  <2>5. CondOK'
    BY <1>6 DEF StartPass, Loop
  <2>6. JoinOK'
    BY <1>6 DEF StartPass, Loop
  <2>7. FdOK'
    BY <1>6 DEF StartPass, Loop
  <2> QED BY TypeNext, <1>6, <2>1, <2>2, <2>3, <2>4, <2>5, <2>6, <2>7 DEF IInv, Next,
     Resume, Loops, Returns, Yields, Calls, Outside
<1>7. ASSUME NEW lt \in Lthread, Expire(lt) PROVE IInv'
  <2>1. EventFound(lt) = {lt} \cap waiting
    BY <1>7, FoundSelf DEF Expire, Loop
  <2>2. /\ waiting' = waiting \ {lt} /\ sleeping' = sleeping \ {lt}
        /\ \A l \in Lthread : l # lt => st'[l] = st[l]
        /\ st'[lt] = DeschedFlags(UnwaitFlags(st[lt])) \cup {"EXPIRED"}
    BY <1>7, <2>1 DEF Expire, Loop, SleepingWithout, DeschedSt
  <2>3. \A f : f \in st'[lt] <=> f = "EXPIRED" \/ (f \in st[lt] /\ f \notin {"SLEEPING", "WAIT_READ", "WAIT_WRITE"})
    <3> HIDE DEF TypeOK, QueuesOK, FlagsOK, HeapOK, PlacesOK, CondOK, JoinOK, FdOK, Active
    <3>1. "SLEEPING" \in st[lt] /\ ~("WAIT_READ" \in st[lt] /\ "WAIT_WRITE" \in st[lt])
      BY <1>7 DEF Expire, FlagsOK, FlagsOf
    <3>2. st'[lt] = DeschedFlags(UnwaitFlags(st[lt])) \cup {"EXPIRED"}
      BY <2>2
    <3> QED BY <3>1, <3>2 DEF DeschedFlags, UnwaitFlags
  <2>4. /\ lt \in sleeping /\ UNCHANGED <<pc, ready>>
        /\ phase = "expired" /\ ctl = "loop" /\ cur = NoLt /\ ctl' = "resume" /\ cur' = lt
        /\ phase' \in {phase, "abort"}
    BY <1>7 DEF Expire, Loop
  <2>5. QueuesOK'
    BY <1>7, <2>1, <2>2, <2>3 DEF Expire, Loop, SleepingWithout, DeschedSt, DeschedFlags,
       UnwaitFlags, ClearEpoll, EventFound, WaitersOf
  <2>6. FlagsOK'
    <3> HIDE DEF TypeOK, QueuesOK, FlagsOf, HeapOK, PlacesOK, CondOK, JoinOK, FdOK, Active
    <3> SUFFICES ASSUME NEW l \in Lthread PROVE FlagsOf(l)'
      OBVIOUS
    <3>1. FlagsOf(l)
      OBVIOUS
    <3>2. CASE l = lt
      BY <3>1, <3>2, <2>2, <2>3, <2>4 DEF FlagsOf, PlacesOK, Active
    <3>3. CASE l # lt
      BY <3>1, <3>3, <2>2, <2>3, <2>4 DEF FlagsOf, PlacesOK, Active
    <3> QED BY <3>2, <3>3
  <2>7. HeapOK'
    BY <1>7, <2>1, <2>2, <2>3 DEF Expire, Loop, SleepingWithout, DeschedSt, DeschedFlags,
       UnwaitFlags, ClearEpoll, EventFound, WaitersOf
  <2>8. PlacesOK'
    BY <1>7, <2>1, <2>2, <2>3 DEF Expire, Loop, SleepingWithout, DeschedSt, DeschedFlags,
       UnwaitFlags, ClearEpoll, EventFound, WaitersOf
  <2>9. CondOK'
    BY <1>7, <2>1, <2>2, <2>3 DEF Expire, Loop, SleepingWithout, DeschedSt, DeschedFlags,
       UnwaitFlags, ClearEpoll, EventFound, WaitersOf
  <2>10. JoinOK'
    BY SMTT(40), <1>7, <2>1, <2>2, <2>3 DEF Expire, Loop, SleepingWithout, DeschedSt, DeschedFlags,
       UnwaitFlags, ClearEpoll, EventFound, WaitersOf
  <2>11. FdOK'
    BY <1>7, <2>1, <2>2, <2>3 DEF Expire, Loop, SleepingWithout, DeschedSt, DeschedFlags,
       UnwaitFlags, ClearEpoll, EventFound, WaitersOf
  <2> QED BY TypeNext, <1>7, <2>5, <2>6, <2>7, <2>8, <2>9, <2>10, <2>11 DEF IInv, Next,
     Resume, Loops, Returns, Yields, Calls, Outside
<1>8. ASSUME ExpireEnd PROVE IInv'
  <2>1. QueuesOK'
    BY <1>8 DEF ExpireEnd, Loop
  <2>2. FlagsOK'
    BY <1>8 DEF ExpireEnd, Loop
  <2>3. HeapOK'
    BY <1>8 DEF ExpireEnd, Loop
  <2>4. PlacesOK'
    BY <1>8 DEF ExpireEnd, Loop
  <2>5. CondOK'
    BY <1>8 DEF ExpireEnd, Loop
  <2>6. JoinOK'
    BY <1>8 DEF ExpireEnd, Loop
  <2>7. FdOK'
    BY <1>8 DEF ExpireEnd, Loop
  <2> QED BY TypeNext, <1>8, <2>1, <2>2, <2>3, <2>4, <2>5, <2>6, <2>7 DEF IInv, Next,
     Resume, Loops, Returns, Yields, Calls, Outside
<1>9. ASSUME RunReady PROVE IInv'
  <2>1. /\ Head(ready) \in Lthread /\ InQ(Head(ready), ready)
        /\ \A y : InQ(y, ready') <=> InQ(y, ready) /\ y # Head(ready)
        /\ Distinct(ready')
    BY <1>9, QTail DEF RunReady
  <2>2. QueuesOK'
    BY <1>9, <2>1 DEF RunReady, Loop
  <2>3. FlagsOK'
    BY <1>9, <2>1 DEF RunReady, Loop
  <2>4. HeapOK'
    BY <1>9, <2>1 DEF RunReady, Loop
  <2>5. PlacesOK'
    BY <1>9, <2>1 DEF RunReady, Loop
  <2>6. CondOK'
    BY <1>9, <2>1 DEF RunReady, Loop
  <2>7. JoinOK'
    BY <1>9, <2>1 DEF RunReady, Loop
  <2>8. FdOK'
    BY <1>9, <2>1 DEF RunReady, Loop
  <2> QED BY TypeNext, <1>9, <2>2, <2>3, <2>4, <2>5, <2>6, <2>7, <2>8 DEF IInv, Next,
     Resume, Loops, Returns, Yields, Calls, Outside
<1>10. ASSUME ReadyEnd PROVE IInv'
  <2>1. QueuesOK'
    BY <1>10 DEF ReadyEnd, Loop
  <2>2. FlagsOK'
    BY <1>10 DEF ReadyEnd, Loop
  <2>3. HeapOK'
    BY <1>10 DEF ReadyEnd, Loop
  <2>4. PlacesOK'
    BY <1>10 DEF ReadyEnd, Loop
  <2>5. CondOK'
    BY <1>10 DEF ReadyEnd, Loop
  <2>6. JoinOK'
    BY <1>10 DEF ReadyEnd, Loop
  <2>7. FdOK'
    BY <1>10 DEF ReadyEnd, Loop
  <2> QED BY TypeNext, <1>10, <2>1, <2>2, <2>3, <2>4, <2>5, <2>6, <2>7 DEF IInv, Next,
     Resume, Loops, Returns, Yields, Calls, Outside
<1>11. ASSUME RunDefer PROVE IInv'
  <2>1. /\ Head(defer) \in Lthread /\ InQ(Head(defer), defer)
        /\ \A y : InQ(y, defer') <=> InQ(y, defer) /\ y # Head(defer)
        /\ Distinct(defer')
    BY <1>11, QTail DEF RunDefer
  <2>2. QueuesOK'
    BY <1>11, <2>1 DEF RunDefer, Loop
  <2>3. FlagsOK'
    BY <1>11, <2>1 DEF RunDefer, Loop
  <2>4. HeapOK'
    BY <1>11, <2>1 DEF RunDefer, Loop
  <2>5. PlacesOK'
    BY <1>11, <2>1 DEF RunDefer, Loop
  <2>6. CondOK'
    BY <1>11, <2>1 DEF RunDefer, Loop
  <2>7. JoinOK'
    BY <1>11, <2>1 DEF RunDefer, Loop
  <2>8. FdOK'
    BY <1>11, <2>1 DEF RunDefer, Loop
  <2> QED BY TypeNext, <1>11, <2>2, <2>3, <2>4, <2>5, <2>6, <2>7, <2>8 DEF IInv, Next,
     Resume, Loops, Returns, Yields, Calls, Outside
<1>12. ASSUME DeferEnd PROVE IInv'
  <2>1. QueuesOK'
    BY <1>12 DEF DeferEnd, Loop
  <2>2. FlagsOK'
    BY <1>12 DEF DeferEnd, Loop
  <2>3. HeapOK'
    BY <1>12 DEF DeferEnd, Loop
  <2>4. PlacesOK'
    BY <1>12 DEF DeferEnd, Loop
  <2>5. CondOK'
    BY <1>12 DEF DeferEnd, Loop
  <2>6. JoinOK'
    BY <1>12 DEF DeferEnd, Loop
  <2>7. FdOK'
    BY <1>12 DEF DeferEnd, Loop
  <2> QED BY TypeNext, <1>12, <2>1, <2>2, <2>3, <2>4, <2>5, <2>6, <2>7 DEF IInv, Next,
     Resume, Loops, Returns, Yields, Calls, Outside
<1>13. ASSUME PollSkip PROVE IInv'
  <2>1. QueuesOK'
    BY <1>13 DEF PollSkip, Loop
  <2>2. FlagsOK'
    BY <1>13 DEF PollSkip, Loop
  <2>3. HeapOK'
    BY <1>13 DEF PollSkip, Loop
  <2>4. PlacesOK'
    BY <1>13 DEF PollSkip, Loop
  <2>5. CondOK'
    BY <1>13 DEF PollSkip, Loop
  <2>6. JoinOK'
    BY <1>13 DEF PollSkip, Loop
  <2>7. FdOK'
    BY <1>13 DEF PollSkip, Loop
  <2> QED BY TypeNext, <1>13, <2>1, <2>2, <2>3, <2>4, <2>5, <2>6, <2>7 DEF IInv, Next,
     Resume, Loops, Returns, Yields, Calls, Outside
<1>14. ASSUME Poll PROVE IInv'
  <2>1. QueuesOK'
    BY <1>14 DEF Poll, Loop, Fired
  <2>2. FlagsOK'
    BY <1>14 DEF Poll, Loop, Fired
  <2>3. HeapOK'
    BY <1>14 DEF Poll, Loop, Fired
  <2>4. PlacesOK'
    BY <1>14 DEF Poll, Loop, Fired
  <2>5. CondOK'
    BY <1>14 DEF Poll, Loop, Fired
  <2>6. JoinOK'
    BY <1>14 DEF Poll, Loop, Fired
  <2>7. FdOK'
    BY <1>14 DEF Poll, Loop, Fired
  <2> QED BY TypeNext, <1>14, <2>1, <2>2, <2>3, <2>4, <2>5, <2>6, <2>7 DEF IInv, Next,
     Resume, Loops, Returns, Yields, Calls, Outside
<1>15. ASSUME NEW fd \in Fd, NEW eof \in BOOLEAN, TakeEvent(fd, eof) PROVE IInv'
  <2>1. QueuesOK'
    BY <1>15 DEF TakeEvent, Loop
  <2>2. FlagsOK'
    BY <1>15 DEF TakeEvent, Loop
  <2>3. HeapOK'
    BY <1>15 DEF TakeEvent, Loop
  <2>4. PlacesOK'
    BY <1>15 DEF TakeEvent, Loop
  <2>5. CondOK'
    BY <1>15 DEF TakeEvent, Loop
  <2>6. JoinOK'
    BY <1>15 DEF TakeEvent, Loop
  <2>7. FdOK'
    BY <1>15 DEF TakeEvent, Loop
  <2> QED BY TypeNext, <1>15, <2>1, <2>2, <2>3, <2>4, <2>5, <2>6, <2>7 DEF IInv, Next,
     Resume, Loops, Returns, Yields, Calls, Outside
<1>16. ASSUME HandleEv PROVE IInv'
  <2>1. /\ heap' = heap /\ pc' = pc /\ arg' = arg /\ lt_join' = lt_join /\ fd_wait' = fd_wait /\ ready' = ready
    BY <1>16 DEF HandleEv
  <2>2. /\ waiting' \subseteq waiting
        /\ \A l \in Lthread : ("CANCELLED" \in st'[l] <=> "CANCELLED" \in st[l]) /\ ("DETACH" \in st'[l] <=> "DETACH" \in st[l])
        /\ \A l \in Lthread : pc[l] = "join" => st'[l] = st[l] /\ (Active(l)' <=> Active(l))
    <3>1. CASE WaitersOf(<<ev.fd, ev.next>>) = {}
      <4>1. UNCHANGED <<st, sleeping, waiting, cvars>>
        BY <1>16, <3>1, Zenon DEF HandleEv
      <4> QED BY <4>1
    <3>2. CASE WaitersOf(<<ev.fd, ev.next>>) # {}
      <4>1. PICK w \in WaitersOf(<<ev.fd, ev.next>>) :
              /\ waiting' = waiting \ {w}
              /\ sleeping' = SleepingWithout({w})
              /\ st' = [st EXCEPT ![w] = DeschedFlags(@) \cup (IF ev.eof THEN {"FDEOF"} ELSE {})]
              /\ ev' = [ev EXCEPT !.next = After(@), !.hit = TRUE]
              /\ ctl' = "resume" /\ cur' = w
              /\ UNCHANGED phase
        <5> HIDE DEF TypeOK, QueuesOK, FlagsOK, FlagsOf, HeapOK, PlacesOK, CondOK, JoinOK, FdOK, Active
        <5> QED BY <1>16, <3>2, Zenon DEF HandleEv
      <4>2. w \in Lthread /\ pc[w] = "fd" /\ ctl = "loop" /\ cur = NoLt
        BY <1>16 DEF WaitersOf, HandleEv, Loop
      <4>3. \A l \in Lthread : l # w => st'[l] = st[l]
        BY <4>1
      <4>4. ("CANCELLED" \in st'[w] <=> "CANCELLED" \in st[w]) /\ ("DETACH" \in st'[w] <=> "DETACH" \in st[w])
        BY <4>1, <4>2 DEF DeschedFlags
      <4> QED BY <4>1, <4>2, <4>3, <4>4
    <3> QED BY <3>1, <3>2
  <2>3. QueuesOK'
    BY <1>16 DEF HandleEv, Loop, After, WaitersOf, SleepingWithout, DeschedFlags
  <2>4. FlagsOK'
    BY <1>16 DEF HandleEv, Loop, After, WaitersOf, SleepingWithout, DeschedFlags
  <2>5. HeapOK'
    BY <1>16 DEF HandleEv, Loop, After, WaitersOf, SleepingWithout, DeschedFlags
  <2>6. PlacesOK'
    BY <1>16 DEF HandleEv, Loop, After, WaitersOf, SleepingWithout, DeschedFlags
  <2>7. CondOK'
    BY <1>16 DEF HandleEv, Loop, After, WaitersOf, SleepingWithout, DeschedFlags
  <2>8. JoinOK'
    BY <2>1, <2>2, JoinFrame
  <2>9. FdOK'
    <3> HIDE DEF QueuesOK, FlagsOK, HeapOK, PlacesOK, CondOK, JoinOK, Active
    <3> QED BY <2>1, <2>2
  <2> QED BY TypeNext, <1>16, <2>3, <2>4, <2>5, <2>6, <2>7, <2>8, <2>9 DEF IInv, Next,
     Resume, Loops, Returns, Yields, Calls, Outside
<1>17. ASSUME EvChecked PROVE IInv'
  <2>1. QueuesOK'
    BY <1>17 DEF EvChecked, Loop
  <2>2. FlagsOK'
    BY <1>17 DEF EvChecked, Loop
  <2>3. HeapOK'
    BY <1>17 DEF EvChecked, Loop
  <2>4. PlacesOK'
    BY <1>17 DEF EvChecked, Loop
  <2>5. CondOK'
    BY <1>17 DEF EvChecked, Loop
  <2>6. JoinOK'
    BY <1>17 DEF EvChecked, Loop
  <2>7. FdOK'
    BY <1>17 DEF EvChecked, Loop
  <2> QED BY TypeNext, <1>17, <2>1, <2>2, <2>3, <2>4, <2>5, <2>6, <2>7 DEF IInv, Next,
     Resume, Loops, Returns, Yields, Calls, Outside
<1>18. ASSUME EventsEnd PROVE IInv'
  <2>1. QueuesOK'
    BY <1>18 DEF EventsEnd, Loop
  <2>2. FlagsOK'
    BY <1>18 DEF EventsEnd, Loop
  <2>3. HeapOK'
    BY <1>18 DEF EventsEnd, Loop
  <2>4. PlacesOK'
    BY <1>18 DEF EventsEnd, Loop
  <2>5. CondOK'
    BY <1>18 DEF EventsEnd, Loop
  <2>6. JoinOK'
    BY <1>18 DEF EventsEnd, Loop
  <2>7. FdOK'
    BY <1>18 DEF EventsEnd, Loop
  <2> QED BY TypeNext, <1>18, <2>1, <2>2, <2>3, <2>4, <2>5, <2>6, <2>7 DEF IInv, Next,
     Resume, Loops, Returns, Yields, Calls, Outside
<1>19. ASSUME SleepReturns PROVE IInv'
  <2>1. /\ cur \in Lthread /\ st'[cur] = st[cur] \ {"SLEEPING"}
        /\ \A l \in Lthread : l # cur => st'[l] = st[l]
    BY <1>19 DEF SleepReturns, Back
  <2>2. QueuesOK'
    BY <1>19, <2>1 DEF SleepReturns, Back
  <2>3. FlagsOK'
    BY <1>19, <2>1 DEF SleepReturns, Back
  <2>4. HeapOK'
    BY <1>19, <2>1 DEF SleepReturns, Back
  <2>5. PlacesOK'
    BY <1>19, <2>1 DEF SleepReturns, Back
  <2>6. CondOK'
    BY <1>19, <2>1 DEF SleepReturns, Back
  <2>7. JoinOK'
    BY <1>19, <2>1 DEF SleepReturns, Back
  <2>8. FdOK'
    BY <1>19, <2>1 DEF SleepReturns, Back
  <2> QED BY TypeNext, <1>19, <2>2, <2>3, <2>4, <2>5, <2>6, <2>7, <2>8 DEF IInv, Next,
     Resume, Loops, Returns, Yields, Calls, Outside
<1>20. ASSUME CondWaitReturns PROVE IInv'
  <2>1. cur \in Lthread /\ on[cur] \in Cond
    BY <1>20 DEF CondWaitReturns, Back
  <2>2. /\ \A y, d : d \in Cond /\ y # cur => (InQ(y, blocked'[d]) <=> InQ(y, blocked[d]))
        /\ \A d \in Cond : Distinct(blocked'[d]) /\ ~InQ(cur, blocked'[d])
    <3>1. CASE "EXPIRED" \in st[cur]
      <4>1. blocked' = [blocked EXCEPT ![on[cur]] = TailqRemove(@, cur)]
        BY <1>20, <3>1, Zenon DEF CondWaitReturns
      <4>2. /\ \A y : y # cur => (InQ(y, TailqRemove(blocked[on[cur]], cur)) <=> InQ(y, blocked[on[cur]]))
            /\ Distinct(TailqRemove(blocked[on[cur]], cur)) /\ ~InQ(cur, TailqRemove(blocked[on[cur]], cur))
        BY <2>1, QRemove
      <4>3. blocked'[on[cur]] = TailqRemove(blocked[on[cur]], cur)
        BY <2>1, <4>1
      <4>4. \A d \in Cond : d # on[cur] => blocked'[d] = blocked[d] /\ ~InQ(cur, blocked[d])
        <5>1. \A d \in Cond : d # on[cur] => blocked'[d] = blocked[d]
          BY <2>1, <4>1
        <5>2. \A d \in Cond : d # on[cur] => ~InQ(cur, blocked[d])
          BY <2>1
        <5> QED BY <5>1, <5>2
      <4>5. ASSUME NEW y, NEW d \in Cond, y # cur PROVE InQ(y, blocked'[d]) <=> InQ(y, blocked[d])
        <5> HIDE DEF TypeOK, QueuesOK, FlagsOK, FlagsOf, HeapOK, PlacesOK, CondOK, JoinOK, FdOK, Active
        <5>1. CASE d = on[cur]
          BY <4>2, <4>3, <4>5, <5>1
        <5>2. CASE d # on[cur]
          BY <4>4, <5>2
        <5> QED BY <5>1, <5>2
      <4>6. \A d \in Cond : Distinct(blocked[d])
        OBVIOUS
      <4>7. ASSUME NEW d \in Cond PROVE Distinct(blocked'[d]) /\ ~InQ(cur, blocked'[d])
        <5> HIDE DEF TypeOK, QueuesOK, FlagsOK, FlagsOf, HeapOK, PlacesOK, CondOK, JoinOK, FdOK, Active
        <5>1. CASE d = on[cur]
          BY <4>2, <4>3, <5>1
        <5>2. CASE d # on[cur]
          BY <4>4, <4>6, <5>2
        <5> QED BY <5>1, <5>2
      <4> HIDE DEF TypeOK, QueuesOK, FlagsOK, FlagsOf, HeapOK, PlacesOK, CondOK, JoinOK, FdOK, Active
      <4> QED BY <4>5, <4>7
    <3>2. CASE "EXPIRED" \notin st[cur]
      <4>1. blocked' = blocked /\ \A d \in Cond : ~InQ(cur, blocked[d])
        BY <1>20, <2>1, <3>2 DEF CondWaitReturns, Back
      <4> QED BY <4>1
    <3> QED BY <3>1, <3>2
  <2>3. QueuesOK'
    BY <1>20, <2>1, <2>2 DEF CondWaitReturns, Back, Unbusy
  <2>4. FlagsOK'
    BY <1>20, <2>1, <2>2 DEF CondWaitReturns, Back, Unbusy
  <2>5. HeapOK'
    BY <1>20, <2>1, <2>2 DEF CondWaitReturns, Back, Unbusy
  <2>6. PlacesOK'
    BY <1>20, <2>1, <2>2 DEF CondWaitReturns, Back, Unbusy
  <2>7. CondOK'
    BY <1>20, <2>1, <2>2 DEF CondWaitReturns, Back, Unbusy
  <2>8. JoinOK'
    BY <1>20, <2>1, <2>2 DEF CondWaitReturns, Back, Unbusy
  <2>9. FdOK'
    BY <1>20, <2>1, <2>2 DEF CondWaitReturns, Back, Unbusy
  <2> QED BY TypeNext, <1>20, <2>3, <2>4, <2>5, <2>6, <2>7, <2>8, <2>9 DEF IInv, Next,
     Resume, Loops, Returns, Yields, Calls, Outside
<1>21. ASSUME JoinReturns PROVE IInv'
  <2>1. QueuesOK'
    BY <1>21 DEF JoinReturns, Back, Unbusy
  <2>2. FlagsOK'
    BY <1>21 DEF JoinReturns, Back, Unbusy
  <2>3. HeapOK'
    BY <1>21 DEF JoinReturns, Back, Unbusy
  <2>4. PlacesOK'
    BY <1>21 DEF JoinReturns, Back, Unbusy
  <2>5. CondOK'
    BY <1>21 DEF JoinReturns, Back, Unbusy
  <2>6. JoinOK'
    <3> HIDE DEF QueuesOK, HeapOK, PlacesOK, CondOK, FdOK, FlagsOK
    <3>1. /\ cur \in Lthread /\ pc[cur] = "join" /\ ctl = "run" /\ arg[cur] \in Lthread /\ arg[cur] # cur
          /\ "EXPIRED" \in st[cur] <=> pc[arg[cur]] # "gone"
      BY <1>21 DEF JoinReturns, Back
    <3>2. /\ pc'[cur] = "user" /\ arg'[cur] = NoLt /\ ctl' = ctl /\ cur' = cur /\ ready' = ready
          /\ \A l \in Lthread : l # cur => pc'[l] = pc[l] /\ arg'[l] = arg[l] /\ st'[l] = st[l]
          /\ "DETACH" \in st'[cur] <=> "DETACH" \in st[cur]
      BY <1>21, <3>1 DEF JoinReturns, Unbusy
    <3>3. \A l \in Lthread : l # cur /\ arg[l] # NoLt => arg[l] # arg[cur]
      BY <3>1
    <3>4. /\ \A l \in Lthread : l # arg[cur] => lt_join'[l] = lt_join[l]
          /\ lt_join'[arg[cur]] = NoLt \/ pc[arg[cur]] = "gone"
          /\ \A l \in Lthread : l \in heap /\ l # arg[cur] => l \in heap'
      <4>1. CASE "EXPIRED" \in st[cur]
        <5>1. lt_join' = [lt_join EXCEPT ![arg[cur]] = NoLt] /\ heap' = heap
          BY <1>21, <4>1, Zenon DEF JoinReturns
        <5> QED BY <3>1, <5>1
      <4>2. CASE "EXPIRED" \notin st[cur]
        <5>1. heap' = heap \ {arg[cur]} /\ lt_join' = lt_join
          BY <1>21, <4>2, Zenon DEF JoinReturns
        <5> QED BY <3>1, <4>2, <5>1
      <4> QED BY <4>1, <4>2
    <3>5. /\ \A l \in Lthread : arg'[l] # NoLt <=> pc'[l] = "join"
          /\ \A l, m \in Lthread : arg'[l] = arg'[m] /\ arg'[l] # NoLt => l = m
      <4>1. ASSUME NEW l \in Lthread PROVE arg'[l] # NoLt <=> pc'[l] = "join"
        <5>1. CASE l = cur
          BY <3>2, <5>1
        <5>2. CASE l # cur
          BY <3>2, <5>2
        <5> QED BY <5>1, <5>2
      <4>2. ASSUME NEW l \in Lthread, NEW m \in Lthread, arg'[l] = arg'[m], arg'[l] # NoLt PROVE l = m
        <5>1. l # cur /\ m # cur
          BY <3>2, <4>2
        <5>2. arg'[l] = arg[l] /\ arg'[m] = arg[m]
          BY <3>2, <5>1
        <5>3. \A x, y \in Lthread : arg[x] = arg[y] /\ arg[x] # NoLt => x = y
          BY Zenon
        <5> HIDE DEF TypeOK, JoinOK, Active
        <5> QED BY <4>2, <5>2, <5>3
      <4> QED BY <4>1, <4>2
    <3>6. ASSUME NEW l \in Lthread, pc'[l] = "join"
          PROVE  /\ arg'[l] \in heap' /\ "DETACH" \notin st'[arg'[l]] /\ arg'[l] # l
                 /\ InQ(l, ready') => pc'[arg'[l]] = "gone"
                 /\ ~Active(l)'
                 /\ ~InQ(l, ready') => pc'[arg'[l]] # "gone"
                 /\ pc'[arg'[l]] # "gone" => lt_join'[arg'[l]] = l
      <4>1. l # cur /\ pc[l] = "join" /\ arg'[l] = arg[l] /\ arg[l] \in Lthread /\ arg[l] # arg[cur]
        BY <3>1, <3>2, <3>3, <3>6
      <4>2. pc'[arg[l]] = "gone" <=> pc[arg[l]] = "gone"
        BY <3>1, <3>2, <4>1
      <4>3. "DETACH" \in st'[arg[l]] <=> "DETACH" \in st[arg[l]]
        <5> HIDE DEF TypeOK, JoinOK, Active
        <5>1. CASE arg[l] = cur
          BY <3>2, <5>1
        <5>2. CASE arg[l] # cur
          BY <3>2, <4>1, <5>2
        <5> QED BY <5>1, <5>2
      <4>4. ~Active(l) /\ ~Active(l)'
        <5>1. cur # l /\ cur' # l
          BY <3>2, <4>1
        <5> QED BY <5>1, Zenon DEF Active
      <4>5. /\ arg[l] \in heap /\ "DETACH" \notin st[arg[l]] /\ arg[l] # l
            /\ InQ(l, ready) => pc[arg[l]] = "gone"
            /\ ~InQ(l, ready) => pc[arg[l]] # "gone"
            /\ pc[arg[l]] # "gone" => lt_join[arg[l]] = l
        BY <4>1, <4>4
      <4>6. arg'[l] \in heap' /\ lt_join'[arg[l]] = lt_join[arg[l]]
        BY <3>4, <4>1, <4>5
      <4> HIDE DEF TypeOK, JoinOK, Active
      <4> QED BY <3>2, <4>1, <4>2, <4>3, <4>4, <4>5, <4>6
    <3>7. ASSUME NEW t \in Lthread, lt_join'[t] # NoLt, pc'[t] # "gone"
          PROVE  pc'[lt_join'[t]] = "join" /\ arg'[lt_join'[t]] = t
      <4>1. pc[t] # "gone" /\ t # arg[cur] /\ lt_join'[t] = lt_join[t] /\ lt_join[t] \in Lthread
        BY <3>1, <3>2, <3>4, <3>7
      <4>2. pc[lt_join[t]] = "join" /\ arg[lt_join[t]] = t /\ lt_join[t] # cur
        BY <4>1
      <4> QED BY <3>2, <4>1, <4>2
    <3> QED BY <3>5, <3>6, <3>7
  <2>7. FdOK'
    BY <1>21 DEF JoinReturns, Back, Unbusy
  <2> QED BY TypeNext, <1>21, <2>1, <2>2, <2>3, <2>4, <2>5, <2>6, <2>7 DEF IInv, Next,
     Resume, Loops, Returns, Yields, Calls, Outside
<1>22. ASSUME FdReturns PROVE IInv'
  <2>1. /\ cur \in Lthread /\ st'[cur] = st[cur] \ {"SLEEPING", "WAIT_READ", "WAIT_WRITE"}
        /\ \A l \in Lthread : l # cur => st'[l] = st[l]
    BY <1>22 DEF FdReturns, Back
  <2>2. QueuesOK'
    BY <1>22, <2>1 DEF FdReturns, Back
  <2>3. FlagsOK'
    BY <1>22, <2>1 DEF FdReturns, Back
  <2>4. HeapOK'
    BY <1>22, <2>1 DEF FdReturns, Back
  <2>5. PlacesOK'
    BY <1>22, <2>1 DEF FdReturns, Back
  <2>6. CondOK'
    BY <1>22, <2>1 DEF FdReturns, Back
  <2>7. JoinOK'
    BY <1>22, <2>1 DEF FdReturns, Back
  <2>8. FdOK'
    BY <1>22, <2>1 DEF FdReturns, Back
  <2> QED BY TypeNext, <1>22, <2>2, <2>3, <2>4, <2>5, <2>6, <2>7, <2>8 DEF IInv, Next,
     Resume, Loops, Returns, Yields, Calls, Outside
<1>23. ASSUME IoReturns PROVE IInv'
  <2>1. /\ cur \in Lthread /\ st'[cur] = st[cur] \ {"WAIT_IO"}
        /\ \A l \in Lthread : l # cur => st'[l] = st[l]
    BY <1>23 DEF IoReturns, Back
  <2>2. QueuesOK'
    BY <1>23, <2>1 DEF IoReturns, Back
  <2>3. FlagsOK'
    BY <1>23, <2>1 DEF IoReturns, Back
  <2>4. HeapOK'
    BY <1>23, <2>1 DEF IoReturns, Back
  <2>5. PlacesOK'
    BY <1>23, <2>1 DEF IoReturns, Back
  <2>6. CondOK'
    BY <1>23, <2>1 DEF IoReturns, Back
  <2>7. JoinOK'
    BY <1>23, <2>1 DEF IoReturns, Back
  <2>8. FdOK'
    BY <1>23, <2>1 DEF IoReturns, Back
  <2> QED BY TypeNext, <1>23, <2>2, <2>3, <2>4, <2>5, <2>6, <2>7, <2>8 DEF IInv, Next,
     Resume, Loops, Returns, Yields, Calls, Outside
<1>24. ASSUME lthread_exit PROVE IInv'
  <2>1. QueuesOK'
    BY <1>24 DEF lthread_exit, Yield
  <2>2. FlagsOK'
    BY <1>24 DEF lthread_exit, Yield
  <2>3. HeapOK'
    BY <1>24 DEF lthread_exit, Yield
  <2>4. PlacesOK'
    BY <1>24 DEF lthread_exit, Yield
  <2>5. CondOK'
    BY <1>24 DEF lthread_exit, Yield
  <2>6. JoinOK'
    BY <1>24 DEF lthread_exit, Yield
  <2>7. FdOK'
    BY <1>24 DEF lthread_exit, Yield
  <2> QED BY TypeNext, <1>24, <2>1, <2>2, <2>3, <2>4, <2>5, <2>6, <2>7 DEF IInv, Next,
     Resume, Loops, Returns, Yields, Calls, Outside
<1>25. ASSUME lthread_sleep PROVE IInv'
  <2>1. QueuesOK'
    BY <1>25 DEF lthread_sleep, Call, Yield, InsertSleeping, SleepFlags
  <2>2. FlagsOK'
    BY <1>25 DEF lthread_sleep, Call, Yield, InsertSleeping, SleepFlags
  <2>3. HeapOK'
    BY <1>25 DEF lthread_sleep, Call, Yield, InsertSleeping, SleepFlags
  <2>4. PlacesOK'
    BY <1>25 DEF lthread_sleep, Call, Yield, InsertSleeping, SleepFlags
  <2>5. CondOK'
    BY <1>25 DEF lthread_sleep, Call, Yield, InsertSleeping, SleepFlags
  <2>6. JoinOK'
    BY <1>25 DEF lthread_sleep, Call, Yield, InsertSleeping, SleepFlags
  <2>7. FdOK'
    BY <1>25 DEF lthread_sleep, Call, Yield, InsertSleeping, SleepFlags
  <2> QED BY TypeNext, <1>25, <2>1, <2>2, <2>3, <2>4, <2>5, <2>6, <2>7 DEF IInv, Next,
     Resume, Loops, Returns, Yields, Calls, Outside
<1>26. ASSUME lthread_sleep0 PROVE IInv'
  <2>1. /\ \A y : InQ(y, ready') <=> InQ(y, ready) \/ y = cur
        /\ Distinct(ready')
    BY <1>26, QAppend DEF lthread_sleep0, Call
  <2>2. QueuesOK'
    BY <1>26, <2>1 DEF lthread_sleep0, Call, Yield
  <2>3. FlagsOK'
    BY <1>26, <2>1 DEF lthread_sleep0, Call, Yield
  <2>4. HeapOK'
    BY <1>26, <2>1 DEF lthread_sleep0, Call, Yield
  <2>5. PlacesOK'
    BY <1>26, <2>1 DEF lthread_sleep0, Call, Yield
  <2>6. CondOK'
    BY <1>26, <2>1 DEF lthread_sleep0, Call, Yield
  <2>7. JoinOK'
    BY <1>26, <2>1 DEF lthread_sleep0, Call, Yield
  <2>8. FdOK'
    BY <1>26, <2>1 DEF lthread_sleep0, Call, Yield
  <2> QED BY TypeNext, <1>26, <2>2, <2>3, <2>4, <2>5, <2>6, <2>7, <2>8 DEF IInv, Next,
     Resume, Loops, Returns, Yields, Calls, Outside
<1>27. ASSUME lthread_io PROVE IInv'
  <2>1. QueuesOK'
    BY <1>27 DEF lthread_io, Call, Yield
  <2>2. FlagsOK'
    BY <1>27 DEF lthread_io, Call, Yield
  <2>3. HeapOK'
    BY <1>27 DEF lthread_io, Call, Yield
  <2>4. PlacesOK'
    BY <1>27 DEF lthread_io, Call, Yield
  <2>5. CondOK'
    BY <1>27 DEF lthread_io, Call, Yield
  <2>6. JoinOK'
    BY <1>27 DEF lthread_io, Call, Yield
  <2>7. FdOK'
    BY <1>27 DEF lthread_io, Call, Yield
  <2> QED BY TypeNext, <1>27, <2>1, <2>2, <2>3, <2>4, <2>5, <2>6, <2>7 DEF IInv, Next,
     Resume, Loops, Returns, Yields, Calls, Outside
<1>28. ASSUME NEW c \in Cond, NEW timed \in BOOLEAN, lthread_cond_wait(c, timed) PROVE IInv'
  <2>1. /\ \A y : InQ(y, blocked'[c]) <=> InQ(y, blocked[c]) \/ y = cur
        /\ Distinct(blocked'[c])
        /\ \A d \in Cond : d # c => blocked'[d] = blocked[d]
    BY <1>28, QAppend DEF lthread_cond_wait, Call
  <2>2. QueuesOK'
    BY <1>28, <2>1 DEF lthread_cond_wait, Call, BusySleep, Yield, InsertSleeping, SleepFlags
  <2>3. FlagsOK'
    BY <1>28, <2>1 DEF lthread_cond_wait, Call, BusySleep, Yield, InsertSleeping, SleepFlags
  <2>4. HeapOK'
    BY <1>28, <2>1 DEF lthread_cond_wait, Call, BusySleep, Yield, InsertSleeping, SleepFlags
  <2>5. PlacesOK'
    BY <1>28, <2>1 DEF lthread_cond_wait, Call, BusySleep, Yield, InsertSleeping, SleepFlags
  <2>6. CondOK'
    BY <1>28, <2>1 DEF lthread_cond_wait, Call, BusySleep, Yield, InsertSleeping, SleepFlags
  <2>7. JoinOK'
    BY <1>28, <2>1 DEF lthread_cond_wait, Call, BusySleep, Yield, InsertSleeping, SleepFlags
  <2>8. FdOK'
    BY <1>28, <2>1 DEF lthread_cond_wait, Call, BusySleep, Yield, InsertSleeping, SleepFlags
  <2> QED BY TypeNext, <1>28, <2>2, <2>3, <2>4, <2>5, <2>6, <2>7, <2>8 DEF IInv, Next,
     Resume, Loops, Returns, Yields, Calls, Outside
<1>29. ASSUME NEW t \in Lthread, NEW timed \in BOOLEAN, lthread_join(t, timed) PROVE IInv'
  <2>1. /\ t \in heap /\ t # cur /\ "DETACH" \notin st[t] /\ pc[t] # "gone"
        /\ \A l \in Lthread : arg[l] # t
    BY <1>29 DEF lthread_join, MayJoin, Joined, Waived
  <2>2. QueuesOK'
    BY <1>29, <2>1 DEF lthread_join, Call, BusySleep, Yield, InsertSleeping, SleepFlags
  <2>3. FlagsOK'
    BY <1>29, <2>1 DEF lthread_join, Call, BusySleep, Yield, InsertSleeping, SleepFlags
  <2>4. HeapOK'
    BY <1>29, <2>1 DEF lthread_join, Call, BusySleep, Yield, InsertSleeping, SleepFlags
  <2>5. PlacesOK'
    BY <1>29, <2>1 DEF lthread_join, Call, BusySleep, Yield, InsertSleeping, SleepFlags
  <2>6. CondOK'
    BY <1>29, <2>1 DEF lthread_join, Call, BusySleep, Yield, InsertSleeping, SleepFlags
  <2>7. JoinOK'
    BY <1>29, <2>1 DEF lthread_join, Call, BusySleep, Yield, InsertSleeping, SleepFlags
  <2>8. FdOK'
    BY <1>29, <2>1 DEF lthread_join, Call, BusySleep, Yield, InsertSleeping, SleepFlags
  <2> QED BY TypeNext, <1>29, <2>2, <2>3, <2>4, <2>5, <2>6, <2>7, <2>8 DEF IInv, Next,
     Resume, Loops, Returns, Yields, Calls, Outside
<1>30. ASSUME NEW fd \in Fd, NEW e \in Ev, NEW timed \in BOOLEAN, lthread_wait(fd, e, timed) PROVE IInv'
  <2>1. /\ cur \in Lthread /\ pc[cur] = "user" /\ ctl = "run"
        /\ \A w \in waiting : fd_wait[w] # <<fd, e>>
    BY <1>30 DEF lthread_wait, MayWaitFd, Waived, Call
  <2>2. ~(Waits(cur) \/ WaitersOf(<<fd, e>>) # {})
    BY <2>1 DEF WaitersOf
  <2>3. UNCHANGED <<heap, arg, on, lt_join, ready, busy, blocked, io, defer, pending, last, events, ev>>
    BY <1>30 DEF lthread_wait
  <2>4. /\ st' = [st EXCEPT ![cur] = @ \cup {WaitFlag(e)} \cup SleepFlags(timed)]
        /\ fd_wait' = [fd_wait EXCEPT ![cur] = <<fd, e>>]
        /\ waiting' = waiting \cup {cur}
        /\ InsertSleeping(cur, timed)
        /\ pc' = [pc EXCEPT ![cur] = "fd"]
        /\ Yield
    BY <1>30, <2>2, Zenon DEF lthread_wait
  <2>5. /\ \A l \in Lthread : l # cur => st'[l] = st[l] /\ pc'[l] = pc[l] /\ fd_wait'[l] = fd_wait[l]
        /\ \A f : f \in st'[cur] <=> f \in st[cur] \/ f = WaitFlag(e) \/ (timed /\ f = "SLEEPING")
        /\ pc'[cur] = "fd" /\ fd_wait'[cur] = <<fd, e>> /\ <<fd, e>> # NoKey
        /\ sleeping' = IF timed THEN sleeping \cup {cur} ELSE sleeping
        /\ waiting' = waiting \cup {cur}
        /\ ctl' = "back" /\ phase' = phase /\ cur' = cur
    BY <2>1, <2>4 DEF Yield, InsertSleeping, SleepFlags, NoKey
  <2>6. /\ WaitFlag(e) \in {"WAIT_READ", "WAIT_WRITE"} /\ <<fd, e>> # NoKey
        /\ st[cur] \cap {"NEW", "SLEEPING", "BUSY", "EXITED", "CANCELLED", "WAIT_IO", "WAIT_READ", "WAIT_WRITE"} = {}
    <3>1. WaitFlag(e) \in {"WAIT_READ", "WAIT_WRITE"} /\ <<fd, e>> # NoKey
      BY DEF WaitFlag, NoKey
    <3>2. /\ ~Has(cur, "NEW") /\ ~Has(cur, "SLEEPING") /\ ~Has(cur, "BUSY") /\ ~Has(cur, "EXITED")
          /\ ~Has(cur, "CANCELLED") /\ ~Has(cur, "WAIT_IO") /\ ~Waits(cur)
      BY <2>1
    <3> QED BY <3>1, <3>2
  <2>7. QueuesOK'
    BY <2>1, <2>3, <2>5, <2>6
  <2>8. FlagsOK'
    <3> HIDE DEF TypeOK, QueuesOK, FlagsOf, HeapOK, PlacesOK, CondOK, JoinOK, FdOK, Active
    <3> SUFFICES ASSUME NEW l \in Lthread PROVE FlagsOf(l)'
      OBVIOUS
    <3>1. FlagsOf(l)
      OBVIOUS
    <3>2. CASE l = cur
      BY <3>1, <3>2, <2>1, <2>3, <2>5, <2>6 DEF FlagsOf, PlacesOK, Active
    <3>3. CASE l # cur
      BY <3>1, <3>3, <2>1, <2>3, <2>5, <2>6 DEF FlagsOf, PlacesOK, Active
    <3> QED BY <3>2, <3>3
  <2>9. HeapOK'
    BY <2>1, <2>3, <2>5, <2>6
  <2>10. PlacesOK'
    BY <2>1, <2>3, <2>5, <2>6
  <2>11. CondOK'
    BY <2>1, <2>3, <2>5, <2>6
  <2>12. JoinOK'
    <3>1. \A l \in Lthread : /\ pc'[l] = "join" <=> pc[l] = "join"
                             /\ pc'[l] = "gone" <=> pc[l] = "gone"
                             /\ "DETACH" \in st'[l] <=> "DETACH" \in st[l]
      <4> HIDE DEF TypeOK, QueuesOK, FlagsOK, FlagsOf, HeapOK, PlacesOK, CondOK, JoinOK, FdOK, Active
      <4>1. ASSUME NEW l \in Lthread, l # cur
            PROVE  pc'[l] = pc[l] /\ st'[l] = st[l]
        BY <4>1, <2>1, <2>3, <2>5, <2>6
      <4>2. /\ pc'[cur] \notin {"join", "gone"} /\ pc[cur] \notin {"join", "gone"}
            /\ "DETACH" \in st'[cur] <=> "DETACH" \in st[cur]
        BY <2>1, <2>3, <2>5, <2>6
      <4> SUFFICES ASSUME NEW l \in Lthread
                   PROVE  /\ pc'[l] = "join" <=> pc[l] = "join"
                          /\ pc'[l] = "gone" <=> pc[l] = "gone"
                          /\ "DETACH" \in st'[l] <=> "DETACH" \in st[l]
        OBVIOUS
      <4>3. CASE l = cur
        BY <4>2, <4>3
      <4>4. CASE l # cur
        BY <4>1, <4>4
      <4> QED BY <4>3, <4>4
    <3>2. \A l \in Lthread : pc[l] = "join" =>
             /\ "EXPIRED" \in st'[l] <=> "EXPIRED" \in st[l]
             /\ InQ(l, ready') <=> InQ(l, ready)
             /\ Active(l)' <=> Active(l)
      <4> HIDE DEF TypeOK, QueuesOK, FlagsOK, FlagsOf, HeapOK, PlacesOK, CondOK, JoinOK, FdOK
      <4> QED BY <2>1, <2>3, <2>5, <2>6
    <3> HIDE DEF TypeOK, QueuesOK, FlagsOK, FlagsOf, HeapOK, PlacesOK, CondOK, JoinOK, FdOK, Active
    <3> QED BY <3>1, <3>2, <2>1, <2>3, <2>5, <2>6, JoinFrame
  <2>13. FdOK'
    <3> HIDE DEF TypeOK, QueuesOK, FlagsOK, FlagsOf, HeapOK, PlacesOK, CondOK, JoinOK, FdOK, Active
    <3>1. \A l \in Lthread : fd_wait'[l] # NoKey => pc'[l] = "fd" /\ "CANCELLED" \notin st'[l]
      BY <2>1, <2>5, <2>6 DEF FdOK
    <3>2. \A l \in waiting' : fd_wait'[l] # NoKey
      BY <2>1, <2>5, <2>6 DEF FdOK, TypeOK
    <3>3. \A v, w \in waiting' : fd_wait'[v] = fd_wait'[w] => v = w
      <4> SUFFICES ASSUME NEW v \in waiting', NEW w \in waiting', fd_wait'[v] = fd_wait'[w] PROVE v = w
        OBVIOUS
      <4>1. v \in Lthread /\ w \in Lthread /\ (v = cur \/ v \in waiting) /\ (w = cur \/ w \in waiting)
        BY <2>1, <2>5 DEF TypeOK
      <4>2. CASE v # cur /\ w # cur
        BY <2>5, <4>1, <4>2 DEF FdOK
      <4>3. CASE v = cur /\ w # cur
        BY <2>1, <2>5, <4>1, <4>3
      <4>4. CASE v # cur /\ w = cur
        BY <2>1, <2>5, <4>1, <4>4
      <4> QED BY <4>2, <4>3, <4>4
    <3> QED BY <3>1, <3>2, <3>3 DEF FdOK
  <2> QED BY TypeNext, <1>30, <2>7, <2>8, <2>9, <2>10, <2>11, <2>12, <2>13 DEF IInv, Next,
     Resume, Loops, Returns, Yields, Calls, Outside
<1>31. ASSUME lthread_detach PROVE IInv'
  <2>1. QueuesOK'
    BY <1>31 DEF lthread_detach, Call, MayDetach, Joined
  <2>2. FlagsOK'
    BY <1>31 DEF lthread_detach, Call, MayDetach, Joined
  <2>3. HeapOK'
    BY <1>31 DEF lthread_detach, Call, MayDetach, Joined
  <2>4. PlacesOK'
    BY <1>31 DEF lthread_detach, Call, MayDetach, Joined
  <2>5. CondOK'
    BY <1>31 DEF lthread_detach, Call, MayDetach, Joined
  <2>6. JoinOK'
    BY <1>31 DEF lthread_detach, Call, MayDetach, Joined
  <2>7. FdOK'
    BY <1>31 DEF lthread_detach, Call, MayDetach, Joined
  <2> QED BY TypeNext, <1>31, <2>1, <2>2, <2>3, <2>4, <2>5, <2>6, <2>7 DEF IInv, Next,
     Resume, Loops, Returns, Yields, Calls, Outside
<1>32. ASSUME NEW t \in Lthread, lthread_create(t) PROVE IInv'
  <2>1. /\ \A y : InQ(y, ready') <=> InQ(y, ready) \/ y = t
        /\ Distinct(ready')
    BY <1>32, QAppend DEF lthread_create, Call
  <2>2. QueuesOK'
    BY <1>32, <2>1 DEF lthread_create, Call
  <2>3. FlagsOK'
    BY <1>32, <2>1 DEF lthread_create, Call
  <2>4. HeapOK'
    BY <1>32, <2>1 DEF lthread_create, Call
  <2>5. PlacesOK'
    BY <1>32, <2>1 DEF lthread_create, Call
  <2>6. CondOK'
    BY <1>32, <2>1 DEF lthread_create, Call
  <2>7. JoinOK'
    BY <1>32, <2>1 DEF lthread_create, Call
  <2>8. FdOK'
    BY <1>32, <2>1 DEF lthread_create, Call
  <2> QED BY TypeNext, <1>32, <2>2, <2>3, <2>4, <2>5, <2>6, <2>7, <2>8 DEF IInv, Next,
     Resume, Loops, Returns, Yields, Calls, Outside
<1>33. ASSUME NEW t \in Lthread, lthread_detach2(t) PROVE IInv'
  <2>1. pc[t] \notin {"unborn", "gone"} /\ \A l \in Lthread : arg[l] # t
    BY <1>33 DEF lthread_detach2, MayDetach, Joined
  <2>2. QueuesOK'
    BY <1>33, <2>1 DEF lthread_detach2, Call
  <2>3. FlagsOK'
    BY <1>33, <2>1 DEF lthread_detach2, Call
  <2>4. HeapOK'
    BY <1>33, <2>1 DEF lthread_detach2, Call
  <2>5. PlacesOK'
    BY <1>33, <2>1 DEF lthread_detach2, Call
  <2>6. CondOK'
    BY <1>33, <2>1 DEF lthread_detach2, Call
  <2>7. JoinOK'
    BY <1>33, <2>1 DEF lthread_detach2, Call
  <2>8. FdOK'
    BY <1>33, <2>1 DEF lthread_detach2, Call
  <2> QED BY TypeNext, <1>33, <2>2, <2>3, <2>4, <2>5, <2>6, <2>7, <2>8 DEF IInv, Next,
     Resume, Loops, Returns, Yields, Calls, Outside
<1>34. ASSUME NEW t \in Lthread, lthread_wakeup(t) PROVE IInv'
  <2>1. /\ t # cur /\ pc[t] = "sleep" /\ cur \in Lthread /\ ctl = "run"
        /\ "SLEEPING" \in st[t] => ~InQ(t, ready)
    BY <1>34 DEF lthread_wakeup, MayWakeup, Waived, Call
  <2>2. UNCHANGED <<heap, pc, arg, on, lt_join, busy, blocked, fd_wait, waiting, epoll, io, defer, pending, phase, ctl, cur, due, last, events, ev>>
    BY <1>34 DEF lthread_wakeup
  <2>3. /\ \A y : InQ(y, ready') <=> InQ(y, ready) \/ (y = t /\ "SLEEPING" \in st[t])
        /\ Distinct(ready')
        /\ sleeping' = sleeping \ {t}
        /\ \A l \in Lthread : st'[l] = IF l = t THEN st[t] \ (IF "SLEEPING" \in st[t] THEN {"SLEEPING", "EXPIRED"} ELSE {}) ELSE st[l]
    <3>1. CASE Has(t, "SLEEPING")
      <4>1. /\ ready' = Append(ready, t)
            /\ sleeping' = SleepingWithout({t})
            /\ st' = DeschedSt({t})
        BY <1>34, <3>1, Zenon DEF lthread_wakeup
      <4>2. (\A y : InQ(y, ready') <=> InQ(y, ready) \/ y = t) /\ Distinct(ready')
        BY <2>1, <3>1, <4>1, QAppend
      <4>3. sleeping' = sleeping \ {t}
        BY <3>1, <4>1 DEF SleepingWithout
      <4>4. \A l \in Lthread : st'[l] = IF l = t THEN st[t] \ {"SLEEPING", "EXPIRED"} ELSE st[l]
        <5> HIDE DEF TypeOK, QueuesOK, FlagsOK, HeapOK, PlacesOK, CondOK, JoinOK, FdOK, Active
        <5>1. DeschedFlags(st[t]) = st[t] \ {"SLEEPING", "EXPIRED"}
          BY <3>1, Zenon DEF DeschedFlags
        <5>2. \A l \in Lthread : st'[l] = IF l \in {t} THEN DeschedFlags(st[l]) ELSE st[l]
          BY <4>1 DEF DeschedSt
        <5> QED BY <5>1, <5>2
      <4> HIDE DEF TypeOK, QueuesOK, FlagsOK, FlagsOf, HeapOK, PlacesOK, CondOK, JoinOK, FdOK, Active
      <4>5. st[t] \ (IF "SLEEPING" \in st[t] THEN {"SLEEPING", "EXPIRED"} ELSE {}) = st[t] \ {"SLEEPING", "EXPIRED"}
        BY <3>1
      <4>6. \A y : InQ(y, ready') <=> InQ(y, ready) \/ (y = t /\ "SLEEPING" \in st[t])
        BY <3>1, <4>2
      <4> QED BY <4>2, <4>3, <4>4, <4>5, <4>6
    <3>2. CASE ~Has(t, "SLEEPING")
      <4>1. ready' = ready /\ sleeping' = sleeping /\ st' = st
        BY <1>34, <3>2, Zenon DEF lthread_wakeup
      <4> QED BY <3>2, <4>1
    <3> QED BY <3>1, <3>2
  <2>4. QueuesOK'
    BY <2>1, <2>2, <2>3
  <2>5. FlagsOK'
    BY <2>1, <2>2, <2>3
  <2>6. HeapOK'
    BY <2>1, <2>2, <2>3
  <2>7. PlacesOK'
    BY <2>1, <2>2, <2>3
  <2>8. CondOK'
    BY <2>1, <2>2, <2>3
  <2>9. JoinOK'
    <3>1. \A l \in Lthread : /\ pc'[l] = "join" <=> pc[l] = "join"
                             /\ pc'[l] = "gone" <=> pc[l] = "gone"
                             /\ "DETACH" \in st'[l] <=> "DETACH" \in st[l]
      <4> HIDE DEF TypeOK, QueuesOK, FlagsOK, FlagsOf, HeapOK, PlacesOK, CondOK, JoinOK, FdOK, Active
      <4>1. ASSUME NEW l \in Lthread, l # t
            PROVE  pc'[l] = pc[l] /\ st'[l] = st[l]
        BY <4>1, <2>1, <2>2, <2>3
      <4>2. /\ pc'[t] \notin {"join", "gone"} /\ pc[t] \notin {"join", "gone"}
            /\ "DETACH" \in st'[t] <=> "DETACH" \in st[t]
        BY <2>1, <2>2, <2>3
      <4> SUFFICES ASSUME NEW l \in Lthread
                   PROVE  /\ pc'[l] = "join" <=> pc[l] = "join"
                          /\ pc'[l] = "gone" <=> pc[l] = "gone"
                          /\ "DETACH" \in st'[l] <=> "DETACH" \in st[l]
        OBVIOUS
      <4>3. CASE l = t
        BY <4>2, <4>3
      <4>4. CASE l # t
        BY <4>1, <4>4
      <4> QED BY <4>3, <4>4
    <3>2. \A l \in Lthread : pc[l] = "join" =>
             /\ "EXPIRED" \in st'[l] <=> "EXPIRED" \in st[l]
             /\ InQ(l, ready') <=> InQ(l, ready)
             /\ Active(l)' <=> Active(l)
      <4> HIDE DEF TypeOK, QueuesOK, FlagsOK, FlagsOf, HeapOK, PlacesOK, CondOK, JoinOK, FdOK
      <4> QED BY <2>1, <2>2, <2>3
    <3> HIDE DEF TypeOK, QueuesOK, FlagsOK, FlagsOf, HeapOK, PlacesOK, CondOK, JoinOK, FdOK, Active
    <3> QED BY <3>1, <3>2, <2>1, <2>2, <2>3, JoinFrame
  <2>10. FdOK'
    <3> HIDE DEF TypeOK, QueuesOK, FlagsOK, FlagsOf, HeapOK, PlacesOK, CondOK, JoinOK, FdOK, Active
    <3>1. \A l \in Lthread : "CANCELLED" \in st'[l] <=> "CANCELLED" \in st[l]
      BY <2>3
    <3> QED BY <2>2, <3>1 DEF FdOK
  <2> QED BY TypeNext, <1>34, <2>4, <2>5, <2>6, <2>7, <2>8, <2>9, <2>10 DEF IInv, Next,
     Resume, Loops, Returns, Yields, Calls, Outside
<1>35. ASSUME NEW t \in Lthread, lthread_join_exited(t) PROVE IInv'
  <2>1. /\ t \in heap /\ t # cur /\ pc[t] = "gone"
        /\ \A l \in Lthread : arg[l] # t
    BY <1>35 DEF lthread_join_exited, MayJoin, Joined, Waived
  <2>2. QueuesOK'
    BY <1>35, <2>1 DEF lthread_join_exited, Call
  <2>3. FlagsOK'
    BY <1>35, <2>1 DEF lthread_join_exited, Call
  <2>4. HeapOK'
    BY <1>35, <2>1 DEF lthread_join_exited, Call
  <2>5. PlacesOK'
    BY <1>35, <2>1 DEF lthread_join_exited, Call
  <2>6. CondOK'
    BY <1>35, <2>1 DEF lthread_join_exited, Call
  <2>7. JoinOK'
    BY <1>35, <2>1 DEF lthread_join_exited, Call
  <2>8. FdOK'
    BY <1>35, <2>1 DEF lthread_join_exited, Call
  <2> QED BY TypeNext, <1>35, <2>2, <2>3, <2>4, <2>5, <2>6, <2>7, <2>8 DEF IInv, Next,
     Resume, Loops, Returns, Yields, Calls, Outside
<1>36. ASSUME NEW t \in Lthread, lthread_cancel(t) PROVE IInv'
  <2>1. /\ t \in heap /\ t # cur /\ Parked(t)
        /\ EventFound(t) = {t} \cap waiting
    BY <1>36, FoundSelf DEF lthread_cancel, MayCancel, Waived, Parked, Call
  <2>2. /\ waiting' = waiting \ {t} /\ sleeping' = sleeping \ {t}
        /\ \A l \in Lthread : l # t => st'[l] = st[l]
        /\ st'[t] = UnwaitFlags(DeschedFlags(st[t])) \cup {"CANCELLED"}
    BY <1>36, <2>1 DEF lthread_cancel, SleepingWithout, DeschedSt
  <2>3. ~InQ(t, ready) /\ ~Active(t) /\ ("WAIT_IO" \in st[t] <=> pc[t] = "io") /\ pc[t] \in {"sleep", "fd", "io"}
    BY <1>36, <2>1 DEF Parked, lthread_cancel, Call
  <2>4. /\ \A y : InQ(y, ready') <=> InQ(y, ready) \/ (y = t /\ pc[t] # "io")
        /\ Distinct(ready')
    BY <1>36, <2>3, QAppend DEF lthread_cancel
  <2>5. \A f : f \in st'[t] <=> f = "CANCELLED" \/
                 (f \in st[t] /\ f \notin {"SLEEPING", "WAIT_READ", "WAIT_WRITE"})
    <3> HIDE DEF TypeOK, QueuesOK, FlagsOK, HeapOK, PlacesOK, CondOK, JoinOK, FdOK, Active
    <3>1. /\ ~("WAIT_READ" \in st[t] /\ "WAIT_WRITE" \in st[t])
          /\ "EXPIRED" \notin st[t]
      BY <2>3, <1>36 DEF FlagsOK, FlagsOf, lthread_cancel, Call, Active
    <3>2. st'[t] = UnwaitFlags(DeschedFlags(st[t])) \cup {"CANCELLED"}
      BY <2>2
    <3> QED BY <3>1, <3>2 DEF DeschedFlags, UnwaitFlags
  <2>6. /\ UNCHANGED <<heap, pc, arg, on, lt_join, busy, blocked, io, defer, ctl, cur, events, ev>>
        /\ fd_wait'[t] = NoKey /\ \A l \in Lthread : l # t => fd_wait'[l] = fd_wait[l]
        /\ phase' \in {phase, "abort"} /\ ctl = "run" /\ cur \in Lthread /\ t # cur
    BY <1>36, <2>1 DEF lthread_cancel, Call
  <2>7. QueuesOK'
    BY <2>1, <2>2, <2>3, <2>4, <2>5, <2>6
  <2>8. FlagsOK'
    <3> HIDE DEF TypeOK, QueuesOK, FlagsOf, HeapOK, PlacesOK, CondOK, JoinOK, FdOK, Active
    <3> SUFFICES ASSUME NEW l \in Lthread PROVE FlagsOf(l)'
      OBVIOUS
    <3>1. FlagsOf(l)
      OBVIOUS
    <3>2. CASE l = t
      BY <3>1, <3>2, <2>2, <2>3, <2>4, <2>5, <2>6 DEF FlagsOf, PlacesOK, Active
    <3>3. CASE l # t
      BY <3>1, <3>3, <2>2, <2>3, <2>4, <2>5, <2>6 DEF FlagsOf, PlacesOK, Active
    <3> QED BY <3>2, <3>3
  <2>9. HeapOK'
    BY <2>1, <2>2, <2>3, <2>4, <2>5, <2>6
  <2>10. PlacesOK'
    <3> HIDE DEF QueuesOK, FlagsOK, HeapOK, CondOK, JoinOK, FdOK
    <3> QED BY <2>1, <2>2, <2>3, <2>4, <2>6 DEF Parked
  <2>11. CondOK'
    BY <2>1, <2>2, <2>3, <2>4, <2>5, <2>6
  <2>12. JoinOK'
    <3>1. \A l \in Lthread : /\ pc'[l] = "join" <=> pc[l] = "join"
                             /\ pc'[l] = "gone" <=> pc[l] = "gone"
                             /\ "DETACH" \in st'[l] <=> "DETACH" \in st[l]
      <4> HIDE DEF TypeOK, QueuesOK, FlagsOK, FlagsOf, HeapOK, PlacesOK, CondOK, JoinOK, FdOK, Active
      <4>1. ASSUME NEW l \in Lthread, l # t
            PROVE  pc'[l] = pc[l] /\ st'[l] = st[l]
        BY <4>1, <2>2, <2>3, <2>4, <2>5, <2>6
      <4>2. /\ pc'[t] \notin {"join", "gone"} /\ pc[t] \notin {"join", "gone"}
            /\ "DETACH" \in st'[t] <=> "DETACH" \in st[t]
        BY <2>2, <2>3, <2>4, <2>5, <2>6
      <4> SUFFICES ASSUME NEW l \in Lthread
                   PROVE  /\ pc'[l] = "join" <=> pc[l] = "join"
                          /\ pc'[l] = "gone" <=> pc[l] = "gone"
                          /\ "DETACH" \in st'[l] <=> "DETACH" \in st[l]
        OBVIOUS
      <4>3. CASE l = t
        BY <4>2, <4>3
      <4>4. CASE l # t
        BY <4>1, <4>4
      <4> QED BY <4>3, <4>4
    <3>2. \A l \in Lthread : pc[l] = "join" =>
             /\ "EXPIRED" \in st'[l] <=> "EXPIRED" \in st[l]
             /\ InQ(l, ready') <=> InQ(l, ready)
             /\ Active(l)' <=> Active(l)
      <4> HIDE DEF TypeOK, QueuesOK, FlagsOK, FlagsOf, HeapOK, PlacesOK, CondOK, JoinOK, FdOK
      <4> QED BY <2>2, <2>3, <2>4, <2>5, <2>6
    <3> HIDE DEF TypeOK, QueuesOK, FlagsOK, FlagsOf, HeapOK, PlacesOK, CondOK, JoinOK, FdOK, Active
    <3> QED BY <3>1, <3>2, <2>2, <2>3, <2>4, <2>5, <2>6, JoinFrame
  <2>13. FdOK'
    <3> HIDE DEF QueuesOK, FlagsOK, HeapOK, PlacesOK, CondOK, JoinOK, Active
    <3> QED BY <2>2, <2>6
  <2> QED BY TypeNext, <1>36, <2>7, <2>8, <2>9, <2>10, <2>11, <2>12, <2>13 DEF IInv, Next,
     Resume, Loops, Returns, Yields, Calls, Outside
<1>37. ASSUME NEW c \in Cond, lthread_cond_signal(c) PROVE IInv'
  <2>1. cur \in Lthread /\ Head(blocked[c]) \in Lthread /\ InQ(Head(blocked[c]), blocked[c])
    BY <1>37, QTail DEF lthread_cond_signal, Call
  <2>2. /\ \A y : InQ(y, blocked'[c]) <=> InQ(y, blocked[c]) /\ y # Head(blocked[c])
        /\ Distinct(blocked'[c])
        /\ \A d \in Cond : d # c => blocked'[d] = blocked[d]
    BY <1>37, QTail DEF lthread_cond_signal
  <2>3. ~InQ(Head(blocked[c]), ready) /\ pc[Head(blocked[c])] = "cond" /\ Head(blocked[c]) # cur
    BY <1>37, <2>1 DEF lthread_cond_signal, Call
  <2>4. /\ \A y : InQ(y, ready') <=> InQ(y, ready) \/ y = Head(blocked[c])
        /\ Distinct(ready')
    BY <1>37, <2>1, <2>3, QAppend DEF lthread_cond_signal
  <2>5. QueuesOK'
    BY <1>37, <2>1, <2>2, <2>3, <2>4 DEF lthread_cond_signal, Call, SleepingWithout,
       DeschedSt, DeschedFlags
  <2>6. FlagsOK'
    BY <1>37, <2>1, <2>2, <2>3, <2>4 DEF lthread_cond_signal, Call, SleepingWithout,
       DeschedSt, DeschedFlags
  <2>7. HeapOK'
    BY <1>37, <2>1, <2>2, <2>3, <2>4 DEF lthread_cond_signal, Call, SleepingWithout,
       DeschedSt, DeschedFlags
  <2>8. PlacesOK'
    BY <1>37, <2>1, <2>2, <2>3, <2>4 DEF lthread_cond_signal, Call, SleepingWithout,
       DeschedSt, DeschedFlags
  <2>9. CondOK'
    BY <1>37, <2>1, <2>2, <2>3, <2>4 DEF lthread_cond_signal, Call, SleepingWithout,
       DeschedSt, DeschedFlags
  <2>10. JoinOK'
    BY <1>37, <2>1, <2>2, <2>3, <2>4 DEF lthread_cond_signal, Call, SleepingWithout,
       DeschedSt, DeschedFlags
  <2>11. FdOK'
    BY <1>37, <2>1, <2>2, <2>3, <2>4 DEF lthread_cond_signal, Call, SleepingWithout,
       DeschedSt, DeschedFlags
  <2> QED BY TypeNext, <1>37, <2>5, <2>6, <2>7, <2>8, <2>9, <2>10, <2>11 DEF IInv, Next,
     Resume, Loops, Returns, Yields, Calls, Outside
<1>38. ASSUME NEW c \in Cond, lthread_cond_broadcast(c) PROVE IInv'
  <2>1. \A y : InQ(y, blocked[c]) => y \in Lthread /\ ~InQ(y, ready) /\ y # cur /\ pc[y] = "cond"
    <3>1. \A y : InQ(y, blocked[c]) => y \in Lthread
      BY DEF InQ
    <3> QED BY <1>38, <3>1 DEF lthread_cond_broadcast, Call
  <2>2. /\ \A y : InQ(y, ready') <=> InQ(y, ready) \/ InQ(y, blocked[c])
        /\ Distinct(ready')
    BY <1>38, <2>1, QConcat DEF lthread_cond_broadcast
  <2>3. /\ \A y : ~InQ(y, blocked'[c])
        /\ Distinct(blocked'[c])
        /\ \A d \in Cond : d # c => blocked'[d] = blocked[d]
    BY <1>38 DEF lthread_cond_broadcast, InQ, Distinct
  <2>4. QueuesOK'
    BY <1>38, <2>1, <2>2, <2>3 DEF lthread_cond_broadcast, Call, SleepingWithout,
       DeschedSt, DeschedFlags
  <2>5. FlagsOK'
    BY <1>38, <2>1, <2>2, <2>3 DEF lthread_cond_broadcast, Call, SleepingWithout,
       DeschedSt, DeschedFlags
  <2>6. HeapOK'
    BY <1>38, <2>1, <2>2, <2>3 DEF lthread_cond_broadcast, Call, SleepingWithout,
       DeschedSt, DeschedFlags
  <2>7. PlacesOK'
    BY <1>38, <2>1, <2>2, <2>3 DEF lthread_cond_broadcast, Call, SleepingWithout,
       DeschedSt, DeschedFlags
  <2>8. CondOK'
    BY <1>38, <2>1, <2>2, <2>3 DEF lthread_cond_broadcast, Call, SleepingWithout,
       DeschedSt, DeschedFlags
  <2>9. JoinOK'
    BY <1>38, <2>1, <2>2, <2>3 DEF lthread_cond_broadcast, Call, SleepingWithout,
       DeschedSt, DeschedFlags
  <2>10. FdOK'
    BY <1>38, <2>1, <2>2, <2>3 DEF lthread_cond_broadcast, Call, SleepingWithout,
       DeschedSt, DeschedFlags
  <2> QED BY TypeNext, <1>38, <2>4, <2>5, <2>6, <2>7, <2>8, <2>9, <2>10 DEF IInv, Next,
     Resume, Loops, Returns, Yields, Calls, Outside
<1>39. ASSUME NEW fd \in Fd, lthread_close(fd) PROVE IInv'
  <2> DEFINE R == WaitersOf(<<fd, "READ">>)
             W == WaitersOf(<<fd, "WRITE">>)
             C == R \cup W
  <2> HIDE DEF R, W, C
  <2>1. UNCHANGED <<heap, pc, arg, on, lt_join, busy, blocked, fd_wait, io, defer, phase, ctl, cur, due, last, events, ev>>
    BY <1>39 DEF lthread_close
  <2>2. /\ cur \in Lthread /\ pc[cur] = "user" /\ ctl = "run" /\ phase \notin {"done", "abort"}
        /\ \A l \in C : l \in Lthread /\ l \in waiting /\ pc[l] = "fd" /\ ~InQ(l, ready) /\ l # cur
    BY <1>39 DEF lthread_close, WaitersOf, Call, R, W, C
  <2>3. /\ \A y : InQ(y, ready') <=> InQ(y, ready) \/ y \in C
        /\ Distinct(ready')
    <3>1. ready' = ready \o (IF R = {} THEN <<>> ELSE <<CHOOSE r \in R : TRUE>>)
                         \o (IF W = {} THEN <<>> ELSE <<CHOOSE w \in W : TRUE>>)
      BY <1>39 DEF lthread_close, R, W
    <3>2. /\ R = {} \/ \E r \in Lthread : R = {r}
          /\ W = {} \/ \E w \in Lthread : W = {w}
          /\ R \cap W = {}
      <4>1. ASSUME NEW r \in R PROVE R = {r} /\ r \in Lthread
        <5> HIDE DEF TypeOK, QueuesOK, FlagsOK, HeapOK, PlacesOK, CondOK, JoinOK, Active
        <5>1. R \subseteq waiting /\ \A x \in R : fd_wait[x] = fd_wait[r]
          BY DEF R, WaitersOf
        <5>2. waiting \subseteq Lthread
          BY DEF TypeOK
        <5>3. R \subseteq {r}
          BY <5>1
        <5> QED BY <5>1, <5>2, <5>3
      <4>2. ASSUME NEW w \in W PROVE W = {w} /\ w \in Lthread
        <5> HIDE DEF TypeOK, QueuesOK, FlagsOK, HeapOK, PlacesOK, CondOK, JoinOK, Active
        <5>1. W \subseteq waiting /\ \A x \in W : fd_wait[x] = fd_wait[w]
          BY DEF W, WaitersOf
        <5>2. waiting \subseteq Lthread
          BY DEF TypeOK
        <5>3. W \subseteq {w}
          BY <5>1
        <5> QED BY <5>1, <5>2, <5>3
      <4>3. R \cap W = {}
        BY DEF R, W, WaitersOf
      <4> QED BY <4>1, <4>2, <4>3
    <3> DEFINE q == ready \o (IF R = {} THEN <<>> ELSE <<CHOOSE r \in R : TRUE>>)
    <3>3. q \in Seq(Lthread) /\ Distinct(q) /\ \A y : InQ(y, q) <=> InQ(y, ready) \/ y \in R
      <4>1. CASE R = {}
        BY <4>1
      <4>2. CASE R # {}
        <5>1. PICK r \in Lthread : R = {r}
          BY <3>2, <4>2
        <5>2. (CHOOSE x \in R : TRUE) = r /\ R # {}
          BY <5>1
        <5>3. q = Append(ready, r)
          BY <5>2
        <5>4. ~InQ(r, ready)
          BY <5>1, <2>2 DEF C
        <5> HIDE DEF q
        <5> QED BY <5>1, <5>3, <5>4, QAppend
      <4> QED BY <4>1, <4>2
    <3>4. ready' = q \o (IF W = {} THEN <<>> ELSE <<CHOOSE w \in W : TRUE>>)
      BY <3>1
    <3> HIDE DEF q
    <3>5. CASE W = {}
      BY <3>3, <3>4, <3>5 DEF C
    <3>6. CASE W # {}
      <4>1. PICK w \in Lthread : W = {w}
        BY <3>2, <3>6
      <4>2. ready' = Append(q, w) /\ ~InQ(w, q)
        BY <3>2, <3>3, <3>4, <4>1, <2>2 DEF C
      <4>3. (\A y : InQ(y, ready') <=> InQ(y, q) \/ y = w) /\ Distinct(ready')
        BY <3>3, <4>2, QAppend
      <4> QED BY <3>3, <4>1, <4>3 DEF C
    <3> QED BY <3>5, <3>6
  <2>4. /\ waiting' = waiting \ C
        /\ sleeping' = sleeping \ C
        /\ \A l \in Lthread : l \in C => st'[l] = DeschedFlags(st[l]) \cup {"FDEOF"}
        /\ \A l \in Lthread : l \notin C /\ l # cur => st'[l] = st[l]
        /\ cur \notin C => st'[cur] = st[cur] \ {"FDEOF"}
    <3>1. /\ waiting' = waiting \ C
          /\ sleeping' = SleepingWithout(C)
          /\ st' = [l \in Lthread |->
                      IF l \in C THEN DeschedSt(C)[l] \cup {"FDEOF"}
                      ELSE IF l = cur THEN st[l] \ {"FDEOF"} ELSE st[l]]
      BY <1>39 DEF lthread_close, R, W, C
    <3>2. sleeping' = sleeping \ C
      BY <3>1, <2>2 DEF SleepingWithout
    <3>3. \A l \in Lthread : l \in C => st'[l] = DeschedFlags(st[l]) \cup {"FDEOF"}
      BY <3>1 DEF DeschedSt
    <3> QED BY <2>2, <3>1, <3>2, <3>3
  <2>5. \A l \in Lthread : "CANCELLED" \in st'[l] <=> "CANCELLED" \in st[l]
    <3> HIDE DEF TypeOK, QueuesOK, FlagsOK, FlagsOf, HeapOK, PlacesOK, CondOK, JoinOK, FdOK, Active
    <3> SUFFICES ASSUME NEW l \in Lthread PROVE "CANCELLED" \in st'[l] <=> "CANCELLED" \in st[l]
      OBVIOUS
    <3>1. CASE l \in C
      BY <2>4, <3>1 DEF DeschedFlags
    <3>2. CASE l \notin C /\ l # cur
      BY <2>4, <3>2
    <3>3. CASE l \notin C /\ l = cur
      BY <2>4, <3>3
    <3> QED BY <3>1, <3>2, <3>3
  <2>6. QueuesOK'
    BY <2>1, <2>2, <2>3, <2>4 DEF DeschedFlags
  <2>7. FlagsOK'
    BY <2>1, <2>2, <2>3, <2>4 DEF DeschedFlags
  <2>8. HeapOK'
    BY <2>1, <2>2, <2>3, <2>4 DEF DeschedFlags
  <2>9. PlacesOK'
    BY <2>1, <2>2, <2>3, <2>4 DEF DeschedFlags
  <2>10. CondOK'
    BY <2>1, <2>2, <2>3, <2>4 DEF DeschedFlags
  <2>11. JoinOK'
    <3>1. \A l \in Lthread : "DETACH" \in st'[l] <=> "DETACH" \in st[l]
      <4> HIDE DEF TypeOK, QueuesOK, FlagsOK, FlagsOf, HeapOK, PlacesOK, CondOK, JoinOK, FdOK, Active
      <4> SUFFICES ASSUME NEW l \in Lthread PROVE "DETACH" \in st'[l] <=> "DETACH" \in st[l]
        OBVIOUS
      <4>1. CASE l \in C
        BY <2>4, <4>1 DEF DeschedFlags
      <4>2. CASE l \notin C
        BY <2>4, <4>2
      <4> QED BY <4>1, <4>2
    <3>2. \A l \in Lthread : pc[l] = "join" =>
             /\ "EXPIRED" \in st'[l] <=> "EXPIRED" \in st[l]
             /\ InQ(l, ready') <=> InQ(l, ready)
             /\ Active(l)' <=> Active(l)
      <4> HIDE DEF TypeOK, QueuesOK, FlagsOK, FlagsOf, HeapOK, PlacesOK, CondOK, JoinOK, FdOK
      <4> QED BY <2>1, <2>2, <2>3, <2>4
    <3> HIDE DEF TypeOK, QueuesOK, FlagsOK, FlagsOf, HeapOK, PlacesOK, CondOK, JoinOK, FdOK, Active
    <3> QED BY <2>1, <3>1, <3>2, JoinFrame
  <2>12. FdOK'
    <3> HIDE DEF QueuesOK, FlagsOK, HeapOK, PlacesOK, CondOK, JoinOK, Active
    <3> QED BY <2>1, <2>4, <2>5
  <2> QED BY TypeNext, <1>39, <2>6, <2>7, <2>8, <2>9, <2>10, <2>11, <2>12 DEF IInv, Next,
     Resume, Loops, Returns, Yields, Calls, Outside
<1>40. ASSUME NEW lt \in Lthread, IoDone(lt) PROVE IInv'
  <2>1. /\ \A y : InQ(y, defer') <=> InQ(y, defer) \/ y = lt
        /\ Distinct(defer')
    BY <1>40, QAppend DEF IoDone, Call
  <2>2. QueuesOK'
    BY <1>40, <2>1 DEF IoDone
  <2>3. FlagsOK'
    BY <1>40, <2>1 DEF IoDone
  <2>4. HeapOK'
    BY <1>40, <2>1 DEF IoDone
  <2>5. PlacesOK'
    BY <1>40, <2>1 DEF IoDone
  <2>6. CondOK'
    BY <1>40, <2>1 DEF IoDone
  <2>7. JoinOK'
    BY <1>40, <2>1 DEF IoDone
  <2>8. FdOK'
    BY <1>40, <2>1 DEF IoDone
  <2> QED BY TypeNext, <1>40, <2>2, <2>3, <2>4, <2>5, <2>6, <2>7, <2>8 DEF IInv, Next,
     Resume, Loops, Returns, Yields, Calls, Outside
<1>41. ASSUME NEW k \in Key, Arrive(k) PROVE IInv'
  <2>1. QueuesOK'
    BY <1>41 DEF Arrive, Loop
  <2>2. FlagsOK'
    BY <1>41 DEF Arrive, Loop
  <2>3. HeapOK'
    BY <1>41 DEF Arrive, Loop
  <2>4. PlacesOK'
    BY <1>41 DEF Arrive, Loop
  <2>5. CondOK'
    BY <1>41 DEF Arrive, Loop
  <2>6. JoinOK'
    BY <1>41 DEF Arrive, Loop
  <2>7. FdOK'
    BY <1>41 DEF Arrive, Loop
  <2> QED BY TypeNext, <1>41, <2>1, <2>2, <2>3, <2>4, <2>5, <2>6, <2>7 DEF IInv, Next,
     Resume, Loops, Returns, Yields, Calls, Outside
<1>42. ASSUME UNCHANGED vars PROVE IInv'
  <2>1. /\ st' = st /\ heap' = heap /\ pc' = pc /\ arg' = arg /\ on' = on /\ lt_join' = lt_join
        /\ ready' = ready /\ sleeping' = sleeping /\ busy' = busy /\ blocked' = blocked /\ fd_wait' = fd_wait /\ waiting' = waiting
        /\ epoll' = epoll /\ io' = io /\ defer' = defer /\ pending' = pending /\ phase' = phase /\ ctl' = ctl
        /\ cur' = cur /\ due' = due /\ last' = last /\ events' = events /\ ev' = ev
    BY <1>42 DEF vars
  <2>2. QueuesOK'
    BY <2>1
  <2>3. FlagsOK'
    BY <2>1
  <2>4. HeapOK'
    BY <2>1
  <2>5. PlacesOK'
    BY <2>1
  <2>6. CondOK'
    BY <2>1
  <2>7. JoinOK'
    BY <2>1
  <2>8. FdOK'
    <3> HIDE DEF TypeOK, QueuesOK, FlagsOK, HeapOK, PlacesOK, CondOK, JoinOK, Active
    <3> QED BY <2>1
  <2> QED BY TypeNext, <1>42, <2>2, <2>3, <2>4, <2>5, <2>6, <2>7, <2>8 DEF IInv
<1> HIDE DEF IInv, TypeOK, QueuesOK, FlagsOK, FlagsOf, HeapOK, PlacesOK, CondOK, JoinOK, FdOK, Active
<1> QED
  BY <1>1, <1>2, <1>3, <1>4, <1>5, <1>6, <1>7, <1>8, <1>9, <1>10, <1>11, <1>12, <1>13,
     <1>14, <1>15, <1>16, <1>17, <1>18, <1>19, <1>20, <1>21, <1>22, <1>23, <1>24, <1>25,
     <1>26, <1>27, <1>28, <1>29, <1>30, <1>31, <1>32, <1>33, <1>34, <1>35, <1>36, <1>37,
     <1>38, <1>39, <1>40, <1>41, <1>42
  DEF Next, Resume, Loops, Returns, Yields, Calls, Outside, Stop
-----------------------------------------------------------------------------
(* What follows from the invariant                                         *)

(* lthread_run returns only after _lthread_sched_isdone said so, and then  *)
(* nothing moves.                                                          *)
LEMMA DoneNext ==
  ASSUME DoneOK, [Next]_vars
  PROVE  DoneOK'
<1> USE DEF DoneOK
<1>1. ASSUME ResumeCancelled PROVE DoneOK'
  BY <1>1 DEF ResumeCancelled, Bury, ToLoop
<1>2. ASSUME ResumeSwitch PROVE DoneOK'
  BY <1>2 DEF ResumeSwitch
<1>3. ASSUME ResumeExited PROVE DoneOK'
  BY <1>3 DEF ResumeExited, Bury, ToLoop
<1>4. ASSUME ResumeYielded PROVE DoneOK'
  BY <1>4 DEF ResumeYielded, ToLoop
<1>5. ASSUME RunReturns PROVE DoneOK'
  BY <1>5 DEF RunReturns, Loop, IsDone
<1>6. ASSUME NEW D \in SUBSET sleeping, StartPass(D) PROVE DoneOK'
  BY <1>6 DEF StartPass, Loop
<1>7. ASSUME NEW lt \in Lthread, Expire(lt) PROVE DoneOK'
  BY <1>7 DEF Expire, Loop
<1>8. ASSUME ExpireEnd PROVE DoneOK'
  BY <1>8 DEF ExpireEnd, Loop
<1>9. ASSUME RunReady PROVE DoneOK'
  BY <1>9 DEF RunReady, Loop
<1>10. ASSUME ReadyEnd PROVE DoneOK'
  BY <1>10 DEF ReadyEnd, Loop
<1>11. ASSUME RunDefer PROVE DoneOK'
  BY <1>11 DEF RunDefer, Loop
<1>12. ASSUME DeferEnd PROVE DoneOK'
  BY <1>12 DEF DeferEnd, Loop
<1>13. ASSUME PollSkip PROVE DoneOK'
  BY <1>13 DEF PollSkip, Loop
<1>14. ASSUME Poll PROVE DoneOK'
  BY <1>14 DEF Poll, Loop
<1>15. ASSUME NEW fd \in Fd, NEW eof \in BOOLEAN, TakeEvent(fd, eof) PROVE DoneOK'
  BY <1>15 DEF TakeEvent, Loop
<1>16. ASSUME HandleEv PROVE DoneOK'
  <2>1. phase' = phase /\ ~Stopped
    BY <1>16 DEF HandleEv, Loop
  <2> QED BY <2>1
<1>17. ASSUME EvChecked PROVE DoneOK'
  BY <1>17 DEF EvChecked, Loop
<1>18. ASSUME EventsEnd PROVE DoneOK'
  BY <1>18 DEF EventsEnd, Loop
<1>19. ASSUME SleepReturns PROVE DoneOK'
  BY <1>19 DEF SleepReturns, Back
<1>20. ASSUME CondWaitReturns PROVE DoneOK'
  BY <1>20 DEF CondWaitReturns, Back, Unbusy
<1>21. ASSUME JoinReturns PROVE DoneOK'
  BY <1>21 DEF JoinReturns, Back, Unbusy
<1>22. ASSUME FdReturns PROVE DoneOK'
  BY <1>22 DEF FdReturns, Back
<1>23. ASSUME IoReturns PROVE DoneOK'
  BY <1>23 DEF IoReturns, Back
<1>24. ASSUME lthread_exit PROVE DoneOK'
  BY <1>24 DEF lthread_exit, Yield
<1>25. ASSUME lthread_sleep PROVE DoneOK'
  BY <1>25 DEF lthread_sleep, Call, Yield
<1>26. ASSUME lthread_sleep0 PROVE DoneOK'
  BY <1>26 DEF lthread_sleep0, Call, Yield
<1>27. ASSUME lthread_io PROVE DoneOK'
  BY <1>27 DEF lthread_io, Call, Yield
<1>28. ASSUME NEW c \in Cond, NEW timed \in BOOLEAN, lthread_cond_wait(c, timed) PROVE DoneOK'
  BY <1>28 DEF lthread_cond_wait, Call, BusySleep, Yield
<1>29. ASSUME NEW t \in Lthread, NEW timed \in BOOLEAN, lthread_join(t, timed) PROVE DoneOK'
  BY <1>29 DEF lthread_join, Call, BusySleep, Yield
<1>30. ASSUME NEW fd \in Fd, NEW e \in Ev, NEW timed \in BOOLEAN, lthread_wait(fd, e, timed) PROVE DoneOK'
  <2>1. CASE Waits(cur) \/ WaitersOf(<<fd, e>>) # {}
    <3>1. phase' = "abort"
      BY <1>30, <2>1, Zenon DEF lthread_wait
    <3> QED BY <3>1
  <2>2. CASE ~(Waits(cur) \/ WaitersOf(<<fd, e>>) # {})
    <3>1. Yield
      BY <1>30, <2>2, Zenon DEF lthread_wait
    <3> QED BY <1>30, <3>1 DEF lthread_wait, Call, Yield
  <2> QED BY <2>1, <2>2
<1>31. ASSUME lthread_detach PROVE DoneOK'
  BY <1>31 DEF lthread_detach, Call
<1>32. ASSUME NEW t \in Lthread, lthread_create(t) PROVE DoneOK'
  BY <1>32 DEF lthread_create, Call
<1>33. ASSUME NEW t \in Lthread, lthread_detach2(t) PROVE DoneOK'
  BY <1>33 DEF lthread_detach2, Call
<1>34. ASSUME NEW t \in Lthread, lthread_wakeup(t) PROVE DoneOK'
  BY <1>34 DEF lthread_wakeup, Call
<1>35. ASSUME NEW t \in Lthread, lthread_join_exited(t) PROVE DoneOK'
  BY <1>35 DEF lthread_join_exited, Call
<1>36. ASSUME NEW t \in Lthread, lthread_cancel(t) PROVE DoneOK'
  BY <1>36 DEF lthread_cancel, Call
<1>37. ASSUME NEW c \in Cond, lthread_cond_signal(c) PROVE DoneOK'
  BY <1>37 DEF lthread_cond_signal, Call
<1>38. ASSUME NEW c \in Cond, lthread_cond_broadcast(c) PROVE DoneOK'
  BY <1>38 DEF lthread_cond_broadcast, Call
<1>39. ASSUME NEW fd \in Fd, lthread_close(fd) PROVE DoneOK'
  BY <1>39 DEF lthread_close, Call
<1>40. ASSUME NEW lt \in Lthread, IoDone(lt) PROVE DoneOK'
  BY <1>40 DEF IoDone
<1>41. ASSUME NEW k \in Key, Arrive(k) PROVE DoneOK'
  BY <1>41 DEF Arrive, Loop
<1>42. ASSUME UNCHANGED vars PROVE DoneOK'
  BY <1>42 DEF vars, IsDone
<1> QED
  BY <1>1, <1>2, <1>3, <1>4, <1>5, <1>6, <1>7, <1>8, <1>9, <1>10, <1>11, <1>12, <1>13,
     <1>14, <1>15, <1>16, <1>17, <1>18, <1>19, <1>20, <1>21, <1>22, <1>23, <1>24, <1>25,
     <1>26, <1>27, <1>28, <1>29, <1>30, <1>31, <1>32, <1>33, <1>34, <1>35, <1>36, <1>37,
     <1>38, <1>39, <1>40, <1>41, <1>42
  DEF Next, Resume, Loops, Returns, Yields, Calls, Outside, Stop

(* The safety properties are consequences of the invariant.                *)
LEMMA InvImplies ==
  ASSUME IInv, DoneOK
  PROVE  /\ OnePlace /\ NoLostLthread /\ NoDangling
         /\ CondWaitResult /\ JoinResult /\ RunsUntilAllReturn
<1> USE DEF IInv
<1>1. OnePlace
  BY DEF OnePlace, QueuesOK, PlacesOK, CondOK, Blocked
<1>2. NoLostLthread
  <2> SUFFICES ASSUME NEW lt \in heap, pc[lt] # "gone"
               PROVE  \/ InQ(lt, ready) \/ InQ(lt, defer) \/ Active(lt)
                      \/ ctl = "back" /\ cur = lt /\ Has(lt, "EXITED")
                      \/ lt \in sleeping \cup waiting \cup io
                      \/ Blocked(lt)
                      \/ /\ pc[lt] = "join" /\ lt_join[arg[lt]] = lt
                         /\ pc[arg[lt]] # "gone"
    BY DEF NoLostLthread
  <2>1. lt \in Lthread /\ pc[lt] \in PC \ {"unborn", "gone"}
    BY DEF TypeOK, HeapOK
  <2>2. CASE pc[lt] = "cond"
    BY <2>1, <2>2 DEF CondOK, Blocked
  <2>3. CASE pc[lt] = "join"
    BY <2>1, <2>3 DEF JoinOK
  <2>4. CASE pc[lt] \notin {"cond", "join"}
    BY <2>1, <2>4 DEF PlacesOK, PC
  <2> QED BY <2>2, <2>3, <2>4
<1>3. NoDangling
  <2>1. \A lt \in Lthread : \/ InQ(lt, ready) \/ InQ(lt, defer) \/ Active(lt)
                            \/ \E c \in Cond : InQ(lt, blocked[c])
                           => lt \in heap
    BY DEF QueuesOK, HeapOK, Active
  <2>2. sleeping \cup waiting \cup busy \cup io \subseteq heap
    BY DEF TypeOK, PlacesOK, HeapOK
  <2>3. \A lt \in heap : pc[lt] = "join" => arg[lt] \in heap
    BY DEF TypeOK, JoinOK
  <2>4. \A lt \in heap : pc[lt] # "gone" => lt_join[lt] \in heap \cup {NoLt}
    BY DEF TypeOK, JoinOK, HeapOK
  <2> QED BY <2>1, <2>2, <2>3, <2>4 DEF NoDangling
<1>4. CondWaitResult
  BY DEF CondWaitResult, Back, TypeOK, CondOK, Active
<1>5. JoinResult
  BY DEF JoinResult, Back, TypeOK, JoinOK, Active
<1>6. RunsUntilAllReturn
  <2> SUFFICES ASSUME phase = "done", NEW lt \in Lthread, pc[lt] \notin {"unborn", "gone"}
               PROVE  FALSE
    BY DEF RunsUntilAllReturn
  <2>1. waiting = {} /\ busy = {} /\ sleeping = {} /\ ready = <<>> /\ ctl = "loop"
    BY DEF DoneOK, IsDone
  <2>2. ~InQ(lt, ready) /\ ~Active(lt) /\ lt \notin busy
    BY <2>1 DEF InQ, Active
  <2>3. pc[lt] \in PC
    BY DEF TypeOK
  <2> QED BY <2>1, <2>2, <2>3 DEF PlacesOK, PC
<1> QED BY <1>1, <1>2, <1>3, <1>4, <1>5, <1>6

(* The three places that free an lthread (its burial when detached, and    *)
(* the two ends of lthread_join) do so after its code is over.             *)
LEMMA FreeStep ==
  ASSUME Unguarded = {}, IInv, [Next]_vars
  PROVE  \A lt \in heap \ heap' : pc'[lt] = "gone"
<1> DEFINE FreedOnes == \A lt \in heap \ heap' : pc'[lt] = "gone"
<1>1. ASSUME ResumeCancelled PROVE FreedOnes
  <2>1. cur \in Lthread /\ (heap' = heap \/ heap' = heap \ {cur}) /\ pc' = [pc EXCEPT ![cur] = "gone"]
    BY <1>1 DEF ResumeCancelled, Bury, IInv, TypeOK
  <2> QED BY <2>1 DEF IInv, TypeOK
<1>2. ASSUME ResumeSwitch PROVE FreedOnes
  BY <1>2 DEF ResumeSwitch
<1>3. ASSUME ResumeExited PROVE FreedOnes
  <2>1. cur \in Lthread /\ (heap' = heap \/ heap' = heap \ {cur}) /\ pc' = [pc EXCEPT ![cur] = "gone"]
    BY <1>3 DEF ResumeExited, Bury, IInv, TypeOK
  <2> QED BY <2>1 DEF IInv, TypeOK
<1>4. ASSUME ResumeYielded PROVE FreedOnes
  BY <1>4 DEF ResumeYielded, ToLoop
<1>5. ASSUME RunReturns PROVE FreedOnes
  BY <1>5 DEF RunReturns, Loop
<1>6. ASSUME NEW D \in SUBSET sleeping, StartPass(D) PROVE FreedOnes
  BY <1>6 DEF StartPass, Loop
<1>7. ASSUME NEW lt \in Lthread, Expire(lt) PROVE FreedOnes
  BY <1>7 DEF Expire, Loop
<1>8. ASSUME ExpireEnd PROVE FreedOnes
  BY <1>8 DEF ExpireEnd, Loop
<1>9. ASSUME RunReady PROVE FreedOnes
  BY <1>9 DEF RunReady, Loop
<1>10. ASSUME ReadyEnd PROVE FreedOnes
  BY <1>10 DEF ReadyEnd, Loop
<1>11. ASSUME RunDefer PROVE FreedOnes
  BY <1>11 DEF RunDefer, Loop
<1>12. ASSUME DeferEnd PROVE FreedOnes
  BY <1>12 DEF DeferEnd, Loop
<1>13. ASSUME PollSkip PROVE FreedOnes
  BY <1>13 DEF PollSkip, Loop
<1>14. ASSUME Poll PROVE FreedOnes
  BY <1>14 DEF Poll, Loop
<1>15. ASSUME NEW fd \in Fd, NEW eof \in BOOLEAN, TakeEvent(fd, eof) PROVE FreedOnes
  BY <1>15 DEF TakeEvent, Loop
<1>16. ASSUME HandleEv PROVE FreedOnes
  BY <1>16 DEF HandleEv, Loop
<1>17. ASSUME EvChecked PROVE FreedOnes
  BY <1>17 DEF EvChecked, Loop
<1>18. ASSUME EventsEnd PROVE FreedOnes
  BY <1>18 DEF EventsEnd, Loop
<1>19. ASSUME SleepReturns PROVE FreedOnes
  BY <1>19 DEF SleepReturns, Back
<1>20. ASSUME CondWaitReturns PROVE FreedOnes
  BY <1>20 DEF CondWaitReturns, Back, Unbusy
<1>21. ASSUME JoinReturns PROVE FreedOnes
  <2>1. cur \in Lthread /\ arg[cur] # cur /\ ("EXPIRED" \in st[cur] <=> pc[arg[cur]] # "gone")
    BY <1>21 DEF JoinReturns, Back, IInv, TypeOK, JoinOK, Active
  <2>2. CASE "EXPIRED" \in st[cur]
    BY <1>21, <2>2 DEF JoinReturns
  <2>3. CASE "EXPIRED" \notin st[cur]
    <3>1. heap' = heap \ {arg[cur]} /\ pc' = [pc EXCEPT ![cur] = "user"]
      BY <1>21, <2>3 DEF JoinReturns, Unbusy
    <3> QED BY <2>1, <2>3, <3>1 DEF IInv, TypeOK
  <2> QED BY <2>2, <2>3
<1>22. ASSUME FdReturns PROVE FreedOnes
  BY <1>22 DEF FdReturns, Back
<1>23. ASSUME IoReturns PROVE FreedOnes
  BY <1>23 DEF IoReturns, Back
<1>24. ASSUME lthread_exit PROVE FreedOnes
  BY <1>24 DEF lthread_exit, Yield
<1>25. ASSUME lthread_sleep PROVE FreedOnes
  BY <1>25 DEF lthread_sleep, Call, Yield
<1>26. ASSUME lthread_sleep0 PROVE FreedOnes
  BY <1>26 DEF lthread_sleep0, Call, Yield
<1>27. ASSUME lthread_io PROVE FreedOnes
  BY <1>27 DEF lthread_io, Call, Yield
<1>28. ASSUME NEW c \in Cond, NEW timed \in BOOLEAN, lthread_cond_wait(c, timed) PROVE FreedOnes
  BY <1>28 DEF lthread_cond_wait, Call, BusySleep, Yield
<1>29. ASSUME NEW t \in Lthread, NEW timed \in BOOLEAN, lthread_join(t, timed) PROVE FreedOnes
  BY <1>29 DEF lthread_join, Call, BusySleep, Yield
<1>30. ASSUME NEW fd \in Fd, NEW e \in Ev, NEW timed \in BOOLEAN, lthread_wait(fd, e, timed) PROVE FreedOnes
  BY <1>30 DEF lthread_wait, Call, Yield
<1>31. ASSUME lthread_detach PROVE FreedOnes
  BY <1>31 DEF lthread_detach, Call
<1>32. ASSUME NEW t \in Lthread, lthread_create(t) PROVE FreedOnes
  BY <1>32 DEF lthread_create, Call
<1>33. ASSUME NEW t \in Lthread, lthread_detach2(t) PROVE FreedOnes
  BY <1>33 DEF lthread_detach2, Call
<1>34. ASSUME NEW t \in Lthread, lthread_wakeup(t) PROVE FreedOnes
  BY <1>34 DEF lthread_wakeup, Call
<1>35. ASSUME NEW t \in Lthread, lthread_join_exited(t) PROVE FreedOnes
  <2>1. heap' = heap \ {t} /\ pc' = pc /\ Has(t, "EXITED") /\ t # cur
    BY <1>35 DEF lthread_join_exited, MayJoin
  <2> QED BY <2>1 DEF IInv, FlagsOK, FlagsOf
<1>36. ASSUME NEW t \in Lthread, lthread_cancel(t) PROVE FreedOnes
  BY <1>36 DEF lthread_cancel, Call
<1>37. ASSUME NEW c \in Cond, lthread_cond_signal(c) PROVE FreedOnes
  BY <1>37 DEF lthread_cond_signal, Call
<1>38. ASSUME NEW c \in Cond, lthread_cond_broadcast(c) PROVE FreedOnes
  BY <1>38 DEF lthread_cond_broadcast, Call
<1>39. ASSUME NEW fd \in Fd, lthread_close(fd) PROVE FreedOnes
  BY <1>39 DEF lthread_close, Call
<1>40. ASSUME NEW lt \in Lthread, IoDone(lt) PROVE FreedOnes
  BY <1>40 DEF IoDone
<1>41. ASSUME NEW k \in Key, Arrive(k) PROVE FreedOnes
  BY <1>41 DEF Arrive, Loop
<1>42. ASSUME UNCHANGED vars PROVE FreedOnes
  BY <1>42 DEF vars
<1> QED
  BY <1>1, <1>2, <1>3, <1>4, <1>5, <1>6, <1>7, <1>8, <1>9, <1>10, <1>11, <1>12, <1>13,
     <1>14, <1>15, <1>16, <1>17, <1>18, <1>19, <1>20, <1>21, <1>22, <1>23, <1>24, <1>25,
     <1>26, <1>27, <1>28, <1>29, <1>30, <1>31, <1>32, <1>33, <1>34, <1>35, <1>36, <1>37,
     <1>38, <1>39, <1>40, <1>41, <1>42
  DEF Next, Resume, Loops, Returns, Yields, Calls, Outside, Stop

-----------------------------------------------------------------------------
(* The assertions of the scheduler and of the poller                       *)

(* An event in hand: until a waiter is found the loop has the CPU and the  *)
(* fd stays disarmed with its waiter; from then on nobody waits for the    *)
(* other direction.                                                        *)
EvOK ==
  /\ ev.fd = NoFd => ev = NoEv
  /\ ev.fd # NoFd /\ ~ev.hit =>
       /\ ctl = "loop" /\ epoll[ev.fd] = "off" /\ ev.next # "check"
       /\ \E w \in waiting : /\ fd_wait[w][1] = ev.fd
                             /\ ev.next = "WRITE" => fd_wait[w] = <<ev.fd, "WRITE">>
  /\ ev.fd # NoFd /\ ev.hit =>
       ev.next # "READ" /\ \A w \in waiting : fd_wait[w] # <<ev.fd, ev.next>>

(* Every waiter has a registration in the poller, an armed one if its      *)
(* event is not fetched, and every armed or fetched fd has its waiter.     *)
ArmedOK ==
  /\ \A l \in waiting : Waits(l) /\ epoll[fd_wait[l][1]] # "none"
  /\ \A l, m \in waiting : fd_wait[l][1] = fd_wait[m][1] => l = m
  /\ \A fd \in Fd : epoll[fd] \in Ev => \E w \in waiting : fd_wait[w] = <<fd, epoll[fd]>>
  /\ \A fd \in events : /\ epoll[fd] = "off" /\ fd # ev.fd
                        /\ \E w \in waiting : fd_wait[w][1] = fd

FdInv ==
  /\ ArmedOK /\ Heard /\ EvOK /\ NoAbort
  /\ phase # "events" => events = {} /\ ev = NoEv

(* A step that leaves the waits on fds alone keeps FdInv.                  *)
LEMMA FdFrame ==
  ASSUME FdInv, UNCHANGED <<waiting, epoll, events, ev>>,
         \A l \in waiting : fd_wait'[l] = fd_wait[l] /\ Waits(l)',
         phase' # "abort", phase = "events" => phase' = "events",
         ev.fd # NoFd /\ ~ev.hit => ctl' = "loop"
  PROVE  FdInv'
<1>1. ArmedOK'
  BY DEF FdInv, ArmedOK
<1>2. EvOK'
  BY DEF FdInv, EvOK
<1>3. Heard'
  BY DEF FdInv, Heard
<1> QED BY <1>1, <1>2, <1>3 DEF FdInv, NoAbort

(* What the types and the invariant say about waiters.                     *)
LEMMA WaiterFacts ==
  ASSUME IInv
  PROVE  \A l \in waiting : /\ l \in Lthread /\ pc[l] = "fd" /\ ~Active(l)
                            /\ fd_wait[l] \in Key /\ fd_wait[l] \in Fd \X AllEv
  BY KeyTypes DEF IInv, TypeOK, PlacesOK, FdOK


(* No handler breaks the registrations or fails an assertion, if the       *)
(* program keeps the contract.                                             *)
LEMMA FdNext ==
  ASSUME Unguarded = {}, IInv, FdInv, [Next]_vars
  PROVE  FdInv'
<1> USE ConstAssumption, WaiterFacts DEF NoEv, NoAbort, Active
<1>0. "none" \notin Ev /\ "off" \notin Ev
  BY DEF AllEv
<1>1. ASSUME ResumeCancelled PROVE FdInv'
  <2>1. UNCHANGED <<waiting, epoll, events, ev>> /\ phase' # "abort"
        /\ (phase = "events" => phase' = "events") /\ (ev.fd # NoFd /\ ~ev.hit => ctl' = "loop")
    BY <1>1 DEF FdInv, EvOK, ResumeCancelled, Bury, ToLoop, DeschedSt, DeschedFlags
  <2>2. \A l \in waiting : fd_wait'[l] = fd_wait[l] /\ Waits(l)'
    BY <1>1 DEF IInv, TypeOK, FlagsOK, FlagsOf, FdInv, ArmedOK, ResumeCancelled, Bury, ToLoop, DeschedSt, DeschedFlags
  <2> QED BY <2>1, <2>2, FdFrame
<1>2. ASSUME ResumeSwitch PROVE FdInv'
  <2>1. UNCHANGED <<waiting, epoll, events, ev>> /\ phase' # "abort"
        /\ (phase = "events" => phase' = "events") /\ (ev.fd # NoFd /\ ~ev.hit => ctl' = "loop")
    BY <1>2 DEF FdInv, EvOK, ResumeSwitch
  <2>2. \A l \in waiting : fd_wait'[l] = fd_wait[l] /\ Waits(l)'
    BY <1>2 DEF IInv, TypeOK, FlagsOK, FlagsOf, FdInv, ArmedOK, ResumeSwitch
  <2> QED BY <2>1, <2>2, FdFrame
<1>3. ASSUME ResumeExited PROVE FdInv'
  <2>1. UNCHANGED <<waiting, epoll, events, ev>> /\ phase' # "abort"
        /\ (phase = "events" => phase' = "events") /\ (ev.fd # NoFd /\ ~ev.hit => ctl' = "loop")
    BY <1>3 DEF FdInv, EvOK, ResumeExited, Bury, ToLoop, DeschedSt, DeschedFlags
  <2>2. \A l \in waiting : fd_wait'[l] = fd_wait[l] /\ Waits(l)'
    BY <1>3 DEF IInv, TypeOK, FlagsOK, FlagsOf, FdInv, ArmedOK, ResumeExited, Bury, ToLoop, DeschedSt, DeschedFlags
  <2> QED BY <2>1, <2>2, FdFrame
<1>4. ASSUME ResumeYielded PROVE FdInv'
  <2>1. UNCHANGED <<waiting, epoll, events, ev>> /\ phase' # "abort"
        /\ (phase = "events" => phase' = "events") /\ (ev.fd # NoFd /\ ~ev.hit => ctl' = "loop")
    BY <1>4 DEF FdInv, EvOK, ResumeYielded, ToLoop
  <2>2. \A l \in waiting : fd_wait'[l] = fd_wait[l] /\ Waits(l)'
    BY <1>4 DEF IInv, TypeOK, FlagsOK, FlagsOf, FdInv, ArmedOK, ResumeYielded, ToLoop
  <2> QED BY <2>1, <2>2, FdFrame
<1>5. ASSUME RunReturns PROVE FdInv'
  <2>1. UNCHANGED <<waiting, epoll, events, ev>> /\ phase' # "abort"
        /\ (phase = "events" => phase' = "events") /\ (ev.fd # NoFd /\ ~ev.hit => ctl' = "loop")
    BY <1>5 DEF FdInv, EvOK, RunReturns, Loop
  <2>2. \A l \in waiting : fd_wait'[l] = fd_wait[l] /\ Waits(l)'
    BY <1>5 DEF IInv, TypeOK, FlagsOK, FlagsOf, FdInv, ArmedOK, RunReturns, Loop
  <2> QED BY <2>1, <2>2, FdFrame
<1>6. ASSUME NEW D \in SUBSET sleeping, StartPass(D) PROVE FdInv'
  <2>1. UNCHANGED <<waiting, epoll, events, ev>> /\ phase' # "abort"
        /\ (phase = "events" => phase' = "events") /\ (ev.fd # NoFd /\ ~ev.hit => ctl' = "loop")
    BY <1>6 DEF FdInv, EvOK, StartPass, Loop
  <2>2. \A l \in waiting : fd_wait'[l] = fd_wait[l] /\ Waits(l)'
    BY <1>6 DEF IInv, TypeOK, FlagsOK, FlagsOf, FdInv, ArmedOK, StartPass, Loop
  <2> QED BY <2>1, <2>2, FdFrame
<1>7. ASSUME NEW lt \in Lthread, Expire(lt) PROVE FdInv'
  <2>1. /\ phase = "expired" /\ lt \in sleeping /\ ctl = "loop"
        /\ UNCHANGED <<events, ev>> /\ events = {} /\ ev = NoEv
    BY <1>7 DEF Expire, Loop, FdInv
  <2>2. pc[lt] = "fd" => lt \in waiting
    BY <2>1 DEF IInv, PlacesOK
  <2>3. EventFound(lt) = {lt} \cap waiting
    BY <2>2, FoundSelf DEF IInv
  <2>4. /\ waiting' = waiting \ {lt} /\ epoll' = ClearEpoll(lt)
        /\ fd_wait' = [fd_wait EXCEPT ![lt] = NoKey]
        /\ phase' = IF ClearFails(lt) THEN "abort" ELSE phase
    BY <1>7, <2>3 DEF Expire
  <2>5. Waits(lt) => lt \in waiting
    BY <2>2 DEF IInv, FlagsOK, FlagsOf
  <2>6. ~ClearFails(lt)
    BY <2>5 DEF ClearFails, FdInv, ArmedOK
  <2>7. \A l \in waiting' : /\ fd_wait'[l] = fd_wait[l] /\ Waits(l)' /\ l \in waiting /\ l # lt
                            /\ epoll'[fd_wait[l][1]] = epoll[fd_wait[l][1]]
    <3>1. \A l \in waiting' : l \in waiting /\ l # lt /\ fd_wait'[l] = fd_wait[l]
      BY <2>4 DEF IInv, TypeOK
    <3>2. \A l \in waiting' : Waits(l)'
      BY <1>7, <2>3, <3>1 DEF Expire, IInv, TypeOK, FdInv, ArmedOK, DeschedSt, DeschedFlags
    <3>3. \A l \in waiting' : epoll'[fd_wait[l][1]] = epoll[fd_wait[l][1]]
      BY <2>4, <2>5, <3>1 DEF IInv, TypeOK, FdInv, ArmedOK, ClearEpoll
    <3> QED BY <3>1, <3>2, <3>3
  <2>8. \A fd \in Fd : epoll'[fd] \in Ev => epoll'[fd] = epoll[fd] /\ ~(lt \in waiting /\ fd_wait[lt][1] = fd)
    <3>1. lt \in waiting => Waits(lt)
      BY DEF FdInv, ArmedOK
    <3>2. epoll' = IF lt \in waiting THEN [epoll EXCEPT ![fd_wait[lt][1]] = "none"] ELSE epoll
      BY <2>4, <2>5, <3>1 DEF ClearEpoll
    <3>3. lt \in waiting => fd_wait[lt][1] \in Fd
      OBVIOUS
    <3>4. \A fd \in Fd : epoll'[fd] = IF lt \in waiting /\ fd_wait[lt][1] = fd THEN "none" ELSE epoll[fd]
      BY <3>2, <3>3 DEF IInv, TypeOK
    <3> QED BY <1>0, <3>4
  <2>9. ArmedOK'
    <3>1. ArmedOK
      BY DEF FdInv
    <3>2. \A fd \in Fd : epoll'[fd] \in Ev => \E l \in waiting' : fd_wait'[l] = <<fd, epoll'[fd]>>
      <4> SUFFICES ASSUME NEW fd \in Fd, epoll'[fd] \in Ev
                   PROVE  \E l \in waiting' : fd_wait'[l] = <<fd, epoll'[fd]>>
        OBVIOUS
      <4>1. PICK l \in waiting : fd_wait[l] = <<fd, epoll[fd]>>
        BY <2>8, <3>1 DEF ArmedOK
      <4>2. l # lt
        BY <2>8, <4>1
      <4> QED BY <2>4, <2>7, <2>8, <4>1, <4>2
    <3> QED BY <2>1, <2>7, <3>1, <3>2 DEF ArmedOK
  <2>10. Heard'
    BY <2>1, <2>7 DEF FdInv, Heard
  <2> QED BY <2>1, <2>4, <2>6, <2>9, <2>10 DEF FdInv, EvOK
<1>8. ASSUME ExpireEnd PROVE FdInv'
  <2>1. UNCHANGED <<waiting, epoll, events, ev>> /\ phase' # "abort"
        /\ (phase = "events" => phase' = "events") /\ (ev.fd # NoFd /\ ~ev.hit => ctl' = "loop")
    BY <1>8 DEF FdInv, EvOK, ExpireEnd, Loop
  <2>2. \A l \in waiting : fd_wait'[l] = fd_wait[l] /\ Waits(l)'
    BY <1>8 DEF IInv, TypeOK, FlagsOK, FlagsOf, FdInv, ArmedOK, ExpireEnd, Loop
  <2> QED BY <2>1, <2>2, FdFrame
<1>9. ASSUME RunReady PROVE FdInv'
  <2>1. UNCHANGED <<waiting, epoll, events, ev>> /\ phase' # "abort"
        /\ (phase = "events" => phase' = "events") /\ (ev.fd # NoFd /\ ~ev.hit => ctl' = "loop")
    BY <1>9 DEF FdInv, EvOK, RunReady, Loop
  <2>2. \A l \in waiting : fd_wait'[l] = fd_wait[l] /\ Waits(l)'
    BY <1>9 DEF IInv, TypeOK, FlagsOK, FlagsOf, FdInv, ArmedOK, RunReady, Loop
  <2> QED BY <2>1, <2>2, FdFrame
<1>10. ASSUME ReadyEnd PROVE FdInv'
  <2>1. UNCHANGED <<waiting, epoll, events, ev>> /\ phase' # "abort"
        /\ (phase = "events" => phase' = "events") /\ (ev.fd # NoFd /\ ~ev.hit => ctl' = "loop")
    BY <1>10 DEF FdInv, EvOK, ReadyEnd, Loop
  <2>2. \A l \in waiting : fd_wait'[l] = fd_wait[l] /\ Waits(l)'
    BY <1>10 DEF IInv, TypeOK, FlagsOK, FlagsOf, FdInv, ArmedOK, ReadyEnd, Loop
  <2> QED BY <2>1, <2>2, FdFrame
<1>11. ASSUME RunDefer PROVE FdInv'
  <2>1. UNCHANGED <<waiting, epoll, events, ev>> /\ phase' # "abort"
        /\ (phase = "events" => phase' = "events") /\ (ev.fd # NoFd /\ ~ev.hit => ctl' = "loop")
    BY <1>11 DEF FdInv, EvOK, RunDefer, Loop
  <2>2. \A l \in waiting : fd_wait'[l] = fd_wait[l] /\ Waits(l)'
    BY <1>11 DEF IInv, TypeOK, FlagsOK, FlagsOf, FdInv, ArmedOK, RunDefer, Loop
  <2> QED BY <2>1, <2>2, FdFrame
<1>12. ASSUME DeferEnd PROVE FdInv'
  <2>1. UNCHANGED <<waiting, epoll, events, ev>> /\ phase' # "abort"
        /\ (phase = "events" => phase' = "events") /\ (ev.fd # NoFd /\ ~ev.hit => ctl' = "loop")
    BY <1>12 DEF FdInv, EvOK, DeferEnd, Loop
  <2>2. \A l \in waiting : fd_wait'[l] = fd_wait[l] /\ Waits(l)'
    BY <1>12 DEF IInv, TypeOK, FlagsOK, FlagsOf, FdInv, ArmedOK, DeferEnd, Loop
  <2> QED BY <2>1, <2>2, FdFrame
<1>13. ASSUME PollSkip PROVE FdInv'
  <2>1. UNCHANGED <<waiting, epoll, events, ev>> /\ phase' # "abort"
        /\ (phase = "events" => phase' = "events") /\ (ev.fd # NoFd /\ ~ev.hit => ctl' = "loop")
    BY <1>13 DEF FdInv, EvOK, PollSkip, Loop
  <2>2. \A l \in waiting : fd_wait'[l] = fd_wait[l] /\ Waits(l)'
    BY <1>13 DEF IInv, TypeOK, FlagsOK, FlagsOf, FdInv, ArmedOK, PollSkip, Loop
  <2> QED BY <2>1, <2>2, FdFrame
<1>14. ASSUME Poll PROVE FdInv'
  <2>1. /\ phase' = "events" /\ events' = Fired /\ ev' = ev /\ ev = NoEv
        /\ epoll' = [fd \in Fd |-> IF fd \in Fired THEN "off" ELSE epoll[fd]]
        /\ UNCHANGED <<st, fd_wait, waiting, ctl>>
    BY <1>14 DEF Poll, Loop, FdInv
  <2>2. \A fd \in Fired : fd \in Fd /\ \E l \in waiting : fd_wait[l] = <<fd, epoll[fd]>>
    BY DEF Fired, FdInv, ArmedOK
  <2>3. \A l \in waiting : fd_wait[l][1] \in Fd /\ epoll'[fd_wait[l][1]] # "none"
    BY <2>1 DEF FdInv, ArmedOK
  <2>4. \A fd \in Fd : epoll'[fd] \in Ev => epoll'[fd] = epoll[fd]
    BY <2>1 DEF AllEv
  <2>5. \A fd \in events' : fd \in Fd /\ epoll'[fd] = "off" /\ fd # ev'.fd /\ \E l \in waiting : fd_wait[l][1] = fd
    <3> SUFFICES ASSUME NEW fd \in Fired
                 PROVE  fd \in Fd /\ epoll'[fd] = "off" /\ fd # NoFd /\ \E l \in waiting : fd_wait[l][1] = fd
      BY <2>1
    <3>1. PICK l \in waiting : fd_wait[l] = <<fd, epoll[fd]>>
      BY <2>2
    <3>2. fd_wait[l][1] = fd
      BY <3>1
    <3> QED BY <2>1, <2>2, <3>2
  <2>6. ArmedOK'
    BY <2>1, <2>3, <2>4, <2>5 DEF FdInv, ArmedOK
  <2>7. Heard'
    <3> SUFFICES ASSUME NEW l \in waiting
                 PROVE  epoll'[fd_wait[l][1]] = fd_wait[l][2] \/ fd_wait[l][1] \in events'
      BY <2>1 DEF Heard
    <3>1. fd_wait[l][1] \in Fd /\ epoll[fd_wait[l][1]] = fd_wait[l][2]
      BY <1>14, <2>1 DEF FdInv, Heard, Poll, Loop
    <3> QED BY <2>1, <3>1
  <2> QED BY <2>1, <2>6, <2>7 DEF FdInv, EvOK
<1>15. ASSUME NEW fd \in Fd, NEW eof \in BOOLEAN, TakeEvent(fd, eof) PROVE FdInv'
  <2>1. /\ fd \in events /\ ev = NoEv /\ events' = events \ {fd} /\ ctl = "loop" /\ phase = "events"
        /\ ev' = [fd |-> fd, next |-> "READ", hit |-> FALSE, eof |-> eof]
        /\ UNCHANGED <<st, fd_wait, waiting, epoll, phase, ctl>>
    BY <1>15 DEF TakeEvent, Loop
  <2>2. ArmedOK'
    BY <2>1 DEF FdInv, ArmedOK
  <2>3. EvOK'
    BY <2>1 DEF FdInv, ArmedOK, EvOK
  <2>4. Heard'
    BY <2>1 DEF FdInv, Heard
  <2> QED BY <2>1, <2>2, <2>3, <2>4 DEF FdInv
<1>16. ASSUME HandleEv PROVE FdInv'
  <2> DEFINE W == WaitersOf(<<ev.fd, ev.next>>)
  <2>1. /\ ctl = "loop" /\ phase = "events" /\ ev.fd # NoFd /\ ev.next \in {"READ", "WRITE"}
        /\ UNCHANGED <<fd_wait, epoll, events, phase>>
    BY <1>16 DEF HandleEv, Loop, IInv, TypeOK
  <2>2. ev.fd \in Fd /\ ev \in [fd : Fd \cup {NoFd}, next : {"READ", "WRITE", "check"},
                                 hit : BOOLEAN, eof : BOOLEAN]
    BY <2>1 DEF IInv, TypeOK
  <2>3. CASE W = {}
    <3>1. ev' = [ev EXCEPT !.next = After(@)] /\ UNCHANGED <<st, waiting, ctl>>
      BY <1>16, <2>3 DEF HandleEv
    <3>2. ev'.fd = ev.fd /\ ev'.hit = ev.hit /\ ev'.next = After(ev.next)
      BY <2>2, <3>1
    <3>3. ArmedOK'
      BY <2>1, <3>1, <3>2 DEF FdInv, ArmedOK
    <3>4. \A l \in waiting : fd_wait[l] # <<ev.fd, ev.next>>
      BY <2>3 DEF WaitersOf
    <3>5. EvOK'
      <4>1. CASE ev.hit
        <5>1. ev.next = "WRITE" /\ ev'.next = "check"
          BY <2>1, <3>2, <4>1 DEF FdInv, EvOK, After
        <5>2. \A l \in waiting : fd_wait[l] # <<ev.fd, "check">>
          BY DEF AllEv
        <5> QED BY <2>1, <3>1, <3>2, <4>1, <5>1, <5>2 DEF EvOK
      <4>2. CASE ~ev.hit
        <5>1. PICK l \in waiting : /\ fd_wait[l][1] = ev.fd
                                   /\ ev.next = "WRITE" => fd_wait[l] = <<ev.fd, "WRITE">>
          BY <2>1, <4>2 DEF FdInv, EvOK
        <5>2. ev.next = "READ" /\ ev'.next = "WRITE"
          <6>1. ev.next # "WRITE"
            BY <3>4, <5>1, Zenon
          <6> QED BY <2>1, <3>2, <6>1 DEF After
        <5>3. fd_wait[l] = <<ev.fd, "WRITE">>
          <6>1. PICK f \in Fd, e \in AllEv : fd_wait[l] = <<f, e>>
            BY <5>1
          <6>2. f = ev.fd /\ (e = "READ" \/ e = "WRITE")
            BY <5>1, <6>1 DEF AllEv
          <6>3. e # "READ"
            BY <3>4, <5>1, <5>2, <6>1, <6>2
          <6> QED BY <6>1, <6>2, <6>3
        <5> QED BY <2>1, <3>1, <3>2, <4>2, <5>2, <5>3 DEF FdInv, EvOK
      <4> QED BY <4>1, <4>2
    <3>6. Heard'
      BY <2>1, <3>1, <3>2 DEF FdInv, Heard
    <3> QED BY <2>1, <3>1, <3>3, <3>5, <3>6 DEF FdInv
  <2>4. CASE W # {}
    <3>1. PICK l \in W : /\ waiting' = waiting \ {l}
                         /\ st' = [st EXCEPT ![l] = DeschedFlags(@) \cup (IF ev.eof THEN {"FDEOF"} ELSE {})]
                         /\ ev' = [ev EXCEPT !.next = After(@), !.hit = TRUE]
      BY <1>16, <2>4 DEF HandleEv
    <3>2. l \in waiting /\ fd_wait[l] = <<ev.fd, ev.next>> /\ fd_wait[l][1] = ev.fd
      BY DEF WaitersOf
    <3>3. ~ev.hit /\ epoll[ev.fd] = "off"
      BY <2>1, <3>2 DEF FdInv, EvOK
    <3>4. \A m \in waiting' : m \in waiting /\ m # l /\ fd_wait[m][1] # ev.fd /\ Waits(m)'
      BY <3>1, <3>2 DEF IInv, TypeOK, FdInv, ArmedOK
    <3>5. ev'.fd = ev.fd /\ ev'.hit = TRUE /\ ev'.next = After(ev.next)
      BY <2>2, <3>1
    <3> HIDE DEF W
    <3>6. ArmedOK'
      <4>1. \A fd \in Fd : epoll[fd] \in Ev => \E m \in waiting' : fd_wait[m] = <<fd, epoll[fd]>>
        <5> SUFFICES ASSUME NEW fd \in Fd, epoll[fd] \in Ev
                     PROVE  \E m \in waiting' : fd_wait[m] = <<fd, epoll[fd]>>
          OBVIOUS
        <5>1. PICK m \in waiting : fd_wait[m] = <<fd, epoll[fd]>>
          BY DEF FdInv, ArmedOK
        <5>2. m # l
          BY <3>2, <3>3, <5>1 DEF AllEv
        <5> QED BY <3>1, <5>1, <5>2
      <4>2. \A fd \in events : \E m \in waiting' : fd_wait[m][1] = fd
        BY <3>1, <3>2 DEF FdInv, ArmedOK
      <4> QED BY <2>1, <3>4, <3>5, <4>1, <4>2 DEF FdInv, ArmedOK
    <3>7. EvOK'
      BY <2>1, <3>4, <3>5 DEF EvOK, After
    <3>8. Heard'
      BY <2>1, <3>4 DEF FdInv, Heard
    <3> QED BY <2>1, <3>6, <3>7, <3>8 DEF FdInv
  <2> QED BY <2>3, <2>4
<1>17. ASSUME EvChecked PROVE FdInv'
  <2>1. ctl = "loop" /\ phase = "events" /\ ev.next = "check"
        /\ phase' = (IF ev.hit THEN phase ELSE "abort") /\ ev' = NoEv
        /\ UNCHANGED <<st, waiting, fd_wait, epoll, events, ctl>>
    BY <1>17 DEF EvChecked, Loop
  <2>2. ev.fd # NoFd /\ ev.hit
    BY <2>1 DEF FdInv, EvOK
  <2>3. ArmedOK'
    BY <2>1 DEF IInv, TypeOK, FdInv, ArmedOK
  <2>4. Heard'
    BY <2>1, <2>2 DEF FdInv, Heard
  <2> QED BY <2>1, <2>2, <2>3, <2>4 DEF FdInv, EvOK
<1>18. ASSUME EventsEnd PROVE FdInv'
  <2>1. ev = NoEv /\ events = {} /\ phase' = "head"
        /\ UNCHANGED <<st, waiting, fd_wait, epoll, events, ev, ctl>>
    BY <1>18 DEF EventsEnd, Loop
  <2> QED BY <2>1 DEF FdInv, ArmedOK, Heard, EvOK
<1>19. ASSUME SleepReturns PROVE FdInv'
  <2>1. UNCHANGED <<waiting, epoll, events, ev>> /\ phase' # "abort"
        /\ (phase = "events" => phase' = "events") /\ (ev.fd # NoFd /\ ~ev.hit => ctl' = "loop")
    BY <1>19 DEF FdInv, EvOK, SleepReturns, Back
  <2>2. \A l \in waiting : fd_wait'[l] = fd_wait[l] /\ Waits(l)'
    BY <1>19 DEF IInv, TypeOK, FlagsOK, FlagsOf, FdInv, ArmedOK, SleepReturns, Back
  <2> QED BY <2>1, <2>2, FdFrame
<1>20. ASSUME CondWaitReturns PROVE FdInv'
  <2>1. UNCHANGED <<waiting, epoll, events, ev>> /\ phase' # "abort"
        /\ (phase = "events" => phase' = "events") /\ (ev.fd # NoFd /\ ~ev.hit => ctl' = "loop")
    BY <1>20 DEF FdInv, EvOK, CondWaitReturns, Back, Unbusy
  <2>2. \A l \in waiting : fd_wait'[l] = fd_wait[l] /\ Waits(l)'
    BY <1>20 DEF IInv, TypeOK, FlagsOK, FlagsOf, FdInv, ArmedOK, CondWaitReturns, Back, Unbusy
  <2> QED BY <2>1, <2>2, FdFrame
<1>21. ASSUME JoinReturns PROVE FdInv'
  <2>1. UNCHANGED <<waiting, epoll, events, ev>> /\ phase' # "abort"
        /\ (phase = "events" => phase' = "events") /\ (ev.fd # NoFd /\ ~ev.hit => ctl' = "loop")
    BY <1>21 DEF FdInv, EvOK, JoinReturns, Back, Unbusy
  <2>2. \A l \in waiting : fd_wait'[l] = fd_wait[l] /\ Waits(l)'
    BY <1>21 DEF IInv, TypeOK, FlagsOK, FlagsOf, FdInv, ArmedOK, JoinReturns, Back, Unbusy
  <2> QED BY <2>1, <2>2, FdFrame
<1>22. ASSUME FdReturns PROVE FdInv'
  <2>1. UNCHANGED <<waiting, epoll, events, ev>> /\ phase' # "abort"
        /\ (phase = "events" => phase' = "events") /\ (ev.fd # NoFd /\ ~ev.hit => ctl' = "loop")
    BY <1>22 DEF FdInv, EvOK, FdReturns, Back
  <2>2. \A l \in waiting : fd_wait'[l] = fd_wait[l] /\ Waits(l)'
    BY <1>22 DEF IInv, TypeOK, FlagsOK, FlagsOf, FdInv, ArmedOK, FdReturns, Back
  <2> QED BY <2>1, <2>2, FdFrame
<1>23. ASSUME IoReturns PROVE FdInv'
  <2>1. UNCHANGED <<waiting, epoll, events, ev>> /\ phase' # "abort"
        /\ (phase = "events" => phase' = "events") /\ (ev.fd # NoFd /\ ~ev.hit => ctl' = "loop")
    BY <1>23 DEF FdInv, EvOK, IoReturns, Back
  <2>2. \A l \in waiting : fd_wait'[l] = fd_wait[l] /\ Waits(l)'
    BY <1>23 DEF IInv, TypeOK, FlagsOK, FlagsOf, FdInv, ArmedOK, IoReturns, Back
  <2> QED BY <2>1, <2>2, FdFrame
<1>24. ASSUME lthread_exit PROVE FdInv'
  <2>1. UNCHANGED <<waiting, epoll, events, ev>> /\ phase' # "abort"
        /\ (phase = "events" => phase' = "events") /\ (ev.fd # NoFd /\ ~ev.hit => ctl' = "loop")
    BY <1>24 DEF FdInv, EvOK, lthread_exit, Yield
  <2>2. \A l \in waiting : fd_wait'[l] = fd_wait[l] /\ Waits(l)'
    BY <1>24 DEF IInv, TypeOK, FlagsOK, FlagsOf, FdInv, ArmedOK, lthread_exit, Yield
  <2> QED BY <2>1, <2>2, FdFrame
<1>25. ASSUME lthread_sleep PROVE FdInv'
  <2>1. UNCHANGED <<waiting, epoll, events, ev>> /\ phase' # "abort"
        /\ (phase = "events" => phase' = "events") /\ (ev.fd # NoFd /\ ~ev.hit => ctl' = "loop")
    BY <1>25 DEF FdInv, EvOK, lthread_sleep, Call, Yield, SleepFlags
  <2>2. \A l \in waiting : fd_wait'[l] = fd_wait[l] /\ Waits(l)'
    BY <1>25 DEF IInv, TypeOK, FlagsOK, FlagsOf, FdInv, ArmedOK, lthread_sleep, Call, Yield, SleepFlags
  <2> QED BY <2>1, <2>2, FdFrame
<1>26. ASSUME lthread_sleep0 PROVE FdInv'
  <2>1. UNCHANGED <<waiting, epoll, events, ev>> /\ phase' # "abort"
        /\ (phase = "events" => phase' = "events") /\ (ev.fd # NoFd /\ ~ev.hit => ctl' = "loop")
    BY <1>26 DEF FdInv, EvOK, lthread_sleep0, Call, Yield
  <2>2. \A l \in waiting : fd_wait'[l] = fd_wait[l] /\ Waits(l)'
    BY <1>26 DEF IInv, TypeOK, FlagsOK, FlagsOf, FdInv, ArmedOK, lthread_sleep0, Call, Yield
  <2> QED BY <2>1, <2>2, FdFrame
<1>27. ASSUME lthread_io PROVE FdInv'
  <2>1. UNCHANGED <<waiting, epoll, events, ev>> /\ phase' # "abort"
        /\ (phase = "events" => phase' = "events") /\ (ev.fd # NoFd /\ ~ev.hit => ctl' = "loop")
    BY <1>27 DEF FdInv, EvOK, lthread_io, Call, Yield
  <2>2. \A l \in waiting : fd_wait'[l] = fd_wait[l] /\ Waits(l)'
    BY <1>27 DEF IInv, TypeOK, FlagsOK, FlagsOf, FdInv, ArmedOK, lthread_io, Call, Yield
  <2> QED BY <2>1, <2>2, FdFrame
<1>28. ASSUME NEW c \in Cond, NEW timed \in BOOLEAN, lthread_cond_wait(c, timed) PROVE FdInv'
  <2>1. UNCHANGED <<waiting, epoll, events, ev>> /\ phase' # "abort"
        /\ (phase = "events" => phase' = "events") /\ (ev.fd # NoFd /\ ~ev.hit => ctl' = "loop")
    BY <1>28 DEF FdInv, EvOK, lthread_cond_wait, Call, BusySleep, Yield, SleepFlags
  <2>2. \A l \in waiting : fd_wait'[l] = fd_wait[l] /\ Waits(l)'
    BY <1>28 DEF IInv, TypeOK, FlagsOK, FlagsOf, FdInv, ArmedOK, lthread_cond_wait, Call, BusySleep, Yield, SleepFlags
  <2> QED BY <2>1, <2>2, FdFrame
<1>29. ASSUME NEW t \in Lthread, NEW timed \in BOOLEAN, lthread_join(t, timed) PROVE FdInv'
  <2>1. UNCHANGED <<waiting, epoll, events, ev>> /\ phase' # "abort"
        /\ (phase = "events" => phase' = "events") /\ (ev.fd # NoFd /\ ~ev.hit => ctl' = "loop")
    BY <1>29 DEF FdInv, EvOK, lthread_join, Call, BusySleep, Yield, SleepFlags
  <2>2. \A l \in waiting : fd_wait'[l] = fd_wait[l] /\ Waits(l)'
    BY <1>29 DEF IInv, TypeOK, FlagsOK, FlagsOf, FdInv, ArmedOK, lthread_join, Call, BusySleep, Yield, SleepFlags
  <2> QED BY <2>1, <2>2, FdFrame
<1>30. ASSUME NEW fd \in Fd, NEW e \in Ev, NEW timed \in BOOLEAN, lthread_wait(fd, e, timed) PROVE FdInv'
  <2>1. /\ ctl = "run" /\ pc[cur] = "user" /\ cur \in Lthread
        /\ \A l \in waiting : fd_wait[l][1] # fd
        /\ <<fd, e>> # <<ev.fd, ev.next>>
        /\ epoll' = [epoll EXCEPT ![fd] = e] /\ UNCHANGED <<events, ev>>
    BY <1>30 DEF lthread_wait, Call, MayWaitFd, Waived, IInv, TypeOK
  <2>2. ~Waits(cur) /\ WaitersOf(<<fd, e>>) = {} /\ cur \notin waiting
    BY <2>1 DEF IInv, FlagsOK, FlagsOf, WaitersOf
  <2>3. /\ st' = [st EXCEPT ![cur] = @ \cup {WaitFlag(e)} \cup SleepFlags(timed)]
        /\ fd_wait' = [fd_wait EXCEPT ![cur] = <<fd, e>>]
        /\ waiting' = waiting \cup {cur} /\ phase' = phase /\ cur' = cur
    <3>1. ~(Waits(cur) \/ WaitersOf(<<fd, e>>) # {})
      BY <2>2
    <3> QED BY <1>30, <3>1, Zenon DEF lthread_wait, Yield
  <2>4. Waits(cur)' /\ \A l \in waiting : Waits(l)' /\ l # cur /\ fd_wait'[l] = fd_wait[l]
    <3>1. \A l \in waiting : Waits(l) /\ l # cur /\ l \in Lthread
      BY <2>2 DEF FdInv, ArmedOK
    <3>2. st'[cur] = st[cur] \cup {WaitFlag(e)} \cup SleepFlags(timed)
      BY <2>1, <2>3 DEF IInv, TypeOK
    <3>3. \A l \in waiting : st'[l] = st[l] /\ fd_wait'[l] = fd_wait[l]
      BY <2>3, <3>1 DEF IInv, TypeOK
    <3> QED BY <2>3, <3>1, <3>2, <3>3 DEF WaitFlag
  <2>5. fd_wait'[cur] = <<fd, e>> /\ fd_wait'[cur][1] = fd
    BY <2>1, <2>3 DEF IInv, TypeOK
  <2>6. \A f \in Fd : epoll'[f] = IF f = fd THEN e ELSE epoll[f]
    BY <2>1 DEF IInv, TypeOK
  <2>7. fd \notin events
    BY <2>1 DEF FdInv, ArmedOK
  <2>8. ev.fd # NoFd => ev.hit
    BY <2>1 DEF FdInv, EvOK
  <2>9. ArmedOK'
    <3>1. \A l \in waiting' : Waits(l)' /\ epoll'[fd_wait'[l][1]] # "none"
      <4>1. \A l \in waiting : epoll'[fd_wait'[l][1]] = epoll[fd_wait[l][1]]
        BY <2>1, <2>4, <2>6
      <4>2. epoll'[fd_wait'[cur][1]] # "none"
        BY <1>0, <2>5, <2>6
      <4>3. \A l \in waiting : epoll[fd_wait[l][1]] # "none"
        BY DEF FdInv, ArmedOK
      <4> QED BY <2>3, <2>4, <4>1, <4>2, <4>3
    <3>2. \A l, m \in waiting' : fd_wait'[l][1] = fd_wait'[m][1] => l = m
      BY <2>1, <2>3, <2>4, <2>5 DEF FdInv, ArmedOK
    <3>3. \A f \in Fd : epoll'[f] \in Ev => \E l \in waiting' : fd_wait'[l] = <<f, epoll'[f]>>
      BY <2>3, <2>4, <2>5, <2>6 DEF FdInv, ArmedOK
    <3>4. \A f \in events : /\ epoll'[f] = "off" /\ f # ev.fd
                            /\ \E l \in waiting' : fd_wait'[l][1] = f
      BY <2>3, <2>4, <2>6, <2>7 DEF IInv, TypeOK, FdInv, ArmedOK
    <3> QED BY <2>1, <3>1, <3>2, <3>3, <3>4 DEF ArmedOK
  <2>10. EvOK'
    BY <2>1, <2>3, <2>4, <2>5, <2>8 DEF FdInv, EvOK
  <2>11. Heard'
    <3>1. epoll'[fd_wait'[cur][1]] = fd_wait'[cur][2]
      BY <2>5, <2>6
    <3>2. \A l \in waiting : epoll'[fd_wait'[l][1]] = epoll[fd_wait[l][1]]
      BY <2>1, <2>4, <2>6
    <3> QED BY <2>1, <2>3, <2>4, <3>1, <3>2 DEF FdInv, Heard
  <2> QED BY <2>1, <2>3, <2>9, <2>10, <2>11 DEF FdInv
<1>31. ASSUME lthread_detach PROVE FdInv'
  <2>1. UNCHANGED <<waiting, epoll, events, ev>> /\ phase' # "abort"
        /\ (phase = "events" => phase' = "events") /\ (ev.fd # NoFd /\ ~ev.hit => ctl' = "loop")
    BY <1>31 DEF FdInv, EvOK, lthread_detach, Call
  <2>2. \A l \in waiting : fd_wait'[l] = fd_wait[l] /\ Waits(l)'
    BY <1>31 DEF IInv, TypeOK, FlagsOK, FlagsOf, FdInv, ArmedOK, lthread_detach, Call
  <2> QED BY <2>1, <2>2, FdFrame
<1>32. ASSUME NEW t \in Lthread, lthread_create(t) PROVE FdInv'
  <2>1. UNCHANGED <<waiting, epoll, events, ev>> /\ phase' # "abort"
        /\ (phase = "events" => phase' = "events") /\ (ev.fd # NoFd /\ ~ev.hit => ctl' = "loop")
    BY <1>32 DEF FdInv, EvOK, lthread_create, Call
  <2>2. \A l \in waiting : fd_wait'[l] = fd_wait[l] /\ Waits(l)'
    BY <1>32 DEF IInv, TypeOK, FlagsOK, FlagsOf, FdInv, ArmedOK, lthread_create, Call
  <2> QED BY <2>1, <2>2, FdFrame
<1>33. ASSUME NEW t \in Lthread, lthread_detach2(t) PROVE FdInv'
  <2>1. UNCHANGED <<waiting, epoll, events, ev>> /\ phase' # "abort"
        /\ (phase = "events" => phase' = "events") /\ (ev.fd # NoFd /\ ~ev.hit => ctl' = "loop")
    BY <1>33 DEF FdInv, EvOK, lthread_detach2, Call
  <2>2. \A l \in waiting : fd_wait'[l] = fd_wait[l] /\ Waits(l)'
    BY <1>33 DEF IInv, TypeOK, FlagsOK, FlagsOf, FdInv, ArmedOK, lthread_detach2, Call
  <2> QED BY <2>1, <2>2, FdFrame
<1>34. ASSUME NEW t \in Lthread, lthread_wakeup(t) PROVE FdInv'
  <2>1. /\ UNCHANGED <<waiting, epoll, events, ev, fd_wait, phase, ctl>> /\ ctl = "run"
        /\ st' = st \/ st' = DeschedSt({t})
    BY <1>34 DEF lthread_wakeup, Call
  <2>2. \A l \in waiting : st'[l] = st[l] \/ st'[l] = DeschedFlags(st[l])
    BY <2>1 DEF DeschedSt
  <2>3. \A l \in waiting : Waits(l)'
    <3> SUFFICES ASSUME NEW l \in waiting PROVE Waits(l)'
      OBVIOUS
    <3>1. "WAIT_READ" \in st[l] \/ "WAIT_WRITE" \in st[l]
      BY DEF FdInv, ArmedOK
    <3>2. st[l] \ {"SLEEPING", "EXPIRED"} \subseteq st'[l]
      BY <2>2 DEF DeschedFlags
    <3> QED BY <3>1, <3>2
  <2> QED BY <2>1, <2>3, FdFrame DEF FdInv, EvOK
<1>35. ASSUME NEW t \in Lthread, lthread_join_exited(t) PROVE FdInv'
  <2>1. UNCHANGED <<waiting, epoll, events, ev>> /\ phase' # "abort"
        /\ (phase = "events" => phase' = "events") /\ (ev.fd # NoFd /\ ~ev.hit => ctl' = "loop")
    BY <1>35 DEF FdInv, EvOK, lthread_join_exited, Call
  <2>2. \A l \in waiting : fd_wait'[l] = fd_wait[l] /\ Waits(l)'
    BY <1>35 DEF IInv, TypeOK, FlagsOK, FlagsOf, FdInv, ArmedOK, lthread_join_exited, Call
  <2> QED BY <2>1, <2>2, FdFrame
<1>36. ASSUME NEW t \in Lthread, lthread_cancel(t) PROVE FdInv'
  <2>1. /\ ctl = "run" /\ t # cur /\ Parked(t) /\ fd_wait[t][1] \notin events
        /\ UNCHANGED <<events, ev, ctl>>
    BY <1>36 DEF lthread_cancel, Call, MayCancel, Waived
  <2>2. pc[t] = "fd" => t \in waiting
    BY <2>1 DEF Parked, IInv, PlacesOK
  <2>3. EventFound(t) = {t} \cap waiting
    BY <2>2, FoundSelf DEF IInv
  <2>4. /\ waiting' = waiting \ {t} /\ epoll' = ClearEpoll(t)
        /\ fd_wait' = [fd_wait EXCEPT ![t] = NoKey]
        /\ phase' = IF ClearFails(t) THEN "abort" ELSE phase
    BY <1>36, <2>3 DEF lthread_cancel
  <2>5. Waits(t) <=> t \in waiting
    BY <2>2 DEF IInv, FlagsOK, FlagsOf, FdInv, ArmedOK
  <2>6. ~ClearFails(t)
    BY <2>5 DEF ClearFails, FdInv, ArmedOK
  <2>7. \A l \in waiting' : /\ fd_wait'[l] = fd_wait[l] /\ Waits(l)' /\ l \in waiting /\ l # t
                            /\ epoll'[fd_wait[l][1]] = epoll[fd_wait[l][1]]
    <3>1. \A l \in waiting' : l \in waiting /\ l # t /\ fd_wait'[l] = fd_wait[l]
      BY <2>4 DEF IInv, TypeOK
    <3>2. \A l \in waiting' : Waits(l)'
      BY <1>36, <2>3, <3>1 DEF lthread_cancel, IInv, TypeOK, FdInv, ArmedOK, DeschedSt, DeschedFlags
    <3>3. \A l \in waiting' : epoll'[fd_wait[l][1]] = epoll[fd_wait[l][1]]
      BY <2>4, <2>5, <3>1 DEF IInv, TypeOK, FdInv, ArmedOK, ClearEpoll
    <3> QED BY <3>1, <3>2, <3>3
  <2>8. \A fd \in Fd : /\ epoll'[fd] \in Ev => epoll'[fd] = epoll[fd] /\ ~(t \in waiting /\ fd_wait[t][1] = fd)
                       /\ ~(t \in waiting /\ fd_wait[t][1] = fd) => epoll'[fd] = epoll[fd]
    <3>1. epoll' = IF t \in waiting THEN [epoll EXCEPT ![fd_wait[t][1]] = "none"] ELSE epoll
      BY <2>4, <2>5 DEF ClearEpoll
    <3>2. t \in waiting => fd_wait[t][1] \in Fd
      OBVIOUS
    <3>3. \A fd \in Fd : epoll'[fd] = IF t \in waiting /\ fd_wait[t][1] = fd THEN "none" ELSE epoll[fd]
      BY <3>1, <3>2 DEF IInv, TypeOK
    <3> QED BY <1>0, <3>3
  <2>9. ev.fd # NoFd => ev.hit
    BY <2>1 DEF FdInv, EvOK
  <2>10. ArmedOK'
    <3>1. \A fd \in Fd : epoll'[fd] \in Ev => \E l \in waiting' : fd_wait'[l] = <<fd, epoll'[fd]>>
      <4> SUFFICES ASSUME NEW fd \in Fd, epoll'[fd] \in Ev
                   PROVE  \E l \in waiting' : fd_wait'[l] = <<fd, epoll'[fd]>>
        OBVIOUS
      <4>0. epoll'[fd] = epoll[fd] /\ ~(t \in waiting /\ fd_wait[t][1] = fd)
        BY <2>8
      <4>1. PICK l \in waiting : fd_wait[l] = <<fd, epoll[fd]>>
        BY <4>0 DEF FdInv, ArmedOK
      <4>2. l # t
        BY <4>0, <4>1
      <4> QED BY <2>4, <2>7, <4>0, <4>1, <4>2
    <3>2. \A fd \in events : /\ epoll'[fd] = "off" /\ fd # ev.fd
                             /\ \E l \in waiting' : fd_wait'[l][1] = fd
      BY <2>1, <2>4, <2>7, <2>8 DEF IInv, TypeOK, FdInv, ArmedOK
    <3> QED BY <2>1, <2>7, <3>1, <3>2 DEF FdInv, ArmedOK
  <2>11. EvOK'
    BY <2>1, <2>7, <2>9 DEF FdInv, EvOK
  <2>12. Heard'
    BY <2>1, <2>7 DEF FdInv, Heard
  <2> QED BY <2>1, <2>4, <2>6, <2>10, <2>11, <2>12 DEF FdInv
<1>37. ASSUME NEW c \in Cond, lthread_cond_signal(c) PROVE FdInv'
  <2>1. UNCHANGED <<waiting, epoll, events, ev>> /\ phase' # "abort"
        /\ (phase = "events" => phase' = "events") /\ (ev.fd # NoFd /\ ~ev.hit => ctl' = "loop")
    BY <1>37 DEF FdInv, EvOK, lthread_cond_signal, Call, DeschedSt, DeschedFlags
  <2>2. \A l \in waiting : fd_wait'[l] = fd_wait[l] /\ Waits(l)'
    BY <1>37 DEF IInv, TypeOK, FlagsOK, FlagsOf, FdInv, ArmedOK, lthread_cond_signal, Call, DeschedSt, DeschedFlags
  <2> QED BY <2>1, <2>2, FdFrame
<1>38. ASSUME NEW c \in Cond, lthread_cond_broadcast(c) PROVE FdInv'
  <2>1. UNCHANGED <<waiting, epoll, events, ev>> /\ phase' # "abort"
        /\ (phase = "events" => phase' = "events") /\ (ev.fd # NoFd /\ ~ev.hit => ctl' = "loop")
    BY <1>38 DEF FdInv, EvOK, lthread_cond_broadcast, Call, DeschedSt, DeschedFlags
  <2>2. \A l \in waiting : fd_wait'[l] = fd_wait[l] /\ Waits(l)'
    BY <1>38 DEF IInv, TypeOK, FlagsOK, FlagsOf, FdInv, ArmedOK, lthread_cond_broadcast, Call, DeschedSt, DeschedFlags
  <2> QED BY <2>1, <2>2, FdFrame
<1>39. ASSUME NEW fd \in Fd, lthread_close(fd) PROVE FdInv'
  <2>1. ctl = "run" /\ fd \notin events /\ UNCHANGED <<fd_wait, events, ev, phase, ctl>>
        /\ epoll' = [epoll EXCEPT ![fd] = "none"]
    BY <1>39 DEF lthread_close, Call, MayClose, Waived
  <2>2. waiting' = {l \in waiting : fd_wait[l][1] # fd}
    BY <1>39 DEF lthread_close, WaitersOf, AllEv
  <2>3. \A l \in waiting' : Waits(l)'
    <3>1. \A l \in waiting' : l \in waiting /\ l \notin WaitersOf(<<fd, "READ">>) \cup WaitersOf(<<fd, "WRITE">>)
      BY <2>2 DEF WaitersOf
    <3> QED BY <1>39, <3>1 DEF lthread_close, IInv, TypeOK, FdInv, ArmedOK
  <2>4. \A f \in Fd : epoll'[f] = IF f = fd THEN "none" ELSE epoll[f]
    BY <2>1 DEF IInv, TypeOK
  <2>5. ev.fd # NoFd => ev.hit
    BY <2>1 DEF FdInv, EvOK
  <2>6. ArmedOK'
    <3>1. \A f \in Fd : epoll'[f] \in Ev => \E l \in waiting' : fd_wait'[l] = <<f, epoll'[f]>>
      <4> SUFFICES ASSUME NEW f \in Fd, epoll'[f] \in Ev
                   PROVE  \E l \in waiting' : fd_wait'[l] = <<f, epoll'[f]>>
        OBVIOUS
      <4>1. f # fd /\ epoll'[f] = epoll[f]
        BY <2>4 DEF AllEv
      <4>2. PICK l \in waiting : fd_wait[l] = <<f, epoll[f]>>
        BY <4>1 DEF FdInv, ArmedOK
      <4> QED BY <2>1, <2>2, <4>1, <4>2
    <3>2. \A f \in events : /\ epoll'[f] = "off" /\ f # ev.fd
                            /\ \E l \in waiting' : fd_wait'[l][1] = f
      BY <2>1, <2>2, <2>4 DEF IInv, TypeOK, FdInv, ArmedOK
    <3> QED BY <2>1, <2>2, <2>3, <2>4, <3>1, <3>2 DEF FdInv, ArmedOK
  <2>7. EvOK'
    BY <2>1, <2>2, <2>5 DEF FdInv, EvOK
  <2>8. Heard'
    BY <2>1, <2>2, <2>4 DEF FdInv, Heard
  <2> QED BY <2>1, <2>6, <2>7, <2>8 DEF FdInv
<1>40. ASSUME NEW lt \in Lthread, IoDone(lt) PROVE FdInv'
  <2>1. UNCHANGED <<waiting, epoll, events, ev>> /\ phase' # "abort"
        /\ (phase = "events" => phase' = "events") /\ (ev.fd # NoFd /\ ~ev.hit => ctl' = "loop")
    BY <1>40 DEF FdInv, EvOK, IoDone
  <2>2. \A l \in waiting : fd_wait'[l] = fd_wait[l] /\ Waits(l)'
    BY <1>40 DEF IInv, TypeOK, FlagsOK, FlagsOf, FdInv, ArmedOK, IoDone
  <2> QED BY <2>1, <2>2, FdFrame
<1>41. ASSUME NEW k \in Key, Arrive(k) PROVE FdInv'
  <2>1. UNCHANGED <<waiting, epoll, events, ev>> /\ phase' # "abort"
        /\ (phase = "events" => phase' = "events") /\ (ev.fd # NoFd /\ ~ev.hit => ctl' = "loop")
    BY <1>41 DEF FdInv, EvOK, Arrive, Loop
  <2>2. \A l \in waiting : fd_wait'[l] = fd_wait[l] /\ Waits(l)'
    BY <1>41 DEF IInv, TypeOK, FlagsOK, FlagsOf, FdInv, ArmedOK, Arrive, Loop
  <2> QED BY <2>1, <2>2, FdFrame
<1>42. ASSUME UNCHANGED vars PROVE FdInv'
  <2>1. UNCHANGED <<waiting, epoll, events, ev>> /\ phase' # "abort"
        /\ (phase = "events" => phase' = "events") /\ (ev.fd # NoFd /\ ~ev.hit => ctl' = "loop")
    BY <1>42 DEF FdInv, EvOK, vars
  <2>2. \A l \in waiting : fd_wait'[l] = fd_wait[l] /\ Waits(l)'
    BY <1>42 DEF IInv, TypeOK, FlagsOK, FlagsOf, FdInv, ArmedOK, vars
  <2> QED BY <2>1, <2>2, FdFrame
<1> HIDE DEF Active
<1> QED
  BY <1>1, <1>2, <1>3, <1>4, <1>5, <1>6, <1>7, <1>8, <1>9, <1>10, <1>11, <1>12, <1>13, <1>14,
     <1>15, <1>16, <1>17, <1>18, <1>19, <1>20, <1>21, <1>22, <1>23, <1>24, <1>25, <1>26, <1>27, <1>28,
     <1>29, <1>30, <1>31, <1>32, <1>33, <1>34, <1>35, <1>36, <1>37, <1>38, <1>39, <1>40, <1>41, <1>42
  DEF Next, Resume, Loops, Returns, Yields, Calls, Outside, Stop

(* At first nothing is registered.                                         *)
LEMMA FdInit == Init => FdInv
<1> SUFFICES ASSUME NEW m \in Lthread, InitWith(m) PROVE FdInv
  BY DEF Init
<1>1. /\ waiting = {} /\ events = {} /\ ev = NoEv /\ phase = "head"
      /\ epoll = [fd \in Fd |-> "none"]
  BY DEF InitWith
<1>2. "none" \notin Ev
  BY ConstAssumption DEF AllEv
<1> QED BY <1>1, <1>2 DEF FdInv, ArmedOK, Heard, EvOK, NoAbort, NoEv

(* The scheduler's bookkeeping is consistent in every reachable state of   *)
(* every program that keeps the client contract, with any number of        *)
(* lthreads, condition variables and fds.                                  *)
THEOREM Invariance ==
  ASSUME Unguarded = {}
  PROVE  Spec => [](IInv /\ DoneOK)
<1>1. Init => IInv /\ DoneOK
  BY InvInit DEF Init, InitWith, DoneOK
<1>2. (IInv /\ DoneOK) /\ [Next]_vars => (IInv /\ DoneOK)'
  BY InvNext, DoneNext
<1> QED BY <1>1, <1>2, PTL DEF Spec

(* No lthread is ever queued twice or scheduled by two parties.            *)
THEOREM OnePlaceHolds ==
  ASSUME Unguarded = {}
  PROVE  Spec => []OnePlace
<1>1. IInv /\ DoneOK => OnePlace
  BY InvImplies
<1> QED BY <1>1, Invariance, PTL

(* No lthread that is not done is forgotten by the scheduler.              *)
THEOREM NoLostLthreadHolds ==
  ASSUME Unguarded = {}
  PROVE  Spec => []NoLostLthread
<1>1. IInv /\ DoneOK => NoLostLthread
  BY InvImplies
<1> QED BY <1>1, Invariance, PTL

(* No queue, tree or join link the scheduler follows leads to freed        *)
(* memory.                                                                 *)
THEOREM NoDanglingHolds ==
  ASSUME Unguarded = {}
  PROVE  Spec => []NoDangling
<1>1. IInv /\ DoneOK => NoDangling
  BY InvImplies
<1> QED BY <1>1, Invariance, PTL

(* lthread_cond_wait tells a timeout from a signal, and unlinks itself on  *)
(* a timeout only.                                                         *)
THEOREM CondWaitResultHolds ==
  ASSUME Unguarded = {}
  PROVE  Spec => []CondWaitResult
<1>1. IInv /\ DoneOK => CondWaitResult
  BY InvImplies
<1> QED BY <1>1, Invariance, PTL

(* lthread_join frees its target only once the target is over, and leaves  *)
(* it to the next join on a timeout.                                       *)
THEOREM JoinResultHolds ==
  ASSUME Unguarded = {}
  PROVE  Spec => []JoinResult
<1>1. IInv /\ DoneOK => JoinResult
  BY InvImplies
<1> QED BY <1>1, Invariance, PTL

(* lthread_run returns only when every lthread is over.                    *)
THEOREM RunsUntilAllReturnHolds ==
  ASSUME Unguarded = {}
  PROVE  Spec => []RunsUntilAllReturn
<1>1. IInv /\ DoneOK => RunsUntilAllReturn
  BY InvImplies
<1> QED BY <1>1, Invariance, PTL

(* The waiting tree, the poller's registrations and the event in hand      *)
(* agree in every reachable state.                                         *)
THEOREM FdInvariance ==
  ASSUME Unguarded = {}
  PROVE  Spec => [](IInv /\ FdInv)
<1>1. Init => IInv /\ FdInv
  BY InvInit, FdInit
<1>2. (IInv /\ FdInv) /\ [Next]_vars => (IInv /\ FdInv)'
  BY InvNext, FdNext
<1> QED BY <1>1, <1>2, PTL DEF Spec

(* No assertion of the scheduler or of the poller fails: each event finds  *)
(* a waiter, _lthread_sched_event never meets one, and the poller knows    *)
(* every fd that is cleared.                                               *)
THEOREM NoAbortHolds ==
  ASSUME Unguarded = {}
  PROVE  Spec => []NoAbort
<1>1. FdInv => NoAbort
  BY DEF FdInv
<1> QED BY <1>1, FdInvariance, PTL

(* However a wait on an fd ends, nobody is lost, queued twice or left with *)
(* a spent registration.                                                   *)
THEOREM FdConsistentHolds ==
  ASSUME Unguarded = {}
  PROVE  Spec => []FdConsistent
<1>1. IInv /\ DoneOK /\ FdInv => FdConsistent
  BY InvImplies DEF FdInv, FdConsistent
<1> QED BY <1>1, Invariance, FdInvariance, PTL

(* The memory of an lthread is freed only once its code is over.           *)
THEOREM FreedWhenGoneHolds ==
  ASSUME Unguarded = {}
  PROVE  Spec => FreedWhenGone
<1>1. IInv /\ [Next]_vars => [\A lt \in heap \ heap' : pc'[lt] = "gone"]_vars
  BY FreeStep
<1> QED BY <1>1, Invariance, PTL DEF Spec, FreedWhenGone
=============================================================================
