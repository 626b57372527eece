----------------------------- MODULE IoService -----------------------------
(***************************************************************************)
(* Disk IO as the schedulers see it, and as LthreadSched assumes it: a job *)
(* handed in is carried out once and comes back on the defer queue of the  *)
(* scheduler it came from (lthread_io, IoDone and RunDefer there).         *)
(***************************************************************************)
EXTENDS Tailq

CONSTANTS Lthread, Sched,
          SchedOf(_)   \* lt->sched

VARIABLES io,     \* the lthreads whose job is not finished
          defer   \* the defer queue of each scheduler

Submit(lt) ==
  /\ lt \notin io /\ ~InQ(lt, defer[SchedOf(lt)])
  /\ io' = io \cup {lt}
  /\ UNCHANGED defer

Done(lt) ==
  /\ lt \in io
  /\ io' = io \ {lt}
  /\ defer' = [defer EXCEPT ![SchedOf(lt)] = Append(@, lt)]

Take(s) ==
  /\ defer[s] # <<>>
  /\ defer' = [defer EXCEPT ![s] = Tail(@)]
  /\ UNCHANGED io

Init == io = {} /\ defer = [s \in Sched |-> <<>>]
Next == (\E lt \in Lthread : Submit(lt) \/ Done(lt)) \/ \E s \in Sched : Take(s)
Spec == Init /\ [][Next]_<<io, defer>>
=============================================================================
