------------------------------- MODULE Kqueue -------------------------------
(***************************************************************************)
(* lthread_kqueue.c, the poller of FreeBSD and macOS, under the event loop *)
(* of lthread_run.  Unlike epoll_ctl, a registration only goes to the      *)
(* changelist and reaches the kernel with the next poll, or when the list  *)
(* is full; a deletion goes to the kernel at once.  A knote is one filter  *)
(* of one descriptor and is deleted when its event is fetched              *)
(* (EV_ONESHOT).  lthread_run takes the descriptor alone from an event and *)
(* runs HANDLE_EV for both filters, so that whoever waits on it leaves the *)
(* waiting tree, whichever filter fired.                                   *)
(***************************************************************************)
EXTENDS Integers, Sequences, FiniteSets, SequencesExt

CONSTANTS KFd, LT_MAX_EVENTS,   \* 1024 in the code
          KUnguarded            \* clauses of the callers' contract that are waived

(* What the code leaves to its callers:                                    *)
(*   fd      one lthread at a time waits on a descriptor;                  *)
(*   batch   who is resumed for an event does not wait on its descriptor   *)
(*           for the filter that HANDLE_EV gets to next;                   *)
(*   delete  no wait ends by timeout or lthread_cancel before the kernel   *)
(*           has its registration or after its event was fetched.          *)
KClauses == {"fd", "batch", "delete"}

ASSUME KqueueAssumption == LT_MAX_EVENTS \in Nat \ {0} /\ KUnguarded \subseteq KClauses

VARIABLES
  changelist,     \* sched->changelist[0 .. nevents - 1]
  knotes,         \* the kernel's registrations
  eventlist,      \* the events fetched and not looked at
  waiters,        \* the keys of the waiting tree
  kev,            \* the event lthread_run is at, if it is at one
  knext,          \* the filter HANDLE_EV is run for next, then "check"
  kserved,        \* the filters for which HANDLE_EV found an lthread
  aborted         \* an assertion failed

kqueue_vars == <<changelist, knotes, eventlist, waiters, kev, knext, kserved, aborted>>

Filters == {"EVFILT_READ", "EVFILT_WRITE"}
EvKey   == KFd \X Filters

KqueueInit ==
  /\ changelist = <<>> /\ knotes = {} /\ eventlist = {} /\ waiters = {}
  /\ kev = {} /\ knext = "EVFILT_READ" /\ kserved = {} /\ aborted = FALSE

InLoop == UNCHANGED <<kev, knext, kserved>>

(* HANDLE_EV was run for filter f of the event.                            *)
Passed(f) == \/ f = "EVFILT_READ" /\ knext # "EVFILT_READ"
             \/ f = "EVFILT_WRITE" /\ knext = "check"

(* The event in hand, while the lthread it is for is still in the tree.    *)
Pending == {w \in kev : ~Passed(w[2])}

(* An lthread runs: between two polls, or resumed by HANDLE_EV.            *)
Running ==
  \/ kev = {} /\ eventlist = {}
  \/ knext = "EVFILT_WRITE" /\ "EVFILT_READ" \in kserved
  \/ knext = "check" /\ "EVFILT_WRITE" \in kserved

(* _lthread_poller_flush_events makes room.                                *)
Full(w) == changelist' = <<w>> /\ knotes' = knotes \cup ToSet(changelist)

(* _lthread_sched_event: _lthread_poller_ev_register_rd or _wr.  That two  *)
(* lthreads never wait for the same filter of a descriptor is an assertion *)
(* there (lthread_sched.c:337) and not waived.                             *)
Register(w) ==
  /\ Running
  /\ w \notin waiters
  /\ "fd" \in KUnguarded \/ \A v \in waiters : v[1] # w[1]
  /\ "batch" \in KUnguarded \/ ~\E v \in kev : w = <<v[1], knext>>
  /\ waiters' = waiters \cup {w}
  /\ \/ /\ Len(changelist) < LT_MAX_EVENTS
        /\ changelist' = Append(changelist, w) /\ UNCHANGED knotes
     \/ Len(changelist) = LT_MAX_EVENTS /\ Full(w)
  /\ InLoop /\ UNCHANGED <<eventlist, aborted>>

(* Fault: sched->nevents is not reset.                                     *)
Poll_Resubmits ==
  /\ kev = {} /\ eventlist = {}
  /\ LET known == knotes \cup ToSet(changelist)
     IN  \E fired \in SUBSET known :
           /\ Cardinality(fired) <= LT_MAX_EVENTS
           /\ eventlist' = fired /\ knotes' = known \ fired
  /\ InLoop /\ UNCHANGED <<changelist, waiters, aborted>>

(* _lthread_poller_poll and `sched->nevents = 0' of _lthread_poll.         *)
Poll ==
  /\ kev = {} /\ eventlist = {}
  /\ LET known == knotes \cup ToSet(changelist)
     IN  \E fired \in SUBSET known :
           /\ Cardinality(fired) <= LT_MAX_EVENTS
           /\ eventlist' = fired /\ knotes' = known \ fired
  /\ changelist' = <<>>
  /\ InLoop /\ UNCHANGED <<waiters, aborted>>

(* Fault: p = sched->num_new_events without the decrement.                 *)
TakeEvent_Twice(w) ==
  /\ kev = {} /\ w \in eventlist
  /\ kev' = {w} /\ knext' = "EVFILT_READ" /\ kserved' = {}
  /\ UNCHANGED <<changelist, knotes, eventlist, waiters, aborted>>

(* lthread_run, step 5: the next event of the batch.                       *)
TakeEvent(w) ==
  /\ kev = {} /\ w \in eventlist
  /\ kev' = {w} /\ eventlist' = eventlist \ {w}
  /\ knext' = "EVFILT_READ" /\ kserved' = {}
  /\ UNCHANGED <<changelist, knotes, waiters, aborted>>

(* HANDLE_EV for one filter: who waits on the descriptor for it leaves the *)
(* tree and runs, whatever the filter of the event was.                    *)
HandleEv ==
  /\ knext # "check"
  /\ \E w \in kev :
       LET key == <<w[1], knext>>
       IN  /\ waiters' = waiters \ {key}
           /\ kserved' = IF key \in waiters THEN kserved \cup {knext} ELSE kserved
  /\ knext' = IF knext = "EVFILT_READ" THEN "EVFILT_WRITE" ELSE "check"
  /\ UNCHANGED <<changelist, knotes, eventlist, kev, aborted>>

(* assert(lt_write != NULL || lt_read != NULL)                             *)
EvChecked ==
  /\ kev # {} /\ knext = "check"
  /\ aborted' = (kserved = {})
  /\ kev' = {} /\ knext' = "EVFILT_READ" /\ kserved' = {}
  /\ UNCHANGED <<changelist, knotes, eventlist, waiters>>

(* A wait ends by timeout or lthread_cancel: EV_DELETE.  Where the kernel  *)
(* has no such registration kevent fails with ENOENT, and the assertion    *)
(* around it aborts.                                                       *)
EndWait(w) ==
  /\ Running
  /\ w \in waiters
  /\ "delete" \in KUnguarded \/ w \in knotes
  /\ knotes' = knotes \ {w} /\ waiters' = waiters \ {w}
  /\ aborted' = (w \notin knotes)
  /\ InLoop /\ UNCHANGED <<changelist, eventlist>>

(* lthread_close: both waits are over and the kernel forgets the fd.       *)
(* Contract: it has all the registrations of the fd, and none has fired.   *)
Close(fd) ==
  /\ Running
  /\ ~\E w \in ToSet(changelist) \cup eventlist \cup Pending : w[1] = fd
  /\ knotes'  = {w \in knotes : w[1] # fd}
  /\ waiters' = {w \in waiters : w[1] # fd}
  /\ InLoop /\ UNCHANGED <<changelist, eventlist, aborted>>

KqueueNext ==
  /\ ~aborted
  /\ \/ \E w \in EvKey : Register(w) \/ TakeEvent(w) \/ EndWait(w)
     \/ Poll \/ HandleEv \/ EvChecked \/ \E fd \in KFd : Close(fd)

KqueueSpec == KqueueInit /\ [][KqueueNext]_kqueue_vars

KqueueTypeOK ==
  /\ changelist \in Seq(EvKey) /\ Len(changelist) <= LT_MAX_EVENTS
  /\ knotes \subseteq EvKey /\ eventlist \subseteq EvKey /\ waiters \subseteq EvKey
  /\ kev \subseteq EvKey /\ knext \in Filters \cup {"check"}
  /\ kserved \subseteq Filters /\ aborted \in BOOLEAN

(* Every waiting lthread is known to exactly one of the changelist, the    *)
(* kernel, the events fetched and the event in hand, and none of them      *)
(* knows of a wait that is over: no registration is lost when the          *)
(* changelist is full, none is submitted twice, and none outlives the wait *)
(* it was made for, although lthread_run ends the waits of a descriptor    *)
(* for either filter.                                                      *)
WaitsAccountedFor ==
  /\ waiters = ToSet(changelist) \cup knotes \cup eventlist \cup Pending
  /\ IsInjective(changelist)
  /\ ToSet(changelist) \cap (knotes \cup eventlist \cup Pending) = {}
  /\ knotes \cap (eventlist \cup Pending) = {} /\ eventlist \cap Pending = {}

(* Every event finds an lthread that waits on its descriptor, and every    *)
(* deletion a registration: neither the assertion of lthread_run (line     *)
(* 252) nor those around the EV_DELETE calls fail.                         *)
NoKqueueAbort == ~aborted
=============================================================================
