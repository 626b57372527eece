-------------------------------- MODULE Chan --------------------------------
(***************************************************************************)
(* Channels and select of chan.c, for the lthreads of one scheduler.  A    *)
(* call runs without interruption up to lthread_cond_wait, the only place  *)
(* where it yields; LthreadSched has the condition variable and the timer. *)
(* The circular buffer is a sequence here: Fifo shows that it is one.      *)
(***************************************************************************)
EXTENDS Integers, Sequences, FiniteSets, FiniteSetsExt, Subseq, Tailq

CONSTANTS Lthread, Chan,
          Capacity,   \* Capacity[c], 0 for an unbuffered channel
          MaxVal,     \* bound: how many values are sent in all
          SelectArgs  \* the <<write channels, read channels>> of chan_select

LTHR_SEL_CHANS == 8

(* sel->waits has LTHR_SEL_CHANS places, which chan_select does not check. *)
ASSUME ChanAssumption ==
  /\ Capacity \in [Chan -> Nat] /\ MaxVal \in Nat
  /\ SelectArgs \subseteq Seq(Chan) \X Seq(Chan)
  /\ \A a \in SelectArgs : Len(a[1]) + Len(a[2]) <= LTHR_SEL_CHANS

VARIABLES
  queue, closed,          \* per channel: chan->queue, chan->closed
  sendq, recvq,           \* per channel: the waits <<lthread, idx>>
  send_count, recv_count,
  pc,                     \* per lthread: where its call is
  sel,                    \* per lthread: its struct lthread_sel
  disposed,               \* the channels given back
  aborted,                \* an assertion failed
  fate,                   \* per value: what its sender was told
  taken, returned         \* history: handed over, and given to a caller

cvars == <<queue, closed, sendq, recvq, send_count, recv_count, disposed>>
pvars == <<pc, sel, aborted>>
hvars == <<fate, taken, returned>>
vars  == <<cvars, pvars, hvars>>

Val  == 1..MaxVal
NULL == 0
None == 0     \* sel->target = -1; idx counts from 1
NoWait == <<>>

(* A selector between two calls: only its target can matter to the next.   *)
Unused(target) ==
  [chans |-> <<>>, msgs |-> <<>>, wchan_count |-> 0, target |-> target]

(* chan_init for every channel, lthread_sel_create for every lthread.      *)
Init ==
  /\ queue = [c \in Chan |-> <<>>] /\ closed = [c \in Chan |-> FALSE]
  /\ sendq = [c \in Chan |-> <<>>] /\ recvq = [c \in Chan |-> <<>>]
  /\ send_count = [c \in Chan |-> 0] /\ recv_count = [c \in Chan |-> 0]
  /\ pc = [p \in Lthread |-> "idle"]
  /\ sel = [p \in Lthread |-> Unused(None)]
  /\ disposed = {} /\ aborted = FALSE
  /\ fate = [v \in Val |-> "unused"]
  /\ taken = [c \in Chan |-> <<>>] /\ returned = {}

(* The next n values, for the senders to send.                             *)
Fresh(n) == LET used == Cardinality({v \in Val : fate[v] # "unused"})
            IN  [i \in 1..n |-> used + i]

(* Fault: off by one.                                                      *)
Room_OneMore(c) == Len(queue[c]) <= Capacity[c]

Room(c) == Len(queue[c]) < Capacity[c]
IsWaiting(w) == sel[w[1]].target = None

(* The receiver chan_try_send finds: the first not yet served.             *)
FirstReceiver(c) ==
  LET found == {i \in DOMAIN recvq[c] : IsWaiting(recvq[c][i])}
  IN  IF found = {} THEN NoWait ELSE recvq[c][Min(found)]

(* Fault: the last sender is served first.                                 *)
HeadSender_Last(c) ==
  LET n == Len(sendq[c])
  IN  IF n > 0 /\ IsWaiting(sendq[c][n]) THEN sendq[c][n] ELSE NoWait

(* The sender chan_try_recv finds: only the first is looked at.            *)
HeadSender(c) ==
  IF sendq[c] # <<>> /\ IsWaiting(Head(sendq[c])) THEN Head(sendq[c]) ELSE NoWait

CanSend(c) == Room(c) \/ FirstReceiver(c) # NoWait
CanRecv(c) == queue[c] # <<>> \/ HeadSender(c) # NoWait \/ closed[c]

WIdx(s) == 1..s.wchan_count
RIdx(s) == (s.wchan_count + 1)..Len(s.chans)

Dequeued(q, P) == [c \in Chan |-> Kept(q[c], {k \in DOMAIN q[c] : q[c][k][1] \notin P})]

Uncounted(count, P, Idx(_)) ==
  [c \in Chan |-> count[c] -
     Cardinality({x \in P \X (1..LTHR_SEL_CHANS) :
                    x[2] \in Idx(sel[x[1]]) /\ sel[x[1]].chans[x[2]] = c})]

(* sel_remove_all_chans for each selector of P.                            *)
sel_remove_all_chans(P) ==
  /\ sendq' = Dequeued(sendq, P)
  /\ recvq' = Dequeued(recvq, P)
  /\ send_count' = Uncounted(send_count, P, WIdx)
  /\ recv_count' = Uncounted(recv_count, P, RIdx)

(* Selector w[1] is served on its channel number w[2] and its lthread is   *)
(* signalled.                                                              *)
Serve(w, msg) ==
  /\ sel_remove_all_chans({w[1]})
  /\ sel' = [sel EXCEPT ![w[1]].target = w[2], ![w[1]].msgs[w[2]] = msg]
  /\ pc' = [pc EXCEPT ![w[1]] = "ready"]

ServeNobody == UNCHANGED <<sendq, recvq, send_count, recv_count, sel, pc>>

(* A call returns, its channel number i served (None: no channel).  The    *)
(* typed wrappers free the values that were not sent, and those received   *)
(* once they are copied out.                                               *)
SendReturns(s, i) ==
  fate' = [v \in Val |->
             IF \E j \in WIdx(s) : s.msgs[j] = v
             THEN IF i \in WIdx(s) /\ s.msgs[i] = v THEN "sent" ELSE "unsent"
             ELSE fate[v]]

RecvReturns(msg) == returned' = returned \cup ({msg} \ {NULL})

(* chan_try_send on channel number i of s, the selector of the caller.     *)
chan_try_send(s, i) ==
  LET c == s.chans[i]
      w == FirstReceiver(c)
      buffer == Append(queue[c], s.msgs[i])
      Hand(msg) == Serve(w, msg) /\ taken' = [taken EXCEPT ![c] = Append(@, msg)]
  IN  /\ \/ /\ Room(c) /\ w = NoWait
            /\ queue' = [queue EXCEPT ![c] = buffer]
            /\ ServeNobody /\ UNCHANGED taken
         \/ /\ Room(c) /\ w # NoWait
            /\ queue' = [queue EXCEPT ![c] = Tail(buffer)]
            /\ Hand(Head(buffer))
         \/ /\ ~Room(c)
            /\ Hand(s.msgs[i])
            /\ UNCHANGED queue
      /\ SendReturns(s, i)
      /\ UNCHANGED <<closed, disposed, aborted, returned>>

(* Fault: the waiting sender is served but its value is not buffered.      *)
Refilled_DropsSender(c, w, msg) == Tail(queue[c])

(* The buffer without its head; the first blocked sender takes the place.  *)
Refilled(c, w, msg) ==
  Tail(queue[c]) \o (IF w = NoWait THEN <<>> ELSE <<msg>>)

(* chan_try_recv: a value from the buffer, or straight from a blocked      *)
(* sender, or NULL when the channel is closed.                             *)
chan_try_recv(s, i) ==
  LET c == s.chans[i]
      w == HeadSender(c)
      msg == IF w = NoWait THEN NULL ELSE sel[w[1]].msgs[w[2]]
      Get(m) == RecvReturns(m) /\ taken' = [taken EXCEPT ![c] = Append(@, m)]
  IN  /\ \/ /\ queue[c] # <<>>
            /\ queue' = [queue EXCEPT ![c] = Refilled(c, w, msg)]
            /\ Get(Head(queue[c]))
         \/ /\ queue[c] = <<>> /\ w # NoWait
            /\ Get(msg)
            /\ UNCHANGED queue
         \/ /\ queue[c] = <<>> /\ w = NoWait
            /\ RecvReturns(NULL)
            /\ UNCHANGED <<queue, taken>>
      /\ IF w = NoWait THEN ServeNobody ELSE Serve(w, msg)
      /\ SendReturns(s, i)
      /\ UNCHANGED <<closed, disposed, aborted>>

(* The waits of the selector, at the tail of its channels' queues.         *)
Queued(q, p, s, idx) ==
  [c \in Chan |-> LET mine == {i \in idx : s.chans[i] = c}
                  IN  q[c] \o [k \in 1..Cardinality(mine) |-> <<p, InOrder(mine)[k]>>]]

Counted(count, s, idx) ==
  [c \in Chan |-> count[c] + Cardinality({i \in idx : s.chans[i] = c})]

(* Not ready yet: queue on every channel and wait.                         *)
Block(p, s) ==
  /\ sendq' = Queued(sendq, p, s, WIdx(s))
  /\ recvq' = Queued(recvq, p, s, RIdx(s))
  /\ send_count' = Counted(send_count, s, WIdx(s))
  /\ recv_count' = Counted(recv_count, s, RIdx(s))
  /\ sel' = [sel EXCEPT ![p] = s]
  /\ pc' = [pc EXCEPT ![p] = "blocked"]
  /\ fate' = [v \in Val |-> IF \E j \in WIdx(s) : s.msgs[j] = v THEN "waiting" ELSE fate[v]]
  /\ UNCHANGED <<queue, closed, disposed, aborted, taken, returned>>

(* chan_block_select_: the first channel that can send, else the first     *)
(* that can receive, else wait.  Every channel tried for sending must be   *)
(* open: chan_try_send asserts it.                                         *)
chan_block_select_(p, s, wait) ==
  LET canW == {i \in WIdx(s) : CanSend(s.chans[i])}
      canR == {i \in RIdx(s) : CanRecv(s.chans[i])}
      tried == {i \in WIdx(s) : \A j \in canW : i <= j}
      ok == \A i \in tried : ~closed[s.chans[i]]
  IN  /\ ~aborted /\ pc[p] = "idle"
      /\ \A i \in DOMAIN s.chans : s.chans[i] \notin disposed
      /\ \A i \in WIdx(s) : s.msgs[i] \in Val
      /\ \/ ~ok /\ aborted' = TRUE /\ UNCHANGED <<cvars, pc, sel, hvars>>
         \/ ok /\ canW # {} /\ chan_try_send(s, Min(canW))
         \/ ok /\ canW = {} /\ canR # {} /\ chan_try_recv(s, Min(canR))
         \/ /\ ok /\ canW = {} /\ canR = {} /\ ~wait
            /\ SendReturns(s, None)
            /\ UNCHANGED <<cvars, pvars, taken, returned>>
         \/ ok /\ canW = {} /\ canR = {} /\ wait /\ Block(p, s)

(* A selector as its call fills it in: fresh values to send.  chan_send    *)
(* and chan_recv initialise one on the stack, chan_select takes the        *)
(* caller's as its last call left it.                                      *)
Selector(w, r, target) ==
  [chans |-> w \o r, msgs |-> Fresh(Len(w)) \o [i \in 1..Len(r) |-> NULL],
   wchan_count |-> Len(w), target |-> target]

chan_send(p, c) ==
  ~closed[c] /\ chan_block_select_(p, Selector(<<c>>, <<>>, None), TRUE)

chan_send_noblock(p, c) ==
  ~closed[c] /\ chan_block_select_(p, Selector(<<c>>, <<>>, None), FALSE)

chan_recv(p, c) == chan_block_select_(p, Selector(<<>>, <<c>>, None), TRUE)

chan_select(p, a, wait) ==
  chan_block_select_(p, Selector(a[1], a[2], sel[p].target), wait)

(* chan_block_select_ after lthread_cond_wait: the lthread runs again and  *)
(* already has its message.                                                *)
WakeUp(p) ==
  LET s == sel[p]
  IN  /\ ~aborted /\ pc[p] = "ready"
      /\ pc' = [pc EXCEPT ![p] = "idle"]
      /\ sel' = [sel EXCEPT ![p] = Unused(None)]
      /\ SendReturns(s, s.target)
      /\ RecvReturns(IF s.target \in RIdx(s) THEN s.msgs[s.target] ELSE NULL)
      /\ UNCHANGED <<cvars, aborted, taken>>

(* Fault: a selector that timed out stays queued.                          *)
Expire_StaysQueued(p) ==
  /\ ~aborted /\ pc[p] = "blocked"
  /\ pc' = [pc EXCEPT ![p] = "idle"]
  /\ SendReturns(sel[p], None)
  /\ sel' = [sel EXCEPT ![p] = Unused(None)]
  /\ UNCHANGED <<cvars, aborted, taken, returned>>

(* The timer fires before anyone served the selector: lthread_cond_wait    *)
(* returns -2.  chan_send and chan_recv come here too, LTHREAD_FOREVER     *)
(* being some nine hours.                                                  *)
Expire(p) ==
  /\ ~aborted /\ pc[p] = "blocked"
  /\ pc' = [pc EXCEPT ![p] = "idle"]
  /\ sel_remove_all_chans({p})
  /\ SendReturns(sel[p], None)
  /\ sel' = [sel EXCEPT ![p] = Unused(None)]
  /\ UNCHANGED <<queue, closed, disposed, aborted, taken, returned>>

(* Fault: only the first receiver is woken.                                *)
Woken_FirstOnly(c) == IF recvq[c] = <<>> THEN {} ELSE {Head(recvq[c])[1]}

(* The selectors chan_close wakes, each at the first of its waits on c.    *)
Woken(c) == {p \in Lthread : sel[p].target = None /\ \E i \in DOMAIN recvq[c] : recvq[c][i][1] = p}

FirstWait(c, p) ==
  recvq[c][Min({i \in DOMAIN recvq[c] : recvq[c][i][1] = p})][2]

(* chan_close: every waiting receiver gets NULL; blocked senders stay.     *)
chan_close(p, c) ==
  /\ ~aborted /\ pc[p] = "idle" /\ c \notin disposed /\ ~closed[c]
  /\ closed' = [closed EXCEPT ![c] = TRUE]
  /\ sel_remove_all_chans(Woken(c))
  /\ sel' = [q \in Lthread |->
               IF q \in Woken(c)
               THEN [sel[q] EXCEPT !.target = FirstWait(c, q),
                                   !.msgs[FirstWait(c, q)] = NULL]
               ELSE sel[q]]
  /\ pc' = [q \in Lthread |-> IF q \in Woken(c) THEN "ready" ELSE pc[q]]
  /\ UNCHANGED <<queue, disposed, aborted, hvars>>

(* chan_dispose frees the channel.  Contract: nobody waits on it, nothing  *)
(* is buffered (the values would leak) and it is not used again.           *)
chan_dispose(p, c) ==
  /\ ~aborted /\ pc[p] = "idle" /\ c \notin disposed
  /\ sendq[c] = <<>> /\ recvq[c] = <<>> /\ queue[c] = <<>>
  /\ disposed' = disposed \cup {c}
  /\ UNCHANGED <<queue, closed, sendq, recvq, send_count, recv_count, pvars, hvars>>

Step(p) ==
  \/ \E c \in Chan : \/ chan_send(p, c) \/ chan_send_noblock(p, c)
                     \/ chan_recv(p, c) \/ chan_close(p, c) \/ chan_dispose(p, c)
  \/ \E a \in SelectArgs, wait \in BOOLEAN : chan_select(p, a, wait)
  \/ WakeUp(p) \/ Expire(p)

Next == \E p \in Lthread : Step(p)

Spec == Init /\ [][Next]_vars

-----------------------------------------------------------------------------
Wait == Lthread \X (1..LTHR_SEL_CHANS)
Buffered == UNION {Range(queue[c]) : c \in Chan}
Taken == UNION {Range(taken[c]) : c \in Chan}
Waiting(p) == pc[p] = "blocked"
WaitsOn(w, c, idx) == Waiting(w[1]) /\ w[2] \in idx /\ sel[w[1]].chans[w[2]] = c

Sel == {s \in [chans : Seq(Chan), msgs : Seq(Val \cup {NULL}), wchan_count : Nat, target : Nat] :
          /\ Len(s.msgs) = Len(s.chans) /\ Len(s.chans) <= LTHR_SEL_CHANS
          /\ s.wchan_count <= Len(s.chans)}

TypeOK ==
  /\ queue \in [Chan -> Seq(Val)] /\ \A c \in Chan : Len(queue[c]) <= Capacity[c]
  /\ closed \in [Chan -> BOOLEAN]
  /\ sendq \in [Chan -> Seq(Wait)] /\ recvq \in [Chan -> Seq(Wait)]
  /\ send_count \in [Chan -> Nat] /\ recv_count \in [Chan -> Nat]
  /\ pc \in [Lthread -> {"idle", "blocked", "ready"}]
  /\ disposed \subseteq Chan /\ aborted \in BOOLEAN
  /\ fate \in [Val -> {"unused", "waiting", "sent", "unsent"}]
  /\ taken \in [Chan -> Seq(Val)] /\ returned \subseteq Val
  /\ sel \in [Lthread -> Sel]

(* The selector of a call lies on the caller's stack: while the call is    *)
(* blocked it is queued once on each of its channels and nowhere else, and *)
(* from the moment it is served, timed out or woken by chan_close it is on *)
(* no queue, so that no queue holds a dangling wait; the counters agree.   *)
(* Only a served selector has a target (chan_select would take a target    *)
(* left over from the last call for an answer).                            *)
QueuedWhileBlocked ==
  /\ \A c \in Chan, w \in Wait :
       /\ InQ(w, sendq[c]) <=> WaitsOn(w, c, WIdx(sel[w[1]]))
       /\ InQ(w, recvq[c]) <=> WaitsOn(w, c, RIdx(sel[w[1]]))
  /\ \A c \in Chan : Distinct(sendq[c]) /\ Distinct(recvq[c])
  /\ \A c \in Chan : send_count[c] = Len(sendq[c]) /\ recv_count[c] = Len(recvq[c])
  /\ \A p \in Lthread : pc[p] = "ready" <=> sel[p].target # None

(* Nobody waits in vain: a sender blocks on a full buffer only, a receiver *)
(* on an empty and open channel only, and no sender and receiver of two    *)
(* different lthreads wait for each other on one channel.                  *)
NobodyWaitsInVain ==
  \A c \in Chan :
    /\ sendq[c] # <<>> => ~Room(c)
    /\ recvq[c] # <<>> => queue[c] = <<>> /\ ~closed[c]
    /\ \A v \in Range(sendq[c]), w \in Range(recvq[c]) : v[1] = w[1]

(* p was served: it holds v for its caller, or has passed its v on.        *)
Holds(p, v)  == /\ pc[p] = "ready" /\ sel[p].target \in RIdx(sel[p])
                /\ sel[p].msgs[sel[p].target] = v
Passed(p, v) == /\ pc[p] = "ready" /\ sel[p].target \in WIdx(sel[p])
                /\ sel[p].msgs[sel[p].target] = v

(* What a send reports is true: a value reported sent is in a buffer or    *)
(* was handed over, one reported unsent (and freed by the typed wrappers)  *)
(* is in no buffer, with no receiver and never will be.                    *)
SendHonest ==
  \A v \in Val :
    /\ fate[v] = "sent" => v \in Buffered \cup Taken
    /\ v \in Buffered \cup Taken =>
         \/ fate[v] = "sent"
         \/ fate[v] = "waiting" /\ \E p \in Lthread : Passed(p, v)

(* A value handed over reaches exactly one caller of chan_recv or          *)
(* chan_select: until that lthread runs, nothing overwrites its message.   *)
HandedToOne ==
  \A v \in Val : /\ (\E p \in Lthread : Holds(p, v)) <=> v \in Taken \ returned
                 /\ \A p, q \in Lthread : Holds(p, v) /\ Holds(q, v) => p = q

(* No value is lost, delivered twice or misreported on its way from the    *)
(* sender's call to the receiver's.                                        *)
EachValueOnce == SendHonest /\ HandedToOne

(* The values on offer on each channel: buffered, then of blocked senders. *)
Offered == [c \in Chan |-> queue[c] \o
              [i \in DOMAIN sendq[c] |-> sel[sendq[c][i][1]].msgs[sendq[c][i][2]]]]

Service == INSTANCE ChanService WITH pending <- Offered

(* The channels implement ChanService: through buffer, blocked senders,    *)
(* direct hand-over and select alike, the values of a channel arrive in    *)
(* the order of the calls that sent them, none twice.                      *)
IsChanService == Service!Spec
=============================================================================
