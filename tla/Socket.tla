------------------------------- MODULE Socket -------------------------------
(***************************************************************************)
(* The calls of lthread_socket.c, made by one lthread on one descriptor,   *)
(* against the kernel, the peer, the timer and another lthread that may    *)
(* close the descriptor.  Every call is a loop: test FDEOF, count the      *)
(* operation (_lthread_renice), make the system call, wait for an event    *)
(* if it would block.  One step is one turn of the loop between waits.     *)
(***************************************************************************)
EXTENDS Integers, Sequences, FiniteSetsExt

CONSTANTS
  MaxStream,    \* bound: bytes the peer sends
  MaxRoom,      \* bound: free bytes in the send buffer
  MaxOps,       \* 5 in the code: operations before the lthread yields
  Length,       \* the lengths asked for
  Iovs          \* the arrays given to lthread_writev, see IovOf

(* The bytes to write are numbered through the iovecs, in their order:     *)
(* iov_base of the first is 0, of the next what the first one ends with.   *)
EndOf(v) == v.base + v.len
IovOf(iov) ==
  /\ iov \in Seq([base : Nat, len : Nat]) /\ iov # <<>> /\ iov[1].base = 0
  /\ \A i \in 1..(Len(iov) - 1) : EndOf(iov[i]) = iov[i + 1].base

(* Contract: a length is not 0, and the last iovec is not empty (writev    *)
(* would be called once more for it, and lthread_writev return its 0).     *)
ASSUME SocketAssumption ==
  /\ MaxStream \in Nat /\ MaxRoom \in Nat /\ MaxOps \in Nat \ {0}
  /\ Length \subseteq Nat \ {0}
  /\ \A iov \in Iovs : IovOf(iov) /\ iov[Len(iov)].len > 0

VARIABLES
  sock,         \* the kernel's side of the descriptor
  spc,          \* where the lthread is
  call,         \* the call in progress
  flags         \* lt->ops, the bits FDEOF and EXPIRED

socket_vars == <<sock, spc, call, flags>>

EAGAIN == -3    \* what a system call returns: -1 with errno = EAGAIN
ECONNABORTED == -4

NoCall == [fn |-> "none", length |-> 0, timed |-> FALSE, done |-> <<>>,
           start |-> 0, iov |-> <<>>, iov_index |-> 0, fired |-> FALSE, ret |-> 0]

NoSock == [state |-> "none", avail |-> 0, read |-> 0, room |-> 0]

SocketInit ==
  /\ sock = NoSock
  /\ spc = "idle" /\ call = NoCall
  /\ flags = [ops |-> 0, fdeof |-> FALSE, expired |-> FALSE]

Receives  == {"recv", "exact", "readline"}
Sends     == {"send", "once"}
Waits     == {"wait_read", "wait_write"}
TestsEof  == Receives \cup Sends
Renices   == (Receives \cup Sends \cup {"accept", "connect", "writev"}) \ {"once"}
TestsTime == Receives \cup Waits \cup {"connect"}

Return(ret) ==
  /\ spc' = "returned"
  /\ call' = [call EXCEPT !.ret = ret]

(* The lthread yields: its count starts again, and the loop that resumed   *)
(* it for its timer clears EXPIRED.                                        *)
Yielded == [flags EXCEPT !.ops = 0, !.expired = FALSE]

-----------------------------------------------------------------------------
(* A descriptor is created and made non-blocking; when a step of this      *)
(* fails what there is of it is closed.                                    *)
Created(state) == sock' = [sock EXCEPT !.state = state] \/ UNCHANGED sock

(* lthread_pipe: two descriptors, the reading one is followed here.        *)
lthread_pipe ==
  /\ spc = "idle" /\ sock.state = "none"
  /\ Created("up")
  /\ UNCHANGED <<spc, call, flags>>

(* lthread_socket: the socket goes on to connect or to listen.             *)
lthread_socket ==
  /\ spc = "idle" /\ sock.state = "none"
  /\ \E s \in {"connecting", "listening"} : Created(s)
  /\ UNCHANGED <<spc, call, flags>>

BeginCall(fn, length, timed, iov) ==
  /\ spc = "idle"
  /\ call' = [NoCall EXCEPT !.fn = fn, !.length = length, !.timed = timed,
                            !.start = sock.read, !.iov = iov]
  /\ spc' = IF fn \in Waits THEN "block" ELSE "top"
  /\ UNCHANGED <<sock, flags>>

Start ==
  \/ /\ sock.state \in {"up", "half", "hup", "reset"}
     /\ \/ \E fn \in Receives, n \in Length, timed \in BOOLEAN : BeginCall(fn, n, timed, <<>>)
        \/ \E fn \in Sends, n \in Length : BeginCall(fn, n, FALSE, <<>>)
        \/ \E iov \in Iovs : BeginCall("writev", EndOf(iov[Len(iov)]), FALSE, iov)
        \/ \E fn \in Waits, timed \in BOOLEAN : BeginCall(fn, 0, timed, <<>>)
  \/ sock.state = "connecting" /\ \E timed \in BOOLEAN : BeginCall("connect", 0, timed, <<>>)
  \/ sock.state = "listening" /\ BeginCall("accept", 0, FALSE, <<>>)

(* The head of the loop: FDEOF, then _lthread_renice.                      *)
Top ==
  /\ spc = "top"
  /\ \/ call.fn \in TestsEof /\ flags.fdeof /\ Return(-1) /\ UNCHANGED flags
     \/ /\ ~(call.fn \in TestsEof /\ flags.fdeof)
        /\ UNCHANGED call
        /\ \/ call.fn \notin Renices /\ spc' = "sys" /\ UNCHANGED flags
           \/ /\ call.fn \in Renices /\ flags.ops + 1 < MaxOps
              /\ spc' = "sys" /\ flags' = [flags EXCEPT !.ops = @ + 1]
           \/ /\ call.fn \in Renices /\ flags.ops + 1 >= MaxOps
              /\ spc' = "reniced" /\ flags' = Yielded
  /\ UNCHANGED sock

(* The ready queue gets to the lthread again.                              *)
Reniced ==
  /\ spc = "reniced" /\ spc' = "sys"
  /\ UNCHANGED <<sock, call, flags>>

-----------------------------------------------------------------------------
(* What the kernel may return for recv or read of up to n bytes.           *)
RecvResult(n) ==
  IF sock.state \in {"reset", "closed"} THEN {-1}
  ELSE IF sock.avail > 0 THEN 1..Min({n, sock.avail})
  ELSE IF sock.state \in {"half", "hup"} THEN {0}
  ELSE {EAGAIN}

(* For send or write of up to n bytes.                                     *)
SendResult(n) ==
  IF sock.state \in {"reset", "closed", "hup"} THEN {-1}
  ELSE IF n = 0 THEN {0}
  ELSE IF sock.room = 0 THEN {EAGAIN}
  ELSE 1..Min({n, sock.room})

(* Fault: the next piece is read to the beginning of the buffer.           *)
Stored_AtStart(k) == [i \in 1..k |-> sock.read + i] \o SubSeq(call.done, k + 1, Len(call.done))

(* k more bytes are in the buffer, at buf + recvd.                         *)
Stored(k) == call.done \o [i \in 1..k |-> sock.read + i]

Taken(k) == sock' = [sock EXCEPT !.avail = @ - k, !.read = @ + k]

(* The loop goes on, or the call is over with what it has.                 *)
Progress(done, over) ==
  IF over THEN /\ call' = [call EXCEPT !.done = done, !.ret = Len(done)]
               /\ spc' = "returned"
  ELSE /\ call' = [call EXCEPT !.done = done] /\ spc' = "top"

Blocks == spc' = "block" /\ UNCHANGED <<call, sock>>

(* lthread_recv, lthread_recv_exact, lthread_readline: one recv(2).  For   *)
(* readline, one byte, which may be the newline.                           *)
Recv ==
  /\ spc = "sys" /\ call.fn \in Receives
  /\ LET want == IF call.fn = "readline" THEN 1 ELSE call.length - Len(call.done)
     IN  \E r \in RecvResult(want) :
           \/ r = EAGAIN /\ Blocks
           \/ r = -1 /\ Return(-1) /\ UNCHANGED sock
           \/ /\ r = 0 /\ UNCHANGED sock
              /\ Return(IF call.fn = "exact" THEN Len(call.done) ELSE 0)
           \/ /\ r > 0 /\ Taken(r)
              /\ \E newline \in BOOLEAN :
                   Progress(Stored(r),
                            \/ call.fn = "recv" \/ Len(Stored(r)) = call.length
                            \/ call.fn = "readline" /\ newline)
  /\ UNCHANGED flags

(* The bytes of the caller's buffer from `from' on.                        *)
Piece(from, k) == [i \in 1..k |-> from + i]

(* lthread_send, lthread_write, lthread_sendmsg, lthread_sendto.           *)
Send ==
  /\ spc = "sys" /\ call.fn \in Sends
  /\ \E r \in SendResult(call.length - Len(call.done)) :
       \/ r = EAGAIN /\ Blocks
       \/ r = -1 /\ Return(-1) /\ UNCHANGED sock
       \/ /\ r >= 0
          /\ sock' = [sock EXCEPT !.room = @ - r]
          /\ LET done == call.done \o Piece(Len(call.done), r)
             IN  Progress(done, call.fn = "once" \/ r = 0 \/ Len(done) = call.length)
  /\ UNCHANGED flags

(* The for loop of lthread_writev: the bytes up to `to' were written, from *)
(* iovec number at + 1 on.  It ends with the iovec that holds the last of  *)
(* them, of which it cuts off what was written unless that is all of it.   *)
Advance(iov, at, to) ==
  LET full == {k \in (at + 1)..Len(iov) : iov[k].base < to /\ EndOf(iov[k]) <= to}
      i    == Max(full \cup {at})
      cut  == i < Len(iov) /\ iov[i + 1].base < to
  IN  [iov |-> IF cut THEN [iov EXCEPT ![i + 1] = [base |-> to, len |-> EndOf(@) - to]]
               ELSE iov,
       index |-> i]

(* lthread_writev.  It is told of an error only by writev itself.          *)
Writev ==
  /\ spc = "sys" /\ call.fn = "writev"
  /\ LET from == call.iov[call.iov_index + 1].base
         left == EndOf(call.iov[Len(call.iov)]) - from
     IN  \E n \in SendResult(left) :
           \/ n = EAGAIN /\ Blocks
           \/ n \in {-1, 0} /\ Return(n) /\ UNCHANGED sock
           \/ /\ n > 0
              /\ sock' = [sock EXCEPT !.room = @ - n]
              /\ LET next == Advance(call.iov, call.iov_index, from + n)
                     done == call.done \o Piece(from, n)
                     over == next.index = Len(call.iov)
                 IN  /\ call' = [call EXCEPT !.done = done, !.iov = next.iov,
                                   !.iov_index = next.index, !.ret = IF over THEN Len(done) ELSE 0]
                     /\ spc' = IF over THEN "returned" ELSE "top"
  /\ UNCHANGED flags

(* lthread_accept: `none to accept' and `too many descriptors' wait, an    *)
(* aborted connection is skipped, any other error ends the call.           *)
Accept ==
  /\ spc = "sys" /\ call.fn = "accept"
  /\ \E r \in IF sock.state = "closed" THEN {-1}
              ELSE {EAGAIN} \cup IF sock.avail > 0 THEN {1, ECONNABORTED} ELSE {} :
       \/ r = EAGAIN /\ Blocks
       \/ /\ r = ECONNABORTED
          /\ sock' = [sock EXCEPT !.avail = @ - 1]
          /\ spc' = "top" /\ UNCHANGED <<call>>
       \/ r = -1 /\ Return(-1) /\ UNCHANGED sock
       \/ /\ r = 1
          /\ sock' = [sock EXCEPT !.avail = @ - 1]
          /\ Return(1) \/ Return(-1)     \* fcntl fails: it is closed again
  /\ UNCHANGED flags

Connect ==
  /\ spc = "sys" /\ call.fn = "connect"
  /\ \/ sock.state = "connecting" /\ Blocks
     \/ sock.state = "up" /\ Return(0) /\ UNCHANGED sock
     \/ sock.state \in {"refused", "closed"} /\ Return(-1) /\ UNCHANGED sock
  /\ UNCHANGED flags

-----------------------------------------------------------------------------
(* _lthread_sched_event: the lthread waits.                                *)
Block ==
  /\ spc = "block" /\ spc' = "wait"
  /\ flags' = Yielded
  /\ UNCHANGED <<sock, call>>

Reading == call.fn \in Receives \cup {"accept", "wait_read"}
Over    == {"hup", "reset", "refused"}     \* epoll reports EPOLLHUP

(* HANDLE_EV: the descriptor is ready, or hangs up.                        *)
Event ==
  /\ spc = "wait"
  /\ \/ sock.state \in Over
     \/ Reading /\ (sock.avail > 0 \/ sock.state = "half")
     \/ ~Reading /\ sock.room > 0
     \/ call.fn = "connect" /\ sock.state = "up"
  /\ spc' = "woken"
  /\ flags' = [flags EXCEPT !.fdeof = @ \/ sock.state \in Over]
  /\ UNCHANGED <<sock, call>>

(* _lthread_resume_expired                                                 *)
Timer ==
  /\ spc = "wait" /\ call.timed
  /\ spc' = "woken"
  /\ call' = [call EXCEPT !.fired = TRUE]
  /\ flags' = [flags EXCEPT !.expired = TRUE]
  /\ UNCHANGED sock

(* Another lthread calls lthread_close on the descriptor: who waits on it  *)
(* is told, who has only yielded is not.                                   *)
ClosedByOther ==
  /\ \/ spc = "wait" /\ spc' = "woken" /\ flags' = [flags EXCEPT !.fdeof = TRUE]
     \/ spc = "reniced" /\ UNCHANGED <<spc, flags>>
  /\ sock' = [sock EXCEPT !.state = "closed", !.avail = 0]
  /\ UNCHANGED call

(* After the wait: LTHREAD_WAIT looks at FDEOF and at EXPIRED, the calls   *)
(* with a timeout at EXPIRED, the others go on with the loop.              *)
AfterWait ==
  /\ spc = "woken"
  /\ \/ call.fn \in Waits /\ flags.fdeof /\ Return(-1)
     \/ /\ ~(call.fn \in Waits /\ flags.fdeof)
        /\ call.fn \in TestsTime /\ flags.expired
        /\ Return(-2)
     \/ call.fn \in Waits /\ ~flags.fdeof /\ ~flags.expired /\ Return(0)
     \/ /\ call.fn \notin Waits /\ ~(call.fn \in TestsTime /\ flags.expired)
        /\ spc' = "top" /\ UNCHANGED call
  /\ UNCHANGED <<sock, flags>>

Collect ==
  /\ spc = "returned"
  /\ spc' = "idle" /\ call' = NoCall
  /\ UNCHANGED <<sock, flags>>

(* lthread_close, by the lthread itself; the next descriptor may follow.   *)
lthread_close ==
  /\ spc = "idle" /\ sock.state # "none"
  /\ sock' = NoSock
  /\ flags' = [flags EXCEPT !.fdeof = FALSE]
  /\ UNCHANGED <<spc, call>>

(* close(2), as tcp_dial_ipv4 of mux/tcp_conn.c has it after a failure.    *)
CloseOnly ==
  /\ spc = "idle" /\ sock.state = "refused"
  /\ sock' = NoSock
  /\ UNCHANGED <<spc, call, flags>>

-----------------------------------------------------------------------------
(* The kernel and the peer.                                                *)
Arrive ==
  /\ sock.state \in {"up", "listening"} /\ sock.avail + sock.read < MaxStream
  /\ sock' = [sock EXCEPT !.avail = @ + 1]

Drain ==
  /\ sock.state \in {"up", "half"} /\ sock.room < MaxRoom
  /\ sock' = [sock EXCEPT !.room = @ + 1]

Established == sock.state = "connecting" /\ sock' = [sock EXCEPT !.state = "up"]

PeerEnds ==
  \/ sock.state = "connecting" /\ sock' = [sock EXCEPT !.state = "refused"]
  \/ sock.state = "up" /\ sock' = [sock EXCEPT !.state = "half"]
  \/ sock.state \in {"up", "half"} /\ sock' = [sock EXCEPT !.state = "reset", !.avail = 0]
  \/ sock.state \in {"up", "half"} /\ sock' = [sock EXCEPT !.state = "hup"]

Environment == /\ Arrive \/ Drain \/ Established \/ PeerEnds
               /\ UNCHANGED <<spc, call, flags>>

SocketNext ==
  \/ lthread_pipe \/ lthread_socket \/ lthread_close \/ CloseOnly
  \/ Start \/ Top \/ Reniced \/ Recv \/ Send \/ Writev \/ Accept \/ Connect
  \/ Block \/ Event \/ Timer \/ ClosedByOther \/ AfterWait \/ Collect
  \/ Environment

SocketSpec == SocketInit /\ [][SocketNext]_socket_vars

-----------------------------------------------------------------------------
SocketTypeOK ==
  /\ sock \in [state : {"none", "connecting", "refused", "listening", "up",
                        "half", "hup", "reset", "closed"},
               avail : 0..MaxStream, read : 0..MaxStream, room : 0..MaxRoom]
  /\ spc \in {"idle", "top", "reniced", "sys", "block", "wait", "woken", "returned"}
  /\ flags \in [ops : 0..(MaxOps - 1), fdeof : BOOLEAN, expired : BOOLEAN]
  /\ call \in [fn : Receives \cup Sends \cup Waits \cup {"none", "connect", "accept", "writev"},
               length : Nat, timed : BOOLEAN, done : Seq(Nat), start : Nat,
               iov : Seq([base : Nat, len : Nat]), iov_index : Nat,
               fired : BOOLEAN, ret : Int]

Returned(S) == spc = "returned" /\ call.fn \in S

(* A call that reports a number of bytes reports those it moved: read in   *)
(* one piece from the stream into the buffer, or written from the          *)
(* beginning of the caller's data, none twice, none left out, however      *)
(* often it had to wait or to yield in between.  lthread_recv and          *)
(* lthread_sendmsg that fail or time out have moved nothing.               *)
BytesInOrder ==
  /\ Returned(Receives) /\ call.ret >= 0 =>
       call.done = Piece(call.start, Len(call.done))
  /\ Returned(Sends \cup {"writev"}) => call.done = Piece(0, Len(call.done))
  /\ Returned(Receives \cup Sends \cup {"writev"}) /\ call.ret > 0 =>
       call.ret = Len(call.done)
  /\ Returned({"recv", "once"}) /\ call.ret < 0 => call.done = <<>>

(* lthread_send and lthread_writev that report success have moved          *)
(* everything, however often the kernel took only a part of it.            *)
(* lthread_recv_exact reports fewer bytes than asked for only when the     *)
(* peer has closed and it has read all there was.                          *)
AllOrTold ==
  /\ Returned({"send", "writev"}) /\ call.ret >= 0 => call.ret = call.length
  /\ Returned({"exact"}) /\ call.ret >= 0 =>
       \/ call.ret = call.length
       \/ sock.avail = 0 /\ sock.state \in {"half", "hup", "reset"}

(* A call returns -2 exactly if its timer fired: EXPIRED of an earlier     *)
(* call is gone by the time the next wait is over, and no timeout goes     *)
(* unreported.  The exception are the plain waits, lthread_wait_read and   *)
(* lthread_wait_write, which look at FDEOF first: with it set they return  *)
(* -1, also if their timer fired and the hangup is that of an earlier      *)
(* call.                                                                   *)
TimeoutIsReal ==
  spc = "returned" => (call.ret = -2 <=> call.fired /\ ~(call.fn \in Waits /\ flags.fdeof))

(* The socket calls report what happened: the bytes moved in order, all of *)
(* them by the sends, all that came by lthread_recv_exact, and a timeout   *)
(* if it was one, except by a plain wait after a hangup.                   *)
CallsReportTruth == BytesInOrder /\ AllOrTold /\ TimeoutIsReal

(* What socket.rst says of lthread_recv_exact: the exact number of bytes,  *)
(* or 0 if the socket is closed.                                           *)
ExactOrNothing ==
  Returned({"exact"}) /\ call.ret >= 0 => call.ret \in {0, call.length}

(* A read fails only when the connection has: -1 is not returned while     *)
(* bytes are there to be read.                                             *)
ReadsWhatIsThere ==
  Returned({"recv"}) /\ call.ret = -1 => sock.avail = 0
=============================================================================
