---------------------------- MODULE Socket_proofs ----------------------------
(***************************************************************************)
(* Theorems about Socket, for any lengths, buffers, iovecs and bounds.     *)
(***************************************************************************)
EXTENDS Socket, SequenceTheorems, WellFoundedInduction, TLAPS

-----------------------------------------------------------------------------
(* Numbers and pieces of the stream                                        *)

(* A nonempty set of naturals has a least element, and a greatest one if   *)
(* it is bounded.                                                          *)
LEMMA LeastNat ==
  ASSUME NEW S \in SUBSET Nat, S # {}
  PROVE  \E x \in S : \A y \in S : x <= y
<1>1. PICK x \in S : \A y \in S : ~(<<y, x>> \in OpToRel(<, Nat))
  BY NatLessThanWellFounded, WFMin
<1>2. ASSUME NEW y \in S, y < x PROVE FALSE
  <2>1. <<y, x>> \in {ss \in Nat \X Nat : ss[1] < ss[2]}
    BY <1>2
  <2> QED BY <1>1, <2>1 DEF OpToRel
<1> QED BY <1>2

LEMMA MinIs ==
  ASSUME NEW S \in SUBSET Nat, S # {}
  PROVE  Min(S) \in S /\ \A y \in S : Min(S) <= y
  BY LeastNat DEF Min

LEMMA MaxIs ==
  ASSUME NEW S \in SUBSET Nat, S # {}, NEW b \in Nat, \A y \in S : y <= b
  PROVE  Max(S) \in S /\ \A y \in S : y <= Max(S)
<1> DEFINE T == {b - y : y \in S}
<1>1. T \in SUBSET Nat /\ T # {}
  <2>1. \A y \in S : b - y \in Nat
    OBVIOUS
  <2> QED BY <2>1
<1>2. PICK t \in T : \A u \in T : t <= u
  BY <1>1, LeastNat
<1>3. PICK x \in S : t = b - x
  OBVIOUS
<1>4. ASSUME NEW y \in S PROVE x >= y
  <2>1. b - y \in T /\ x \in Nat /\ y \in Nat
    OBVIOUS
  <2>2. b - x <= b - y
    BY <1>2, <1>3, <2>1
  <2> QED BY <2>1, <2>2
<1>5. Max(S) \in S /\ \A y \in S : Max(S) >= y
  BY <1>4 DEF Max
<1> QED BY <1>5

LEMMA MinPair ==
  ASSUME NEW a \in Nat, NEW b \in Nat
  PROVE  Min({a, b}) \in Nat /\ Min({a, b}) <= a /\ Min({a, b}) <= b
  BY MinIs

(* Two pieces that follow each other are one.                              *)
LEMMA PieceIs ==
  ASSUME NEW from \in Nat, NEW k \in Nat, NEW r \in Nat
  PROVE  /\ Piece(from, k) \in Seq(Nat) /\ Len(Piece(from, k)) = k
         /\ Piece(from, k) \o Piece(from + k, r) = Piece(from, k + r)
         /\ Piece(from, 0) = <<>>
<1>1. \A f, n \in Nat : /\ Piece(f, n) \in Seq(Nat) /\ Len(Piece(f, n)) = n
                        /\ \A i \in 1..n : Piece(f, n)[i] = f + i
  BY DEF Piece
<1>2. Piece(from, 0) = <<>>
  BY <1>1
<1> DEFINE a == Piece(from, k)
           b == Piece(from + k, r)
           c == Piece(from, k + r)
<1>3. /\ a \in Seq(Nat) /\ b \in Seq(Nat) /\ c \in Seq(Nat) /\ Len(a) = k /\ Len(b) = r /\ Len(c) = k + r
      /\ \A i \in 1..k : a[i] = from + i
      /\ \A i \in 1..r : b[i] = from + k + i
      /\ \A i \in 1..(k + r) : c[i] = from + i
  <2>1. from + k \in Nat /\ k + r \in Nat
    OBVIOUS
  <2> QED BY <1>1, <2>1
<1> HIDE DEF a, b, c
<1>4. a \o b = c
  <2>0. a \in Seq(Nat) /\ b \in Seq(Nat)
    BY <1>3
  <2>1. a \o b \in Seq(Nat) /\ Len(a \o b) = k + r
    <3>1. a \o b \in Seq(Nat) /\ Len(a \o b) = Len(a) + Len(b)
      BY <2>0
    <3> QED BY <1>3, <3>1
  <2>2. ASSUME NEW i \in 1..(k + r) PROVE (a \o b)[i] = c[i]
    <3>1. CASE i <= k
      BY <1>3, <3>1
    <3>2. CASE ~(i <= k)
      <4>1. i - k \in 1..r /\ from + k + (i - k) = from + i
        BY <3>2
      <4>2. (a \o b)[i] = b[i - Len(a)]
        <5>1. i \in (Len(a) + 1)..(Len(a) + Len(b))
          BY <1>3, <3>2
        <5> QED BY <2>0, <5>1
      <4>3. b[i - k] = from + k + (i - k)
        BY <1>3, <4>1
      <4>4. i - Len(a) = i - k /\ c[i] = from + i
        BY <1>3
      <4>5. (a \o b)[i] = b[i - k]
        BY <4>2, <4>4, Zenon
      <4>6. b[i - k] = c[i]
        BY <4>1, <4>3, <4>4
      <4> QED BY <4>5, <4>6, Zenon
    <3> QED BY <3>1, <3>2
  <2>3. c \in Seq(Nat) /\ Len(c) = k + r /\ k + r \in Nat
    BY <1>3
  <2> QED BY <2>1, <2>2, <2>3, SeqEqual
<1> QED BY <1>1, <1>2, <1>4 DEF a, b, c

LEMMA PieceFirst ==
  ASSUME NEW k \in Nat, NEW r \in Nat
  PROVE  Piece(0, k) \o Piece(k, r) = Piece(0, k + r)
<1>1. PICK z \in Nat : z = 0
  OBVIOUS
<1>2. Piece(z, k) \o Piece(z + k, r) = Piece(z, k + r)
  BY PieceIs
<1>3. z + k = k
  BY <1>1
<1> QED BY <1>1, <1>2, <1>3

LEMMA PieceEmpty ==
  ASSUME NEW from \in Nat
  PROVE  Piece(from, 0) = <<>>
<1>1. 0 \in Nat
  OBVIOUS
<1> QED BY <1>1, PieceIs

LEMMA PieceTyped ==
  ASSUME NEW from \in Nat, NEW k \in Nat
  PROVE  Piece(from, k) \in Seq(Nat) /\ Len(Piece(from, k)) = k
<1>1. 0 \in Nat
  OBVIOUS
<1> QED BY <1>1, PieceIs

-----------------------------------------------------------------------------
(* The inductive invariant                                                 *)

Moves == Receives \cup Sends \cup {"writev"}

InProgress == spc \notin {"idle", "returned"}

(* Where a call stands: between calls there is none, the bytes moved are   *)
(* those next in line, and a call that still has to move some has room.    *)
MovedInOrder ==
  /\ sock.avail + sock.read <= MaxStream
  /\ spc = "idle" => call = NoCall
  /\ call.fn \in Receives => /\ call.done = Piece(call.start, Len(call.done))
                             /\ sock.read = call.start + Len(call.done)
  /\ call.fn \in Sends \cup {"writev"} => call.done = Piece(0, Len(call.done))
  /\ InProgress /\ call.fn \in Moves => Len(call.done) < call.length
  /\ InProgress /\ call.fn \in {"recv", "once"} => call.done = <<>>

(* What lthread_writev has still to write begins at iov_index, is without  *)
(* a gap and ends where the last iovec does.                               *)
WritevGoesOn ==
  InProgress /\ call.fn = "writev" =>
    /\ call.iov_index < Len(call.iov)
    /\ call.iov[call.iov_index + 1].base = Len(call.done)
    /\ \A i \in (call.iov_index + 1)..(Len(call.iov) - 1) : EndOf(call.iov[i]) = call.iov[i + 1].base
    /\ EndOf(call.iov[Len(call.iov)]) = call.length
    /\ call.iov[Len(call.iov)].len > 0

(* EXPIRED is the timer of this call from the wait to the test after it.   *)
TimerOfThisCall ==
  /\ call.timed => call.fn \in TestsTime
  /\ call.fired => call.timed
  /\ spc \notin {"woken", "returned"} => ~call.fired
  /\ spc = "wait" => ~flags.expired
  /\ spc = "woken" => (call.fired <=> flags.expired)

SocketInv == /\ SocketTypeOK /\ MovedInOrder /\ WritevGoesOn /\ TimerOfThisCall
             /\ CallsReportTruth

Functions == Receives \cup Sends \cup Waits \cup {"none", "connect", "accept", "writev"}

(* The type of the call, field by field.                                   *)
LEMMA CallFields ==
  ASSUME SocketInv
  PROVE  /\ call = [fn |-> call.fn, length |-> call.length, timed |-> call.timed, done |-> call.done,
                    start |-> call.start, iov |-> call.iov, iov_index |-> call.iov_index,
                    fired |-> call.fired, ret |-> call.ret]
         /\ call.fn \in Functions /\ call.length \in Nat /\ call.timed \in BOOLEAN
         /\ call.done \in Seq(Nat) /\ Len(call.done) \in Nat /\ call.start \in Nat
         /\ call.iov \in Seq([base : Nat, len : Nat]) /\ Len(call.iov) \in Nat
         /\ call.iov_index \in Nat /\ call.fired \in BOOLEAN /\ call.ret \in Int
  BY DEF SocketInv, SocketTypeOK, Functions

(* The kernel's side and the flags.                                        *)
LEMMA SockFields ==
  ASSUME SocketInv
  PROVE  /\ sock = [state |-> sock.state, avail |-> sock.avail, read |-> sock.read, room |-> sock.room]
         /\ sock.avail \in 0..MaxStream /\ sock.read \in 0..MaxStream /\ sock.room \in 0..MaxRoom
         /\ sock.avail + sock.read <= MaxStream
         /\ flags = [ops |-> flags.ops, fdeof |-> flags.fdeof, expired |-> flags.expired]
         /\ flags.ops \in 0..(MaxOps - 1) /\ flags.fdeof \in BOOLEAN /\ flags.expired \in BOOLEAN
  BY DEF SocketInv, SocketTypeOK, MovedInOrder

CallType == [fn : Functions, length : Nat, timed : BOOLEAN, done : Seq(Nat), start : Nat,
             iov : Seq([base : Nat, len : Nat]), iov_index : Nat, fired : BOOLEAN, ret : Int]
SockState == {"none", "connecting", "refused", "listening", "up", "half", "hup", "reset", "closed"}
SockType  == [state : SockState, avail : 0..MaxStream, read : 0..MaxStream, room : 0..MaxRoom]
FlagsType == [ops : 0..(MaxOps - 1), fdeof : BOOLEAN, expired : BOOLEAN]

LEMMA ReturnTyped ==
  ASSUME SocketInv, NEW e \in Int, Return(e)
  PROVE  /\ spc' = "returned" /\ call' \in CallType /\ call'.ret = e
         /\ call'.fn = call.fn /\ call'.length = call.length /\ call'.timed = call.timed
         /\ call'.done = call.done /\ call'.start = call.start /\ call'.iov = call.iov
         /\ call'.iov_index = call.iov_index /\ call'.fired = call.fired
<1>1. call \in CallType
  BY DEF SocketInv, SocketTypeOK, CallType, Functions
<1> QED BY <1>1 DEF Return, CallType

LEMMA YieldedTyped ==
  ASSUME SocketInv
  PROVE  Yielded \in FlagsType /\ ~Yielded.expired /\ Yielded.fdeof = flags.fdeof
<1>1. flags \in FlagsType /\ 0 \in 0..(MaxOps - 1)
  BY SocketAssumption DEF SocketInv, SocketTypeOK, FlagsType
<1> QED BY <1>1 DEF Yielded, FlagsType

(* A step that does nothing to the call but to let it go on, with the      *)
(* flags it may have where it goes.                                        *)
LEMMA GoesOn ==
  ASSUME SocketInv, SocketTypeOK', UNCHANGED call, InProgress, InProgress',
         sock'.read = sock.read, sock'.avail + sock'.read <= MaxStream,
         spc' = "woken" => (call.fired <=> flags'.expired),
         spc' # "woken" => ~call.fired, spc' = "wait" => ~flags'.expired
  PROVE  SocketInv'
<1>1. MovedInOrder'
  BY DEF SocketInv, MovedInOrder, InProgress, Moves, Piece
<1>2. WritevGoesOn'
  BY DEF SocketInv, WritevGoesOn, InProgress
<1>3. TimerOfThisCall'
  BY DEF SocketInv, TimerOfThisCall, InProgress
<1>4. CallsReportTruth'
  BY DEF InProgress, CallsReportTruth, BytesInOrder, AllOrTold, TimeoutIsReal, Returned
<1> QED BY <1>1, <1>2, <1>3, <1>4 DEF SocketInv

(* A call that returns an error with the bytes as they were.               *)
LEMMA Fails ==
  ASSUME SocketInv, InProgress, NEW e \in Int, Return(e), SocketTypeOK', e < 0,
         UNCHANGED <<sock, flags>>,
         e = -2 <=> call.fired /\ ~(call.fn \in Waits /\ flags.fdeof)
  PROVE  SocketInv'
<1>1. /\ spc' = "returned" /\ ~InProgress' /\ call'.ret = e /\ call'.fn = call.fn
      /\ call'.done = call.done /\ call'.start = call.start /\ call'.length = call.length
      /\ call'.timed = call.timed /\ call'.fired = call.fired
  BY CallFields DEF Return, InProgress
<1>2. MovedInOrder'
  BY <1>1 DEF SocketInv, MovedInOrder, Piece
<1>3. WritevGoesOn' /\ TimerOfThisCall'
  BY <1>1 DEF SocketInv, WritevGoesOn, TimerOfThisCall
<1>4. BytesInOrder'
  BY <1>1 DEF SocketInv, MovedInOrder, BytesInOrder, Returned, Piece
<1>5. AllOrTold' /\ TimeoutIsReal'
  BY <1>1 DEF AllOrTold, TimeoutIsReal, Returned
<1> QED BY <1>2, <1>3, <1>4, <1>5 DEF SocketInv, CallsReportTruth

LEMMA TopStep == ASSUME SocketInv, Top PROVE SocketInv'
<1> USE SocketAssumption
<1>1. InProgress /\ spc = "top" /\ ~call.fired /\ UNCHANGED sock
  BY DEF Top, InProgress, SocketInv, TimerOfThisCall
<1>2. CASE Return(-1) /\ UNCHANGED flags
  <2>1. SocketTypeOK'
    BY <1>1, <1>2, ReturnTyped DEF SocketInv, SocketTypeOK, CallType, Functions
  <2> QED BY <1>1, <1>2, <2>1, Fails
<1>3. CASE /\ UNCHANGED call
           /\ \/ spc' = "sys" /\ UNCHANGED flags
              \/ flags.ops + 1 < MaxOps /\ spc' = "sys" /\ flags' = [flags EXCEPT !.ops = @ + 1]
              \/ spc' = "reniced" /\ flags' = Yielded
  <2>0. ASSUME flags.ops + 1 < MaxOps, flags' = [flags EXCEPT !.ops = @ + 1]
        PROVE  flags' \in FlagsType
    <3>1. flags \in FlagsType /\ flags.ops + 1 \in 0..(MaxOps - 1)
      BY <2>0, SockFields, SMTT(40) DEF SocketInv, SocketTypeOK, FlagsType
    <3> QED BY <2>0, <3>1 DEF FlagsType
  <2>1. flags' \in [ops : 0..(MaxOps - 1), fdeof : BOOLEAN, expired : BOOLEAN]
    BY <1>3, <2>0, YieldedTyped DEF SocketInv, SocketTypeOK, FlagsType
  <2>2. SocketTypeOK' /\ InProgress' /\ spc' \notin {"woken", "wait"}
    BY <1>1, <1>3, <2>1 DEF SocketInv, SocketTypeOK, InProgress
  <2> QED BY <1>1, <1>3, <2>2, SockFields, GoesOn
<1> QED BY <1>2, <1>3 DEF Top

LEMMA WaitStep ==
  ASSUME SocketInv, Reniced \/ Block \/ Event \/ ClosedByOther
  PROVE  SocketInv'
<1> USE SocketAssumption
<1>1. CASE Reniced
  <2>1. SocketTypeOK' /\ InProgress /\ InProgress' /\ ~call.fired
    BY <1>1 DEF Reniced, SocketInv, SocketTypeOK, InProgress, TimerOfThisCall
  <2> QED BY <1>1, <2>1, SockFields, GoesOn DEF Reniced
<1>2. CASE Block
  <2>1. flags' \in [ops : 0..(MaxOps - 1), fdeof : BOOLEAN, expired : BOOLEAN] /\ ~flags'.expired
    BY <1>2, YieldedTyped DEF Block, FlagsType
  <2>2. SocketTypeOK' /\ InProgress /\ InProgress' /\ ~call.fired
    BY <1>2, <2>1 DEF Block, SocketInv, SocketTypeOK, InProgress, TimerOfThisCall
  <2> QED BY <1>2, <2>1, <2>2, SockFields, GoesOn DEF Block
<1>3. CASE Event
  <2>1. /\ flags' \in [ops : 0..(MaxOps - 1), fdeof : BOOLEAN, expired : BOOLEAN]
        /\ flags'.expired = flags.expired
    BY <1>3, SockFields DEF Event
  <2>2. SocketTypeOK' /\ InProgress /\ InProgress' /\ ~call.fired /\ ~flags.expired
    BY <1>3, <2>1 DEF Event, SocketInv, SocketTypeOK, InProgress, TimerOfThisCall
  <2> QED BY <1>3, <2>1, <2>2, SockFields, GoesOn DEF Event
<1>4. CASE ClosedByOther
  <2>1. /\ flags' \in [ops : 0..(MaxOps - 1), fdeof : BOOLEAN, expired : BOOLEAN]
        /\ flags'.expired = flags.expired
    <3>1. CASE flags' = [flags EXCEPT !.fdeof = TRUE]
      BY <3>1, SockFields
    <3>2. CASE flags' = flags
      BY <3>2 DEF SocketInv, SocketTypeOK
    <3> QED BY <1>4, <3>1, <3>2 DEF ClosedByOther
  <2>2. /\ sock'.avail = 0 /\ sock'.read = sock.read
        /\ sock' = [state |-> "closed", avail |-> 0, read |-> sock.read, room |-> sock.room]
    BY <1>4, SockFields DEF ClosedByOther
  <2>3. SocketTypeOK' /\ InProgress /\ InProgress' /\ ~call.fired
    BY <1>4, <2>1, <2>2, SockFields, SMTT(40) DEF ClosedByOther, SocketInv, SocketTypeOK, InProgress, TimerOfThisCall
  <2>4. spc' # "wait" /\ (spc' = "woken" => ~flags'.expired)
    BY <1>4, <2>1, SMTT(40) DEF ClosedByOther, SocketInv, TimerOfThisCall
  <2> QED BY <1>4, <2>1, <2>2, <2>3, <2>4, SockFields, GoesOn DEF ClosedByOther
<1> QED BY <1>1, <1>2, <1>3, <1>4

LEMMA TimerStep == ASSUME SocketInv, Timer PROVE SocketInv'
<1>0. call \in CallType /\ flags \in FlagsType
  BY DEF SocketInv, SocketTypeOK, CallType, Functions, FlagsType
<1>1. /\ call' \in CallType /\ call'.fired /\ call'.fn = call.fn /\ call'.length = call.length
      /\ call'.timed = call.timed /\ call'.done = call.done /\ call'.start = call.start
      /\ call'.iov = call.iov /\ call'.iov_index = call.iov_index
  BY <1>0 DEF Timer, CallType
<1>2. flags' \in FlagsType /\ flags'.expired
  BY <1>0 DEF Timer, FlagsType
<1>3. SocketTypeOK' /\ InProgress /\ InProgress' /\ spc' = "woken" /\ call.timed /\ UNCHANGED sock
  BY <1>1, <1>2 DEF SocketInv, SocketTypeOK, CallType, Functions, FlagsType, Timer, InProgress
<1>4. MovedInOrder'
  BY <1>1, <1>3 DEF SocketInv, MovedInOrder, InProgress, Moves, Piece
<1>5. WritevGoesOn'
  BY <1>1, <1>3 DEF SocketInv, WritevGoesOn
<1>6. TimerOfThisCall'
  BY <1>1, <1>2, <1>3 DEF SocketInv, TimerOfThisCall
<1>7. CallsReportTruth'
  BY <1>3 DEF CallsReportTruth, BytesInOrder, AllOrTold, TimeoutIsReal, Returned
<1> QED BY <1>3, <1>4, <1>5, <1>6, <1>7 DEF SocketInv

(* A call that is over with no bytes to report on.                         *)
LEMMA Ends ==
  ASSUME SocketInv, InProgress, NEW e \in Int, Return(e), SocketTypeOK', call.fn \notin Moves,
         UNCHANGED flags, sock'.read = sock.read, sock'.avail + sock'.read <= MaxStream,
         e = -2 <=> call.fired /\ ~(call.fn \in Waits /\ flags.fdeof)
  PROVE  SocketInv'
<1>1. ~InProgress' /\ spc' # "idle"
  BY ReturnTyped DEF InProgress
<1>2. MovedInOrder'
  BY <1>1, ReturnTyped DEF SocketInv, MovedInOrder, Moves
<1>3. WritevGoesOn' /\ TimerOfThisCall'
  BY <1>1, ReturnTyped DEF SocketInv, WritevGoesOn, TimerOfThisCall
<1>4. BytesInOrder' /\ AllOrTold'
  BY <1>1, ReturnTyped DEF BytesInOrder, AllOrTold, Returned, Moves, Receives, Sends
<1>5. TimeoutIsReal'
  BY <1>1, ReturnTyped DEF TimeoutIsReal
<1> QED BY <1>2, <1>3, <1>4, <1>5 DEF SocketInv, CallsReportTruth

LEMMA AfterWaitStep == ASSUME SocketInv, AfterWait PROVE SocketInv'
<1>1. /\ InProgress /\ spc = "woken" /\ (call.fired <=> flags.expired)
      /\ UNCHANGED <<sock, flags>> /\ (call.fired => call.fn \in TestsTime)
  BY DEF AfterWait, InProgress, SocketInv, TimerOfThisCall
<1>2. ASSUME NEW e \in Int, Return(e) PROVE SocketTypeOK'
  BY <1>1, <1>2, ReturnTyped DEF SocketInv, SocketTypeOK, CallType, Functions
<1>3. CASE call.fn \in Waits /\ flags.fdeof /\ Return(-1)
  BY <1>1, <1>2, <1>3, Fails
<1>4. CASE ~(call.fn \in Waits /\ flags.fdeof) /\ flags.expired /\ Return(-2)
  BY <1>1, <1>2, <1>4, Fails
<1>5. CASE call.fn \in Waits /\ ~flags.fdeof /\ ~flags.expired /\ Return(0)
  <2>1. call.fn \notin Moves
    BY <1>5 DEF Waits, Moves, Receives, Sends
  <2> QED BY <1>1, <1>2, <1>5, <2>1, SockFields, Ends
<1>6. CASE ~(call.fn \in TestsTime /\ flags.expired) /\ spc' = "top" /\ UNCHANGED call
  <2>1. SocketTypeOK' /\ InProgress'
    BY <1>1, <1>6 DEF SocketInv, SocketTypeOK, InProgress
  <2> QED BY <1>1, <1>6, <2>1, SockFields, GoesOn
<1> QED BY <1>3, <1>4, <1>5, <1>6 DEF AfterWait

LEMMA AcceptConnectStep == ASSUME SocketInv, Accept \/ Connect PROVE SocketInv'
<1>1. /\ InProgress /\ spc = "sys" /\ ~call.fired /\ UNCHANGED flags /\ call.fn \in {"accept", "connect"}
      /\ call.fn \notin Moves
  BY DEF Accept, Connect, InProgress, SocketInv, TimerOfThisCall, Moves, Receives, Sends
<1>2. sock' = sock \/ (sock.avail > 0 /\ sock' = [sock EXCEPT !.avail = @ - 1])
  BY DEF Accept, Connect, Blocks, ECONNABORTED, EAGAIN
<1>3. /\ sock'.read = sock.read /\ sock'.avail + sock'.read <= MaxStream
      /\ sock' \in [state : {"none", "connecting", "refused", "listening", "up",
                            "half", "hup", "reset", "closed"},
                   avail : 0..MaxStream, read : 0..MaxStream, room : 0..MaxRoom]
  <2>1. CASE sock' = sock
    BY <2>1, SockFields DEF SocketInv, SocketTypeOK
  <2>2. CASE sock.avail > 0 /\ sock' = [sock EXCEPT !.avail = @ - 1]
    <3>1. sock'.avail = sock.avail - 1 /\ sock'.read = sock.read
      BY <2>2, SockFields
    <3>2. sock.avail - 1 \in 0..MaxStream
      BY <2>2, SockFields, SocketAssumption
    <3>3. sock' \in SockType
      BY <2>2, <3>2 DEF SocketInv, SocketTypeOK, SockType, SockState
    <3>4. (sock.avail - 1) + sock.read <= MaxStream
      BY SockFields, SocketAssumption
    <3> QED BY <3>1, <3>3, <3>4 DEF SockType, SockState
  <2> QED BY <1>2, <2>1, <2>2
<1>4. CASE UNCHANGED call /\ spc' \in {"block", "top"}
  <2>1. SocketTypeOK' /\ InProgress'
    BY <1>1, <1>3, <1>4 DEF SocketInv, SocketTypeOK, InProgress
  <2> QED BY <1>1, <1>3, <1>4, <2>1, GoesOn
<1>5. CASE \E e \in {-1, 0, 1} : Return(e)
  <2>1. PICK e \in {-1, 0, 1} : Return(e)
    BY <1>5
  <2>2. e \in Int /\ e # -2
    OBVIOUS
  <2>3. SocketTypeOK'
    BY <1>1, <1>3, <2>1, <2>2, ReturnTyped DEF SocketInv, SocketTypeOK, CallType, Functions
  <2> QED BY <1>1, <1>3, <2>1, <2>2, <2>3, Ends
<1> QED BY <1>4, <1>5 DEF Accept, Connect, Blocks, ECONNABORTED, EAGAIN

(* Between calls: descriptors come and go, a call begins, a result is      *)
(* looked at.                                                              *)
LEMMA IdleSteps ==
  ASSUME SocketInv, lthread_pipe \/ lthread_socket \/ lthread_close \/ CloseOnly
  PROVE  SocketInv'
<1>1. spc = "idle" /\ UNCHANGED <<spc, call>> /\ call = NoCall
  BY DEF lthread_pipe, lthread_socket, lthread_close, CloseOnly, SocketInv, MovedInOrder
<1>2. sock \in SockType /\ flags \in FlagsType
  BY DEF SocketInv, SocketTypeOK, SockType, SockState, FlagsType
<1>3. /\ sock' \in SockType /\ sock'.avail + sock'.read <= MaxStream
      /\ flags' \in FlagsType
  <2>1. CASE lthread_pipe \/ lthread_socket
    <3>1. sock' = sock \/ \E st \in SockState : sock' = [sock EXCEPT !.state = st]
      BY <2>1 DEF lthread_pipe, lthread_socket, Created, SockState
    <3>2. sock' \in SockType /\ sock'.avail = sock.avail /\ sock'.read = sock.read
      BY <1>2, <3>1 DEF SockType
    <3> QED BY <1>2, <2>1, <3>2, SockFields DEF lthread_pipe, lthread_socket
  <2>2. CASE lthread_close \/ CloseOnly
    <3>1. sock' = NoSock
      BY <2>2 DEF lthread_close, CloseOnly
    <3>2. flags' \in FlagsType
      BY <1>2, <2>2 DEF lthread_close, CloseOnly, FlagsType
    <3> QED BY <3>1, <3>2, SocketAssumption DEF NoSock, SockType, SockState
  <2> QED BY <2>1, <2>2
<1>4. SocketTypeOK'
  BY <1>1, <1>3 DEF SocketInv, SocketTypeOK, SockType, SockState, FlagsType
<1>5. MovedInOrder' /\ WritevGoesOn' /\ TimerOfThisCall'
  BY <1>1, <1>3 DEF MovedInOrder, WritevGoesOn, TimerOfThisCall, NoCall, InProgress, Receives, Sends, Moves, TestsTime
<1>6. CallsReportTruth'
  BY <1>1 DEF CallsReportTruth, BytesInOrder, AllOrTold, TimeoutIsReal, Returned
<1> QED BY <1>4, <1>5, <1>6 DEF SocketInv

LEMMA CollectStep == ASSUME SocketInv, Collect PROVE SocketInv'
<1>1. spc' = "idle" /\ call' = NoCall /\ UNCHANGED <<sock, flags>>
  BY DEF Collect
<1>2. NoCall \in CallType
  BY DEF NoCall, CallType, Functions
<1>3. SocketTypeOK'
  BY <1>1, <1>2 DEF SocketInv, SocketTypeOK, CallType, Functions
<1>4. MovedInOrder' /\ WritevGoesOn' /\ TimerOfThisCall'
  BY <1>1, SockFields DEF MovedInOrder, WritevGoesOn, TimerOfThisCall, NoCall, InProgress, Receives, Sends, Moves, TestsTime
<1>5. CallsReportTruth'
  BY <1>1 DEF CallsReportTruth, BytesInOrder, AllOrTold, TimeoutIsReal, Returned
<1> QED BY <1>3, <1>4, <1>5 DEF SocketInv

(* The call that begins has its bytes before it.                           *)
LEMMA BeginStep ==
  ASSUME SocketInv, NEW fn \in Functions, NEW n \in Nat, NEW timed \in BOOLEAN,
         NEW iov \in Seq([base : Nat, len : Nat]), BeginCall(fn, n, timed, iov),
         fn # "none", fn \in Moves => n > 0, timed => fn \in TestsTime,
         fn = "writev" => /\ IovOf(iov) /\ iov[Len(iov)].len > 0 /\ n = EndOf(iov[Len(iov)])
  PROVE  SocketInv'
<1>0. /\ sock.read \in Nat /\ spc = "idle" /\ UNCHANGED <<sock, flags>>
      /\ spc' \in {"block", "top"} /\ InProgress'
  BY SockFields, SocketAssumption DEF BeginCall, InProgress
<1>1. call' = [fn |-> fn, length |-> n, timed |-> timed, done |-> <<>>, start |-> sock.read,
               iov |-> iov, iov_index |-> 0, fired |-> FALSE, ret |-> 0]
  BY DEF BeginCall, NoCall
<1>2. call' \in CallType
  BY <1>0, <1>1 DEF CallType
<1>3. SocketTypeOK'
  BY <1>0, <1>2 DEF SocketInv, SocketTypeOK, CallType, Functions
<1>4. MovedInOrder'
  <2>1. Piece(sock.read, 0) = <<>> /\ Piece(0, 0) = <<>> /\ Len(<<>>) = 0 /\ sock.read + 0 = sock.read
    BY <1>0, PieceEmpty
  <2> QED BY <1>0, <1>1, <2>1, SockFields DEF MovedInOrder, Piece
<1>5. WritevGoesOn'
  <2> SUFFICES ASSUME fn = "writev"
               PROVE  /\ 0 < Len(iov) /\ iov[0 + 1].base = Len(<<>>)
                      /\ \A i \in (0 + 1)..(Len(iov) - 1) : EndOf(iov[i]) = iov[i + 1].base
                      /\ EndOf(iov[Len(iov)]) = n /\ iov[Len(iov)].len > 0
    BY <1>1 DEF WritevGoesOn
  <2> QED BY DEF IovOf
<1>6. TimerOfThisCall'
  BY <1>0, <1>1 DEF TimerOfThisCall
<1>7. CallsReportTruth'
  BY <1>0 DEF CallsReportTruth, BytesInOrder, AllOrTold, TimeoutIsReal, Returned
<1> QED BY <1>3, <1>4, <1>5, <1>6, <1>7 DEF SocketInv

LEMMA StartStep == ASSUME SocketInv, Start PROVE SocketInv'
<1> USE SocketAssumption
<1>0. <<>> \in Seq([base : Nat, len : Nat])
  OBVIOUS
<1>1. CASE \E fn \in Receives, n \in Length, timed \in BOOLEAN : BeginCall(fn, n, timed, <<>>)
  <2>1. PICK fn \in Receives, n \in Length, timed \in BOOLEAN : BeginCall(fn, n, timed, <<>>)
    BY <1>1
  <2>2. /\ fn \in Functions /\ fn # "none" /\ fn \in TestsTime /\ fn # "writev"
        /\ n \in Nat /\ n > 0
    BY DEF Functions, Receives, TestsTime
  <2> QED BY <1>0, <2>1, <2>2, BeginStep
<1>2. CASE \E fn \in Sends, n \in Length : BeginCall(fn, n, FALSE, <<>>)
  <2>1. PICK fn \in Sends, n \in Length : BeginCall(fn, n, FALSE, <<>>)
    BY <1>2
  <2>2. /\ fn \in Functions /\ fn # "none" /\ fn # "writev" /\ n \in Nat /\ n > 0
    BY DEF Functions, Sends
  <2> QED BY <1>0, <2>1, <2>2, BeginStep
<1>3. CASE \E iov \in Iovs : BeginCall("writev", EndOf(iov[Len(iov)]), FALSE, iov)
  <2>1. PICK iov \in Iovs : BeginCall("writev", EndOf(iov[Len(iov)]), FALSE, iov)
    BY <1>3
  <2>2. /\ IovOf(iov) /\ iov[Len(iov)].len > 0 /\ iov \in Seq([base : Nat, len : Nat])
        /\ iov # <<>>
    BY DEF IovOf
  <2>3. iov[Len(iov)] \in [base : Nat, len : Nat]
    <3>1. Len(iov) \in 1..Len(iov)
      BY <2>2
    <3> QED BY <2>2, <3>1, ElementOfSeq, Zenon
  <2>4. EndOf(iov[Len(iov)]) \in Nat /\ EndOf(iov[Len(iov)]) > 0
    BY <2>2, <2>3 DEF EndOf
  <2>5. "writev" \in Functions /\ "writev" # "none"
    BY DEF Functions
  <2> QED BY <2>1, <2>2, <2>4, <2>5, BeginStep
<1>4. CASE \E fn \in Waits, timed \in BOOLEAN : BeginCall(fn, 0, timed, <<>>)
  <2>1. PICK fn \in Waits, timed \in BOOLEAN : BeginCall(fn, 0, timed, <<>>)
    BY <1>4
  <2>2. fn \in Functions /\ fn # "none" /\ fn \notin Moves /\ fn \in TestsTime /\ fn # "writev"
    BY DEF Functions, Waits, Moves, Receives, Sends, TestsTime
  <2> QED BY <1>0, <2>1, <2>2, BeginStep
<1>5. CASE \E timed \in BOOLEAN : BeginCall("connect", 0, timed, <<>>)
  <2>1. PICK timed \in BOOLEAN : BeginCall("connect", 0, timed, <<>>)
    BY <1>5
  <2>2. "connect" \in Functions /\ "connect" \notin Moves /\ "connect" \in TestsTime
    BY DEF Functions, Moves, Receives, Sends, TestsTime
  <2> QED BY <1>0, <2>1, <2>2, BeginStep
<1>6. CASE BeginCall("accept", 0, FALSE, <<>>)
  <2>2. "accept" \in Functions /\ "accept" \notin Moves
    BY DEF Functions, Moves, Receives, Sends
  <2> QED BY <1>0, <1>6, <2>2, BeginStep
<1> QED BY <1>1, <1>2, <1>3, <1>4, <1>5, <1>6 DEF Start

(* Whatever the peer and the kernel do, the call stays what it is.         *)
LEMMA EnvironmentStep == ASSUME SocketInv, Environment PROVE SocketInv'
<1> USE SocketAssumption
<1>1. UNCHANGED <<spc, call, flags>> /\ sock \in SockType
  BY DEF Environment, SocketInv, SocketTypeOK, SockType, SockState
<1>2. /\ sock' \in SockType /\ sock'.read = sock.read /\ sock'.avail + sock'.read <= MaxStream
      /\ sock.avail = 0 /\ sock.state \in {"half", "hup", "reset"} =>
           sock'.avail = 0 /\ sock'.state \in {"half", "hup", "reset"}
  <2>1. CASE Arrive
    <3>1. sock.avail + 1 \in 0..MaxStream /\ (sock.avail + 1) + sock.read <= MaxStream
      BY <2>1, SockFields DEF Arrive
    <3>2. sock'.avail = sock.avail + 1 /\ sock'.read = sock.read /\ sock'.state = sock.state
      BY <1>1, <2>1 DEF Arrive, SockType
    <3>3. sock' \in SockType
      BY <1>1, <2>1, <3>1 DEF Arrive, SockType
    <3> QED BY <2>1, <3>1, <3>2, <3>3 DEF Arrive
  <2>2. CASE Drain
    <3>1. sock.room + 1 \in 0..MaxRoom
      BY <2>2, SockFields DEF Drain
    <3>2. sock'.avail = sock.avail /\ sock'.read = sock.read /\ sock'.state = sock.state
      BY <1>1, <2>2 DEF Drain, SockType
    <3>3. sock' \in SockType
      BY <1>1, <2>2, <3>1 DEF Drain, SockType
    <3> QED BY <3>2, <3>3, SockFields
  <2>3. CASE Established
    <3>1. /\ sock' \in SockType /\ sock'.avail = sock.avail /\ sock'.read = sock.read
          /\ sock.state = "connecting"
      BY <1>1, <2>3 DEF Established, SockType, SockState
    <3> QED BY <3>1, SockFields
  <2>4. CASE PeerEnds
    <3>1. PICK st \in {"refused", "half", "hup", "reset"} :
            \/ sock' = [sock EXCEPT !.state = st] /\ (st # "refused" \/ sock.state = "connecting")
            \/ sock' = [sock EXCEPT !.state = st, !.avail = 0] /\ st # "refused"
      BY <2>4 DEF PeerEnds
    <3>2. /\ sock' \in SockType /\ sock'.avail \in {sock.avail, 0} /\ sock'.read = sock.read
          /\ sock'.state = st /\ (st # "refused" \/ sock.state = "connecting")
      <4>1. 0 \in 0..MaxStream
        OBVIOUS
      <4>2. CASE sock' = [sock EXCEPT !.state = st] /\ (st # "refused" \/ sock.state = "connecting")
        BY <1>1, <4>2 DEF SockType, SockState
      <4>3. CASE sock' = [sock EXCEPT !.state = st, !.avail = 0] /\ st # "refused"
        BY <1>1, <4>1, <4>3 DEF SockType, SockState
      <4> QED BY <3>1, <4>2, <4>3
    <3> QED BY <3>2, SockFields
  <2> QED BY <2>1, <2>2, <2>3, <2>4 DEF Environment
<1>3. SocketTypeOK'
  BY <1>1, <1>2 DEF SocketInv, SocketTypeOK, SockType, SockState
<1>4. MovedInOrder'
  BY <1>1, <1>2 DEF SocketInv, MovedInOrder, InProgress, Piece
<1>5. WritevGoesOn' /\ TimerOfThisCall'
  BY <1>1 DEF SocketInv, WritevGoesOn, TimerOfThisCall, InProgress
<1>6. BytesInOrder'
  BY <1>1 DEF SocketInv, CallsReportTruth, BytesInOrder, Returned, Piece
<1>7. AllOrTold' /\ TimeoutIsReal'
  BY <1>1, <1>2 DEF SocketInv, CallsReportTruth, AllOrTold, TimeoutIsReal, Returned
<1> QED BY <1>3, <1>4, <1>5, <1>6, <1>7 DEF SocketInv, CallsReportTruth

-----------------------------------------------------------------------------
(* The system calls                                                        *)

(* What they return.                                                       *)
LEMMA RecvResults ==
  ASSUME SocketInv, NEW n \in Nat, n > 0, NEW r \in RecvResult(n)
  PROVE  \/ r = EAGAIN \/ r = -1
         \/ r = 0 /\ sock.avail = 0 /\ sock.state \in {"half", "hup"}
         \/ r \in Nat /\ r > 0 /\ r <= n /\ r <= sock.avail
<1>1. sock.avail \in Nat
  BY SockFields, SocketAssumption
<1>2. Min({n, sock.avail}) \in Nat /\ Min({n, sock.avail}) <= n /\ Min({n, sock.avail}) <= sock.avail
  BY <1>1, MinPair
<1> QED BY <1>1, <1>2 DEF RecvResult

LEMMA SendResults ==
  ASSUME SocketInv, NEW n \in Nat, n > 0, NEW r \in SendResult(n)
  PROVE  r = EAGAIN \/ r = -1 \/ (r \in Nat /\ r > 0 /\ r <= n /\ r <= sock.room)
<1>1. sock.room \in Nat
  BY SockFields, SocketAssumption
<1>2. Min({n, sock.room}) \in Nat /\ Min({n, sock.room}) <= n /\ Min({n, sock.room}) <= sock.room
  BY <1>1, MinPair
<1> QED BY <1>1, <1>2 DEF SendResult

(* The lthread is about to make a system call.                             *)
LEMMA AtSys ==
  ASSUME SocketInv, spc = "sys"
  PROVE  /\ InProgress /\ ~call.fired
         /\ call.fn \in Moves => Len(call.done) < call.length
         /\ call.fn \in {"recv", "once"} => call.done = <<>>
         /\ sock \in SockType /\ call \in CallType
  BY DEF SocketInv, InProgress, TimerOfThisCall, MovedInOrder, SocketTypeOK, SockType, SockState,
         CallType, Functions

LEMMA BlocksStep == ASSUME SocketInv, spc = "sys", Blocks, UNCHANGED flags PROVE SocketInv'
<1>1. SocketTypeOK' /\ InProgress'
  BY DEF Blocks, SocketInv, SocketTypeOK, InProgress
<1> QED BY <1>1, AtSys, SockFields, GoesOn DEF Blocks

LEMMA ErrorStep ==
  ASSUME SocketInv, spc = "sys", Return(-1), UNCHANGED <<sock, flags>>
  PROVE  SocketInv'
<1>1. SocketTypeOK'
  BY ReturnTyped DEF SocketInv, SocketTypeOK, CallType, Functions
<1> QED BY <1>1, AtSys, Fails

(* recv returns 0: the peer has closed and all there was has been read.    *)
LEMMA EofStep ==
  ASSUME SocketInv, spc = "sys", call.fn \in Receives, UNCHANGED <<sock, flags>>,
         sock.avail = 0, sock.state \in {"half", "hup"},
         Return(IF call.fn = "exact" THEN Len(call.done) ELSE 0)
  PROVE  SocketInv'
<1> DEFINE e == IF call.fn = "exact" THEN Len(call.done) ELSE 0
<1>0. e \in Nat /\ Return(e) /\ (call.fn # "exact" => e = 0) /\ (call.fn = "exact" => e = Len(call.done))
  BY CallFields
<1> HIDE DEF e
<1>1. /\ spc' = "returned" /\ call' \in CallType /\ call'.ret = e
      /\ call'.fn = call.fn /\ call'.length = call.length /\ call'.timed = call.timed
      /\ call'.done = call.done /\ call'.start = call.start /\ call'.fired = call.fired
  BY <1>0, ReturnTyped
<1>2. SocketTypeOK' /\ ~InProgress' /\ ~call.fired
  BY <1>1, AtSys DEF SocketInv, SocketTypeOK, CallType, Functions, InProgress
<1>3. MovedInOrder'
  BY <1>1, <1>2 DEF SocketInv, MovedInOrder, Piece
<1>4. WritevGoesOn' /\ TimerOfThisCall'
  BY <1>1, <1>2 DEF SocketInv, WritevGoesOn, TimerOfThisCall
<1>5. BytesInOrder'
  BY <1>0, <1>1 DEF SocketInv, MovedInOrder, BytesInOrder, Returned, Receives, Sends, Piece
<1>6. AllOrTold' /\ TimeoutIsReal'
  BY <1>0, <1>1, <1>2 DEF AllOrTold, TimeoutIsReal, Returned, Receives
<1> QED BY <1>2, <1>3, <1>4, <1>5, <1>6 DEF SocketInv, CallsReportTruth

(* k more bytes are moved, and the loop goes on or the call is over.       *)
LEMMA ProgressStep ==
  ASSUME SocketInv, spc = "sys", call.fn \in Receives \cup Sends, UNCHANGED flags,
         NEW k \in Nat, k > 0, NEW done \in Seq(Nat), Len(done) = Len(call.done) + k,
         Len(done) <= call.length, NEW over \in BOOLEAN, Progress(done, over),
         sock' \in SockType, sock'.avail + sock'.read <= MaxStream,
         call.fn \in Receives => /\ done = Piece(call.start, Len(done))
                                 /\ sock'.read = call.start + Len(done),
         call.fn \in Sends => done = Piece(0, Len(done)),
         ~over => Len(done) # call.length /\ call.fn \notin {"recv", "once"},
         over /\ call.fn \in {"send", "exact"} => Len(done) = call.length
  PROVE  SocketInv'
<1>0. /\ call \in CallType /\ ~call.fired /\ Len(done) \in Nat /\ Len(done) > 0 /\ call.length \in Nat
      /\ call.fn # "writev"
  BY AtSys, CallFields, SMTT(40) DEF Receives, Sends
<1>1. /\ call'.fn = call.fn /\ call'.length = call.length /\ call'.timed = call.timed
      /\ call'.done = done /\ call'.start = call.start /\ call'.fired = call.fired
      /\ call' \in CallType
      /\ over => spc' = "returned" /\ call'.ret = Len(done)
      /\ ~over => spc' = "top"
  <2>1. CASE over
    <3>1. call' = [call EXCEPT !.done = done, !.ret = Len(done)] /\ spc' = "returned"
      BY <2>1 DEF Progress
    <3>2. Len(done) \in Int
      BY <1>0
    <3>3. call' \in CallType
      BY <1>0, <3>1, <3>2 DEF CallType
    <3>4. /\ call'.fn = call.fn /\ call'.length = call.length /\ call'.timed = call.timed
          /\ call'.start = call.start /\ call'.fired = call.fired
      BY <1>0, <3>1 DEF CallType
    <3>5. call'.done = done /\ call'.ret = Len(done)
      BY <1>0, <3>1 DEF CallType
    <3> QED BY <2>1, <3>1, <3>3, <3>4, <3>5
  <2>2. CASE ~over
    <3>1. call' = [call EXCEPT !.done = done] /\ spc' = "top"
      BY <2>2 DEF Progress
    <3> QED BY <1>0, <2>2, <3>1 DEF CallType
  <2> QED BY <2>1, <2>2
<1>2. SocketTypeOK'
  BY <1>1 DEF SocketInv, SocketTypeOK, CallType, Functions, SockType, SockState
<1>3. MovedInOrder'
  BY <1>0, <1>1, SMTT(40) DEF MovedInOrder, InProgress, Piece
<1>4. WritevGoesOn' /\ TimerOfThisCall'
  BY <1>0, <1>1 DEF SocketInv, WritevGoesOn, TimerOfThisCall
<1>5. BytesInOrder'
  BY <1>0, <1>1 DEF BytesInOrder, Returned, Piece
<1>6. AllOrTold' /\ TimeoutIsReal'
  BY <1>0, <1>1 DEF AllOrTold, TimeoutIsReal, Returned
<1> QED BY <1>2, <1>3, <1>4, <1>5, <1>6 DEF SocketInv, CallsReportTruth

LEMMA RecvStep == ASSUME SocketInv, Recv PROVE SocketInv'
<1> DEFINE want == IF call.fn = "readline" THEN 1 ELSE call.length - Len(call.done)
<1>0. /\ spc = "sys" /\ call.fn \in Receives /\ UNCHANGED flags /\ call.fn \in Moves
      /\ Len(call.done) < call.length /\ Len(call.done) \in Nat /\ call.length \in Nat
  BY AtSys, CallFields DEF Recv, Moves
<1>1. /\ want \in Nat /\ want > 0 /\ Len(call.done) + want <= call.length
  BY <1>0
<1>2. PICK r \in RecvResult(want) :
        \/ r = EAGAIN /\ Blocks
        \/ r = -1 /\ Return(-1) /\ UNCHANGED sock
        \/ /\ r = 0 /\ UNCHANGED sock
           /\ Return(IF call.fn = "exact" THEN Len(call.done) ELSE 0)
        \/ /\ r > 0 /\ Taken(r)
           /\ \E newline \in BOOLEAN :
                Progress(Stored(r),
                         \/ call.fn = "recv" \/ Len(Stored(r)) = call.length
                         \/ call.fn = "readline" /\ newline)
  BY DEF Recv
<1> HIDE DEF want
<1>3. \/ r = EAGAIN \/ r = -1
      \/ r = 0 /\ sock.avail = 0 /\ sock.state \in {"half", "hup"}
      \/ r \in Nat /\ r > 0 /\ r <= want /\ r <= sock.avail
  BY <1>1, RecvResults
<1>4. CASE Blocks
  BY <1>0, <1>4, BlocksStep
<1>5. CASE Return(-1) /\ UNCHANGED sock
  BY <1>0, <1>5, ErrorStep
<1>6. CASE /\ r = 0 /\ UNCHANGED sock
           /\ Return(IF call.fn = "exact" THEN Len(call.done) ELSE 0)
  <2>1. sock.avail = 0 /\ sock.state \in {"half", "hup"}
    BY <1>3, <1>6 DEF EAGAIN
  <2> QED BY <1>0, <1>6, <2>1, EofStep
<1>7. CASE /\ r > 0 /\ Taken(r)
           /\ \E newline \in BOOLEAN :
                Progress(Stored(r),
                         \/ call.fn = "recv" \/ Len(Stored(r)) = call.length
                         \/ call.fn = "readline" /\ newline)
  <2>1. r \in Nat /\ r > 0 /\ r <= want /\ r <= sock.avail
    BY <1>3, <1>7 DEF EAGAIN
  <2>2. /\ sock.avail - r \in 0..MaxStream /\ sock.read + r \in 0..MaxStream
        /\ (sock.avail - r) + (sock.read + r) <= MaxStream /\ sock.read \in Nat
    BY <2>1, SockFields, SocketAssumption, SMTT(40)
  <2>3. sock' \in SockType /\ sock'.avail = sock.avail - r /\ sock'.read = sock.read + r
    BY <1>0, <1>7, <2>2, AtSys DEF Taken, SockType
  <2>4. /\ call.start \in Nat /\ call.done = Piece(call.start, Len(call.done))
        /\ sock.read = call.start + Len(call.done)
    BY <1>0, CallFields DEF SocketInv, MovedInOrder
  <2>5. /\ Stored(r) = Piece(call.start, Len(call.done) + r) /\ Stored(r) \in Seq(Nat)
        /\ Len(Stored(r)) = Len(call.done) + r
    <3>1. Stored(r) = call.done \o Piece(call.start + Len(call.done), r)
      BY <2>4 DEF Stored, Piece
    <3>2. Piece(call.start, Len(call.done)) \o Piece(call.start + Len(call.done), r)
            = Piece(call.start, Len(call.done) + r)
      BY <1>0, <2>1, <2>4, PieceIs, ZenonT(60)
    <3>3. Stored(r) = Piece(call.start, Len(call.done) + r)
      BY <2>4, <3>1, <3>2
    <3>4. Len(call.done) + r \in Nat
      BY <1>0, <2>1
    <3> QED BY <2>4, <3>3, <3>4, PieceTyped, ZenonT(60)
  <2>6. PICK newline \in BOOLEAN :
          Progress(Stored(r),
                   \/ call.fn = "recv" \/ Len(Stored(r)) = call.length
                   \/ call.fn = "readline" /\ newline)
    BY <1>7
  <2> DEFINE over == \/ call.fn = "recv" \/ Len(Stored(r)) = call.length
                     \/ call.fn = "readline" /\ newline
  <2>7. /\ over \in BOOLEAN /\ Progress(Stored(r), over)
        /\ ~over => Len(Stored(r)) # call.length /\ call.fn \notin {"recv", "once"}
        /\ over /\ call.fn \in {"send", "exact"} => Len(Stored(r)) = call.length
    BY <1>0, <2>6 DEF Receives
  <2>8. call.fn \notin Sends /\ call.fn \in Receives \cup Sends
    BY <1>0 DEF Receives, Sends
  <2>9. /\ Len(Stored(r)) <= call.length
        /\ sock'.avail + sock'.read <= MaxStream /\ sock'.read = call.start + Len(Stored(r))
    <3>1. Len(call.done) + r <= call.length
      BY <1>0, <1>1, <2>1
    <3>2. sock.read + r = call.start + (Len(call.done) + r)
      BY <1>0, <2>1, <2>4
    <3> QED BY <2>2, <2>3, <2>5, <3>1, <3>2
  <2> HIDE DEF over
  <2> QED BY <1>0, <2>1, <2>3, <2>5, <2>7, <2>8, <2>9, ProgressStep
<1> QED BY <1>2, <1>4, <1>5, <1>6, <1>7

LEMMA SendStep == ASSUME SocketInv, Send PROVE SocketInv'
<1>0. /\ spc = "sys" /\ call.fn \in Sends /\ UNCHANGED flags /\ call.fn \in Moves
      /\ Len(call.done) < call.length /\ Len(call.done) \in Nat /\ call.length \in Nat
  BY AtSys, CallFields DEF Send, Moves
<1> DEFINE left == call.length - Len(call.done)
<1>1. left \in Nat /\ left > 0
  BY <1>0
<1>2. PICK r \in SendResult(left) :
        \/ r = EAGAIN /\ Blocks
        \/ r = -1 /\ Return(-1) /\ UNCHANGED sock
        \/ /\ r >= 0
           /\ sock' = [sock EXCEPT !.room = @ - r]
           /\ LET done == call.done \o Piece(Len(call.done), r)
              IN  Progress(done, call.fn = "once" \/ r = 0 \/ Len(done) = call.length)
  BY DEF Send
<1>3. r = EAGAIN \/ r = -1 \/ (r \in Nat /\ r > 0 /\ r <= left /\ r <= sock.room)
  BY <1>1, SendResults
<1>4. CASE Blocks
  BY <1>0, <1>4, BlocksStep
<1>5. CASE Return(-1) /\ UNCHANGED sock
  BY <1>0, <1>5, ErrorStep
<1> DEFINE done == call.done \o Piece(Len(call.done), r)
           over == call.fn = "once" \/ r = 0 \/ Len(done) = call.length
<1>6. CASE r >= 0 /\ sock' = [sock EXCEPT !.room = @ - r] /\ Progress(done, over)
  <2>1. r \in Nat /\ r > 0 /\ r <= left /\ r <= sock.room
    BY <1>3, <1>6 DEF EAGAIN
  <2>2. sock.room - r \in 0..MaxRoom
    BY <2>1, SockFields, SocketAssumption
  <2>3. sock' \in SockType /\ sock'.avail = sock.avail /\ sock'.read = sock.read
    BY <1>0, <1>6, <2>2, AtSys DEF SockType
  <2>4. call.done = Piece(0, Len(call.done))
    BY <1>0 DEF SocketInv, MovedInOrder
  <2>5. done = Piece(0, Len(call.done) + r) /\ done \in Seq(Nat) /\ Len(done) = Len(call.done) + r
    <3>1. 0 \in Nat /\ 0 + Len(call.done) = Len(call.done) /\ Len(call.done) + r \in Nat
      BY <1>0, <2>1
    <3>2. Piece(0, Len(call.done)) \o Piece(Len(call.done), r) = Piece(0, Len(call.done) + r)
      BY <1>0, <2>1, PieceFirst
    <3>3. done = Piece(0, Len(call.done) + r)
      BY <2>4, <3>1, <3>2
    <3> HIDE DEF done
    <3> QED BY <3>1, <3>3, PieceTyped
  <2> HIDE DEF done
  <2>6. call.fn \notin Receives /\ call.fn \in Receives \cup Sends
    BY <1>0 DEF Receives, Sends
  <2>7. /\ over \in BOOLEAN
        /\ ~over => Len(done) # call.length /\ call.fn \notin {"recv", "once"}
        /\ over /\ call.fn \in {"send", "exact"} => Len(done) = call.length
    BY <1>0, <2>1 DEF Sends
  <2>8. Len(done) <= call.length /\ sock'.avail + sock'.read <= MaxStream
    <3>1. Len(call.done) + r <= call.length
      BY <1>0, <2>1
    <3> QED BY <2>3, <2>5, <3>1, SockFields
  <2> HIDE DEF over
  <2> QED BY <1>0, <1>6, <2>1, <2>3, <2>5, <2>6, <2>7, <2>8, ProgressStep
<1> QED BY <1>2, <1>4, <1>5, <1>6

(* What is left of the iovecs follows the bytes up to `to' without a gap,  *)
(* and nothing is left when that is the end.                               *)
GoesTo(iov, at, length) ==
  /\ at < Len(iov)
  /\ \A i \in (at + 1)..(Len(iov) - 1) : EndOf(iov[i]) = iov[i + 1].base
  /\ EndOf(iov[Len(iov)]) = length /\ iov[Len(iov)].len > 0

LEMMA Replaced ==
  ASSUME NEW S, NEW s \in Seq(S), NEW j \in 1..Len(s), NEW v \in S, NEW r, r = [s EXCEPT ![j] = v]
  PROVE  /\ r \in Seq(S) /\ Len(r) = Len(s) /\ r[j] = v
         /\ \A k \in 1..Len(s) : k # j => r[k] = s[k]
  BY ExceptSeq

Advanced(a, iov, to, length) ==
  /\ a.iov \in Seq([base : Nat, len : Nat]) /\ Len(a.iov) = Len(iov)
  /\ a.index \in Nat /\ a.index <= Len(iov)
  /\ a.index = Len(iov) <=> to = length
  /\ a.index # Len(iov) => GoesTo(a.iov, a.index, length) /\ a.iov[a.index + 1].base = to

LEMMA AdvanceIs ==
  ASSUME NEW iov \in Seq([base : Nat, len : Nat]), NEW at \in Nat, NEW length \in Nat,
         GoesTo(iov, at, length), NEW to \in Nat, iov[at + 1].base < to, to <= length
  PROVE  Advanced(Advance(iov, at, to), iov, to, length)
<1> DEFINE a == Advance(iov, at, to)
<1> SUFFICES /\ a.iov \in Seq([base : Nat, len : Nat]) /\ Len(a.iov) = Len(iov)
             /\ a.index \in Nat /\ a.index <= Len(iov)
             /\ a.index = Len(iov) <=> to = length
             /\ a.index # Len(iov) => GoesTo(a.iov, a.index, length) /\ a.iov[a.index + 1].base = to
  BY DEF Advanced
<1> DEFINE N    == Len(iov)
           full == {k \in (at + 1)..N : iov[k].base < to /\ EndOf(iov[k]) <= to}
           i    == Max(full \cup {at})
           cut  == i < N /\ iov[i + 1].base < to
           new  == IF cut THEN [iov EXCEPT ![i + 1] = [base |-> to, len |-> EndOf(@) - to]] ELSE iov
<1>0. /\ N \in Nat /\ at < N /\ N \in 1..N /\ at + 1 \in 1..N
      /\ \A k \in 1..N : /\ iov[k] \in [base : Nat, len : Nat] /\ iov[k].base \in Nat /\ iov[k].len \in Nat
                          /\ EndOf(iov[k]) \in Nat
  <2>1. N \in Nat /\ at < N
    BY DEF GoesTo
  <2>2. \A k \in 1..N : iov[k] \in [base : Nat, len : Nat]
    BY ElementOfSeq
  <2>3. \A v \in [base : Nat, len : Nat] : v.base \in Nat /\ v.len \in Nat /\ EndOf(v) \in Nat
    BY DEF EndOf
  <2>4. N \in 1..N /\ at + 1 \in 1..N
    BY <2>1
  <2> HIDE DEF N
  <2> QED BY <2>1, <2>2, <2>3, <2>4
<1>1. a = [iov |-> new, index |-> i]
  BY DEF Advance
<1> HIDE DEF a
<1>2. i \in full \cup {at} /\ \A y \in full : y <= i
  <2>1. full \cup {at} \in SUBSET Nat /\ full \cup {at} # {} /\ \A y \in full \cup {at} : y <= N
    BY <1>0
  <2> HIDE DEF full, N
  <2>2. i \in full \cup {at} /\ \A y \in full \cup {at} : y <= i
    BY <1>0, <2>1, MaxIs
  <2> QED BY <2>2
<1> HIDE DEF i
<1>3. i \in Nat /\ at <= i /\ i <= N
  BY <1>0, <1>2
<1>4. i = N => to = length
  <2> SUFFICES ASSUME i = N PROVE to = length
    OBVIOUS
  <2>1. N \in full
    BY <1>0, <1>2
  <2>2. EndOf(iov[N]) <= to
    BY <2>1
  <2> QED BY <2>2 DEF GoesTo
<1>5. to = length => i = N
  <2> SUFFICES ASSUME to = length PROVE i = N
    OBVIOUS
  <2>0. EndOf(iov[N]) = to /\ iov[N].len > 0 /\ EndOf(iov[N]) = iov[N].base + iov[N].len
    BY DEF GoesTo, EndOf
  <2>1. EndOf(iov[N]) = to /\ iov[N].base < to
    <3>1. iov[N].base \in Nat /\ iov[N].len \in Nat
      BY <1>0
    <3> QED BY <2>0, <3>1
  <2>2. N \in full
    BY <1>0, <2>1
  <2>3. N <= i
    BY <1>2, <2>2
  <2> HIDE DEF N
  <2> QED BY <1>0, <1>3, <2>3
<1>6. CASE i = N
  <2>1. new = iov
    BY <1>6
  <2> QED BY <1>0, <1>1, <1>3, <1>4, <1>5, <1>6, <2>1
<1>7. CASE i # N
  <2>0. i < N /\ i + 1 \in 1..N /\ i + 1 \in (at + 1)..N /\ to < length /\ i + 1 # i
    BY <1>0, <1>3, <1>5, <1>7
  <2>1. iov[i + 1].base <= to
    <3>1. CASE i = at
      BY <1>0, <3>1
    <3>2. CASE i # at
      <4>1. i \in full /\ i \in (at + 1)..(N - 1)
        BY <1>0, <1>2, <1>3, <2>0, <3>2
      <4> QED BY <4>1 DEF GoesTo
    <3> QED BY <3>1, <3>2
  <2>2. i + 1 \notin full
    BY <1>2, <1>3, SMTT(40)
  <2>3. CASE iov[i + 1].base = to
    <3>1. new = iov
      BY <1>0, <2>0, <2>3
    <3>2. GoesTo(iov, i, length)
      BY <1>0, <1>3, <2>0 DEF GoesTo
    <3>3. a.iov = iov /\ a.index = i
      BY <1>1, <3>1
    <3> QED BY <1>3, <1>5, <1>7, <2>3, <3>2, <3>3
  <2>4. CASE iov[i + 1].base # to
    <3> DEFINE v == [base |-> to, len |-> EndOf(iov[i + 1]) - to]
    <3>1. iov[i + 1].base < to /\ EndOf(iov[i + 1]) > to
      BY <1>0, <2>0, <2>1, <2>2, <2>4, SMTT(40)
    <3>2. new = [iov EXCEPT ![i + 1] = v]
      BY <2>0, <3>1
    <3>3. /\ v \in [base : Nat, len : Nat] /\ v.base = to /\ v.len > 0 /\ EndOf(v) = EndOf(iov[i + 1])
      <4>1. EndOf(iov[i + 1]) \in Nat /\ EndOf(iov[i + 1]) - to \in Nat /\ EndOf(iov[i + 1]) - to > 0
            /\ to + (EndOf(iov[i + 1]) - to) = EndOf(iov[i + 1])
        <5>1. PICK u \in Nat : u = EndOf(iov[i + 1])
          BY <1>0, <2>0
        <5>2. u > to
          BY <3>1, <5>1
        <5>3. u \in Nat /\ u - to \in Nat /\ u - to > 0 /\ to + (u - to) = u
          BY <5>2
        <5> QED BY <5>1, <5>3, Zenon
      <4>2. v.base = to /\ v.len = EndOf(iov[i + 1]) - to
        OBVIOUS
      <4> QED BY <4>1, <4>2 DEF EndOf
    <3> HIDE DEF v
    <3>4. /\ new \in Seq([base : Nat, len : Nat]) /\ Len(new) = N
          /\ new[i + 1] = v /\ \A k \in 1..N : k # i + 1 => new[k] = iov[k]
      <4>1. PICK j \in 1..N : j = i + 1
        BY <2>0
      <4> HIDE DEF new
      <4>2. new = [iov EXCEPT ![j] = v]
        BY <3>2, <4>1
      <4>3. /\ new \in Seq([base : Nat, len : Nat]) /\ Len(new) = N
            /\ new[j] = v /\ \A k \in 1..N : k # j => new[k] = iov[k]
        BY <3>3, <4>2, Replaced
      <4> QED BY <4>1, <4>3
    <3> HIDE DEF new
    <3>5. \A k \in 1..N : EndOf(new[k]) = EndOf(iov[k])
      BY <3>3, <3>4
    <3> HIDE DEF N
    <3>6. ASSUME NEW k \in (i + 1)..(N - 1) PROVE EndOf(new[k]) = new[k + 1].base
      <4>1. k \in 1..N /\ k + 1 \in 1..N /\ k + 1 # i + 1 /\ k \in (at + 1)..(N - 1)
        BY <1>0, <1>3, <2>0
      <4>2. EndOf(iov[k]) = iov[k + 1].base
        BY <4>1 DEF GoesTo, N
      <4> QED BY <3>4, <3>5, <4>1, <4>2
    <3>7. EndOf(new[N]) = length /\ new[N].len > 0
      <4>1. EndOf(new[N]) = length
        BY <1>0, <3>5 DEF GoesTo, N
      <4>2. CASE N = i + 1
        BY <3>3, <3>4, <4>2, <4>1
      <4>3. CASE N # i + 1
        BY <1>0, <3>4, <4>1, <4>3 DEF GoesTo, N
      <4> QED BY <4>1, <4>2, <4>3
    <3>8. GoesTo(new, i, length)
      BY <2>0, <3>4, <3>6, <3>7 DEF GoesTo
    <3>9. a.iov = new /\ a.index = i
      BY <1>1
    <3> QED BY <1>3, <1>5, <1>7, <3>3, <3>4, <3>8, <3>9 DEF N
  <2> QED BY <2>3, <2>4
<1> QED BY <1>6, <1>7

LEMMA WritevStep == ASSUME SocketInv, Writev PROVE SocketInv'
<1>0. /\ spc = "sys" /\ call.fn = "writev" /\ UNCHANGED flags /\ call.fn \in Moves /\ InProgress
      /\ Len(call.done) < call.length /\ Len(call.done) \in Nat /\ call.length \in Nat
      /\ call.iov \in Seq([base : Nat, len : Nat]) /\ call.iov_index \in Nat
      /\ sock \in SockType /\ call \in CallType /\ ~call.fired
  BY AtSys, CallFields DEF Writev, Moves
<1> DEFINE at   == call.iov_index
           from == call.iov[at + 1].base
           left == EndOf(call.iov[Len(call.iov)]) - from
<1>1. GoesTo(call.iov, at, call.length) /\ from = Len(call.done)
  BY <1>0 DEF SocketInv, WritevGoesOn, GoesTo
<1>2. left = call.length - Len(call.done) /\ left \in Nat /\ left > 0
  BY <1>0, <1>1, SMTT(40) DEF GoesTo
<1>3. PICK n \in SendResult(left) :
           \/ n = EAGAIN /\ Blocks
           \/ n \in {-1, 0} /\ Return(n) /\ UNCHANGED sock
           \/ /\ n > 0
              /\ sock' = [sock EXCEPT !.room = @ - n]
              /\ LET next == Advance(call.iov, call.iov_index, from + n)
                     done == call.done \o Piece(from, n)
                     over == next.index = Len(call.iov)
                 IN  /\ call' = [call EXCEPT !.done = done, !.iov = next.iov,
                                   !.iov_index = next.index, !.ret = IF over THEN Len(done) ELSE 0]
                     /\ spc' = IF over THEN "returned" ELSE "top"
  BY DEF Writev
<1>4. n = EAGAIN \/ n = -1 \/ (n \in Nat /\ n > 0 /\ n <= left /\ n <= sock.room)
  BY <1>2, SendResults
<1>5. CASE Blocks
  BY <1>0, <1>5, BlocksStep
<1>6. CASE n \in {-1, 0} /\ Return(n) /\ UNCHANGED sock
  <2>1. n = -1
    BY <1>4, <1>6 DEF EAGAIN
  <2> QED BY <1>0, <1>6, <2>1, ErrorStep
<1> DEFINE next == Advance(call.iov, call.iov_index, from + n)
           done == call.done \o Piece(from, n)
           over == next.index = Len(call.iov)
<1>7. CASE /\ n > 0
           /\ sock' = [sock EXCEPT !.room = @ - n]
           /\ call' = [call EXCEPT !.done = done, !.iov = next.iov,
                                   !.iov_index = next.index, !.ret = IF over THEN Len(done) ELSE 0]
           /\ spc' = IF over THEN "returned" ELSE "top"
  <2>1. n \in Nat /\ n > 0 /\ n <= left /\ n <= sock.room
    BY <1>4, <1>7 DEF EAGAIN
  <2>2. sock' \in SockType /\ sock'.avail = sock.avail /\ sock'.read = sock.read
    <3>1. sock.room - n \in 0..MaxRoom
      BY <2>1, SockFields, SocketAssumption
    <3> QED BY <1>0, <1>7, <3>1 DEF SockType
  <2>3. done = Piece(0, from + n) /\ done \in Seq(Nat) /\ Len(done) = from + n
    <3>1. call.done = Piece(0, from) /\ from \in Nat /\ from + n \in Nat
      BY <1>0, <1>1, <2>1 DEF SocketInv, MovedInOrder
    <3>2. Piece(0, from) \o Piece(from, n) = Piece(0, from + n)
      BY <2>1, <3>1, PieceFirst
    <3>3. done = Piece(0, from + n)
      BY <3>1, <3>2
    <3> HIDE DEF done, from
    <3> QED BY <3>1, <3>3, PieceTyped
  <2>4. from \in Nat /\ from + n \in Nat /\ from < from + n /\ from + n <= call.length
    <3> HIDE DEF from, left
    <3> QED BY <1>0, <1>1, <1>2, <2>1
  <2>5. /\ next.iov \in Seq([base : Nat, len : Nat]) /\ Len(next.iov) = Len(call.iov)
        /\ next.index \in Nat /\ next.index <= Len(call.iov)
        /\ next.index = Len(call.iov) <=> from + n = call.length
        /\ next.index # Len(call.iov) =>
             GoesTo(next.iov, next.index, call.length) /\ next.iov[next.index + 1].base = from + n
    <3>1. PICK to \in Nat : to = from + n
      BY <2>4
    <3>2. call.iov[at + 1].base < to /\ to <= call.length /\ next = Advance(call.iov, at, to)
          /\ at \in Nat
      BY <1>0, <2>4, <3>1
    <3> HIDE DEF next, from, at
    <3>3. Advanced(next, call.iov, to, call.length)
      BY <1>0, <1>1, <3>2, AdvanceIs
    <3> QED BY <3>1, <3>3 DEF Advanced
  <2> HIDE DEF next, done, from, left
  <2>6. (IF over THEN Len(done) ELSE 0) \in Int
    BY <2>3, <2>4
  <2>7. /\ call' \in CallType /\ call'.fn = call.fn /\ call'.length = call.length
        /\ call'.timed = call.timed /\ call'.fired = call.fired
    BY <1>0, <1>7, <2>3, <2>5, <2>6 DEF CallType
  <2>8. /\ call'.done = done /\ call'.iov = next.iov /\ call'.iov_index = next.index
        /\ call'.ret = IF over THEN Len(done) ELSE 0
    BY <1>0, <1>7 DEF CallType
  <2>9. SocketTypeOK'
    BY <1>0, <1>7, <2>2, <2>7 DEF SocketInv, SocketTypeOK, SockType, SockState, CallType, Functions
  <2>10. MovedInOrder'
    <3>1. sock'.avail + sock'.read <= MaxStream /\ spc' # "idle"
      BY <1>7, <2>2, SockFields
    <3>2. call'.fn = "writev" /\ call'.done = Piece(0, Len(call'.done))
      BY <1>0, <2>3, <2>7, <2>8
    <3>3. InProgress' => ~over
      BY <1>7 DEF InProgress
    <3>4. ~over => Len(call'.done) < call'.length
      BY <1>0, <2>3, <2>4, <2>5, <2>7, <2>8
    <3> QED BY <3>1, <3>2, <3>3, <3>4 DEF MovedInOrder, Receives, Moves, Sends, Piece
  <2>11. WritevGoesOn'
    <3> SUFFICES ASSUME InProgress'
                 PROVE  GoesTo(call'.iov, call'.iov_index, call'.length)
                        /\ call'.iov[call'.iov_index + 1].base = Len(call'.done)
      BY DEF WritevGoesOn, GoesTo
    <3>1. ~over
      BY <1>7 DEF InProgress
    <3> QED BY <2>3, <2>5, <2>7, <2>8, <3>1
  <2>12. TimerOfThisCall'
    BY <1>0, <1>7, <2>7 DEF SocketInv, TimerOfThisCall
  <2>13. BytesInOrder'
    <3>1. call'.done = Piece(0, Len(call'.done)) /\ call'.fn = "writev"
      BY <1>0, <2>3, <2>7, <2>8
    <3>2. spc' = "returned" => call'.ret = Len(call'.done)
      BY <1>7, <2>8
    <3> QED BY <3>1, <3>2 DEF BytesInOrder, Returned, Receives, Piece
  <2>14. AllOrTold' /\ TimeoutIsReal'
    <3>1. spc' = "returned" => call'.ret = call'.length
      BY <1>7, <2>3, <2>5, <2>7, <2>8
    <3> QED BY <1>0, <2>7, <3>1 DEF AllOrTold, TimeoutIsReal, Returned
  <2> QED BY <2>9, <2>10, <2>11, <2>12, <2>13, <2>14 DEF SocketInv, CallsReportTruth
<1> QED BY <1>3, <1>5, <1>6, <1>7

-----------------------------------------------------------------------------
LEMMA SocketInitInv == SocketInit => SocketInv
<1> SUFFICES ASSUME SocketInit PROVE SocketInv
  OBVIOUS
<1> USE SocketAssumption DEF SocketInit
<1>1. NoCall \in CallType
  BY DEF NoCall, CallType, Functions
<1>2. SocketTypeOK
  BY <1>1 DEF SocketTypeOK, CallType, Functions, NoSock
<1>3. MovedInOrder /\ WritevGoesOn /\ TimerOfThisCall
  BY DEF MovedInOrder, WritevGoesOn, TimerOfThisCall, NoCall, NoSock, InProgress, Receives, Sends, Moves
<1>4. CallsReportTruth
  BY DEF CallsReportTruth, BytesInOrder, AllOrTold, TimeoutIsReal, Returned
<1> QED BY <1>2, <1>3, <1>4 DEF SocketInv

LEMMA SocketStep ==
  ASSUME SocketInv, [SocketNext]_socket_vars
  PROVE  SocketInv'
<1>1. CASE SocketNext
  BY <1>1, IdleSteps, StartStep, TopStep, WaitStep, RecvStep, SendStep, WritevStep, AcceptConnectStep,
     TimerStep, AfterWaitStep, CollectStep, EnvironmentStep DEF SocketNext
<1>2. CASE UNCHANGED socket_vars
  <2>1. SocketTypeOK'
    BY <1>2 DEF socket_vars, SocketInv, SocketTypeOK
  <2>2. MovedInOrder' /\ WritevGoesOn' /\ TimerOfThisCall'
    BY <1>2 DEF socket_vars, SocketInv, MovedInOrder, WritevGoesOn, TimerOfThisCall, InProgress, Piece
  <2>3. CallsReportTruth'
    BY <1>2 DEF socket_vars, SocketInv, CallsReportTruth, BytesInOrder, AllOrTold, TimeoutIsReal,
                Returned, Piece
  <2> QED BY <2>1, <2>2, <2>3 DEF SocketInv
<1> QED BY <1>1, <1>2

(* lthread_socket.c: a call reports the bytes it moved, in order and none  *)
(* twice; lthread_send and lthread_writev that succeed have moved all of   *)
(* them, and lthread_recv_exact that reports fewer has read all there was  *)
(* of a stream the peer has closed; -2 is returned exactly if a timer of   *)
(* this call fired, except by the plain waits when FDEOF is set: for any   *)
(* length, any iovecs, any number of waits and yields in between and       *)
(* whatever the peer, the kernel and another lthread that closes the       *)
(* descriptor do.                                                          *)
THEOREM CallsReportTruthHolds == SocketSpec => [](SocketTypeOK /\ CallsReportTruth)
<1>1. SocketInv /\ [SocketNext]_socket_vars => SocketInv'
  BY SocketStep
<1>2. SocketInv => SocketTypeOK /\ CallsReportTruth
  BY DEF SocketInv
<1> QED BY SocketInitInv, <1>1, <1>2, PTL DEF SocketSpec

=============================================================================
