------------------------------ MODULE TcpConn ------------------------------
(***************************************************************************)
(* mux/tcp_conn.c: connections over the socket calls and the resolver,     *)
(* used through the operations of net_conn_base_t.  The calls below are    *)
(* taken by what Socket and Resolver show of them: lthread_read returns a  *)
(* piece of the stream, 0, -1 or -2, lthread_write the length it was given *)
(* or -1.                                                                  *)
(***************************************************************************)
EXTENDS Integers, Sequences, FiniteSetsExt

CONSTANTS Conn,       \* net_tcp_conn objects
          MaxFd,      \* bound: descriptors 1 .. MaxFd
          MaxLen      \* bound: length of a read or write

ASSUME TcpAssumption == MaxFd \in Nat /\ MaxLen \in Nat

VARIABLES
  conn_fd,            \* per connection: tcp_conn->fd
  open_fds,           \* the process's open descriptors
  live,               \* the connections the program may use
  op,                 \* the operation in progress
  result              \* of the last operation: <<operation, value>>

tcp_vars == <<conn_fd, open_fds, live, op, result>>

NoFd == -1
NoOp == [fn |-> "none", conn |-> "none", n |-> 0, buf |-> <<>>, from |-> 0]

(* tcp_conn_init with fd 0.                                                *)
TcpInit ==
  /\ conn_fd = [c \in Conn |-> NoFd]
  /\ open_fds = {} /\ live = {} /\ op = NoOp /\ result = <<"none", 0>>

Idle == op.fn = "none"

FreeFd == {fd \in 1..MaxFd : fd \notin open_fds}
NewFd  == Min(FreeFd)

EndsWith(fn, value) == op' = NoOp /\ result' = <<fn, value>>

(* tcp_conn_init with a descriptor lthread_accept returned.                *)
tcp_conn_init(c) ==
  /\ Idle /\ c \notin live /\ FreeFd # {}
  /\ conn_fd' = [conn_fd EXCEPT ![c] = NewFd]
  /\ open_fds' = open_fds \cup {NewFd} /\ live' = live \cup {c}
  /\ EndsWith("init", 0)

(* tcp_dial_ipv4: no port in the address (-1), a name dns_lookup does not  *)
(* find (-2), no descriptor (-3); else the connection is begun.            *)
tcp_dial_ipv4(c) ==
  /\ Idle /\ c \notin live
  /\ \/ \E e \in {-1, -2, -3} : EndsWith("dial", e) /\ UNCHANGED open_fds
     \/ /\ FreeFd # {}
        /\ op' = [NoOp EXCEPT !.fn = "connect", !.conn = c, !.n = NewFd]
        /\ open_fds' = open_fds \cup {NewFd} /\ UNCHANGED result
  /\ UNCHANGED <<conn_fd, live>>

(* Fault: the descriptor is not closed when lthread_connect fails.         *)
ConnectFails_Leaks ==
  /\ op.fn = "connect"
  /\ EndsWith("dial", -4)
  /\ UNCHANGED <<open_fds, conn_fd, live>>

ConnectFails ==
  /\ op.fn = "connect"
  /\ open_fds' = open_fds \ {op.n}
  /\ EndsWith("dial", -4)
  /\ UNCHANGED <<conn_fd, live>>

Connected ==
  /\ op.fn = "connect"
  /\ conn_fd' = [conn_fd EXCEPT ![op.conn] = op.n]
  /\ live' = live \cup {op.conn}
  /\ EndsWith("dial", 0)
  /\ UNCHANGED open_fds

(* net_conn_close, tcp_conn_close.  The field keeps its value.  Contract:  *)
(* a connection is closed once; a second call would close a descriptor     *)
(* that may be another connection's by then.                               *)
net_conn_close(c) ==
  /\ Idle /\ c \in live
  /\ open_fds' = IF conn_fd[c] = NoFd THEN open_fds ELSE open_fds \ {conn_fd[c]}
  /\ live' = live \ {c}
  /\ EndsWith("close", 0)
  /\ UNCHANGED conn_fd

(* net_conn_shutdown: the connection ends, the descriptor stays.           *)
net_conn_shutdown(c) ==
  /\ Idle /\ c \in live /\ EndsWith("shutdown", 0)
  /\ UNCHANGED <<conn_fd, open_fds, live>>

(* net_conn_read: one lthread_read.                                        *)
net_conn_read(c) ==
  /\ Idle /\ c \in live
  /\ \E r \in -2..MaxLen : EndsWith("read", r)
  /\ UNCHANGED <<conn_fd, open_fds, live>>

(* net_conn_readfull(len), net_conn_write(len): the loop begins.           *)
BeginLoop(fn, c, len) ==
  /\ Idle /\ c \in live
  /\ op' = [NoOp EXCEPT !.fn = fn, !.conn = c, !.n = len]
  /\ UNCHANGED <<conn_fd, open_fds, live, result>>

Filled(k) == op.buf \o [i \in 1..k |-> op.from + i]

(* net_conn_readfull: k bytes of the stream more, or the end.              *)
ReadMore ==
  /\ op.fn = "readfull"
  /\ \/ \E r \in -2..0 : op' = [op EXCEPT !.fn = "readfull_done", !.n = r]
     \/ \E k \in 1..(op.n - Len(op.buf)) :
          op' = [op EXCEPT !.buf = Filled(k), !.from = @ + k,
                           !.fn = IF op.from + k = op.n THEN "readfull_done" ELSE @]
  /\ UNCHANGED <<conn_fd, open_fds, live, result>>

(* tcp_conn_write: a call of lthread_write for what is left.               *)
WriteMore ==
  /\ op.fn = "write"
  /\ \/ EndsWith("write", Len(op.buf))
     \/ EndsWith("write", op.n)
  /\ UNCHANGED <<conn_fd, open_fds, live>>

ReadDone ==
  /\ op.fn = "readfull_done" /\ EndsWith("readfull", op.n)
  /\ UNCHANGED <<conn_fd, open_fds, live>>

TcpNext ==
  \/ \E c \in Conn : \/ tcp_conn_init(c) \/ tcp_dial_ipv4(c) \/ net_conn_close(c)
                     \/ net_conn_shutdown(c) \/ net_conn_read(c)
                     \/ \E len \in 1..MaxLen, fn \in {"readfull", "write"} : BeginLoop(fn, c, len)
  \/ ConnectFails \/ Connected \/ ReadMore \/ WriteMore \/ ReadDone

TcpSpec == TcpInit /\ [][TcpNext]_tcp_vars

TcpTypeOK ==
  /\ conn_fd \in [Conn -> {NoFd} \cup 1..MaxFd] /\ open_fds \subseteq 1..MaxFd
  /\ live \subseteq Conn
  /\ op \in [fn : {"none", "connect", "readfull", "readfull_done", "write"},
             conn : Conn \cup {"none"}, n : Int, buf : Seq(1..MaxLen), from : 0..MaxLen]

(* Every open descriptor belongs to exactly one connection the program can *)
(* use, or to the dial in progress: no failure on the way of a dial leaks  *)
(* one, and no two connections end up with the same.                       *)
DescriptorsOwned ==
  LET own == {conn_fd[c] : c \in live}
      dialling == IF op.fn = "connect" THEN {op.n} ELSE {}
  IN  /\ open_fds = own \cup dialling
      /\ own \cap dialling = {}
      /\ \A c, d \in live : conn_fd[c] = conn_fd[d] => c = d

(* net_conn_readfull that reports success has filled the buffer with the   *)
(* next bytes of the stream, in order, whatever pieces they came in.       *)
FullIsFull ==
  op.fn = "readfull_done" /\ op.n > 0 => op.buf = [i \in 1..op.n |-> i]

(* The connections: no descriptor leaks or has two owners, and a read that *)
(* claims to be full is.                                                   *)
ConnectionsSound == DescriptorsOwned /\ FullIsFull
=============================================================================
