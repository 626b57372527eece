------------------------------ MODULE Resolver ------------------------------
(***************************************************************************)
(* dns/cdns.c: the list of name servers, the query, and dns_lookup, which  *)
(* asks one server after the other over the socket calls.  A message is a  *)
(* sequence of cells: the bytes of names are kept, because their lengths   *)
(* decide where the parser looks next; the fixed parts (DNSQuestion,       *)
(* DNSAnswer) are one cell each.  Replies are well formed and repeat the   *)
(* one question asked: the code takes QDCOUNT, ANCOUNT and the lengths     *)
(* from the message without looking at the size of what came.  Host names  *)
(* have no empty label: the loop that encodes them stops at a 0 byte, and  *)
(* would leave the dot of "a." in the query.                               *)
(***************************************************************************)
EXTENDS Integers, Sequences, FiniteSets, SequencesExt

CONSTANTS
  Confs,      \* contents of /etc/resolv.conf: sequences of lines
  Hosts,      \* host names: sequences of characters
  Replies,    \* what a server may answer
  MaxAsk      \* bound: queries of one lookup

VARIABLES
  resolvers,  \* rev_mgr.resolvers
  look,       \* the lookup in progress
  expected    \* history: what the replies held

resolver_vars == <<resolvers, look, expected>>

DOT == 46
END == 0      \* the byte 0
PTR == 192    \* 0xC0: the name goes on elsewhere

NoLookup == [pc |-> "none", i |-> 0, ipv4 |-> 0, open |-> 0, asks |-> 0,
             host |-> <<>>, sbuf |-> <<>>]

Init == resolvers = <<>> /\ look = NoLookup /\ expected = 0

-----------------------------------------------------------------------------
(* resolv_conf_parse_line for each line: <<"nameserver", address>> adds a  *)
(* server (inet_pton leaves 0 for a malformed address), the others do not. *)
Servers(conf) ==
  LET lines == SelectSeq(conf, LAMBDA line : line[1] = "nameserver")
  IN  [k \in DOMAIN lines |-> lines[k][2]]

(* cdns_init; dns_resolv_parse gives up on a file it cannot open or read,  *)
(* or that is empty or too large, and leaves the list empty.               *)
cdns_init ==
  /\ look.pc = "none" /\ resolvers = <<>>
  /\ \E conf \in Confs : resolvers' = Servers(conf) \/ resolvers' = <<>>
  /\ UNCHANGED <<look, expected>>

(* Called by the program itself.                                           *)
add_resolver(ip) ==
  /\ look.pc = "none" /\ Len(resolvers) < 1
  /\ resolvers' = Append(resolvers, ip)
  /\ UNCHANGED <<look, expected>>

cdns_deinit ==
  /\ look.pc = "none" /\ resolvers' = <<>>
  /\ UNCHANGED <<look, expected>>

-----------------------------------------------------------------------------
RECURSIVE Encode(_, _, _)

(* The loop over the host name in sbuf: ptr is the first character of a    *)
(* label, len the characters of it seen so far; buf[ptr - 1] takes the     *)
(* length.  Characters are cells; the byte before the first is free.       *)
Encode(buf, ptr, len) ==
  IF buf[ptr] = END THEN buf
  ELSE IF buf[ptr + len] \in {DOT, END}
       THEN Encode([buf EXCEPT ![ptr - 1] = len], ptr + len + 1, 0)
       ELSE Encode(buf, ptr, len + 1)

(* Fault: no room is left for the length of the first label.               *)
EncodedName_NoRoom(host) ==
  SubSeq(Encode(<<END>> \o host \o <<END, END>>, 2, 0), 2, Len(host) + 3)

(* The name as it is put into the query: memset, memcpy, then Encode.      *)
EncodedName(host) ==
  SubSeq(Encode(<<END>> \o host \o <<END, END>>, 2, 0), 1, Len(host) + 2)

RECURSIVE Labels(_)

(* Reference: the labels of a host name, and their encoding.               *)
Labels(host) ==
  IF ~Contains(host, DOT) THEN <<host>>
  ELSE LET d == CHOOSE k \in DOMAIN host : host[k] = DOT /\ \A j \in 1..(k - 1) : host[j] # DOT
       IN  <<SubSeq(host, 1, d - 1)>> \o Labels(SubSeq(host, d + 1, Len(host)))

WireName(host) ==
  FlattenSeq([k \in DOMAIN Labels(host) |-> <<Len(Labels(host)[k])>> \o Labels(host)[k]])
    \o <<END>>

(* Reference: a reply as sent, header left out.  Names of answers may be   *)
(* compressed to a pointer, or be in full.                                 *)
WireReply(host, r) ==
  WireName(host) \o <<"question">> \o
  FlattenSeq([k \in DOMAIN r.answers |->
    (IF r.answers[k].compressed THEN <<PTR, 12>> ELSE WireName(host))
      \o <<[type |-> r.answers[k].type, class |-> r.answers[k].class,
            rdlength |-> Len(r.answers[k].rdata)]>>
      \o r.answers[k].rdata])

-----------------------------------------------------------------------------
RECURSIVE NameLength(_, _, _, _)

(* The second byte of a pointer.                                           *)
Followed(len) == len + 1

(* parse_dns_name: how many bytes the name at `offset' has.  A pointer is  *)
(* followed once, to the bytes behind the header: the code uses the low    *)
(* bits of its first byte only, which are 0 in a short message.            *)
NameLength(rbuf, offset, len, followed) ==
  IF rbuf[offset] = END THEN len
  ELSE IF ~followed /\ rbuf[offset] = PTR
       THEN NameLength(rbuf, 1, Followed(len), TRUE)
       ELSE NameLength(rbuf, offset + rbuf[offset] + 1,
                       IF followed THEN len ELSE len + rbuf[offset] + 1, followed)

parse_dns_name(rbuf, offset) == NameLength(rbuf, offset, 1, FALSE)

RECURSIVE Answer(_, _, _, _)

(* The loop over the answers: <<i, ipv4>> when it ends.                    *)
Answer(rbuf, offset, i, ancount) ==
  IF i = ancount THEN <<i, 0>>
  ELSE LET at     == offset + parse_dns_name(rbuf, offset)
           answer == rbuf[at]
       IN  IF answer.type = "A" /\ answer.class = "IN" /\ answer.rdlength = 1
           THEN <<i, rbuf[at + 1]>>
           ELSE Answer(rbuf, at + 1 + answer.rdlength, i + 1, ancount)

(* Reference: the address of the first Internet address record.            *)
FirstAddress(answers) ==
  LET as == SelectSeq(answers,
              LAMBDA a : a.type = "A" /\ a.class = "IN" /\ Len(a.rdata) = 1)
  IN  IF as = <<>> THEN 0 ELSE as[1].rdata[1]

-----------------------------------------------------------------------------
(* dns_lookup: the query is built.                                         *)
dns_lookup(host) ==
  /\ look.pc = "none"
  /\ look' = [NoLookup EXCEPT !.pc = "loop", !.host = host, !.sbuf = EncodedName(host)]
  /\ expected' = 0 /\ UNCHANGED resolvers

(* The head of the loop: the next server, or the end.                      *)
NextServer ==
  /\ look.pc = "loop"
  /\ \/ look.i >= Len(resolvers) /\ look' = [look EXCEPT !.pc = "returned"]
     \/ /\ look.i < Len(resolvers) /\ look.asks < MaxAsk
        /\ \/ look' = [look EXCEPT !.pc = "returned"]    \* lthread_socket fails
           \/ look' = [look EXCEPT !.pc = "ask", !.open = @ + 1, !.asks = @ + 1]
  /\ UNCHANGED <<resolvers, expected>>

Continue(i, open) == look' = [look EXCEPT !.pc = "loop", !.i = i + 1, !.open = open]

(* lthread_connect or lthread_send fails or times out.                     *)
Unreachable ==
  /\ look.pc = "ask" /\ Continue(look.i, look.open - 1)
  /\ UNCHANGED <<resolvers, expected>>

(* lthread_recv fails or times out; lthread_sleep(500).                    *)
NoReply ==
  /\ look.pc = "ask" /\ Continue(look.i, look.open - 1)
  /\ UNCHANGED <<resolvers, expected>>

(* A reply whose flags say that it is none, or an error.                   *)
Refuses ==
  /\ look.pc = "ask" /\ Continue(look.i, look.open - 1)
  /\ UNCHANGED <<resolvers, expected>>

(* A reply: i, the number of the server, also counts the questions and the *)
(* answers, and the loop over the servers goes on from what is left in it. *)
Reply(r) ==
  /\ look.pc = "ask"
  /\ LET rbuf  == WireReply(look.host, r)
         found == Answer(rbuf, parse_dns_name(rbuf, 1) + 2, 0, Len(r.answers))
     IN  IF found[2] # 0
         THEN look' = [look EXCEPT !.pc = "returned", !.ipv4 = found[2], !.open = @ - 1]
         ELSE Continue(found[1], look.open - 1)
  /\ expected' = FirstAddress(r.answers)
  /\ UNCHANGED resolvers

Return ==
  /\ look.pc = "returned" /\ look' = NoLookup /\ expected' = 0
  /\ UNCHANGED resolvers

Next ==
  \/ cdns_init \/ cdns_deinit \/ \E ip \in {1} : add_resolver(ip)
  \/ \E host \in Hosts : dns_lookup(host)
  \/ NextServer \/ Unreachable \/ NoReply \/ Refuses
  \/ \E r \in Replies : Reply(r)
  \/ Return

Spec == Init /\ [][Next]_resolver_vars

-----------------------------------------------------------------------------
TypeOK ==
  /\ resolvers \in Seq(Nat) /\ look.i \in Nat /\ look.ipv4 \in Nat
  /\ look.open \in 0..MaxAsk /\ look.asks \in 0..MaxAsk /\ expected \in Nat
  /\ look.pc \in {"none", "loop", "ask", "returned"}

(* What dns_lookup returns is the address of the first IN A record of the  *)
(* reply that ended it, whatever records with or without compressed names  *)
(* come before it in the message.                                          *)
AddressFromReply == look.pc = "returned" => look.ipv4 = expected

(* Whichever of the steps fails for whichever server, one socket at most   *)
(* is open, and none when the lookup returns.                              *)
SocketsClosed ==
  /\ look.open \in 0..1
  /\ look.pc \in {"loop", "returned"} => look.open = 0

(* The query asks for the host: its name is encoded label by label.        *)
QueryNamesHost == look.pc # "none" => look.sbuf = WireName(look.host)

(* `retry the next': before each turn of the loop, the servers asked are   *)
(* the first ones of the list, each of them once.                          *)
AsksInOrder == look.pc = "loop" => look.i = look.asks
=============================================================================
