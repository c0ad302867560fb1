-------------------------------- MODULE CPort --------------------------------
(***************************************************************************)
(* The port of the C daemon: how udp_server_read of udp.c makes packets of *)
(* the datagrams that reach the socket, what the checksum lets pass, and   *)
(* where udp_server_write sends the replies, with programs in C, Go and    *)
(* Java on the other side and other senders that know no padding.          *)
(*                                                                         *)
(* A read ends when 1024 bytes are there.  All programs of the project     *)
(* send 1024 bytes at a time; a shorter datagram stays in the buffer and   *)
(* the next one is received behind it, with what there is no room for cut  *)
(* off.  The packet is then the first datagram's, the address to reply to  *)
(* the last one's.                                                         *)
(*                                                                         *)
(* What the daemon does with a request is the subject of CDaemon; here it  *)
(* keeps a set of services, one for each name.                             *)
(***************************************************************************)
EXTENDS Codec, FiniteSets

CONSTANTS
  Name, Description,  \* texts the programs use
  NULL,               \* no packet
  UDP_COMM_BUF_LEN,   \* the bytes of a packet, 1024
  MaxSent,            \* bound: how many datagrams are sent to the port
  MaxStarts           \* bound: how often the daemon is started

ASSUME CPortAssumption ==
  /\ UDP_COMM_BUF_LEN \in Nat /\ UDP_COMM_BUF_LEN > 1
  /\ MaxSent \in Nat /\ MaxStarts \in Nat
  /\ Name \subseteq Seq(1..(ByteRange - 1))
  /\ Description \subseteq Seq(1..(ByteRange - 1))
  /\ \A p \in Language, n \in Name, i \in Description \cup {<<>>} :
       NULL \notin Packets(p, "register", n, i) \cup Packets(p, "inquiry", n, i)

VARIABLES
  running,   \* server_loop is running
  starts,    \* how often it has been started
  socket,    \* the datagrams that wait in the daemon's socket
  received,  \* the datagrams of which the read under way has some bytes
  r_len,     \* how many bytes it has
  addrfrom,  \* the sender of the datagram received last
  list,      \* the services
  replies,   \* the replies in flight
  sent,      \* how many datagrams have been sent to the port
  call,      \* each program's call under way, or NULL
  short,     \* a datagram of another length than 1024 has been sent
  wanted,    \* the services the programs have asked to be registered
  claimed,   \* what they have been told is registered, and in which start
  found      \* the services they have found

daemonVars == <<running, starts, received, r_len, addrfrom, list>>
clientVars == <<call, wanted, claimed, found>>
vars == <<daemonVars, socket, replies, sent, short, clientVars>>

Init ==
  /\ running = FALSE /\ starts = 0
  /\ socket = <<>>
  /\ received = <<>> /\ r_len = 0 /\ addrfrom = 0
  /\ list = {}
  /\ replies = {}
  /\ sent = 0
  /\ call = [p \in Language |-> NULL]
  /\ short = FALSE
  /\ wanted = {} /\ claimed = {}
  /\ found = {}

-----------------------------------------------------------------------------
(* The n-th datagram is sent to the port: its number stands for the        *)
(* address it comes from, for every call has a socket of its own.  What is *)
(* sent while nobody has bound the port is lost, and left out here.        *)
Send(len, pkt) ==
  /\ running /\ sent < MaxSent
  /\ sent' = sent + 1
  /\ socket' = Append(socket, [from |-> sent', len |-> len, pkt |-> pkt])

(* A call makes its packet and sends it; a scan reaches this port once.    *)
Call(p, action, s) ==
  /\ call[p] = NULL
  /\ \E pkt \in Packets(p, action, s.name, s.info) :
       /\ Send(UDP_COMM_BUF_LEN, pkt)
       /\ call' = [call EXCEPT ![p] = [from |-> sent', pkt |-> pkt]]
  /\ UNCHANGED <<daemonVars, replies, short, claimed, found>>

Register(p) ==
  \E n \in Name, i \in Description :
    /\ Call(p, "register", [name |-> n, info |-> i])
    /\ wanted' = wanted \cup {[name |-> n, info |-> i]}

Inquire(p) ==
  \E n \in Name :
    /\ Call(p, "inquiry", [name |-> n, info |-> <<>>])
    /\ UNCHANGED wanted

(* Somebody else sends a datagram of another length: with a request that   *)
(* is not padded, or with nothing a checksum lets pass, or empty.          *)
SendShort ==
  /\ \E len \in 0..(UDP_COMM_BUF_LEN - 1), n \in Name :
       \E pkt \in Packets("Go", "inquiry", n, <<>>) \cup {NULL} :
         (len = 0 => pkt = NULL) /\ Send(len, pkt)
  /\ short' = TRUE
  /\ UNCHANGED <<daemonVars, replies, clientVars>>

-----------------------------------------------------------------------------
(* daemon_loop, up to the first read.                                      *)
Start ==
  /\ ~running /\ starts < MaxStarts
  /\ running' = TRUE
  /\ starts' = starts + 1
  /\ UNCHANGED <<received, r_len, addrfrom, list, socket, replies, sent, short,
                 clientVars>>

(* Mutant of Reading: a full buffer is taken for one with room.            *)
ReadingTooLong == running /\ r_len <= UDP_COMM_BUF_LEN

Reading == running /\ r_len < UDP_COMM_BUF_LEN

(* The loop is left, the socket closed, and the process ends.              *)
End ==
  /\ running' = FALSE
  /\ socket' = <<>>
  /\ received' = <<>> /\ r_len' = 0 /\ addrfrom' = 0
  /\ list' = {}
  /\ UNCHANGED <<starts, replies, sent, short, clientVars>>

(* recvfrom fails, be it because of a signal, or returns 0.                *)
ReadFail == Reading /\ End

RecvFromEmpty == Reading /\ socket # <<>> /\ Head(socket).len = 0 /\ End

Smaller(m, n) == IF m < n THEN m ELSE n

(* Mutant of RecvFrom: the address is not that of the last datagram.       *)
RecvFromKeepsAddress ==
  /\ Reading /\ socket # <<>> /\ Head(socket).len > 0
  /\ socket' = Tail(socket)
  /\ received' = Append(received, Head(socket))
  /\ r_len' = Smaller(r_len + Head(socket).len, UDP_COMM_BUF_LEN)
  /\ addrfrom' = IF addrfrom = 0 THEN Head(socket).from ELSE addrfrom
  /\ UNCHANGED <<running, starts, list, replies, sent, short, clientVars>>

(* Mutant of RecvFrom: more is received than there is room for.            *)
RecvFromOverflows ==
  /\ Reading /\ socket # <<>> /\ Head(socket).len > 0
  /\ socket' = Tail(socket)
  /\ received' = Append(received, Head(socket))
  /\ r_len' = r_len + Head(socket).len
  /\ addrfrom' = Head(socket).from
  /\ UNCHANGED <<running, starts, list, replies, sent, short, clientVars>>

(* One datagram is received into what is left of the buffer.               *)
RecvFrom ==
  /\ Reading /\ socket # <<>> /\ Head(socket).len > 0
  /\ socket' = Tail(socket)
  /\ received' = Append(received, Head(socket))
  /\ r_len' = Smaller(r_len + Head(socket).len, UDP_COMM_BUF_LEN)
  /\ addrfrom' = Head(socket).from
  /\ UNCHANGED <<running, starts, list, replies, sent, short, clientVars>>

(* udp_server_write.  A reply that nobody waits for is left out.           *)
Reply(action, pkt) ==
  replies' = replies \cup
    { [to |-> addrfrom, start |-> starts, action |-> action, pkt |-> pkt] :
        p \in { p \in Language : call[p] # NULL /\ call[p].from = addrfrom } }

(* get_inquiry_result_pkt and get_result_pkt, whose reason is plain ASCII. *)
InquiryResult(s) == \E r \in Packets("C", "succ", s.name, s.info) : Reply("succ", r)

Result(action) == Reply(action, NULL)

(* What server_loop does with a packet that passes decode_action.  In      *)
(* place of the list there is a set with one service for each name.        *)
Serve(pkt) ==
  \/ /\ pkt.action = "register"
     /\ list' = { s \in list : s.name # pkt.service.name } \cup {pkt.service}
     /\ Result("succ")
  \/ /\ pkt.action = "inquiry"
     /\ \/ \E s \in list : s.name = pkt.service.name /\ InquiryResult(s)
        \/ (\A s \in list : s.name # pkt.service.name) /\ Result("fail")
     /\ UNCHANGED list

(* The read returns, and the packet is served or skipped.                  *)
Handle ==
  /\ running /\ r_len = UDP_COMM_BUF_LEN
  /\ LET pkt == received[1].pkt
     IN  IF pkt # NULL /\ Accepts("C", pkt)
           THEN Serve(pkt)
           ELSE UNCHANGED <<list, replies>>
  /\ received' = <<>> /\ r_len' = 0
  /\ UNCHANGED <<running, starts, addrfrom, socket, sent, short, clientVars>>

-----------------------------------------------------------------------------
(* A reply reaches the call it is addressed to.  A registration believes   *)
(* any success, an inquiry takes a service out of it, and both skip what   *)
(* the checksum does not let pass.  No second reply can come, and the call *)
(* ends in the same step.                                                  *)
ReadReply(p) ==
  /\ call[p] # NULL
  /\ \E r \in replies :
       /\ r.to = call[p].from
       /\ replies' = replies \ {r}
       /\ LET passed == r.action = "succ" /\ (r.pkt # NULL => Accepts(p, r.pkt))
              pkt == call[p].pkt
          IN  /\ claimed' = IF passed /\ pkt.action = "register"
                              THEN claimed \cup {[name |-> pkt.service.name,
                                                  start |-> r.start]}
                              ELSE claimed
              /\ found' = IF passed /\ pkt.action = "inquiry" /\ r.pkt # NULL
                            THEN found \cup {r.pkt.service}
                            ELSE found
  /\ call' = [call EXCEPT ![p] = NULL]
  /\ UNCHANGED <<daemonVars, socket, sent, short, wanted>>

(* The read times out.  Replies that are late are GoDiscovery's subject:   *)
(* here the 500 ms are enough for a request to be answered or passed over. *)
GiveUp(p) ==
  /\ call[p] # NULL
  /\ \A d \in ToSet(socket) \cup ToSet(received) : d.from # call[p].from
  /\ \A r \in replies : r.to # call[p].from
  /\ call' = [call EXCEPT ![p] = NULL]
  /\ UNCHANGED <<daemonVars, socket, replies, sent, short, wanted, claimed, found>>

(* As a bound, the daemon is not started any more.                         *)
Over == starts = MaxStarts /\ ~running /\ UNCHANGED vars

Next ==
  \/ \E p \in Language : Register(p) \/ Inquire(p) \/ ReadReply(p) \/ GiveUp(p)
  \/ SendShort \/ Start \/ ReadFail \/ RecvFromEmpty \/ RecvFrom \/ Handle
  \/ Over

Spec == Init /\ [][Next]_vars

-----------------------------------------------------------------------------
Byte == 1..(ByteRange - 1)

AService == [name : Seq(Byte), info : Seq(Byte)]

APacket(actions) == [by : Language, action : actions, service : AService,
                     checksum : 0..(SumRange - 1)]

Datagram == [from : 1..MaxSent, len : 0..UDP_COMM_BUF_LEN,
             pkt : APacket({"register", "inquiry"}) \cup {NULL}]

(* The variables hold what their declarations say.                         *)
TypeOK ==
  /\ running \in BOOLEAN /\ starts \in 0..MaxStarts
  /\ socket \in Seq(Datagram) /\ received \in Seq(Datagram)
  /\ r_len \in 0..UDP_COMM_BUF_LEN
  /\ addrfrom \in 0..MaxSent
  /\ list \subseteq AService
  /\ replies \subseteq [to : 1..MaxSent, start : 1..MaxStarts,
                        action : {"succ", "fail"}, pkt : APacket({"succ"}) \cup {NULL}]
  /\ sent \in 0..MaxSent
  /\ call \in [Language -> [from : 1..MaxSent,
                            pkt : APacket({"register", "inquiry"})] \cup {NULL}]
  /\ short \in BOOLEAN
  /\ wanted \subseteq AService
  /\ claimed \subseteq [name : Seq(Byte), start : 1..MaxStarts]
  /\ found \subseteq AService

(* However datagrams of all lengths are glued together, a read begins with *)
(* an empty buffer and ends with the first whole packet that it meets, so  *)
(* one read spoils one request at most and the next finds its bearings;    *)
(* and the reply goes to the sender of that packet.                        *)
BufferOK ==
  /\ r_len = 0 <=> received = <<>>
  /\ received # <<>> => addrfrom = Last(received).from
  /\ \A k \in 1..Len(received) :
       received[k].len = UDP_COMM_BUF_LEN =>
         k = Len(received) /\ r_len = UDP_COMM_BUF_LEN

(* What a program has been told is registered is in the list as long as    *)
(* the daemon has not been started anew.  One unpadded request is enough   *)
(* to break this: what it asks for is answered to the next sender.         *)
SuccessIsTrue ==
  running /\ ~short =>
    \A c \in claimed : c.start = starts => \E s \in list : s.name = c.name

InFlight ==
  { socket[k].pkt : k \in 1..Len(socket) } \cup { r.pkt : r \in replies }

(* A packet is refused just when its writer sums signed bytes and its      *)
(* reader does not, or the other way round, and the number of its bytes    *)
(* outside ASCII is not a multiple of 256: all that C writes of such names *)
(* for C, Go for Java and Java for C, for example.                         *)
RefusedIff ==
  \A pkt \in InFlight \ {NULL}, lang \in Language :
    Accepts(lang, pkt) <=>
      \/ (pkt.by = "Go") # (lang = "Java")
      \/ (High(pkt.service.name \o pkt.service.info) * ByteRange) % SumRange = 0

SameText(meant, text) ==
  IF Len(meant) < INFO_MAX_LEN THEN text = meant ELSE Fitting(text) = Fitting(meant)

(* A service that is found is one that was to be registered, but that a    *)
(* text of 100 bytes or more may go on in another way after the 100th.     *)
ServicesArrive ==
  \A s \in found :
    \E w \in wanted : SameText(w.name, s.name) /\ SameText(w.info, s.info)
=============================================================================
