----------------------------- MODULE CPortProofs -----------------------------
(***************************************************************************)
(* How udp_server_read of udp.c finds its bearings, and that a success is  *)
(* true while all datagrams are whole packets; then which packets the      *)
(* checksums of the three languages refuse, and what becomes of the texts: *)
(* for every length of packets and of texts, all values of a byte and of a *)
(* checksum, and every number of datagrams and starts.                     *)
(***************************************************************************)
EXTENDS CPort, SequenceTheorems, FiniteSetTheorems, WellFoundedInduction, TLAPS

(* What is sent to the port.                                               *)
APkt ==
  UNION { Packets(p, action, n, i) :
            p \in Language, action \in {"register", "inquiry"}, n \in Name,
            i \in Description \cup {<<>>} }

ADatagram == [from : 1..MaxSent, len : 0..UDP_COMM_BUF_LEN, pkt : APkt \cup {NULL}]

PortOK ==
  /\ socket \in Seq(ADatagram) /\ received \in Seq(ADatagram)
  /\ r_len \in 0..UDP_COMM_BUF_LEN
  /\ sent \in 0..MaxSent

BufferInv == PortOK /\ BufferOK

(* The buffer has room for more than a byte.                               *)
LEMMA BufLen == UDP_COMM_BUF_LEN \in Nat /\ UDP_COMM_BUF_LEN > 1 /\ MaxSent \in Nat
BY CPortAssumption

(* Nothing has been read yet.                                              *)
LEMMA InitBufferInv == Init => BufferInv
BY BufLen DEF Init, BufferInv, PortOK, BufferOK

(* What Append adds is the last element, and the others stay.              *)
LEMMA AppendCases ==
  ASSUME NEW S, NEW s \in Seq(S), NEW e \in S
  PROVE  /\ Append(s, e) \in Seq(S) /\ Append(s, e) # <<>>
         /\ Len(Append(s, e)) = Len(s) + 1 /\ Last(Append(s, e)) = e
         /\ \A k \in 1..Len(Append(s, e)) :
              \/ k \in 1..Len(s) /\ Append(s, e)[k] = s[k]
              \/ k = Len(Append(s, e)) /\ Append(s, e)[k] = e
BY AppendProperties, LenProperties DEF Last

(* A send numbers one datagram and touches no other.                       *)
LEMMA SendProperties ==
  ASSUME PortOK, NEW len \in 0..UDP_COMM_BUF_LEN, NEW pkt \in APkt \cup {NULL},
         Send(len, pkt)
  PROVE  /\ sent' = sent + 1 /\ sent' \in 0..MaxSent
         /\ socket' \in Seq(ADatagram)
         /\ \A k \in 1..Len(socket') :
              \/ k \in 1..Len(socket) /\ socket'[k] = socket[k]
              \/ socket'[k] = [from |-> sent', len |-> len, pkt |-> pkt]
<1>1. sent' = sent + 1 /\ sent' \in 1..MaxSent
  BY BufLen DEF PortOK, Send
<1>2. [from |-> sent', len |-> len, pkt |-> pkt] \in ADatagram
  BY <1>1 DEF ADatagram
<1> QED
  BY <1>1, <1>2, AppendCases DEF PortOK, Send

(* The packet of a call is one of those that are sent.                     *)
LEMMA PacketsAreSent ==
  /\ \A p \in Language, n \in Name, i \in Description :
       \A pkt \in Packets(p, "register", n, i) :
         pkt \in APkt /\ pkt.action = "register"
  /\ \A p \in Language, n \in Name :
       \A pkt \in Packets(p, "inquiry", n, <<>>) :
         pkt \in APkt /\ pkt.action = "inquiry"
<1>1. \A p \in Language, action \in {"register", "inquiry"}, n \in Name,
         i \in Description \cup {<<>>} : Packets(p, action, n, i) \subseteq APkt
  BY DEF APkt
<1>2. \A p, action, n, i : \A pkt \in Packets(p, action, n, i) : pkt.action = action
  BY DEF Packets
<1> QED
  BY <1>1, <1>2

(* A recvfrom moves the head of the socket to the end of what was read.    *)
LEMMA RecvFromProperties ==
  ASSUME BufferInv, RecvFrom
  PROVE  /\ socket \in Seq(ADatagram) /\ socket # <<>>
         /\ received' \in Seq(ADatagram) /\ received' # <<>>
         /\ Last(received') = socket[1]
         /\ \A k \in 1..Len(received') :
              \/ k \in 1..Len(received) /\ received'[k] = received[k]
              \/ k = Len(received') /\ received'[k] = socket[1]
         /\ socket' \in Seq(ADatagram)
         /\ \A k \in 1..Len(socket') : k + 1 \in 1..Len(socket) /\ socket'[k] = socket[k + 1]
         /\ 1 \in 1..Len(socket) /\ socket[1] \in ADatagram /\ socket[1].len > 0
<1>1. /\ socket \in Seq(ADatagram) /\ socket # <<>> /\ received \in Seq(ADatagram)
      /\ socket' = Tail(socket) /\ received' = Append(received, Head(socket))
      /\ Head(socket).len > 0
  BY DEF BufferInv, PortOK, RecvFrom
<1>2. Head(socket) = socket[1] /\ socket[1] \in ADatagram
  BY <1>1, HeadTailProperties
<1>3. /\ socket' \in Seq(ADatagram) /\ Len(socket') = Len(socket) - 1
      /\ \A k \in 1..Len(socket') : socket'[k] = socket[k + 1]
  BY <1>1, HeadTailProperties
<1>4. 1 \in 1..Len(socket) /\ \A k \in 1..Len(socket') : k + 1 \in 1..Len(socket)
  BY <1>1, <1>3, LenProperties
<1> QED
  BY <1>1, <1>2, <1>3, <1>4, AppendCases

(* A read that ends leaves an empty buffer behind.                         *)
LEMMA EmptyBuffer ==
  ASSUME PortOK, received' = <<>>, r_len' = 0, socket' \in Seq(ADatagram), sent' = sent
  PROVE  BufferInv'
<1>1. received' \in Seq(ADatagram) /\ Len(received') = 0 /\ r_len' \in 0..UDP_COMM_BUF_LEN
  BY BufLen
<1> QED
  BY <1>1, BufLen DEF BufferInv, PortOK, BufferOK

(* No step breaks it.                                                      *)
LEMMA StepBufferInv == BufferInv /\ [Next]_vars => BufferInv'
<1> SUFFICES ASSUME BufferInv, [Next]_vars PROVE BufferInv'
  OBVIOUS
<1> USE DEF daemonVars, clientVars
<1>0. PortOK /\ BufferOK
  BY DEF BufferInv
<1>1. ASSUME NEW p \in Language, Register(p) \/ Inquire(p) \/ ReadReply(p) \/ GiveUp(p)
      PROVE  BufferInv'
  <2>1. CASE Register(p) \/ Inquire(p)
    <3>1. PICK pkt \in APkt : Send(UDP_COMM_BUF_LEN, pkt)
      <4>1. CASE Register(p)
        <5>1. PICK n \in Name, i \in Description :
                Call(p, "register", [name |-> n, info |-> i])
          BY <4>1 DEF Register
        <5> QED
          BY <5>1, PacketsAreSent DEF Call
      <4>2. CASE Inquire(p)
        <5>1. PICK n \in Name : Call(p, "inquiry", [name |-> n, info |-> <<>>])
          BY <4>2 DEF Inquire
        <5> QED
          BY <5>1, PacketsAreSent DEF Call
      <4> QED
        BY <2>1, <4>1, <4>2
    <3>2. UNCHANGED <<received, r_len, addrfrom>>
      BY <2>1 DEF Register, Inquire, Call
    <3>3. UDP_COMM_BUF_LEN \in 0..UDP_COMM_BUF_LEN /\ pkt \in APkt \cup {NULL}
      BY BufLen
    <3>4. PortOK'
      BY <1>0, <3>1, <3>2, <3>3, SendProperties DEF PortOK
    <3> QED
      BY <1>0, <3>2, <3>4 DEF BufferInv, BufferOK
  <2>2. CASE ReadReply(p) \/ GiveUp(p)
    BY <2>2 DEF ReadReply, GiveUp, BufferInv, PortOK, BufferOK
  <2> QED
    BY <1>1, <2>1, <2>2
<1>2. CASE SendShort
  <2>1. PICK len \in 0..UDP_COMM_BUF_LEN, pkt \in APkt \cup {NULL} : Send(len, pkt)
    <3>1. "Go" \in Language
      BY DEF Language
    <3>2. PICK len \in 0..(UDP_COMM_BUF_LEN - 1), n \in Name :
            \E pkt \in Packets("Go", "inquiry", n, <<>>) \cup {NULL} : Send(len, pkt)
      BY <1>2 DEF SendShort
    <3>3. len \in 0..UDP_COMM_BUF_LEN
      BY BufLen
    <3> QED
      BY <3>1, <3>2, <3>3, PacketsAreSent
  <2>2. UNCHANGED <<received, r_len, addrfrom>>
    BY <1>2 DEF SendShort
  <2>3. PortOK'
    BY <1>0, <2>1, <2>2, SendProperties DEF PortOK
  <2> QED
    BY <1>0, <2>2, <2>3 DEF BufferInv, BufferOK
<1>3. CASE Start
  BY <1>0, <1>3 DEF Start, BufferInv, PortOK, BufferOK
<1>4. CASE ReadFail \/ RecvFromEmpty
  <2>1. End
    BY <1>4, Zenon DEF ReadFail, RecvFromEmpty
  <2>2. socket' \in Seq(ADatagram) /\ received' = <<>> /\ r_len' = 0 /\ sent' = sent
    BY <2>1 DEF End
  <2> QED
    BY <1>0, <2>2, EmptyBuffer
<1>5. CASE RecvFrom
  <2>1. /\ r_len < UDP_COMM_BUF_LEN /\ r_len \in Nat
        /\ r_len' = Smaller(r_len + socket[1].len, UDP_COMM_BUF_LEN)
        /\ addrfrom' = socket[1].from
        /\ UNCHANGED sent
    <3>1. Head(socket) = socket[1]
      BY <1>5, RecvFromProperties, HeadTailProperties
    <3> QED
      BY <1>0, <1>5, <3>1 DEF RecvFrom, Reading, PortOK
  <2>2. socket[1].len \in 1..UDP_COMM_BUF_LEN
    BY <1>5, RecvFromProperties, BufLen DEF ADatagram
  <2>3. /\ r_len' \in 1..UDP_COMM_BUF_LEN
        /\ socket[1].len = UDP_COMM_BUF_LEN => r_len' = UDP_COMM_BUF_LEN
    BY <2>1, <2>2, BufLen DEF Smaller
  <2>4. PortOK'
    BY <1>0, <1>5, <2>1, <2>3, RecvFromProperties, BufLen DEF PortOK
  <2>5. received' # <<>> /\ Last(received') = socket[1]
    BY <1>5, RecvFromProperties
  <2>6. \A k \in 1..Len(received) : received[k].len # UDP_COMM_BUF_LEN
    BY <1>0, <2>1 DEF BufferOK
  <2>7. \A k \in 1..Len(received') : received'[k].len = UDP_COMM_BUF_LEN =>
          k = Len(received') /\ r_len' = UDP_COMM_BUF_LEN
    <3>1. \A k \in 1..Len(received') :
            \/ k \in 1..Len(received) /\ received'[k] = received[k]
            \/ k = Len(received') /\ received'[k] = socket[1]
      BY <1>5, RecvFromProperties
    <3> QED
      BY <2>3, <2>6, <3>1
  <2> QED
    BY <2>1, <2>3, <2>4, <2>5, <2>7 DEF BufferInv, BufferOK
<1>6. CASE Handle
  BY <1>0, <1>6, EmptyBuffer DEF Handle, PortOK
<1>7. CASE Over \/ UNCHANGED vars
  BY <1>0, <1>7 DEF Over, vars, BufferInv, PortOK, BufferOK
<1> QED
  BY <1>1, <1>2, <1>3, <1>4, <1>5, <1>6, <1>7 DEF Next

(* Whatever lengths datagrams have, udp_server_read begins with an empty   *)
(* buffer, ends with the first whole packet, and the daemon replies to the *)
(* sender of that packet.                                                  *)
THEOREM ReadsFindTheirBearings == Spec => []BufferOK
BY InitBufferInv, StepBufferInv, PTL DEF Spec, BufferInv
-----------------------------------------------------------------------------
(* A program waits for the reply to datagram n.                            *)
Waits(p, n) == call[p] # NULL /\ call[p].from = n

(* Datagrams, calls and replies bear numbers that have been given out.     *)
NumbersOK ==
  /\ DOMAIN call = Language /\ sent \in Nat /\ starts \in Nat
  /\ \A p \in Language : call[p] # NULL => call[p].from \in 0..sent
  /\ \A k \in 1..Len(socket) : socket[k].from \in 0..sent
  /\ \A k \in 1..Len(received) : received[k].from \in 0..sent
  /\ \A r \in replies : r.to \in 0..sent /\ r.start \in 0..starts
  /\ \A c \in claimed : c.start \in 0..starts

(* A datagram is a whole packet, the one of the call that waits for its    *)
(* reply, if any does.                                                     *)
OfItsCall(d) ==
  /\ d.len = UDP_COMM_BUF_LEN
  /\ \A p \in Language : Waits(p, d.from) => d.pkt = call[p].pkt

Whole ==
  ~short => /\ \A k \in 1..Len(socket) : OfItsCall(socket[k])
            /\ \A k \in 1..Len(received) : OfItsCall(received[k])

Has(name) == \E s \in list : s.name = name

(* A success on its way to a registration is true.                         *)
TrueReplies ==
  running /\ ~short =>
    \A r \in replies, p \in Language :
      r.action = "succ" /\ r.start = starts /\ Waits(p, r.to)
        /\ call[p].pkt.action = "register" => Has(call[p].pkt.service.name)

(* SuccessIsTrue is not inductive: the reply must be one to the request    *)
(* of the call that reads it.                                              *)
SuccessInv ==
  BufferInv /\ NumbersOK /\ Whole /\ TrueReplies /\ SuccessIsTrue

(* No program has been told anything yet.                                  *)
LEMMA InitSuccessInv == Init => SuccessInv
<1> SUFFICES ASSUME Init PROVE SuccessInv
  OBVIOUS
<1>1. BufferInv
  BY InitBufferInv
<1> QED
  BY <1>1 DEF Init, SuccessInv, NumbersOK, Whole, TrueReplies, SuccessIsTrue

(* What the daemon does with a request: no name goes, and the reply goes   *)
(* to the sender of the last datagram.                                     *)
LEMMA ServeProperties ==
  ASSUME NEW pkt, Serve(pkt)
  PROVE  /\ \A name : Has(name) => Has(name)'
         /\ pkt.action = "register" => Has(pkt.service.name)'
         /\ \A r \in replies' : r \in replies \/
              /\ r.to = addrfrom /\ r.start = starts
              /\ \E p \in Language : Waits(p, addrfrom)
         /\ pkt.action \in {"register", "inquiry"}
<1>1. CASE /\ pkt.action = "register" /\ Result("succ")
           /\ list' = { s \in list : s.name # pkt.service.name } \cup {pkt.service}
  BY <1>1 DEF Result, Reply, Has, Waits
<1>2. CASE pkt.action = "inquiry" /\ list' = list
  <2>1. \E action, r : Reply(action, r)
    BY <1>2, Zenon DEF Serve, Result, InquiryResult
  <2> QED
    BY <1>2, <2>1 DEF Reply, Has, Waits
<1> QED
  BY <1>1, <1>2 DEF Serve

(* No step breaks it.                                                      *)
LEMMA StepSuccessInv == SuccessInv /\ [Next]_vars => SuccessInv'
<1> SUFFICES ASSUME SuccessInv, [Next]_vars PROVE SuccessInv'
  OBVIOUS
<1> USE DEF daemonVars, clientVars
<1>0. /\ BufferInv /\ PortOK /\ NumbersOK /\ Whole /\ TrueReplies /\ SuccessIsTrue
      /\ Len(socket) \in Nat /\ Len(received) \in Nat
      /\ BufferInv'
  BY StepBufferInv, LenProperties DEF SuccessInv, BufferInv, PortOK
<1>1. ASSUME NEW p \in Language, Register(p) \/ Inquire(p) PROVE SuccessInv'
  <2>1. PICK pkt \in APkt :
          /\ Send(UDP_COMM_BUF_LEN, pkt)
          /\ call' = [call EXCEPT ![p] = [from |-> sent', pkt |-> pkt]]
    <3>1. CASE Register(p)
      <4>1. PICK n \in Name, i \in Description :
              Call(p, "register", [name |-> n, info |-> i])
        BY <3>1 DEF Register
      <4> QED
        BY <4>1, PacketsAreSent DEF Call
    <3>2. CASE Inquire(p)
      <4>1. PICK n \in Name : Call(p, "inquiry", [name |-> n, info |-> <<>>])
        BY <3>2 DEF Inquire
      <4> QED
        BY <4>1, PacketsAreSent DEF Call
    <3> QED
      BY <1>1, <3>1, <3>2
  <2>2. UNCHANGED <<daemonVars, replies, short, claimed>>
    BY <1>1 DEF Register, Inquire, Call
  <2>3. UDP_COMM_BUF_LEN \in 0..UDP_COMM_BUF_LEN /\ pkt \in APkt \cup {NULL}
    BY BufLen
  <2>4. /\ sent' = sent + 1
        /\ \A k \in 1..Len(socket') :
             \/ k \in 1..Len(socket) /\ socket'[k] = socket[k]
             \/ socket'[k] = [from |-> sent', len |-> UDP_COMM_BUF_LEN, pkt |-> pkt]
    BY <1>0, <2>1, <2>3, SendProperties
  <2>5. NumbersOK'
    BY <1>0, <2>1, <2>2, <2>4, SMTT(30) DEF NumbersOK
  <2>6. Whole'
    <3>1. \A d : OfItsCall(d) /\ d.from \in 0..sent => OfItsCall(d)'
      BY <1>0, <2>1, <2>4 DEF NumbersOK, OfItsCall, Waits
    <3>2. \A d : d = [from |-> sent', len |-> UDP_COMM_BUF_LEN, pkt |-> pkt] =>
                 OfItsCall(d)'
      BY <1>0, <2>1, <2>4 DEF NumbersOK, OfItsCall, Waits
    <3>3. ~short => (\A k \in 1..Len(socket) : OfItsCall(socket[k]))'
      BY <1>0, <2>4, <3>1, <3>2 DEF Whole, NumbersOK
    <3>4. ~short => (\A k \in 1..Len(received) : OfItsCall(received[k]))'
      BY <1>0, <2>2, <3>1 DEF Whole, NumbersOK
    <3>5. short' = short
      BY <2>2
    <3> QED
      BY <3>3, <3>4, <3>5 DEF Whole
  <2>7. TrueReplies'
    BY <1>0, <2>1, <2>2, <2>4 DEF TrueReplies, NumbersOK, Waits, Has
  <2>8. SuccessIsTrue'
    BY <1>0, <2>2 DEF SuccessIsTrue
  <2> QED
    BY <1>0, <2>5, <2>6, <2>7, <2>8 DEF SuccessInv
<1>2. ASSUME NEW p \in Language, ReadReply(p) \/ GiveUp(p) PROVE SuccessInv'
  <2>1. /\ call' = [call EXCEPT ![p] = NULL] /\ replies' \subseteq replies
        /\ UNCHANGED <<daemonVars, socket, sent, short>>
    BY <1>2 DEF ReadReply, GiveUp
  <2>2. ASSUME NEW c \in claimed', c \notin claimed
        PROVE  \E r \in replies :
                 /\ r.action = "succ" /\ Waits(p, r.to)
                 /\ call[p].pkt.action = "register"
                 /\ c = [name |-> call[p].pkt.service.name, start |-> r.start]
    BY <1>2, <2>2 DEF ReadReply, GiveUp, Waits
  <2>3. NumbersOK'
    BY <1>0, <2>1, <2>2 DEF NumbersOK
  <2>4. \A q \in Language : \A n : Waits(q, n)' => Waits(q, n) /\ call'[q] = call[q]
    BY <1>0, <2>1 DEF NumbersOK, Waits
  <2>5. Whole'
    BY <1>0, <2>1, <2>4 DEF Whole, OfItsCall
  <2>6. TrueReplies'
    BY <1>0, <2>1, <2>4 DEF TrueReplies, Has
  <2>7. SuccessIsTrue'
    BY <1>0, <2>1, <2>2 DEF SuccessIsTrue, TrueReplies, Has
  <2> QED
    BY <1>0, <2>3, <2>5, <2>6, <2>7 DEF SuccessInv
<1>3. CASE SendShort
  <2>1. PICK len \in 0..UDP_COMM_BUF_LEN, pkt \in APkt \cup {NULL} : Send(len, pkt)
    <3>1. PICK len \in 0..(UDP_COMM_BUF_LEN - 1), n \in Name :
            \E pkt \in Packets("Go", "inquiry", n, <<>>) \cup {NULL} : Send(len, pkt)
      BY <1>3 DEF SendShort
    <3> QED
      BY <3>1, PacketsAreSent, BufLen DEF Language
  <2>2. UNCHANGED <<daemonVars, replies, clientVars>> /\ short' = TRUE
    BY <1>3 DEF SendShort
  <2>3. /\ sent' = sent + 1
        /\ \A k \in 1..Len(socket') :
             \/ k \in 1..Len(socket) /\ socket'[k] = socket[k]
             \/ socket'[k] = [from |-> sent', len |-> len, pkt |-> pkt]
    BY <1>0, <2>1, SendProperties
  <2>4. NumbersOK'
    <3>1. \A k \in 1..Len(socket') : socket'[k].from \in 0..sent'
      BY <1>0, <2>3 DEF NumbersOK
    <3>2. \A n \in 0..sent : n \in 0..sent'
      BY <1>0, <2>3 DEF NumbersOK
    <3> QED
      BY <1>0, <2>2, <2>3, <3>1, <3>2 DEF NumbersOK
  <2> QED
    BY <1>0, <2>2, <2>4 DEF SuccessInv, Whole, TrueReplies, SuccessIsTrue
<1>4. CASE Start
  <2>1. /\ UNCHANGED <<received, socket, replies, sent, short, clientVars>>
        /\ starts' = starts + 1
    BY <1>4 DEF Start
  <2> QED
    BY <1>0, <2>1 DEF SuccessInv, NumbersOK, Whole, OfItsCall, Waits, TrueReplies,
       SuccessIsTrue
<1>5. CASE ReadFail \/ RecvFromEmpty
  <2>1. End
    BY <1>5, Zenon DEF ReadFail, RecvFromEmpty
  <2>2. /\ ~running' /\ Len(socket') = 0 /\ Len(received') = 0
        /\ UNCHANGED <<starts, replies, sent, clientVars>>
    BY <2>1 DEF End
  <2> QED
    BY <1>0, <2>2 DEF SuccessInv, NumbersOK, Whole, TrueReplies, SuccessIsTrue
<1>6. CASE RecvFrom
  <2>1. UNCHANGED <<running, starts, list, replies, sent, short, clientVars>>
    BY <1>6 DEF RecvFrom
  <2>2. /\ 1 \in 1..Len(socket)
        /\ \A k \in 1..Len(received') :
             \/ k \in 1..Len(received) /\ received'[k] = received[k]
             \/ k = Len(received') /\ received'[k] = socket[1]
        /\ \A k \in 1..Len(socket') : k + 1 \in 1..Len(socket) /\ socket'[k] = socket[k + 1]
    BY <1>0, <1>6, RecvFromProperties
  <2>3. NumbersOK'
    BY <1>0, <2>1, <2>2 DEF NumbersOK
  <2>4. Whole'
    <3>1. \A d : OfItsCall(d) => OfItsCall(d)'
      BY <2>1 DEF OfItsCall, Waits
    <3> QED
      BY <1>0, <2>1, <2>2, <3>1 DEF Whole
  <2> QED
    BY <1>0, <2>1, <2>3, <2>4 DEF SuccessInv, TrueReplies, SuccessIsTrue, Waits, Has
<1>7. CASE Handle
  <2>0. /\ running /\ r_len = UDP_COMM_BUF_LEN
        /\ UNCHANGED <<running, starts, socket, sent, short, clientVars>>
        /\ Len(received') = 0
    BY <1>7 DEF Handle
  <2>1. CASE UNCHANGED <<list, replies>>
    BY <1>0, <2>0, <2>1 DEF SuccessInv, NumbersOK, Whole, OfItsCall, Waits, TrueReplies,
       SuccessIsTrue, Has
  <2>2. CASE Serve(received[1].pkt)
    <3>1. received # <<>> /\ 1 \in 1..Len(received) /\ addrfrom = Last(received).from
      BY <1>0, <2>0, BufLen DEF BufferInv, PortOK, BufferOK
    <3>2. ~short => /\ addrfrom = received[1].from
                    /\ \A p \in Language : Waits(p, addrfrom) =>
                         call[p].pkt = received[1].pkt
      <4>1. SUFFICES ASSUME ~short PROVE Len(received) = 1 /\ OfItsCall(received[1])
        BY <3>1 DEF OfItsCall, Last
      <4>2. \A k \in 1..Len(received) : OfItsCall(received[k])
        BY <1>0, <4>1 DEF Whole
      <4> QED
        BY <1>0, <3>1, <4>2 DEF OfItsCall, BufferInv, BufferOK
    <3>3. NumbersOK'
      BY <1>0, <2>0, <2>2, ServeProperties DEF NumbersOK, Waits
    <3>4. Whole'
      BY <1>0, <2>0 DEF Whole, OfItsCall, Waits
    <3>5. TrueReplies'
      BY <1>0, <2>0, <2>2, <3>2, ServeProperties DEF TrueReplies, Waits
    <3>6. SuccessIsTrue'
      BY <1>0, <2>0, <2>2, ServeProperties DEF SuccessIsTrue, Has
    <3> QED
      BY <1>0, <3>3, <3>4, <3>5, <3>6 DEF SuccessInv
  <2> QED
    BY <1>7, <2>1, <2>2 DEF Handle
<1>8. CASE Over \/ UNCHANGED vars
  <2>1. UNCHANGED vars
    BY <1>8 DEF Over
  <2>2. NumbersOK' /\ Whole'
    BY <1>0, <2>1 DEF vars, NumbersOK, Whole, OfItsCall, Waits
  <2>3. TrueReplies' /\ SuccessIsTrue'
    BY <1>0, <2>1 DEF vars, TrueReplies, SuccessIsTrue, Waits, Has
  <2> QED
    BY <1>0, <2>2, <2>3 DEF SuccessInv
<1> QED
  BY <1>1, <1>2, <1>3, <1>4, <1>5, <1>6, <1>7, <1>8 DEF Next

(* As long as every datagram is a whole packet, as all programs of the     *)
(* project send them, a registration told to have succeeded is in the list *)
(* of the C daemon until it ends.                                          *)
THEOREM SuccessStaysTrue == Spec => []SuccessIsTrue
BY InitSuccessInv, StepSuccessInv, PTL DEF Spec, SuccessInv

-----------------------------------------------------------------------------
(* Induction over the size of a set of positions: of the sizes at which a  *)
(* claim fails, if any, there is a least one.                              *)
LEMMA LeastNatural ==
  ASSUME NEW T \in SUBSET Nat, T # {}
  PROVE  \E n \in T : \A m \in T : n <= m
<1>1. PICK n \in T : \A m \in T : ~ (<<m, n>> \in OpToRel(<,Nat))
  BY NatLessThanWellFounded, WFMin
<1>2. \A x, y \in Nat : x < y => <<x, y>> \in OpToRel(<,Nat)
  BY DEF OpToRel
<1>3. \A m \in T : ~(m < n)
  BY <1>1, <1>2
<1>4. \A m \in T : n <= m
  BY <1>3
<1> QED
  BY <1>4

(* One step of the sum over a set of positions of a text.                  *)
SumStep(q, g, s) ==
  IF s = {} THEN 0
  ELSE (g[s \ {CHOOSE x \in s : TRUE}] + q[CHOOSE x \in s : TRUE]) % SumRange

IsSum(q, g) == g = [s \in SUBSET DOMAIN q |-> SumStep(q, g, s)]

(* SumOf is such a sum over all positions, if there is one.                *)
LEMMA SumIsRecursive ==
  ASSUME NEW q, NEW g, IsSum(q, g)
  PROVE  \E h : SumOf(q) = h[DOMAIN q] /\ IsSum(q, h)
<1> DEFINE f == CHOOSE iter : iter = [s \in SUBSET DOMAIN q |->
        IF s = {} THEN 0
        ELSE LET x == CHOOSE x \in s : TRUE
             IN  (iter[s \ {x}] + q[x]) % SumRange]
<1>1. SumOf(q) = f[DOMAIN q]
  BY DEF SumOf, FoldSeq, FoldFunction, FoldFunctionOnSet, MapThenFoldSet
<1>2. f = CHOOSE iter : IsSum(q, iter)
  BY DEF IsSum, SumStep
<1> HIDE DEF f
<1>3. IsSum(q, f)
  BY <1>2
<1> QED
  BY <1>1, <1>3

(* There is one, for every text: of the sets with fewer than n positions,  *)
(* from those with fewer still.                                            *)
LEMMA SumExists ==
  ASSUME NEW q, IsFiniteSet(DOMAIN q)
  PROVE  \E g : IsSum(q, g)
<1> DEFINE D == DOMAIN q
           Small(n) == { s \in SUBSET D : Cardinality(s) < n }
           IsPart(g, n) == g = [s \in Small(n) |-> SumStep(q, g, s)]
           T == { n \in Nat : ~ \E g : IsPart(g, n) }
<1>1. ASSUME NEW s \in SUBSET D, s # {}
      PROVE  /\ IsFiniteSet(s) /\ Cardinality(s) \in Nat
             /\ (CHOOSE x \in s : TRUE) \in s
             /\ s \ {CHOOSE x \in s : TRUE} \in SUBSET D
             /\ Cardinality(s \ {CHOOSE x \in s : TRUE}) = Cardinality(s) - 1
  <2>1. IsFiniteSet(s)
    BY FS_Subset
  <2>2. (CHOOSE x \in s : TRUE) \in s
    BY <1>1
  <2> QED
    BY <2>1, <2>2, FS_RemoveElement, FS_CardinalityType
<1>2. ASSUME NEW n \in Nat, NEW g, IsPart(g, n)
      PROVE  \E h : IsPart(h, n + 1)
  <2> DEFINE h == [s \in Small(n + 1) |-> SumStep(q, g, s)]
  <2>1. ASSUME NEW s \in Small(n + 1)
        PROVE  SumStep(q, h, s) = SumStep(q, g, s)
    <3>1. CASE s = {}
      BY <3>1 DEF SumStep
    <3>2. CASE s # {}
      <4> DEFINE x == CHOOSE x \in s : TRUE
                 r == s \ {x}
      <4>1. r \in Small(n) /\ r \in Small(n + 1)
        BY <1>1, <3>2
      <4>2. g[r] = SumStep(q, g, r)
        BY <1>2, <4>1
      <4>3. h[r] = SumStep(q, g, r)
        BY <4>1
      <4>4. h[r] = g[r]
        BY <4>2, <4>3
      <4> HIDE DEF h
      <4> QED
        BY <4>4, <3>2 DEF SumStep
    <3> QED
      BY <3>1, <3>2
  <2>2. IsPart(h, n + 1)
    BY <2>1
  <2> QED
    BY <2>2
<1>3. \E g : IsPart(g, 0)
  <2>1. Small(0) = {}
    BY FS_Subset, FS_CardinalityType
  <2>2. IsPart([s \in {} |-> 0], 0)
    BY <2>1
  <2> QED
    BY <2>2
<1>4. T = {}
  <2> SUFFICES ASSUME T # {} PROVE FALSE
    OBVIOUS
  <2> HIDE DEF IsPart
  <2>1. PICK n \in T : \A m \in T : n <= m
    BY LeastNatural
  <2>2. n # 0 /\ n \in Nat
    BY <1>3
  <2>3. n - 1 \in Nat /\ n - 1 \notin T /\ (n - 1) + 1 = n
    BY <2>1, <2>2
  <2> QED
    BY <1>2, <2>3, <2>1
<1>5. Cardinality(D) + 1 \in Nat
  BY FS_CardinalityType
<1>6. Small(Cardinality(D) + 1) = SUBSET D
  BY FS_Subset, FS_CardinalityType
<1>7. \E g : IsPart(g, Cardinality(D) + 1)
  BY <1>4, <1>5
<1> QED
  BY <1>6, <1>7 DEF IsSum

(* Numbers that differ by a multiple of SumRange, and their remainders.    *)
Congruent(a, b) == \E z \in Int : a = b + z * SumRange

LEMMA Remainder ==
  ASSUME NEW a \in Int
  PROVE  a % SumRange \in 0..(SumRange - 1) /\ Congruent(a % SumRange, a)
<1>1. SumRange \in Nat /\ SumRange > 0
  BY CodecAssumption
<1>2. a % SumRange \in 0..(SumRange - 1)
  BY <1>1
<1>3. a = SumRange * (a \div SumRange) + (a % SumRange) /\ a \div SumRange \in Int
  BY <1>1
<1>4. -(a \div SumRange) \in Int
  BY <1>3
<1>5. a % SumRange = a + (-(a \div SumRange)) * SumRange
  BY <1>1, <1>2, <1>3
<1> QED
  BY <1>2, <1>4, <1>5 DEF Congruent

LEMMA SameRemainder ==
  ASSUME NEW a \in 0..(SumRange - 1), NEW b \in 0..(SumRange - 1), NEW c \in Int,
         Congruent(a, b + c)
  PROVE  a = b <=> c % SumRange = 0
<1>1. SumRange \in Nat /\ SumRange > 0
  BY CodecAssumption
<1>2. PICK w \in Int : c % SumRange = c + w * SumRange
  BY Remainder DEF Congruent
<1>3. PICK z \in Int : a = b + c + z * SumRange
  BY DEF Congruent
<1>4. ASSUME a = b PROVE c % SumRange = 0
  <2>1. c = (-z) * SumRange
    BY <1>1, <1>3, <1>4
  <2>2. c % SumRange = (w - z) * SumRange
    BY <1>1, <1>2, <2>1
  <2>3. c % SumRange \in 0..(SumRange - 1)
    BY Remainder
  <2>4. w - z = 0
    BY <1>1, <2>2, <2>3
  <2> QED
    BY <1>1, <2>2, <2>4
<1>5. ASSUME c % SumRange = 0 PROVE a = b
  <2>1. a - b = (z - w) * SumRange
    BY <1>1, <1>2, <1>3, <1>5
  <2>2. z - w = 0
    BY <1>1, <2>1
  <2> QED
    BY <1>1, <2>1, <2>2
<1> QED
  BY <1>4, <1>5

(* What two sums differ by, after one step more.                           *)
LEMMA RemaindersDiffer ==
  ASSUME NEW a \in Int, NEW b \in Int, NEW c \in Int, NEW d \in Int, NEW p \in Int,
         NEW q \in Int, Congruent(a, b + c), p = q + d
  PROVE  Congruent((a + p) % SumRange, ((b + q) % SumRange) + (c + d))
<1>1. SumRange \in Int
  BY CodecAssumption
<1>2. PICK y \in Int : a = b + c + y * SumRange
  BY DEF Congruent
<1>3. PICK u \in Int : (a + p) % SumRange = (a + p) + u * SumRange
  BY Remainder DEF Congruent
<1>4. PICK v \in Int : (b + q) % SumRange = (b + q) + v * SumRange
  BY Remainder DEF Congruent
<1>5. (y + u - v) * SumRange = y * SumRange + u * SumRange - v * SumRange
  BY <1>1
<1>6. y * SumRange \in Int /\ u * SumRange \in Int /\ v * SumRange \in Int
  BY <1>1
<1>7. (a + p) % SumRange = ((b + q) % SumRange) + (c + d) + (y + u - v) * SumRange
  BY <1>2, <1>3, <1>4, <1>5, <1>6
<1>8. y + u - v \in Int
  OBVIOUS
<1> QED
  BY <1>7, <1>8 DEF Congruent

(* A byte outside ASCII is ByteRange more than what it is as a char.       *)
LEMMA SignedBytes ==
  ASSUME NEW q \in Seq(1..(ByteRange - 1))
  PROVE  /\ DOMAIN q = 1..Len(q) /\ DOMAIN Signed(q) = 1..Len(q) /\ Len(q) \in Nat
         /\ \A k \in 1..Len(q) :
              /\ q[k] \in Int /\ Signed(q)[k] \in Int
              /\ q[k] = Signed(q)[k] + (IF q[k] >= ByteRange \div 2 THEN ByteRange ELSE 0)
<1>1. ByteRange \in Nat /\ ByteRange > 0 /\ ByteRange \div 2 \in Int
  BY CodecAssumption
<1>2. Len(q) \in Nat /\ DOMAIN q = 1..Len(q) /\ \A k \in 1..Len(q) : q[k] \in Int
  BY <1>1, LenProperties, ElementOfSeq
<1> QED
  BY <1>1, <1>2 DEF Signed

(* What a sum takes at a set of positions.                                 *)
LEMMA SumOfPart ==
  ASSUME NEW q, NEW g, IsSum(q, g), NEW s \in SUBSET DOMAIN q
  PROVE  /\ s = {} => g[s] = 0
         /\ s # {} =>
              /\ (CHOOSE x \in s : TRUE) \in s
              /\ g[s] = (g[s \ {CHOOSE x \in s : TRUE}] + q[CHOOSE x \in s : TRUE])
                           % SumRange
<1>1. g[s] = SumStep(q, g, s)
  BY DEF IsSum
<1> QED
  BY <1>1 DEF SumStep

(* The positions with a byte outside ASCII.                                *)
HighIn(q, s) == { k \in s : q[k] >= ByteRange \div 2 }

(* The sums of the bytes and of the signed bytes differ by ByteRange for   *)
(* each byte outside ASCII.                                                *)
LEMMA SumsDiffer ==
  ASSUME NEW q \in Seq(1..(ByteRange - 1)), NEW g, IsSum(q, g), NEW h, IsSum(Signed(q), h),
         NEW s \in SUBSET DOMAIN q
  PROVE  /\ g[s] \in 0..(SumRange - 1) /\ h[s] \in 0..(SumRange - 1)
         /\ Congruent(g[s], h[s] + Cardinality(HighIn(q, s)) * ByteRange)
<1> DEFINE D == DOMAIN q
           Claim(t) == /\ g[t] \in 0..(SumRange - 1) /\ h[t] \in 0..(SumRange - 1)
                       /\ Congruent(g[t], h[t] + Cardinality(HighIn(q, t)) * ByteRange)
           T == { n \in Nat : \E t \in SUBSET D : Cardinality(t) = n /\ ~Claim(t) }
<1>1. /\ D = 1..Len(q) /\ DOMAIN Signed(q) = D /\ IsFiniteSet(D)
      /\ SumRange \in Nat /\ SumRange > 0 /\ ByteRange \in Nat
  BY SignedBytes, FS_Interval, CodecAssumption
<1>2. ASSUME NEW t \in SUBSET D
      PROVE  IsFiniteSet(t) /\ Cardinality(t) \in Nat /\ IsFiniteSet(HighIn(q, t))
             /\ Cardinality(HighIn(q, t)) \in Nat
  <2>1. IsFiniteSet(t)
    BY <1>1, FS_Subset
  <2>2. IsFiniteSet(HighIn(q, t))
    BY <2>1, FS_Subset DEF HighIn
  <2> QED
    BY <2>1, <2>2, FS_CardinalityType
<1>3. Claim({})
  <2>1. HighIn(q, {}) = {}
    BY DEF HighIn
  <2>2. Cardinality(HighIn(q, {})) = 0
    BY <2>1, FS_EmptySet
  <2>3. g[{}] = 0 /\ h[{}] = 0
    BY <1>1, SumOfPart
  <2>4. g[{}] = h[{}] + Cardinality(HighIn(q, {})) * ByteRange + 0 * SumRange
    BY <1>1, <2>2, <2>3
  <2>5. Congruent(g[{}], h[{}] + Cardinality(HighIn(q, {})) * ByteRange)
    BY <2>4 DEF Congruent
  <2> QED
    BY <1>1, <2>3, <2>5
<1>4. ASSUME NEW t \in SUBSET D, t # {}, Claim(t \ {CHOOSE x \in t : TRUE}) PROVE Claim(t)
  <2> DEFINE x == CHOOSE x \in t : TRUE
             r == t \ {x}
             c == Cardinality(HighIn(q, r))
             b == IF q[x] >= ByteRange \div 2 THEN ByteRange ELSE 0
  <2>1. x \in t /\ r \in SUBSET D /\ x \in 1..Len(q)
    BY <1>1, <1>4
  <2>2. g[t] = (g[r] + q[x]) % SumRange /\ h[t] = (h[r] + Signed(q)[x]) % SumRange
    BY <1>1, <1>4, SumOfPart
  <2>3. q[x] = Signed(q)[x] + b /\ q[x] \in Int /\ Signed(q)[x] \in Int /\ b \in Int
    BY <1>1, <2>1, SignedBytes
  <2>4. Cardinality(HighIn(q, t)) * ByteRange = c * ByteRange + b
    <3>1. CASE q[x] >= ByteRange \div 2
      <4>1. HighIn(q, t) = HighIn(q, r) \cup {x} /\ x \notin HighIn(q, r)
        BY <2>1, <3>1 DEF HighIn
      <4>2. Cardinality(HighIn(q, t)) = c + 1
        BY <1>2, <2>1, <4>1, FS_AddElement
      <4> QED
        BY <1>1, <1>2, <2>1, <3>1, <4>2
    <3>2. CASE ~(q[x] >= ByteRange \div 2)
      <4>1. HighIn(q, t) = HighIn(q, r)
        BY <2>1, <3>2 DEF HighIn
      <4> QED
        BY <1>1, <1>2, <2>1, <3>2, <4>1
    <3> QED
      BY <3>1, <3>2
  <2>5. /\ Congruent(g[r], h[r] + c * ByteRange)
        /\ g[r] \in 0..(SumRange - 1) /\ h[r] \in 0..(SumRange - 1)
    BY <1>4
  <2>6. c \in Nat
    BY <1>2, <2>1
  <2> HIDE DEF x, r, c, b
  <2>7. g[r] \in Int /\ h[r] \in Int /\ c * ByteRange \in Int
    BY <1>1, <2>5, <2>6
  <2>8. g[r] + q[x] \in Int /\ h[r] + Signed(q)[x] \in Int
    BY <2>3, <2>7
  <2>9. g[t] \in 0..(SumRange - 1) /\ h[t] \in 0..(SumRange - 1)
    BY <2>2, <2>8, Remainder
  <2>10. Congruent((g[r] + q[x]) % SumRange,
                   ((h[r] + Signed(q)[x]) % SumRange) + (c * ByteRange + b))
    BY <2>3, <2>5, <2>7, RemaindersDiffer, Zenon
  <2> QED
    BY <2>2, <2>4, <2>9, <2>10
<1> HIDE DEF Claim
<1>5. T = {}
  <2> SUFFICES ASSUME T # {} PROVE FALSE
    OBVIOUS
  <2>1. PICK n \in T : \A m \in T : n <= m
    BY LeastNatural
  <2>2. PICK t \in SUBSET D : Cardinality(t) = n /\ ~Claim(t)
    BY <2>1
  <2>3. t # {}
    BY <1>3, <2>2
  <2> DEFINE x == CHOOSE x \in t : TRUE
             r == t \ {x}
  <2>4. x \in t
    BY <2>3
  <2>5. r \in SUBSET D /\ Cardinality(r) = n - 1 /\ Cardinality(r) \in Nat
    BY <1>2, <2>2, <2>4, FS_RemoveElement
  <2>6. ~Claim(r)
    BY <1>4, <2>2, <2>3
  <2>7. n - 1 \in T
    BY <2>5, <2>6
  <2> QED
    BY <2>1, <2>7
<1>6. Claim(s)
  BY <1>2, <1>5
<1> QED
  BY <1>6 DEF Claim

(* For every text, however long.                                           *)
LEMMA ChecksumsDiffer ==
  ASSUME NEW q \in Seq(1..(ByteRange - 1))
  PROVE  /\ SumOf(q) \in 0..(SumRange - 1) /\ SumOf(Signed(q)) \in 0..(SumRange - 1)
         /\ SumOf(q) = SumOf(Signed(q)) <=> (High(q) * ByteRange) % SumRange = 0
<1> DEFINE D == DOMAIN q
<1>1. D = 1..Len(q) /\ DOMAIN Signed(q) = D /\ IsFiniteSet(D)
  BY SignedBytes, FS_Interval
<1>2. PICK g : SumOf(q) = g[D] /\ IsSum(q, g)
  BY <1>1, SumExists, SumIsRecursive
<1>3. PICK h : SumOf(Signed(q)) = h[D] /\ IsSum(Signed(q), h)
  BY <1>1, SumExists, SumIsRecursive
<1>4. High(q) = Cardinality(HighIn(q, D)) /\ High(q) \in Nat
  <2>1. IsFiniteSet(HighIn(q, D))
    BY <1>1, FS_Subset DEF HighIn
  <2> QED
    BY <1>1, <2>1, FS_CardinalityType DEF High, HighIn
<1>5. /\ SumOf(q) \in 0..(SumRange - 1) /\ SumOf(Signed(q)) \in 0..(SumRange - 1)
      /\ Congruent(SumOf(q), SumOf(Signed(q)) + High(q) * ByteRange)
  BY <1>2, <1>3, <1>4, SumsDiffer
<1>6. High(q) * ByteRange \in Int
  BY <1>4, CodecAssumption
<1> QED
  BY <1>5, <1>6, SameRemainder

-----------------------------------------------------------------------------
(* What Field cuts off or adds changes no text that fits in the buffer,    *)
(* and of a longer one nothing that does.                                  *)
LEMMA FieldProperties ==
  ASSUME NEW lang \in Language, NEW text \in Seq(Byte), NEW t \in Field(lang, text)
  PROVE  t \in Seq(Byte) /\ SameText(text, t)
<1> DEFINE max == INFO_MAX_LEN
           cut == SubSeq(text, 1, max)
<1>1. max \in Nat /\ Behind \subseteq Seq(Byte) /\ Len(text) \in Nat
      /\ \A k \in 1..Len(text) : text[k] \in Byte
  BY CodecAssumption, LenProperties, ElementOfSeq DEF Byte
<1>2. ASSUME Len(text) >= max
      PROVE  /\ cut \in Seq(Byte) /\ Len(cut) = max /\ \A k \in 1..max : cut[k] = text[k]
             /\ Fitting(text) = cut
  <2>1. \A k \in 1..max : text[k] \in Byte
    BY <1>1, <1>2
  <2>2. cut \in Seq(Byte) /\ Len(cut) = max /\ \A k \in 1..max : cut[k] = text[k]
    BY <1>1, <2>1, SubSeqProperties
  <2>3. Len(text) = max => cut = text
    BY <1>1, SubSeqFull
  <2> QED
    BY <1>1, <1>2, <2>2, <2>3 DEF Fitting
<1>3. CASE t = text
  BY <1>3 DEF SameText
<1>4. CASE Len(text) >= max /\ \E b \in Behind : t = cut \o b
  <2>1. PICK b \in Behind : t = cut \o b
    BY <1>4
  <2>2. /\ cut \in Seq(Byte) /\ Len(cut) = max /\ b \in Seq(Byte) /\ Len(b) \in Nat
        /\ Fitting(text) = cut
    BY <1>1, <1>2, <1>4, LenProperties
  <2>3. /\ t \in Seq(Byte) /\ Len(t) = max + Len(b)
        /\ \A k \in 1..max : k \in 1..(max + Len(b)) /\ t[k] = cut[k] /\ t[k] \in Byte
    <3>1. /\ t \in Seq(Byte) /\ Len(t) = Len(cut) + Len(b)
          /\ \A k \in 1..(Len(cut) + Len(b)) :
               t[k] = IF k <= Len(cut) THEN cut[k] ELSE b[k - Len(cut)]
      BY <2>1, <2>2, ConcatProperties
    <3>2. \A k \in 1..(max + Len(b)) : t[k] \in Byte
      BY <2>2, <3>1, ElementOfSeq
    <3> HIDE DEF max, cut
    <3> QED
      BY <1>1, <2>2, <3>1, <3>2
  <2>4. Fitting(t) = cut
    <3>1. CASE Len(t) > max
      <4>1. /\ SubSeq(t, 1, max) \in Seq(Byte) /\ Len(SubSeq(t, 1, max)) = max
            /\ \A k \in 1..max : SubSeq(t, 1, max)[k] = t[k]
        BY <1>1, <2>3, SubSeqProperties
      <4>2. SubSeq(t, 1, max) = cut
        BY <2>2, <2>3, <4>1, SeqEqual
      <4> QED
        BY <3>1, <4>2 DEF Fitting
    <3>2. CASE ~(Len(t) > max)
      <4>1. Len(t) = max
        BY <1>1, <2>2, <2>3, <3>2
      <4>2. t = cut
        BY <2>2, <2>3, <4>1, SeqEqual
      <4> QED
        BY <3>2, <4>2 DEF Fitting
    <3> QED
      BY <3>1, <3>2
  <2> QED
    BY <1>1, <1>4, <2>2, <2>3, <2>4 DEF SameText
<1>5. CASE Len(text) > max /\ t = cut
  <2>1. cut \in Seq(Byte) /\ Len(cut) = max /\ Fitting(text) = cut
    BY <1>1, <1>2, <1>5
  <2>2. Fitting(cut) = cut
    BY <1>1, <2>1 DEF Fitting
  <2> QED
    BY <1>1, <1>5, <2>1, <2>2 DEF SameText
<1> QED
  BY <1>3, <1>4, <1>5 DEF Field, Language

(* A text that is passed on twice is the same as far as it fits.           *)
LEMMA SameTextTwice ==
  ASSUME NEW a \in Seq(Byte), NEW b \in Seq(Byte), NEW c \in Seq(Byte),
         SameText(a, b), SameText(b, c)
  PROVE  SameText(a, c)
<1>1. INFO_MAX_LEN \in Nat /\ Len(a) \in Nat /\ Len(b) \in Nat
  BY CodecAssumption, LenProperties
<1>2. CASE Len(a) < INFO_MAX_LEN
  BY <1>2 DEF SameText
<1>3. CASE ~(Len(a) < INFO_MAX_LEN)
  BY <1>3 DEF SameText
<1> QED
  BY <1>2, <1>3

(* A packet whose checksum is its writer's.                                *)
Honest(pkt) == pkt.checksum = GetChecksum(pkt.by, pkt.service.name \o pkt.service.info)

(* What the three programs write of a service.                             *)
LEMMA PacketProperties ==
  ASSUME NEW lang \in Language, NEW actions, NEW action \in actions, NEW n \in Seq(Byte),
         NEW i \in Seq(Byte), NEW pkt \in Packets(lang, action, n, i)
  PROVE  /\ pkt \in APacket(actions) /\ pkt.action = action /\ Honest(pkt)
         /\ SameText(n, pkt.service.name) /\ SameText(i, pkt.service.info)
<1>1. PICK s \in Fields(lang, n, i) :
        pkt = [by |-> lang, action |-> action, service |-> s,
               checksum |-> GetChecksum(lang, s.name \o s.info)]
  BY DEF Packets
<1>2. PICK t \in Field(lang, n), u \in Field(lang, i) : s = [name |-> t, info |-> u]
  BY DEF Fields
<1>3. t \in Seq(Byte) /\ u \in Seq(Byte) /\ SameText(n, t) /\ SameText(i, u)
  BY FieldProperties
<1>4. t \o u \in Seq(Byte)
  BY <1>3, ConcatProperties
<1>5. GetChecksum(lang, t \o u) \in 0..(SumRange - 1)
  BY <1>4, ChecksumsDiffer DEF GetChecksum, Byte
<1>6. s \in AService /\ s.name = t /\ s.info = u
  BY <1>2, <1>3 DEF AService
<1>7. pkt \in APacket(actions)
  BY <1>1, <1>5, <1>6 DEF APacket
<1> QED
  BY <1>1, <1>3, <1>6, <1>7 DEF Honest

-----------------------------------------------------------------------------
(* A service that was to be registered, as far as its texts fit.           *)
Stands(s) == \E w \in wanted : SameText(w.name, s.name) /\ SameText(w.info, s.info)

(* A registration on its way is one that was wanted.                       *)
PacketStands(pkt) == pkt # NULL /\ pkt.action = "register" => Stands(pkt.service)

(* Nothing else is on its way, kept or found.                              *)
Arrived ==
  /\ \A k \in 1..Len(socket) : PacketStands(socket[k].pkt)
  /\ \A k \in 1..Len(received) : PacketStands(received[k].pkt)
  /\ \A s \in list : Stands(s)
  /\ \A r \in replies : r.pkt # NULL => Stands(r.pkt.service)
  /\ \A s \in found : Stands(s)

(* No packet that is still to be read has been given a false checksum.     *)
AllHonest ==
  /\ \A k \in 1..Len(socket) : socket[k].pkt # NULL => Honest(socket[k].pkt)
  /\ \A r \in replies : r.pkt # NULL => Honest(r.pkt)

(* A reply bears the number of the daemon's start, which a running daemon  *)
(* has.                                                                    *)
HasStarted == running => starts # 0

(* RefusedIff and ServicesArrive rest on the types, for the texts are made *)
(* of bytes, and on what is in every packet that is still to be read.      *)
PortInv == BufferInv /\ TypeOK /\ HasStarted /\ AllHonest /\ Arrived

(* A packet with a request, or with a reply.                               *)
ARequest == APacket({"register", "inquiry"})

AReply == [to : 1..MaxSent, start : 1..MaxStarts, action : {"succ", "fail"},
           pkt : APacket({"succ"}) \cup {NULL}]

ACall == [from : 1..MaxSent, pkt : ARequest]

(* The programs' texts are made of bytes.                                  *)
LEMMA TextsAreBytes ==
  /\ Name \subseteq Seq(Byte) /\ Description \subseteq Seq(Byte) /\ <<>> \in Seq(Byte)
  /\ MaxStarts \in Nat
BY CPortAssumption DEF Byte

(* Nothing has been sent yet.                                              *)
LEMMA InitPortInv == Init => PortInv
<1> SUFFICES ASSUME Init PROVE PortInv
  OBVIOUS
<1>1. BufferInv
  BY InitBufferInv
<1>2. running \in BOOLEAN /\ short \in BOOLEAN
  BY Zenon DEF Init
<1>3. TypeOK
  BY <1>2, BufLen, TextsAreBytes DEF Init, TypeOK
<1> QED
  BY <1>1, <1>3 DEF Init, PortInv, HasStarted, AllHonest, Arrived

(* What an inquiry sends.                                                  *)
LEMMA InquiriesAreRequests ==
  \A lang \in Language, n \in Name : \A pkt \in Packets(lang, "inquiry", n, <<>>) :
    pkt \in ARequest /\ Honest(pkt) /\ pkt.action = "inquiry"
<1> SUFFICES ASSUME NEW lang \in Language, NEW n \in Name,
                    NEW pkt \in Packets(lang, "inquiry", n, <<>>)
             PROVE  pkt \in ARequest /\ Honest(pkt) /\ pkt.action = "inquiry"
  OBVIOUS
<1>1. n \in Seq(Byte) /\ <<>> \in Seq(Byte)
  BY TextsAreBytes
<1> QED
  BY <1>1, PacketProperties DEF ARequest

(* What is wanted once stays wanted.                                       *)
LEMMA StillWanted ==
  ASSUME wanted \subseteq wanted'
  PROVE  /\ \A s : Stands(s) => Stands(s)'
         /\ \A pkt : PacketStands(pkt) => PacketStands(pkt)'
<1>1. \A s : Stands(s) => Stands(s)'
  BY DEF Stands
<1> QED
  BY <1>1 DEF PacketStands

(* A datagram that is sent is the last in the socket.                      *)
LEMMA SendType ==
  ASSUME TypeOK, NEW len \in 0..UDP_COMM_BUF_LEN, NEW pkt \in ARequest \cup {NULL},
         Send(len, pkt)
  PROVE  /\ sent' \in 1..MaxSent
         /\ socket' \in Seq(Datagram)
         /\ \A k \in 1..Len(socket') :
              \/ k \in 1..Len(socket) /\ socket'[k] = socket[k]
              \/ socket'[k].pkt = pkt
<1>1. sent' \in 1..MaxSent
  BY BufLen DEF TypeOK, Send
<1>2. [from |-> sent', len |-> len, pkt |-> pkt] \in Datagram
  BY <1>1 DEF Datagram, ARequest
<1> QED
  BY <1>1, <1>2, AppendCases DEF TypeOK, Send

(* A reply is the one that is given.                                       *)
LEMMA ReplyType ==
  ASSUME PortInv, running, NEW action \in {"succ", "fail"},
         NEW pkt \in APacket({"succ"}) \cup {NULL}, Reply(action, pkt)
  PROVE  /\ replies' \subseteq AReply
         /\ \A r \in replies' : r \in replies \/ r.pkt = pkt
<1>1. starts \in 1..MaxStarts
  BY TextsAreBytes DEF PortInv, TypeOK, HasStarted
<1>2. ASSUME NEW p \in Language, call[p] # NULL, call[p].from = addrfrom
      PROVE  addrfrom \in 1..MaxSent
  BY <1>2 DEF PortInv, TypeOK
<1> QED
  BY <1>1, <1>2 DEF Reply, PortInv, TypeOK, AReply

(* What is served is kept and told of as it was wanted.                    *)
LEMMA ServeType ==
  ASSUME PortInv, running, NEW pkt \in ARequest, Serve(pkt), PacketStands(pkt), pkt # NULL,
         wanted' = wanted
  PROVE  /\ list' \subseteq AService /\ replies' \subseteq AReply
         /\ \A s \in list' : Stands(s)
         /\ \A r \in replies' : r.pkt # NULL => Honest(r.pkt) /\ Stands(r.pkt.service)
<1>1. /\ list \subseteq AService /\ pkt.service \in AService
      /\ \A s \in list : Stands(s)
      /\ \A r \in replies : r.pkt # NULL => Honest(r.pkt) /\ Stands(r.pkt.service)
  BY DEF PortInv, TypeOK, Arrived, AllHonest, ARequest, APacket
<1>2. ASSUME NEW action \in {"succ", "fail"}, Result(action)
      PROVE  /\ replies' \subseteq AReply
             /\ \A r \in replies' : r.pkt # NULL => Honest(r.pkt) /\ Stands(r.pkt.service)
  <2>1. NULL \in APacket({"succ"}) \cup {NULL}
    OBVIOUS
  <2> QED
    BY <1>1, <1>2, <2>1, ReplyType DEF Result
<1>3. CASE /\ pkt.action = "register" /\ Result("succ")
           /\ list' = { s \in list : s.name # pkt.service.name } \cup {pkt.service}
  <2>1. Stands(pkt.service)
    BY <1>3 DEF PacketStands
  <2> QED
    BY <1>1, <1>2, <1>3, <2>1
<1>4. CASE list' = list /\ Result("fail")
  BY <1>1, <1>2, <1>4
<1>5. CASE list' = list /\ \E s \in list : InquiryResult(s)
  <2>1. PICK s \in list : InquiryResult(s)
    BY <1>5
  <2>2. s.name \in Seq(Byte) /\ s.info \in Seq(Byte)
    BY <1>1 DEF AService
  <2>3. PICK r \in Packets("C", "succ", s.name, s.info) : Reply("succ", r)
    BY <2>1 DEF InquiryResult
  <2>4. /\ r \in APacket({"succ"}) /\ Honest(r)
        /\ SameText(s.name, r.service.name) /\ SameText(s.info, r.service.info)
    BY <2>2, PacketProperties DEF Language
  <2>5. r.service \in AService
    BY <2>4 DEF APacket
  <2>6. Stands(r.service)
    <3>1. PICK w \in wanted : SameText(w.name, s.name) /\ SameText(w.info, s.info)
      BY <1>1 DEF Stands
    <3>2. /\ w.name \in Seq(Byte) /\ w.info \in Seq(Byte)
          /\ r.service.name \in Seq(Byte) /\ r.service.info \in Seq(Byte)
      BY <2>5 DEF PortInv, TypeOK, AService
    <3> QED
      BY <2>2, <2>4, <3>1, <3>2, SameTextTwice DEF Stands
  <2>7. replies' \subseteq AReply /\ \A q \in replies' : q \in replies \/ q.pkt = r
    BY <2>3, <2>4, ReplyType
  <2> QED
    BY <1>1, <1>5, <2>4, <2>6, <2>7
<1> QED
  BY <1>3, <1>4, <1>5 DEF Serve

(* No step breaks it.                                                      *)
LEMMA StepPortInv == PortInv /\ [Next]_vars => PortInv'
<1> SUFFICES ASSUME PortInv, [Next]_vars PROVE PortInv'
  OBVIOUS
<1> USE DEF daemonVars, clientVars
<1>0. /\ BufferInv /\ TypeOK /\ HasStarted /\ AllHonest /\ Arrived /\ BufferInv'
      /\ replies \subseteq AReply /\ call \in [Language -> ACall \cup {NULL}]
  BY StepBufferInv DEF PortInv, TypeOK, AReply, ACall, ARequest
<1>1. ASSUME NEW p \in Language, Register(p) \/ Inquire(p) PROVE PortInv'
  <2>1. /\ UNCHANGED <<daemonVars, replies, short, claimed, found>>
        /\ wanted \subseteq wanted' /\ wanted' \subseteq AService
        /\ \E pkt \in ARequest :
             /\ Send(UDP_COMM_BUF_LEN, pkt) /\ Honest(pkt)
             /\ call' = [call EXCEPT ![p] = [from |-> sent', pkt |-> pkt]]
             /\ PacketStands(pkt)'
    <3>1. CASE Register(p)
      <4>1. PICK n \in Name, i \in Description :
              /\ Call(p, "register", [name |-> n, info |-> i])
              /\ wanted' = wanted \cup {[name |-> n, info |-> i]}
        BY <3>1 DEF Register
      <4>2. n \in Seq(Byte) /\ i \in Seq(Byte)
        BY TextsAreBytes
      <4>3. PICK pkt \in Packets(p, "register", n, i) :
              /\ Send(UDP_COMM_BUF_LEN, pkt)
              /\ call' = [call EXCEPT ![p] = [from |-> sent', pkt |-> pkt]]
        BY <4>1 DEF Call
      <4>4. /\ pkt \in ARequest /\ Honest(pkt)
            /\ SameText(n, pkt.service.name) /\ SameText(i, pkt.service.info)
        BY <4>2, PacketProperties DEF ARequest
      <4>5. PacketStands(pkt)'
        BY <4>1, <4>4 DEF PacketStands, Stands
      <4>6. wanted' \subseteq AService /\ wanted \subseteq wanted'
        BY <1>0, <4>1, <4>2 DEF TypeOK, AService
      <4> QED
        BY <4>1, <4>3, <4>4, <4>5, <4>6 DEF Call
    <3>2. CASE Inquire(p)
      <4>1. PICK n \in Name : Call(p, "inquiry", [name |-> n, info |-> <<>>])
        BY <3>2 DEF Inquire
      <4>2. wanted' = wanted
        BY <3>2 DEF Inquire
      <4>3. PICK pkt \in Packets(p, "inquiry", n, <<>>) :
              /\ Send(UDP_COMM_BUF_LEN, pkt)
              /\ call' = [call EXCEPT ![p] = [from |-> sent', pkt |-> pkt]]
        BY <4>1 DEF Call
      <4>4. pkt \in ARequest /\ Honest(pkt) /\ pkt.action = "inquiry"
        BY <4>3, InquiriesAreRequests
      <4>5. PacketStands(pkt)'
        BY <4>4 DEF PacketStands
      <4> QED
        BY <1>0, <4>1, <4>2, <4>3, <4>4, <4>5 DEF Call, TypeOK
    <3> QED
      BY <1>1, <3>1, <3>2
  <2>2. PICK pkt \in ARequest :
          /\ Send(UDP_COMM_BUF_LEN, pkt) /\ Honest(pkt)
          /\ call' = [call EXCEPT ![p] = [from |-> sent', pkt |-> pkt]]
          /\ PacketStands(pkt)'
    BY <2>1
  <2>3. /\ sent' \in 1..MaxSent /\ socket' \in Seq(Datagram)
        /\ \A k \in 1..Len(socket') :
             \/ k \in 1..Len(socket) /\ socket'[k] = socket[k]
             \/ socket'[k].pkt = pkt
    BY <1>0, <2>2, SendType, BufLen
  <2>4. call' \in [Language -> ACall \cup {NULL}]
    <3>1. [from |-> sent', pkt |-> pkt] \in ACall
      BY <2>2, <2>3 DEF ACall
    <3> QED
      BY <1>0, <2>2, <3>1
  <2>5. TypeOK'
    <3>1. sent' \in 0..MaxSent
      BY <2>3, BufLen
    <3> QED
      BY <1>0, <2>1, <2>3, <2>4, <3>1 DEF TypeOK, ACall, ARequest
  <2>6. AllHonest'
    BY <1>0, <2>1, <2>2, <2>3 DEF AllHonest
  <2>7. Arrived'
    BY <1>0, <2>1, <2>2, <2>3, StillWanted DEF Arrived
  <2> QED
    BY <1>0, <2>1, <2>5, <2>6, <2>7 DEF PortInv, HasStarted
<1>2. ASSUME NEW p \in Language, ReadReply(p) PROVE PortInv'
  <2>1. PICK r \in replies :
          /\ r.to = call[p].from /\ replies' = replies \ {r}
          /\ LET passed == r.action = "succ" /\ (r.pkt # NULL => Accepts(p, r.pkt))
                 pkt == call[p].pkt
             IN  /\ claimed' = IF passed /\ pkt.action = "register"
                                 THEN claimed \cup {[name |-> pkt.service.name,
                                                     start |-> r.start]}
                                 ELSE claimed
                 /\ found' = IF passed /\ pkt.action = "inquiry" /\ r.pkt # NULL
                               THEN found \cup {r.pkt.service}
                               ELSE found
    BY <1>2 DEF ReadReply
  <2>2. /\ call[p] # NULL /\ call' = [call EXCEPT ![p] = NULL]
        /\ UNCHANGED <<daemonVars, socket, sent, short, wanted>>
    BY <1>2 DEF ReadReply
  <2>3. call[p] \in ACall /\ r \in AReply
    BY <1>0, <2>2
  <2>4. /\ call[p].pkt.service.name \in Seq(Byte) /\ r.start \in 1..MaxStarts
        /\ r.pkt # NULL => r.pkt.service \in AService /\ Stands(r.pkt.service)
    BY <1>0, <2>3 DEF ACall, ARequest, APacket, AService, AReply, Arrived
  <2>5. call' \in [Language -> ACall \cup {NULL}]
    BY <1>0, <2>2
  <2>6. claimed' \subseteq [name : Seq(Byte), start : 1..MaxStarts]
    BY <1>0, <2>1, <2>4 DEF TypeOK
  <2>7. found' \subseteq AService /\ \A s \in found' : Stands(s)
    BY <1>0, <2>1, <2>4 DEF TypeOK, Arrived
  <2>8. replies' \subseteq replies
    BY <2>1
  <2>9. TypeOK'
    BY <1>0, <2>2, <2>5, <2>6, <2>7, <2>8 DEF TypeOK, ACall, ARequest
  <2>10. AllHonest'
    BY <1>0, <2>2, <2>8 DEF AllHonest
  <2>11. Arrived'
    BY <1>0, <2>2, <2>7, <2>8, StillWanted DEF Arrived
  <2> QED
    BY <1>0, <2>2, <2>9, <2>10, <2>11 DEF PortInv, HasStarted
<1>3. ASSUME NEW p \in Language, GiveUp(p) PROVE PortInv'
  <2>1. /\ call' = [call EXCEPT ![p] = NULL]
        /\ UNCHANGED <<daemonVars, socket, replies, sent, short, wanted, claimed, found>>
    BY <1>3 DEF GiveUp
  <2>2. call' \in [Language -> ACall \cup {NULL}]
    BY <1>0, <2>1
  <2>3. TypeOK'
    BY <1>0, <2>1, <2>2 DEF TypeOK, ACall, ARequest
  <2>4. AllHonest'
    BY <1>0, <2>1 DEF AllHonest
  <2>5. Arrived'
    BY <1>0, <2>1, StillWanted DEF Arrived
  <2> QED
    BY <1>0, <2>1, <2>3, <2>4, <2>5 DEF PortInv, HasStarted
<1>4. CASE SendShort
  <2>1. PICK len \in 0..UDP_COMM_BUF_LEN, pkt \in ARequest \cup {NULL} :
          /\ Send(len, pkt)
          /\ pkt # NULL => Honest(pkt) /\ PacketStands(pkt)
    <3>1. PICK len \in 0..(UDP_COMM_BUF_LEN - 1), n \in Name :
            \E pkt \in Packets("Go", "inquiry", n, <<>>) \cup {NULL} : Send(len, pkt)
      BY <1>4 DEF SendShort
    <3>2. PICK pkt \in Packets("Go", "inquiry", n, <<>>) \cup {NULL} : Send(len, pkt)
      BY <3>1
    <3>3. pkt # NULL => pkt \in ARequest /\ Honest(pkt) /\ pkt.action = "inquiry"
      BY <3>2, InquiriesAreRequests DEF Language
    <3>4. len \in 0..UDP_COMM_BUF_LEN
      BY BufLen
    <3> QED
      BY <3>2, <3>3, <3>4 DEF PacketStands
  <2>2. UNCHANGED <<daemonVars, replies, clientVars>> /\ short' = TRUE /\ short' \in BOOLEAN
    BY <1>4 DEF SendShort
  <2>3. /\ sent' \in 1..MaxSent /\ socket' \in Seq(Datagram)
        /\ \A k \in 1..Len(socket') :
             \/ k \in 1..Len(socket) /\ socket'[k] = socket[k]
             \/ socket'[k].pkt = pkt
    BY <1>0, <2>1, SendType, BufLen
  <2>4. TypeOK'
    <3>1. sent' \in 0..MaxSent
      BY <2>3, BufLen
    <3> QED
      BY <1>0, <2>2, <2>3, <3>1 DEF TypeOK
  <2>5. AllHonest'
    BY <1>0, <2>1, <2>2, <2>3 DEF AllHonest
  <2>6. \A k \in 1..Len(socket') : PacketStands(socket'[k].pkt)
    BY <1>0, <2>1, <2>3 DEF Arrived, PacketStands
  <2>7. Arrived'
    BY <1>0, <2>2, <2>6, StillWanted DEF Arrived
  <2> QED
    BY <1>0, <2>2, <2>4, <2>5, <2>7 DEF PortInv, HasStarted
<1>5. CASE Start
  <2>1. /\ UNCHANGED <<received, r_len, addrfrom, list, socket, replies, sent, short,
                       clientVars>>
        /\ starts' = starts + 1 /\ starts < MaxStarts /\ running' = TRUE /\ running' \in BOOLEAN
    BY <1>5 DEF Start
  <2>2. starts' \in 0..MaxStarts /\ starts' # 0
    BY <1>0, <2>1, TextsAreBytes DEF TypeOK
  <2>3. TypeOK'
    BY <1>0, <2>1, <2>2 DEF TypeOK
  <2>4. Arrived'
    BY <1>0, <2>1, StillWanted DEF Arrived
  <2> QED
    BY <1>0, <2>1, <2>2, <2>3, <2>4 DEF PortInv, HasStarted, AllHonest
<1>6. CASE ReadFail \/ RecvFromEmpty
  <2>1. End
    BY <1>6, Zenon DEF ReadFail, RecvFromEmpty
  <2>2. /\ ~running' /\ running' \in BOOLEAN /\ socket' = <<>> /\ received' = <<>>
        /\ r_len' = 0 /\ addrfrom' = 0 /\ list' = {}
        /\ UNCHANGED <<starts, replies, sent, short, clientVars>>
    BY <2>1, Zenon DEF End
  <2>3. /\ socket' \in Seq(Datagram) /\ received' \in Seq(Datagram)
        /\ Len(socket') = 0 /\ Len(received') = 0
        /\ addrfrom' \in 0..MaxSent /\ r_len' \in 0..UDP_COMM_BUF_LEN
    BY <2>2, BufLen
  <2>4. TypeOK'
    BY <1>0, <2>2, <2>3 DEF TypeOK
  <2>5. Arrived'
    BY <1>0, <2>2, <2>3, StillWanted DEF Arrived
  <2> QED
    BY <1>0, <2>2, <2>3, <2>4, <2>5 DEF PortInv, HasStarted, AllHonest
<1>7. CASE RecvFrom
  <2>1. /\ UNCHANGED <<running, starts, list, replies, sent, short, clientVars>>
        /\ socket # <<>> /\ socket' = Tail(socket)
        /\ received' = Append(received, Head(socket)) /\ addrfrom' = Head(socket).from
    BY <1>7 DEF RecvFrom
  <2>2. /\ Head(socket) \in Datagram /\ socket' \in Seq(Datagram)
        /\ received' \in Seq(Datagram)
    BY <1>0, <2>1, HeadTailProperties, AppendProperties DEF TypeOK
  <2>3. addrfrom' \in 0..MaxSent
    BY <2>1, <2>2, BufLen DEF Datagram
  <2>4. r_len' \in 0..UDP_COMM_BUF_LEN
    BY <1>0 DEF BufferInv, PortOK
  <2>5. TypeOK'
    BY <1>0, <2>1, <2>2, <2>3, <2>4 DEF TypeOK
  <2>6. /\ 1 \in 1..Len(socket)
        /\ \A k \in 1..Len(received') :
             \/ k \in 1..Len(received) /\ received'[k] = received[k]
             \/ k = Len(received') /\ received'[k] = socket[1]
        /\ \A k \in 1..Len(socket') : k + 1 \in 1..Len(socket) /\ socket'[k] = socket[k + 1]
    BY <1>0, <1>7, RecvFromProperties
  <2>7. AllHonest'
    BY <1>0, <2>1, <2>6 DEF AllHonest
  <2>8. Arrived'
    BY <1>0, <2>1, <2>6, StillWanted DEF Arrived
  <2> QED
    BY <1>0, <2>1, <2>5, <2>7, <2>8 DEF PortInv, HasStarted
<1>8. CASE Handle
  <2>1. /\ running /\ r_len = UDP_COMM_BUF_LEN /\ received' = <<>> /\ r_len' = 0
        /\ UNCHANGED <<running, starts, addrfrom, socket, sent, short, clientVars>>
    BY <1>8 DEF Handle
  <2>2. /\ list' \subseteq AService /\ replies' \subseteq AReply
        /\ \A s \in list' : Stands(s)
        /\ \A r \in replies' : r.pkt # NULL => Honest(r.pkt) /\ Stands(r.pkt.service)
    <3>1. CASE UNCHANGED <<list, replies>>
      BY <1>0, <3>1 DEF TypeOK, Arrived, AllHonest
    <3>2. CASE received[1].pkt # NULL /\ Serve(received[1].pkt)
      <4>1. received # <<>> /\ 1 \in 1..Len(received) /\ received[1] \in Datagram
        <5>1. received \in Seq(Datagram) /\ received # <<>>
          BY <1>0, <2>1, BufLen DEF TypeOK, BufferInv, BufferOK
        <5> QED
          BY <5>1, LenProperties, ElementOfSeq
      <4>2. received[1].pkt \in ARequest /\ PacketStands(received[1].pkt)
        BY <1>0, <3>2, <4>1 DEF Datagram, ARequest, Arrived
      <4> QED
        BY <2>1, <3>2, <4>2, ServeType
    <3> QED
      BY <1>8, <3>1, <3>2 DEF Handle
  <2>3. /\ received' \in Seq(Datagram) /\ Len(received') = 0
        /\ r_len' \in 0..UDP_COMM_BUF_LEN
    BY <2>1, BufLen
  <2>4. TypeOK'
    BY <1>0, <2>1, <2>2, <2>3 DEF TypeOK, AReply
  <2>5. AllHonest'
    BY <1>0, <2>1, <2>2 DEF AllHonest
  <2>6. Arrived'
    BY <1>0, <2>1, <2>2, <2>3, StillWanted DEF Arrived
  <2> QED
    BY <1>0, <2>1, <2>4, <2>5, <2>6 DEF PortInv, HasStarted
<1>9. CASE Over \/ UNCHANGED vars
  <2>1. UNCHANGED vars
    BY <1>9 DEF Over
  <2>2. TypeOK' /\ AllHonest' /\ HasStarted'
    BY <1>0, <2>1 DEF vars, TypeOK, AllHonest, HasStarted
  <2>3. Arrived'
    BY <1>0, <2>1, StillWanted DEF vars, Arrived
  <2> QED
    BY <1>0, <2>2, <2>3 DEF PortInv
<1> QED
  BY <1>1, <1>2, <1>3, <1>4, <1>5, <1>6, <1>7, <1>8, <1>9 DEF Next

(* It holds in every behaviour.                                            *)
LEMMA PortInvariance == Spec => []PortInv
BY InitPortInv, StepPortInv, PTL DEF Spec

(* The variables of the daemon's port hold what their declarations say.    *)
THEOREM PortTypeCorrect == Spec => []TypeOK
<1>1. PortInv => TypeOK
  BY DEF PortInv
<1> QED
  BY <1>1, PortInvariance, PTL

(* The checksums of C and Java writers, which sum signed bytes, and of C   *)
(* and Go readers, which do not, agree just on the texts whose bytes       *)
(* outside ASCII number a multiple of 256: for texts of any length.        *)
THEOREM ChecksumsRefuseSign == Spec => []RefusedIff
<1>1. PortInv => RefusedIff
  <2> SUFFICES ASSUME PortInv, NEW pkt \in InFlight \ {NULL}, NEW lang \in Language
               PROVE  Accepts(lang, pkt) <=>
                        \/ (pkt.by = "Go") # (lang = "Java")
                        \/ (High(pkt.service.name \o pkt.service.info) * ByteRange)
                             % SumRange = 0
    BY DEF RefusedIff
  <2> DEFINE text == pkt.service.name \o pkt.service.info
             same == (High(text) * ByteRange) % SumRange = 0
  <2>1. pkt.service \in AService /\ Honest(pkt) /\ pkt.by \in Language
    <3>1. CASE \E k \in 1..Len(socket) : pkt = socket[k].pkt
      <4>1. PICK k \in 1..Len(socket) : pkt = socket[k].pkt
        BY <3>1
      <4>2. socket[k] \in Datagram /\ Honest(pkt)
        BY <4>1, ElementOfSeq DEF PortInv, TypeOK, AllHonest
      <4> QED
        BY <4>1, <4>2 DEF Datagram, APacket
    <3>2. CASE \E r \in replies : pkt = r.pkt
      BY <3>2 DEF PortInv, TypeOK, AllHonest, APacket
    <3> QED
      BY <3>1, <3>2 DEF InFlight
  <2>2. text \in Seq(Byte)
    BY <2>1, ConcatProperties DEF AService
  <2>3. SumOf(text) = SumOf(Signed(text)) <=> same
    BY <2>2, ChecksumsDiffer DEF Byte
  <2>4. pkt.checksum = SumOf(IF pkt.by = "Go" THEN text ELSE Signed(text))
    BY <2>1 DEF Honest, GetChecksum
  <2>5. Accepts(lang, pkt) <=> pkt.checksum = SumOf(IF lang = "Java" THEN Signed(text) ELSE text)
    BY DEF Accepts, ChecksumRight
  <2> HIDE DEF text, same
  <2>6. CASE pkt.by = "Go" /\ lang = "Java"
    <3>1. Accepts(lang, pkt) <=> same
      BY <2>3, <2>4, <2>5, <2>6
    <3> QED
      BY <2>6, <3>1, Zenon DEF text, same
  <2>7. CASE pkt.by # "Go" /\ lang # "Java"
    <3>1. Accepts(lang, pkt) <=> same
      BY <2>3, <2>4, <2>5, <2>7
    <3> QED
      BY <2>7, <3>1, Zenon DEF text, same
  <2>8. CASE pkt.by = "Go" /\ lang # "Java"
    <3>1. Accepts(lang, pkt)
      BY <2>4, <2>5, <2>8
    <3> QED
      BY <2>8, <3>1, Zenon
  <2>9. CASE pkt.by # "Go" /\ lang = "Java"
    <3>1. Accepts(lang, pkt)
      BY <2>4, <2>5, <2>9
    <3> QED
      BY <2>9, <3>1, Zenon
  <2> QED
    BY <2>6, <2>7, <2>8, <2>9
<1> QED
  BY <1>1, PortInvariance, PTL

(* Whatever lengths texts and datagrams have, and whatever lies behind the *)
(* buffers of protocal.c, a service that is found is one that was to be    *)
(* registered, as far as its texts fit in 100 bytes.                       *)
THEOREM FoundWasWanted == Spec => []ServicesArrive
<1>1. PortInv => ServicesArrive
  BY DEF PortInv, Arrived, Stands, ServicesArrive
<1> QED
  BY <1>1, PortInvariance, PTL
=============================================================================
