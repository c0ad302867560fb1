---------------------------- MODULE CClientProofs ----------------------------
(***************************************************************************)
(* When the threads that server.c and client.c start can touch memory that *)
(* has been freed: for every number of calls, addresses and daemons.  Then *)
(* the types, when calls fail for want of a socket, and that in a quick    *)
(* scan results and inquiries tell what the daemons asked hold.            *)
(***************************************************************************)
EXTENDS CClient, ServiceListProofs

(* The types the proof looks at.                                           *)
ControlOK ==
  /\ main \in {"idle", "failing", "reading", "freeing", "closing"}
  /\ call \in 0..MaxCalls
  /\ thread \in [Calls -> {"off", "reset", "check", "write", "done"}]
  /\ read_end \in [Calls -> BOOLEAN]
  /\ DOMAIN data = Calls
  /\ client_freed \subseteq 1..call

(* A call to come has no thread and has read nothing.                      *)
NothingAhead == \A n \in Calls : n > call => thread[n] = "off" /\ ~read_end[n]

(* What a call that reads has given to its thread is there.                *)
ReadingIsSafe ==
  /\ main # "idle" => call > 0
  /\ main = "reading" => data[call] # NULL /\ call \notin client_freed

(* A call that reads no more has outlasted its thread, if the timing is as *)
(* FaultNeedsSlowScan says.                                                *)
ThreadOutlasted ==
  \A n \in 1..call :
    /\ n # call \/ main # "reading"
    /\ timing = "quick" \/ (timing = "steady" /\ read_end[n])
    => thread[n] \in {"off", "done"}

(* FaultNeedsSlowScan says nothing before the fault: what keeps it from    *)
(* happening is that a thread has ended when its call frees.               *)
IndInv ==
  /\ ControlOK
  /\ NothingAhead
  /\ ReadingIsSafe
  /\ ThreadOutlasted
  /\ FaultNeedsSlowScan

(* No call has begun.                                                      *)
LEMMA InitIndInv == Init => IndInv
BY CClientAssumption DEF Init, IndInv, ControlOK, NothingAhead, ReadingIsSafe,
   ThreadOutlasted, FaultNeedsSlowScan, Calls

(* A thread that touches freed memory runs when its call reads no more.    *)
LEMMA FaultIsLate ==
  ASSUME IndInv, NEW n \in Calls, thread[n] \notin {"off", "done"},
         n \in client_freed \/ data[n] = NULL, Fault(n)
  PROVE  IndInv'
<1>1. n \in 1..call /\ (n # call \/ main # "reading")
  BY CClientAssumption DEF IndInv, ControlOK, NothingAhead, ReadingIsSafe, Calls
<1>2. timing # "quick" /\ (timing = "steady" => ~read_end[n])
  BY <1>1 DEF IndInv, ThreadOutlasted
<1>3. UNCHANGED <<timing, main, call, read_end, data, client_freed, thread>>
  BY DEF Fault, environment, mainVars, clientVars
<1>4. ControlOK' /\ NothingAhead' /\ ReadingIsSafe' /\ ThreadOutlasted'
  BY <1>3 DEF IndInv, ControlOK, NothingAhead, ReadingIsSafe, ThreadOutlasted
<1> QED
  BY <1>2, <1>3, <1>4 DEF Fault, IndInv, FaultNeedsSlowScan

(* A step of a thread that touches no freed memory.                        *)
LEMMA ThreadKeeps ==
  ASSUME IndInv, NEW n \in Calls, thread[n] \notin {"off", "done"},
         NEW there \in {"check", "write", "done"},
         thread' = [thread EXCEPT ![n] = there],
         UNCHANGED <<timing, main, call, clientVars, fault>>
  PROVE  IndInv'
<1>1. ControlOK'
  BY DEF IndInv, ControlOK, clientVars
<1>2. NothingAhead' /\ ReadingIsSafe' /\ FaultNeedsSlowScan'
  BY DEF IndInv, ControlOK, NothingAhead, ReadingIsSafe, FaultNeedsSlowScan, clientVars
<1>3. ThreadOutlasted'
  BY CClientAssumption DEF IndInv, ControlOK, ThreadOutlasted, clientVars, Calls
<1> QED
  BY <1>1, <1>2, <1>3 DEF IndInv

(* No step breaks it.                                                      *)
LEMMA StepIndInv == IndInv /\ [Next]_vars => IndInv'
<1> SUFFICES ASSUME IndInv, [Next]_vars PROVE IndInv'
  OBVIOUS
<1>0. /\ ControlOK /\ NothingAhead /\ ReadingIsSafe /\ ThreadOutlasted
      /\ FaultNeedsSlowScan /\ MaxCalls \in Nat
  BY CClientAssumption DEF IndInv
<1>1. ASSUME NEW pkt \in Request, StartCall(pkt) PROVE IndInv'
  <2>1. /\ call' = call + 1 /\ call' \in Calls /\ main = "idle"
        /\ UNCHANGED <<timing, read_end, client_freed, fault>> /\ fault = 0
        /\ pkt # NULL
    BY <1>0, <1>1, NullAssumption DEF StartCall, environment, ControlOK, Calls
  <2>2. \/ /\ data' = [data EXCEPT ![call'] = pkt]
           /\ thread' = [thread EXCEPT ![call'] = "reset"]
           /\ main' = "reading"
        \/ main' = "failing" /\ UNCHANGED <<data, thread>>
    BY <1>1 DEF StartCall
  <2>3. ControlOK' /\ NothingAhead' /\ ReadingIsSafe' /\ FaultNeedsSlowScan'
    BY <1>0, <2>1, <2>2 DEF ControlOK, NothingAhead, ReadingIsSafe,
       FaultNeedsSlowScan, Calls
  <2>4. ThreadOutlasted'
    BY <1>0, <2>1, <2>2 DEF ControlOK, ThreadOutlasted, NothingAhead, Calls
  <2> QED
    BY <2>3, <2>4 DEF IndInv
<1>2. CASE ReadReply
  <2>1. /\ UNCHANGED <<timing, main, call, data, client_freed, thread, fault>>
        /\ main = "reading" /\ read_end' = [read_end EXCEPT ![call] = TRUE]
        /\ fault = 0
    BY <1>2 DEF ReadReply, environment, threadVars
  <2> QED
    BY <1>0, <2>1 DEF IndInv, ControlOK, NothingAhead, ReadingIsSafe,
       ThreadOutlasted, FaultNeedsSlowScan, Calls
<1>3. CASE ReadTimeout
  <2>1. /\ UNCHANGED <<timing, call, read_end, data, client_freed, thread, fault>>
        /\ main = "reading" /\ main' = "freeing"
        /\ timing = "quick" \/ (timing = "steady" /\ read_end[call])
             => thread[call] = "done"
    BY <1>3 DEF ReadTimeout, TimeIsUp, environment, clientVars, threadVars
  <2> QED
    BY <1>0, <2>1 DEF IndInv, ControlOK, NothingAhead, ReadingIsSafe,
       ThreadOutlasted, FaultNeedsSlowScan
<1>4. CASE NoClient
  <2>1. /\ UNCHANGED <<timing, call, read_end, data, client_freed, thread, fault>>
        /\ main = "failing" /\ main' = "idle"
    BY <1>4 DEF NoClient, EndCall, environment, clientVars
  <2> QED
    BY <1>0, <2>1 DEF IndInv, ControlOK, NothingAhead, ReadingIsSafe,
       ThreadOutlasted, FaultNeedsSlowScan
<1>5. CASE FreePkt
  <2>1. /\ UNCHANGED <<timing, call, read_end, client_freed, thread, fault>>
        /\ data' = [data EXCEPT ![call] = NULL]
        /\ main = "freeing" /\ main' \in {"closing", "idle"}
    BY <1>5 DEF FreePkt, EndCall, environment
  <2> QED
    BY <1>0, <2>1 DEF IndInv, ControlOK, NothingAhead, ReadingIsSafe,
       ThreadOutlasted, FaultNeedsSlowScan
<1>6. CASE Deinit
  <2>1. /\ UNCHANGED <<timing, call, read_end, data, thread, fault>>
        /\ client_freed' = client_freed \cup {call}
        /\ main = "closing" /\ main' = "idle"
    BY <1>6 DEF Deinit, EndCall, environment
  <2> QED
    BY <1>0, <2>1 DEF IndInv, ControlOK, NothingAhead, ReadingIsSafe,
       ThreadOutlasted, FaultNeedsSlowScan
<1>7. ASSUME NEW n \in Calls, Thread(n) PROVE IndInv'
  <2>1. CASE Fault(n)
    <3>1. thread[n] \notin {"off", "done"}
      BY <1>7 DEF Thread, ThreadReset, ThreadCheck, ThreadWrite
    <3>2. n \in client_freed \/ data[n] = NULL
      <4>1. fault' # fault
        BY <1>7, <2>1 DEF Thread, ThreadReset, ThreadCheck, ThreadWrite, Fault, Calls
      <4> QED
        BY <1>7, <4>1 DEF Thread, ThreadReset, ThreadCheck, ThreadWrite
    <3> QED
      BY <2>1, <3>1, <3>2, FaultIsLate
  <2>2. CASE ~Fault(n)
    <3>1. /\ thread[n] \notin {"off", "done"}
          /\ UNCHANGED <<timing, main, call, clientVars, fault>>
      BY <1>7, <2>2 DEF Thread, ThreadReset, ThreadCheck, ThreadWrite, environment,
         mainVars
    <3>2. \E there \in {"check", "write", "done"} :
            thread' = [thread EXCEPT ![n] = there]
      BY <1>7, <2>2 DEF Thread, ThreadReset, ThreadCheck, ThreadWrite
    <3> QED
      BY <3>1, <3>2, ThreadKeeps
  <2> QED
    BY <2>1, <2>2
<1>8. CASE DaemonHandle \/ Lose \/ Over \/ UNCHANGED vars
  <2>1. UNCHANGED <<timing, main, call, read_end, data, client_freed, thread, fault>>
    BY <1>8 DEF DaemonHandle, Lose, Over, vars, environment, mainVars, clientVars,
       threadVars
  <2> QED
    BY <1>0, <2>1 DEF IndInv, ControlOK, NothingAhead, ReadingIsSafe,
       ThreadOutlasted, FaultNeedsSlowScan
<1>9. /\ \A e \in Entry : RegisterPkt(e) \in Request
      /\ \A d \in Device, s \in Service : UnregisterPkt(d, s) \in Request
      /\ \A s \in Service : InquiryPkt(s) \in Request
  BY DEF Request
<1> QED
  BY <1>1, <1>2, <1>3, <1>4, <1>5, <1>6, <1>7, <1>8, <1>9
     DEF Next, RegisterService, UnregisterService, InquiryService

-----------------------------------------------------------------------------
(* It holds in every behaviour.                                            *)
LEMMA Invariance == Spec => []IndInv
BY InitIndInv, StepIndInv, PTL DEF Spec

(* A thread touches memory that server.c or client.c has freed only if the *)
(* scan outlasts a read timeout; if its single steps do not, only after a  *)
(* call that has read no reply.                                            *)
THEOREM FreedMemoryNeedsSlowScan == Spec => []FaultNeedsSlowScan
BY Invariance, PTL DEF IndInv
-----------------------------------------------------------------------------
(* The first interface of a sort.                                          *)
LEMMA FirstNetProperties ==
  ASSUME NEW ifs \in Seq(Interface), NEW sort
  PROVE  \/ FirstNet(ifs, sort) = "none"
         \/ \E k \in DOMAIN ifs :
              /\ FirstNet(ifs, sort) = ifs[k].net
              /\ ifs[k] \in sort /\ \A j \in 1..(k - 1) : ifs[j] \notin sort
<1> DEFINE first == { k \in DOMAIN ifs : /\ ifs[k] \in sort
                                         /\ \A j \in 1..(k - 1) : ifs[j] \notin sort }
<1>1. FirstNet(ifs, sort) =
        IF first = {} THEN "none" ELSE ifs[CHOOSE k \in first : TRUE].net
  BY DEF FirstNet
<1>2. CASE first = {}
  BY <1>1, <1>2
<1>3. CASE first # {}
  <2>1. PICK k \in first : k = CHOOSE j \in first : TRUE
    BY <1>3
  <2> QED
    BY <1>1, <1>3, <2>1
<1> QED
  BY <1>2, <1>3

(* get_local_ipv4_addr finds the network of the daemons if and only if it  *)
(* is that of the first interface that leads outward.                      *)
LEMMA LocalNetProperties ==
  ASSUME NEW ifs \in Seq(Interface)
  PROVE  /\ LocalNet(ifs) \in Net
         /\ LocalNet(ifs) = "lan" <=> LanFirst(ifs)
<1> DEFINE away == { ifa \in Interface : ifa.ifa_name # "lo" }
           home == { ifa \in Interface : ifa.ifa_name = "lo" }
           outward == FirstNet(ifs, away)
           inward == FirstNet(ifs, home)
<1>0. /\ away = {Lan, Bridge, WideLan} /\ home = {Lo} /\ Interface = away \cup home
      /\ Lo \notin away
      /\ Lo.net = "loopback" /\ Lan.net = "lan" /\ Bridge.net = "bridge"
      /\ WideLan.net = "lan"
  BY DEF Interface, Lo, Lan, Bridge, WideLan
<1>1. LocalNet(ifs) = IF outward # "none" THEN outward ELSE inward
  BY DEF LocalNet
<1>2. \A k \in DOMAIN ifs : ifs[k] \in Interface /\ k \in Nat /\ 1..k \subseteq DOMAIN ifs
  BY LenProperties, ElementOfSeq
<1>3. \/ outward = "none"
      \/ \E k \in DOMAIN ifs : /\ outward = ifs[k].net
                               /\ ifs[k] \in away /\ \A j \in 1..(k - 1) : ifs[j] \notin away
  BY FirstNetProperties
<1>4. inward \in {"none", "loopback"}
  <2>1. inward = "none" \/ \E k \in DOMAIN ifs : inward = ifs[k].net /\ ifs[k] \in home
    BY FirstNetProperties
  <2> HIDE DEF inward, home
  <2> QED
    BY <1>0, <2>1
<1>5. LocalNet(ifs) = "lan" => LanFirst(ifs)
  <2> SUFFICES ASSUME LocalNet(ifs) = "lan" PROVE LanFirst(ifs)
    OBVIOUS
  <2> HIDE DEF outward, inward, away, home
  <2>1. outward = "lan"
    BY <1>1, <1>4
  <2>2. PICK k \in DOMAIN ifs : /\ outward = ifs[k].net
                                /\ \A j \in 1..(k - 1) : ifs[j] \notin away
    BY <1>3, <2>1
  <2>3. \A j \in 1..(k - 1) : ifs[j] = Lo
    <3> TAKE j \in 1..(k - 1)
    <3>1. j \in 1..k /\ j \in DOMAIN ifs
      BY <1>2
    <3> QED
      BY <1>0, <1>2, <2>2, <3>1
  <2> QED
    BY <2>1, <2>2, <2>3 DEF LanFirst
<1>6. LanFirst(ifs) => LocalNet(ifs) = "lan"
  <2> SUFFICES ASSUME LanFirst(ifs) PROVE LocalNet(ifs) = "lan"
    OBVIOUS
  <2>1. PICK k \in DOMAIN ifs : ifs[k].net = "lan" /\ \A j \in 1..(k - 1) : ifs[j] = Lo
    BY DEF LanFirst
  <2>2. ifs[k] \in away
    <3> HIDE DEF away, home
    <3> QED
      BY <1>0, <1>2, <2>1
  <2> DEFINE first == { n \in DOMAIN ifs : /\ ifs[n] \in away
                                           /\ \A j \in 1..(n - 1) : ifs[j] \notin away }
  <2>3. outward = IF first = {} THEN "none" ELSE ifs[CHOOSE n \in first : TRUE].net
    BY DEF FirstNet
  <2> HIDE DEF away, home, outward
  <2>4. k \in first
    BY <1>0, <2>1, <2>2
  <2>5. \A n \in first : n = k
    <3> TAKE n \in first
    <3>1. n \in Nat /\ k \in Nat /\ ifs[n] \in away
      BY <1>2
    <3>2. ~(n < k)
      BY <1>0, <1>2, <2>1, <3>1
    <3>3. ~(k < n)
      BY <1>2, <2>2, <3>1
    <3> QED
      BY <3>1, <3>2, <3>3
  <2> HIDE DEF first
  <2>6. (CHOOSE n \in first : TRUE) = k
    BY <2>4, <2>5
  <2>7. outward = "lan"
    BY <2>1, <2>3, <2>4, <2>6
  <2> QED
    BY <1>1, <2>7
<1>7. LocalNet(ifs) \in Net
  <2>1. outward \in {"none", "lan", "bridge"}
    <3> HIDE DEF outward, away, home
    <3> QED
      BY <1>0, <1>3
  <2> HIDE DEF outward, inward, away, home
  <2> QED
    BY <1>1, <1>4, <2>1 DEF Net
<1> QED
  BY <1>5, <1>6, <1>7
-----------------------------------------------------------------------------
(* What TypeOK does not say of the call under way and of the datagrams: a  *)
(* reply to an inquiry that finds something holds a service, and no list   *)
(* has two services under one key.                                         *)
Answers ==
  /\ main # "idle" => cmd \in Request /\ call > 0
  /\ main = "closing" => data[call] = NULL
  /\ main = "reading" => data[call] = cmd
  /\ \A m \in net : m.call \in 1..call
  /\ \A n \in Calls : thread[n] \in {"check", "write"} => sub_ip[n] > 0
  /\ main = "reading" => \A m \in net : m.call = call =>
       /\ m.to # 0 => m.pkt = cmd
       /\ m.to = 0 /\ cmd.action = "inquiry" /\ m.pkt.action = "succ"
            => m.pkt.info \in Entry
  /\ UniqueKeys(found)
  /\ \A h \in Host : UniqueKeys(reg[h])

(* TypeOK is not inductive: what ReadReply puts into found is a service    *)
(* because of Answers.                                                     *)
TypeInv == TypeOK /\ Answers

(* The services at the head of a list are in it.                           *)
LEMMA PrefixProperties ==
  ASSUME NEW l \in Seq(Entry), NEW s
  PROVE  /\ Prefix(l, s) \subseteq ToSet(l)
         /\ Prefix(l, s) \subseteq Entry
         /\ \A e \in Prefix(l, s) : e.service_name = s
<1>1. Len(l) \in Nat /\ DOMAIN l = 1..Len(l)
  BY LenProperties
<1> SUFFICES ASSUME NEW e \in Prefix(l, s)
             PROVE  e \in ToSet(l) /\ e \in Entry /\ e.service_name = s
  OBVIOUS
<1>2. PICK k \in 1..Len(l) : e = l[k] /\ \A j \in 1..k : l[j].service_name = s
  BY DEF Prefix
<1>3. e \in Entry
  BY <1>2, ElementOfSeq
<1>4. k \in 1..k
  BY <1>1
<1> QED
  BY <1>1, <1>2, <1>3, <1>4 DEF ToSet

(* What a daemon replies is a reply; if it finds something, it is at the   *)
(* head of the list.                                                       *)
LEMMA RepliesProperties ==
  ASSUME NEW l \in Seq(Entry), NEW r \in Request
  PROVE  /\ Replies(l, r) \subseteq Reply
         /\ r.action = "inquiry" => \A p \in Replies(l, r) :
              p.action = "succ" => p.info \in Prefix(l, r.service_name)
         /\ r.action = "inquiry" => \A e \in Prefix(l, r.service_name) :
              InquiryResultPkt(e) \in Replies(l, r)
         /\ r.action = "register" => Replies(l, r) = {ResultPkt(TRUE)}
         /\ r.action = "unregister" =>
              Replies(l, r) = {ResultPkt(Registered(l, r.device_name, r.service_name))}
<1>1. CASE r.action = "register"
  <2>1. Replies(l, r) = {ResultPkt(TRUE)}
    BY <1>1 DEF Replies
  <2> QED
    BY <1>1, <2>1, RepliesAreReplies
<1>2. CASE r.action = "unregister"
  <2> DEFINE there == Registered(l, r.device_name, r.service_name)
  <2>1. Replies(l, r) = {ResultPkt(there)}
    BY <1>2 DEF Replies
  <2>2. ResultPkt(there) \in Reply
    BY RepliesAreReplies, Zenon
  <2> QED
    BY <1>2, <2>1, <2>2
<1>3. CASE r.action = "inquiry"
  <2> DEFINE P == Prefix(l, r.service_name)
  <2>1. Replies(l, r) = IF P = {} THEN {ResultPkt(FALSE)}
                                  ELSE { InquiryResultPkt(e) : e \in P }
    BY <1>3 DEF Replies
  <2>2. P \subseteq Entry
    BY PrefixProperties
  <2>3. /\ ResultPkt(FALSE) \in Reply /\ ResultPkt(FALSE).action = "fail"
        /\ \A e \in Entry : /\ InquiryResultPkt(e) \in Reply
                            /\ InquiryResultPkt(e).info = e
    BY RepliesAreReplies DEF ResultPkt, InquiryResultPkt
  <2> HIDE DEF P
  <2>4. Replies(l, r) \subseteq Reply
    <3>1. CASE P = {}
      BY <2>1, <2>3, <3>1
    <3>2. CASE P # {}
      <4>1. \A e \in P : InquiryResultPkt(e) \in Reply
        BY <2>2, <2>3
      <4> QED
        BY <2>1, <3>2, <4>1
    <3> QED
      BY <3>1, <3>2
  <2>5. \A p \in Replies(l, r) : p.action = "succ" => p.info \in P
    <3> TAKE p \in Replies(l, r)
    <3>1. p = ResultPkt(FALSE) \/ \E e \in P : p = InquiryResultPkt(e)
      BY <2>1
    <3>2. CASE p = ResultPkt(FALSE)
      BY <2>3, <3>2
    <3>3. ASSUME NEW e \in P, p = InquiryResultPkt(e) PROVE p.info \in P
      BY <2>2, <2>3, <3>3
    <3> QED
      BY <3>1, <3>2, <3>3
  <2>6. \A e \in P : InquiryResultPkt(e) \in Replies(l, r)
    BY <2>1
  <2> QED
    BY <1>3, <2>4, <2>5, <2>6 DEF P
<1> QED
  BY <1>1, <1>2, <1>3, RequestFields

(* What a request does to the list of a daemon.                            *)
LEMMA HandledProperties ==
  ASSUME NEW l \in Seq(Entry), UniqueKeys(l), NEW r \in Request
  PROVE  /\ Handled(l, r) \in Seq(Entry)
         /\ UniqueKeys(Handled(l, r))
         /\ r.action = "register" => r.info \in ToSet(Handled(l, r))
         /\ r.action = "unregister" =>
              ~Registered(Handled(l, r), r.device_name, r.service_name)
         /\ r.action = "inquiry" => Handled(l, r) = l
<1>1. CASE r.action = "register"
  <2>1. Handled(l, r) = ListAdd(l, r.info) /\ r.info \in Entry
    BY <1>1, RequestFields DEF Handled
  <2> QED
    BY <1>1, <2>1, ListAddProperties
<1>2. CASE r.action = "unregister"
  <2>1. Handled(l, r) = ListRemove(l, r.device_name, r.service_name)
    BY <1>2 DEF Handled
  <2> QED
    BY <1>2, <2>1, ListRemoveProperties
<1>3. CASE r.action = "inquiry"
  BY <1>3 DEF Handled
<1> QED
  BY <1>1, <1>2, <1>3, RequestFields

(* No call has begun.                                                      *)
LEMMA InitTypeInv == Init => TypeInv
<1> SUFFICES ASSUME Init PROVE TypeInv
  OBVIOUS
<1>0. /\ LastSub \in Nat \ {0} /\ Host \subseteq 1..LastSub /\ MaxCalls \in Nat
      /\ 0 \in 0..LastSub /\ 0 \in 0..MaxCalls
  BY CClientAssumption
<1>1. \A h \in Host : reg[h] \in Seq(Entry) /\ UniqueKeys(reg[h])
  <2> TAKE h \in Host
  <2>1. reg[h] = <<>> \/ \E e \in Entry : reg[h] = <<e>>
    BY DEF Init
  <2>2. \A e \in Entry : <<e>> \in Seq(Entry) /\ UniqueKeys(<<e>>)
    BY DEF UniqueKeys
  <2>3. <<>> \in Seq(Entry) /\ UniqueKeys(<<>>)
    BY DEF UniqueKeys
  <2> QED
    BY <2>1, <2>2, <2>3
<1>2. reg \in [Host -> Seq(Entry)]
  <2>1. reg \in [Host -> {<<>>} \cup { <<e>> : e \in Entry }]
    BY DEF Init
  <2> QED
    BY <1>1, <2>1
<1>3. found \in Seq(Entry) /\ UniqueKeys(found)
  BY DEF Init, UniqueKeys
<1>4. ifaddrs \in Seq(Interface)
  <2>1. Lo \in Interface /\ Lan \in Interface /\ Bridge \in Interface
    BY DEF Interface
  <2>2. /\ <<Lo, Lan>> \in Seq(Interface) /\ <<Lo, Bridge, Lan>> \in Seq(Interface)
        /\ <<Lo>> \in Seq(Interface) /\ <<>> \in Seq(Interface)
    BY <2>1
  <2>3. ifaddrs \in {<<Lo, Lan>>, <<Lo, Bridge, Lan>>, <<Lo>>, <<>>}
    BY DEF Init
  <2> QED
    BY <2>2, <2>3
<1>5. sockets \in Nat /\ lossy \in BOOLEAN
  <2>1. sockets \in {1, MaxCalls}
    BY DEF Init
  <2>2. lossy \in IF timing = "quick" THEN BOOLEAN ELSE {timing = "steady"}
    BY DEF Init
  <2>3. lossy \in BOOLEAN
    BY <2>2, Zenon
  <2> QED
    BY <1>0, <2>1, <2>3
<1>6. TypeOK
  BY <1>0, <1>2, <1>3, <1>4, <1>5 DEF Init, TypeOK, Calls
<1>7. Answers
  BY <1>0, <1>1, <1>3 DEF Init, Answers, Calls
<1> QED
  BY <1>6, <1>7 DEF TypeInv

(* A step of a thread that stays in the bounds of the scan and sends the   *)
(* packet of its call.                                                     *)
LEMMA ThreadTypes ==
  ASSUME IndInv, TypeInv, NEW n \in Calls, Thread(n), ~Fault(n)
  PROVE  TypeInv'
<1>1. TypeOK /\ Answers /\ ControlOK /\ NothingAhead
  BY DEF TypeInv, IndInv
<1>2. LastSub \in Nat \ {0} /\ Host \subseteq 1..LastSub /\ MaxCalls \in Nat
  BY CClientAssumption
<1>3. UNCHANGED <<environment, mainVars, clientVars, reg, fault>>
  BY DEF Thread, ThreadReset, ThreadCheck, ThreadWrite
<1>4. CASE ThreadReset(n)
  <2>1. /\ sub_ip' = [sub_ip EXCEPT ![n] = 1] /\ thread' = [thread EXCEPT ![n] = "check"]
        /\ UNCHANGED <<net, finish, asked>>
    BY <1>4 DEF ThreadReset
  <2>2. TypeOK'
    BY <1>1, <1>2, <1>3, <2>1 DEF TypeOK, environment, mainVars, callVars, clientVars
  <2>3. Answers'
    BY <1>1, <1>3, <2>1 DEF TypeOK, Answers, environment, mainVars, callVars, clientVars
  <2> QED
    BY <2>2, <2>3 DEF TypeInv
<1>5. CASE ThreadCheck(n)
  <2>1. /\ thread' = [thread EXCEPT ![n] =
                        IF finish[n] \/ read_end[n] THEN "done" ELSE "write"]
        /\ thread[n] = "check"
        /\ UNCHANGED <<net, sub_ip, finish, asked>>
    BY <1>5 DEF ThreadCheck
  <2>2. TypeOK'
    BY <1>1, <1>3, <2>1 DEF TypeOK, environment, mainVars, callVars, clientVars
  <2>3. Answers'
    BY <1>1, <1>3, <2>1 DEF TypeOK, Answers, environment, mainVars, callVars, clientVars
  <2> QED
    BY <2>2, <2>3 DEF TypeInv
<1>6. CASE ThreadWrite(n)
  <2>1. /\ thread[n] = "write" /\ thread' = [thread EXCEPT ![n] = "check"]
        /\ data[n] # NULL
        /\ asked' \subseteq asked \cup {<<LocalNet(ifaddrs), sub_ip[n]>>}
        /\ \/ net' = net
           \/ /\ sub_ip[n] \in Host
              /\ net' = net \cup {[to |-> sub_ip[n], call |-> n, pkt |-> data[n]]}
        /\ \/ /\ sub_ip[n] < LastSub /\ sub_ip' = [sub_ip EXCEPT ![n] = @ + 1]
              /\ UNCHANGED finish
           \/ finish' = [finish EXCEPT ![n] = TRUE] /\ UNCHANGED sub_ip
    BY <1>6 DEF ThreadWrite
  <2>2. n \in 1..call /\ sub_ip[n] \in 1..LastSub /\ data[n] \in Request
    <3>1. ~(n > call) /\ n \in 1..MaxCalls /\ call \in 0..MaxCalls
      BY <1>1, <2>1 DEF NothingAhead, TypeOK, Calls
    <3>2. sub_ip[n] \in 0..LastSub /\ sub_ip[n] > 0
      BY <1>1, <2>1 DEF TypeOK, Answers
    <3>3. data[n] \in Request \cup {NULL}
      BY <1>1 DEF TypeOK
    <3> QED
      BY <1>2, <2>1, <3>1, <3>2, <3>3
  <2>3. LocalNet(ifaddrs) \in Net
    BY <1>1, LocalNetProperties DEF TypeOK
  <2>4. asked' \subseteq Net \X (1..LastSub)
    BY <1>1, <2>1, <2>2, <2>3 DEF TypeOK
  <2>5. net' \subseteq ToDaemon \cup ToClient
    BY <1>1, <2>1, <2>2 DEF TypeOK, ToDaemon
  <2>6. /\ sub_ip' \in [Calls -> 0..LastSub] /\ finish' \in [Calls -> BOOLEAN]
        /\ \A k \in Calls : sub_ip'[k] >= sub_ip[k]
    <3>1. sub_ip \in [Calls -> 0..LastSub] /\ finish \in [Calls -> BOOLEAN]
      BY <1>1 DEF TypeOK
    <3>2. finish' \in [Calls -> BOOLEAN]
      BY <2>1, <3>1
    <3>3. CASE sub_ip' = sub_ip
      BY <3>1, <3>2, <3>3, <1>2
    <3>4. CASE sub_ip[n] < LastSub /\ sub_ip' = [sub_ip EXCEPT ![n] = sub_ip[n] + 1]
      <4>1. sub_ip[n] + 1 \in 0..LastSub
        BY <1>2, <2>2, <3>4
      <4> QED
        BY <1>2, <3>1, <3>2, <3>4, <4>1
    <3> QED
      BY <2>1, <3>3, <3>4
  <2>7. TypeOK'
    BY <1>1, <1>3, <2>1, <2>4, <2>5, <2>6
       DEF TypeOK, environment, mainVars, callVars, clientVars
  <2>8. \A m \in net' : m.call \in 1..call
    BY <1>1, <2>1, <2>2 DEF Answers
  <2>9. main = "reading" => \A m \in net' : m.call = call =>
          /\ m.to # 0 => m.pkt = cmd
          /\ m.to = 0 /\ cmd.action = "inquiry" /\ m.pkt.action = "succ"
               => m.pkt.info \in Entry
    BY <1>1, <1>2, <2>1 DEF Answers
  <2>10. \A k \in Calls : thread'[k] \in {"check", "write"} => sub_ip'[k] > 0
    BY <1>1, <1>2, <2>1, <2>2, <2>6 DEF TypeOK, Answers
  <2>11. Answers'
    BY <1>1, <1>3, <2>8, <2>9, <2>10
       DEF Answers, environment, mainVars, callVars, clientVars
  <2> QED
    BY <2>7, <2>11 DEF TypeInv
<1> QED
  BY <1>4, <1>5, <1>6 DEF Thread

(* No step breaks it.                                                      *)
LEMMA StepTypeInv == IndInv /\ TypeInv /\ [Next]_vars => TypeInv'
<1> SUFFICES ASSUME IndInv, TypeInv, [Next]_vars PROVE TypeInv'
  OBVIOUS
<1>1. TypeOK /\ Answers /\ ControlOK /\ NothingAhead /\ ReadingIsSafe
  BY DEF TypeInv, IndInv
<1>2. /\ LastSub \in Nat \ {0} /\ Host \subseteq 1..LastSub /\ MaxCalls \in Nat
      /\ 0 \notin Host
  BY CClientAssumption
<1>3. <<>> \in Seq(Entry) /\ UniqueKeys(<<>>)
  BY DEF UniqueKeys
<1>4. ASSUME NEW pkt \in Request, StartCall(pkt) PROVE TypeInv'
  <2>1. /\ call' = call + 1 /\ call' \in Calls /\ call \in Nat /\ cmd' = pkt
        /\ main = "idle"
        /\ UNCHANGED <<environment, ret, found, asked, read_end, client_freed,
                       sub_ip, finish, fault, reg, net>>
    BY <1>1, <1>2, <1>4 DEF StartCall, TypeOK, Calls
  <2>2. kept' \subseteq 1..call' /\ before' \subseteq Host
    BY <1>1, <1>4, <2>1 DEF StartCall, TypeOK
  <2>3. \/ /\ data' = [data EXCEPT ![call'] = pkt]
           /\ thread' = [thread EXCEPT ![call'] = "reset"]
           /\ main' = "reading"
        \/ main' = "failing" /\ UNCHANGED <<data, thread>>
    BY <1>4 DEF StartCall
  <2>4. client_freed' \subseteq { k \in 1..call' : data'[k] = NULL } /\ fault' \in 0..call'
    <3>1. \A k \in 1..call : k \in 1..call' /\ k # call'
      BY <2>1
    <3>2. \A k \in 1..call : data'[k] = data[k]
      <4>1. DOMAIN data = Calls /\ 1..call \subseteq Calls
        BY <1>1, <1>2 DEF TypeOK, Calls
      <4> QED
        BY <2>3, <3>1, <4>1
    <3>3. client_freed \subseteq { k \in 1..call : data[k] = NULL } /\ fault \in 0..call
      BY <1>1 DEF TypeOK
    <3>4. client_freed' \subseteq { k \in 1..call' : data'[k] = NULL }
      BY <2>1, <3>1, <3>2, <3>3
    <3> QED
      BY <2>1, <3>3, <3>4
  <2>5. /\ call' \in 0..MaxCalls /\ main' \in {"reading", "failing"}
        /\ data' \in [Calls -> Request \cup {NULL}]
        /\ thread' \in [Calls -> {"off", "reset", "check", "write", "done"}]
        /\ \A k \in Calls : thread'[k] = thread[k] \/ thread'[k] = "reset"
        /\ main' = "reading" => data'[call'] = pkt
    <3>1. /\ data \in [Calls -> Request \cup {NULL}]
          /\ thread \in [Calls -> {"off", "reset", "check", "write", "done"}]
      BY <1>1 DEF TypeOK
    <3>2. call' \in 0..MaxCalls /\ call' \in Calls /\ pkt \in Request \cup {NULL}
      BY <1>2, <2>1 DEF Calls
    <3> QED
      BY <2>3, <3>1, <3>2
  <2>6. TypeOK'
    BY <1>1, <2>1, <2>2, <2>4, <2>5 DEF TypeOK, environment
  <2>7. \A m \in net : m.call \in 1..call' /\ m.call # call'
    BY <1>1, <2>1 DEF Answers
  <2>8. Answers'
    BY <1>1, <2>1, <2>5, <2>7 DEF Answers
  <2> QED
    BY <2>6, <2>8 DEF TypeInv
<1>5. CASE ReadReply
  <2>1. PICK m \in net : /\ m.to = 0 /\ m.call = call /\ net' = net \ {m}
                         /\ Check(m.pkt)
    BY <1>5 DEF ReadReply
  <2>2. /\ main = "reading" /\ read_end' = [read_end EXCEPT ![call] = TRUE]
        /\ UNCHANGED <<environment, main, cmd, call, kept, before, data, client_freed,
                       threadVars, reg>>
    BY <1>5 DEF ReadReply
  <2>3. /\ ret' \in {0, -1} /\ found' \in Seq(Entry) /\ UniqueKeys(found')
    <3>1. CASE cmd.action = "inquiry" /\ m.pkt.action = "succ"
      <4>1. m.pkt.info \in Entry
        BY <1>1, <2>1, <2>2, <3>1 DEF Answers
      <4>2. found' = ListAdd(found, m.pkt.info) /\ ret' = ret
        BY <2>1, <3>1 DEF Check, CheckServices
      <4> QED
        BY <1>1, <4>1, <4>2, ListAddProperties DEF TypeOK, Answers
    <3>2. CASE ~(cmd.action = "inquiry" /\ m.pkt.action = "succ")
      <4>1. found' = found /\ ret' \in {0, ret}
        BY <2>1, <3>2 DEF Check, CheckServices, CheckResult
      <4> QED
        BY <1>1, <4>1 DEF TypeOK, Answers
    <3> QED
      BY <3>1, <3>2
  <2>4. TypeOK'
    BY <1>1, <2>1, <2>2, <2>3 DEF TypeOK, environment, threadVars
  <2>5. Answers'
    BY <1>1, <2>1, <2>2, <2>3 DEF Answers, threadVars
  <2> QED
    BY <2>4, <2>5 DEF TypeInv
<1>6. CASE ReadTimeout
  <2>1. /\ main = "reading" /\ main' = "freeing"
        /\ UNCHANGED <<environment, call, kept, callVars, clientVars, threadVars, reg,
                       net>>
    BY <1>6 DEF ReadTimeout
  <2> QED
    BY <1>1, <2>1 DEF TypeInv, TypeOK, Answers, environment, callVars, clientVars,
       threadVars
<1>7. CASE NoClient
  <2>1. /\ EndCall
        /\ UNCHANGED <<environment, call, kept, clientVars, sub_ip, thread, finish,
                       fault, reg, net>>
    BY <1>7 DEF NoClient
  <2> QED
    BY <1>1, <1>3, <2>1 DEF TypeInv, TypeOK, Answers, EndCall, environment, clientVars
<1>8. CASE FreePkt
  <2>1. /\ main = "freeing" /\ data' = [data EXCEPT ![call] = NULL]
        /\ \/ main' = "closing" /\ UNCHANGED <<callVars, asked>>
           \/ EndCall
        /\ UNCHANGED <<environment, call, kept, read_end, client_freed, sub_ip, thread,
                       finish, fault, reg, net>>
    BY <1>8 DEF FreePkt
  <2>2. /\ data' \in [Calls -> Request \cup {NULL}] /\ call \in Calls
        /\ client_freed' \subseteq { k \in 1..call : data'[k] = NULL }
        /\ data'[call] = NULL
    BY <1>1, <1>2, <2>1 DEF TypeOK, Answers, Calls
  <2>3. CASE main' = "closing" /\ UNCHANGED <<callVars, asked>>
    BY <1>1, <2>1, <2>2, <2>3 DEF TypeInv, TypeOK, Answers, environment, callVars
  <2>4. CASE EndCall
    BY <1>1, <1>3, <2>1, <2>2, <2>4 DEF TypeInv, TypeOK, Answers, EndCall, environment
  <2> QED
    BY <2>1, <2>3, <2>4
<1>9. CASE Deinit
  <2>1. /\ main = "closing" /\ client_freed' = client_freed \cup {call} /\ EndCall
        /\ UNCHANGED <<environment, call, kept, read_end, data, sub_ip, thread, finish,
                       fault, reg, net>>
    BY <1>9 DEF Deinit
  <2>2. client_freed' \subseteq { k \in 1..call : data[k] = NULL }
    <3>1. call \in 1..call /\ data[call] = NULL
      BY <1>1, <2>1 DEF TypeOK, Answers
    <3>2. client_freed \subseteq { k \in 1..call : data[k] = NULL }
      BY <1>1 DEF TypeOK
    <3> QED
      BY <2>1, <3>1, <3>2
  <2> QED
    BY <1>1, <1>3, <2>1, <2>2 DEF TypeInv, TypeOK, Answers, EndCall, environment
<1>10. ASSUME NEW n \in Calls, Thread(n) PROVE TypeInv'
  <2>1. CASE Fault(n)
    <3>1. n \in 1..call
      BY <1>1, <1>10 DEF Thread, ThreadReset, ThreadCheck, ThreadWrite, NothingAhead,
         ControlOK, Calls
    <3> QED
      BY <1>1, <2>1, <3>1, SMTT(30)
         DEF Fault, TypeInv, TypeOK, Answers, environment, mainVars, callVars,
             clientVars
  <2>2. CASE ~Fault(n)
    BY <1>10, <2>2, ThreadTypes
  <2> QED
    BY <2>1, <2>2
<1>11. CASE DaemonHandle
  <2>1. PICK m \in net :
          /\ m.to # 0
          /\ reg' = [reg EXCEPT ![m.to] = Handled(@, m.pkt)]
          /\ net' = (net \ {m}) \cup
               IF m.call = call /\ main = "reading"
                 THEN { [to |-> 0, call |-> m.call, pkt |-> r, from |-> m.to] :
                          r \in Replies(reg[m.to], m.pkt) }
                 ELSE {}
    BY <1>11 DEF DaemonHandle
  <2>2. UNCHANGED <<environment, mainVars, clientVars, threadVars>>
    BY <1>11 DEF DaemonHandle
  <2>3. m.to \in Host /\ m.pkt \in Request /\ m.call \in Calls
    BY <1>1, <2>1 DEF TypeOK, ToDaemon, ToClient
  <2>4. reg[m.to] \in Seq(Entry) /\ UniqueKeys(reg[m.to])
    BY <1>1, <2>3 DEF TypeOK, Answers
  <2>5. reg' \in [Host -> Seq(Entry)] /\ \A h \in Host : UniqueKeys(reg'[h])
    BY <1>1, <2>1, <2>3, <2>4, HandledProperties DEF TypeOK, Answers
  <2>6. Replies(reg[m.to], m.pkt) \subseteq Reply
    BY <2>3, <2>4, RepliesProperties
  <2>7. net' \subseteq ToDaemon \cup ToClient
    BY <1>1, <2>1, <2>3, <2>6 DEF TypeOK, ToClient
  <2>8. TypeOK'
    BY <1>1, <2>2, <2>5, <2>7 DEF TypeOK, environment, mainVars, callVars, clientVars,
       threadVars
  <2>9. \A k \in net' : k.call \in 1..call
    BY <1>1, <2>1 DEF Answers
  <2>10. ASSUME main = "reading", NEW k \in net', k.call = call
         PROVE  /\ k.to # 0 => k.pkt = cmd
                /\ k.to = 0 /\ cmd.action = "inquiry" /\ k.pkt.action = "succ"
                     => k.pkt.info \in Entry
    <3>1. CASE k \in net
      BY <1>1, <2>10, <3>1 DEF Answers
    <3>2. CASE k \notin net
      <4>1. PICK r \in Replies(reg[m.to], m.pkt) :
              k = [to |-> 0, call |-> m.call, pkt |-> r, from |-> m.to]
        BY <2>1, <3>2
      <4>2. k.to = 0 /\ k.pkt = r /\ m.call = call
        BY <2>10, <4>1
      <4>3. m.pkt = cmd
        BY <1>1, <2>1, <2>10, <4>2 DEF Answers
      <4>4. cmd.action = "inquiry" /\ r.action = "succ" => r.info \in Entry
        BY <2>3, <2>4, <4>1, <4>3, RepliesProperties, PrefixProperties
      <4> QED
        BY <4>2, <4>4
    <3> QED
      BY <3>1, <3>2
  <2>11. Answers'
    BY <1>1, <2>2, <2>5, <2>9, <2>10
       DEF Answers, environment, mainVars, callVars, clientVars, threadVars
  <2> QED
    BY <2>8, <2>11 DEF TypeInv
<1>12. CASE Lose
  BY <1>1, <1>12 DEF Lose, TypeInv, TypeOK, Answers, environment, mainVars, callVars,
     clientVars, threadVars
<1>13. CASE Over \/ UNCHANGED vars
  BY <1>1, <1>13, ZenonT(30)
     DEF Over, vars, TypeInv, TypeOK, Answers, environment, mainVars, callVars,
         clientVars, threadVars
<1>14. /\ \A e \in Entry : RegisterPkt(e) \in Request
       /\ \A d \in Device, s \in Service : UnregisterPkt(d, s) \in Request
       /\ \A s \in Service : InquiryPkt(s) \in Request
  BY DEF Request
<1> QED
  BY <1>4, <1>5, <1>6, <1>7, <1>8, <1>9, <1>10, <1>11, <1>12, <1>13, <1>14
     DEF Next, RegisterService, UnregisterService, InquiryService

(* Every variable of server.c, client.c and udp.c keeps to its type.       *)
THEOREM TypeCorrect == Spec => []TypeOK
<1>1. TypeInv => TypeOK
  BY DEF TypeInv
<1> QED
  BY <1>1, InitTypeInv, StepTypeInv, Invariance, PTL DEF Spec
-----------------------------------------------------------------------------
(* A socket that is still open was opened by a registration or             *)
(* deregistration, or by the inquiry under way.                            *)
SocketsInv ==
  /\ main \in {"idle", "failing"} => ret = -1 /\ asked = {} /\ found = <<>>
  /\ main = "failing" => thread[call] = "off" /\ Cardinality(kept \ {call}) >= sockets
  /\ main \in {"reading", "freeing", "closing"} => thread[call] # "off"
  /\ \A n \in Open :
       n \in kept \/ (n = call /\ main # "idle" /\ cmd.action = "inquiry")

(* No call has begun.                                                      *)
LEMMA InitSocketsInv == Init => SocketsInv
<1> SUFFICES ASSUME Init PROVE SocketsInv
  OBVIOUS
<1>1. Open = {}
  BY CClientAssumption DEF Init, Open
<1> QED
  BY <1>1 DEF Init, SocketsInv

(* What has been opened and not closed does not change but by a start or   *)
(* the end of an inquiry.                                                  *)
LEMMA SameOpen ==
  ASSUME SocketsInv, main \in {"failing", "reading", "freeing", "closing"}, main' = "freeing" \/ main' = "closing" \/ main' = main,
         UNCHANGED <<call, kept, cmd, client_freed, sockets>>,
         \A n \in Calls : thread'[n] = "off" <=> thread[n] = "off",
         1..call \subseteq Calls, call \in Calls,
         main = "failing" => main' = main,
         main = "failing" => UNCHANGED <<ret, asked, found>>
  PROVE  SocketsInv'
<1>1. Open' = Open
  BY DEF Open
<1>2. CASE main = "failing"
  <2>1. Cardinality(kept' \ {call'}) = Cardinality(kept \ {call})
    BY Zenon
  <2> QED
    BY <1>1, <1>2, <2>1 DEF SocketsInv
<1>3. CASE main # "failing"
  <2>1. main' \notin {"idle", "failing"}
    BY <1>3
  <2>2. \A n \in Open' : n \in kept' \/ (n = call' /\ main' # "idle" /\ cmd'.action = "inquiry")
    BY <1>1, <2>1 DEF SocketsInv
  <2>3. main' \in {"reading", "freeing", "closing"} => thread'[call'] # "off"
    BY <1>3 DEF SocketsInv
  <2> QED
    BY <2>1, <2>2, <2>3 DEF SocketsInv
<1> QED
  BY <1>2, <1>3

(* No step breaks it.                                                      *)
LEMMA StepSocketsInv == IndInv /\ TypeInv /\ SocketsInv /\ [Next]_vars => SocketsInv'
<1> SUFFICES ASSUME IndInv, TypeInv, SocketsInv, [Next]_vars PROVE SocketsInv'
  OBVIOUS
<1>1. /\ TypeOK /\ MaxCalls \in Nat /\ call \in 0..MaxCalls /\ 1..call \subseteq Calls
      /\ kept \subseteq 1..call
      /\ (main # "idle" => call \in Calls /\ call \in 1..call)
  BY CClientAssumption DEF TypeInv, TypeOK, Answers, Calls
<1>2. Open \subseteq 1..call
  BY DEF Open
<1>3. ASSUME NEW pkt \in Request, StartCall(pkt) PROVE SocketsInv'
  <2>1. /\ main = "idle" /\ call' = call + 1 /\ cmd' = pkt /\ call' \in Calls
        /\ kept' = IF pkt.action = "inquiry" THEN kept ELSE kept \cup {call'}
        /\ UNCHANGED <<ret, found, asked, client_freed, sockets>>
    BY <1>1, <1>3 DEF StartCall, environment, Calls
  <2>2. \A n \in Open : n \in kept /\ n # call'
    BY <1>1, <1>2, <2>1 DEF SocketsInv
  <2>3. CASE Cardinality(Open) < sockets
    <3>1. thread' = [thread EXCEPT ![call'] = "reset"] /\ main' = "reading"
      BY <1>3, <2>3 DEF StartCall
    <3>2. Open' \subseteq Open \cup {call'}
      BY <1>1, <2>1, <3>1 DEF Open, TypeOK
    <3>3. thread'[call'] = "reset"
      BY <1>1, <2>1, <3>1 DEF TypeOK
    <3> QED
      BY <2>1, <2>2, <3>1, <3>2, <3>3 DEF SocketsInv
  <2>4. CASE ~(Cardinality(Open) < sockets)
    <3>1. main' = "failing" /\ thread' = thread
      BY <1>3, <2>4 DEF StartCall
    <3>2. thread[call'] = "off"
      BY <1>1, <2>1 DEF IndInv, NothingAhead
    <3>3. Open' = Open
      <4>1. 1..call' = 1..call \cup {call'}
        BY <1>1, <2>1
      <4> QED
        BY <2>1, <3>1, <3>2, <4>1 DEF Open
    <3>4. Cardinality(Open) <= Cardinality(kept' \ {call'})
      <4>1. Open \subseteq kept' \ {call'}
        BY <2>1, <2>2
      <4>2. kept' \ {call'} \subseteq 1..call /\ IsFiniteSet(1..call)
        BY <1>1, <2>1, FS_Interval
      <4>3. IsFiniteSet(kept' \ {call'})
        BY <4>2, FS_Subset
      <4> QED
        BY <4>1, <4>3, FS_Subset
    <3>5. Cardinality(kept' \ {call'}) >= sockets
      <4>1. IsFiniteSet(Open)
        <5>1. IsFiniteSet(1..call)
          BY <1>1, FS_Interval
        <5> QED
          BY <1>2, <5>1, FS_Subset
      <4>2. IsFiniteSet(kept' \ {call'})
        <5>1. kept' \ {call'} \subseteq 1..call /\ IsFiniteSet(1..call)
          BY <1>1, <2>1, FS_Interval
        <5> QED
          BY <5>1, FS_Subset
      <4>3. /\ Cardinality(Open) \in Nat /\ Cardinality(kept' \ {call'}) \in Nat
            /\ sockets \in Nat
        BY <1>1, <4>1, <4>2, FS_CardinalityType DEF TypeOK
      <4> QED
        BY <2>4, <3>4, <4>3
    <3> QED
      BY <2>1, <2>2, <3>1, <3>2, <3>3, <3>5 DEF SocketsInv
  <2> QED
    BY <2>3, <2>4
<1>4. CASE ReadReply
  <2>1. /\ main = "reading"
        /\ UNCHANGED <<sockets, main, cmd, call, kept, client_freed, thread>>
    BY <1>4 DEF ReadReply, environment, threadVars
  <2> QED
    BY <1>1, <2>1, SameOpen
<1>5. CASE ReadTimeout
  <2>1. /\ main = "reading" /\ main' = "freeing"
        /\ UNCHANGED <<sockets, cmd, call, kept, client_freed, thread>>
    BY <1>5 DEF ReadTimeout, environment, callVars, clientVars, threadVars
  <2> QED
    BY <1>1, <2>1, SameOpen
<1>6. ASSUME EndCall, UNCHANGED <<call, kept, thread>>, client_freed \subseteq client_freed',
             thread[call] # "off" /\ call \notin client_freed' => cmd.action # "inquiry"
      PROVE  SocketsInv'
  <2>1. Open' \subseteq Open /\ (call \in Open' => cmd.action # "inquiry")
    BY <1>6 DEF Open
  <2> QED
    BY <1>6, <2>1 DEF SocketsInv, EndCall
<1>7. CASE NoClient
  <2>1. EndCall /\ main = "failing" /\ UNCHANGED <<call, kept, thread, client_freed>>
    BY <1>7 DEF NoClient, clientVars
  <2> QED
    BY <1>6, <2>1 DEF SocketsInv
<1>8. CASE FreePkt
  <2>1. /\ main = "freeing"
        /\ UNCHANGED <<sockets, call, kept, client_freed, thread>>
        /\ IF cmd.action = "inquiry"
             THEN main' = "closing" /\ UNCHANGED <<callVars, asked>>
             ELSE EndCall
    BY <1>8 DEF FreePkt, environment
  <2>2. CASE cmd.action = "inquiry"
    BY <1>1, <2>1, <2>2, SameOpen DEF callVars
  <2>3. CASE cmd.action # "inquiry"
    BY <1>6, <2>1, <2>3
  <2> QED
    BY <2>2, <2>3
<1>9. CASE Deinit
  <2>1. /\ EndCall /\ UNCHANGED <<call, kept, thread>>
        /\ client_freed' = client_freed \cup {call}
    BY <1>9 DEF Deinit
  <2> QED
    BY <1>6, <2>1
<1>10. ASSUME NEW n \in Calls, Thread(n) PROVE SocketsInv'
  <2>1. /\ UNCHANGED <<sockets, main, cmd, call, kept, client_freed, ret, found>>
        /\ \A k \in Calls : thread'[k] = "off" <=> thread[k] = "off"
        /\ thread[n] # "off"
    <3>1. UNCHANGED <<environment, mainVars, clientVars>>
      BY <1>10 DEF Thread, ThreadReset, ThreadCheck, ThreadWrite, Fault
    <3>2. /\ thread[n] # "off"
          /\ \/ thread' = thread
             \/ \E there \in {"check", "write", "done"} :
                  thread' = [thread EXCEPT ![n] = there]
      BY <1>10 DEF Thread, ThreadReset, ThreadCheck, ThreadWrite, Fault
    <3> QED
      BY <1>1, <3>1, <3>2 DEF TypeOK, environment, mainVars, callVars, clientVars
  <2>2. main \in {"idle", "failing"} => asked' = asked
    <3>1. CASE main = "idle"
      BY <1>10, <3>1 DEF Thread, ThreadReset, ThreadCheck, ThreadWrite, Fault
    <3>2. CASE main = "failing"
      <4>1. n # call
        BY <2>1, <3>2 DEF SocketsInv
      <4> QED
        BY <1>10, <4>1 DEF Thread, ThreadReset, ThreadCheck, ThreadWrite, Fault
    <3> QED
      BY <3>1, <3>2
  <2>3. Open' = Open
    BY <1>1, <2>1 DEF Open
  <2> QED
    BY <1>1, <2>1, <2>2, <2>3 DEF SocketsInv
<1>11. CASE DaemonHandle \/ Lose \/ Over \/ UNCHANGED vars
  <2>1. /\ UNCHANGED <<sockets, main, cmd, call, kept, client_freed, ret, found, asked>>
        /\ UNCHANGED thread
    BY <1>11 DEF DaemonHandle, Lose, Over, vars, environment, mainVars, callVars,
       clientVars, threadVars
  <2> QED
    BY <2>1 DEF SocketsInv, Open
<1>12. /\ \A e \in Entry : RegisterPkt(e) \in Request
       /\ \A d \in Device, s \in Service : UnregisterPkt(d, s) \in Request
       /\ \A s \in Service : InquiryPkt(s) \in Request
  BY DEF Request
<1> QED
  BY <1>3, <1>4, <1>5, <1>7, <1>8, <1>9, <1>10, <1>11, <1>12
     DEF Next, RegisterService, UnregisterService, InquiryService

-----------------------------------------------------------------------------
(* The addresses that the scan of the call under way is past.              *)
Reached == IF finish[call] THEN 1..LastSub ELSE 1..(sub_ip[call] - 1)

(* If the scan takes less than a read timeout, a call is alone with its    *)
(* thread and its datagrams, and the thread has asked all the addresses it *)
(* is past, each once.                                                     *)
QuickInv ==
  /\ \A n \in Calls : n > call => sub_ip[n] = 0 /\ ~finish[n]
  /\ timing = "quick" => \A m \in net : m.call = call /\ main = "reading"
  /\ timing = "quick" /\ main \in {"reading", "freeing", "closing"} =>
       /\ asked = {LocalNet(ifaddrs)} \X Reached
       /\ thread[call] = "done" => finish[call] \/ read_end[call]
       /\ thread[call] = "write" => ~finish[call]
       /\ thread[call] = "reset" => ~finish[call] /\ sub_ip[call] = 0

(* No call has begun.                                                      *)
LEMMA InitQuickInv == Init => QuickInv
BY DEF Init, QuickInv

(* A thread that is alone with its call touches nothing that was freed.    *)
LEMMA QuickThread ==
  ASSUME IndInv, TypeInv, timing = "quick", NEW n \in Calls, Thread(n)
  PROVE  /\ n = call /\ main = "reading" /\ call \in 1..call
         /\ UNCHANGED <<environment, mainVars, clientVars, reg, fault>>
         /\ \/ /\ thread[n] = "reset" /\ sub_ip' = [sub_ip EXCEPT ![n] = 1]
               /\ thread' = [thread EXCEPT ![n] = "check"]
               /\ UNCHANGED <<net, finish, asked>>
            \/ /\ thread[n] = "check" /\ UNCHANGED <<net, sub_ip, finish, asked>>
               /\ thread' = [thread EXCEPT ![n] =
                               IF finish[n] \/ read_end[n] THEN "done" ELSE "write"]
            \/ /\ thread[n] = "write" /\ thread' = [thread EXCEPT ![n] = "check"]
               /\ asked' = asked \cup {<<LocalNet(ifaddrs), sub_ip[n]>>}
               /\ net' = IF LocalNet(ifaddrs) = "lan" /\ sub_ip[n] \in Host
                     THEN net \cup {[to |-> sub_ip[n], call |-> n, pkt |-> data[n]]}
                     ELSE net
               /\ IF sub_ip[n] < LastSub
                    THEN sub_ip' = [sub_ip EXCEPT ![n] = @ + 1] /\ UNCHANGED finish
                    ELSE finish' = [finish EXCEPT ![n] = TRUE] /\ UNCHANGED sub_ip
<1>1. thread[n] \notin {"off", "done"}
  BY DEF Thread, ThreadReset, ThreadCheck, ThreadWrite
<1>2. MaxCalls \in Nat /\ call \in 0..MaxCalls
  BY CClientAssumption DEF IndInv, ControlOK
<1>3. n = call /\ main = "reading" /\ call \in 1..call
  <2>1. ~(n > call)
    BY <1>1 DEF IndInv, NothingAhead
  <2>2. n \in 1..call
    BY <1>2, <2>1 DEF Calls
  <2>3. n = call /\ main = "reading"
    BY <1>1, <2>2 DEF IndInv, ThreadOutlasted
  <2> QED
    BY <2>2, <2>3
<1>4. n \notin client_freed /\ data[n] # NULL
  BY <1>3 DEF IndInv, ReadingIsSafe
<1>5. CASE ThreadReset(n)
  BY <1>3, <1>4, <1>5 DEF ThreadReset
<1>6. CASE ThreadCheck(n)
  BY <1>3, <1>4, <1>6 DEF ThreadCheck
<1>7. CASE ThreadWrite(n)
  BY <1>3, <1>4, <1>7 DEF ThreadWrite
<1> QED
  BY <1>5, <1>6, <1>7 DEF Thread

(* No step breaks it.                                                      *)
LEMMA StepQuickInv ==
  IndInv /\ TypeInv /\ SocketsInv /\ QuickInv /\ [Next]_vars => QuickInv'
<1> SUFFICES ASSUME IndInv, TypeInv, SocketsInv, QuickInv, [Next]_vars PROVE QuickInv'
  OBVIOUS
<1>1. /\ TypeOK /\ MaxCalls \in Nat /\ call \in 0..MaxCalls
      /\ LastSub \in Nat \ {0}
      /\ (main # "idle" => call \in Calls /\ call \in 1..call)
  BY CClientAssumption DEF TypeInv, TypeOK, Answers, Calls
<1>2. ASSUME NEW pkt \in Request, StartCall(pkt) PROVE QuickInv'
  <2>1. /\ main = "idle" /\ call' = call + 1 /\ call' \in Calls
        /\ UNCHANGED <<timing, ifaddrs, asked, sub_ip, finish, net>>
        /\ \/ main' = "failing"
           \/ main' = "reading" /\ thread' = [thread EXCEPT ![call'] = "reset"]
    BY <1>1, <1>2 DEF StartCall, environment, Calls
  <2>2. \A n \in Calls : n > call' => n > call
    BY <1>1, <2>1 DEF Calls
  <2>3. sub_ip[call'] = 0 /\ ~finish[call']
    BY <1>1, <2>1 DEF QuickInv
  <2>4. timing = "quick" => net = {}
    BY <2>1 DEF QuickInv
  <2>5. Reached' = {}
    BY <2>1, <2>3 DEF Reached
  <2>6. main' = "reading" => thread'[call'] = "reset"
    BY <1>1, <2>1 DEF TypeOK
  <2>7. asked = {}
    BY <2>1 DEF SocketsInv
  <2> QED
    BY <2>1, <2>2, <2>3, <2>4, <2>5, <2>6, <2>7 DEF QuickInv
<1>3. CASE ReadReply
  <2>1. /\ main = "reading" /\ read_end' = [read_end EXCEPT ![call] = TRUE]
        /\ UNCHANGED <<timing, ifaddrs, main, call, sub_ip, thread, finish, asked>>
        /\ net' \subseteq net
    BY <1>3 DEF ReadReply, environment, threadVars
  <2>2. read_end'[call] = TRUE /\ Reached' = Reached
    BY <1>1, <2>1 DEF TypeOK, Reached
  <2> QED
    BY <2>1, <2>2 DEF QuickInv
<1>4. CASE ReadTimeout
  <2>1. /\ main = "reading" /\ main' = "freeing" /\ TimeIsUp
        /\ UNCHANGED <<timing, ifaddrs, call, read_end, sub_ip, thread, finish, asked,
                       net>>
    BY <1>4 DEF ReadTimeout, environment, clientVars, threadVars
  <2>2. timing = "quick" => net = {}
    BY <2>1 DEF QuickInv, TimeIsUp
  <2>3. Reached' = Reached
    BY <2>1 DEF Reached
  <2> QED
    BY <2>1, <2>2, <2>3 DEF QuickInv
<1>5. ASSUME EndCall, main # "reading",
             UNCHANGED <<timing, call, sub_ip, finish, net>>
      PROVE  QuickInv'
  BY <1>5 DEF EndCall, QuickInv
<1>6. CASE NoClient
  BY <1>5, <1>6 DEF NoClient, environment
<1>7. CASE FreePkt
  <2>1. /\ main = "freeing"
        /\ UNCHANGED <<timing, ifaddrs, call, read_end, sub_ip, thread, finish, net>>
        /\ (main' = "closing" /\ UNCHANGED asked) \/ EndCall
    BY <1>7 DEF FreePkt, environment
  <2>2. CASE main' = "closing" /\ UNCHANGED asked
    <3>1. Reached' = Reached
      BY <2>1 DEF Reached
    <3> QED
      BY <2>1, <2>2, <3>1 DEF QuickInv
  <2>3. CASE EndCall
    BY <1>5, <2>1, <2>3
  <2> QED
    BY <2>1, <2>2, <2>3
<1>8. CASE Deinit
  BY <1>5, <1>8 DEF Deinit, environment
<1>9. ASSUME NEW n \in Calls, Thread(n) PROVE QuickInv'
  <2>1. n <= call
    <3>1. thread[n] # "off"
      BY <1>9 DEF Thread, ThreadReset, ThreadCheck, ThreadWrite
    <3> QED
      BY <1>1, <3>1 DEF IndInv, NothingAhead, Calls
  <2>2. call' = call /\ timing' = timing
    BY <1>9 DEF Thread, ThreadReset, ThreadCheck, ThreadWrite, Fault, environment,
       mainVars
  <2>3. \A k \in Calls : k > call' => sub_ip'[k] = 0 /\ ~finish'[k]
    <3> TAKE k \in Calls
    <3> HAVE k > call'
    <3>1. k # n /\ sub_ip[k] = 0 /\ ~finish[k]
      BY <1>1, <2>1, <2>2 DEF QuickInv, Calls
    <3>2. sub_ip'[k] = sub_ip[k] /\ finish'[k] = finish[k]
      BY <1>1, <1>9, <3>1 DEF Thread, ThreadReset, ThreadCheck, ThreadWrite, Fault,
         TypeOK
    <3> QED
      BY <3>1, <3>2
  <2>4. CASE timing # "quick"
    BY <2>2, <2>3, <2>4 DEF QuickInv
  <2>5. CASE timing = "quick"
    <3> DEFINE L == LocalNet(ifaddrs)
               s == sub_ip[n]
    <3>1. /\ n = call /\ main = "reading"
          /\ UNCHANGED <<ifaddrs, main, call, read_end>>
      BY <1>9, <2>5, QuickThread DEF environment, mainVars, clientVars
    <3>2. asked = {L} \X Reached
      BY <2>5, <3>1 DEF QuickInv
    <3>3. CASE thread[n] = "reset"
      <4>1. /\ sub_ip' = [sub_ip EXCEPT ![n] = 1]
            /\ thread' = [thread EXCEPT ![n] = "check"]
            /\ UNCHANGED <<net, finish, asked>>
        BY <1>9, <2>5, <3>3, QuickThread
      <4>2. ~finish[call] /\ sub_ip[call] = 0
        BY <2>5, <3>1, <3>3 DEF QuickInv
      <4>3. sub_ip'[call'] = 1 /\ thread'[call'] = "check"
        BY <1>1, <3>1, <4>1 DEF TypeOK
      <4>4. Reached = {} /\ Reached' = {}
        BY <3>1, <4>1, <4>2, <4>3 DEF Reached
      <4> QED
        BY <2>3, <2>5, <3>1, <3>2, <4>1, <4>3, <4>4 DEF QuickInv
    <3>4. CASE thread[n] = "check"
      <4>1. /\ UNCHANGED <<net, sub_ip, finish, asked>>
            /\ thread' = [thread EXCEPT ![n] =
                            IF finish[n] \/ read_end[n] THEN "done" ELSE "write"]
        BY <1>9, <2>5, <3>4, QuickThread
      <4>2. thread'[call'] = IF finish[call] \/ read_end[call] THEN "done" ELSE "write"
        BY <1>1, <3>1, <4>1 DEF TypeOK
      <4>3. Reached' = Reached
        BY <3>1, <4>1 DEF Reached
      <4> QED
        BY <2>2, <2>3, <2>5, <3>1, <3>2, <4>1, <4>2, <4>3 DEF QuickInv
    <3>5. CASE thread[n] = "write"
      <4>1. /\ thread' = [thread EXCEPT ![n] = "check"]
            /\ asked' = asked \cup {<<L, s>>}
            /\ \A m \in net' : m \in net \/ m.call = n
            /\ IF s < LastSub
                 THEN sub_ip' = [sub_ip EXCEPT ![n] = s + 1] /\ UNCHANGED finish
                 ELSE finish' = [finish EXCEPT ![n] = TRUE] /\ UNCHANGED sub_ip
        BY <1>9, <2>5, <3>5, QuickThread
      <4>2. s \in 1..LastSub /\ ~finish[call]
        <5>1. s > 0 /\ s \in 0..LastSub
          BY <1>1, <3>5 DEF TypeInv, Answers, TypeOK
        <5> QED
          BY <1>1, <2>5, <3>1, <3>5, <5>1 DEF QuickInv
      <4>3. thread'[call'] = "check"
        BY <1>1, <3>1, <4>1 DEF TypeOK
      <4>4. Reached' = Reached \cup {s}
        <5>1. Reached = 1..(s - 1)
          BY <3>1, <4>2 DEF Reached
        <5>2. CASE s < LastSub
          <6>1. Reached' = 1..(s + 1 - 1)
            BY <1>1, <3>1, <4>1, <4>2, <5>2 DEF Reached, TypeOK
          <6> QED
            BY <1>1, <4>2, <5>1, <6>1
        <5>3. CASE ~(s < LastSub)
          <6>1. Reached' = 1..LastSub
            BY <1>1, <3>1, <4>1, <5>3 DEF Reached, TypeOK
          <6> QED
            BY <1>1, <4>2, <5>1, <5>3, <6>1
        <5> QED
          BY <5>2, <5>3
      <4>5. asked' = {LocalNet(ifaddrs)'} \X Reached'
        <5>1. LocalNet(ifaddrs)' = L
          BY <3>1
        <5> QED
          BY <3>2, <4>1, <4>4, <5>1
      <4>6. \A m \in net' : m.call = call' /\ main' = "reading"
        BY <2>5, <3>1, <4>1 DEF QuickInv
      <4> QED
        BY <2>3, <2>5, <3>1, <4>3, <4>5, <4>6 DEF QuickInv
    <3> QED
      BY <1>9, <2>5, <3>3, <3>4, <3>5, QuickThread
  <2> QED
    BY <2>4, <2>5
<1>10. CASE DaemonHandle
  <2>1. UNCHANGED <<environment, mainVars, clientVars, threadVars>>
    BY <1>10 DEF DaemonHandle
  <2>2. \A m \in net' : m \in net \/ (m.call = call /\ main = "reading")
    BY <1>10 DEF DaemonHandle
  <2>3. Reached' = Reached
    BY <2>1 DEF Reached, mainVars, threadVars
  <2> QED
    BY <2>1, <2>2, <2>3 DEF QuickInv, environment, mainVars, clientVars, threadVars
<1>11. CASE Lose \/ Over \/ UNCHANGED vars
  <2>1. UNCHANGED <<environment, mainVars, clientVars, threadVars>> /\ net' \subseteq net
    BY <1>11 DEF Lose, Over, vars
  <2>2. Reached' = Reached
    BY <2>1 DEF Reached, mainVars, threadVars
  <2> QED
    BY <2>1, <2>2 DEF QuickInv, environment, mainVars, clientVars, threadVars
<1>12. /\ \A e \in Entry : RegisterPkt(e) \in Request
       /\ \A d \in Device, s \in Service : UnregisterPkt(d, s) \in Request
       /\ \A s \in Service : InquiryPkt(s) \in Request
  BY DEF Request
<1> QED
  BY <1>2, <1>3, <1>4, <1>6, <1>7, <1>8, <1>9, <1>10, <1>11, <1>12
     DEF Next, RegisterService, UnregisterService, InquiryService

-----------------------------------------------------------------------------
(* What the properties of the quick scan speak of.                         *)
Underway ==
  timing = "quick" /\ ~lossy /\ main \in {"reading", "freeing", "closing"}

(* The request of the call under way is on its way to daemon h.            *)
Sent(h) == [to |-> h, call |-> call, pkt |-> cmd] \in net

Holds(h) == Registered(reg[h], cmd.device_name, cmd.service_name)

AskedOnly ==
  Underway => \A m \in net : IF m.to = 0 THEN m.from \in Asked ELSE m.to \in Asked

(* A registration: whoever has been asked holds the service, and the call  *)
(* knows, or will when it reads on.                                        *)
Registering ==
  Underway /\ cmd.action = "register" =>
    /\ \A m \in net : m.to = 0 => m.pkt.action = "succ"
    /\ \A h \in Asked : Sent(h) \/ (/\ cmd.info \in ToSet(reg[h])
                                    /\ ret = 0 \/ \E m \in net : m.to = 0)
    /\ ret = 0 => Asked # {}
    /\ read_end[call] => ret = 0

(* A deregistration: whoever has handled it holds the service no more, and *)
(* has said whether it did; the others hold it if they did.                *)
Unregistering ==
  Underway /\ cmd.action = "unregister" =>
    /\ \A h \in Host : h \notin Asked \/ Sent(h) => (Holds(h) <=> h \in before)
    /\ \A h \in Asked :
         Sent(h) \/ (/\ ~Holds(h)
                     /\ h \in before =>
                          ret = 0 \/ \E m \in net : m.to = 0 /\ m.pkt.action = "succ")
    /\ \A m \in net : m.to = 0 /\ m.pkt.action = "succ" => m.from \in before
    /\ ret = 0 => Asked \cap before # {}

(* An inquiry: each service at the head of the list of a daemon that has   *)
(* handled it is on its way or found, and there are no others.             *)
Inquiring ==
  Underway /\ cmd.action = "inquiry" =>
    /\ \A h \in Asked : \A e \in Prefix(reg[h], cmd.service_name) :
         \/ Sent(h)
         \/ \E m \in net : m.to = 0 /\ m.pkt = InquiryResultPkt(e)
         \/ \E f \in ToSet(found) : SameKey(e, f)
    /\ \A m \in net : m.to = 0 /\ m.pkt.action = "succ" =>
         m.pkt.info \in Prefix(reg[m.from], cmd.service_name)
    /\ \A e \in ToSet(found) : \E h \in Asked : e \in Prefix(reg[h], cmd.service_name)

HostsInv == AskedOnly /\ Registering /\ Unregistering /\ Inquiring

(* No call has begun.                                                      *)
LEMMA InitHostsInv == Init => HostsInv
BY DEF Init, HostsInv, AskedOnly, Registering, Unregistering, Inquiring, Underway

(* A step that changes nothing a call has done.                            *)
LEMMA SameHosts ==
  ASSUME HostsInv, Underway' => Underway,
         Asked' = Asked, read_end'[call'] = read_end[call],
         UNCHANGED <<net, cmd, call, reg, ret, found, before>>
  PROVE  HostsInv'
<1>1. \A h : Sent(h)' = Sent(h)
  BY DEF Sent
<1>2. \A h : Holds(h)' = Holds(h)
  BY DEF Holds
<1>3. AskedOnly'
  BY DEF HostsInv, AskedOnly
<1>4. Registering'
  BY <1>1 DEF HostsInv, Registering
<1>5. Unregistering'
  BY <1>1, <1>2 DEF HostsInv, Unregistering
<1>6. Inquiring'
  BY <1>1 DEF HostsInv, Inquiring
<1> QED
  BY <1>3, <1>4, <1>5, <1>6 DEF HostsInv

(* A call begins, and nobody has been asked.                               *)
LEMMA StartHosts ==
  ASSUME IndInv, TypeInv, SocketsInv, QuickInv, HostsInv, NEW pkt \in Request,
         StartCall(pkt)
  PROVE  HostsInv'
<1> SUFFICES ASSUME Underway' PROVE HostsInv'
  BY DEF HostsInv, AskedOnly, Registering, Unregistering, Inquiring
<1>1. /\ main = "idle" /\ call' = call + 1 /\ cmd' = pkt /\ call' \in Calls
      /\ UNCHANGED <<timing, ret, found, asked, read_end, net, reg>>
      /\ before' = IF pkt.action = "unregister"
                     THEN { h \in Host :
                              Registered(reg[h], pkt.device_name, pkt.service_name) }
                     ELSE {}
  BY CClientAssumption DEF StartCall, environment, TypeInv, TypeOK, Calls
<1>2. net = {}
  BY <1>1 DEF QuickInv, Underway
<1>3. Asked' = {} /\ ret = -1 /\ ToSet(found) = {}
  <2>1. ret = -1 /\ asked = {} /\ found = <<>>
    BY <1>1 DEF SocketsInv
  <2> QED
    BY <1>1, <2>1 DEF Asked, ToSet
<1>4. ~read_end[call']
  BY <1>1 DEF IndInv, NothingAhead, TypeInv, TypeOK
<1>5. AskedOnly' /\ Registering' /\ Inquiring'
  BY <1>1, <1>2, <1>3, <1>4 DEF AskedOnly, Registering, Inquiring
<1>6. Unregistering'
  <2>1. ASSUME cmd'.action = "unregister", NEW h \in Host
        PROVE  Holds(h)' <=> h \in before'
    BY <1>1, <2>1 DEF Holds
  <2> QED
    BY <1>1, <1>2, <1>3, <2>1 DEF Unregistering
<1> QED
  BY <1>5, <1>6 DEF HostsInv

(* The thread asks a daemon, or nobody.                                    *)
LEMMA ThreadHosts ==
  ASSUME IndInv, TypeInv, SocketsInv, QuickInv, HostsInv, NEW n \in Calls, Thread(n)
  PROVE  HostsInv'
<1> SUFFICES ASSUME Underway' PROVE HostsInv'
  BY DEF HostsInv, AskedOnly, Registering, Unregistering, Inquiring
<1> DEFINE s == sub_ip[n]
<1>0. timing' = timing
  BY DEF Thread, ThreadReset, ThreadCheck, ThreadWrite, Fault, environment
<1>1. /\ n = call /\ main = "reading" /\ timing = "quick"
      /\ UNCHANGED <<timing, lossy, main, cmd, call, reg, ret, found, before, read_end>>
  BY <1>0, QuickThread DEF Underway, environment, mainVars, callVars, clientVars
<1>2. Underway
  BY <1>1 DEF Underway
<1>3. CASE Asked' = Asked /\ net' = net
  BY <1>1, <1>2, <1>3, SameHosts
<1>4. CASE ~(Asked' = Asked /\ net' = net)
  <2>1. /\ thread[n] = "write"
        /\ asked' = asked \cup {<<LocalNet(ifaddrs), s>>}
        /\ net' = IF LocalNet(ifaddrs) = "lan" /\ s \in Host
                    THEN net \cup {[to |-> s, call |-> n, pkt |-> data[n]]} ELSE net
    BY <1>1, <1>4, QuickThread DEF Asked
  <2>2. LocalNet(ifaddrs) = "lan" /\ s \in Host
    BY <1>4, <2>1 DEF Asked
  <2>3. data[n] = cmd
    BY <1>1 DEF TypeInv, Answers
  <2>4. Asked' = Asked \cup {s}
    BY <2>1, <2>2 DEF Asked
  <2>5. s \notin Asked
    <3>1. asked = {LocalNet(ifaddrs)} \X Reached /\ ~finish[call]
      BY <1>1, <2>1 DEF QuickInv
    <3>2. s \notin Reached
      BY <1>1, <3>1 DEF Reached, TypeInv, TypeOK
    <3> QED
      BY <3>1, <3>2 DEF Asked
  <2> DEFINE k == [to |-> s, call |-> call, pkt |-> cmd]
  <2>6. net' = net \cup {k} /\ k.to = s /\ s # 0
    BY <1>1, <2>1, <2>2, <2>3, CClientAssumption
  <2>7. \A h : Sent(h)' <=> Sent(h) \/ h = s
    BY <1>1, <2>6 DEF Sent
  <2> HIDE DEF k, s
  <2>8. \A h : Holds(h)' = Holds(h)
    BY <1>1 DEF Holds
  <2>9. AskedOnly'
    BY <1>2, <2>4, <2>6 DEF HostsInv, AskedOnly
  <2>10. Registering'
    BY <1>1, <1>2, <2>4, <2>6, <2>7 DEF HostsInv, Registering
  <2>11. Unregistering'
    BY <1>1, <1>2, <2>4, <2>5, <2>6, <2>7, <2>8 DEF HostsInv, Unregistering
  <2>12. Inquiring'
    BY <1>1, <1>2, <2>4, <2>6, <2>7 DEF HostsInv, Inquiring
  <2> QED
    BY <2>9, <2>10, <2>11, <2>12 DEF HostsInv
<1> QED
  BY <1>3, <1>4

(* A daemon handles the request.                                           *)
LEMMA DaemonHosts ==
  ASSUME IndInv, TypeInv, SocketsInv, QuickInv, HostsInv, DaemonHandle
  PROVE  HostsInv'
<1> SUFFICES ASSUME Underway' PROVE HostsInv'
  BY DEF HostsInv, AskedOnly, Registering, Unregistering, Inquiring
<1>1. UNCHANGED <<timing, lossy, main, cmd, call, ret, found, before, read_end, asked>>
  BY DEF DaemonHandle, environment, mainVars, callVars, clientVars, threadVars
<1>2. Underway /\ Asked' = Asked
  BY <1>1 DEF Underway, Asked
<1>3. PICK m \in net :
        /\ m.to # 0
        /\ reg' = [reg EXCEPT ![m.to] = Handled(@, m.pkt)]
        /\ net' = (net \ {m}) \cup
             IF m.call = call /\ main = "reading"
               THEN { [to |-> 0, call |-> m.call, pkt |-> r, from |-> m.to] :
                        r \in Replies(reg[m.to], m.pkt) }
               ELSE {}
  BY DEF DaemonHandle
<1>4. m.call = call /\ main = "reading" /\ m.pkt = cmd /\ cmd \in Request
  BY <1>2, <1>3 DEF QuickInv, Underway, TypeInv, Answers
<1>5. PICK h \in Host : m = [to |-> h, call |-> call, pkt |-> cmd]
  BY <1>3, <1>4 DEF TypeInv, TypeOK, ToDaemon, ToClient
<1>6. m.to = h /\ h # 0 /\ Sent(h)
  BY <1>3, <1>5 DEF Sent
<1>7. h \in Asked
  BY <1>2, <1>6 DEF HostsInv, AskedOnly, Sent
<1> DEFINE R == Replies(reg[h], cmd)
<1>8. net' = (net \ {m}) \cup
               { [to |-> 0, call |-> call, pkt |-> r, from |-> h] : r \in R }
  BY <1>3, <1>4, <1>6
<1>9. reg' = [reg EXCEPT ![h] = Handled(reg[h], cmd)] /\ reg \in [Host -> Seq(Entry)]
  BY <1>3, <1>4, <1>6 DEF TypeInv, TypeOK
<1>10. reg[h] \in Seq(Entry) /\ UniqueKeys(reg[h])
  BY <1>9 DEF TypeInv, Answers
<1>11. /\ reg'[h] = Handled(reg[h], cmd)
       /\ \A g \in Host : g # h => reg'[g] = reg[g]
  BY <1>9
<1> HIDE DEF R
<1>12. \A g \in Host : Sent(g)' <=> Sent(g) /\ g # h
  <2> TAKE g \in Host
  <2> DEFINE k == [to |-> g, call |-> call, pkt |-> cmd]
  <2>1. k.to = g /\ g # 0
    BY CClientAssumption
  <2>2. k = m <=> g = h
    BY <1>5, <1>6, <2>1
  <2>3. k \in net' <=> k \in net /\ k # m
    BY <1>8, <2>1
  <2> QED
    BY <1>1, <2>2, <2>3 DEF Sent
<1>13. \A k \in net : k.to = 0 => k \in net'
  BY <1>6, <1>8
<1>14. \A k \in net' : k \in net \/ (k.to = 0 /\ k.from = h /\ k.pkt \in R)
  BY <1>8
<1>15. \A r \in R : \E k \in net' : k.to = 0 /\ k.pkt = r
  <2> TAKE r \in R
  <2> DEFINE k == [to |-> 0, call |-> call, pkt |-> r, from |-> h]
  <2>1. k \in net' /\ k.to = 0 /\ k.pkt = r
    BY <1>8
  <2> QED
    BY <2>1
<1>16. Asked \subseteq Host
  BY DEF Asked
<1>17. AskedOnly'
  BY <1>2, <1>7, <1>14 DEF HostsInv, AskedOnly
<1>18. Registering'
  <2> SUFFICES ASSUME cmd.action = "register" PROVE Registering'
    BY <1>1 DEF Registering
  <2>1. R = {ResultPkt(TRUE)} /\ cmd.info \in ToSet(reg'[h])
    BY <1>4, <1>10, <1>11, RepliesProperties, HandledProperties DEF R
  <2>2. ResultPkt(TRUE).action = "succ"
    BY DEF ResultPkt
  <2>3. \A k \in net' : k.to = 0 => k.pkt.action = "succ"
    BY <1>2, <1>14, <2>1, <2>2 DEF HostsInv, Registering
  <2>4. ASSUME NEW g \in Asked
        PROVE  Sent(g)' \/ (/\ cmd.info \in ToSet(reg'[g])
                            /\ ret = 0 \/ \E k \in net' : k.to = 0)
    <3>1. CASE g = h
      BY <1>15, <2>1, <3>1
    <3>2. CASE g # h
      BY <1>2, <1>11, <1>12, <1>13, <1>16, <3>2 DEF HostsInv, Registering
    <3> QED
      BY <3>1, <3>2
  <2>5. (ret = 0 => Asked # {}) /\ (read_end[call] => ret = 0)
    BY <1>2 DEF HostsInv, Registering
  <2> QED
    BY <1>1, <1>2, <2>3, <2>4, <2>5 DEF Registering
<1>19. Unregistering'
  <2> SUFFICES ASSUME cmd.action = "unregister" PROVE Unregistering'
    BY <1>1 DEF Unregistering
  <2>1. R = {ResultPkt(Holds(h))}
    BY <1>4, <1>10, RepliesProperties DEF R, Holds
  <2>2. ~Holds(h)'
    BY <1>1, <1>4, <1>10, <1>11, HandledProperties DEF Holds
  <2>3. \A g \in Host : g # h => Holds(g)' = Holds(g)
    BY <1>1, <1>11 DEF Holds
  <2>4. ResultPkt(Holds(h)).action = "succ" <=> Holds(h)
    BY DEF ResultPkt
  <2>5. Holds(h) <=> h \in before
    BY <1>2, <1>6 DEF HostsInv, Unregistering
  <2>6. \A g \in Host : g \notin Asked \/ Sent(g)' => (Holds(g)' <=> g \in before)
    BY <1>2, <1>7, <1>12, <2>3 DEF HostsInv, Unregistering
  <2>7. ASSUME NEW g \in Asked
        PROVE  Sent(g)' \/ (/\ ~Holds(g)'
                            /\ g \in before =>
                                 ret = 0 \/ \E k \in net' : k.to = 0 /\ k.pkt.action = "succ")
    <3>1. CASE g = h
      BY <1>15, <2>1, <2>2, <2>4, <2>5, <3>1
    <3>2. CASE g # h
      BY <1>2, <1>12, <1>13, <1>16, <2>3, <3>2 DEF HostsInv, Unregistering
    <3> QED
      BY <3>1, <3>2
  <2>8. \A k \in net' : k.to = 0 /\ k.pkt.action = "succ" => k.from \in before
    BY <1>2, <1>14, <2>1, <2>4, <2>5 DEF HostsInv, Unregistering
  <2>9. ret = 0 => Asked \cap before # {}
    BY <1>2 DEF HostsInv, Unregistering
  <2> QED
    BY <1>1, <1>2, <2>6, <2>7, <2>8, <2>9 DEF Unregistering
<1>20. Inquiring'
  <2> SUFFICES ASSUME cmd.action = "inquiry" PROVE Inquiring'
    BY <1>1 DEF Inquiring
  <2> DEFINE P(g) == Prefix(reg[g], cmd.service_name)
  <2>1. \A g \in Host : reg'[g] = reg[g]
    BY <1>4, <1>10, <1>11, HandledProperties
  <2>2. /\ \A e \in P(h) : InquiryResultPkt(e) \in R
        /\ \A r \in R : r.action = "succ" => r.info \in P(h)
    BY <1>4, <1>10, RepliesProperties DEF R
  <2>3. \A g \in Host : P(g)' = P(g)
    BY <1>1, <2>1
  <2>4. ASSUME NEW g \in Asked, NEW e \in P(g)
        PROVE  \/ Sent(g)'
               \/ \E k \in net' : k.to = 0 /\ k.pkt = InquiryResultPkt(e)
               \/ \E f \in ToSet(found) : SameKey(e, f)
    <3>1. CASE g = h
      <4>1. InquiryResultPkt(e) \in R
        BY <2>2, <3>1
      <4> QED
        BY <1>15, <4>1
    <3>2. CASE g # h
      <4>1. \/ Sent(g)
            \/ \E k \in net : k.to = 0 /\ k.pkt = InquiryResultPkt(e)
            \/ \E f \in ToSet(found) : SameKey(e, f)
        BY <1>2, <2>4 DEF HostsInv, Inquiring
      <4> QED
        BY <1>12, <1>13, <1>16, <3>2, <4>1
    <3> QED
      BY <3>1, <3>2
  <2>5. ASSUME NEW k \in net', k.to = 0, k.pkt.action = "succ"
        PROVE  k.from \in Host /\ k.pkt.info \in P(k.from)
    <3>1. CASE k \in net
      <4>1. k.from \in Asked
        BY <1>2, <2>5, <3>1 DEF HostsInv, AskedOnly
      <4>2. k.pkt.info \in P(k.from)
        BY <1>2, <2>5, <3>1 DEF HostsInv, Inquiring
      <4> QED
        BY <1>16, <4>1, <4>2
    <3>2. CASE k \notin net
      BY <1>14, <2>2, <2>5, <3>2
    <3> QED
      BY <3>1, <3>2
  <2>6. \A e \in ToSet(found) : \E g \in Asked : e \in P(g)
    BY <1>2 DEF HostsInv, Inquiring
  <2>7. \A g \in Host : Prefix(reg[g], cmd.service_name)' = P(g)
    BY <2>3
  <2> HIDE DEF P
  <2> QED
    BY <1>1, <1>2, <1>16, <2>4, <2>5, <2>6, <2>7 DEF Inquiring
<1> QED
  BY <1>17, <1>18, <1>19, <1>20 DEF HostsInv

(* A reply is read: what it says is known now, and it is gone.             *)
LEMMA ReadHosts ==
  ASSUME IndInv, TypeInv, SocketsInv, QuickInv, HostsInv, ReadReply
  PROVE  HostsInv'
<1> SUFFICES ASSUME Underway' PROVE HostsInv'
  BY DEF HostsInv, AskedOnly, Registering, Unregistering, Inquiring
<1>1. PICK m \in net : m.to = 0 /\ m.call = call /\ net' = net \ {m} /\ Check(m.pkt)
  BY DEF ReadReply
<1>2. /\ UNCHANGED <<timing, lossy, main, cmd, call, before, asked, reg>>
      /\ main = "reading"
  BY DEF ReadReply, environment, threadVars
<1>3. Underway /\ Asked' = Asked /\ Asked \subseteq Host
  BY <1>2 DEF Underway, Asked
<1>4. \A h \in Host : Sent(h)' <=> Sent(h)
  <2> TAKE h \in Host
  <2> DEFINE k == [to |-> h, call |-> call, pkt |-> cmd]
  <2>1. k.to # 0
    BY CClientAssumption
  <2>2. k \in net' <=> k \in net
    BY <1>1, <2>1
  <2> QED
    BY <1>2, <2>2 DEF Sent
<1>5. AskedOnly' /\ m.from \in Asked
  BY <1>1, <1>3 DEF HostsInv, AskedOnly
<1>6. Registering'
  <2> SUFFICES ASSUME cmd.action = "register" PROVE Registering'
    BY <1>2 DEF Registering
  <2>1. ret' = 0
    BY <1>1, <1>3 DEF HostsInv, Registering, Check, CheckResult
  <2> QED
    BY <1>1, <1>2, <1>3, <1>4, <1>5, <2>1 DEF HostsInv, Registering
<1>7. Unregistering'
  <2> SUFFICES ASSUME cmd.action = "unregister" PROVE Unregistering'
    BY <1>2 DEF Unregistering
  <2>1. ret' = IF m.pkt.action = "succ" THEN 0 ELSE ret
    BY <1>1 DEF Check, CheckResult
  <2>2. \A h : Holds(h)' = Holds(h)
    BY <1>2 DEF Holds
  <2>3. m.pkt.action = "succ" => m.from \in before
    BY <1>1, <1>3 DEF HostsInv, Unregistering
  <2>4. \A h \in Host : h \notin Asked \/ Sent(h)' => (Holds(h)' <=> h \in before)
    BY <1>3, <1>4, <2>2 DEF HostsInv, Unregistering
  <2>5. ASSUME NEW h \in Asked
        PROVE  Sent(h)' \/ (/\ ~Holds(h)'
                            /\ h \in before =>
                                 ret' = 0 \/ \E k \in net' : k.to = 0 /\ k.pkt.action = "succ")
    BY <1>1, <1>3, <1>4, <2>1, <2>2 DEF HostsInv, Unregistering
  <2>6. \A k \in net' : k.to = 0 /\ k.pkt.action = "succ" => k.from \in before
    BY <1>1, <1>3 DEF HostsInv, Unregistering
  <2>7. ret' = 0 => Asked \cap before # {}
    BY <1>3, <1>5, <2>1, <2>3 DEF HostsInv, Unregistering
  <2> QED
    BY <1>2, <1>3, <2>4, <2>5, <2>6, <2>7 DEF Unregistering
<1>8. Inquiring'
  <2> SUFFICES ASSUME cmd.action = "inquiry" PROVE Inquiring'
    BY <1>2 DEF Inquiring
  <2> DEFINE P(g) == Prefix(reg[g], cmd.service_name)
  <2>0. \A g \in Host : Prefix(reg[g], cmd.service_name)' = P(g)
    BY <1>2
  <2>1. \A k \in net' : k.to = 0 /\ k.pkt.action = "succ" => k.pkt.info \in P(k.from)
    BY <1>1, <1>3 DEF HostsInv, Inquiring
  <2>2. \A k \in net' : k.to = 0 => k.from \in Host
    BY <1>1, <1>3 DEF HostsInv, AskedOnly
  <2>3. found \in Seq(Entry) /\ UniqueKeys(found)
    BY DEF TypeInv, TypeOK, Answers
  <2>4. \A g \in Asked : \A e \in P(g) :
          \/ Sent(g)
          \/ \E k \in net : k.to = 0 /\ k.pkt = InquiryResultPkt(e)
          \/ \E f \in ToSet(found) : SameKey(e, f)
    BY <1>3 DEF HostsInv, Inquiring
  <2>5. \A e \in ToSet(found) : \E g \in Asked : e \in P(g)
    BY <1>3 DEF HostsInv, Inquiring
  <2>6. m.pkt.action = "succ" => m.pkt.info \in Entry /\ m.pkt.info \in P(m.from)
    <3>1. m.pkt.action = "succ" => m.pkt.info \in Entry
      BY <1>1, <1>2 DEF TypeInv, Answers
    <3>2. m.pkt.action = "succ" => m.pkt.info \in P(m.from)
      BY <1>1, <1>3 DEF HostsInv, Inquiring
    <3> QED
      BY <3>1, <3>2
  <2>7. \A e : InquiryResultPkt(e).action = "succ" /\ InquiryResultPkt(e).info = e
    BY DEF InquiryResultPkt
  <2> HIDE DEF P
  <2>8. /\ \A g \in Asked : \A e \in P(g) :
             \/ Sent(g)
             \/ \E k \in net' : k.to = 0 /\ k.pkt = InquiryResultPkt(e)
             \/ \E f \in ToSet(found') : SameKey(e, f)
        /\ \A e \in ToSet(found') : \E g \in Asked : e \in P(g)
    <3>1. CASE m.pkt.action = "succ"
      <4> DEFINE new == m.pkt.info
      <4>1. found' = ListAdd(found, new)
        BY <1>1, <3>1 DEF Check, CheckServices
      <4>2. ToSet(found') = { f \in ToSet(found) : ~SameKey(f, new) } \cup {new}
        BY <2>3, <2>6, <3>1, <4>1, ListAddProperties
      <4>3. ASSUME NEW g \in Asked, NEW e \in P(g), ~Sent(g),
                   ~\E k \in net' : k.to = 0 /\ k.pkt = InquiryResultPkt(e)
            PROVE  \E f \in ToSet(found') : SameKey(e, f)
        <5>1. CASE m.pkt = InquiryResultPkt(e)
          <6>1. new = e /\ SameKey(e, e)
            BY <2>7, <5>1 DEF SameKey, HasKey
          <6> QED
            BY <4>2, <6>1
        <5>2. CASE m.pkt # InquiryResultPkt(e)
          <6>1. PICK f \in ToSet(found) : SameKey(e, f)
            BY <1>1, <2>4, <4>3, <5>2
          <6>2. SameKey(f, new) => SameKey(e, new)
            BY <6>1 DEF SameKey, HasKey
          <6> QED
            BY <4>2, <6>1, <6>2
        <5> QED
          BY <5>1, <5>2
      <4>4. \A e \in ToSet(found') : \E g \in Asked : e \in P(g)
        BY <1>5, <2>5, <2>6, <3>1, <4>2
      <4> QED
        BY <4>3, <4>4
    <3>2. CASE m.pkt.action # "succ"
      <4>1. found' = found
        BY <1>1, <3>2 DEF Check, CheckServices
      <4>2. \A e : m.pkt # InquiryResultPkt(e)
        BY <2>7, <3>2
      <4>3. \A e : (\E k \in net : k.to = 0 /\ k.pkt = InquiryResultPkt(e)) =>
                    \E k \in net' : k.to = 0 /\ k.pkt = InquiryResultPkt(e)
        BY <1>1, <4>2
      <4> QED
        BY <2>4, <2>5, <4>1, <4>3
    <3> QED
      BY <3>1, <3>2
  <2> QED
    BY <1>2, <1>3, <1>4, <2>0, <2>1, <2>2, <2>8 DEF Inquiring
<1> QED
  BY <1>5, <1>6, <1>7, <1>8 DEF HostsInv

(* No step breaks it.                                                      *)
LEMMA StepHostsInv ==
  IndInv /\ TypeInv /\ SocketsInv /\ QuickInv /\ HostsInv /\ [Next]_vars => HostsInv'
<1> SUFFICES ASSUME IndInv, TypeInv, SocketsInv, QuickInv, HostsInv, [Next]_vars
             PROVE  HostsInv'
  OBVIOUS
<1>0. ~Underway' => HostsInv'
  BY DEF HostsInv, AskedOnly, Registering, Unregistering, Inquiring
<1>1. CASE ReadTimeout
  <2>1. /\ main = "reading" /\ main' = "freeing"
        /\ UNCHANGED <<timing, lossy, net, asked, cmd, call, reg, ret, found, before,
                       read_end>>
    BY <1>1 DEF ReadTimeout, environment, callVars, clientVars, threadVars
  <2> QED
    BY <2>1, SameHosts DEF Underway, Asked
<1>2. CASE NoClient
  BY <1>0, <1>2 DEF NoClient, EndCall, Underway
<1>3. CASE FreePkt
  <2>1. CASE main' = "idle"
    BY <1>0, <2>1 DEF Underway
  <2>2. CASE main' # "idle"
    <3>1. /\ main = "freeing"
          /\ UNCHANGED <<timing, lossy, net, asked, cmd, call, reg, ret, found, before,
                         read_end>>
      BY <1>3, <2>2 DEF FreePkt, EndCall, environment, callVars
    <3> QED
      BY <3>1, SameHosts DEF Underway, Asked
  <2> QED
    BY <2>1, <2>2
<1>4. CASE Deinit
  BY <1>0, <1>4 DEF Deinit, EndCall, Underway
<1>5. CASE Lose
  BY <1>0, <1>5 DEF Lose, Underway, environment
<1>6. CASE Over \/ UNCHANGED vars
  BY <1>6, SameHosts DEF Over, vars, environment, mainVars, callVars, clientVars,
     threadVars, Underway, Asked
<1>7. /\ \A e \in Entry : RegisterPkt(e) \in Request
      /\ \A d \in Device, s \in Service : UnregisterPkt(d, s) \in Request
      /\ \A s \in Service : InquiryPkt(s) \in Request
  BY DEF Request
<1> QED
  BY <1>1, <1>2, <1>3, <1>4, <1>5, <1>6, <1>7, StartHosts, ReadHosts, ThreadHosts,
     DaemonHosts DEF Next, RegisterService, UnregisterService, InquiryService

-----------------------------------------------------------------------------
ClientInv == IndInv /\ TypeInv /\ SocketsInv /\ QuickInv /\ HostsInv

(* It holds in every behaviour.                                            *)
LEMMA ClientInvariance == Spec => []ClientInv
<1>1. Init => ClientInv
  BY InitIndInv, InitTypeInv, InitSocketsInv, InitQuickInv, InitHostsInv DEF ClientInv
<1>2. ClientInv /\ [Next]_vars => ClientInv'
  BY StepIndInv, StepTypeInv, StepSocketsInv, StepQuickInv, StepHostsInv DEF ClientInv
<1> QED
  BY <1>1, <1>2, PTL DEF Spec

(* When a call returns after a quick scan, nothing is on its way any more, *)
(* and the scan has reached the last address or been stopped by a reply.   *)
LEMMA AtReturn ==
  ASSUME ClientInv, Next, Returns, main # "failing"
  PROVE  /\ main \in {"freeing", "closing"}
         /\ timing = "quick" => /\ net = {}
                                /\ finish[call] \/ read_end[call]
                                /\ asked = {LocalNet(ifaddrs)} \X Reached
<1>1. main \in {"freeing", "closing"}
  <2>1. main # "reading"
    <3> SUFFICES ASSUME main = "reading" PROVE FALSE
      OBVIOUS
    <3>1. main' = "idle"
      BY DEF Returns
    <3>2. UNCHANGED main \/ ReadTimeout
      BY DEF Next, RegisterService, UnregisterService, InquiryService, StartCall,
         NoClient, ReadReply, FreePkt, Deinit, Thread, ThreadReset, ThreadCheck,
         ThreadWrite, Fault, DaemonHandle, Lose, Over, vars, mainVars
    <3> QED
      BY <3>1, <3>2 DEF ReadTimeout
  <2> QED
    BY <2>1 DEF Returns, ClientInv, TypeInv, TypeOK
<1>2. ASSUME timing = "quick"
      PROVE  /\ net = {}
             /\ finish[call] \/ read_end[call]
             /\ asked = {LocalNet(ifaddrs)} \X Reached
  <2>1. net = {}
    BY <1>1, <1>2 DEF ClientInv, QuickInv
  <2>2. call \in 1..call
    BY <1>1, CClientAssumption DEF ClientInv, TypeInv, TypeOK, Answers
  <2>3. thread[call] = "done"
    BY <1>1, <1>2, <2>2 DEF ClientInv, IndInv, ThreadOutlasted, SocketsInv
  <2> QED
    BY <1>1, <1>2, <2>1, <2>3 DEF ClientInv, QuickInv
<1> QED
  BY <1>1, <1>2

(* What register_service and unregister_service of server.c return is      *)
(* true, if no datagram is lost and the scan takes less than a read        *)
(* timeout; and what makes a call fail are the sockets left open.          *)
THEOREM ResultsAreTrue == Spec => ResultTellsTruth
<1> DEFINE Failure == Cardinality(kept \ {call}) >= sockets /\ ret = -1
           Success == ret = 0 <=> main # "failing" /\ Host # {} /\ LanFirst(ifaddrs)
           Held == \A h \in Asked : cmd.info \in ToSet(reg[h])
           Known == ret = 0 <=> Asked \cap before # {}
           Gone == \A h \in Asked : ~Registered(reg[h], cmd.device_name, cmd.service_name)
<1>1. ASSUME ClientInv, Next, Returns
      PROVE  /\ main = "failing" => Failure
             /\ timing = "quick" /\ ~lossy =>
                  /\ cmd.action = "register" => Success /\ Held
                  /\ cmd.action = "unregister" => Known /\ Gone
  <2>1. CASE main = "failing"
    <3>1. Failure /\ asked = {} /\ ret = -1
      BY <1>1, <2>1 DEF ClientInv, SocketsInv
    <3>2. Asked = {}
      BY <3>1 DEF Asked
    <3> QED
      BY <2>1, <3>1, <3>2
  <2>2. CASE main # "failing"
    <3> SUFFICES ASSUME timing = "quick", ~lossy
                 PROVE  /\ cmd.action = "register" => Success /\ Held
                        /\ cmd.action = "unregister" => Known /\ Gone
      BY <2>2
    <3>1. /\ Underway /\ net = {}
          /\ finish[call] \/ read_end[call]
          /\ asked = {LocalNet(ifaddrs)} \X Reached
      BY <1>1, <2>2, AtReturn DEF Underway
    <3>2. \A h : ~Sent(h)
      BY <3>1 DEF Sent
    <3>3. LocalNet(ifaddrs) = "lan" <=> LanFirst(ifaddrs)
      BY <1>1, LocalNetProperties DEF ClientInv, TypeInv, TypeOK
    <3>4. ASSUME cmd.action = "register" PROVE Success /\ Held
      <4>0. /\ \A h \in Asked : Sent(h) \/ (/\ cmd.info \in ToSet(reg[h])
                                            /\ ret = 0 \/ \E m \in net : m.to = 0)
            /\ ret = 0 => Asked # {}
            /\ read_end[call] => ret = 0
        BY <1>1, <3>1, <3>4 DEF ClientInv, HostsInv, Registering
      <4>1. \A h \in Asked : cmd.info \in ToSet(reg[h]) /\ ret = 0
        BY <3>1, <3>2, <4>0
      <4>2. Asked # {} => Host # {} /\ LocalNet(ifaddrs) = "lan"
        BY <3>1 DEF Asked
      <4>3. finish[call] /\ LocalNet(ifaddrs) = "lan" => Asked = Host
        BY <3>1, CClientAssumption DEF Asked, Reached
      <4> QED
        BY <2>2, <3>1, <3>3, <4>0, <4>1, <4>2, <4>3
    <3>5. ASSUME cmd.action = "unregister" PROVE Known /\ Gone
      <4>1. /\ \A h \in Asked :
                 Sent(h) \/ (/\ ~Holds(h)
                             /\ h \in before =>
                                  ret = 0 \/ \E m \in net : m.to = 0 /\ m.pkt.action = "succ")
            /\ ret = 0 => Asked \cap before # {}
        BY <1>1, <3>1, <3>5 DEF ClientInv, HostsInv, Unregistering
      <4>2. \A h \in Asked : ~Holds(h) /\ (h \in before => ret = 0)
        BY <3>1, <3>2, <4>1
      <4> QED
        BY <4>1, <4>2 DEF Holds
    <3> QED
      BY <3>4, <3>5
  <2> QED
    BY <2>1, <2>2
<1>2. ClientInv /\ [Next]_vars =>
        [Returns =>
           /\ main = "failing" => Failure
           /\ timing = "quick" /\ ~lossy =>
                /\ cmd.action = "register" => Success /\ Held
                /\ cmd.action = "unregister" => Known /\ Gone]_vars
  BY <1>1
<1> QED
  BY <1>2, ClientInvariance, PTL DEF Spec, ResultTellsTruth

(* inquiry_service of client.c returns what the daemons it asked have at   *)
(* the head of their lists, if no datagram is lost and the scan takes less *)
(* than a read timeout.                                                    *)
THEOREM InquiriesFindAsked == Spec => InquiryFindsAsked
<1> DEFINE there == UNION { Prefix(reg[h], cmd.service_name) : h \in Asked }
           Right == /\ UniqueKeys(found)
                    /\ ToSet(found) \subseteq there
                    /\ \A e \in there : \E f \in ToSet(found) : SameKey(e, f)
<1>1. ASSUME ClientInv, Next, Returns, cmd.action = "inquiry", timing = "quick", ~lossy
      PROVE  Right
  <2>1. UniqueKeys(found)
    BY <1>1 DEF ClientInv, TypeInv, Answers
  <2>2. CASE main = "failing"
    <3>1. asked = {} /\ found = <<>>
      BY <1>1, <2>2 DEF ClientInv, SocketsInv
    <3>2. Asked = {} /\ ToSet(found) = {}
      BY <3>1 DEF Asked, ToSet
    <3> QED
      BY <2>1, <3>2
  <2>3. CASE main # "failing"
    <3>1. Underway /\ net = {}
      BY <1>1, <2>3, AtReturn DEF Underway
    <3>2. \A h : ~Sent(h)
      BY <3>1 DEF Sent
    <3>3. /\ \A h \in Asked : \A e \in Prefix(reg[h], cmd.service_name) :
               \E f \in ToSet(found) : SameKey(e, f)
          /\ \A e \in ToSet(found) : \E h \in Asked : e \in Prefix(reg[h], cmd.service_name)
      BY <1>1, <3>1, <3>2 DEF ClientInv, HostsInv, Inquiring
    <3> QED
      BY <2>1, <3>3
  <2> QED
    BY <2>2, <2>3
<1>2. ClientInv /\ [Next]_vars =>
        [Returns /\ cmd.action = "inquiry" /\ timing = "quick" /\ ~lossy => Right]_vars
  BY <1>1
<1> QED
  BY <1>2, ClientInvariance, PTL DEF Spec, InquiryFindsAsked
=============================================================================
