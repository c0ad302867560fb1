------------------------------ MODULE JavaClient ------------------------------
(***************************************************************************)
(* The Android client: InquiryClient.java over UDPClient.java, driven by   *)
(* ClientActivity, which starts a thread that calls runSearch("play_music")*)
(* for every click on its button.  A search starts a second thread that    *)
(* scans the network.  Both use the field dataPacket of UDPClient: each    *)
(* assigns it and then reads it back, so either can end up with the packet *)
(* of the other.                                                           *)
(*                                                                         *)
(* A thread that throws an unchecked exception takes the process down.     *)
(*                                                                         *)
(* RegisterClient.java, driven by ServerActivity in the same way, is the   *)
(* same but for the list of services; both are modelled here, and words    *)
(* such as search mean its registrations, too.                             *)
(***************************************************************************)
EXTENDS ServiceList

CONSTANTS
  Click,      \* bound: the clicks on the button, numbered, a thread each
  LastSub,    \* bound: the last address of the longest scan
  Daemon      \* the address of the daemon

ASSUME JavaClientAssumption ==
  /\ LastSub \in Nat \ {0}
  /\ Daemon \in 1..LastSub
  /\ Click \subseteq Nat /\ NULL \notin Click
  /\ Entry # {}

VARIABLES
  client,    \* InquiryClient or RegisterClient
  apart,     \* no click comes between the test and the set of another
  lastSub,   \* the last address of the scan, 254 in the code
  pc,        \* where each click's thread is in runSearch
  runSearchFinish, recEnd,               \* fields of the client
  inquirySucc, \* its field inquirySucc, or succ
  list,      \* its infoList
  torn,      \* the links of the infoList may be broken
  info,      \* the service that each click's thread adds to it, or NULL
  sendData,  \* its field sendData: whose request it is, or NULL
  thread,    \* its field thread: the scan made last, or NULL
  buffer,    \* the reply in each click's receive buffer, or NULL
  scan,      \* where each click's scanning thread is
  data,      \* the request each scan sends, or NULL
  finish,    \* of each scan: the last address has been prepared
  subIP, subAddr, dataPacket,            \* fields of UDPClient
  overwritten, \* the searches whose sendData holds a received reply
  into,      \* the packet each click receives into, or NULL
  awaited,   \* the scan each click's thread joins, or NULL
  held,      \* what the daemon holds under the name
  requests,  \* how many requests are in flight to the daemon
  replies,   \* the replies in flight or in the socket
  crashed    \* the process has died

listVars == <<list, torn, info>>
mainVars == <<pc, runSearchFinish, inquirySucc, listVars, sendData, thread,
              buffer, into, awaited>>
scanVars == <<scan, data, finish, subIP, subAddr>>
packetVars == <<dataPacket, overwritten>>
netVars == <<requests, replies, held>>
environment == <<client, apart, lastSub>>
vars == <<mainVars, recEnd, scanVars, packetVars, netVars, environment,
          crashed>>

(* A packet: made by a receive, then with no address until a datagram has  *)
(* been received into it, or by a send.                                    *)
Packet == [kind : {"receive", "send"}, by : Click, address : 0..LastSub]

NoAddress == 0

(* The service that RegisterClient registers.                              *)
RegInfo == CHOOSE e \in Entry : TRUE

(* As a bound, clicks that may overlap are those of the inquiry (the       *)
(* threads of a registration are the same), scan up to the daemon's        *)
(* address and search for one service; and a daemon with one service has   *)
(* RegInfo.                                                                *)
Init ==
  /\ client \in {"inquiry", "register"}
  /\ apart \in BOOLEAN
  /\ lastSub \in Daemon..LastSub
  /\ pc = [c \in Click |-> "off"]
  /\ runSearchFinish = TRUE /\ inquirySucc = FALSE /\ recEnd = FALSE
  /\ list = <<>> /\ torn = FALSE /\ info = [c \in Click |-> NULL]
  /\ sendData = NULL /\ thread = NULL
  /\ buffer = [c \in Click |-> NULL]
  /\ scan = [c \in Click |-> "off"] /\ data = [c \in Click |-> NULL]
  /\ finish = [c \in Click |-> FALSE]
  /\ subIP = 0 /\ subAddr = NoAddress
  /\ dataPacket = NULL
  /\ overwritten = {}
  /\ into = [c \in Click |-> NULL] /\ awaited = [c \in Click |-> NULL]
  /\ held \in {{}, {RegInfo}} \cup { l \in SUBSET Entry :
                 Cardinality(l) = 2 /\ \A e, f \in l : SameKey(e, f) => e = f }
  /\ client = "register" => held = {}
  /\ ~apart => lastSub = Daemon /\ client = "inquiry" /\ held = {RegInfo}
  /\ requests = 0
  /\ replies = {}
  /\ crashed = FALSE

At(c, here) == ~crashed /\ pc[c] = here

Goto(c, there) == pc' = [pc EXCEPT ![c] = there]

Crash ==
  /\ crashed' = TRUE
  /\ UNCHANGED <<mainVars, recEnd, scanVars, packetVars, netVars,
                 environment>>

-----------------------------------------------------------------------------
(* ButtonClick; the test of runSearchFinish.  The threads are alike, so    *)
(* they may be numbered in the order in which they get here.               *)
Test(c) ==
  /\ At(c, "off")
  /\ \A d \in Click : d < c => pc[d] # "off"
  /\ apart => \A d \in Click : pc[d] # "set"
  /\ Goto(c, IF runSearchFinish THEN "set" ELSE "done")
  /\ UNCHANGED <<runSearchFinish, inquirySucc, listVars, sendData, thread,
                 buffer, into, awaited, recEnd, scanVars, packetVars, netVars,
                 environment, crashed>>

Set(c) ==
  /\ At(c, "set")
  /\ runSearchFinish' = FALSE
  /\ Goto(c, IF client = "inquiry" THEN "clear" ELSE "start")
  /\ UNCHANGED <<inquirySucc, listVars, sendData, thread, buffer, into,
                 awaited, recEnd, scanVars, packetVars, netVars, environment,
                 crashed>>

(* The methods of the infoList take no lock.  A thread that changes the    *)
(* list while another does leaves any of its services in it, with links    *)
(* that may harm whoever uses it later, or throws.                         *)
InList(c) == pc[c] \in {"clear", "remove", "add"}

Disturbed(c) == torn \/ \E d \in Click \ {c} : InList(d)

Change(c, l) ==
  \/ list' = l /\ UNCHANGED torn
  \/ Disturbed(c) /\ list' \in SeqOf(ToSet(l), Len(l)) /\ torn' = TRUE

(* infoList.clear(), which removes from the list it iterates over: with    *)
(* two services the iteration ends after one, or throws, as the library's  *)
(* LinkedList is made; with three it throws.                               *)
Clear(c) ==
  /\ At(c, "clear")
  /\ \/ /\ Len(list) <= 2
        /\ Change(c, IF Len(list) = 2 THEN Tail(list) ELSE <<>>)
        /\ Goto(c, "start")
        /\ UNCHANGED <<runSearchFinish, inquirySucc, info, sendData, thread,
                       buffer, into, awaited, recEnd, scanVars, packetVars,
                       netVars, environment, crashed>>
     \/ (Len(list) >= 2 \/ Disturbed(c)) /\ Crash

(* sendData = protocal.getInquiryPkt(serviceName).                         *)
SetData(c) ==
  /\ At(c, "start")
  /\ sendData' = c
  /\ Goto(c, "make")
  /\ UNCHANGED <<runSearchFinish, inquirySucc, listVars, thread, buffer, into,
                 awaited, recEnd, scanVars, packetVars, netVars, environment,
                 crashed>>

(* thread = new Thread(r).                                                 *)
MakeThread(c) ==
  /\ At(c, "make")
  /\ thread' = c
  /\ scan' = [scan EXCEPT ![c] = "made"]
  /\ Goto(c, "run")
  /\ UNCHANGED <<runSearchFinish, inquirySucc, listVars, sendData, buffer,
                 into, awaited, recEnd, data, finish, subIP, subAddr,
                 packetVars, netVars, environment, crashed>>

(* thread.start(), on the thread made last.  One that has been started     *)
(* before throws.                                                          *)
StartThread(c) ==
  /\ At(c, "run")
  /\ IF scan[thread] # "made" THEN Crash ELSE
       /\ scan' = [scan EXCEPT ![thread] = "reset"]
       /\ Goto(c, "lower")
       /\ UNCHANGED <<runSearchFinish, inquirySucc, listVars, sendData,
                      thread, buffer, into, awaited, recEnd, data, finish,
                      subIP, subAddr, packetVars, netVars, environment,
                      crashed>>

(* recEnd = false, after the thread has been started.                      *)
Lower(c) ==
  /\ At(c, "lower")
  /\ recEnd' = FALSE
  /\ Goto(c, "assign")
  /\ UNCHANGED <<runSearchFinish, inquirySucc, listVars, sendData, thread,
                 buffer, into, awaited, scanVars, packetVars, netVars,
                 environment, crashed>>

(* receive: dataPacket = new DatagramPacket(data, data.length).            *)
Assign(c) ==
  /\ At(c, "assign")
  /\ dataPacket' = [kind |-> "receive", by |-> c, address |-> NoAddress]
  /\ Goto(c, "receive")
  /\ UNCHANGED <<runSearchFinish, inquirySucc, listVars, sendData, thread,
                 buffer, into, awaited, recEnd, scanVars, overwritten,
                 netVars, environment, crashed>>

(* receive: datagramSocket.receive(dataPacket) is called, with whatever    *)
(* packet is there now.                                                    *)
Block(c) ==
  /\ At(c, "receive")
  /\ into' = [into EXCEPT ![c] = dataPacket]
  /\ Goto(c, "blocked")
  /\ UNCHANGED <<runSearchFinish, inquirySucc, listVars, sendData, thread,
                 buffer, awaited, recEnd, scanVars, packetVars, netVars,
                 environment, crashed>>

(* A reply is received into the packet, which may be one to be sent, and   *)
(* sets its address; recEnd = true follows.                                *)
ReceiveReply(c) ==
  /\ At(c, "blocked")
  /\ \E r \in replies :
       /\ replies' = replies \ {r}
       /\ IF into[c].kind = "receive"
            THEN /\ buffer' = [buffer EXCEPT ![into[c].by] = r]
                 /\ UNCHANGED overwritten
            ELSE /\ overwritten' = overwritten \cup {into[c].by}
                 /\ UNCHANGED buffer
  /\ dataPacket' = IF dataPacket = into[c]
                     THEN [dataPacket EXCEPT !.address = Daemon]
                     ELSE dataPacket
  /\ into' = [into EXCEPT ![c] = NULL]
  /\ recEnd' = TRUE
  /\ Goto(c, "decode")
  /\ UNCHANGED <<runSearchFinish, inquirySucc, listVars, sendData, thread,
                 awaited, scanVars, requests, held, environment, crashed>>

(* The switch over what is in the buffer, be it from this receive or an    *)
(* earlier one; a buffer never written decodes to no reply.  InquiryClient *)
(* adds the service of a success to its list; RegisterClient has no list.  *)
Decode(c) ==
  /\ At(c, "decode")
  /\ inquirySucc' = IF buffer[c] # NULL THEN buffer[c].action = "succ"
                                       ELSE inquirySucc
  /\ IF client = "inquiry" /\ buffer[c] # NULL /\ buffer[c].action = "succ"
       THEN info' = [info EXCEPT ![c] = buffer[c].info] /\ Goto(c, "remove")
       ELSE UNCHANGED info /\ Goto(c, "assign")
  /\ UNCHANGED <<runSearchFinish, list, torn, sendData, thread, buffer, into,
                 awaited, recEnd, scanVars, packetVars, netVars, environment,
                 crashed>>

(* Mutant of RemoveSame: the service stays.                                *)
RemoveSameNot(c) ==
  /\ At(c, "remove")
  /\ Goto(c, "add")
  /\ UNCHANGED <<runSearchFinish, inquirySucc, listVars, sendData, thread,
                 buffer, into, awaited, recEnd, scanVars, packetVars, netVars,
                 environment, crashed>>

(* infoList.add: remove(info.dev, info.name).                              *)
RemoveSame(c) ==
  /\ At(c, "remove")
  /\ \/ /\ Change(c, ListRemove(list, info[c].device_name,
                              info[c].service_name))
        /\ Goto(c, "add")
        /\ UNCHANGED <<runSearchFinish, inquirySucc, info, sendData, thread,
                       buffer, into, awaited, recEnd, scanVars, packetVars,
                       netVars, environment, crashed>>
     \/ Disturbed(c) /\ Crash

(* infoList.add: list.add(info).                                           *)
AddLast(c) ==
  /\ At(c, "add")
  /\ \/ /\ Change(c, Append(list, info[c]))
        /\ info' = [info EXCEPT ![c] = NULL]
        /\ Goto(c, "assign")
        /\ UNCHANGED <<runSearchFinish, inquirySucc, sendData, thread, buffer,
                       into, awaited, recEnd, scanVars, packetVars, netVars,
                       environment, crashed>>
     \/ Disturbed(c) /\ Crash

(* The receive times out; recEnd = true, and the loop is left, the buffer  *)
(* with it.                                                                *)
Timeout(c) ==
  /\ At(c, "blocked")
  /\ into' = [into EXCEPT ![c] = NULL]
  /\ buffer' = [buffer EXCEPT ![c] = NULL]
  /\ recEnd' = TRUE
  /\ Goto(c, "notice")
  /\ UNCHANGED <<runSearchFinish, inquirySucc, listVars, sendData, thread,
                 awaited, scanVars, packetVars, netVars, environment,
                 crashed>>

(* InquiryNotice is called, which after a success walks the list, and may  *)
(* throw if others are in it; then thread.join() is, on the scan started   *)
(* last.                                                                   *)
Notice(c) ==
  /\ At(c, "notice")
  /\ \/ /\ awaited' = [awaited EXCEPT ![c] = thread]
        /\ Goto(c, "join")
        /\ UNCHANGED <<runSearchFinish, inquirySucc, listVars, sendData,
                       thread, buffer, into, recEnd, scanVars, packetVars,
                       netVars, environment, crashed>>
     \/ client = "inquiry" /\ inquirySucc /\ Disturbed(c) /\ Crash

(* Mutant of Join: the scan is not waited for.                             *)
JoinNot(c) ==
  /\ At(c, "join")
  /\ awaited' = [awaited EXCEPT ![c] = NULL]
  /\ runSearchFinish' = TRUE
  /\ Goto(c, "done")
  /\ UNCHANGED <<inquirySucc, listVars, sendData, thread, buffer, into,
                 recEnd, scanVars, packetVars, netVars, environment, crashed>>

(* Mutant of Join: the flag is forgotten after a failure.                  *)
JoinOnSuccess(c) ==
  /\ At(c, "join")
  /\ scan[awaited[c]] \in {"made", "dead"}
  /\ awaited' = [awaited EXCEPT ![c] = NULL]
  /\ runSearchFinish' = inquirySucc
  /\ Goto(c, "done")
  /\ UNCHANGED <<inquirySucc, listVars, sendData, thread, buffer, into,
                 recEnd, scanVars, packetVars, netVars, environment, crashed>>

(* The join returns, and runSearchFinish = true.  One step: no other       *)
(* thread looks at what lies between.                                      *)
Join(c) ==
  /\ At(c, "join")
  /\ scan[awaited[c]] \in {"made", "dead"}
  /\ awaited' = [awaited EXCEPT ![c] = NULL]
  /\ runSearchFinish' = TRUE
  /\ Goto(c, "done")
  /\ UNCHANGED <<inquirySucc, listVars, sendData, thread, buffer, into,
                 recEnd, scanVars, packetVars, netVars, environment, crashed>>

-----------------------------------------------------------------------------
ScanAt(c, here) == ~crashed /\ scan[c] = here

ScanGoto(c, there) == scan' = [scan EXCEPT ![c] = there]

(* The thread reads sendData, and resetSubAddr.                            *)
ScanReset(c) ==
  /\ ScanAt(c, "reset")
  /\ data' = [data EXCEPT ![c] = sendData]
  /\ subIP' = 1
  /\ ScanGoto(c, "check")
  /\ UNCHANGED <<mainVars, recEnd, finish, subAddr, packetVars, netVars,
                 environment, crashed>>

(* A scan that ends takes its variables with it.                           *)
ScanCheck(c) ==
  /\ ScanAt(c, "check")
  /\ IF finish[c] \/ recEnd
       THEN /\ ScanGoto(c, "dead")
            /\ data' = [data EXCEPT ![c] = NULL]
            /\ finish' = [finish EXCEPT ![c] = FALSE]
       ELSE ScanGoto(c, "prepare") /\ UNCHANGED <<data, finish>>
  /\ UNCHANGED <<mainVars, recEnd, subIP, subAddr, packetVars, netVars,
                 environment, crashed>>

(* Mutant of ScanPrepare: the scan goes one address too far.               *)
ScanPreparePast(c) ==
  /\ ScanAt(c, "prepare")
  /\ subAddr' = subIP
  /\ IF subIP <= lastSub THEN subIP' = subIP + 1 /\ UNCHANGED finish
                         ELSE /\ finish' = [finish EXCEPT ![c] = TRUE]
                              /\ UNCHANGED subIP
  /\ ScanGoto(c, "assign")
  /\ UNCHANGED <<mainVars, recEnd, data, packetVars, netVars, environment,
                 crashed>>

(* prepareSubAddr.                                                         *)
ScanPrepare(c) ==
  /\ ScanAt(c, "prepare")
  /\ subAddr' = subIP
  /\ IF subIP < lastSub THEN subIP' = subIP + 1 /\ UNCHANGED finish
                        ELSE /\ finish' = [finish EXCEPT ![c] = TRUE]
                             /\ UNCHANGED subIP
  /\ ScanGoto(c, "assign")
  /\ UNCHANGED <<mainVars, recEnd, data, packetVars, netVars, environment,
                 crashed>>

(* send: dataPacket = new DatagramPacket(data, ..., subAddr, DEFAULT_PORT) *)
ScanAssign(c) ==
  /\ ScanAt(c, "assign")
  /\ dataPacket' = [kind |-> "send", by |-> data[c], address |-> subAddr]
  /\ ScanGoto(c, "send")
  /\ UNCHANGED <<mainVars, recEnd, data, finish, subIP, subAddr, overwritten,
                 netVars, environment, crashed>>

(* send: datagramSocket.send(dataPacket), with whatever packet is there    *)
(* now.  Without an address it throws.  A daemon ignores what is not a     *)
(* request.                                                                *)
ScanSend(c) ==
  /\ ScanAt(c, "send")
  /\ IF dataPacket.address = NoAddress THEN Crash ELSE
       /\ requests' = IF /\ dataPacket.kind = "send"
                         /\ dataPacket.by \notin overwritten
                         /\ dataPacket.address = Daemon
                        THEN requests + 1 ELSE requests
       /\ ScanGoto(c, "check")
       /\ UNCHANGED <<mainVars, recEnd, data, finish, subIP, subAddr,
                      packetVars, replies, held, environment, crashed>>

-----------------------------------------------------------------------------
(* A request that is lost is one that is never answered: nothing says that *)
(* it must be.  As a bound, the services of the name lead the daemon's     *)
(* list, so that it sends all of them.                                     *)
DaemonAnswers ==
  /\ ~crashed
  /\ requests > 0
  /\ requests' = requests - 1
  /\ \/ /\ client = "inquiry"
        /\ replies' = replies \cup IF held = {} THEN {ResultPkt(FALSE)}
                                   ELSE { InquiryResultPkt(e) : e \in held }
        /\ UNCHANGED held
     \/ /\ client = "register"
        /\ held' = {RegInfo}
        /\ replies' = replies \cup {ResultPkt(TRUE)}
  /\ UNCHANGED <<mainVars, recEnd, scanVars, packetVars, environment,
                 crashed>>

RunSearch(c) ==
  \/ Set(c) \/ Clear(c) \/ SetData(c) \/ MakeThread(c) \/ StartThread(c)
  \/ Lower(c) \/ Assign(c) \/ Block(c) \/ ReceiveReply(c) \/ Decode(c)
  \/ RemoveSame(c) \/ AddLast(c) \/ Timeout(c) \/ Notice(c) \/ Join(c)

Scan(c) ==
  \/ ScanReset(c) \/ ScanCheck(c) \/ ScanPrepare(c)
  \/ ScanAssign(c) \/ ScanSend(c)

(* The process has died, or there are no more clicks.                      *)
Over == (crashed \/ \A c \in Click : pc[c] = "done") /\ UNCHANGED vars

Next ==
  \/ \E c \in Click : Test(c) \/ RunSearch(c) \/ Scan(c)
  \/ DaemonAnswers \/ Over

Spec ==
  /\ Init /\ [][Next]_vars
  /\ \A c \in Click : WF_vars(RunSearch(c)) /\ WF_vars(Scan(c))

-----------------------------------------------------------------------------
(* The variables hold what their declarations say.                         *)
TypeOK ==
  /\ client \in {"inquiry", "register"}
  /\ apart \in BOOLEAN /\ lastSub \in Daemon..LastSub
  /\ pc \in [Click -> {"off", "set", "clear", "start", "make", "run", "lower",
                       "assign", "receive", "blocked", "decode", "remove",
                       "add", "notice", "join", "done"}]
  /\ runSearchFinish \in BOOLEAN /\ inquirySucc \in BOOLEAN
  /\ recEnd \in BOOLEAN
  /\ list \in Seq(Entry) /\ torn \in BOOLEAN
  /\ info \in [Click -> Entry \cup {NULL}]
  /\ sendData \in Click \cup {NULL} /\ thread \in Click \cup {NULL}
  /\ buffer \in [Click -> Reply \cup {NULL}]
  /\ scan \in [Click -> {"off", "made", "reset", "check", "prepare", "assign",
                         "send", "dead"}]
  /\ data \in [Click -> Click \cup {NULL}]
  /\ finish \in [Click -> BOOLEAN]
  /\ subIP \in 0..LastSub /\ subAddr \in 0..LastSub
  /\ dataPacket \in Packet \cup {NULL}
  /\ overwritten \subseteq Click
  /\ into \in [Click -> Packet \cup {NULL}]
  /\ awaited \in [Click -> Click \cup {NULL}]
  /\ held \subseteq Entry
  /\ requests \in Nat
  /\ replies \subseteq Reply
  /\ crashed \in BOOLEAN

Searching(c) == pc[c] \notin {"off", "set", "done"}

(* If clicks come apart, runSearchFinish and the join keep searches apart: *)
(* no two run at a time, and no scan outlives its search, so subIP, recEnd *)
(* and sendData belong to one search.                                      *)
OneSearchAtATime ==
  apart =>
    /\ \A c, d \in Click : Searching(c) /\ Searching(d) => c = d
    /\ \A c \in Click : scan[c] \notin {"off", "dead"} => Searching(c)

(* Whatever becomes of the packets, the list only ever holds services the  *)
(* daemon holds: a reply that went astray is dropped.  If clicks come      *)
(* apart, none of them is in it twice, though a reply is decoded again or  *)
(* the clear leaves one; threads that overlap in add() can each find       *)
(* nothing to remove.  And success is told only if the daemon holds a      *)
(* service, after a registration the registered one.                       *)
ListIsTrue ==
  /\ ToSet(list) \subseteq held
  /\ apart => UniqueKeys(list)
  /\ inquirySucc => held # {}

(* Searches come to an end and leave the button ready for the next, or    *)
(* the process dies: also if several run at a time, share every field and  *)
(* join each other's scan.                                                 *)
EverySearchEnds ==
  (\E c \in Click : Searching(c))
    ~> (crashed \/ ((\A c \in Click : ~Searching(c)) /\ runSearchFinish))
=============================================================================
