-------------------------- MODULE GoDiscoveryProofs --------------------------
(***************************************************************************)
(* A Go server never runs two scans at a time, and each of its calls puts  *)
(* one datagram into the world at most: for every number of calls and of   *)
(* addresses, whatever is lost or late.  Then the types, and that what its *)
(* calls return is so when replies are timely.                             *)
(***************************************************************************)
EXTENDS GoDiscovery, ServiceListProofs

(* The types the proof looks at.                                           *)
ControlOK ==
  /\ main \in {"idle", "started", "reading", "stopping", "joining", "deciding",
               "quit"}
  /\ quit \in {0, 1}
  /\ scan \in {"off", "reset", "check", "write", "signal"}
  /\ subIP \in 1..LastSub
  /\ call \in Nat

(* The datagram of a call, or the reply to it, is in one place: on its     *)
(* way, at the daemon or read by the server.                               *)
InOnePlace ==
  /\ \A m, n \in net : m.call = n.call => m = n
  /\ req # NULL => \A m \in net : m.call # serving
  /\ got # NULL => \A m \in net : m.call # got.call
  /\ req # NULL /\ got # NULL => got.call # serving

(* The call under way scans and has not reached the daemon's address.      *)
Unsent ==
  \/ scan = "reset"
  \/ scan \in {"check", "write"} /\ ~finish /\ subIP <= Daemon

(* Before it is sent, and before the call, the datagram is nowhere.        *)
NotBefore ==
  /\ \A m \in net : m.call \in 1..call /\ (Unsent => m.call # call)
  /\ req # NULL => serving \in 1..call /\ (Unsent => serving # call)
  /\ got # NULL => got.call \in 1..call /\ (Unsent => got.call # call)
  /\ scan # "off" => call > 0 /\ data.call = call
  /\ scan = "write" => ~finish

(* OneDatagramPerCall is not inductive: a datagram may be sent because the *)
(* scan has not been at the daemon's address, and that it is the scan of   *)
(* the call under way is ScanEndsWithItsCall.                              *)
IndInv ==
  /\ ControlOK
  /\ ScanEndsWithItsCall
  /\ InOnePlace
  /\ NotBefore

(* No call has begun.                                                      *)
LEMMA InitIndInv == Init => IndInv
<1> SUFFICES ASSUME Init PROVE IndInv
  OBVIOUS
<1>1. 1 \in 1..LastSub
  BY GoServerAssumption
<1>2. req = NULL
  BY DEF Init, D!Init
<1> QED
  BY <1>1, <1>2 DEF Init, ServerInit, IndInv, ControlOK, ScanEndsWithItsCall,
     InOnePlace, NotBefore, Unsent

(* What stays when nothing of the network and the daemon changes, and the  *)
(* server keeps what it has read.                                          *)
LEMMA SameWorld ==
  ASSUME InOnePlace, NotBefore, call \in Nat,
         UNCHANGED <<net, req, serving, got, call>>,
         Unsent' => Unsent,
         scan' # "off" => call > 0 /\ data'.call = call,
         scan' = "write" => ~finish'
  PROVE  InOnePlace' /\ NotBefore'
BY DEF InOnePlace, NotBefore

(* No step breaks it.                                                      *)
LEMMA StepIndInv == IndInv /\ [Next]_vars => IndInv'
<1> SUFFICES ASSUME IndInv, [Next]_vars PROVE IndInv'
  OBVIOUS
<1>0. /\ ControlOK /\ ScanEndsWithItsCall /\ InOnePlace /\ NotBefore
      /\ call \in Nat
      /\ LastSub \in Nat \ {0} /\ Daemon \in 1..LastSub
  BY GoServerAssumption DEF IndInv, ControlOK
<1>1. CASE StartCall /\ UNCHANGED <<daemonVars, serving>>
  <2>1. ControlOK' /\ ScanEndsWithItsCall'
    BY <1>0, <1>1 DEF StartCall, environment, ControlOK, ScanEndsWithItsCall
  <2>2. call' = call + 1 /\ data'.call = call'
    BY <1>1 DEF StartCall
  <2>3. InOnePlace'
    BY <1>0, <1>1 DEF StartCall, InOnePlace, daemonVars
  <2>4. NotBefore'
    BY <1>0, <1>1, <2>2 DEF StartCall, NotBefore, Unsent, daemonVars
  <2> QED
    BY <2>1, <2>3, <2>4 DEF IndInv
<1>2. CASE StartBroadcastCall /\ UNCHANGED <<daemonVars, serving>>
  <2>1. ControlOK' /\ ScanEndsWithItsCall'
    BY <1>0, <1>2 DEF StartBroadcastCall, environment, scanVars, ControlOK,
       ScanEndsWithItsCall
  <2>2. scan = "off" /\ ~Unsent'
    BY <1>0, <1>2 DEF StartBroadcastCall, scanVars, ScanEndsWithItsCall, Unsent
  <2>3. PICK d : d.call = call + 1 /\ net' = net \cup {d}
    BY <1>2 DEF StartBroadcastCall
  <2>4. InOnePlace'
    BY <1>0, <1>2, <2>3 DEF StartBroadcastCall, InOnePlace, NotBefore, daemonVars
  <2>5. NotBefore'
    BY <1>0, <1>2, <2>2, <2>3 DEF StartBroadcastCall, NotBefore, daemonVars, scanVars
  <2> QED
    BY <2>1, <2>4, <2>5 DEF IndInv
<1>3. CASE Quit /\ UNCHANGED <<daemonVars, serving>>
  BY <1>0, <1>3, SameWorld DEF Quit, environment, scanVars, daemonVars, ControlOK,
     ScanEndsWithItsCall, Unsent, IndInv, NotBefore
<1>4. CASE MainStep /\ UNCHANGED <<daemonVars, serving>>
  <2>1. CASE LowerRecEnd
    BY <1>0, <1>4, <2>1, SameWorld DEF LowerRecEnd, environment, scanVars,
       daemonVars, ControlOK, ScanEndsWithItsCall, Unsent, IndInv, NotBefore
  <2>2. CASE RaiseRecEnd
    BY <1>0, <1>4, <2>2, SameWorld DEF RaiseRecEnd, environment, scanVars,
       daemonVars, ControlOK, ScanEndsWithItsCall, Unsent, IndInv, NotBefore
  <2>3. CASE Join
    BY <1>0, <1>4, <2>3, SameWorld DEF Join, environment, scanVars,
       daemonVars, ControlOK, ScanEndsWithItsCall, Unsent, IndInv, NotBefore
  <2>4. CASE Return
    <3>1. got' = NULL /\ UNCHANGED <<net, req, serving, call, scanVars>>
      BY <1>4, <2>4 DEF Return, daemonVars
    <3>2. ControlOK' /\ ScanEndsWithItsCall'
      BY <1>0, <2>4 DEF Return, environment, scanVars, ControlOK,
         ScanEndsWithItsCall
    <3>3. InOnePlace' /\ NotBefore'
      BY <1>0, <3>1 DEF scanVars, InOnePlace, NotBefore, Unsent
    <3> QED
      BY <3>2, <3>3 DEF IndInv
  <2> QED
    BY <1>4, <2>1, <2>2, <2>3, <2>4 DEF MainStep
<1>5. CASE ReadReply /\ UNCHANGED <<daemonVars, serving>>
  <2>1. PICK m \in net : got' = m /\ net' = net \ {m}
    BY <1>5 DEF ReadReply
  <2>2. ControlOK' /\ ScanEndsWithItsCall'
    BY <1>0, <1>5 DEF ReadReply, AfterRead, environment, scanVars, ControlOK,
       ScanEndsWithItsCall
  <2>3. InOnePlace' /\ NotBefore'
    BY <1>0, <1>5, <2>1 DEF ReadReply, scanVars, daemonVars, InOnePlace, NotBefore,
       Unsent
  <2> QED
    BY <2>2, <2>3 DEF IndInv
<1>6. CASE ReadNothing(~Quiet \/ req # NULL) /\ UNCHANGED <<daemonVars, serving>>
  BY <1>0, <1>6, SameWorld DEF ReadNothing, AfterRead, environment, scanVars,
     daemonVars, ControlOK, ScanEndsWithItsCall, Unsent, IndInv, NotBefore
<1>7. CASE ScanStep /\ UNCHANGED <<daemonVars, serving>>
  <2>1. CASE ScanReset
    BY <1>0, <1>7, <2>1, SameWorld DEF ScanReset, environment, mainVars,
       daemonVars, ControlOK, ScanEndsWithItsCall, Unsent, IndInv, NotBefore
  <2>2. CASE ScanCheck
    BY <1>0, <1>7, <2>2, SameWorld DEF ScanCheck, environment, mainVars,
       daemonVars, ControlOK, ScanEndsWithItsCall, Unsent, IndInv, NotBefore
  <2>3. CASE ScanWrite
    <3>0. /\ UNCHANGED <<main, broadcastValid, quit, call, got, data, req, serving>>
          /\ scan = "write" /\ scan' = "check" /\ ~finish
          /\ call > 0 /\ data.call = call /\ subIP \in 1..LastSub
      BY <1>0, <1>7, <2>3 DEF ScanWrite, environment, mainVars, daemonVars,
         NotBefore, ControlOK
    <3>1. IF subIP < LastSub THEN subIP' = subIP + 1 /\ finish' = finish
                             ELSE finish' = TRUE /\ subIP' = subIP
      BY <2>3 DEF ScanWrite
    <3>2. ControlOK' /\ ScanEndsWithItsCall'
      BY <1>0, <3>0, <3>1 DEF ControlOK, ScanEndsWithItsCall
    <3>3. CASE subIP = Daemon
      <4>1. net' = net \cup {data} /\ Unsent /\ ~Unsent'
        BY <1>0, <2>3, <3>0, <3>1, <3>3 DEF ScanWrite, Unsent
      <4>2. InOnePlace'
        BY <1>0, <3>0, <4>1 DEF InOnePlace, NotBefore
      <4>3. call \in 1..call
        BY <1>0, <3>0
      <4>4. NotBefore'
        BY <1>0, <3>0, <4>1, <4>3 DEF NotBefore
      <4> QED
        BY <3>2, <4>2, <4>4 DEF IndInv
    <3>4. CASE subIP # Daemon
      <4>1. net' = net /\ (Unsent' => Unsent)
        BY <1>0, <2>3, <3>0, <3>1, <3>4 DEF ScanWrite, Unsent
      <4> QED
        BY <1>0, <3>0, <3>2, <4>1, SameWorld DEF IndInv
    <3> QED
      BY <3>3, <3>4
  <2>4. CASE ScanSignal
    BY <1>0, <1>7, <2>4, SameWorld DEF ScanSignal, environment, mainVars,
       daemonVars, ControlOK, ScanEndsWithItsCall, Unsent, IndInv, NotBefore
  <2> QED
    BY <1>7, <2>1, <2>2, <2>3, <2>4 DEF ScanStep
<1>8. CASE Lose /\ UNCHANGED <<daemonVars, serving>>
  BY <1>0, <1>8 DEF Lose, environment, mainVars, scanVars, daemonVars, ControlOK,
     ScanEndsWithItsCall, InOnePlace, NotBefore, Unsent, IndInv
<1>9. CASE DaemonReceive
  <2>1. PICK m \in net : /\ net' = net \ {m}
                         /\ serving' = m.call
    BY <1>9 DEF DaemonReceive
  <2>2. UNCHANGED <<mainVars, environment, scanVars, quit, call>>
    BY <1>9 DEF DaemonReceive
  <2>3. ControlOK' /\ ScanEndsWithItsCall'
    BY <1>0, <2>2 DEF mainVars, environment, scanVars, ControlOK, ScanEndsWithItsCall
  <2>4. InOnePlace' /\ NotBefore'
    BY <1>0, <2>1, <2>2 DEF mainVars, scanVars, InOnePlace, NotBefore, Unsent
  <2> QED
    BY <2>3, <2>4 DEF IndInv
<1>10. CASE DaemonHandle
  <2>1. req # NULL /\ req' = NULL
    BY <1>10 DEF DaemonHandle, D!Register, D!Unregister, D!Handling
  <2>2. PICK r : r.call = serving /\ net' = net \cup {r}
    BY <1>10 DEF DaemonHandle
  <2>3. UNCHANGED <<mainVars, environment, scanVars, quit, call, serving>>
    BY <1>10 DEF DaemonHandle
  <2>4. ControlOK' /\ ScanEndsWithItsCall'
    BY <1>0, <2>3 DEF mainVars, environment, scanVars, ControlOK, ScanEndsWithItsCall
  <2>5. InOnePlace' /\ NotBefore'
    BY <1>0, <2>1, <2>2, <2>3 DEF mainVars, scanVars, InOnePlace, NotBefore, Unsent
  <2> QED
    BY <2>4, <2>5 DEF IndInv
<1>11. CASE UNCHANGED vars
  BY <1>0, <1>11, SameWorld DEF vars, serverVars, environment, mainVars, scanVars,
     daemonVars, ControlOK, ScanEndsWithItsCall, Unsent, IndInv, NotBefore
<1> QED
  BY <1>1, <1>2, <1>3, <1>4, <1>5, <1>6, <1>7, <1>8, <1>9, <1>10, <1>11
     DEF Next, Server, Over

-----------------------------------------------------------------------------
(* It holds in every behaviour.                                            *)
LEMMA Invariance == Spec => []IndInv
BY InitIndInv, StepIndInv, PTL DEF Spec

(* A call that scans ends after its goroutine: server.go waits for         *)
(* broadcastQuit before it returns, so two scans never share subIP and no  *)
(* goroutine sends on the channel that Quit closes.                        *)
THEOREM ScansStayApart == Spec => []ScanEndsWithItsCall
BY Invariance, PTL DEF IndInv

(* Where there is one, there is one only.                                  *)
LEMMA OneElement ==
  ASSUME NEW S, \A m, n \in S : m = n
  PROVE  Cardinality(S) \in {0, 1} /\ (Cardinality(S) = 1 => S # {})
<1>1. CASE S = {}
  BY <1>1, FS_EmptySet
<1>2. CASE S # {}
  <2>1. PICK m : S = {m}
    BY <1>2
  <2> QED
    BY <1>2, <2>1, FS_Singleton
<1> QED
  BY <1>1, <1>2

(* Each call of RegisterService and UnRegisterService has one datagram at  *)
(* most in the world: the scan of server.go passes the daemon's address    *)
(* once, and a reply takes the place of its request.                       *)
THEOREM OneDatagram == Spec => []OneDatagramPerCall
<1>1. IndInv => OneDatagramPerCall
  <2> SUFFICES ASSUME IndInv, NEW n \in 1..MaxCalls
               PROVE  Copies(n) <= 1
    BY DEF OneDatagramPerCall
  <2> DEFINE there == { m \in net : m.call = n }
  <2>1. Cardinality(there) \in {0, 1} /\ (Cardinality(there) = 1 => there # {})
    BY OneElement DEF IndInv, InOnePlace
  <2>2. there # {} => /\ ~(req # NULL /\ serving = n)
                     /\ ~(got # NULL /\ got.call = n)
    BY DEF IndInv, InOnePlace
  <2>3. ~(req # NULL /\ serving = n /\ got # NULL /\ got.call = n)
    BY DEF IndInv, InOnePlace
  <2> QED
    BY <2>1, <2>2, <2>3 DEF Copies
<1> QED
  BY <1>1, Invariance, PTL
-----------------------------------------------------------------------------
(* What TypeOK does not say: a goroutine has a datagram, a call a request; *)
(* the list has no two services under one key, and the daemon gets no      *)
(* inquiry, so it makes no slice and does not panic.                       *)
Given ==
  /\ scan # "off" => data \in ToDaemon
  /\ main \notin {"idle", "quit"} => cmd \in Command
  /\ UniqueKeys(list)
  /\ req # NULL => req \in Command
  /\ res = <<>> /\ sending = 0 /\ ~panicked

(* TypeOK is not inductive: that what is sent is a datagram takes Given,   *)
(* and that it is one of a call that has begun, IndInv.                    *)
TypeInv == TypeOK /\ Given

(* The requests of a server, and what the daemon says to them.             *)
LEMMA Commands ==
  /\ Command \subseteq Request
  /\ \A c \in Command : /\ c # NULL /\ c \in Request /\ c.action \in {"register", "unregister"}
                        /\ c.action = "register" => c.info \in Entry
  /\ \A m \in ToDaemon : m.to = "daemon" /\ m.pkt \in Command /\ m.call \in 1..MaxCalls
  /\ \A m \in ToServer : m.to = "server" /\ m.pkt \in Reply /\ m.call \in 1..MaxCalls
  /\ \A n \in 1..MaxCalls :
       /\ \A c \in Command : [to |-> "daemon", call |-> n, pkt |-> c] \in ToDaemon
       /\ \A r \in Reply : [to |-> "server", call |-> n, pkt |-> r] \in ToServer
<1>1. Command \subseteq Request
  BY DEF Command, Request
<1>2. ASSUME NEW c \in Command
      PROVE  /\ c # NULL /\ c \in Request /\ c.action \in {"register", "unregister"}
             /\ c.action = "register" => c.info \in Entry
  <2>1. c.action \in {"register", "unregister"}
    BY <1>2 DEF Command, RegisterPkt, UnregisterPkt
  <2> QED
    BY <1>1, <1>2, <2>1, RequestFields
<1>3. /\ \A m \in ToDaemon : m.to = "daemon" /\ m.pkt \in Command /\ m.call \in 1..MaxCalls
      /\ \A m \in ToServer : m.to = "server" /\ m.pkt \in Reply /\ m.call \in 1..MaxCalls
  BY DEF ToDaemon, ToServer
<1>4. \A n \in 1..MaxCalls :
        /\ \A c \in Command : [to |-> "daemon", call |-> n, pkt |-> c] \in ToDaemon
        /\ \A r \in Reply : [to |-> "server", call |-> n, pkt |-> r] \in ToServer
  BY DEF ToDaemon, ToServer
<1> QED
  BY <1>1, <1>2, <1>3, <1>4

(* The daemon speaks of services and packets as the server does: what      *)
(* GoDaemon takes from ServiceList is what this module takes from it.      *)
LEMMA SameVocabulary ==
  /\ D!Entry = Entry /\ D!Request = Request /\ D!Reply = Reply
  /\ \A b : D!ResultPkt(b) = ResultPkt(b)
  /\ \A l, d, s : /\ D!Registered(l, d, s) = Registered(l, d, s)
                  /\ D!ListRemove(l, d, s) = ListRemove(l, d, s)
  /\ \A l, e : D!AddInfo(l, e) = AddInfo(l, e)
<1>1. D!Entry = Entry
  BY DEF D!Entry, Entry
<1>2. D!Request = Request
  BY <1>1
     DEF D!Request, Request, D!RegisterPkt, RegisterPkt, D!UnregisterPkt,
         UnregisterPkt, D!InquiryPkt, InquiryPkt
<1>3. D!Reply = Reply
  BY <1>1 DEF D!Reply, Reply
<1>4. \A b : D!ResultPkt(b) = ResultPkt(b)
  BY Zenon DEF D!ResultPkt, ResultPkt
<1>5. \A l, d, s : D!Registered(l, d, s) = Registered(l, d, s)
  BY Zenon DEF D!Registered, Registered, D!HasKey, HasKey
<1>6. \A l, d, s : D!PositionOf(l, d, s) = PositionOf(l, d, s)
  BY Zenon DEF D!PositionOf, PositionOf, D!HasKey, HasKey
<1>7. \A l, d, s : D!ListRemove(l, d, s) = ListRemove(l, d, s)
  BY <1>5, <1>6, Zenon DEF D!ListRemove, ListRemove, D!RemoveAt, RemoveAt
<1>8. \A l, e : D!AddInfo(l, e) = AddInfo(l, e)
  BY <1>7, Zenon DEF D!AddInfo, AddInfo
<1> QED
  BY <1>1, <1>2, <1>3, <1>4, <1>5, <1>7, <1>8

(* No call has begun.                                                      *)
LEMMA InitTypeInv == Init => TypeInv
<1> SUFFICES ASSUME Init PROVE TypeInv
  OBVIOUS
<1>1. 1 \in 1..LastSub /\ 0 \in 0..MaxCalls
  BY GoServerAssumption
<1>2. /\ list = <<>> /\ req = NULL /\ res = <<>> /\ sending = 0 /\ sent = <<>>
      /\ ~panicked /\ panicked \in BOOLEAN /\ fits \in BOOLEAN
  <2>1. panicked = FALSE /\ fits = TRUE
    BY Zenon DEF Init, D!Init
  <2> QED
    BY <2>1 DEF Init, D!Init
<1>3. /\ <<>> \in Seq(Entry) /\ <<>> \in Seq(Entry \cup {NULL}) /\ <<>> \in Seq(Reply)
      /\ <<>> \in Seq(1..LastSub) /\ UniqueKeys(<<>>) /\ Len(<<>>) = 0
  BY DEF UniqueKeys
<1>4. D!TypeOK
  BY <1>2, <1>3 DEF D!TypeOK
<1>5. TypeOK
  <2>1. /\ broadcastValid \in BOOLEAN /\ timely \in BOOLEAN
        /\ recEnd \in BOOLEAN /\ finish \in BOOLEAN
    BY Zenon DEF Init, ServerInit
  <2>2. /\ main = "idle" /\ cmd = NULL /\ got = NULL /\ result = "none" /\ quit = 0
        /\ scan = "off" /\ data = NULL /\ subIP = 1 /\ net = {} /\ call = 0
        /\ written = <<>> /\ serving = 0
    BY DEF Init, ServerInit
  <2> QED
    BY <1>1, <1>3, <1>4, <2>1, <2>2 DEF TypeOK
<1>6. Given
  BY <1>2, <1>3 DEF Init, ServerInit, Given
<1> QED
  BY <1>5, <1>6 DEF TypeInv

(* No step breaks it.                                                      *)
LEMMA StepTypeInv == IndInv /\ TypeInv /\ [Next]_vars => TypeInv'
<1> SUFFICES ASSUME IndInv, TypeInv, [Next]_vars PROVE TypeInv'
  OBVIOUS
<1>0. /\ TypeOK /\ Given /\ D!TypeOK
      /\ LastSub \in Nat \ {0} /\ Daemon \in 1..LastSub /\ MaxCalls \in Nat
      /\ net \subseteq ToDaemon \cup ToServer /\ call \in 0..MaxCalls
  BY GoServerAssumption DEF TypeInv, TypeOK
<1>1. ASSUME UNCHANGED <<daemonVars, serving>> PROVE D!TypeOK'
  BY <1>0, <1>1 DEF daemonVars, D!TypeOK
<1>2. CASE StartCall /\ UNCHANGED <<daemonVars, serving>>
  <2>1. /\ call' \in 1..MaxCalls /\ cmd' \in Command
        /\ data' \in ToDaemon
    BY <1>0, <1>2, Commands DEF StartCall
  <2>2. <<>> \in Seq(1..LastSub)
    OBVIOUS
  <2> QED
    BY <1>0, <1>2, <1>1, <2>1, <2>2
       DEF StartCall, environment, daemonVars, TypeInv, TypeOK, Given
<1>3. CASE StartBroadcastCall /\ UNCHANGED <<daemonVars, serving>>
  <2>1. /\ call' \in 1..MaxCalls /\ cmd' \in Command
        /\ net' \subseteq ToDaemon \cup ToServer
    BY <1>0, <1>3, Commands DEF StartBroadcastCall
  <2> QED
    BY <1>0, <1>3, <1>1, <2>1
       DEF StartBroadcastCall, environment, scanVars, daemonVars, TypeInv, TypeOK, Given
<1>4. CASE Quit /\ UNCHANGED <<daemonVars, serving>>
  BY <1>0, <1>4, <1>1 DEF Quit, environment, scanVars, daemonVars, TypeInv, TypeOK, Given
<1>5. CASE MainStep /\ UNCHANGED <<daemonVars, serving>>
  <2>1. CASE LowerRecEnd
    BY <1>0, <1>5, <1>1, <2>1, ZenonT(30)
       DEF LowerRecEnd, environment, scanVars, daemonVars, TypeInv, TypeOK, Given
  <2>2. CASE RaiseRecEnd
    BY <1>0, <1>5, <1>1, <2>2 DEF RaiseRecEnd, environment, scanVars, daemonVars,
       TypeInv, TypeOK, Given
  <2>3. CASE Join
    BY <1>0, <1>5, <1>1, <2>3 DEF Join, environment, scanVars, daemonVars,
       TypeInv, TypeOK, Given
  <2>4. CASE Return
    <3>1. result' \in {"none", "succ", "fail", "nothing"}
      <4>1. got # NULL => got.pkt \in Reply
        BY <1>0, Commands DEF TypeOK
      <4> QED
        BY <2>4, <4>1 DEF Return, Reply
    <3> QED
      BY <1>0, <1>5, <1>1, <2>4, <3>1 DEF Return, environment, scanVars, daemonVars,
         TypeInv, TypeOK, Given
  <2> QED
    BY <1>5, <2>1, <2>2, <2>3, <2>4 DEF MainStep
<1>6. CASE ReadReply /\ UNCHANGED <<daemonVars, serving>>
  <2>1. PICK m \in net : m.to = "server" /\ got' = m /\ net' = net \ {m}
    BY <1>6 DEF ReadReply
  <2>2. m \in ToServer
    BY <1>0, <2>1, Commands
  <2> QED
    BY <1>0, <1>6, <1>1, <2>1, <2>2 DEF ReadReply, AfterRead, environment, scanVars,
       daemonVars, TypeInv, TypeOK, Given
<1>7. CASE ReadNothing(~Quiet \/ req # NULL) /\ UNCHANGED <<daemonVars, serving>>
  BY <1>0, <1>7, <1>1 DEF ReadNothing, AfterRead, environment, scanVars, daemonVars,
     TypeInv, TypeOK, Given
<1>8. CASE ScanStep /\ UNCHANGED <<daemonVars, serving>>
  <2>1. CASE ScanReset
    <3>0. 1 \in 1..LastSub
      BY <1>0
    <3>1. subIP' \in 1..LastSub /\ scan' = "check"
      BY <3>0, <2>1 DEF ScanReset
    <3>2. finish' \in BOOLEAN
      BY <2>1, Zenon DEF ScanReset
    <3>3. /\ UNCHANGED <<environment, mainVars, recEnd, quit, data, net, call, written>>
          /\ scan # "off"
      BY <2>1 DEF ScanReset
    <3> QED
      BY <1>0, <1>8, <1>1, <3>1, <3>3, <3>2 DEF environment, mainVars, daemonVars,
         TypeInv, TypeOK, Given
  <2>2. CASE ScanCheck
    BY <1>0, <1>8, <1>1, <2>2 DEF ScanCheck, environment, mainVars, daemonVars,
       TypeInv, TypeOK, Given
  <2>3. CASE ScanWrite
    <3>1. data \in ToDaemon /\ subIP \in 1..LastSub /\ written \in Seq(1..LastSub)
      BY <1>0, <2>3 DEF ScanWrite, Given, TypeOK
    <3>2. /\ written' \in Seq(1..LastSub) /\ net' \subseteq ToDaemon \cup ToServer
          /\ subIP' \in 1..LastSub
          /\ scan' = "check"
      BY <1>0, <2>3, <3>1 DEF ScanWrite
    <3>3. /\ UNCHANGED <<environment, mainVars, recEnd, quit, data, call>>
          /\ finish' \in BOOLEAN
      BY <1>0, <2>3 DEF ScanWrite, TypeOK
    <3> QED
      BY <1>0, <1>8, <1>1, <3>1, <3>2, <3>3 DEF environment, mainVars, daemonVars,
         TypeInv, TypeOK, Given
  <2>4. CASE ScanSignal
    BY <1>0, <1>8, <1>1, <2>4 DEF ScanSignal, environment, mainVars, daemonVars,
       TypeInv, TypeOK, Given
  <2> QED
    BY <1>8, <2>1, <2>2, <2>3, <2>4 DEF ScanStep
<1>9. CASE Lose /\ UNCHANGED <<daemonVars, serving>>
  BY <1>0, <1>9, <1>1 DEF Lose, environment, mainVars, scanVars, daemonVars,
     TypeInv, TypeOK, Given
<1>10. CASE DaemonReceive
  <2>1. PICK m \in net : /\ m.to = "daemon" /\ net' = net \ {m}
                         /\ serving' = m.call /\ req' = m.pkt
    BY <1>10 DEF DaemonReceive
  <2>2. m \in ToDaemon
    BY <1>0, <2>1, Commands
  <2>3. req' \in Command /\ req' \in Request /\ serving' \in 0..MaxCalls
    BY <2>1, <2>2, Commands
  <2>4. /\ sent' = <<>> /\ UNCHANGED <<list, res, sending, fits, panicked>>
        /\ UNCHANGED <<environment, mainVars, scanVars, recEnd, quit, call>>
    BY <1>10 DEF DaemonReceive, D!Receive
  <2>5. D!TypeOK'
    <3>1. sent' \in Seq(D!Reply) /\ req' \in D!Request \cup {NULL}
      BY <2>3, <2>4, SameVocabulary
    <3>2. UNCHANGED <<list, res, sending, fits, panicked>>
      BY <2>4
    <3>3. /\ list' \in Seq(D!Entry) /\ res' \in Seq(D!Entry \cup {NULL})
          /\ sending' \in 0..Len(res')
      BY <1>0, <3>2 DEF D!TypeOK
    <3>4. panicked' \in BOOLEAN /\ fits' \in BOOLEAN
      BY <1>0, <3>2, Zenon DEF D!TypeOK
    <3> QED
      BY <3>1, <3>3, <3>4, Zenon DEF D!TypeOK
  <2> QED
    BY <1>0, <2>1, <2>3, <2>4, <2>5 DEF environment, mainVars, scanVars, TypeInv, TypeOK,
       Given
<1>11. CASE DaemonHandle
  <2>1. /\ net' = net \cup {[to |-> "server", call |-> serving, pkt |-> sent'[1]]}
        /\ UNCHANGED <<environment, mainVars, scanVars, recEnd, quit, call, serving>>
    BY <1>11 DEF DaemonHandle
  <2>2. /\ req # NULL /\ req \in Command /\ req' = NULL
        /\ UNCHANGED <<res, sending, fits, panicked>>
    BY <1>0, <1>11 DEF DaemonHandle, D!Register, D!Unregister, D!Handling, Given
  <2>3. /\ list' \in Seq(Entry) /\ UniqueKeys(list')
        /\ \E b : sent' = <<ResultPkt(b)>>
    <3>0. list \in Seq(Entry) /\ UniqueKeys(list)
      <4>1. list \in Seq(Entry)
        BY <1>0, SameVocabulary DEF D!TypeOK
      <4> QED
        BY <1>0, <4>1 DEF Given
    <3>1. CASE D!Register
      <4>1. /\ req.action = "register" /\ list' = AddInfo(list, req.info)
            /\ sent' = <<ResultPkt(TRUE)>>
        BY <3>1, SameVocabulary DEF D!Register, D!Handling
      <4>2. req.info \in Entry
        BY <2>2, <4>1, Commands
      <4> QED
        BY <3>0, <4>1, <4>2, AddInfoProperties
    <3>2. CASE D!Unregister
      <4>1. /\ list' = ListRemove(list, req.device_name, req.service_name)
            /\ sent' =
                 <<ResultPkt(Registered(list, req.device_name, req.service_name))>>
        BY <3>2, SameVocabulary DEF D!Unregister
      <4> QED
        BY <3>0, <4>1, ListRemoveProperties
    <3> QED
      BY <1>11, <3>1, <3>2 DEF DaemonHandle
  <2>4. PICK b : sent' = <<ResultPkt(b)>>
    BY <2>3
  <2>5. <<ResultPkt(b)>> \in Seq(Reply) /\ ResultPkt(b) \in Reply
    BY RepliesAreReplies, Zenon
  <2>6. sent' \in Seq(Reply) /\ sent'[1] \in Reply
    BY <2>4, <2>5
  <2>7. serving \in 1..MaxCalls
    BY <1>0, <2>2 DEF IndInv, NotBefore
  <2>8. net' \subseteq ToDaemon \cup ToServer
    BY <1>0, <2>1, <2>6, <2>7, Commands
  <2>9. D!TypeOK'
    <3>1. req' \in D!Request \cup {NULL}
      BY <2>2
    <3>2. res' \in Seq(D!Entry \cup {NULL}) /\ sending' \in 0..Len(res')
      BY <1>0, <2>2 DEF D!TypeOK
    <3>3. panicked' \in BOOLEAN /\ fits' \in BOOLEAN
      BY <1>0, <2>2, Zenon DEF D!TypeOK
    <3>4. list' \in Seq(D!Entry) /\ sent' \in Seq(D!Reply)
      BY <2>3, <2>6, SameVocabulary
    <3> QED
      BY <2>3, <2>6, <3>1, <3>2, <3>3, <3>4, Zenon DEF D!TypeOK
  <2> QED
    BY <1>0, <2>1, <2>2, <2>3, <2>8, <2>9 DEF environment, mainVars, scanVars, TypeInv,
       TypeOK, Given
<1>12. CASE UNCHANGED vars
  BY <1>0, <1>12, <1>1 DEF vars, serverVars, environment, mainVars, scanVars, daemonVars,
     TypeInv, TypeOK, Given
<1> QED
  BY <1>2, <1>3, <1>4, <1>5, <1>6, <1>7, <1>8, <1>9, <1>10, <1>11, <1>12
     DEF Next, Server, Over

(* Every variable of server.go, and of the daemon at the other end of the  *)
(* network, keeps to its type.                                             *)
THEOREM TypeCorrect == Spec => []TypeOK
<1>1. TypeInv => TypeOK
  BY DEF TypeInv
<1> QED
  BY <1>1, InitTypeInv, StepTypeInv, InitIndInv, StepIndInv, PTL DEF Spec

-----------------------------------------------------------------------------
(* A reply that says what is so: the request c has taken effect on the     *)
(* services l, and only a deregistration fails.                            *)
TrueOf(r, c, l) ==
  /\ r.action \in {"succ", "fail"}
  /\ c.action = "register" => r.action = "succ" /\ c.info \in ToSet(l)
  /\ c.action = "unregister" => ~Registered(l, c.device_name, c.service_name)

(* When replies are timely, all that is in the world belongs to the call   *)
(* under way, and once it has read there is nothing left.                  *)
Timely ==
  timely =>
    /\ \A m \in net : /\ m.call = call
                      /\ m.to = "daemon" => m.pkt = cmd
                      /\ m.to = "server" => TrueOf(m.pkt, cmd, list)
    /\ req # NULL => serving = call /\ req = cmd
    /\ got # NULL => TrueOf(got.pkt, cmd, list)
    /\ scan # "off" => data.pkt = cmd
    /\ main \notin {"started", "reading"} => net = {} /\ req = NULL /\ ~Unsent
    /\ main \in {"idle", "quit", "started", "reading"} => got = NULL

(* The addresses a scan has been through.                                  *)
Reached == IF finish THEN LastSub ELSE subIP - 1

(* The first call finds recEnd down, as GetServerData has left it: its     *)
(* scan stops for the last address, or for a call that has read.           *)
FirstScan ==
  call = 1 /\ ~broadcastValid =>
    /\ main \in {"started", "reading", "stopping"} => ~recEnd
    /\ written = [k \in 1..Reached |-> k]
    /\ scan = "reset" => ~finish /\ subIP = 1
    /\ scan \in {"signal", "off"} /\ main \in {"started", "reading"} => finish
    /\ timely /\ got = NULL /\ main \in {"stopping", "joining", "deciding"} => finish

(* Before it there is nothing to find.                                     *)
NoneYet == call = 0 => ~recEnd /\ ~finish /\ subIP = 1 /\ main \in {"idle", "quit"}

(* What a call returns is so because of what has been in the world: that   *)
(* takes IndInv, of one call at a time, and TypeInv, of the daemon's list. *)
ResultInv == Timely /\ FirstScan /\ NoneYet

(* No call has begun.                                                      *)
LEMMA InitResultInv == Init => ResultInv
<1> SUFFICES ASSUME Init PROVE ResultInv
  OBVIOUS
<1>1. req = NULL
  BY DEF Init, D!Init
<1>2. Timely
  BY <1>1 DEF Init, ServerInit, Timely, Unsent
<1>3. FirstScan /\ NoneYet
  BY DEF Init, ServerInit, FirstScan, NoneYet
<1> QED
  BY <1>2, <1>3 DEF ResultInv

(* What a step does to the world that leaves it, and the call, alone.      *)
LEMMA SameCall ==
  ASSUME Timely, UNCHANGED <<timely, net, req, serving, list, cmd, call>>,
         got' \in {got, NULL},
         scan' # "off" => scan # "off" /\ data' = data,
         Unsent' => Unsent,
         main' \notin {"started", "reading"} => main \notin {"started", "reading"},
         main' \in {"idle", "quit", "started", "reading"} =>
           got' = NULL \/ main \in {"idle", "quit", "started", "reading"}
  PROVE  Timely'
BY DEF Timely

(* The daemon handles the request of the call under way: what it answers   *)
(* is so.                                                                  *)
LEMMA AnswerIsTrue ==
  ASSUME IndInv, TypeInv, Timely, timely, DaemonHandle
  PROVE  TrueOf(sent'[1], cmd', list')
<1>1. req # NULL /\ req = cmd /\ cmd \in Command /\ cmd' = cmd
  <2>1. req # NULL
    BY DEF DaemonHandle, D!Register, D!Unregister, D!Handling
  <2>2. cmd' = cmd
    BY DEF DaemonHandle, mainVars
  <2> QED
    BY <2>1, <2>2 DEF Timely, TypeInv, Given
<1>2. list \in Seq(Entry) /\ UniqueKeys(list)
  <2>1. list \in Seq(Entry)
    BY SameVocabulary DEF TypeInv, TypeOK, D!TypeOK
  <2> QED
    BY <2>1 DEF TypeInv, Given
<1>3. CASE D!Register
  <2>1. /\ req.action = "register" /\ list' = AddInfo(list, req.info)
        /\ sent' = <<ResultPkt(TRUE)>>
    BY <1>3, SameVocabulary DEF D!Register, D!Handling
  <2>2. cmd.info \in ToSet(list')
    BY <1>1, <1>2, <2>1, Commands, AddInfoProperties
  <2>3. sent'[1].action = "succ"
    BY <2>1 DEF ResultPkt
  <2> QED
    BY <1>1, <2>1, <2>2, <2>3 DEF TrueOf
<1>4. CASE D!Unregister
  <2>1. /\ req.action = "unregister"
        /\ list' = ListRemove(list, req.device_name, req.service_name)
        /\ sent' = <<ResultPkt(Registered(list, req.device_name, req.service_name))>>
    BY <1>4, SameVocabulary DEF D!Unregister, D!Handling
  <2>2. ~Registered(list', cmd.device_name, cmd.service_name)
    BY <1>1, <1>2, <2>1, ListRemoveProperties
  <2>3. sent'[1].action \in {"succ", "fail"}
    BY <2>1 DEF ResultPkt
  <2> QED
    BY <1>1, <2>1, <2>2, <2>3 DEF TrueOf
<1> QED
  BY <1>3, <1>4 DEF DaemonHandle

(* No step breaks Timely.                                                  *)
LEMMA StepTimely == IndInv /\ TypeInv /\ Timely /\ [Next]_vars => Timely'
<1> SUFFICES ASSUME IndInv, TypeInv, Timely, [Next]_vars PROVE Timely'
  OBVIOUS
<1>0. /\ ControlOK /\ ScanEndsWithItsCall /\ InOnePlace /\ NotBefore
      /\ call \in Nat
      /\ LastSub \in Nat \ {0} /\ Daemon \in 1..LastSub
  BY GoServerAssumption DEF IndInv, ControlOK
<1>1. CASE StartCall /\ UNCHANGED <<daemonVars, serving>>
  <2>1. /\ UNCHANGED <<timely, net, req, got>> /\ main = "idle" /\ main' = "started"
        /\ data'.pkt = cmd'
    BY <1>1 DEF StartCall, environment, daemonVars
  <2> QED
    BY <2>1 DEF Timely
<1>2. CASE StartBroadcastCall /\ UNCHANGED <<daemonVars, serving>>
  <2>1. /\ UNCHANGED <<timely, req, got>> /\ main = "idle" /\ main' = "reading"
        /\ scan' = "off"
    BY <1>0, <1>2 DEF StartBroadcastCall, environment, daemonVars, scanVars,
       ScanEndsWithItsCall
  <2>2. PICK d : /\ d.to = "daemon" /\ d.call = call' /\ d.pkt = cmd'
                 /\ net' = net \cup {d}
    BY <1>2 DEF StartBroadcastCall
  <2> QED
    BY <2>1, <2>2 DEF Timely
<1>3. CASE Quit /\ UNCHANGED <<daemonVars, serving>>
  BY <1>0, <1>3, SameCall DEF Quit, environment, scanVars, daemonVars, Unsent
<1>4. CASE MainStep /\ UNCHANGED <<daemonVars, serving>>
  <2>1. CASE LowerRecEnd
    BY <1>0, <1>4, <2>1, SameCall DEF LowerRecEnd, environment, scanVars, daemonVars,
       Unsent
  <2>2. CASE RaiseRecEnd
    BY <1>0, <1>4, <2>2, SameCall DEF RaiseRecEnd, environment, scanVars, daemonVars,
       Unsent
  <2>3. CASE Join
    BY <1>0, <1>4, <2>3, SameCall DEF Join, environment, scanVars, daemonVars, Unsent
  <2>4. CASE Return
    <3>1. /\ UNCHANGED <<timely, net, req, scan, subIP, finish>>
          /\ main = "deciding" /\ main' = "idle" /\ got' = NULL /\ scan = "off"
      BY <1>0, <1>4, <2>4 DEF Return, environment, scanVars, daemonVars,
         ScanEndsWithItsCall
    <3> QED
      BY <3>1 DEF Timely, Unsent
  <2> QED
    BY <1>4, <2>1, <2>2, <2>3, <2>4 DEF MainStep
<1>5. CASE ReadReply /\ UNCHANGED <<daemonVars, serving>>
  <2> SUFFICES ASSUME timely, timely' PROVE Timely'
    BY <1>5 DEF ReadReply, environment, Timely
  <2>1. PICK m \in net : m.to = "server" /\ got' = m /\ net' = net \ {m}
    BY <1>5 DEF ReadReply
  <2>2. /\ UNCHANGED <<list, cmd, req, serving, call, scan, data, subIP, finish>>
        /\ main' \in {"deciding", "stopping"}
    BY <1>5 DEF ReadReply, AfterRead, environment, scanVars, daemonVars
  <2>3. m.call = call /\ TrueOf(m.pkt, cmd, list) /\ (req # NULL => serving = call)
    BY <2>1 DEF Timely
  <2>4. net' = {}
    BY <1>0, <2>1 DEF Timely, InOnePlace
  <2>5. req' = NULL /\ ~Unsent'
    BY <1>0, <2>2, <2>3 DEF InOnePlace, NotBefore, Unsent
  <2>6. TrueOf(got'.pkt, cmd', list')
    BY <2>1, <2>2, <2>3 DEF TrueOf
  <2>7. scan' # "off" => data'.pkt = cmd'
    BY <2>2 DEF Timely
  <2> QED
    BY <2>2, <2>4, <2>5, <2>6, <2>7 DEF Timely
<1>6. CASE ReadNothing(~Quiet \/ req # NULL) /\ UNCHANGED <<daemonVars, serving>>
  <2> SUFFICES ASSUME timely, timely' PROVE Timely'
    BY <1>6 DEF ReadNothing, environment, Timely
  <2>1. /\ UNCHANGED <<list, cmd, req, serving, call, scan, data, subIP, finish, net, got>>
        /\ main = "reading" /\ main' \in {"deciding", "stopping"}
    BY <1>6 DEF ReadNothing, AfterRead, environment, scanVars, daemonVars
  <2>2. net = {} /\ req = NULL /\ ~Unsent
    BY <1>6 DEF ReadNothing, Quiet, Unsent
  <2>3. got = NULL /\ (scan # "off" => data.pkt = cmd)
    BY <2>1 DEF Timely
  <2> QED
    BY <2>1, <2>2, <2>3 DEF Timely, Unsent
<1>7. CASE ScanStep /\ UNCHANGED <<daemonVars, serving>>
  <2>1. CASE ScanReset
    BY <1>0, <1>7, <2>1, SameCall DEF ScanReset, environment, mainVars, daemonVars, Unsent
  <2>2. CASE ScanCheck
    BY <1>0, <1>7, <2>2, SameCall DEF ScanCheck, environment, mainVars, daemonVars, Unsent
  <2>3. CASE ScanWrite
    <3>0. /\ UNCHANGED <<timely, main, cmd, got, list, req, serving, call, data>>
          /\ scan = "write" /\ scan' = "check" /\ ~finish
          /\ data.call = call /\ subIP \in 1..LastSub
      BY <1>0, <1>7, <2>3 DEF ScanWrite, environment, mainVars, daemonVars,
         NotBefore, ControlOK
    <3>1. IF subIP < LastSub THEN subIP' = subIP + 1 /\ finish' = finish
                             ELSE finish' = TRUE /\ subIP' = subIP
      BY <2>3 DEF ScanWrite
    <3>2. CASE subIP = Daemon
      <4> SUFFICES ASSUME timely PROVE Timely'
        BY <3>0 DEF Timely
      <4>1. net' = net \cup {data} /\ Unsent
        BY <1>0, <2>3, <3>0, <3>2 DEF ScanWrite, Unsent
      <4>2. /\ main \in {"started", "reading"} /\ got = NULL
            /\ data.pkt = cmd /\ data.to = "daemon"
        BY <3>0, <4>1, Commands DEF Timely, TypeInv, Given
      <4>3. \A m \in net' : /\ m.call = call
                            /\ m.to = "daemon" => m.pkt = cmd
                            /\ m.to = "server" => TrueOf(m.pkt, cmd, list)
        BY <3>0, <4>1, <4>2 DEF Timely
      <4>4. \A m \in net' : m.to = "server" => TrueOf(m.pkt, cmd', list')
        BY <3>0, <4>3
      <4>5. req' # NULL => serving' = call' /\ req' = cmd'
        BY <3>0 DEF Timely
      <4> QED
        BY <3>0, <4>2, <4>3, <4>4, <4>5 DEF Timely
    <3>3. CASE subIP # Daemon
      <4>1. net' = net /\ (Unsent' => Unsent)
        BY <1>0, <2>3, <3>0, <3>1, <3>3 DEF ScanWrite, Unsent
      <4> QED
        BY <3>0, <4>1, SameCall
    <3> QED
      BY <3>2, <3>3
  <2>4. CASE ScanSignal
    BY <1>0, <1>7, <2>4, SameCall
       DEF ScanSignal, environment, mainVars, daemonVars, Unsent
  <2> QED
    BY <1>7, <2>1, <2>2, <2>3, <2>4 DEF ScanStep
<1>8. CASE Lose /\ UNCHANGED <<daemonVars, serving>>
  <2>1. /\ UNCHANGED <<timely, main, cmd, got, list, req, serving, call, data, scan,
                       subIP, finish>>
        /\ net' \subseteq net
    BY <1>8 DEF Lose, environment, mainVars, scanVars, daemonVars
  <2> QED
    BY <2>1 DEF Timely, Unsent
<1>9. CASE DaemonReceive
  <2> SUFFICES ASSUME timely, timely' PROVE Timely'
    BY <1>9 DEF DaemonReceive, environment, Timely
  <2>1. PICK m \in net : /\ m.to = "daemon" /\ net' = net \ {m}
                         /\ serving' = m.call /\ req' = m.pkt
    BY <1>9 DEF DaemonReceive
  <2>2. UNCHANGED <<main, cmd, got, list, call, data, scan, subIP, finish>>
    BY <1>9 DEF DaemonReceive, D!Receive, environment, mainVars, scanVars
  <2>3. main \in {"started", "reading"} /\ got = NULL
    BY <2>1 DEF Timely
  <2>4. serving' = call' /\ req' = cmd'
    BY <2>1, <2>2 DEF Timely
  <2>5. \A n \in net' : /\ n.call = call /\ (n.to = "daemon" => n.pkt = cmd)
                        /\ n.to = "server" => TrueOf(n.pkt, cmd, list)
    BY <2>1 DEF Timely
  <2>6. scan' # "off" => data'.pkt = cmd'
    BY <2>2 DEF Timely
  <2> QED
    BY <2>2, <2>3, <2>4, <2>5, <2>6 DEF Timely
<1>10. CASE DaemonHandle
  <2> SUFFICES ASSUME timely, timely' PROVE Timely'
    BY <1>10 DEF DaemonHandle, environment, Timely
  <2>1. /\ net' = net \cup {[to |-> "server", call |-> serving, pkt |-> sent'[1]]}
        /\ UNCHANGED <<main, cmd, got, call, data, scan, subIP, finish, serving>>
    BY <1>10 DEF DaemonHandle, environment, mainVars, scanVars
  <2>2. req # NULL /\ req' = NULL
    BY <1>10 DEF DaemonHandle, D!Register, D!Unregister, D!Handling
  <2>3. serving = call /\ main \in {"started", "reading"} /\ got = NULL
    BY <2>2 DEF Timely
  <2>4. net = {}
    BY <1>0, <2>2, <2>3 DEF Timely, InOnePlace
  <2>5. TrueOf(sent'[1], cmd', list')
    BY <1>10, AnswerIsTrue
  <2>6. scan' # "off" => data'.pkt = cmd'
    BY <2>1 DEF Timely
  <2> DEFINE r == [to |-> "server", call |-> serving, pkt |-> sent'[1]]
  <2>7. net' = {r} /\ r.to = "server" /\ r.call = call' /\ r.pkt = sent'[1]
    BY <2>1, <2>3, <2>4
  <2> HIDE DEF r
  <2> QED
    BY <2>1, <2>2, <2>3, <2>5, <2>6, <2>7 DEF Timely
<1>11. CASE UNCHANGED vars
  BY <1>0, <1>11, SameCall DEF vars, serverVars, environment, mainVars, scanVars,
     daemonVars, Unsent
<1> QED
  BY <1>1, <1>2, <1>3, <1>4, <1>5, <1>6, <1>7, <1>8, <1>9, <1>10, <1>11
     DEF Next, Server, Over

(* One address more.                                                       *)
LEMMA NextAddress ==
  /\ <<>> = [k \in 1..0 |-> k]
  /\ \A n \in Nat : Append([k \in 1..n |-> k], n + 1) = [k \in 1..(n + 1) |-> k]
<1>1. <<>> = [k \in 1..0 |-> k]
  OBVIOUS
<1>2. ASSUME NEW n \in Nat
      PROVE  Append([k \in 1..n |-> k], n + 1) = [k \in 1..(n + 1) |-> k]
  <2> DEFINE s == [k \in 1..n |-> k]
             t == [k \in 1..(n + 1) |-> k]
  <2>1. s \in Seq(Nat) /\ Len(s) = n
    OBVIOUS
  <2>2. t \in Seq(Nat) /\ Len(t) = n + 1
    OBVIOUS
  <2>3. Append(s, n + 1) \in Seq(Nat) /\ Len(Append(s, n + 1)) = n + 1
    BY <2>1
  <2>4. \A k \in 1..(n + 1) : Append(s, n + 1)[k] = t[k]
    BY <2>1
  <2> QED
    BY <2>2, <2>3, <2>4
<1> QED
  BY <1>1, <1>2

(* What the main goroutine and the daemon may do to the first call.        *)
LEMMA SameScan ==
  ASSUME FirstScan, NoneYet,
         UNCHANGED <<broadcastValid, timely, call, subIP, finish, written>>,
         recEnd' = recEnd, main' = main, got' = got,
         scan' = scan
  PROVE  FirstScan' /\ NoneYet'
BY DEF FirstScan, NoneYet, Reached

(* No step breaks FirstScan.                                               *)
LEMMA StepFirstScan ==
  IndInv /\ TypeInv /\ ResultInv /\ [Next]_vars => FirstScan' /\ NoneYet'
<1> SUFFICES ASSUME IndInv, TypeInv, ResultInv, [Next]_vars PROVE FirstScan' /\ NoneYet'
  OBVIOUS
<1>0. /\ ControlOK /\ ScanEndsWithItsCall /\ NotBefore
      /\ Timely /\ FirstScan /\ NoneYet
      /\ call \in Nat /\ subIP \in 1..LastSub
      /\ LastSub \in Nat \ {0} /\ Daemon \in 1..LastSub
  BY GoServerAssumption DEF IndInv, ControlOK, ResultInv
<1>1. CASE StartCall /\ UNCHANGED <<daemonVars, serving>>
  <2>1. /\ call' = call + 1 /\ main' = "started" /\ scan' = "reset" /\ written' = <<>>
        /\ UNCHANGED <<broadcastValid, recEnd, subIP, finish>>
    BY <1>1 DEF StartCall, environment
  <2>2. call' = 1 => ~recEnd /\ ~finish /\ subIP = 1
    BY <1>0, <2>1 DEF NoneYet
  <2>3. call' = 1 => written' = [k \in 1..Reached' |-> k]
    BY <2>1, <2>2, NextAddress DEF Reached
  <2> QED
    BY <1>0, <2>1, <2>2, <2>3 DEF FirstScan, NoneYet
<1>2. CASE StartBroadcastCall /\ UNCHANGED <<daemonVars, serving>>
  BY <1>0, <1>2 DEF StartBroadcastCall, environment, FirstScan, NoneYet
<1>3. CASE Quit /\ UNCHANGED <<daemonVars, serving>>
  BY <1>0, <1>3 DEF Quit, environment, scanVars, FirstScan, NoneYet, Reached
<1>4. CASE MainStep /\ UNCHANGED <<daemonVars, serving>>
  <2>1. CASE LowerRecEnd
    BY <1>0, <2>1 DEF LowerRecEnd, environment, scanVars, FirstScan, NoneYet, Reached
  <2>2. CASE RaiseRecEnd
    BY <1>0, <2>2 DEF RaiseRecEnd, environment, scanVars, FirstScan, NoneYet, Reached
  <2>3. CASE Join
    BY <1>0, <2>3 DEF Join, environment, scanVars, FirstScan, NoneYet, Reached
  <2>4. CASE Return
    BY <1>0, <2>4 DEF Return, environment, scanVars, FirstScan, NoneYet, Reached
  <2> QED
    BY <1>4, <2>1, <2>2, <2>3, <2>4 DEF MainStep
<1>5. CASE ReadReply /\ UNCHANGED <<daemonVars, serving>>
  <2>1. PICK m \in net : m.to = "server" /\ got' = m
    BY <1>5 DEF ReadReply
  <2>2. m \in ToServer
    BY <2>1, Commands DEF TypeInv, TypeOK
  <2>3. got' # NULL
    BY <2>1, <2>2, NullIsNoDatagram
  <2> QED
    BY <1>0, <1>5, <2>3 DEF ReadReply, AfterRead, environment, scanVars, FirstScan,
       NoneYet, Reached
<1>6. CASE ReadNothing(~Quiet \/ req # NULL) /\ UNCHANGED <<daemonVars, serving>>
  BY <1>0, <1>6 DEF ReadNothing, AfterRead, Quiet, environment, scanVars, FirstScan,
     NoneYet, Reached
<1>7. CASE ScanStep /\ UNCHANGED <<daemonVars, serving>>
  <2>0. scan # "off" => call > 0
    BY <1>0 DEF NotBefore
  <2>1. CASE ScanReset
    BY <1>0, <2>0, <2>1 DEF ScanReset, environment, mainVars, FirstScan, NoneYet, Reached
  <2>2. CASE ScanCheck
    BY <1>0, <2>0, <2>2 DEF ScanCheck, environment, mainVars, FirstScan, NoneYet, Reached
  <2>3. CASE ScanWrite
    <3>0. /\ UNCHANGED <<broadcastValid, timely, main, got, call, recEnd>>
          /\ scan = "write" /\ scan' = "check" /\ ~finish /\ call > 0
          /\ written' = Append(written, subIP)
      BY <1>0, <2>0, <2>3 DEF ScanWrite, environment, mainVars, NotBefore
    <3>1. IF subIP < LastSub THEN subIP' = subIP + 1 /\ finish' = finish
                             ELSE finish' = TRUE /\ subIP' = subIP
      BY <2>3 DEF ScanWrite
    <3>2. Reached = subIP - 1 /\ Reached' = subIP /\ subIP - 1 \in Nat
      BY <1>0, <3>0, <3>1 DEF Reached
    <3>3. call' = 1 /\ ~broadcastValid' => written' = [k \in 1..Reached' |-> k]
      <4>1. Append([k \in 1..(subIP - 1) |-> k], subIP) = [k \in 1..subIP |-> k]
        BY <1>0, <3>2, NextAddress
      <4> QED
        BY <1>0, <3>0, <3>2, <4>1 DEF FirstScan
    <3>4. finish => finish'
      BY <3>0
    <3> QED
      BY <1>0, <3>0, <3>3, <3>4 DEF FirstScan, NoneYet
  <2>4. CASE ScanSignal
    BY <1>0, <2>0, <2>4 DEF ScanSignal, environment, mainVars, FirstScan, NoneYet, Reached
  <2> QED
    BY <1>7, <2>1, <2>2, <2>3, <2>4 DEF ScanStep
<1>8. CASE Lose /\ UNCHANGED <<daemonVars, serving>>
  BY <1>0, <1>8, SameScan DEF Lose, environment, mainVars, scanVars
<1>9. CASE DaemonReceive
  BY <1>0, <1>9, SameScan DEF DaemonReceive, environment, mainVars, scanVars
<1>10. CASE DaemonHandle
  BY <1>0, <1>10, SameScan DEF DaemonHandle, environment, mainVars, scanVars
<1>11. CASE UNCHANGED vars
  BY <1>0, <1>11, SameScan DEF vars, serverVars, environment, mainVars, scanVars
<1> QED
  BY <1>1, <1>2, <1>3, <1>4, <1>5, <1>6, <1>7, <1>8, <1>9, <1>10, <1>11
     DEF Next, Server, Over

(* What RegisterService and UnRegisterService return is so when replies    *)
(* are timely: success is a request that has taken effect at the daemon,   *)
(* failure a deregistration of what it does not hold, and the first call   *)
(* that reads nothing has asked every address of the network.              *)
THEOREM ResultsAreTrue == Spec => ResultIsTrue
<1> DEFINE
      Said == /\ result' = "succ" =>
                   IF cmd.action = "register"
                     THEN cmd.info \in ToSet(list)
                     ELSE ~Registered(list, cmd.device_name, cmd.service_name)
              /\ result' = "fail" =>
                   /\ cmd.action = "unregister"
                   /\ ~Registered(list, cmd.device_name, cmd.service_name)
              /\ result' = "nothing" /\ call = 1 /\ ~broadcastValid =>
                   written = [k \in 1..LastSub |-> k]
<1>1. ASSUME IndInv, TypeInv, ResultInv, [Next]_vars, Returns, timely PROVE Said
  <2>1. main = "deciding" /\ main' = "idle"
    BY <1>1 DEF Returns
  <2>2. result' = IF got = NULL THEN "nothing" ELSE got.pkt.action
    <3>1. ~DaemonReceive /\ ~DaemonHandle /\ ~UNCHANGED vars
      BY <2>1 DEF DaemonReceive, DaemonHandle, mainVars, vars, serverVars
    <3>2. /\ ~StartCall /\ ~StartBroadcastCall /\ ~Quit /\ ~ScanStep /\ ~Lose
          /\ ~ReadReply /\ ~ReadNothing(~Quiet \/ req # NULL)
      BY <2>1 DEF StartCall, StartBroadcastCall, Quit, ScanStep, ScanReset, ScanCheck,
         ScanWrite, ScanSignal, Lose, ReadReply, ReadNothing, mainVars
    <3>3. MainStep
      BY <1>1, <3>1, <3>2 DEF Next, Server, Over
    <3>4. Return
      BY <2>1, <3>3 DEF MainStep, LowerRecEnd, RaiseRecEnd, Join
    <3> QED
      BY <3>4 DEF Return
  <2>3. cmd.action \in {"register", "unregister"}
    BY <1>1, <2>1, Commands DEF TypeInv, Given
  <2>4. got # NULL => TrueOf(got.pkt, cmd, list)
    BY <1>1 DEF ResultInv, Timely
  <2>5. got = NULL /\ call = 1 /\ ~broadcastValid => written = [k \in 1..LastSub |-> k]
    BY <1>1, <2>1 DEF ResultInv, FirstScan, Reached
  <2>6. ASSUME result' = "succ"
        PROVE  IF cmd.action = "register"
                 THEN cmd.info \in ToSet(list)
                 ELSE ~Registered(list, cmd.device_name, cmd.service_name)
    BY <2>2, <2>3, <2>4, <2>6 DEF TrueOf
  <2>7. ASSUME result' = "fail"
        PROVE  /\ cmd.action = "unregister"
               /\ ~Registered(list, cmd.device_name, cmd.service_name)
    BY <2>2, <2>3, <2>4, <2>7 DEF TrueOf
  <2>8. ASSUME result' = "nothing", call = 1, ~broadcastValid
        PROVE  written = [k \in 1..LastSub |-> k]
    BY <2>2, <2>4, <2>5, <2>8 DEF TrueOf
  <2> QED
    BY <2>6, <2>7, <2>8
<1>2. IndInv /\ TypeInv /\ ResultInv /\ [Next]_vars => [Returns /\ timely => Said]_vars
  BY <1>1
<1>3. IndInv /\ TypeInv /\ ResultInv /\ [Next]_vars => ResultInv'
  BY StepTimely, StepFirstScan DEF ResultInv
<1> QED
  BY <1>2, <1>3, InitIndInv, StepIndInv, InitTypeInv, StepTypeInv, InitResultInv, PTL
     DEF Spec, ResultIsTrue
=============================================================================
