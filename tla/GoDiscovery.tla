----------------------------- MODULE GoDiscovery -----------------------------
(***************************************************************************)
(* A Go server and a Go daemon over the network: GoServer and GoDaemon,    *)
(* joined by the datagrams in flight.  A request that arrives is received  *)
(* by the daemon, and the reply its handler writes is in flight to the     *)
(* server.                                                                 *)
(*                                                                         *)
(* As a bound, what is registered is short enough for its JSON to fit a    *)
(* datagram; what a longer request does to the daemon, GoDaemon says.      *)
(***************************************************************************)
EXTENDS GoServer

VARIABLES
  list, req, res, sending, sent, fits, panicked,   \* the daemon, see GoDaemon
  serving                                          \* whose request it handles

daemonVars == <<list, req, res, sending, sent, fits, panicked>>
vars == <<serverVars, daemonVars, serving>>

D == INSTANCE GoDaemon

Init == ServerInit /\ D!Init /\ serving = 0

DaemonReceive ==
  /\ \E m \in net :
       /\ m.to = "daemon"
       /\ net' = net \ {m}
       /\ serving' = m.call
       /\ D!Receive
       /\ req' = m.pkt
  /\ UNCHANGED <<environment, mainVars, scanVars, recEnd, quit, call>>

DaemonHandle ==
  /\ D!Register \/ D!Unregister
  /\ net' = net \cup {[to |-> "server", call |-> serving, pkt |-> sent'[1]]}
  /\ UNCHANGED <<environment, mainVars, scanVars, recEnd, quit, call, serving>>

Server == /\ \/ StartCall \/ StartBroadcastCall \/ Quit
             \/ MainStep \/ ReadReply \/ ReadNothing(~Quiet \/ req # NULL)
             \/ ScanStep \/ Lose
          /\ UNCHANGED <<daemonVars, serving>>

(* The server has quit and the network is empty.                           *)
Over == main = "quit" /\ net = {} /\ req = NULL /\ UNCHANGED vars

Next == Server \/ DaemonReceive \/ DaemonHandle \/ Over

Fairness ==
  /\ WF_vars(MainStep /\ UNCHANGED <<daemonVars, serving>>)
  /\ WF_vars(ScanStep /\ UNCHANGED <<daemonVars, serving>>)
  /\ WF_vars(/\ ReadReply \/ ReadNothing(~Quiet \/ req # NULL)
             /\ UNCHANGED <<daemonVars, serving>>)
  /\ WF_vars(DaemonReceive)
  /\ WF_vars(DaemonHandle)

Spec == Init /\ [][Next]_vars /\ Fairness

-----------------------------------------------------------------------------
(* The variables hold what their declarations say.                         *)
TypeOK ==
  /\ broadcastValid \in BOOLEAN /\ timely \in BOOLEAN
  /\ main \in {"idle", "started", "reading", "stopping", "joining", "deciding",
               "quit"}
  /\ cmd \in Command \cup {NULL}
  /\ got \in ToServer \cup {NULL}
  /\ result \in {"none", "succ", "fail", "nothing"}
  /\ recEnd \in BOOLEAN
  /\ quit \in 0..1
  /\ scan \in {"off", "reset", "check", "write", "signal"}
  /\ data \in ToDaemon \cup {NULL}
  /\ subIP \in 1..LastSub
  /\ finish \in BOOLEAN
  /\ net \subseteq ToDaemon \cup ToServer
  /\ call \in 0..MaxCalls
  /\ written \in Seq(1..LastSub)
  /\ serving \in 0..MaxCalls
  /\ D!TypeOK

(* A call that scans ends after its goroutine: while it has not taken the  *)
(* value of broadcastQuit, either the goroutine is alive or the value is   *)
(* in the channel, never both, and between calls there is neither.  So two *)
(* scans never share subIP and dstAddr, and no goroutine is left to send   *)
(* on the channel that Quit closes, which would panic.                     *)
ScanEndsWithItsCall ==
  IF ~broadcastValid /\ main \in {"started", "reading", "stopping", "joining"}
    THEN (scan # "off") <=> (quit = 0)
    ELSE scan = "off" /\ quit = 0

(* How often the request of call n, or the reply to it, is in the world.   *)
Copies(n) ==
  Cardinality({ m \in net : m.call = n })
    + (IF req # NULL /\ serving = n THEN 1 ELSE 0)
    + (IF got # NULL /\ got.call = n THEN 1 ELSE 0)

(* Whatever is late or lost, a call puts at most one datagram into the     *)
(* world: the daemon does not handle a request twice, and no reply can be  *)
(* taken for the result of two calls.                                      *)
OneDatagramPerCall == \A n \in 1..MaxCalls : Copies(n) <= 1

Returns == main = "deciding" /\ main' = "idle"

(* With timely replies a call that reports success has taken effect: the   *)
(* daemon holds exactly the service registered, or no longer holds the one *)
(* deregistered; a call reports failure only for a deregistration of a     *)
(* service the daemon does not hold; and if the first call has read        *)
(* nothing, it has asked every address.  A later one need not have: its    *)
(* goroutine may look before recEnd is lowered.                            *)
ResultIsTrue ==
  [][Returns /\ timely =>
       /\ result' = "succ" =>
            IF cmd.action = "register"
              THEN cmd.info \in ToSet(list)
              ELSE ~Registered(list, cmd.device_name, cmd.service_name)
       /\ result' = "fail" =>
            /\ cmd.action = "unregister"
            /\ ~Registered(list, cmd.device_name, cmd.service_name)
       /\ result' = "nothing" /\ call = 1 /\ ~broadcastValid =>
            written = [k \in 1..LastSub |-> k]]_vars

(* Every call returns: the read by its deadline, the goroutine after the   *)
(* last address, and the two of them meet at the channel.                  *)
EveryCallReturns == (main \notin {"idle", "quit"}) ~> (main = "idle")

(* golang test/server.go:33-39 prints "succ" for a deregistration as soon  *)
(* as UnRegisterService returns true: the service has been deregistered.   *)
DeregistrationIsTrue ==
  [][Returns /\ result' = "succ" /\ cmd.action = "unregister" =>
       ~Registered(list, cmd.device_name, cmd.service_name)]_vars
=============================================================================
