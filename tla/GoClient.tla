------------------------------- MODULE GoClient -------------------------------
(***************************************************************************)
(* The searching side in Go, golang client.go: one ClientData, whose owner *)
(* calls InquiryService one time after the other and Quit at the end.  As  *)
(* in server.go a goroutine scans the network while the call reads, but    *)
(* the call reads on after a success, until a read fails or a reply says   *)
(* that nothing was found.  The socket, recEnd, subIP and broadcastQuit    *)
(* serve all calls.                                                        *)
(*                                                                         *)
(* The daemons are Go daemons, each with a list that stays as it is.  One  *)
(* answers with the slots of its slice and dies of the first nil one, as   *)
(* GoDaemon has it; here the loop over the slots is one step.  As a bound, *)
(* answers fit a datagram.                                                 *)
(* Init, Next and Spec are left to GoDaemon, for GoDaemonProofs speaks of  *)
(* both.                                                                   *)
(***************************************************************************)
EXTENDS ServiceList, Interfaces

CONSTANTS
  LastSub,     \* the last address of the scan, 254 in the code
  Host,        \* the addresses at which there may be a daemon
  Here,        \* the address of the machine the client runs on
  MaxCalls,    \* bound: how many calls the owner makes
  MaxHeld      \* bound: how many services a daemon holds at first

ASSUME GoClientAssumption ==
  /\ LastSub \in Nat \ {0}
  /\ Host \subseteq 1..LastSub /\ Here \in 1..LastSub
  /\ MaxCalls \in Nat /\ MaxHeld \in Nat

VARIABLES
  ifaddrs,     \* the machine's network interfaces, in the order of the kernel
  timely,      \* of the network: every reply comes, within the 500 ms of a read
  daemons,     \* the addresses at which a daemon answers
  main,        \* the owner: idle, started, reading, joining or quit
  name,        \* the service name of the latest call, or NULL
  infos,       \* what the latest call has found
  recEnd,      \* a read of the latest call has returned
  quit,        \* how many values the channel broadcastQuit holds
  scan,        \* the goroutine: off, reset, check, write or signal
  subIP,       \* the next address of the scan
  finish,      \* the last address has been prepared
  written,     \* the addresses the latest call has written to
  net,         \* the datagrams in flight, or waiting in the socket
  call,        \* the number of the latest call
  held,        \* each daemon's list of services
  died         \* the latest call when each daemon died, 0 while it lives

environment == <<ifaddrs, timely, daemons, held>>
mainVars == <<main, name, infos, call>>
scanVars == <<scan, subIP, finish, written>>
clientVars == <<environment, died, mainVars, scanVars, recEnd, quit, net>>

ToDaemon == { [to |-> h, call |-> n, pkt |-> InquiryPkt(s)] :
                h \in Host, n \in 1..MaxCalls, s \in Service }

ToClient == { [to |-> 0, from |-> h, call |-> n, pkt |-> r] :
                h \in Host, n \in 1..MaxCalls, r \in Reply }

(* GetUDPClient: without a /24 network the socket "broadcasts", to the     *)
(* loopback address.                                                       *)
network == GetLocalIPv4Network(ifaddrs)

broadcastValid == network = "loopback"

(* GetClientData.  As a bound, daemons that are several or answer late     *)
(* hold one service at most, and so do those that a client without the     *)
(* usual interfaces may ask.                                               *)
ClientInit ==
  /\ ifaddrs \in {<<Lo, Lan>>, <<Lo, Bridge, Lan>>, <<Lo, WideLan>>, <<>>}
  /\ daemons \in SUBSET Host
  /\ timely \in BOOLEAN
  /\ main = "idle" /\ name = NULL /\ infos = <<>> /\ call = 0
  /\ recEnd = FALSE
  /\ quit = 0
  /\ scan = "off" /\ subIP = 1 /\ finish = FALSE /\ written = {}
  /\ net = {}
  /\ held \in [daemons -> { l \in SeqOf(Entry, MaxHeld) : UniqueKeys(l) }]
  /\ died = [h \in daemons |-> 0]
  /\ \/ timely /\ Cardinality(daemons) <= 1 /\ ifaddrs = <<Lo, Lan>>
     \/ \A h \in daemons : Len(held[h]) <= 1

Datagram(h) == [to |-> h, call |-> call, pkt |-> InquiryPkt(name)]

-----------------------------------------------------------------------------
(* InquiryService is called: the go statement, or the one datagram.        *)
StartCall ==
  /\ main = "idle"
  /\ call < MaxCalls
  /\ call' = call + 1
  /\ name' \in Service
  /\ infos' = <<>>
  /\ IF broadcastValid
       THEN /\ net' = net \cup { Datagram(h)' : h \in daemons \cap {Here} }
            /\ written' = {<<network, Here>>}
            /\ UNCHANGED scan
       ELSE /\ scan' = "reset"
            /\ written' = {}
            /\ UNCHANGED net
  /\ main' = "started"
  /\ UNCHANGED <<environment, died, recEnd, quit, subIP, finish>>

(* d.recEnd = false, after the go statement.                               *)
LowerRecEnd ==
  /\ main = "started"
  /\ recEnd' = FALSE
  /\ main' = "reading"
  /\ UNCHANGED <<environment, died, name, infos, call, scanVars, quit, net>>

(* The loop is left; a call that has scanned waits for its goroutine.      *)
LeaveLoop == main' = IF broadcastValid THEN "idle" ELSE "joining"

(* Mutant of ReadSucc: the slice is overwritten.                           *)
ReadSuccOverwrites ==
  /\ main = "reading"
  /\ \E m \in net : /\ m.to = 0 /\ m.pkt.action = "succ"
                    /\ net' = net \ {m}
                    /\ infos' = <<m.pkt.info>>
  /\ recEnd' = TRUE
  /\ UNCHANGED <<environment, died, main, name, call, scanVars, quit>>

(* Read returns a reply with a service, whichever call it answers.         *)
ReadSucc ==
  /\ main = "reading"
  /\ \E m \in net : /\ m.to = 0 /\ m.pkt.action = "succ"
                    /\ net' = net \ {m}
                    /\ infos' = Append(infos, m.pkt.info)
  /\ recEnd' = TRUE
  /\ UNCHANGED <<environment, died, main, name, call, scanVars, quit>>

(* Mutant of ReadFail: the reason is appended like a service.              *)
ReadFailAppends ==
  /\ main = "reading"
  /\ \E m \in net : /\ m.to = 0 /\ m.pkt.action = "fail"
                    /\ net' = net \ {m}
                    /\ infos' = Append(infos, m.pkt.info)
  /\ recEnd' = TRUE
  /\ LeaveLoop
  /\ UNCHANGED <<environment, died, name, call, scanVars, quit>>

(* Read returns a "service no found": the loop breaks.                     *)
ReadFail ==
  /\ main = "reading"
  /\ \E m \in net : /\ m.to = 0 /\ m.pkt.action = "fail"
                    /\ net' = net \ {m}
  /\ recEnd' = TRUE
  /\ LeaveLoop
  /\ UNCHANGED <<environment, died, name, infos, call, scanVars, quit>>

(* Nothing is under way that could still bring a reply.                    *)
Quiet == net = {} /\ scan \in {"off", "signal"}

(* The deadline passes.                                                    *)
ReadNothing ==
  /\ main = "reading"
  /\ timely => Quiet
  /\ recEnd' = TRUE
  /\ LeaveLoop
  /\ UNCHANGED <<environment, died, name, infos, call, scanVars, quit, net>>

(* Mutant of Join: the call does not wait for the scan.                    *)
JoinAtOnce ==
  /\ main = "joining"
  /\ quit' = 0
  /\ main' = "idle"
  /\ UNCHANGED <<environment, died, name, infos, call, scanVars, recEnd, net>>

(* <-d.broadcastQuit, and the call returns.                                *)
Join ==
  /\ main = "joining"
  /\ quit > 0
  /\ quit' = quit - 1
  /\ main' = "idle"
  /\ UNCHANGED <<environment, died, name, infos, call, scanVars, recEnd, net>>

(* Quit closes the channel.                                                *)
Quit ==
  /\ main = "idle"
  /\ main' = "quit"
  /\ UNCHANGED <<environment, died, name, infos, call, scanVars, recEnd, quit,
                 net>>

-----------------------------------------------------------------------------
ScanReset ==
  /\ scan = "reset"
  /\ subIP' = 1 /\ finish' = FALSE
  /\ scan' = "check"
  /\ UNCHANGED <<environment, died, mainVars, recEnd, quit, written, net>>

ScanCheck ==
  /\ scan = "check"
  /\ scan' = IF finish \/ recEnd THEN "signal" ELSE "write"
  /\ UNCHANGED <<environment, died, mainVars, recEnd, quit, subIP, finish,
                 written, net>>

(* PrepareSubAddr and WriteSub.                                            *)
ScanWrite ==
  /\ scan = "write"
  /\ written' = written \cup {<<network, subIP>>}
  /\ net' = IF network = "lan" /\ subIP \in daemons
              THEN net \cup {Datagram(subIP)} ELSE net
  /\ IF subIP < LastSub THEN subIP' = subIP + 1 /\ UNCHANGED finish
                        ELSE finish' = TRUE /\ UNCHANGED subIP
  /\ scan' = "check"
  /\ UNCHANGED <<environment, died, mainVars, recEnd, quit>>

(* d.broadcastQuit <- true; the channel has room for one value.            *)
ScanSignal ==
  /\ scan = "signal"
  /\ quit = 0
  /\ quit' = quit + 1
  /\ scan' = "off"
  /\ UNCHANGED <<environment, died, mainVars, recEnd, subIP, finish, written,
                 net>>

-----------------------------------------------------------------------------
Slots(h, s) == GetAll(held[h], s)

(* What is sent of a slice before its first nil slot.                      *)
Sent(h, s) ==
  { e \in Entry : \E k \in 1..Len(Slots(h, s)) :
      /\ Slots(h, s)[k] = e
      /\ \A j \in 1..k : Slots(h, s)[j] # NULL }

Panics(h, s) == \E k \in 1..Len(Slots(h, s)) : Slots(h, s)[k] = NULL

(* A daemon answers: one failure, or a success per slot until one is nil.  *)
DaemonAnswers ==
  /\ \E m \in net :
       /\ m.to # 0 /\ died[m.to] = 0
       /\ LET s == m.pkt.service_name
              replies == IF GetCount(held[m.to], s) = 0
                           THEN {ResultPkt(FALSE)}
                           ELSE { InquiryResultPkt(e) : e \in Sent(m.to, s) }
          IN  /\ net' = (net \ {m}) \cup
                     { [to |-> 0, from |-> m.to, call |-> m.call, pkt |-> r] :
                         r \in replies }
              /\ died' = IF Panics(m.to, s) THEN [died EXCEPT ![m.to] = call]
                                            ELSE died
  /\ UNCHANGED <<environment, mainVars, scanVars, recEnd, quit>>

(* A request comes to the port of a daemon that has died.                  *)
NobodyAnswers ==
  /\ \E m \in net : /\ m.to # 0 /\ died[m.to] # 0
                    /\ net' = net \ {m}
  /\ UNCHANGED <<environment, died, mainVars, scanVars, recEnd, quit>>

Lose ==
  /\ ~timely
  /\ \E m \in net : net' = net \ {m}
  /\ UNCHANGED <<environment, died, mainVars, scanVars, recEnd, quit>>

(* The client has quit and nothing is asked any more.                      *)
Over == main = "quit" /\ ~(\E m \in net : m.to # 0) /\ UNCHANGED clientVars

Read == ReadSucc \/ ReadFail \/ ReadNothing

Scan == ScanReset \/ ScanCheck \/ ScanWrite \/ ScanSignal

ClientNext ==
  \/ StartCall \/ LowerRecEnd \/ Read \/ Join \/ Quit
  \/ Scan \/ DaemonAnswers \/ NobodyAnswers \/ Lose \/ Over

ClientSpec == ClientInit /\ [][ClientNext]_clientVars

-----------------------------------------------------------------------------
(* The variables hold what their declarations say.                         *)
ClientTypeOK ==
  /\ ifaddrs \in Seq(Interface) /\ timely \in BOOLEAN
  /\ daemons \subseteq Host
  /\ main \in {"idle", "started", "reading", "joining", "quit"}
  /\ name \in Service \cup {NULL}
  /\ infos \in Seq(Entry)
  /\ recEnd \in BOOLEAN
  /\ quit \in 0..1
  /\ scan \in {"off", "reset", "check", "write", "signal"}
  /\ subIP \in 1..LastSub
  /\ finish \in BOOLEAN
  /\ written \subseteq Net \X (1..LastSub)
  /\ net \subseteq ToDaemon \cup ToClient
  /\ call \in 0..MaxCalls
  /\ held \in [daemons -> Seq(Entry)]
  /\ died \in [daemons -> 0..MaxCalls]

(* A call that scans ends after its goroutine, however late replies are:   *)
(* two scans never share subIP, and none is left to send on the channel    *)
(* that Quit closes, which would panic.                                    *)
ScanEndsWithItsCall ==
  IF ~broadcastValid /\ main \in {"started", "reading", "joining"}
    THEN (scan # "off") <=> (quit = 0)
    ELSE scan = "off" /\ quit = 0

Returns == main \in {"reading", "joining"} /\ main' = "idle"

(* The daemons the latest call has asked.                                  *)
Asked == { h \in daemons : \/ <<"lan", h>> \in written
                           \/ h = Here /\ <<"loopback", h>> \in written }

(* The services with the name that no other service stands in front of.    *)
InFront(l, s) == { e \in Matching(l, s) : \E k \in 1..Len(l) :
                     /\ l[k] = e
                     /\ \A j \in 1..k : l[j].service_name = s }

(* With one daemon and every reply in time, an inquiry returns the         *)
(* services with the name at the head of the daemon's list, each once, if  *)
(* it has asked it and no earlier call has killed it.  If it returns less  *)
(* than the daemon holds under the name, the daemon is dead.  The first    *)
(* inquiry has asked it, on a machine that has one /24 network; a later    *)
(* one may be cut short by the recEnd of the call before.                  *)
InquiryIsTrue ==
  [][Returns /\ timely /\ Cardinality(daemons) <= 1 =>
       LET there == UNION { InFront(held[h], name) :
                              h \in { g \in Asked : died[g] \in {0, call} } }
       IN  /\ ToSet(infos) = there
           /\ Len(infos) = Cardinality(there)
           /\ \A h \in Asked : \/ died[h] # 0
                               \/ Matching(held[h], name) \subseteq there
           /\ call = 1 /\ ifaddrs = <<Lo, Lan>> => Asked = daemons]_clientVars
=============================================================================
