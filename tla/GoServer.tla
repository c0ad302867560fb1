------------------------------- MODULE GoServer -------------------------------
(***************************************************************************)
(* The registering side in Go, golang server.go: one ServerData, whose     *)
(* owner calls RegisterService and UnRegisterService one after the other   *)
(* and Quit at the end.  Each call of GetResult starts the goroutine       *)
(* UDPBroadcastData, which sends the request to the addresses .1, .2, ...  *)
(* of the network one by one, and meanwhile reads one reply.  The two      *)
(* goroutines share recEnd, subIP and the channel broadcastQuit.           *)
(*                                                                         *)
(* The daemon that may answer has address Daemon; a datagram to another    *)
(* address reaches nobody.  Datagrams may be overtaken and lost.  call and *)
(* the field of the same name only serve the properties: the program does  *)
(* not number its calls, so it cannot tell whose reply it reads.           *)
(***************************************************************************)
EXTENDS ServiceList

CONSTANTS
  LastSub,     \* the last address of the scan, 254 in the code
  Daemon,      \* the address of the daemon
  MaxCalls     \* bound: how many calls the owner makes

ASSUME GoServerAssumption ==
  /\ LastSub \in Nat \ {0}
  /\ Daemon \in 1..LastSub
  /\ MaxCalls \in Nat

VARIABLES
  broadcastValid, \* the socket broadcasts: there is only the loopback address
  timely,      \* of the network: a reply takes less than the 500 ms of a read
  main,        \* the owner: idle, started, reading, stopping, joining or quit
  cmd,         \* the request of the call under way, or NULL
  got,         \* the reply the call under way has read, or NULL
  result,      \* what the latest call returned
  recEnd,      \* the call has stopped reading
  quit,        \* how many values the channel broadcastQuit holds
  scan,        \* the goroutine: off, reset, check, write or signal
  data,        \* the datagram the goroutine was started with, or NULL
  subIP,       \* the next address of the scan
  finish,      \* the last address has been prepared
  net,         \* the datagrams in flight
  call,        \* the number of the latest call
  written      \* the addresses the latest call has written to, in order

environment == <<broadcastValid, timely>>
mainVars == <<main, cmd, got, result>>
scanVars == <<scan, data, subIP, finish, written>>
serverVars == <<environment, mainVars, scanVars, recEnd, quit, net, call>>

Command ==
  { RegisterPkt(e) : e \in Entry }
    \cup { UnregisterPkt(d, s) : d \in Device, s \in Service }

ToDaemon == { [to |-> "daemon", call |-> n, pkt |-> c] :
                n \in 1..MaxCalls, c \in Command }

ToServer == { [to |-> "server", call |-> n, pkt |-> r] :
                n \in 1..MaxCalls, r \in Reply }

(* The null pointer is no datagram.                                        *)
ASSUME NullIsNoDatagram == NULL \notin ToServer

(* GetServerData and GetUDPClient, which finds out about the network: the  *)
(* channel is empty, the flag down.                                        *)
ServerInit ==
  /\ broadcastValid \in BOOLEAN
  /\ timely \in BOOLEAN
  /\ main = "idle" /\ cmd = NULL /\ got = NULL /\ result = "none"
  /\ recEnd = FALSE
  /\ quit = 0
  /\ scan = "off" /\ data = NULL /\ subIP = 1 /\ finish = FALSE
  /\ net = {}
  /\ call = 0
  /\ written = <<>>

-----------------------------------------------------------------------------
(* RegisterService or UnRegisterService is called, and GetResult starts    *)
(* the scan; recEnd still has the value the previous call left.            *)
StartCall ==
  /\ main = "idle"
  /\ ~broadcastValid
  /\ call < MaxCalls
  /\ cmd' \in Command
  /\ call' = call + 1
  /\ scan' = "reset"
  /\ data' = [to |-> "daemon", call |-> call', pkt |-> cmd']
  /\ written' = <<>>
  /\ main' = "started"
  /\ UNCHANGED <<environment, got, result, recEnd, quit, subIP, finish, net>>

(* The other branch of GetResult: one datagram that reaches every address. *)
StartBroadcastCall ==
  /\ main = "idle"
  /\ broadcastValid
  /\ call < MaxCalls
  /\ cmd' \in Command
  /\ call' = call + 1
  /\ net' = net \cup {[to |-> "daemon", call |-> call', pkt |-> cmd']}
  /\ main' = "reading"
  /\ UNCHANGED <<environment, got, result, recEnd, quit, scanVars>>

(* d.recEnd = false, after the go statement.                               *)
LowerRecEnd ==
  /\ main = "started"
  /\ recEnd' = FALSE
  /\ main' = "reading"
  /\ UNCHANGED <<environment, cmd, got, result, quit, scanVars, net, call>>

AfterRead == IF broadcastValid THEN "deciding" ELSE "stopping"

(* Read returns a reply that has arrived, whichever call it answers.       *)
ReadReply ==
  /\ main = "reading"
  /\ \E m \in net : m.to = "server" /\ got' = m /\ net' = net \ {m}
  /\ main' = AfterRead
  /\ UNCHANGED <<environment, cmd, result, recEnd, quit, scanVars, call>>

(* Nothing is under way that could still bring a reply.                    *)
Quiet == net = {} /\ scan \in {"off", "signal"}

(* Mutant of ReadNothing: the read is tried again.                         *)
ReadNothingRetries(stillPossible) ==
  /\ main = "reading"
  /\ timely => ~stillPossible
  /\ UNCHANGED serverVars

(* Read returns with the deadline passed, or another error.                *)
ReadNothing(stillPossible) ==
  /\ main = "reading"
  /\ timely => ~stillPossible
  /\ main' = AfterRead
  /\ UNCHANGED <<environment, cmd, got, result, recEnd, quit,
                 scanVars, net, call>>

(* d.recEnd = true.                                                        *)
RaiseRecEnd ==
  /\ main = "stopping"
  /\ recEnd' = TRUE
  /\ main' = "joining"
  /\ UNCHANGED <<environment, cmd, got, result, quit, scanVars, net, call>>

(* Mutant of Join: the call does not wait for the scan.                    *)
JoinAtOnce ==
  /\ main = "joining"
  /\ quit' = 0
  /\ main' = "deciding"
  /\ UNCHANGED <<environment, cmd, got, result, recEnd, scanVars, net, call>>

(* <-d.broadcastQuit                                                       *)
Join ==
  /\ main = "joining"
  /\ quit > 0
  /\ quit' = quit - 1
  /\ main' = "deciding"
  /\ UNCHANGED <<environment, cmd, got, result, recEnd, scanVars, net, call>>

(* Mutant of Return: a call that has read nothing counts as success.       *)
ReturnSuccByDefault ==
  /\ main = "deciding"
  /\ result' = IF got = NULL THEN "succ" ELSE got.pkt.action
  /\ got' = NULL
  /\ cmd' = NULL
  /\ main' = "idle"
  /\ UNCHANGED <<environment, recEnd, quit, scanVars, net, call>>

(* "read nothing", or what the reply says.                                 *)
Return ==
  /\ main = "deciding"
  /\ result' = IF got = NULL THEN "nothing" ELSE got.pkt.action
  /\ got' = NULL
  /\ cmd' = NULL
  /\ main' = "idle"
  /\ UNCHANGED <<environment, recEnd, quit, scanVars, net, call>>

(* Quit closes the channel.                                                *)
Quit ==
  /\ main = "idle"
  /\ main' = "quit"
  /\ UNCHANGED <<environment, cmd, got, result, recEnd, quit,
                 scanVars, net, call>>

-----------------------------------------------------------------------------
ScanReset ==
  /\ scan = "reset"
  /\ subIP' = 1
  /\ finish' = FALSE
  /\ scan' = "check"
  /\ UNCHANGED <<environment, mainVars, recEnd, quit, data,
                 net, call, written>>

(* The loop condition, and the break when the call has stopped reading.    *)
ScanCheck ==
  /\ scan = "check"
  /\ scan' = IF finish \/ recEnd THEN "signal" ELSE "write"
  /\ UNCHANGED <<environment, mainVars, recEnd, quit, data, subIP, finish,
                 net, call, written>>

(* Mutant of ScanWrite: the address written to is not the one prepared.    *)
ScanWriteEverywhere ==
  /\ scan = "write"
  /\ written' = Append(written, subIP)
  /\ net' = net \cup {data}
  /\ IF subIP < LastSub THEN subIP' = subIP + 1 /\ UNCHANGED finish
                        ELSE finish' = TRUE /\ UNCHANGED subIP
  /\ scan' = "check"
  /\ UNCHANGED <<environment, mainVars, recEnd, quit, data, call>>

(* Mutant of ScanWrite: the scan runs one address too far.                 *)
ScanWritePastLast ==
  /\ scan = "write"
  /\ written' = Append(written, subIP)
  /\ net' = IF subIP = Daemon THEN net \cup {data} ELSE net
  /\ IF subIP <= LastSub THEN subIP' = subIP + 1 /\ UNCHANGED finish
                         ELSE finish' = TRUE /\ UNCHANGED subIP
  /\ scan' = "check"
  /\ UNCHANGED <<environment, mainVars, recEnd, quit, data, call>>

(* PrepareSubAddr and WriteSub.                                            *)
ScanWrite ==
  /\ scan = "write"
  /\ written' = Append(written, subIP)
  /\ net' = IF subIP = Daemon THEN net \cup {data} ELSE net
  /\ IF subIP < LastSub THEN subIP' = subIP + 1 /\ UNCHANGED finish
                        ELSE finish' = TRUE /\ UNCHANGED subIP
  /\ scan' = "check"
  /\ UNCHANGED <<environment, mainVars, recEnd, quit, data, call>>

(* d.broadcastQuit <- true; the channel has room for one value.            *)
ScanSignal ==
  /\ scan = "signal"
  /\ quit = 0
  /\ quit' = quit + 1
  /\ scan' = "off"
  /\ data' = NULL
  /\ UNCHANGED <<environment, mainVars, recEnd, subIP, finish,
                 net, call, written>>

(* A datagram is lost.                                                     *)
Lose ==
  /\ \E m \in net : net' = net \ {m}
  /\ UNCHANGED <<environment, mainVars, scanVars, recEnd, quit, call>>

MainStep == LowerRecEnd \/ RaiseRecEnd \/ Join \/ Return

ScanStep == ScanReset \/ ScanCheck \/ ScanWrite \/ ScanSignal
=============================================================================
