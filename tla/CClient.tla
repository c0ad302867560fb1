------------------------------- MODULE CClient -------------------------------
(***************************************************************************)
(* The library a C program links to find a daemon: register_service and    *)
(* unregister_service of c/provider/server.c, inquiry_service of client.c. *)
(* The three are alike: a call makes a udp_client and a packet, starts the *)
(* thread udp_broadcast_data, which sends the packet to the addresses .1,  *)
(* .2, ... one by one until read_end is set, and itself reads replies      *)
(* until a read times out.  Nobody joins the thread: the guard of          *)
(* pthread_join is is_broadcast, and the thread is started when it is 0.   *)
(* The caller then frees what the thread uses: the packet, and after an    *)
(* inquiry the udp_client too.                                             *)
(*                                                                         *)
(* Every call has a socket of its own, so a reply to an earlier call can   *)
(* reach no later one.  A daemon, wherever it is, handles a request in one *)
(* step; CDaemon has the detail.                                           *)
(***************************************************************************)
EXTENDS ServiceList, Interfaces

CONSTANTS
  LastSub,    \* the last address of the scan, 254 in the code
  Host,       \* the addresses at which a daemon answers
  MaxCalls    \* bound: how many calls the program makes

ASSUME CClientAssumption ==
  /\ LastSub \in Nat \ {0}
  /\ Host \subseteq 1..LastSub
  /\ MaxCalls \in Nat

Calls == 1..MaxCalls

VARIABLES
  timing,       \* what happens within a read timeout of 500 ms, see TimeIsUp
  lossy,        \* the network can lose datagrams
  ifaddrs,      \* the machine's network interfaces, in the order of the kernel
  sockets,      \* how many sockets the process may have open
  main,         \* the caller: idle, failing, reading, freeing or closing
  cmd,          \* the request of the call under way, or NULL
  ret,          \* check_result of server.c: 0, or -1 for no success
  found,        \* check_result of client.c: the services found
  call,         \* the number of the latest call
  kept,         \* the calls that were no inquiry
  asked,        \* the addresses the call under way has written to
  before,       \* the daemons that held its service when a deregistration began
  read_end,     \* of each call's udp_client: a reply has been read
  sub_ip,       \* of each call's udp_client: the next address of the scan
  thread,       \* each call's thread: off, reset, check, write or done
  finish,       \* of each thread: the last address has been prepared
  data,         \* each call's packet, or NULL when it has been freed
  client_freed, \* the calls whose udp_client has been freed
  fault,        \* the call whose thread has touched freed memory, or 0
  net,          \* the datagrams in flight
  reg           \* each daemon's services

environment == <<timing, lossy, ifaddrs, sockets>>
callVars == <<cmd, ret, found, before>>
mainVars == <<main, call, kept, callVars>>
clientVars == <<read_end, data, client_freed>>
threadVars == <<sub_ip, thread, finish, asked, fault>>
vars == <<environment, mainVars, clientVars, threadVars, reg, net>>

ToDaemon == { [to |-> h, call |-> n, pkt |-> r] :
                h \in Host, n \in Calls, r \in Request }

ToClient == { [to |-> 0, call |-> n, pkt |-> r, from |-> h] :
                h \in Host, n \in Calls, r \in Reply }

(* Two bounds keep the three timings within one run.  Only the properties  *)
(* of the quick scan tell a network that can lose datagrams from one that  *)
(* does not; under "any" a datagram as late as may be stands for a lost    *)
(* one.  And only those properties look at the services and at who was     *)
(* asked, so only there may other programs have registered some before,    *)
(* or the machine have other interfaces or few sockets.  It runs no daemon *)
(* itself.                                                                 *)
Init ==
  /\ timing \in {"quick", "steady", "any"}
  /\ lossy \in IF timing = "quick" THEN BOOLEAN ELSE {timing = "steady"}
  /\ main = "idle" /\ cmd = NULL /\ ret = -1 /\ found = <<>>
  /\ asked = {} /\ before = {}
  /\ call = 0 /\ kept = {}
  /\ read_end = [n \in Calls |-> FALSE]
  /\ sub_ip = [n \in Calls |-> 0]
  /\ thread = [n \in Calls |-> "off"]
  /\ finish = [n \in Calls |-> FALSE]
  /\ data = [n \in Calls |-> NULL]
  /\ client_freed = {}
  /\ fault = 0
  /\ net = {}
  /\ reg \in [Host -> {<<>>} \cup { <<e>> : e \in Entry }]
  /\ timing = "quick" \/ reg = [h \in Host |-> <<>>]
  /\ ifaddrs \in {<<Lo, Lan>>, <<Lo, Bridge, Lan>>, <<Lo>>, <<>>}
  /\ sockets \in {1, MaxCalls}
  /\ timing = "quick" \/ (ifaddrs = <<Lo, Lan>> /\ sockets = MaxCalls)

-----------------------------------------------------------------------------
(* The sockets not closed: only an inquiry calls deinit_udp_client.        *)
Open == { n \in 1..call : thread[n] # "off" } \ client_freed

(* init_udp_client, which zeroes the struct; write_and_get_result, which   *)
(* starts the thread.  If no socket is left the call returns at once.      *)
StartCall(pkt) ==
  /\ main = "idle" /\ fault = 0
  /\ call < MaxCalls
  /\ call' = call + 1
  /\ cmd' = pkt
  /\ kept' = IF pkt.action = "inquiry" THEN kept ELSE kept \cup {call'}
  /\ before' = IF pkt.action = "unregister"
                 THEN { h \in Host :
                          Registered(reg[h], pkt.device_name, pkt.service_name) }
                 ELSE {}
  /\ IF Cardinality(Open) < sockets
       THEN /\ data' = [data EXCEPT ![call'] = pkt]
            /\ thread' = [thread EXCEPT ![call'] = "reset"]
            /\ main' = "reading"
       ELSE main' = "failing" /\ UNCHANGED <<data, thread>>
  /\ UNCHANGED <<environment, ret, found, asked, read_end, client_freed,
                 sub_ip, finish, fault, reg, net>>

RegisterService == \E info \in Entry : StartCall(RegisterPkt(info))

UnregisterService ==
  \E d \in Device, s \in Service : StartCall(UnregisterPkt(d, s))

InquiryService == \E s \in Service : StartCall(InquiryPkt(s))

(* Mutant of CheckResult: a refusal takes a success back.                  *)
CheckResultLastWins(reply) ==
  /\ ret' = IF reply.action = "succ" THEN 0 ELSE -1
  /\ UNCHANGED found

(* check_result of server.c: any success counts.                           *)
CheckResult(reply) ==
  /\ ret' = IF reply.action = "succ" THEN 0 ELSE ret
  /\ UNCHANGED found

(* Mutant of CheckServices: the first service found is the only one kept.  *)
CheckServicesFirstOnly(reply) ==
  /\ found' = IF reply.action = "succ" /\ found = <<>>
                THEN <<reply.info>> ELSE found
  /\ UNCHANGED ret

(* Mutant of CheckServices: what comes with a refusal is added, too.       *)
CheckServicesAddsAll(reply) ==
  found' = Append(found, reply.info) /\ UNCHANGED ret

(* check_result of client.c: every service is added to the list.           *)
CheckServices(reply) ==
  /\ found' = IF reply.action = "succ" THEN ListAdd(found, reply.info)
                                       ELSE found
  /\ UNCHANGED ret

Check(reply) ==
  IF cmd.action = "inquiry" THEN CheckServices(reply) ELSE CheckResult(reply)

(* Mutant of ReadReply: the reply is looked at, not taken out.             *)
ReadReplyPeeks ==
  /\ main = "reading" /\ fault = 0
  /\ \E m \in net : /\ m.to = 0 /\ m.call = call
                    /\ Check(m.pkt)
  /\ read_end' = [read_end EXCEPT ![call] = TRUE]
  /\ UNCHANGED <<environment, main, cmd, call, kept, before, data, client_freed,
                 threadVars, reg, net>>

(* udp_client_read returns a reply.                                        *)
ReadReply ==
  /\ main = "reading" /\ fault = 0
  /\ \E m \in net : /\ m.to = 0 /\ m.call = call
                    /\ net' = net \ {m}
                    /\ Check(m.pkt)
  /\ read_end' = [read_end EXCEPT ![call] = TRUE]
  /\ UNCHANGED <<environment, main, cmd, call, kept, before, data, client_freed,
                 threadVars, reg>>

(* When may a read time out?  In each case the 500 ms are enough for a     *)
(* request to be answered.  "steady": and for one iteration of the thread, *)
(* so that it has noticed read_end.  "quick": and for the whole scan.      *)
(* "any": no time is enough for anything.                                  *)
TimeIsUp ==
  /\ timing \in {"quick", "steady"} => ~\E m \in net : m.call = call
  /\ timing = "steady" /\ read_end[call] => thread[call] = "done"
  /\ timing = "quick" => thread[call] = "done"

(* The read times out, and check_result returns.  pthread_join is skipped. *)
ReadTimeout ==
  /\ main = "reading" /\ fault = 0
  /\ TimeIsUp
  /\ main' = "freeing"
  /\ UNCHANGED <<environment, call, kept, callVars, clientVars, threadVars, reg,
                 net>>

(* What a call has returned is the caller's, and none of the next call's.  *)
EndCall ==
  /\ main' = "idle"
  /\ cmd' = NULL /\ ret' = -1 /\ found' = <<>>
  /\ asked' = {} /\ before' = {}

(* init_udp_client has returned NULL.                                      *)
NoClient ==
  /\ main = "failing" /\ fault = 0
  /\ EndCall
  /\ UNCHANGED <<environment, call, kept, clientVars, sub_ip, thread, finish,
                 fault, reg, net>>

(* Mutant of FreePkt: the packet is freed once the thread has been started *)
(* and the caller reads on.                                                *)
FreePktEarly ==
  /\ main \in {"reading", "freeing"} /\ fault = 0
  /\ data' = [data EXCEPT ![call] = NULL]
  /\ CASE main = "reading" -> UNCHANGED <<main, callVars, asked>>
       [] main = "freeing" /\ cmd.action = "inquiry" ->
            main' = "closing" /\ UNCHANGED <<callVars, asked>>
       [] OTHER -> EndCall
  /\ UNCHANGED <<environment, call, kept, read_end, client_freed, sub_ip, thread,
                 finish, fault, reg, net>>

(* free_pkt; register_service and unregister_service return.               *)
FreePkt ==
  /\ main = "freeing" /\ fault = 0
  /\ data' = [data EXCEPT ![call] = NULL]
  /\ IF cmd.action = "inquiry"
       THEN main' = "closing" /\ UNCHANGED <<callVars, asked>>
       ELSE EndCall
  /\ UNCHANGED <<environment, call, kept, read_end, client_freed, sub_ip, thread,
                 finish, fault, reg, net>>

(* deinit_udp_client; inquiry_service returns.                             *)
Deinit ==
  /\ main = "closing" /\ fault = 0
  /\ client_freed' = client_freed \cup {call}
  /\ EndCall
  /\ UNCHANGED <<environment, call, kept, read_end, data, sub_ip, thread, finish,
                 fault, reg, net>>

-----------------------------------------------------------------------------
(* A thread touches freed memory.  What it does then the code does not     *)
(* determine, and the behaviour ends here.                                 *)
Fault(n) ==
  /\ fault' = n
  /\ UNCHANGED <<environment, mainVars, clientVars, reg, net, sub_ip,
                 thread, finish, asked>>

ThreadReset(n) ==
  /\ thread[n] = "reset" /\ fault = 0
  /\ IF n \in client_freed THEN Fault(n) ELSE
       /\ sub_ip' = [sub_ip EXCEPT ![n] = 1]
       /\ thread' = [thread EXCEPT ![n] = "check"]
       /\ UNCHANGED <<environment, mainVars, clientVars, reg, net,
                      finish, asked, fault>>

(* The loop condition, and the break when a reply has been read.           *)
ThreadCheck(n) ==
  /\ thread[n] = "check" /\ fault = 0
  /\ IF ~finish[n] /\ n \in client_freed THEN Fault(n) ELSE
       /\ thread' = [thread EXCEPT ![n] =
                       IF finish[n] \/ read_end[n] THEN "done" ELSE "write"]
       /\ UNCHANGED <<environment, mainVars, clientVars, reg, net,
                      sub_ip, finish, asked, fault>>

(* prepare_sub_addr and udp_client_write.                                  *)
ThreadWrite(n) ==
  /\ thread[n] = "write" /\ fault = 0
  /\ IF n \in client_freed \/ data[n] = NULL THEN Fault(n) ELSE
       /\ asked' = IF n = call /\ main # "idle"
                     THEN asked \cup {<<LocalNet(ifaddrs), sub_ip[n]>>} ELSE asked
       /\ net' = IF LocalNet(ifaddrs) = "lan" /\ sub_ip[n] \in Host
                   THEN net \cup {[to |-> sub_ip[n], call |-> n, pkt |-> data[n]]}
                   ELSE net
       /\ IF sub_ip[n] < LastSub
            THEN sub_ip' = [sub_ip EXCEPT ![n] = @ + 1] /\ UNCHANGED finish
            ELSE finish' = [finish EXCEPT ![n] = TRUE] /\ UNCHANGED sub_ip
       /\ thread' = [thread EXCEPT ![n] = "check"]
       /\ UNCHANGED <<environment, mainVars, clientVars, reg, fault>>

Thread(n) == ThreadReset(n) \/ ThreadCheck(n) \/ ThreadWrite(n)

-----------------------------------------------------------------------------
(* The services at the head of the list that have the name.                *)
Prefix(l, s) ==
  { l[k] : k \in { k \in 1..Len(l) : \A j \in 1..k : l[j].service_name = s } }

(* What a C daemon with the list l replies to a request.                   *)
Replies(l, r) ==
  CASE r.action = "register" -> {ResultPkt(TRUE)}
    [] r.action = "unregister" ->
         {ResultPkt(Registered(l, r.device_name, r.service_name))}
    [] r.action = "inquiry" ->
         IF Prefix(l, r.service_name) = {} THEN {ResultPkt(FALSE)}
         ELSE { InquiryResultPkt(e) : e \in Prefix(l, r.service_name) }

(* The list a C daemon is left with.                                       *)
Handled(l, r) ==
  CASE r.action = "register" -> ListAdd(l, r.info)
    [] r.action = "unregister" -> ListRemove(l, r.device_name, r.service_name)
    [] r.action = "inquiry" -> l

(* A request arrives and is handled.  Replies to a call that has returned  *)
(* are read by nobody and left out.                                        *)
DaemonHandle ==
  /\ fault = 0
  /\ \E m \in net :
       /\ m.to # 0
       /\ reg' = [reg EXCEPT ![m.to] = Handled(@, m.pkt)]
       /\ net' = (net \ {m}) \cup
            IF m.call = call /\ main = "reading"
              THEN { [to |-> 0, call |-> m.call, pkt |-> r, from |-> m.to] :
                       r \in Replies(reg[m.to], m.pkt) }
              ELSE {}
  /\ UNCHANGED <<environment, mainVars, clientVars, threadVars>>

Lose ==
  /\ lossy /\ fault = 0
  /\ \E m \in net : net' = net \ {m}
  /\ UNCHANGED <<environment, mainVars, clientVars, threadVars, reg>>

(* The program has ended, or nothing can be said of it.                    *)
Over ==
  /\ \/ fault # 0
     \/ main = "idle" /\ call = MaxCalls
  /\ UNCHANGED vars

Next ==
  \/ RegisterService \/ UnregisterService \/ InquiryService
  \/ NoClient \/ ReadReply \/ ReadTimeout \/ FreePkt \/ Deinit
  \/ \E n \in Calls : Thread(n)
  \/ DaemonHandle \/ Lose \/ Over

Fairness ==
  /\ WF_vars(ReadReply \/ ReadTimeout)
  /\ WF_vars(NoClient \/ FreePkt \/ Deinit)
  /\ \A n \in Calls : WF_vars(Thread(n))
  /\ WF_vars(DaemonHandle)

Spec == Init /\ [][Next]_vars /\ Fairness

-----------------------------------------------------------------------------
(* The variables hold what their declarations say.                         *)
TypeOK ==
  /\ timing \in {"quick", "steady", "any"} /\ lossy \in BOOLEAN
  /\ main \in {"idle", "failing", "reading", "freeing", "closing"}
  /\ cmd \in Request \cup {NULL}
  /\ ret \in {0, -1}
  /\ found \in Seq(Entry)
  /\ call \in 0..MaxCalls /\ kept \subseteq 1..call
  /\ sockets \in Nat
  /\ read_end \in [Calls -> BOOLEAN]
  /\ sub_ip \in [Calls -> 0..LastSub]
  /\ thread \in [Calls -> {"off", "reset", "check", "write", "done"}]
  /\ finish \in [Calls -> BOOLEAN]
  /\ data \in [Calls -> Request \cup {NULL}]
  /\ client_freed \subseteq { n \in 1..call : data[n] = NULL }
  /\ fault \in 0..call
  /\ net \subseteq ToDaemon \cup ToClient
  /\ reg \in [Host -> Seq(Entry)]
  /\ before \subseteq Host
  /\ ifaddrs \in Seq(Interface)
  /\ asked \subseteq Net \X (1..LastSub)

(* Freeing without joining touches freed memory, but not if the whole scan *)
(* takes less than a read timeout; and if only the single steps of the     *)
(* thread do, then only after a call that read no reply at all: a reply    *)
(* stops the thread, and the last read takes 500 ms more.                  *)
FaultNeedsSlowScan ==
  fault # 0 => timing # "quick" /\ (timing = "steady" => ~read_end[fault])

Returns == main # "idle" /\ main' = "idle"

(* The daemons the call has asked.                                         *)
Asked == { h \in Host : <<"lan", h>> \in asked }

(* Quick scan, no loss.  A registration succeeds if there is a daemon in   *)
(* the one network used (README.md:24), and then all the daemons asked     *)
(* hold the service; a deregistration succeeds if and only if a daemon     *)
(* that was asked held the service, and none of those asked holds it any   *)
(* more, in whatever order they reply.  But every registration and         *)
(* deregistration uses up a socket, and when as many have been made as     *)
(* there are sockets, calls fail; inquiries give theirs back.              *)
ResultTellsTruth ==
  [][Returns =>
       /\ main = "failing" => Cardinality(kept \ {call}) >= sockets /\ ret = -1
       /\ timing = "quick" /\ ~lossy =>
            /\ cmd.action = "register" =>
                 /\ ret = 0 <=> main # "failing" /\ Host # {} /\ LanFirst(ifaddrs)
                 /\ \A h \in Asked : cmd.info \in ToSet(reg[h])
            /\ cmd.action = "unregister" =>
                 /\ ret = 0 <=> Asked \cap before # {}
                 /\ \A h \in Asked :
                      ~Registered(reg[h], cmd.device_name, cmd.service_name)]_vars

(* Quick scan, no loss.  An inquiry returns what the daemons it asked have *)
(* at the head of their lists under the name, each device and service name *)
(* once, also if several daemons hold it.                                  *)
InquiryFindsAsked ==
  [][Returns /\ cmd.action = "inquiry" /\ timing = "quick" /\ ~lossy =>
       LET there == UNION { Prefix(reg[h], cmd.service_name) : h \in Asked }
       IN  /\ UniqueKeys(found)
           /\ ToSet(found) \subseteq there
           /\ \A e \in there : \E f \in ToSet(found) : SameKey(e, f)]_vars

(* Every call returns, unless the thread of an earlier one has run into    *)
(* freed memory.                                                           *)
EveryCallReturns == (main # "idle") ~> (main = "idle" \/ fault # 0)
=============================================================================
