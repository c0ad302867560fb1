------------------------------ MODULE Protocal ------------------------------
(***************************************************************************)
(* The vocabulary of the wire protocol: what protocal.c, protocal.go and   *)
(* Protocal.java put into the 1024-byte datagrams and take out of them.    *)
(* A datagram is the record its header and its JSON body decode to.  The   *)
(* fields ip, port and info of a service never decide anything, so one     *)
(* value of Info stands for the three of them.                             *)
(***************************************************************************)

CONSTANTS
  Device,   \* device names
  Service,  \* service names
  Info,     \* what is registered under a name: ip, port and description
  NULL      \* the null pointer, and "no request"

(* A service_info as it is stored by a daemon.                             *)
Entry == [device_name : Device, service_name : Service, info : Info]

RegisterPkt(e) == [action |-> "register", info |-> e]

UnregisterPkt(d, s) ==
  [action |-> "unregister", device_name |-> d, service_name |-> s]

InquiryPkt(s) == [action |-> "inquiry", service_name |-> s]

(* The requests a daemon can be sent.                                      *)
Request ==
  { RegisterPkt(e) : e \in Entry }
    \cup { UnregisterPkt(d, s) : d \in Device, s \in Service }
    \cup { InquiryPkt(s) : s \in Service }

(* The result of a registration or deregistration, and the answer to an    *)
(* inquiry that matches nothing (reason SERVICE_NO_FOUND).                 *)
ResultPkt(succ) == [action |-> IF succ THEN "succ" ELSE "fail", info |-> NULL]

(* One service found by an inquiry.                                        *)
InquiryResultPkt(e) == [action |-> "succ", info |-> e]

Reply == [action : {"succ", "fail"}, info : Entry \cup {NULL}]

(* NULL is no service and no request.                                      *)
ASSUME NullAssumption == NULL \notin Entry /\ NULL \notin Request
=============================================================================
