------------------------------ MODULE JavaDaemon ------------------------------
(***************************************************************************)
(* The Android daemon: the thread of ProviderServer.java over              *)
(* ServiceInfoList.java, and stop(), which another thread calls at any     *)
(* time and which closes the socket under the loop.  An inquiry counts the *)
(* matching services and asks the list for positions 0 to count-1, passing *)
(* over those that hold another service.  A head whose length does not fit *)
(* the buffer makes the thread throw an exception that nobody catches, and *)
(* the process dies of it.                                                 *)
(***************************************************************************)
EXTENDS ServiceList

VARIABLES
  list,    \* the registered services, oldest first
  req,     \* the decoded request being handled, or NULL
  count,   \* getCount of the running inquiry; 0 before it is computed
  i,       \* the position the inquiry looks at next
  sent,    \* the replies handed to the socket for the latest request
  closed,  \* the socket has been closed by stop()
  dead     \* the process has died

vars == <<list, req, count, i, sent, closed, dead>>

Init ==
  /\ list = <<>>
  /\ req = NULL
  /\ count = 0
  /\ i = 0
  /\ sent = <<>>
  /\ closed = FALSE
  /\ dead = FALSE

Handling(action) == ~dead /\ req # NULL /\ req.action = action

(* udp.receive returns a datagram that decodes to a request.               *)
Receive ==
  /\ ~closed /\ ~dead
  /\ req = NULL
  /\ req' \in Request
  /\ sent' = <<>>
  /\ UNCHANGED <<list, count, i, closed, dead>>

(* A wrong checksum or another action: the loop goes on.                   *)
Discard ==
  /\ ~closed /\ ~dead
  /\ req = NULL
  /\ sent' = <<>>
  /\ UNCHANGED <<list, req, count, i, closed, dead>>

(* A length that leads past the buffer, where the sum is taken, or a       *)
(* negative one, which the String of the JSON does not take.               *)
ReceiveTooLong ==
  /\ ~closed /\ ~dead
  /\ req = NULL
  /\ sent' = <<>>
  /\ dead' = TRUE
  /\ UNCHANGED <<list, req, count, i, closed>>

(* receive on the closed socket fails and returns 0: the loop goes on, for *)
(* ever.                                                                   *)
ReceiveClosed ==
  /\ closed /\ ~dead
  /\ req = NULL
  /\ UNCHANGED vars

Register ==
  /\ Handling("register")
  /\ list' = ListAdd(list, req.info)
  /\ sent' = <<ResultPkt(TRUE)>>
  /\ req' = NULL
  /\ UNCHANGED <<count, i, closed, dead>>

Unregister ==
  /\ Handling("unregister")
  /\ list' = ListRemove(list, req.device_name, req.service_name)
  /\ sent' = <<ResultPkt(Registered(list, req.device_name, req.service_name))>>
  /\ req' = NULL
  /\ UNCHANGED <<count, i, closed, dead>>

InquiryCount ==
  /\ Handling("inquiry")
  /\ count = 0
  /\ GetCount(list, req.service_name) > 0
  /\ count' = GetCount(list, req.service_name)
  /\ i' = 0
  /\ UNCHANGED <<list, req, sent, closed, dead>>

(* The count is zero: "service no found".                                  *)
InquiryMiss ==
  /\ Handling("inquiry")
  /\ count = 0
  /\ GetCount(list, req.service_name) = 0
  /\ sent' = <<ResultPkt(FALSE)>>
  /\ req' = NULL
  /\ UNCHANGED <<list, count, i, closed, dead>>

(* Mutant of InquiryStep: the loop runs one position past the count.       *)
InquiryStepPastCount ==
  /\ Handling("inquiry")
  /\ 0 < count /\ i <= count
  /\ LET out_info == ListGet(list, req.service_name, i)
     IN  sent' = IF out_info = NULL THEN sent
                 ELSE Append(sent, InquiryResultPkt(out_info))
  /\ i' = i + 1
  /\ UNCHANGED <<list, req, count, closed, dead>>

InquiryStep ==
  /\ Handling("inquiry")
  /\ i < count
  /\ LET out_info == ListGet(list, req.service_name, i)
     IN  sent' = IF out_info = NULL THEN sent
                 ELSE Append(sent, InquiryResultPkt(out_info))
  /\ i' = i + 1
  /\ UNCHANGED <<list, req, count, closed, dead>>

(* The loop is over; its count and index are out of scope.                 *)
InquiryDone ==
  /\ Handling("inquiry")
  /\ count > 0 /\ i = count
  /\ req' = NULL
  /\ count' = 0
  /\ i' = 0
  /\ UNCHANGED <<list, sent, closed, dead>>

(* stop(), called from DaemonApp.onTerminate.  A request already received  *)
(* is still handled; its replies go to a closed socket and are lost.       *)
Stop ==
  /\ ~closed /\ ~dead
  /\ closed' = TRUE
  /\ UNCHANGED <<list, req, count, i, sent, dead>>

(* The daemon has died.                                                    *)
Dead == dead /\ UNCHANGED vars

Handle ==
  \/ Register \/ Unregister
  \/ InquiryCount \/ InquiryMiss \/ InquiryStep \/ InquiryDone

Next ==
  \/ Receive \/ Discard \/ ReceiveTooLong \/ ReceiveClosed
  \/ Handle \/ Stop \/ Dead

Spec == Init /\ [][Next]_vars

-----------------------------------------------------------------------------
(* The variables hold what their declarations say; an inquiry never looks  *)
(* past the services it counted, nor past the list.                        *)
TypeOK ==
  /\ list \in Seq(Entry)
  /\ req \in Request \cup {NULL}
  /\ count \in 0..Len(list)
  /\ i \in 0..count
  /\ sent \in Seq(Reply)
  /\ closed \in BOOLEAN
  /\ dead \in BOOLEAN

(* add removes the older registration first (ServiceInfoList.java:20), so  *)
(* a device and service name never occur twice in the list.                *)
OneServicePerKey == UniqueKeys(list)

(* The positions of the list an inquiry has seen that have the name.       *)
Seen == { k \in 1..i : list[k].service_name = req.service_name }

(* What a running inquiry has sent is the matching services among the      *)
(* positions it has seen, each once.                                       *)
InquirySendsSeen ==
  req # NULL /\ req.action = "inquiry" /\ count > 0 =>
    /\ count = GetCount(list, req.service_name)
    /\ Len(sent) = Cardinality(Seen)
    /\ ToSet(sent) = { InquiryResultPkt(list[k]) : k \in Seen }

InquiryEnds(s) ==
  /\ req # NULL /\ req.action = "inquiry" /\ req.service_name = s
  /\ req' = NULL

(* If the services asked for are at the head of the list, an inquiry ends  *)
(* having sent every one of them once, or "service no found" if none is.   *)
LeadingServicesAnswered ==
  [][\A s \in Service : InquiryEnds(s) /\ Leading(list, s) =>
       /\ Len(sent') = IF Matching(list, s) = {} THEN 1
                       ELSE Cardinality(Matching(list, s))
       /\ ToSet(sent') = IF Matching(list, s) = {} THEN {ResultPkt(FALSE)}
                         ELSE { InquiryResultPkt(e) : e \in Matching(list, s) }
    ]_vars

Holder == INSTANCE ServiceHolder WITH reg <- ToSet(list)

(* The daemon is a service holder that never lies: it keeps the            *)
(* registrations asked for, says "service no found" only if there is none, *)
(* and sends nothing that is not registered, and nothing twice.            *)
ImplementsTruthful == Holder!TruthfulSpec
=============================================================================
