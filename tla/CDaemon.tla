------------------------------- MODULE CDaemon -------------------------------
(***************************************************************************)
(* The C daemon: server_loop of c/provider/daemon.c over the list of       *)
(* c/provider/comm/list.c.  One thread reads a request, handles it to the  *)
(* end and reads the next.  An inquiry sends its replies one by one:       *)
(* list_get is called with i = 0, 1, ... until it returns NULL.            *)
(***************************************************************************)
EXTENDS ServiceList

VARIABLES
  list,             \* the registered services, head first
  req,              \* the decoded request being handled, or NULL
  i,                \* the index of the next list_get of an inquiry
  is_get_service,   \* has this inquiry sent a service?
  sent,             \* the replies sent to the latest request
  running           \* the loop has not been left

vars == <<list, req, i, is_get_service, sent, running>>

(* init_list; the loop has read nothing yet.                               *)
Init ==
  /\ list = <<>>
  /\ req = NULL
  /\ i = 0
  /\ is_get_service = FALSE
  /\ sent = <<>>
  /\ running = TRUE

Handling(action) == running /\ req # NULL /\ req.action = action

(* udp_server_read returns a datagram that decodes to a request.           *)
Receive ==
  /\ running
  /\ req = NULL
  /\ req' \in Request
  /\ i' = 0
  /\ is_get_service' = FALSE
  /\ sent' = <<>>
  /\ UNCHANGED <<list, running>>

(* A datagram with a wrong checksum or another action is skipped.          *)
Discard ==
  /\ running
  /\ req = NULL
  /\ is_get_service' = FALSE
  /\ sent' = <<>>
  /\ UNCHANGED <<list, req, i, running>>

(* udp_server_read fails: the loop is left and the daemon ends.            *)
ReadFail ==
  /\ running
  /\ req = NULL
  /\ running' = FALSE
  /\ UNCHANGED <<list, req, i, is_get_service, sent>>

Register ==
  /\ Handling("register")
  /\ list' = ListAdd(list, req.info)
  /\ sent' = <<ResultPkt(TRUE)>>
  /\ req' = NULL
  /\ UNCHANGED <<i, is_get_service, running>>

(* Mutant of Unregister: the answer ignores what list_remove returned.     *)
UnregisterAlwaysSucc ==
  /\ Handling("unregister")
  /\ list' = ListRemove(list, req.device_name, req.service_name)
  /\ sent' = <<ResultPkt(TRUE)>>
  /\ req' = NULL
  /\ UNCHANGED <<i, is_get_service, running>>

Unregister ==
  /\ Handling("unregister")
  /\ list' = ListRemove(list, req.device_name, req.service_name)
  /\ sent' = <<ResultPkt(Registered(list, req.device_name, req.service_name))>>
  /\ req' = NULL
  /\ UNCHANGED <<i, is_get_service, running>>

(* Mutant of InquiryNext: the first service is followed by the third.      *)
InquiryNextSkips ==
  /\ Handling("inquiry")
  /\ LET ret_info == ListGet(list, req.service_name, i)
     IN  /\ ret_info # NULL
         /\ sent' = Append(sent, InquiryResultPkt(ret_info))
  /\ i' = i + 2
  /\ is_get_service' = TRUE
  /\ UNCHANGED <<list, req, running>>

(* list_get found a service at the index: it is sent, and i advances.      *)
InquiryNext ==
  /\ Handling("inquiry")
  /\ LET ret_info == ListGet(list, req.service_name, i)
     IN  /\ ret_info # NULL
         /\ sent' = Append(sent, InquiryResultPkt(ret_info))
  /\ i' = i + 1
  /\ is_get_service' = TRUE
  /\ UNCHANGED <<list, req, running>>

(* list_get returned NULL: the loop breaks, and "service no found" is sent *)
(* if no service was.                                                      *)
InquiryEnd ==
  /\ Handling("inquiry")
  /\ ListGet(list, req.service_name, i) = NULL
  /\ i' = i + 1
  /\ sent' = IF is_get_service THEN sent ELSE <<ResultPkt(FALSE)>>
  /\ req' = NULL
  /\ UNCHANGED <<list, is_get_service, running>>

Handle == Register \/ Unregister \/ InquiryNext \/ InquiryEnd

(* The daemon has ended.                                                   *)
Ended == ~running /\ UNCHANGED vars

Next == Receive \/ Discard \/ ReadFail \/ Handle \/ Ended

Spec == Init /\ [][Next]_vars

-----------------------------------------------------------------------------
(* The variables hold what their declarations say; in particular the index *)
(* of an inquiry never passes the end of the list by more than the one     *)
(* step with which the loop notices the end.                               *)
TypeOK ==
  /\ list \in Seq(Entry)
  /\ req \in Request \cup {NULL}
  /\ i \in 0..(Len(list) + 1)
  /\ is_get_service \in BOOLEAN
  /\ sent \in Seq(Reply)
  /\ running \in BOOLEAN

(* list_add removes the older registration of a service first, so a device *)
(* and service name never occur twice in the list (list.c:49).             *)
OneServicePerKey == UniqueKeys(list)

(* What a running inquiry has sent is exactly the list up to the index, in *)
(* list order, and all of it has the name asked for; is_get_service tells  *)
(* whether that is anything.                                               *)
InquirySendsPrefix ==
  req # NULL /\ req.action = "inquiry" =>
    /\ i <= Len(list)
    /\ sent = [k \in 1..i |-> InquiryResultPkt(list[k])]
    /\ \A k \in 1..i : list[k].service_name = req.service_name
    /\ is_get_service = (i > 0)

(* The requests that end while an inquiry for s was being handled.         *)
InquiryEnds(s) ==
  /\ req # NULL /\ req.action = "inquiry" /\ req.service_name = s
  /\ req' = NULL

(* If the services asked for are at the head of the list, an inquiry ends  *)
(* having sent every one of them once, or "service no found" if none is.   *)
LeadingServicesAnswered ==
  [][\A s \in Service : InquiryEnds(s) /\ Leading(list, s) =>
       /\ Len(sent') = IF Matching(list, s) = {} THEN 1
                       ELSE Cardinality(Matching(list, s))
       /\ ToSet(sent') = IF Matching(list, s) = {} THEN {ResultPkt(FALSE)}
                         ELSE { InquiryResultPkt(e) : e \in Matching(list, s) }
    ]_vars

Holder == INSTANCE ServiceHolder WITH reg <- ToSet(list)

(* The daemon is a service holder that answers every request: it keeps the *)
(* set of registrations the requests so far ask for, says truthfully what  *)
(* became of a deregistration, replies to every inquiry, and sends nothing *)
(* that is not registered, and nothing twice.                              *)
ImplementsAnswering == Holder!AnsweringSpec

(* What the program's README promises (README.md:4 "discover the service   *)
(* in the local area network of ipv4 easily", README.md:13 "wants to       *)
(* search some service") and its test client relies on (c/test/client.c:   *)
(* 11-20 prints every "play_music" service found): an inquiry ends only    *)
(* once every registered service with the name has been sent.              *)
AllServicesAnswered ==
  [][\A s \in Service : InquiryEnds(s) =>
       \A e \in Matching(list, s) : InquiryResultPkt(e) \in ToSet(sent')]_vars
=============================================================================
