------------------------------- MODULE GoDaemon -------------------------------
(***************************************************************************)
(* The Go daemon: Loop and ProcessData of daemon.go over the Provider of   *)
(* comm/provider.go.  One goroutine.  An inquiry counts the matching       *)
(* services, has GetAll fill a slice of that length and sends the slots in *)
(* order; GetServiceData dereferences each slot, so a nil slot ends the    *)
(* process with a panic.  So does a head that announces more bytes than    *)
(* follow it in the buffer: CheckAndGetServiceInfoHead slices the buffer   *)
(* by that length before anything has been checked.                        *)
(***************************************************************************)
EXTENDS ServiceList

VARIABLES
  list,      \* the registered services, front first
  req,       \* the decoded request being handled, or NULL
  res,       \* the slice of the running inquiry; empty before it is made
  sending,   \* how many slots of res have been sent
  sent,      \* the replies sent to the latest request
  fits,      \* JsonLen of the latest head ends within the buffer
  panicked   \* the process has died

vars == <<list, req, res, sending, sent, fits, panicked>>

Init ==
  /\ list = <<>>
  /\ req = NULL
  /\ res = <<>>
  /\ sending = 0
  /\ sent = <<>>
  /\ fits = TRUE
  /\ panicked = FALSE

Handling(action) == ~panicked /\ req # NULL /\ req.action = action

(* A datagram whose head and JSON decode to a request.                     *)
Receive ==
  /\ ~panicked
  /\ req = NULL
  /\ req' \in Request
  /\ sent' = <<>>
  /\ UNCHANGED <<list, res, sending, fits, panicked>>

(* A read error, a wrong head or checksum, bad JSON or an unknown action:  *)
(* the loop goes on.                                                       *)
Discard ==
  /\ ~panicked
  /\ req = NULL
  /\ sent' = <<>>
  /\ UNCHANGED <<list, req, res, sending, fits, panicked>>

(* data[ServiceHeadLen : ServiceHeadLen+int(h.JsonLen)] is out of range.   *)
(* GetRegisterService makes such heads, too: json.Marshal writes each of   *)
(* <, > and & as six bytes, so four texts of INFO_MAX_LEN can come to more *)
(* than the buffer holds.                                                  *)
ReceiveTooLong ==
  /\ ~panicked
  /\ req = NULL
  /\ fits' = FALSE
  /\ sent' = <<>>
  /\ panicked' = TRUE
  /\ UNCHANGED <<list, req, res, sending>>

Register ==
  /\ Handling("register")
  /\ list' = AddInfo(list, req.info)
  /\ sent' = <<ResultPkt(TRUE)>>
  /\ req' = NULL
  /\ UNCHANGED <<res, sending, fits, panicked>>

(* Mutant of Unregister: nothing is removed.                               *)
UnregisterKeeps ==
  /\ Handling("unregister")
  /\ sent' = <<ResultPkt(Registered(list, req.device_name, req.service_name))>>
  /\ req' = NULL
  /\ UNCHANGED <<list, res, sending, fits, panicked>>

Unregister ==
  /\ Handling("unregister")
  /\ list' = ListRemove(list, req.device_name, req.service_name)
  /\ sent' = <<ResultPkt(Registered(list, req.device_name, req.service_name))>>
  /\ req' = NULL
  /\ UNCHANGED <<res, sending, fits, panicked>>

(* GetCount is positive: the slice is made and filled.                     *)
InquiryCollect ==
  /\ Handling("inquiry")
  /\ res = <<>>
  /\ GetCount(list, req.service_name) > 0
  /\ res' = GetAll(list, req.service_name)
  /\ sending' = 0
  /\ UNCHANGED <<list, req, sent, fits, panicked>>

(* GetCount is zero: "service no found".                                   *)
InquiryMiss ==
  /\ Handling("inquiry")
  /\ res = <<>>
  /\ GetCount(list, req.service_name) = 0
  /\ sent' = <<ResultPkt(FALSE)>>
  /\ req' = NULL
  /\ UNCHANGED <<list, res, sending, fits, panicked>>

(* Mutant of InquirySend: the loop goes on behind the next slot.           *)
InquirySendSkips ==
  /\ Handling("inquiry")
  /\ sending < Len(res)
  /\ res[sending + 1] # NULL
  /\ sent' = Append(sent, InquiryResultPkt(res[sending + 1]))
  /\ sending' = sending + 2
  /\ UNCHANGED <<list, req, res, fits, panicked>>

InquirySend ==
  /\ Handling("inquiry")
  /\ sending < Len(res)
  /\ res[sending + 1] # NULL
  /\ sent' = Append(sent, InquiryResultPkt(res[sending + 1]))
  /\ sending' = sending + 1
  /\ UNCHANGED <<list, req, res, fits, panicked>>

(* GetServiceData(nil): json.Marshal of *info panics.                      *)
InquiryPanic ==
  /\ Handling("inquiry")
  /\ sending < Len(res)
  /\ res[sending + 1] = NULL
  /\ panicked' = TRUE
  /\ UNCHANGED <<list, req, res, sending, sent, fits>>

(* The slice has been sent; it is garbage from here on.                    *)
InquiryDone ==
  /\ Handling("inquiry")
  /\ res # <<>>
  /\ sending = Len(res)
  /\ req' = NULL
  /\ res' = <<>>
  /\ sending' = 0
  /\ UNCHANGED <<list, sent, fits, panicked>>

Handle ==
  \/ Register \/ Unregister
  \/ InquiryCollect \/ InquiryMiss \/ InquirySend \/ InquiryPanic \/ InquiryDone

(* The daemon has died.                                                    *)
Dead == panicked /\ UNCHANGED vars

Next == Receive \/ Discard \/ ReceiveTooLong \/ Handle \/ Dead

Spec == Init /\ [][Next]_vars

-----------------------------------------------------------------------------
(* The variables hold what their declarations say; the slots sent are      *)
(* slots of the slice.                                                     *)
TypeOK ==
  /\ list \in Seq(Entry)
  /\ req \in Request \cup {NULL}
  /\ res \in Seq(Entry \cup {NULL})
  /\ sending \in 0..Len(res)
  /\ sent \in Seq(Reply)
  /\ fits \in BOOLEAN
  /\ panicked \in BOOLEAN

(* AddInfo removes the older registration first ("remove the same          *)
(* service", provider.go:19), so a device and service name never occur     *)
(* twice in the list.                                                      *)
OneServicePerKey == UniqueKeys(list)

(* What an inquiry has sent is the slots of the slice up to the one being  *)
(* sent, each a service that is registered and has the name asked for:     *)
(* GetAll puts nothing else into the slice, and nothing changes the list   *)
(* under the loop of daemon.go:80-83.                                      *)
InquirySendsSlots ==
  res # <<>> =>
    /\ req # NULL /\ req.action = "inquiry"
    /\ sent = [k \in 1..sending |-> InquiryResultPkt(res[k])]
    /\ \A k \in 1..sending : res[k] \in Matching(list, req.service_name)

(* The daemon dies of a datagram whose head announces too much, or of an   *)
(* inquiry for a service that another service is registered in front of:   *)
(* no registration, no deregistration and no other inquiry kills it,       *)
(* whatever has been registered before and in whatever order.              *)
PanicsOnlyWhenScattered ==
  panicked => IF req = NULL THEN ~fits
              ELSE req.action = "inquiry" /\ ~Leading(list, req.service_name)

Holder == INSTANCE ServiceHolder WITH reg <- ToSet(list)

(* While it lives the daemon is a service holder that keeps the whole      *)
(* promise: the registrations asked for, truthful answers, no answer       *)
(* twice, and an inquiry is ended by the last matching service.            *)
ImplementsComplete == Holder!CompleteSpec

(* The daemon is "the holder of service infomation" (README.md:11) and     *)
(* "client - example which wants to search some service" (README.md:13):   *)
(* searching a service does not take the daemon down.                      *)
SearchNeverPanics == ~(panicked /\ req # NULL /\ req.action = "inquiry")
=============================================================================
