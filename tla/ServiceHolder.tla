---------------------------- MODULE ServiceHolder ----------------------------
(***************************************************************************)
(* What a daemon, "the holder of service infomation" (README.md:11),       *)
(* promises: a set of registered services with at most one per device and  *)
(* service name, and requests handled one at a time.  The order in which   *)
(* the services are kept, and the way an inquiry walks over them, are left *)
(* to the daemons.                                                         *)
(*                                                                         *)
(* The three daemons keep different halves of the promise about inquiries, *)
(* so there are three specifications.  Answering: every inquiry gets a     *)
(* reply.  Truthful: "service no found" is only said when it is true.      *)
(* Complete: both, and every matching service is sent.                     *)
(***************************************************************************)
EXTENDS Protocal, Naturals, Sequences

VARIABLES
  reg,   \* the registered services
  req,   \* the request being handled, or NULL
  sent   \* the replies sent to the latest request, in order

vars == <<reg, req, sent>>

Init ==
  /\ reg = {}
  /\ req = NULL
  /\ sent = <<>>

Found(s) == { e \in reg : e.service_name = s }

Answered == { sent[k] : k \in 1..Len(sent) }

Handling(action) == req # NULL /\ req.action = action

(* A request arrives; datagrams that are no request change nothing.        *)
Receive ==
  /\ req = NULL
  /\ req' \in Request \cup {NULL}
  /\ sent' = <<>>
  /\ UNCHANGED reg

Register ==
  /\ Handling("register")
  /\ reg' = { e \in reg : \/ e.device_name # req.info.device_name
                          \/ e.service_name # req.info.service_name }
              \cup {req.info}
  /\ sent' = <<ResultPkt(TRUE)>>
  /\ req' = NULL

Unregister ==
  /\ Handling("unregister")
  /\ LET gone == { e \in reg : /\ e.device_name = req.device_name
                               /\ e.service_name = req.service_name }
     IN  /\ reg' = reg \ gone
         /\ sent' = <<ResultPkt(gone # {})>>
  /\ req' = NULL

(* One more matching service is sent, none of them twice.                  *)
Answer ==
  /\ Handling("inquiry")
  /\ \E e \in Found(req.service_name) :
       /\ InquiryResultPkt(e) \notin Answered
       /\ sent' = Append(sent, InquiryResultPkt(e))
  /\ UNCHANGED <<reg, req>>

Miss ==
  /\ Handling("inquiry")
  /\ sent = <<>>
  /\ sent' = <<ResultPkt(FALSE)>>
  /\ req' = NULL
  /\ UNCHANGED reg

Close ==
  /\ Handling("inquiry")
  /\ req' = NULL
  /\ UNCHANGED <<reg, sent>>

Common == Receive \/ Register \/ Unregister \/ Answer

AnsweringNext == Common \/ Miss \/ (Close /\ sent # <<>>)

TruthfulNext == Common \/ (Miss /\ Found(req.service_name) = {}) \/ Close

CompleteNext ==
  \/ Common
  \/ Miss /\ Found(req.service_name) = {}
  \/ /\ Close
     /\ sent # <<>>
     /\ \A e \in Found(req.service_name) : InquiryResultPkt(e) \in Answered

AnsweringSpec == Init /\ [][AnsweringNext]_vars

TruthfulSpec == Init /\ [][TruthfulNext]_vars

CompleteSpec == Init /\ [][CompleteNext]_vars
=============================================================================
