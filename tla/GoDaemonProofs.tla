---------------------------- MODULE GoDaemonProofs ----------------------------
(***************************************************************************)
(* The invariants of GoDaemon for every set of devices, services and data, *)
(* when it panics, and that it implements ServiceHolder until it does;     *)
(* then those of GoClient, for every network and every number of calls,    *)
(* and that an inquiry finds the truth.                                    *)
(***************************************************************************)
EXTENDS GoDaemon, GoClient, ServiceListProofs

(* The slice of a running inquiry is the one GetAll filled, and the list   *)
(* has not changed since; nothing is sent before the slice is there.       *)
SliceIsCurrent ==
  /\ res # <<>> => res = GetAll(list, req.service_name)
  /\ req # NULL /\ res = <<>> => sent = <<>>

IndInv ==
  /\ TypeOK
  /\ OneServicePerKey
  /\ InquirySendsSlots
  /\ PanicsOnlyWhenScattered
  /\ SliceIsCurrent

LEMMA InitIndInv == Init => IndInv
<1> SUFFICES ASSUME Init PROVE IndInv
  OBVIOUS
<1>0. /\ list = <<>> /\ res = <<>> /\ sent = <<>> /\ req = NULL
      /\ sending = 0 /\ Len(res) = 0
  BY DEF Init
<1>1. panicked = FALSE /\ panicked \in BOOLEAN /\ fits \in BOOLEAN
  BY Zenon DEF Init
<1>2. /\ list \in Seq(Entry) /\ sent \in Seq(Reply)
      /\ res \in Seq(Entry \cup {NULL})
      /\ sending \in 0..Len(res)
      /\ req \in Request \cup {NULL}
  BY <1>0
<1>3. TypeOK
  BY <1>1, <1>2, Zenon DEF TypeOK
<1>4. OneServicePerKey
  BY <1>0 DEF OneServicePerKey, UniqueKeys
<1>5. InquirySendsSlots /\ SliceIsCurrent
  BY <1>0 DEF InquirySendsSlots, SliceIsCurrent
<1>6. PanicsOnlyWhenScattered
  BY <1>1, Zenon DEF PanicsOnlyWhenScattered
<1> QED
  BY <1>3, <1>4, <1>5, <1>6 DEF IndInv

(* What the slice of a running inquiry holds.                              *)
LEMMA SliceProperties ==
  ASSUME IndInv, req # NULL, req.action = "inquiry", res # <<>>
  PROVE  /\ req.service_name \in Service
         /\ Len(res) \in Nat /\ Len(res) > 0
         /\ Len(res) = GetCount(list, req.service_name)
         /\ \A k \in 1..Len(res) :
              /\ k \in 1..Len(list)
              /\ res[k] # NULL <=> list[k].service_name = req.service_name
              /\ res[k] # NULL => res[k] = list[k] /\ res[k] \in Entry
         /\ \A k \in 1..sending : k \in 1..Len(res) /\ res[k] # NULL
<1>1. /\ list \in Seq(Entry) /\ res \in Seq(Entry \cup {NULL})
      /\ req \in Request /\ sending \in 0..Len(res) /\ Len(res) \in Nat
  BY LenProperties DEF IndInv, TypeOK
<1>2. res = GetAll(list, req.service_name)
  BY DEF IndInv, SliceIsCurrent
<1>3. /\ Len(res) = GetCount(list, req.service_name)
      /\ \A k \in 1..Len(res) :
           /\ k \in 1..Len(list)
           /\ res[k] # NULL <=> list[k].service_name = req.service_name
           /\ res[k] # NULL => res[k] = list[k]
  BY <1>1, <1>2, GetAllProperties
<1>4. Len(res) > 0
  BY <1>1, EmptySeq
<1>5. ASSUME NEW k \in 1..Len(res)
      PROVE  res[k] \in Entry \cup {NULL}
  BY <1>1, <1>5, ElementOfSeq
<1>6. ASSUME NEW k \in 1..sending
      PROVE  k \in 1..Len(res) /\ res[k] # NULL
  <2>1. k \in 1..Len(res)
    BY <1>1
  <2>2. res[k] \in Matching(list, req.service_name)
    BY DEF IndInv, InquirySendsSlots
  <2>3. res[k] \in ToSet(list)
    BY <2>2 DEF Matching
  <2>4. \A j \in 1..Len(list) : list[j] \in Entry
    BY <1>1, ElementOfSeq
  <2>5. res[k] \in Entry
    BY <1>1, <2>3, <2>4 DEF ToSet
  <2> QED
    BY <2>1, <2>5, NullAssumption
<1>7. req.service_name \in Service
  BY <1>1, RequestFields
<1> QED
  BY <1>1, <1>3, <1>4, <1>5, <1>6, <1>7

LEMMA StepIndInv == IndInv /\ [Next]_vars => IndInv'
<1> SUFFICES ASSUME IndInv, [Next]_vars PROVE IndInv'
  OBVIOUS
<1>0. /\ list \in Seq(Entry) /\ Len(list) \in Nat /\ UniqueKeys(list)
      /\ req \in Request \cup {NULL}
      /\ res \in Seq(Entry \cup {NULL}) /\ Len(res) \in Nat
      /\ sending \in 0..Len(res)
      /\ sent \in Seq(Reply)
      /\ panicked \in BOOLEAN /\ fits \in BOOLEAN
  BY LenProperties DEF IndInv, TypeOK, OneServicePerKey
<1>1. CASE Receive
  <2>0. res = <<>>
    BY <1>1 DEF Receive, IndInv, InquirySendsSlots
  <2>1. /\ list' = list /\ res' = res /\ sending' = sending
        /\ req' \in Request /\ sent' = <<>> /\ sent' \in Seq(Reply)
    BY <1>1, RepliesAreReplies DEF Receive
  <2>2. panicked' = panicked /\ ~panicked' /\ fits' = fits
    BY <1>1, Zenon DEF Receive
  <2>3. TypeOK'
    BY <1>0, <2>1, <2>2, Zenon DEF TypeOK
  <2>4. OneServicePerKey'
    BY <1>0, <2>1 DEF OneServicePerKey
  <2>5. InquirySendsSlots' /\ SliceIsCurrent'
    BY <2>0, <2>1 DEF InquirySendsSlots, SliceIsCurrent, IndInv
  <2> QED
    BY <2>2, <2>3, <2>4, <2>5, Zenon DEF IndInv, PanicsOnlyWhenScattered
<1>2. CASE Discard
  <2>0. res = <<>>
    BY <1>2 DEF Discard, IndInv, InquirySendsSlots
  <2>1. /\ list' = list /\ res' = res /\ sending' = sending
        /\ req' = req /\ sent' = <<>> /\ sent' \in Seq(Reply)
    BY <1>2, RepliesAreReplies DEF Discard
  <2>2. panicked' = panicked /\ ~panicked' /\ fits' = fits
    BY <1>2, Zenon DEF Discard
  <2>3. TypeOK'
    BY <1>0, <2>1, <2>2, Zenon DEF TypeOK
  <2>4. OneServicePerKey'
    BY <1>0, <2>1 DEF OneServicePerKey
  <2>5. InquirySendsSlots' /\ SliceIsCurrent'
    BY <2>0, <2>1 DEF InquirySendsSlots, SliceIsCurrent, IndInv
  <2> QED
    BY <2>2, <2>3, <2>4, <2>5, Zenon DEF IndInv, PanicsOnlyWhenScattered
<1>3. CASE Register
  <2>0. res = <<>>
    BY <1>3 DEF Register, Handling, IndInv, InquirySendsSlots
  <2>1. req.info \in Entry
    BY <1>0, <1>3, RequestFields DEF Register, Handling
  <2>2. list' \in Seq(Entry) /\ UniqueKeys(list')
    BY <1>0, <1>3, <2>1, AddInfoProperties DEF Register
  <2>3. sent' \in Seq(Reply)
    BY <1>3, RepliesAreReplies, Zenon DEF Register
  <2>4. req' = NULL /\ res' = res /\ sending' = sending
    BY <1>3 DEF Register
  <2>5. panicked' = panicked /\ ~panicked' /\ fits' = fits
    BY <1>3, Zenon DEF Register, Handling
  <2>6. TypeOK'
    BY <1>0, <2>2, <2>3, <2>4, <2>5 DEF TypeOK
  <2>7. InquirySendsSlots' /\ SliceIsCurrent' /\ OneServicePerKey'
    BY <2>0, <2>2, <2>4
       DEF InquirySendsSlots, SliceIsCurrent, OneServicePerKey, IndInv
  <2> QED
    BY <2>5, <2>6, <2>7, Zenon DEF IndInv, PanicsOnlyWhenScattered
<1>4. CASE Unregister
  <2>0. res = <<>>
    BY <1>4 DEF Unregister, Handling, IndInv, InquirySendsSlots
  <2>1. list' \in Seq(Entry) /\ UniqueKeys(list')
    BY <1>0, <1>4, ListRemoveProperties DEF Unregister
  <2>2. sent' \in Seq(Reply)
    BY <1>4, RepliesAreReplies DEF Unregister
  <2>3. req' = NULL /\ res' = res /\ sending' = sending
    BY <1>4 DEF Unregister
  <2>4. panicked' = panicked /\ ~panicked' /\ fits' = fits
    BY <1>4, Zenon DEF Unregister, Handling
  <2>5. TypeOK'
    BY <1>0, <2>1, <2>2, <2>3, <2>4 DEF TypeOK
  <2>6. InquirySendsSlots' /\ SliceIsCurrent' /\ OneServicePerKey'
    BY <2>0, <2>1, <2>3
       DEF InquirySendsSlots, SliceIsCurrent, OneServicePerKey, IndInv
  <2> QED
    BY <2>4, <2>5, <2>6, Zenon DEF IndInv, PanicsOnlyWhenScattered
<1>5. CASE InquiryCollect
  <2>0. /\ req # NULL /\ req.action = "inquiry"
        /\ sent = <<>>
        /\ list' = list /\ req' = req /\ sent' = sent /\ sending' = 0
        /\ res' = GetAll(list, req.service_name)
    BY <1>5 DEF InquiryCollect, Handling, IndInv, SliceIsCurrent
  <2>1. res' \in Seq(Entry \cup {NULL}) /\ Len(res') \in Nat
    BY <1>0, <2>0, GetAllProperties, LenProperties
  <2>2. panicked' = panicked /\ ~panicked' /\ fits' = fits
    BY <1>5, Zenon DEF InquiryCollect, Handling
  <2>3. sending' \in 0..Len(res')
    BY <2>0, <2>1
  <2>4. TypeOK'
    BY <1>0, <2>0, <2>1, <2>2, <2>3, Zenon DEF TypeOK
  <2>5. InquirySendsSlots' /\ SliceIsCurrent' /\ OneServicePerKey'
    BY <1>0, <2>0 DEF InquirySendsSlots, SliceIsCurrent, OneServicePerKey
  <2> QED
    BY <2>2, <2>4, <2>5, Zenon DEF IndInv, PanicsOnlyWhenScattered
<1>6. CASE InquiryMiss
  <2>0. /\ res = <<>>
        /\ list' = list /\ req' = NULL /\ res' = res /\ sending' = sending
    BY <1>6 DEF InquiryMiss
  <2>1. sent' \in Seq(Reply)
    BY <1>6, RepliesAreReplies, Zenon DEF InquiryMiss
  <2>2. panicked' = panicked /\ ~panicked' /\ fits' = fits
    BY <1>6, Zenon DEF InquiryMiss, Handling
  <2>3. TypeOK'
    BY <1>0, <2>0, <2>1, <2>2 DEF TypeOK
  <2>4. InquirySendsSlots' /\ SliceIsCurrent' /\ OneServicePerKey'
    BY <1>0, <2>0 DEF InquirySendsSlots, SliceIsCurrent, OneServicePerKey
  <2> QED
    BY <2>2, <2>3, <2>4, Zenon DEF IndInv, PanicsOnlyWhenScattered
<1>7. CASE InquirySend
  <2> DEFINE e == res[sending + 1]
  <2>0. /\ req # NULL /\ req.action = "inquiry" /\ sending < Len(res)
        /\ res # <<>> /\ e # NULL
        /\ list' = list /\ req' = req /\ res' = res
        /\ sending' = sending + 1
        /\ sent' = Append(sent, InquiryResultPkt(e))
    BY <1>0, <1>7 DEF InquirySend, Handling
  <2>1. /\ sending + 1 \in 1..Len(res) /\ sending + 1 \in 1..Len(list)
        /\ e = list[sending + 1] /\ e \in Entry
        /\ e.service_name = req.service_name
    BY <1>0, <2>0, SliceProperties
  <2>2. e \in Matching(list, req.service_name)
    BY <2>1 DEF Matching, ToSet
  <2>3. InquiryResultPkt(e) \in Reply
    BY <2>1, RepliesAreReplies
  <2>4. sent' \in Seq(Reply)
    BY <1>0, <2>0, <2>3, AppendProperties
  <2>5. /\ sent = [k \in 1..sending |-> InquiryResultPkt(res[k])]
        /\ \A k \in 1..sending : res[k] \in Matching(list, req.service_name)
    BY <2>0 DEF IndInv, InquirySendsSlots
  <2>6. sent' = [k \in 1..(sending + 1) |-> InquiryResultPkt(res[k])]
    <3>1. Len(sent) = sending
      BY <1>0, <2>5, LenProperties
    <3>2. Append(sent, InquiryResultPkt(e)) =
            [k \in 1..(Len(sent) + 1) |->
               IF k <= Len(sent) THEN sent[k] ELSE InquiryResultPkt(e)]
      BY <1>0, <2>3
    <3> QED
      BY <1>0, <2>0, <2>5, <3>1, <3>2
  <2>7. \A k \in 1..(sending + 1) : res[k] \in Matching(list, req.service_name)
    BY <1>0, <2>2, <2>5
  <2>8. panicked' = panicked /\ ~panicked' /\ fits' = fits
    BY <1>7, Zenon DEF InquirySend, Handling
  <2>9. sending' \in 0..Len(res')
    BY <1>0, <2>0
  <2>10. TypeOK'
    BY <1>0, <2>0, <2>4, <2>8, <2>9, Zenon DEF TypeOK
  <2>11. InquirySendsSlots'
    BY <2>0, <2>6, <2>7 DEF InquirySendsSlots
  <2>12. SliceIsCurrent' /\ OneServicePerKey'
    BY <1>0, <2>0 DEF SliceIsCurrent, OneServicePerKey, IndInv
  <2> QED
    BY <2>8, <2>10, <2>11, <2>12, Zenon DEF IndInv, PanicsOnlyWhenScattered
<1>8. CASE InquiryPanic
  <2>0. /\ req # NULL /\ req.action = "inquiry" /\ sending < Len(res)
        /\ res # <<>> /\ res[sending + 1] = NULL
        /\ list' = list /\ req' = req /\ res' = res
        /\ sending' = sending /\ sent' = sent
    BY <1>0, <1>8 DEF InquiryPanic, Handling
  <2>1. panicked' \in BOOLEAN /\ fits' \in BOOLEAN
    BY <1>0, <1>8, Zenon DEF InquiryPanic
  <2>2. TypeOK'
    BY <1>0, <2>0, <2>1, Zenon DEF TypeOK
  <2>3. InquirySendsSlots' /\ SliceIsCurrent' /\ OneServicePerKey'
    BY <1>0, <2>0 DEF InquirySendsSlots, SliceIsCurrent, OneServicePerKey, IndInv
  <2>4. ~Leading(list, req.service_name)
    <3>1. /\ sending + 1 \in 1..GetCount(list, req.service_name)
          /\ list[sending + 1].service_name # req.service_name
      BY <1>0, <2>0, SliceProperties
    <3> QED
      BY <1>0, <3>1, GetCountProperties
  <2>5. PanicsOnlyWhenScattered'
    BY <2>0, <2>4 DEF PanicsOnlyWhenScattered
  <2> QED
    BY <2>2, <2>3, <2>5 DEF IndInv
<1>9. CASE InquiryDone
  <2>0. /\ list' = list /\ req' = NULL /\ res' = <<>> /\ sending' = 0
        /\ sent' = sent
    BY <1>9 DEF InquiryDone
  <2>1. panicked' = panicked /\ ~panicked' /\ fits' = fits
    BY <1>9, Zenon DEF InquiryDone, Handling
  <2>2. /\ res' \in Seq(Entry \cup {NULL}) /\ sending' \in 0..Len(res')
        /\ req' \in Request \cup {NULL}
    BY <2>0
  <2>3. TypeOK'
    BY <1>0, <2>0, <2>1, <2>2, Zenon DEF TypeOK
  <2>4. InquirySendsSlots' /\ SliceIsCurrent' /\ OneServicePerKey'
    BY <1>0, <2>0 DEF InquirySendsSlots, SliceIsCurrent, OneServicePerKey
  <2> QED
    BY <2>1, <2>3, <2>4, Zenon DEF IndInv, PanicsOnlyWhenScattered
<1>10. CASE ReceiveTooLong
  <2>1. /\ req = NULL /\ res = <<>>
        /\ UNCHANGED <<list, req, res, sending>> /\ sent' = <<>> /\ sent' \in Seq(Reply)
    BY <1>10, RepliesAreReplies DEF ReceiveTooLong, IndInv, InquirySendsSlots
  <2>2. ~fits' /\ fits' \in BOOLEAN /\ panicked' \in BOOLEAN
    BY <1>10, Zenon DEF ReceiveTooLong
  <2>3. TypeOK'
    BY <1>0, <2>1, <2>2, Zenon DEF TypeOK
  <2>4. InquirySendsSlots' /\ SliceIsCurrent' /\ OneServicePerKey'
    BY <1>0, <2>1 DEF InquirySendsSlots, SliceIsCurrent, OneServicePerKey
  <2>5. PanicsOnlyWhenScattered'
    BY <2>1, <2>2 DEF PanicsOnlyWhenScattered
  <2> QED
    BY <2>3, <2>4, <2>5 DEF IndInv
<1>11. CASE UNCHANGED vars
  BY <1>11 DEF vars, IndInv, TypeOK, OneServicePerKey, InquirySendsSlots,
               PanicsOnlyWhenScattered, SliceIsCurrent
<1>12. CASE Dead
  BY <1>11, <1>12 DEF Dead
<1> QED
  BY <1>1, <1>2, <1>3, <1>4, <1>5, <1>6, <1>7, <1>8, <1>9, <1>10, <1>11, <1>12
     DEF Next, Handle

(* The inductive invariant holds in every behaviour of the daemon.         *)
THEOREM Invariance == Spec => []IndInv
BY InitIndInv, StepIndInv, PTL DEF Spec

(* The Go daemon's variables keep their types, and the slots sent never    *)
(* pass the end of the slice.                                              *)
THEOREM TypeCorrect == Spec => []TypeOK
BY Invariance, PTL DEF IndInv

(* AddInfo never lets a device and service name into the list twice.       *)
THEOREM KeysStayUnique == Spec => []OneServicePerKey
BY Invariance, PTL DEF IndInv

(* What an inquiry of the Go daemon has sent is slots of the slice, each   *)
(* registered under the name asked for.                                    *)
THEOREM InquirySendsOnlySlots == Spec => []InquirySendsSlots
BY Invariance, PTL DEF IndInv

(* The Go daemon dies of a head that announces more than its buffer holds, *)
(* or of an inquiry for a service another is registered in front of, and   *)
(* of no other request, however many services there are.                   *)
THEOREM PanicNeedsScattered == Spec => []PanicsOnlyWhenScattered
BY Invariance, PTL DEF IndInv

-----------------------------------------------------------------------------
(* The holder's requests and replies are the daemon's.                     *)
LEMMA SameVocabulary ==
  /\ Holder!Request = Request
  /\ \A succ : Holder!ResultPkt(succ) = ResultPkt(succ)
  /\ Holder!ResultPkt(TRUE) = ResultPkt(TRUE)
  /\ Holder!ResultPkt(FALSE) = ResultPkt(FALSE)
  /\ \A e : Holder!InquiryResultPkt(e) = InquiryResultPkt(e)
<1>1. Holder!Request = Request
  BY DEF Request, RegisterPkt, UnregisterPkt, InquiryPkt, Entry,
         Holder!Request, Holder!RegisterPkt, Holder!UnregisterPkt,
         Holder!InquiryPkt, Holder!Entry
<1>2. ASSUME NEW succ
      PROVE  Holder!ResultPkt(succ) = ResultPkt(succ)
  BY DEF ResultPkt, Holder!ResultPkt
<1>3. ASSUME NEW e
      PROVE  Holder!InquiryResultPkt(e) = InquiryResultPkt(e)
  BY DEF InquiryResultPkt, Holder!InquiryResultPkt
<1> QED
  BY <1>1, <1>2, <1>3

LEMMA InitImplements == Init => Holder!Init
BY DEF Init, Holder!Init, ToSet

LEMMA StepImplements ==
  IndInv /\ [Next]_vars => [Holder!CompleteNext]_(Holder!vars)
<1> SUFFICES ASSUME IndInv, [Next]_vars
             PROVE  Holder!CompleteNext \/ UNCHANGED Holder!vars
  OBVIOUS
<1>0. /\ list \in Seq(Entry) /\ Len(list) \in Nat /\ UniqueKeys(list)
      /\ req \in Request \cup {NULL}
      /\ Len(res) \in Nat
      /\ sending \in 0..Len(res)
      /\ sent \in Seq(Reply)
      /\ ToSet(list) = { list[k] : k \in 1..Len(list) }
  BY LenProperties DEF IndInv, TypeOK, OneServicePerKey, ToSet
<1>1. CASE Receive
  <2>1. Holder!Receive
    BY <1>1, SameVocabulary DEF Receive, Holder!Receive
  <2> QED
    BY <2>1 DEF Holder!CompleteNext, Holder!Common
<1>2. CASE Discard \/ ReceiveTooLong
  <2>1. Holder!Receive
    BY <1>2, SameVocabulary DEF Discard, ReceiveTooLong, Holder!Receive
  <2> QED
    BY <2>1 DEF Holder!CompleteNext, Holder!Common
<1>3. CASE Register
  <2>1. req.info \in Entry
    BY <1>0, <1>3, RequestFields DEF Register, Handling
  <2>2. ToSet(list') = { f \in ToSet(list) : ~SameKey(f, req.info) } \cup {req.info}
    BY <1>0, <1>3, <2>1, AddInfoProperties DEF Register
  <2>3. Holder!Register
    BY <1>3, <2>2, SameVocabulary
       DEF Register, Handling, Holder!Register, Holder!Handling, SameKey, HasKey
  <2> QED
    BY <2>3 DEF Holder!CompleteNext, Holder!Common
<1>4. CASE Unregister
  <2> DEFINE gone == { e \in ToSet(list) : /\ e.device_name = req.device_name
                                           /\ e.service_name = req.service_name }
  <2>1. ToSet(list') =
          { e \in ToSet(list) : ~HasKey(e, req.device_name, req.service_name) }
    BY <1>0, <1>4, ListRemoveProperties DEF Unregister
  <2>2. ToSet(list') = ToSet(list) \ gone
    BY <2>1 DEF HasKey
  <2>3. Registered(list, req.device_name, req.service_name) = (gone # {})
    BY <1>0 DEF Registered, HasKey
  <2>4. sent' = <<ResultPkt(gone # {})>>
    BY <1>4, <2>3 DEF Unregister
  <2>5. Holder!Unregister
    BY <1>4, <2>2, <2>4, SameVocabulary
       DEF Unregister, Handling, Holder!Unregister, Holder!Handling
  <2> QED
    BY <2>5 DEF Holder!CompleteNext, Holder!Common
<1>5. CASE InquiryCollect
  BY <1>5 DEF InquiryCollect, Holder!vars
<1>6. CASE InquiryMiss
  <2>1. /\ req # NULL /\ req.action = "inquiry" /\ sent = <<>>
        /\ GetCount(list, req.service_name) = 0
        /\ sent' = <<ResultPkt(FALSE)>> /\ req' = NULL /\ list' = list
    BY <1>6 DEF InquiryMiss, Handling, IndInv, SliceIsCurrent
  <2>2. Holder!Found(req.service_name) = {}
    BY <1>0, <2>1, GetCountProperties DEF Holder!Found
  <2>3. Holder!Miss
    BY <2>1, SameVocabulary DEF Holder!Miss, Holder!Handling
  <2> QED
    BY <2>2, <2>3 DEF Holder!CompleteNext
<1>7. CASE InquirySend
  <2> DEFINE e == list[sending + 1]
  <2>0. /\ req # NULL /\ req.action = "inquiry" /\ sending < Len(res)
        /\ res # <<>> /\ res[sending + 1] # NULL
        /\ list' = list /\ req' = req
        /\ sent' = Append(sent, InquiryResultPkt(res[sending + 1]))
    BY <1>0, <1>7 DEF InquirySend, Handling
  <2>1. /\ sending + 1 \in 1..Len(list)
        /\ res[sending + 1] = e
        /\ e.service_name = req.service_name
        /\ \A k \in 1..sending : res[k] = list[k]
    BY <1>0, <2>0, SliceProperties
  <2>2. sent = [k \in 1..sending |-> InquiryResultPkt(list[k])]
    BY <2>0, <2>1 DEF IndInv, InquirySendsSlots
  <2>3. e \in Holder!Found(req.service_name)
    BY <1>0, <2>1 DEF Holder!Found
  <2>4. InquiryResultPkt(e) \notin Holder!Answered
    <3>1. Len(sent) = sending
      BY <1>0, <2>2, LenProperties
    <3>2. \A k \in 1..sending : sent[k] # InquiryResultPkt(e)
      <4>1. list \in Seq(Entry) /\ UniqueKeys(list) /\ sending \in Nat
        BY <1>0
      <4>2. ASSUME NEW k \in 1..sending
            PROVE  InquiryResultPkt(list[k]) # InquiryResultPkt(e)
        BY <2>1, <4>1, NextAnswerIsNew
      <4> QED
        BY <2>2, <4>2
    <3> QED
      BY <3>1, <3>2, SameVocabulary DEF Holder!Answered
  <2>5. Holder!Answer
    BY <2>0, <2>1, <2>3, <2>4, SameVocabulary DEF Holder!Answer, Holder!Handling
  <2> QED
    BY <2>5 DEF Holder!CompleteNext, Holder!Common
<1>8. CASE InquiryPanic
  BY <1>8 DEF InquiryPanic, Holder!vars
<1>9. CASE InquiryDone
  <2>0. /\ req # NULL /\ req.action = "inquiry" /\ res # <<>>
        /\ sending = Len(res)
        /\ list' = list /\ req' = NULL /\ sent' = sent
    BY <1>9 DEF InquiryDone, Handling
  <2>1. /\ Len(res) = GetCount(list, req.service_name) /\ Len(res) > 0
        /\ \A k \in 1..Len(res) : /\ list[k].service_name = req.service_name
                                  /\ res[k] = list[k]
    BY <2>0, SliceProperties
  <2>2. sent = [k \in 1..Len(res) |-> InquiryResultPkt(list[k])]
    BY <2>0, <2>1 DEF IndInv, InquirySendsSlots
  <2>3. Len(sent) = Len(res)
    BY <1>0, <2>2, LenProperties
  <2>4. sent # <<>>
    BY <2>1, <2>3
  <2>5. ASSUME NEW e \in Holder!Found(req.service_name)
        PROVE  Holder!InquiryResultPkt(e) \in Holder!Answered
    <3>1. PICK k \in 1..Len(list) : e = list[k] /\ list[k].service_name = req.service_name
      BY <1>0, <2>5 DEF Holder!Found
    <3>2. k \in 1..Len(res)
      BY <1>0, <2>1, <3>1, GetCountProperties
    <3>3. sent[k] = InquiryResultPkt(e)
      BY <2>2, <3>1, <3>2
    <3> QED
      BY <2>3, <3>2, <3>3, SameVocabulary DEF Holder!Answered
  <2>6. Holder!Close
    BY <2>0 DEF Holder!Close, Holder!Handling
  <2> QED
    BY <2>4, <2>5, <2>6 DEF Holder!CompleteNext
<1>10. CASE UNCHANGED vars \/ Dead
  BY <1>10 DEF Dead, vars, Holder!vars
<1> QED
  BY <1>1, <1>2, <1>3, <1>4, <1>5, <1>6, <1>7, <1>8, <1>9, <1>10 DEF Next, Handle

(* Until it dies the Go daemon is a service holder that answers every      *)
(* inquiry completely.                                                     *)
THEOREM GoDaemonImplementsComplete == Spec => ImplementsComplete
BY Invariance, InitImplements, StepImplements, PTL
   DEF Spec, ImplementsComplete, Holder!CompleteSpec

-----------------------------------------------------------------------------
(* A call is under way.                                                    *)
InCall == main \in {"started", "reading", "joining"}

(* A call has a number and a name, and before the first nothing was read;  *)
(* no daemon has died of a call to come.                                   *)
CallHasName ==
  /\ InCall => name \in Service /\ call \in 1..MaxCalls
  /\ call = 0 => ~recEnd
  /\ \A h \in daemons : died[h] <= call

(* Requests are on their way to daemons, and replies tell of a service or  *)
(* of a failure.                                                           *)
MailOK ==
  \A m \in net :
    /\ m.to # 0 => m.to \in daemons /\ m \in ToDaemon
    /\ m.to = 0 => /\ m \in ToClient
                   /\ m.pkt.action = "succ" => m.pkt.info \in Entry

(* The scan writes to one address after the other, to each of them once.   *)
WrittenOK ==
  /\ written \subseteq {network} \X (1..LastSub)
  /\ scan = "reset" => written = {}
  /\ scan = "write" => ~finish
  /\ scan \in {"check", "write"} =>
       written = {network} \X (IF finish THEN 1..LastSub ELSE 1..(subIP - 1))

(* Every reply comes in time, and there is at most one daemon.             *)
OneDaemon == timely /\ \A g, h \in daemons : g = h

(* A reply of a daemon to the latest call.                                 *)
ReplyOf(h, r) == [to |-> 0, from |-> h, call |-> call, pkt |-> r]

(* What the daemon sends when the latest call asks it.                     *)
Due(h) == IF died[h] \in {0, call} THEN Sent(h, name) ELSE {}

(* The latest call has not asked the daemon, or waits for its answer, or   *)
(* has the part of it that is no longer in the network.  A daemon that has *)
(* answered and lives has sent all it holds under the name.                *)
NotAsked ==
  /\ Asked = {} /\ net = {} /\ infos = <<>>
  /\ \A h \in daemons : died[h] < call

AskedOnly(h) ==
  /\ Asked = {h} /\ net = {Datagram(h)} /\ infos = <<>>
  /\ died[h] < call

Refused(h) ==
  /\ Asked = {h} /\ GetCount(held[h], name) = 0
  /\ net = {ReplyOf(h, ResultPkt(FALSE))} /\ infos = <<>>

Told(h) ==
  /\ Asked = {h}
  /\ died[h] = 0 => Due(h) = Matching(held[h], name)
  /\ ToSet(infos) \subseteq Due(h)
  /\ \A j, k \in 1..Len(infos) : infos[j] = infos[k] => j = k
  /\ net = { ReplyOf(h, InquiryResultPkt(e)) : e \in Due(h) \ ToSet(infos) }

Progress == NotAsked \/ \E h \in daemons : AskedOnly(h) \/ Refused(h) \/ Told(h)

(* With one daemon, nothing of a call outlives it, and a call that reads   *)
(* no more has read the whole answer and asks no more.                     *)
CallIsTrue ==
  OneDaemon =>
    /\ ~InCall => net = {}
    /\ InCall => Progress
    /\ main = "joining" =>
         net = {} /\ (Asked = {} => scan \in {"off", "signal"})

(* With one daemon in the network it scans, the first call has asked it    *)
(* when its goroutine stops, or a read of the call returns.                *)
FirstCallAsks ==
  OneDaemon /\ network = "lan" /\ call <= 1 =>
    /\ recEnd => daemons \subseteq Asked
    /\ InCall /\ scan \in {"off", "signal"} => daemons \subseteq Asked

(* What the calls and the goroutine do on any network, with any daemons.   *)
ClientBase ==
  /\ ClientTypeOK
  /\ ScanEndsWithItsCall
  /\ CallHasName
  /\ MailOK
  /\ WrittenOK

(* ScanEndsWithItsCall and InquiryIsTrue rest on these together.           *)
ClientInd == ClientBase /\ CallIsTrue /\ FirstCallAsks

(* The network a client picks is one of the networks.                      *)
LEMMA NetworkIsNet == ASSUME ifaddrs \in Seq(Interface) PROVE network \in Net
<1>1. ASSUME NEW sort PROVE FirstNet(ifaddrs, sort) \in Net
  <2> DEFINE first == { k \in DOMAIN ifaddrs :
                          /\ ifaddrs[k] \in sort
                          /\ \A j \in 1..(k - 1) : ifaddrs[j] \notin sort }
  <2>1. \A k \in DOMAIN ifaddrs : ifaddrs[k].net \in Net
    BY ElementOfSeq, LenProperties DEF Interface, Lo, Lan, Bridge, WideLan, Net
  <2>2. first # {} => (CHOOSE k \in first : TRUE) \in first
    OBVIOUS
  <2> QED
    BY <2>1, <2>2 DEF FirstNet, Net
<1> QED
  BY <1>1 DEF network, GetLocalIPv4Network

(* No step changes the network or what the daemons hold.                   *)
LEMMA SameEnvironment ==
  ASSUME [ClientNext]_clientVars
  PROVE  /\ ifaddrs' = ifaddrs /\ timely' = timely /\ daemons' = daemons /\ held' = held
         /\ network' = network /\ (broadcastValid' <=> broadcastValid)
         /\ \A h, s : Sent(h, s)' = Sent(h, s)
         /\ OneDaemon' <=> OneDaemon
<1>1. ifaddrs' = ifaddrs /\ timely' = timely /\ daemons' = daemons /\ held' = held
  BY DEF ClientNext, StartCall, LowerRecEnd, Read, ReadSucc, ReadFail, ReadNothing, Join,
     Quit, Scan, ScanReset, ScanCheck, ScanWrite, ScanSignal, DaemonAnswers,
     NobodyAnswers, Lose, Over, clientVars, environment
<1>2. network' = network
  BY <1>1 DEF network
<1> QED
  BY <1>1, <1>2 DEF broadcastValid, Sent, Slots, OneDaemon

(* What a daemon sends is the services that no other stands in front of,   *)
(* and all it has under the name unless it dies of the request.            *)
LEMMA AnswerProperties ==
  ASSUME NEW h, held[h] \in Seq(Entry), NEW s
  PROVE  /\ Sent(h, s) = InFront(held[h], s)
         /\ Sent(h, s) \subseteq Entry
         /\ ~Panics(h, s) => Sent(h, s) = Matching(held[h], s)
         /\ GetCount(held[h], s) = 0 =>
              ~Panics(h, s) /\ Sent(h, s) = {} /\ Matching(held[h], s) = {}
<1> DEFINE l == held[h]
           c == GetCount(l, s)
<1>1. /\ c \in 0..Len(l) /\ Len(l) \in Nat /\ DOMAIN l = 1..Len(l)
      /\ Len(Slots(h, s)) = c
      /\ \A k \in 1..Len(l) : l[k] \in Entry /\ l[k] # NULL
  BY GetCountProperties, GetAllProperties, LenProperties, ElementOfSeq, NullAssumption
     DEF Slots
<1>2. ASSUME NEW k \in 1..c
      PROVE  /\ k \in 1..Len(l)
             /\ Slots(h, s)[k] # NULL <=> l[k].service_name = s
             /\ Slots(h, s)[k] # NULL => Slots(h, s)[k] = l[k]
  BY GetAllProperties DEF Slots
<1>3. Matching(l, s) = { l[k] : k \in { j \in 1..Len(l) : l[j].service_name = s } }
  BY <1>1 DEF Matching, ToSet
<1>4. ASSUME NEW k \in 1..Len(l), \A j \in 1..k : l[j].service_name = s
      PROVE  k <= c
  <2>1. SUFFICES ASSUME k > c PROVE FALSE
    BY <1>1
  <2>2. \A j \in 1..c : l[j].service_name = s
    BY <1>1, <1>4, <2>1
  <2>3. k \in 1..k
    BY <1>1
  <2> QED
    BY <1>4, <2>1, <2>2, <2>3, GetCountProperties
<1> HIDE DEF l, c
<1>5. Sent(h, s) \subseteq InFront(l, s)
  <2> SUFFICES ASSUME NEW e \in Sent(h, s) PROVE e \in InFront(l, s)
    OBVIOUS
  <2>1. PICK k \in 1..c : /\ Slots(h, s)[k] = e /\ e \in Entry
                          /\ \A j \in 1..k : Slots(h, s)[j] # NULL
    BY <1>1 DEF Sent
  <2>2. \A j \in 1..k : j \in 1..c
    BY <1>1
  <2>3. \A j \in 1..k : l[j].service_name = s
    BY <1>2, <2>1, <2>2
  <2>4. k \in 1..k /\ k \in 1..Len(l)
    BY <1>1
  <2>5. l[k] = e /\ l[k].service_name = s
    BY <1>2, <2>1, <2>3, <2>4
  <2>6. e \in Matching(l, s)
    BY <1>3, <2>4, <2>5
  <2> QED
    BY <2>3, <2>4, <2>5, <2>6 DEF InFront
<1>6. InFront(l, s) \subseteq Sent(h, s)
  <2> SUFFICES ASSUME NEW e \in InFront(l, s) PROVE e \in Sent(h, s)
    OBVIOUS
  <2>1. PICK k \in 1..Len(l) : l[k] = e /\ \A j \in 1..k : l[j].service_name = s
    BY DEF InFront
  <2>2. k \in 1..c /\ \A j \in 1..k : j \in 1..c
    BY <1>1, <1>4, <2>1
  <2>3. \A j \in 1..k : Slots(h, s)[j] # NULL
    BY <1>2, <2>1, <2>2
  <2>4. k \in 1..k
    BY <1>1
  <2>5. Slots(h, s)[k] = e /\ e \in Entry
    BY <1>1, <1>2, <2>1, <2>2, <2>3, <2>4
  <2> QED
    BY <1>1, <2>2, <2>3, <2>5 DEF Sent
<1>7. Sent(h, s) = InFront(l, s)
  BY <1>5, <1>6
<1>8. Sent(h, s) \subseteq Entry
  BY DEF Sent
<1>9. ASSUME ~Panics(h, s) PROVE Sent(h, s) = Matching(l, s)
  <2>1. \A k \in 1..c : l[k].service_name = s
    BY <1>1, <1>2, <1>9 DEF Panics
  <2>2. \A k \in 1..Len(l) : l[k].service_name = s => k <= c
    BY <2>1, GetCountProperties DEF l, c
  <2>3. \A k \in 1..Len(l) : l[k].service_name = s =>
          \A j \in 1..k : l[j].service_name = s
    BY <1>1, <2>1, <2>2
  <2>4. Matching(l, s) \subseteq InFront(l, s)
    BY <1>3, <2>3 DEF InFront
  <2> QED
    BY <1>7, <2>4 DEF InFront
<1>10. ASSUME c = 0 PROVE ~Panics(h, s) /\ Sent(h, s) = {} /\ Matching(l, s) = {}
  <2>1. 1..c = {}
    BY <1>10
  <2>2. ~Panics(h, s) /\ Sent(h, s) = {}
    BY <1>1, <2>1 DEF Panics, Sent
  <2> QED
    BY <1>9, <2>2
<1> QED
  BY <1>7, <1>8, <1>9, <1>10 DEF l, c

(* What is in a request of the latest call.                                *)
LEMMA DatagramIs ==
  ASSUME ClientTypeOK, name \in Service, call \in 1..MaxCalls, NEW h \in daemons
  PROVE  /\ Datagram(h) \in ToDaemon /\ Datagram(h).to = h /\ h # 0
         /\ h \in 1..LastSub
BY GoClientAssumption DEF ClientTypeOK, Datagram, ToDaemon

LEMMA InitClientBase == ClientInit => ClientBase
<1> SUFFICES ASSUME ClientInit PROVE ClientBase
  OBVIOUS
<1>1. ifaddrs \in Seq(Interface)
  <2>1. Lo \in Interface /\ Lan \in Interface /\ Bridge \in Interface /\ WideLan \in Interface
    BY DEF Interface
  <2>2. {<<Lo, Lan>>, <<Lo, Bridge, Lan>>, <<Lo, WideLan>>, <<>>} \subseteq Seq(Interface)
    BY <2>1
  <2> QED
    BY <2>2 DEF ClientInit
<1>2. timely \in BOOLEAN /\ recEnd \in BOOLEAN /\ finish \in BOOLEAN
  BY Zenon DEF ClientInit
<1>3. 1 \in 1..LastSub /\ 0 \in 0..MaxCalls
  BY GoClientAssumption
<1>4. held \in [daemons -> Seq(Entry)]
  <2>1. SeqOf(Entry, MaxHeld) \subseteq Seq(Entry)
    BY GoClientAssumption DEF SeqOf
  <2> QED
    BY <2>1 DEF ClientInit
<1>5. died = [h \in daemons |-> 0] /\ call = 0
  BY DEF ClientInit
<1>6. ClientTypeOK
  BY <1>1, <1>2, <1>3, <1>4, <1>5 DEF ClientInit, ClientTypeOK
<1> QED
  BY <1>5, <1>6 DEF ClientInit, ClientBase, ScanEndsWithItsCall, CallHasName, InCall,
     MailOK, WrittenOK

LEMMA StepClientBase == ClientBase /\ [ClientNext]_clientVars => ClientBase'
<1> SUFFICES ASSUME ClientBase, [ClientNext]_clientVars PROVE ClientBase'
  OBVIOUS
<1>0. /\ ClientTypeOK /\ ScanEndsWithItsCall /\ CallHasName /\ MailOK /\ WrittenOK
      /\ network \in Net /\ daemons \subseteq Host /\ Host \subseteq 1..LastSub
      /\ LastSub \in Nat /\ LastSub # 0 /\ MaxCalls \in Nat
      /\ subIP \in 1..LastSub /\ call \in 0..MaxCalls
  BY NetworkIsNet, GoClientAssumption DEF ClientBase, ClientTypeOK
<1>1. /\ ifaddrs' = ifaddrs /\ timely' = timely /\ daemons' = daemons /\ held' = held
      /\ network' = network /\ (broadcastValid' <=> broadcastValid)
  BY SameEnvironment
<1>2. CASE StartCall
  <2>1. /\ main = "idle" /\ main' = "started" /\ call' = call + 1 /\ call < MaxCalls
        /\ name' \in Service /\ infos' = <<>>
        /\ UNCHANGED <<died, recEnd, quit, subIP, finish>>
    BY <1>2 DEF StartCall
  <2>2. call' \in 1..MaxCalls
    BY <1>0, <2>1
  <2>3. scan = "off" /\ quit = 0
    BY <1>0, <2>1 DEF ScanEndsWithItsCall
  <2>4. \A h \in daemons' : died'[h] <= call'
    BY <1>0, <1>1, <2>1 DEF ClientTypeOK, CallHasName
  <2>5. CASE broadcastValid
    <3>1. /\ net' = net \cup { Datagram(h)' : h \in daemons \cap {Here} }
          /\ written' = {<<network, Here>>} /\ scan' = scan
      BY <1>2, <2>5 DEF StartCall
    <3>2. \A h \in daemons : Datagram(h)' \in ToDaemon /\ Datagram(h)'.to = h /\ h # 0
      BY <1>0, <2>1, <2>2 DEF Datagram, ToDaemon
    <3>3. \A m \in net' : m \in net \/ (m \in ToDaemon /\ m.to \in daemons /\ m.to # 0)
      BY <3>1, <3>2
    <3>4. MailOK'
      BY <1>0, <1>1, <3>3 DEF MailOK
    <3>5. written' \subseteq {network} \X (1..LastSub) /\ Here \in 1..LastSub
      BY <3>1, GoClientAssumption
    <3>6. ClientTypeOK'
      <4>1. net' \subseteq ToDaemon \cup ToClient
        BY <1>0, <3>3 DEF ClientTypeOK
      <4> QED
        BY <1>0, <1>1, <2>1, <2>2, <3>1, <3>5, <4>1 DEF ClientTypeOK
    <3> QED
      BY <1>0, <1>1, <2>1, <2>2, <2>3, <2>4, <2>5, <3>1, <3>4, <3>5, <3>6
         DEF ClientBase, ScanEndsWithItsCall, CallHasName, InCall, WrittenOK
  <2>6. CASE ~broadcastValid
    <3>1. scan' = "reset" /\ written' = {} /\ net' = net
      BY <1>2, <2>6 DEF StartCall
    <3>2. ClientTypeOK'
      BY <1>0, <1>1, <2>1, <2>2, <3>1 DEF ClientTypeOK
    <3> QED
      BY <1>0, <1>1, <2>1, <2>2, <2>3, <2>4, <2>6, <3>1, <3>2
         DEF ClientBase, ScanEndsWithItsCall, CallHasName, InCall, WrittenOK, MailOK
  <2> QED
    BY <2>5, <2>6
<1>3. CASE LowerRecEnd
  <2>1. /\ main = "started" /\ main' = "reading" /\ recEnd' = FALSE /\ recEnd' \in BOOLEAN
        /\ UNCHANGED <<died, name, infos, call, scan, subIP, finish, written, quit, net>>
    BY <1>3 DEF LowerRecEnd, scanVars
  <2> QED
    BY <1>0, <1>1, <2>1
       DEF ClientBase, ClientTypeOK, ScanEndsWithItsCall, CallHasName, InCall, WrittenOK, MailOK
<1>4. CASE ReadSucc \/ ReadFail \/ ReadNothing
  <2>1. /\ main = "reading" /\ recEnd' = TRUE
        /\ main' = "reading" \/ main' = IF broadcastValid THEN "idle" ELSE "joining"
        /\ net' \subseteq net
        /\ UNCHANGED <<died, name, call, scan, subIP, finish, written, quit>>
    BY <1>4 DEF ReadSucc, ReadFail, ReadNothing, LeaveLoop, scanVars
  <2>2. recEnd' \in BOOLEAN
    BY <2>1, Zenon
  <2>3. infos' \in Seq(Entry)
    <3>1. CASE ReadSucc
      <4>1. PICK m \in net : m.to = 0 /\ m.pkt.action = "succ" /\ infos' = Append(infos, m.pkt.info)
        BY <3>1 DEF ReadSucc
      <4>2. m.pkt.info \in Entry
        BY <1>0, <4>1 DEF MailOK
      <4> QED
        BY <1>0, <4>1, <4>2, AppendProperties DEF ClientTypeOK
    <3>2. CASE ReadFail \/ ReadNothing
      BY <1>0, <3>2 DEF ReadFail, ReadNothing, ClientTypeOK
    <3> QED
      BY <1>4, <3>1, <3>2
  <2>4. ClientTypeOK'
    BY <1>0, <1>1, <2>1, <2>2, <2>3 DEF ClientTypeOK
  <2> QED
    BY <1>0, <1>1, <2>1, <2>2, <2>4
       DEF ClientBase, ScanEndsWithItsCall, CallHasName, InCall, WrittenOK, MailOK
<1>5. CASE Join
  <2>1. /\ main = "joining" /\ main' = "idle" /\ quit > 0 /\ quit' = quit - 1
        /\ UNCHANGED <<died, name, infos, call, scan, subIP, finish, written, recEnd, net>>
    BY <1>5 DEF Join, scanVars
  <2>2. quit' = 0 /\ scan = "off"
    BY <1>0, <2>1 DEF ClientTypeOK, ScanEndsWithItsCall
  <2> QED
    BY <1>0, <1>1, <2>1, <2>2
       DEF ClientBase, ClientTypeOK, ScanEndsWithItsCall, CallHasName, InCall, WrittenOK, MailOK
<1>6. CASE Quit
  <2>1. /\ main = "idle" /\ main' = "quit"
        /\ UNCHANGED <<died, name, infos, call, scan, subIP, finish, written, recEnd, quit, net>>
    BY <1>6 DEF Quit, scanVars
  <2> QED
    BY <1>0, <1>1, <2>1
       DEF ClientBase, ClientTypeOK, ScanEndsWithItsCall, CallHasName, InCall, WrittenOK, MailOK
<1>7. CASE ScanReset
  <2>1. /\ scan = "reset" /\ scan' = "check" /\ subIP' = 1 /\ finish' = FALSE
        /\ UNCHANGED <<died, main, name, infos, call, recEnd, quit, written, net>>
    BY <1>7 DEF ScanReset, mainVars
  <2>2. finish' \in BOOLEAN
    BY <2>1, Zenon
  <2>3. subIP' \in 1..LastSub
    BY <1>0, <2>1
  <2>4. WrittenOK'
    <3>1. 1..(subIP' - 1) = {} /\ written' = {}
      BY <1>0, <2>1 DEF WrittenOK
    <3> QED
      BY <1>0, <1>1, <2>1, <3>1 DEF WrittenOK
  <2> QED
    BY <1>0, <1>1, <2>1, <2>2, <2>3, <2>4
       DEF ClientBase, ClientTypeOK, ScanEndsWithItsCall, CallHasName, InCall, MailOK
<1>8. CASE ScanCheck
  <2>1. /\ scan = "check" /\ scan' = IF finish \/ recEnd THEN "signal" ELSE "write"
        /\ UNCHANGED <<died, main, name, infos, call, recEnd, quit, subIP, finish, written, net>>
    BY <1>8 DEF ScanCheck, mainVars
  <2> QED
    BY <1>0, <1>1, <2>1
       DEF ClientBase, ClientTypeOK, ScanEndsWithItsCall, CallHasName, InCall, MailOK, WrittenOK
<1>9. CASE ScanWrite
  <2>1. /\ scan = "write" /\ scan' = "check"
        /\ written' = written \cup {<<network, subIP>>}
        /\ net' = IF network = "lan" /\ subIP \in daemons
                    THEN net \cup {Datagram(subIP)} ELSE net
        /\ IF subIP < LastSub THEN subIP' = subIP + 1 /\ finish' = finish
                              ELSE finish' = TRUE /\ subIP' = subIP
        /\ UNCHANGED <<died, main, name, infos, call, recEnd, quit>>
    BY <1>9 DEF ScanWrite, mainVars
  <2>2. subIP' \in 1..LastSub
    BY <1>0, <2>1
  <2>3. finish' \in BOOLEAN
    <3>1. finish \in BOOLEAN
      BY <1>0 DEF ClientTypeOK
    <3> QED
      BY <2>1, <3>1, Zenon
  <2>4. WrittenOK'
    <3>1. written = {network} \X (1..(subIP - 1)) /\ ~finish
      BY <1>0, <2>1 DEF WrittenOK
    <3>2. written' = {network} \X (1..subIP)
      <4>1. \A k : k \in 1..subIP <=> k \in 1..(subIP - 1) \/ k = subIP
        BY <1>0
      <4> QED
        BY <2>1, <3>1, <4>1
    <3>3. IF finish' THEN subIP = LastSub ELSE subIP = subIP' - 1
      BY <1>0, <2>1, <3>1
    <3>4. 1..subIP \subseteq 1..LastSub
      BY <1>0
    <3> QED
      BY <1>1, <2>1, <3>2, <3>3, <3>4 DEF WrittenOK
  <2>5. InCall
    BY <1>0, <2>1 DEF ScanEndsWithItsCall, InCall
  <2>6. \A m \in net' : m \in net \/ (m \in ToDaemon /\ m.to \in daemons /\ m.to # 0)
    BY <1>0, <2>1, <2>5, DatagramIs DEF CallHasName
  <2>7. MailOK'
    BY <1>0, <1>1, <2>6 DEF MailOK
  <2>8. ClientTypeOK'
    <3>1. net' \subseteq ToDaemon \cup ToClient
      BY <1>0, <2>6 DEF ClientTypeOK
    <3>2. written' \subseteq Net \X (1..LastSub)
      BY <1>0, <2>1 DEF ClientTypeOK
    <3> QED
      BY <1>0, <1>1, <2>1, <2>2, <2>3, <3>1, <3>2 DEF ClientTypeOK
  <2> QED
    BY <1>0, <1>1, <2>1, <2>4, <2>7, <2>8
       DEF ClientBase, ScanEndsWithItsCall, CallHasName, InCall
<1>10. CASE ScanSignal
  <2>1. /\ scan = "signal" /\ scan' = "off" /\ quit = 0 /\ quit' = 1
        /\ UNCHANGED <<died, main, name, infos, call, recEnd, subIP, finish, written, net>>
    BY <1>10 DEF ScanSignal, mainVars
  <2> QED
    BY <1>0, <1>1, <2>1
       DEF ClientBase, ClientTypeOK, ScanEndsWithItsCall, CallHasName, InCall, MailOK, WrittenOK
<1>11. CASE DaemonAnswers
  <2>1. UNCHANGED <<main, name, infos, call, scan, subIP, finish, written, recEnd, quit>>
    BY <1>11 DEF DaemonAnswers, mainVars, scanVars
  <2>2. PICK m \in net :
          /\ m.to # 0 /\ died[m.to] = 0
          /\ LET s == m.pkt.service_name
                 replies == IF GetCount(held[m.to], s) = 0
                              THEN {ResultPkt(FALSE)}
                              ELSE { InquiryResultPkt(e) : e \in Sent(m.to, s) }
             IN  /\ net' = (net \ {m}) \cup
                        { [to |-> 0, from |-> m.to, call |-> m.call, pkt |-> r] :
                            r \in replies }
                 /\ died' = IF Panics(m.to, s) THEN [died EXCEPT ![m.to] = call]
                                               ELSE died
    BY <1>11 DEF DaemonAnswers
  <2>3. m.to \in daemons /\ m \in ToDaemon
    BY <1>0, <2>2 DEF MailOK
  <2>4. m.to \in Host /\ m.call \in 1..MaxCalls
    BY <1>0, <2>3 DEF ToDaemon
  <2>5. Sent(m.to, m.pkt.service_name) \subseteq Entry
    BY <1>0, <2>3, AnswerProperties DEF ClientTypeOK
  <2> DEFINE Answers(n) == /\ n \in ToClient /\ n.to = 0
                           /\ n.pkt.action = "succ" => n.pkt.info \in Entry
  <2>6. \A n \in net' : n \in net \/ Answers(n)
    <3>1. \A r \in {ResultPkt(FALSE)} \cup { InquiryResultPkt(e) : e \in Entry } :
            r \in Reply /\ (r.action = "succ" => r.info \in Entry)
      BY RepliesAreReplies DEF ResultPkt, InquiryResultPkt
    <3>2. \A r \in Reply : [to |-> 0, from |-> m.to, call |-> m.call, pkt |-> r] \in ToClient
      BY <2>4 DEF ToClient
    <3>3. \A n \in net' : n \in net \/
            \E r \in {ResultPkt(FALSE)} \cup { InquiryResultPkt(e) : e \in Entry } :
              n = [to |-> 0, from |-> m.to, call |-> m.call, pkt |-> r]
      BY <2>2, <2>5
    <3>4. ASSUME NEW r \in {ResultPkt(FALSE)} \cup { InquiryResultPkt(e) : e \in Entry }
          PROVE  Answers([to |-> 0, from |-> m.to, call |-> m.call, pkt |-> r])
      BY <3>1, <3>2
    <3> QED
      BY <3>3, <3>4
  <2>7. MailOK'
    BY <1>0, <1>1, <2>6 DEF MailOK
  <2>8. /\ died' \in [daemons -> 0..MaxCalls]
        /\ \A h \in daemons : died'[h] <= call
    <3>1. died \in [daemons -> 0..MaxCalls] /\ \A h \in daemons : died[h] <= call
      BY <1>0 DEF ClientTypeOK, CallHasName
    <3>2. died' \in {died, [died EXCEPT ![m.to] = call]}
      BY <2>2, Zenon
    <3> QED
      BY <1>0, <2>3, <3>1, <3>2
  <2>9. ClientTypeOK'
    <3>1. net' \subseteq ToDaemon \cup ToClient
      BY <1>0, <2>6 DEF ClientTypeOK
    <3> QED
      BY <1>0, <1>1, <2>1, <2>8, <3>1 DEF ClientTypeOK
  <2> QED
    BY <1>0, <1>1, <2>1, <2>7, <2>8, <2>9
       DEF ClientBase, ScanEndsWithItsCall, CallHasName, InCall, WrittenOK
<1>12. CASE Lose \/ NobodyAnswers
  <2>1. /\ net' \subseteq net
        /\ UNCHANGED <<died, main, name, infos, call, scan, subIP, finish, written,
                       recEnd, quit>>
    BY <1>12 DEF Lose, NobodyAnswers, mainVars, scanVars
  <2> QED
    BY <1>0, <1>1, <2>1
       DEF ClientBase, ClientTypeOK, ScanEndsWithItsCall, CallHasName, InCall, MailOK, WrittenOK
<1>13. CASE UNCHANGED clientVars
  BY <1>0, <1>1, <1>13
     DEF ClientBase, ClientTypeOK, ScanEndsWithItsCall, CallHasName, InCall, MailOK, WrittenOK,
         clientVars, mainVars, scanVars
<1> QED
  BY <1>2, <1>3, <1>4, <1>5, <1>6, <1>7, <1>8, <1>9, <1>10, <1>11, <1>12, <1>13
     DEF ClientNext, Read, Scan, Over

(* The inductive invariant's first part in every behaviour.                *)
LEMMA ClientBaseInvariance == ClientSpec => []ClientBase
BY InitClientBase, StepClientBase, PTL DEF ClientSpec

-----------------------------------------------------------------------------
(* Whom the latest call has asked, by the network it picked.               *)
LEMMA AskedBy ==
  ASSUME ClientBase
  PROVE  /\ Asked \subseteq daemons
         /\ network = "lan" => Asked = { h \in daemons : <<"lan", h>> \in written }
         /\ broadcastValid => Asked = { h \in daemons : h = Here /\ <<"loopback", h>> \in written }
         /\ network # "lan" /\ ~broadcastValid => Asked = {}
BY DEF ClientBase, WrittenOK, Asked, broadcastValid

(* An inquiry that has found nothing has no services.                      *)
LEMMA EmptyList == ToSet(<<>>) = {} /\ Len(<<>>) = 0
BY DEF ToSet

(* How far an inquiry has got depends on what it has asked, sent and read. *)
LEMMA SameProgress ==
  ASSUME held' = held, daemons' = daemons, name' = name, infos' = infos, call' = call,
         net' = net, Asked' = Asked, died' = died
  PROVE  Progress' <=> Progress
<1>1. NotAsked' <=> NotAsked
  BY DEF NotAsked
<1>2. ASSUME NEW h
      PROVE  /\ Datagram(h)' = Datagram(h) /\ Due(h)' = Due(h)
             /\ \A r : ReplyOf(h, r)' = ReplyOf(h, r)
  BY DEF Datagram, Due, Sent, Slots, ReplyOf
<1>3. ASSUME NEW h PROVE AskedOnly(h)' <=> AskedOnly(h)
  BY <1>2 DEF AskedOnly
<1>4. ASSUME NEW h PROVE Refused(h)' <=> Refused(h)
  BY <1>2 DEF Refused
<1>5. ASSUME NEW h PROVE Told(h)' <=> Told(h)
  BY <1>2 DEF Told
<1> QED
  BY <1>1, <1>3, <1>4, <1>5 DEF Progress

(* A reply waiting to be read is one the call still lacks, and there is    *)
(* none before the daemon has been asked and has answered.                 *)
LEMMA ReplyIsAwaited ==
  ASSUME ClientBase, Progress, NEW m \in net, m.to = 0
  PROVE  \E h \in daemons :
           /\ Asked = {h}
           /\ IF m.pkt.action = "fail" THEN Refused(h)
              ELSE /\ Told(h)
                   /\ \E e \in Due(h) \ ToSet(infos) :
                        m = ReplyOf(h, InquiryResultPkt(e))
<1>1. ~NotAsked
  BY DEF NotAsked
<1>2. PICK h \in daemons : AskedOnly(h) \/ Refused(h) \/ Told(h)
  BY <1>1 DEF Progress
<1>3. ~AskedOnly(h)
  <2>1. h # 0
    BY GoClientAssumption DEF ClientBase, ClientTypeOK
  <2> QED
    BY <2>1 DEF AskedOnly, Datagram
<1>4. Refused(h) => m.pkt.action = "fail"
  BY DEF Refused, ReplyOf, ResultPkt
<1>5. Told(h) => \E e \in Due(h) \ ToSet(infos) : m = ReplyOf(h, InquiryResultPkt(e))
  BY DEF Told
<1>6. Told(h) => m.pkt.action = "succ"
  BY <1>5 DEF ReplyOf, InquiryResultPkt
<1> QED
  BY <1>2, <1>3, <1>4, <1>5, <1>6 DEF Refused, Told

(* A request waiting for the daemon is the latest call's, and all there is *)
LEMMA RequestIsAwaited ==
  ASSUME ClientBase, Progress, NEW m \in net, m.to # 0
  PROVE  \E h \in daemons : AskedOnly(h) /\ m = Datagram(h)
<1>1. ~NotAsked
  BY DEF NotAsked
<1>2. PICK h \in daemons : AskedOnly(h) \/ Refused(h) \/ Told(h)
  BY <1>1 DEF Progress
<1>3. \A r : ReplyOf(h, r).to = 0
  BY DEF ReplyOf
<1>4. ~Refused(h)
  BY <1>3 DEF Refused
<1>5. ~Told(h)
  BY <1>3 DEF Told
<1> QED
  BY <1>2, <1>4, <1>5 DEF AskedOnly

(* Another reply read is one service more, and one reply less to come.     *)
LEMMA ReadOneMore ==
  ASSUME ClientBase, NEW h, Told(h), NEW e \in Due(h) \ ToSet(infos),
         infos' = Append(infos, e), net' = net \ {ReplyOf(h, InquiryResultPkt(e))},
         held' = held, daemons' = daemons, name' = name, call' = call, Asked' = Asked,
         died' = died, e \in Entry
  PROVE  Told(h)'
<1> DEFINE n == Len(infos)
<1>1. infos \in Seq(Entry) /\ n \in Nat /\ DOMAIN infos = 1..n
  BY LenProperties DEF ClientBase, ClientTypeOK
<1>2. /\ infos' \in Seq(Entry) /\ Len(infos') = n + 1 /\ infos'[n + 1] = e
      /\ \A k \in 1..n : infos'[k] = infos[k]
  BY <1>1, AppendProperties
<1>3. ToSet(infos) = { infos[k] : k \in 1..n }
  BY <1>1 DEF ToSet
<1>4. ToSet(infos') = { infos'[k] : k \in 1..(n + 1) }
  BY <1>2, LenProperties DEF ToSet
<1> HIDE DEF n
<1>5. \A k : k \in 1..(n + 1) <=> k \in 1..n \/ k = n + 1
  BY <1>1
<1>6. ToSet(infos') = ToSet(infos) \cup {e}
  BY <1>2, <1>3, <1>4, <1>5
<1>7. \A k \in 1..n : infos[k] # e
  BY <1>3
<1>8. \A j, k \in 1..n : infos[j] = infos[k] => j = k
  BY DEF Told, n
<1>9. \A j, k \in 1..(n + 1) : infos'[j] = infos'[k] => j = k
  BY <1>2, <1>5, <1>7, <1>8
<1>10. /\ Due(h)' = Due(h) /\ \A r : ReplyOf(h, r)' = ReplyOf(h, r)
       /\ died'[h] = 0 => Due(h) = Matching(held'[h], name')
  BY DEF Due, Sent, Slots, ReplyOf, Told
<1>11. \A x, y : ReplyOf(h, InquiryResultPkt(x)) = ReplyOf(h, InquiryResultPkt(y)) => x = y
  BY DEF ReplyOf, InquiryResultPkt
<1>12. net' = { ReplyOf(h, InquiryResultPkt(x)) : x \in Due(h) \ ToSet(infos') }
  <2>1. net = { ReplyOf(h, InquiryResultPkt(x)) : x \in Due(h) \ ToSet(infos) }
    BY DEF Told
  <2> QED
    BY <1>6, <1>11, <2>1
<1>13. ToSet(infos') \subseteq Due(h)
  BY <1>6 DEF Told
<1>14. Asked' = {h}
  BY DEF Told
<1>15. net' = { ReplyOf(h, InquiryResultPkt(x))' : x \in Due(h)' \ ToSet(infos') }
  BY <1>10, <1>12
<1>16. \A j, k \in 1..Len(infos') : infos'[j] = infos'[k] => j = k
  BY <1>2, <1>9
<1>17. ToSet(infos') \subseteq Due(h)'
  BY <1>10, <1>13
<1> QED
  BY <1>10, <1>14, <1>15, <1>16, <1>17 DEF Told

(* With at most one daemon that answers in time, every step leaves what    *)
(* the call still lacks in the network.                                    *)
LEMMA CallIsTrueStep ==
  ASSUME ClientBase, ClientBase', CallIsTrue, [ClientNext]_clientVars
  PROVE  CallIsTrue'
<1> SUFFICES ASSUME OneDaemon
             PROVE  /\ ~InCall' => net' = {}
                    /\ InCall' => Progress'
                    /\ main' = "joining" =>
                         net' = {} /\ (Asked' = {} => scan' \in {"off", "signal"})
  BY SameEnvironment DEF CallIsTrue
<1>0. /\ ~InCall => net = {}
      /\ InCall => Progress
      /\ main = "joining" => net = {} /\ (Asked = {} => scan \in {"off", "signal"})
  BY DEF CallIsTrue
<1>1. /\ timely /\ \A g, h \in daemons : g = h
      /\ daemons' = daemons /\ held' = held /\ network' = network
      /\ \A h, s : Sent(h, s)' = Sent(h, s)
  BY SameEnvironment DEF OneDaemon
<1>2. /\ ClientTypeOK /\ ScanEndsWithItsCall /\ CallHasName /\ MailOK /\ WrittenOK
      /\ ifaddrs \in Seq(Interface) /\ daemons \subseteq Host /\ 0 \notin daemons
      /\ held \in [daemons -> Seq(Entry)] /\ died \in [daemons -> 0..MaxCalls]
      /\ call \in Nat /\ \A h \in daemons : died[h] \in Nat /\ died[h] <= call
      /\ scan # "off" => InCall /\ ~broadcastValid
  BY GoClientAssumption
     DEF ClientBase, ClientTypeOK, ScanEndsWithItsCall, InCall, CallHasName
<1>3. written' = written => Asked' = Asked
  BY <1>1 DEF Asked
<1>4. UNCHANGED <<name, infos, call, net, written, died>> => (Progress' <=> Progress)
  BY <1>1, <1>3, SameProgress
<1>5. ASSUME StartCall PROVE InCall' /\ main' = "started" /\ Progress'
  <2>1. net = {} /\ infos' = <<>> /\ main' = "started" /\ call' = call + 1 /\ died' = died
    BY <1>0, <1>5 DEF StartCall, InCall
  <2>2. \A h \in daemons' : died'[h] < call'
    BY <1>1, <1>2, <2>1
  <2>3. CASE broadcastValid
    <3>1. /\ net' = { Datagram(h)' : h \in daemons \cap {Here} }
          /\ written' = {<<"loopback", Here>>}
      BY <1>5, <2>1, <2>3 DEF StartCall, broadcastValid
    <3>2. Asked' = daemons \cap {Here}
      BY <1>1, <3>1 DEF Asked
    <3>3. CASE Here \in daemons
      <4>1. Asked' = {Here} /\ net' = {Datagram(Here)'}
        BY <3>1, <3>2, <3>3
      <4>2. AskedOnly(Here)'
        BY <1>1, <2>1, <2>2, <3>3, <4>1 DEF AskedOnly
      <4> QED
        BY <1>1, <2>1, <3>3, <4>2 DEF InCall, Progress
    <3>4. CASE Here \notin daemons
      <4>1. Asked' = {} /\ net' = {}
        BY <3>1, <3>2, <3>4
      <4> QED
        BY <2>1, <2>2, <4>1 DEF InCall, Progress, NotAsked
    <3> QED
      BY <3>3, <3>4
  <2>4. CASE ~broadcastValid
    <3>1. net' = {} /\ written' = {}
      BY <1>5, <2>1, <2>4 DEF StartCall
    <3> QED
      BY <2>1, <2>2, <3>1 DEF InCall, Progress, NotAsked, Asked
  <2> QED
    BY <2>3, <2>4
<1>6. ASSUME LowerRecEnd PROVE InCall' /\ main' = "reading" /\ Progress'
  BY <1>0, <1>4, <1>6 DEF LowerRecEnd, InCall, scanVars
<1>7. ASSUME ReadSucc PROVE InCall' /\ main' = "reading" /\ Progress'
  <2>1. PICK m \in net : /\ m.to = 0 /\ m.pkt.action = "succ"
                         /\ net' = net \ {m} /\ infos' = Append(infos, m.pkt.info)
    BY <1>7 DEF ReadSucc
  <2>2. /\ main = "reading" /\ main' = "reading"
        /\ UNCHANGED <<died, name, call, written>>
    BY <1>7 DEF ReadSucc, scanVars
  <2>3. Progress
    BY <1>0, <2>2 DEF InCall
  <2>4. PICK h \in daemons :
          Told(h) /\ \E e \in Due(h) \ ToSet(infos) :
                       m = ReplyOf(h, InquiryResultPkt(e))
    BY <2>1, <2>3, ReplyIsAwaited
  <2>5. PICK e \in Due(h) \ ToSet(infos) : m = ReplyOf(h, InquiryResultPkt(e))
    BY <2>4
  <2>6. m.pkt.info = e /\ e \in Entry
    <3>1. Due(h) \subseteq Entry
      BY <1>2, AnswerProperties DEF Due
    <3> QED
      BY <2>5, <3>1 DEF ReplyOf, InquiryResultPkt
  <2>7. Told(h)'
    BY <1>1, <1>3, <2>1, <2>2, <2>4, <2>5, <2>6, ReadOneMore
  <2> QED
    BY <1>1, <2>2, <2>7 DEF InCall, Progress
<1>8. ASSUME ReadFail PROVE net' = {} /\ Progress' /\ Asked' # {}
  <2>1. PICK m \in net : m.to = 0 /\ m.pkt.action = "fail" /\ net' = net \ {m}
    BY <1>8 DEF ReadFail
  <2>2. main = "reading" /\ UNCHANGED <<died, name, infos, call, written>>
    BY <1>8 DEF ReadFail, scanVars
  <2>3. Progress
    BY <1>0, <2>2 DEF InCall
  <2>4. PICK h \in daemons : Refused(h)
    BY <2>1, <2>3, ReplyIsAwaited
  <2>5. net' = {} /\ Asked' = {h} /\ infos' = <<>>
    BY <1>1, <1>3, <2>1, <2>2, <2>4 DEF Refused
  <2>6. Due(h)' = {} /\ Matching(held'[h], name') = {}
    <3>1. Sent(h, name) = {} /\ Matching(held[h], name) = {}
      BY <1>2, <2>4, AnswerProperties DEF Refused
    <3>2. Sent(h, name)' = {}
      BY <1>1, <2>2, <3>1
    <3> QED
      BY <1>1, <2>2, <3>1, <3>2 DEF Due
  <2>7. ToSet(infos') = {} /\ Len(infos') = 0
    BY <2>5, EmptyList
  <2>8. net' = { ReplyOf(h, InquiryResultPkt(e))' : e \in Due(h)' \ ToSet(infos') }
    BY <2>5, <2>6
  <2>9. \A j, k \in 1..Len(infos') : infos'[j] = infos'[k] => j = k
    BY <2>7
  <2>10. Told(h)'
    BY <2>5, <2>7, <2>8, <2>9, <2>6 DEF Told
  <2> QED
    BY <1>1, <2>5, <2>10 DEF Progress
<1>9. ASSUME ReadNothing PROVE net' = {} /\ Progress' /\ scan' \in {"off", "signal"}
  <2>1. main = "reading" /\ Quiet /\ UNCHANGED <<died, name, infos, call, scan, written, net>>
    BY <1>1, <1>9 DEF ReadNothing, scanVars
  <2> QED
    BY <1>0, <1>4, <2>1 DEF InCall, Quiet
<1>10. ASSUME Join PROVE net' = {} /\ ~InCall'
  BY <1>0, <1>10 DEF Join, InCall
<1>11. ASSUME Quit PROVE net' = {} /\ ~InCall'
  BY <1>0, <1>11 DEF Quit, InCall
<1>12. ASSUME ScanReset \/ ScanCheck \/ ScanSignal
       PROVE  /\ InCall' /\ Progress' /\ net' = net /\ main' = main /\ Asked' = Asked
              /\ scan = "signal" => scan' = "off"
              /\ scan # "off"
  <2>1. scan # "off" /\ UNCHANGED <<died, main, name, infos, call, written, net>>
    BY <1>12 DEF ScanReset, ScanCheck, ScanSignal, mainVars
  <2>2. scan = "signal" => scan' = "off"
    BY <1>12 DEF ScanReset, ScanCheck, ScanSignal
  <2>3. InCall /\ InCall'
    BY <1>2, <2>1 DEF InCall
  <2> QED
    BY <1>0, <1>3, <1>4, <2>1, <2>2, <2>3
<1>13. ASSUME ScanWrite
       PROVE  InCall' /\ Progress' /\ (main' = "joining" => net' = {} /\ Asked' # {})
  <2>1. /\ scan = "write" /\ written' = written \cup {<<network, subIP>>}
        /\ net' = IF network = "lan" /\ subIP \in daemons
                    THEN net \cup {Datagram(subIP)} ELSE net
        /\ UNCHANGED <<died, main, name, infos, call>>
    BY <1>13 DEF ScanWrite, mainVars
  <2>2. InCall /\ InCall' /\ Progress /\ ~broadcastValid
    BY <1>0, <1>2, <2>1 DEF InCall
  <2>3. main = "joining" => net = {} /\ Asked # {}
    BY <1>0, <2>1
  <2>4. CASE network = "lan" /\ subIP \in daemons
    <3>1. written = {"lan"} \X (1..(subIP - 1))
      BY <1>2, <2>1, <2>4 DEF WrittenOK
    <3>2. <<"lan", subIP>> \notin written /\ subIP \in Nat
      BY <1>2, <2>1, <3>1, GoClientAssumption DEF ClientTypeOK
    <3>3. subIP \notin Asked
      BY <3>2, <2>4, AskedBy
    <3>4. \A h \in daemons : Asked # {h}
      BY <1>1, <2>4, <3>3
    <3>5. NotAsked
      BY <2>2, <3>4 DEF Progress, AskedOnly, Refused, Told
    <3>6. Asked' = {subIP}
      <4>1. daemons = {subIP} /\ <<"lan", subIP>> \in written'
        BY <1>1, <2>1, <2>4
      <4> QED
        BY <1>1, <4>1 DEF Asked
    <3>7. Datagram(subIP) = [to |-> subIP, call |-> call', pkt |-> InquiryPkt(name')]
      BY <2>1 DEF Datagram
    <3>8. net' = {[to |-> subIP, call |-> call', pkt |-> InquiryPkt(name')]} /\ infos' = <<>>
      BY <2>1, <2>4, <3>5, <3>7 DEF NotAsked
    <3>9. \E h \in daemons : /\ Asked' = {h} /\ infos' = <<>> /\ died'[h] < call'
                             /\ net' = {[to |-> h, call |-> call', pkt |-> InquiryPkt(name')]}
      BY <2>1, <2>4, <3>5, <3>6, <3>8 DEF NotAsked
    <3>10. Progress'
      BY <1>1, <3>9 DEF Progress, AskedOnly, Datagram
    <3>11. main # "joining"
      BY <2>3, <3>5 DEF NotAsked
    <3> QED
      BY <2>1, <2>2, <3>10, <3>11
  <2>5. CASE ~(network = "lan" /\ subIP \in daemons)
    <3>1. net' = net
      BY <2>1, <2>5
    <3>2. Asked' = Asked
      <4>1. network # "loopback"
        BY <2>2 DEF broadcastValid
      <4>2. \A h \in daemons : <<"lan", h>> \in written' <=> <<"lan", h>> \in written
        BY <2>1, <2>5
      <4>3. \A h : <<"loopback", h>> \in written' <=> <<"loopback", h>> \in written
        BY <2>1, <4>1
      <4> QED
        BY <1>1, <4>2, <4>3 DEF Asked
    <3>3. Progress'
      BY <1>1, <2>1, <2>2, <3>1, <3>2, SameProgress
    <3> QED
      BY <2>1, <2>2, <2>3, <3>1, <3>2, <3>3
  <2> QED
    BY <2>4, <2>5
<1>14. ASSUME DaemonAnswers PROVE InCall' /\ Progress' /\ main' # "joining"
  <2>1. PICK m \in net :
          /\ m.to # 0 /\ died[m.to] = 0
          /\ LET s == m.pkt.service_name
                 replies == IF GetCount(held[m.to], s) = 0
                              THEN {ResultPkt(FALSE)}
                              ELSE { InquiryResultPkt(e) : e \in Sent(m.to, s) }
             IN  /\ net' = (net \ {m}) \cup
                        { [to |-> 0, from |-> m.to, call |-> m.call, pkt |-> r] :
                            r \in replies }
                 /\ died' = IF Panics(m.to, s) THEN [died EXCEPT ![m.to] = call]
                                               ELSE died
    BY <1>14 DEF DaemonAnswers
  <2>2. UNCHANGED <<main, name, infos, call, written>>
    BY <1>14 DEF DaemonAnswers, mainVars, scanVars
  <2>3. InCall /\ InCall' /\ main' # "joining" /\ Progress
    BY <1>0, <2>1, <2>2 DEF InCall
  <2>4. PICK h \in daemons : AskedOnly(h) /\ m = Datagram(h)
    BY <2>1, <2>3, RequestIsAwaited
  <2>5. m.to = h /\ m.pkt.service_name = name /\ m.call = call /\ died[h] = 0
    BY <2>1, <2>4 DEF Datagram, InquiryPkt
  <2>6. net \ {m} = {} /\ Asked' = {h} /\ infos' = <<>>
    BY <1>3, <2>2, <2>4 DEF AskedOnly
  <2>7. \A r : ReplyOf(h, r)' = [to |-> 0, from |-> h, call |-> call, pkt |-> r]
    BY <2>2 DEF ReplyOf
  <2>8. Sent(h, name)' = Sent(h, name) /\ held'[h] = held[h] /\ held[h] \in Seq(Entry)
    BY <1>1, <1>2, <2>2
  <2>9. CASE GetCount(held[h], name) = 0
    <3>1. net' = {ReplyOf(h, ResultPkt(FALSE))'}
      BY <2>1, <2>5, <2>6, <2>7, <2>9
    <3>2. Refused(h)'
      BY <2>2, <2>6, <2>8, <2>9, <3>1 DEF Refused
    <3> QED
      BY <1>1, <2>3, <3>2 DEF Progress
  <2>10. CASE GetCount(held[h], name) # 0
    <3>1. ToSet(infos') = {} /\ Len(infos') = 0
      BY <2>6, EmptyList
    <3>2. net' = { [to |-> 0, from |-> h, call |-> call, pkt |-> InquiryResultPkt(e)] :
                     e \in Sent(h, name) }
      BY <2>1, <2>5, <2>6, <2>10
    <3>3. Due(h)' = Sent(h, name) /\ (died'[h] = 0 => Due(h)' = Matching(held'[h], name'))
      <4>1. CASE Panics(h, name)
        <5>1. died'[h] = call
          BY <1>2, <2>1, <2>5, <4>1
        <5>2. call # 0
          BY <1>2, <2>3 DEF CallHasName
        <5> QED
          BY <2>2, <2>8, <5>1, <5>2 DEF Due
      <4>2. CASE ~Panics(h, name)
        <5>1. died'[h] = 0
          BY <2>1, <2>5, <4>2
        <5>2. Sent(h, name) = Matching(held[h], name)
          BY <2>8, <4>2, AnswerProperties
        <5> QED
          BY <2>2, <2>8, <5>1, <5>2 DEF Due
      <4> QED
        BY <4>1, <4>2
    <3>4. net' = { ReplyOf(h, InquiryResultPkt(e))' : e \in Due(h)' \ ToSet(infos') }
      BY <2>7, <3>1, <3>2, <3>3
    <3>5. \A j, k \in 1..Len(infos') : infos'[j] = infos'[k] => j = k
      BY <3>1
    <3>6. Told(h)'
      BY <2>6, <3>1, <3>3, <3>4, <3>5 DEF Told
    <3> QED
      BY <1>1, <2>3, <3>6 DEF Progress
  <2> QED
    BY <2>9, <2>10
<1>15. ASSUME NobodyAnswers PROVE InCall' /\ Progress' /\ main' # "joining"
  <2>1. PICK m \in net : m.to # 0 /\ died[m.to] # 0 /\ net' = net \ {m}
    BY <1>15 DEF NobodyAnswers
  <2>2. UNCHANGED <<died, main, name, infos, call, written>>
    BY <1>15 DEF NobodyAnswers, mainVars, scanVars
  <2>3. InCall /\ InCall' /\ main' # "joining" /\ Progress
    BY <1>0, <2>1, <2>2 DEF InCall
  <2>4. PICK h \in daemons : AskedOnly(h) /\ m = Datagram(h)
    BY <2>1, <2>3, RequestIsAwaited
  <2>5. net' = {} /\ Asked' = {h} /\ infos' = <<>>
    BY <1>3, <2>1, <2>2, <2>4 DEF AskedOnly
  <2>6. died'[h] \notin {0, call'}
    BY <1>2, <2>1, <2>2, <2>4 DEF AskedOnly, Datagram
  <2>7. Due(h)' = {}
    BY <2>6 DEF Due
  <2>8. ToSet(infos') = {} /\ Len(infos') = 0
    BY <2>5, EmptyList
  <2>9. \A j, k \in 1..Len(infos') : infos'[j] = infos'[k] => j = k
    BY <2>8
  <2>10. net' = { ReplyOf(h, InquiryResultPkt(e))' : e \in Due(h)' \ ToSet(infos') }
    BY <2>5, <2>7
  <2>11. Told(h)'
    BY <2>5, <2>6, <2>8, <2>9, <2>10 DEF Told
  <2> QED
    BY <1>1, <2>3, <2>11 DEF Progress
<1>16. ~Lose
  BY <1>1 DEF Lose
<1>17. ASSUME UNCHANGED clientVars
       PROVE  /\ net' = net /\ scan' = scan /\ main' = main /\ Asked' = Asked
              /\ (InCall' <=> InCall) /\ (Progress' <=> Progress)
  <2>1. UNCHANGED <<died, main, name, infos, call, written, net, scan>>
    BY <1>17 DEF clientVars, mainVars, scanVars
  <2> QED
    BY <1>3, <1>4, <2>1 DEF InCall
<1>18. CASE StartCall \/ LowerRecEnd \/ ReadSucc
  BY <1>5, <1>6, <1>7, <1>18
<1>19. CASE ReadFail \/ ReadNothing
  BY <1>8, <1>9, <1>19
<1>20. CASE Join \/ Quit
  BY <1>10, <1>11, <1>20 DEF InCall
<1>21. CASE ScanReset \/ ScanCheck \/ ScanSignal
  BY <1>0, <1>12, <1>21
<1>22. CASE ScanWrite
  BY <1>13, <1>22
<1>23. CASE DaemonAnswers \/ NobodyAnswers
  BY <1>14, <1>23, <1>15
<1>24. CASE UNCHANGED clientVars
  BY <1>0, <1>17, <1>24
<1> QED
  BY <1>16, <1>18, <1>19, <1>20, <1>21, <1>22, <1>23, <1>24 DEF ClientNext, Read, Scan, Over

(* With one daemon in its network, nothing ends the first scan before it   *)
(* has reached the daemon.                                                 *)
LEMMA FirstCallStep ==
  ASSUME ClientBase, CallIsTrue, FirstCallAsks, [ClientNext]_clientVars
  PROVE  FirstCallAsks'
<1> SUFFICES ASSUME OneDaemon, network = "lan", call' <= 1
             PROVE  /\ recEnd' => daemons \subseteq Asked'
                    /\ InCall' /\ scan' \in {"off", "signal"} => daemons \subseteq Asked'
  BY SameEnvironment DEF FirstCallAsks
<1>1. /\ timely /\ \A g, h \in daemons : g = h
      /\ daemons' = daemons
  BY SameEnvironment DEF OneDaemon
<1>2. /\ ClientTypeOK /\ ScanEndsWithItsCall /\ CallHasName /\ WrittenOK
      /\ call \in Nat /\ daemons \subseteq 1..LastSub /\ ~broadcastValid
      /\ scan # "off" => InCall
  BY GoClientAssumption
     DEF ClientBase, ClientTypeOK, ScanEndsWithItsCall, InCall, broadcastValid
<1>3. written' = written => Asked' = Asked
  BY <1>1 DEF Asked
<1>4. CASE StartCall
  <2>1. call' = call + 1 /\ recEnd' = recEnd /\ scan' = "reset"
    BY <1>2, <1>4 DEF StartCall
  <2>2. call = 0
    BY <1>2, <2>1
  <2> QED
    BY <1>2, <2>1, <2>2 DEF CallHasName
<1>5. ASSUME call' = call
      PROVE  /\ recEnd => daemons \subseteq Asked
             /\ InCall /\ scan \in {"off", "signal"} => daemons \subseteq Asked
  BY <1>5 DEF FirstCallAsks
<1>6. CASE LowerRecEnd
  <2>1. ~recEnd' /\ InCall /\ UNCHANGED <<call, scan, written>>
    BY <1>6 DEF LowerRecEnd, scanVars, InCall
  <2> QED
    BY <1>3, <1>5, <2>1
<1>7. CASE ReadSucc \/ ReadFail
  <2>1. (\E m \in net : m.to = 0) /\ InCall /\ UNCHANGED written
    BY <1>7 DEF ReadSucc, ReadFail, scanVars, InCall
  <2>2. PICK m \in net : m.to = 0
    BY <2>1
  <2>3. \E h \in daemons : Asked = {h}
    BY <2>1, <2>2, ReplyIsAwaited DEF CallIsTrue
  <2> QED
    BY <1>1, <1>3, <2>1, <2>3
<1>8. CASE ReadNothing
  <2>1. InCall /\ scan \in {"off", "signal"} /\ UNCHANGED <<call, scan, written>>
    BY <1>1, <1>8 DEF ReadNothing, Quiet, scanVars, InCall
  <2> QED
    BY <1>3, <1>5, <2>1
<1>9. CASE Join \/ Quit
  <2>1. ~InCall' /\ UNCHANGED <<call, recEnd, written>>
    BY <1>9 DEF Join, Quit, scanVars, InCall
  <2> QED
    BY <1>3, <1>5, <2>1
<1>10. CASE ScanReset
  <2>1. scan' = "check" /\ UNCHANGED <<call, recEnd, written>>
    BY <1>10 DEF ScanReset, mainVars
  <2> QED
    BY <1>3, <1>5, <2>1
<1>11. CASE ScanCheck
  <2>1. /\ scan = "check" /\ scan' = IF finish \/ recEnd THEN "signal" ELSE "write"
        /\ UNCHANGED <<call, recEnd, written>>
    BY <1>11 DEF ScanCheck, mainVars
  <2>2. finish => daemons \subseteq Asked
    <3>1. finish => written = {"lan"} \X (1..LastSub)
      BY <1>2, <2>1 DEF WrittenOK
    <3> QED
      BY <1>2, <3>1 DEF Asked
  <2> QED
    BY <1>3, <1>5, <2>1, <2>2
<1>12. CASE ScanWrite
  <2>1. scan' = "check" /\ written \subseteq written' /\ UNCHANGED <<call, recEnd>>
    BY <1>12 DEF ScanWrite, mainVars
  <2>2. Asked \subseteq Asked'
    BY <1>1, <2>1 DEF Asked
  <2> QED
    BY <1>5, <2>1, <2>2
<1>13. CASE ScanSignal
  <2>1. InCall /\ scan = "signal" /\ UNCHANGED <<call, recEnd, written>>
    BY <1>2, <1>13 DEF ScanSignal, mainVars
  <2> QED
    BY <1>3, <1>5, <2>1
<1>14. CASE DaemonAnswers \/ NobodyAnswers \/ Lose \/ UNCHANGED clientVars
  <2>1. UNCHANGED <<call, recEnd, main, scan, written>>
    BY <1>14 DEF DaemonAnswers, NobodyAnswers, Lose, clientVars, mainVars, scanVars
  <2> QED
    BY <1>3, <1>5, <2>1 DEF InCall
<1> QED
  BY <1>4, <1>6, <1>7, <1>8, <1>9, <1>10, <1>11, <1>12, <1>13, <1>14
     DEF ClientNext, Read, Scan, Over

LEMMA ClientInvariance == ClientSpec => []ClientInd
<1>1. ClientInit => ClientInd
  <2> SUFFICES ASSUME ClientInit PROVE ClientInd
    OBVIOUS
  <2>1. main = "idle" /\ net = {} /\ scan = "off" /\ ~recEnd /\ ~InCall
    BY DEF ClientInit, InCall
  <2> QED
    BY <2>1, InitClientBase DEF ClientInd, CallIsTrue, FirstCallAsks
<1>2. ClientInd /\ [ClientNext]_clientVars => ClientInd'
  BY StepClientBase, CallIsTrueStep, FirstCallStep DEF ClientInd
<1> QED
  BY <1>1, <1>2, PTL DEF ClientSpec

-----------------------------------------------------------------------------
(* The variables hold what their declarations say.                         *)
THEOREM ClientTypeCorrect == ClientSpec => []ClientTypeOK
<1>1. ClientBase => ClientTypeOK
  BY DEF ClientBase
<1> QED
  BY <1>1, ClientBaseInvariance, PTL

(* However late replies are, a call that scans ends after its goroutine,   *)
(* and no two scans run at a time.                                         *)
THEOREM ScanIsJoined == ClientSpec => []ScanEndsWithItsCall
<1>1. ClientBase => ScanEndsWithItsCall
  BY DEF ClientBase
<1> QED
  BY <1>1, ClientBaseInvariance, PTL

(* Daemons that number one at most are one daemon.                         *)
LEMMA FewAreOne ==
  ASSUME ClientTypeOK, Cardinality(daemons) <= 1
  PROVE  \A g, h \in daemons : g = h
<1>1. IsFiniteSet(1..LastSub)
  BY FS_Interval, GoClientAssumption
<1>2. IsFiniteSet(daemons) /\ Cardinality(daemons) \in Nat
  BY <1>1, FS_Subset, FS_CardinalityType, GoClientAssumption DEF ClientTypeOK
<1>3. CASE Cardinality(daemons) = 0
  BY <1>2, <1>3, FS_EmptySet
<1>4. CASE Cardinality(daemons) = 1
  BY <1>2, <1>4, FS_Singleton
<1> QED
  BY <1>2, <1>3, <1>4

(* A sequence without repetitions is as long as the set of its elements.   *)
LEMMA LengthIsCardinality ==
  ASSUME NEW S, NEW q \in Seq(S), \A j, k \in 1..Len(q) : q[j] = q[k] => j = k
  PROVE  Cardinality(ToSet(q)) = Len(q)
<1> DEFINE n == Len(q)
<1>1. n \in Nat /\ DOMAIN q = 1..n /\ q \in [1..n -> S]
  BY LenProperties
<1>2. ToSet(q) = { q[k] : k \in 1..n }
  BY <1>1 DEF ToSet
<1>3. q \in Bijection(1..n, ToSet(q))
  <2>1. q \in [1..n -> ToSet(q)] /\ \A e \in ToSet(q) : \E k \in 1..n : q[k] = e
    BY <1>1, <1>2
  <2>2. \A j, k \in 1..n : q[j] = q[k] => j = k
    OBVIOUS
  <2> QED
    BY <2>1, <2>2 DEF Bijection, Injection, Surjection, IsInjective
<1>4. IsFiniteSet(1..n) /\ Cardinality(1..n) = IF 1 > n THEN 0 ELSE n - 1 + 1
  BY <1>1, FS_Interval
<1>5. Cardinality(ToSet(q)) = Cardinality(1..n)
  BY <1>3, <1>4, FS_Bijection DEF ExistsBijection
<1> QED
  BY <1>1, <1>4, <1>5

(* With nothing left in the network, the call has read what the daemon     *)
(* sends, or has not asked it, and a daemon that lives has sent all.       *)
LEMMA NothingLeftToRead ==
  ASSUME ClientBase, Progress, net = {}
  PROVE  LET there == UNION { InFront(held[h], name) :
                                h \in { g \in Asked : died[g] \in {0, call} } }
         IN  /\ ToSet(infos) = there /\ Len(infos) = Cardinality(there)
             /\ \A h \in Asked : \/ died[h] # 0
                                 \/ Matching(held[h], name) \subseteq there
<1> DEFINE there == UNION { InFront(held[h], name) :
                              h \in { g \in Asked : died[g] \in {0, call} } }
<1>1. CASE NotAsked
  <2>1. there = {} /\ infos = <<>> /\ Asked = {}
    BY <1>1 DEF NotAsked
  <2> QED
    BY <2>1, EmptyList, FS_EmptySet
<1>2. CASE \E h \in daemons : Told(h)
  <2>1. PICK h \in daemons : Told(h)
    BY <1>2
  <2>2. Due(h) \ ToSet(infos) = {}
    BY <2>1 DEF Told
  <2>3. Sent(h, name) = InFront(held[h], name)
    BY AnswerProperties DEF ClientBase, ClientTypeOK
  <2>4. there = IF died[h] \in {0, call} THEN InFront(held[h], name) ELSE {}
    BY <2>1 DEF Told
  <2>5. there = Due(h) /\ ToSet(infos) = there
    BY <2>1, <2>2, <2>3, <2>4 DEF Told, Due
  <2>6. Cardinality(ToSet(infos)) = Len(infos)
    BY <2>1, LengthIsCardinality DEF Told, ClientBase, ClientTypeOK
  <2>7. died[h] # 0 \/ Matching(held[h], name) \subseteq there
    BY <2>1, <2>5 DEF Told
  <2> QED
    BY <2>1, <2>5, <2>6, <2>7 DEF Told
<1>3. \A h : ~AskedOnly(h) /\ ~Refused(h)
  BY DEF AskedOnly, Refused
<1> QED
  BY <1>1, <1>2, <1>3 DEF Progress

(* The one /24 network is the one the client uses.                         *)
LEMMA OneNetwork == GetLocalIPv4Network(<<Lo, Lan>>) = "lan"
<1> DEFINE sort == { ifa \in Interface : ifa.prefix = 24 }
           first == { k \in DOMAIN <<Lo, Lan>> :
                        /\ <<Lo, Lan>>[k] \in sort
                        /\ \A j \in 1..(k - 1) : <<Lo, Lan>>[j] \notin sort }
<1>1. Lo \notin sort /\ Lan \in sort
  BY DEF Lo, Lan, Interface
<1>2. DOMAIN <<Lo, Lan>> = {1, 2} /\ <<Lo, Lan>>[1] = Lo /\ <<Lo, Lan>>[2] = Lan
  OBVIOUS
<1> HIDE DEF sort
<1>3. first = {2}
  <2>1. 1 \notin first
    BY <1>1, <1>2
  <2>2. \A j \in 1..(2 - 1) : j = 1
    OBVIOUS
  <2>3. 2 \in first
    BY <1>1, <1>2, <2>2
  <2> QED
    BY <1>2, <2>1, <2>3
<1>4. FirstNet(<<Lo, Lan>>, sort) = "lan"
  <2>1. first # {} /\ (CHOOSE k \in first : TRUE) = 2
    BY <1>3
  <2>2. Lan.net = "lan"
    BY DEF Lan
  <2> QED
    BY <1>2, <2>1, <2>2 DEF FirstNet
<1> QED
  BY <1>4 DEF GetLocalIPv4Network, sort

(* With one daemon and every reply in time, an inquiry returns the         *)
(* services with the name at the head of the daemon's list, each once, if  *)
(* it has asked it and no earlier call has killed it; a daemon that holds  *)
(* more dies of the inquiry.  The first inquiry on a machine with one /24  *)
(* network has asked it.                                                   *)
THEOREM InquiryFindsTruth == ClientSpec => InquiryIsTrue
<1> DEFINE there == UNION { InFront(held[h], name) :
                              h \in { g \in Asked : died[g] \in {0, call} } }
           Truth == /\ ToSet(infos) = there
                    /\ Len(infos) = Cardinality(there)
                    /\ \A h \in Asked : \/ died[h] # 0
                                        \/ Matching(held[h], name) \subseteq there
                    /\ call = 1 /\ ifaddrs = <<Lo, Lan>> => Asked = daemons
<1>1. ASSUME ClientInd, [ClientNext]_clientVars
      PROVE  [Returns /\ timely /\ Cardinality(daemons) <= 1 => Truth]_clientVars
  <2> SUFFICES ASSUME ClientNext, Returns, timely, Cardinality(daemons) <= 1
               PROVE  Truth
    BY <1>1
  <2>1. ClientBase /\ CallIsTrue /\ FirstCallAsks /\ ClientTypeOK /\ ScanEndsWithItsCall
    BY <1>1 DEF ClientInd, ClientBase
  <2>2. OneDaemon
    BY <2>1, FewAreOne DEF OneDaemon
  <2>3. main \in {"reading", "joining"} /\ main' = "idle" /\ InCall /\ Progress
    BY <2>1, <2>2 DEF Returns, InCall, CallIsTrue
  <2>4. ReadFail \/ ReadNothing \/ Join
    <3>1. ~StartCall /\ ~LowerRecEnd /\ ~ReadSucc /\ ~Quit
      BY <2>3 DEF StartCall, LowerRecEnd, ReadSucc, Quit
    <3>2. ~Scan /\ ~DaemonAnswers /\ ~NobodyAnswers /\ ~Lose /\ ~Over
      BY <2>3 DEF Scan, ScanReset, ScanCheck, ScanWrite, ScanSignal, DaemonAnswers,
         NobodyAnswers, Lose, Over, mainVars
    <3> QED
      BY <3>1, <3>2 DEF ClientNext, Read
  <2>5. CASE ReadFail
    <3>1. PICK m \in net : m.to = 0 /\ m.pkt.action = "fail"
      BY <2>5 DEF ReadFail
    <3>2. PICK h \in daemons : Refused(h)
      BY <2>1, <2>3, <3>1, ReplyIsAwaited
    <3>3. Asked = {h} /\ infos = <<>> /\ Matching(held[h], name) = {}
      BY <2>1, <3>2, AnswerProperties DEF Refused, ClientTypeOK
    <3>4. Asked = daemons
      BY <2>2, <3>3 DEF OneDaemon
    <3>5. there = {}
      BY <3>3 DEF InFront
    <3> QED
      BY <3>3, <3>4, <3>5, EmptyList, FS_EmptySet
  <2>6. CASE ReadNothing \/ Join
    <3>1. net = {}
      <4>1. ReadNothing => net = {}
        BY <2>2 DEF ReadNothing, Quiet, OneDaemon
      <4>2. Join => net = {}
        BY <2>1, <2>2 DEF Join, CallIsTrue
      <4> QED
        BY <2>6, <4>1, <4>2
    <3>2. scan \in {"off", "signal"}
      <4>1. Join => scan = "off"
        BY <2>1, <2>3 DEF Join, ScanEndsWithItsCall, ClientTypeOK
      <4> QED
        BY <2>6, <4>1 DEF ReadNothing, Quiet
    <3>3. ASSUME call = 1, ifaddrs = <<Lo, Lan>> PROVE Asked = daemons
      <4>1. network = "lan"
        BY <3>3, OneNetwork DEF network
      <4>2. daemons \subseteq Asked
        BY <2>1, <2>2, <2>3, <3>2, <3>3, <4>1 DEF FirstCallAsks
      <4> QED
        BY <4>2, <2>1, AskedBy
    <3> QED
      BY <2>1, <2>3, <3>1, <3>3, NothingLeftToRead
  <2> QED
    BY <2>4, <2>5, <2>6
<1> QED
  BY <1>1, ClientInvariance, PTL DEF ClientSpec, InquiryIsTrue
=============================================================================
