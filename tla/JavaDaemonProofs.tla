--------------------------- MODULE JavaDaemonProofs ---------------------------
(***************************************************************************)
(* The invariants of JavaDaemon for every set of devices, services and     *)
(* data, and that it implements ServiceHolder.                             *)
(***************************************************************************)
EXTENDS JavaDaemon, ServiceListProofs

(* Outside an inquiry the loop's count is gone, and an inquiry has sent    *)
(* nothing before it has counted.                                          *)
CountBelongsToInquiry ==
  /\ count > 0 => req # NULL /\ req.action = "inquiry"
  /\ req # NULL /\ count = 0 => sent = <<>>

IndInv ==
  /\ TypeOK
  /\ OneServicePerKey
  /\ InquirySendsSeen
  /\ CountBelongsToInquiry

LEMMA InitIndInv == Init => IndInv
<1> SUFFICES ASSUME Init PROVE IndInv
  OBVIOUS
<1>1. /\ list = <<>> /\ sent = <<>> /\ req = NULL /\ count = 0 /\ i = 0
      /\ Len(list) = 0
  BY DEF Init
<1>2. closed \in BOOLEAN /\ dead \in BOOLEAN
  BY Zenon DEF Init
<1>3. /\ list \in Seq(Entry) /\ sent \in Seq(Reply)
      /\ count \in 0..Len(list) /\ i \in 0..count
      /\ req \in Request \cup {NULL}
  BY <1>1
<1>4. TypeOK
  BY <1>2, <1>3, Zenon DEF TypeOK
<1> QED
  BY <1>1, <1>4 DEF IndInv, OneServicePerKey, UniqueKeys, InquirySendsSeen,
                    CountBelongsToInquiry

(* One more reply is one more member of the replies sent.                  *)
LEMMA ToSetAppend ==
  ASSUME NEW q \in Seq(Reply), NEW r \in Reply
  PROVE  /\ ToSet(Append(q, r)) = ToSet(q) \cup {r}
         /\ Len(Append(q, r)) = Len(q) + 1
         /\ Append(q, r) \in Seq(Reply)
<1>1. /\ Len(q) \in Nat
      /\ Append(q, r) \in Seq(Reply)
      /\ Len(Append(q, r)) = Len(q) + 1
      /\ Append(q, r)[Len(q) + 1] = r
      /\ \A k \in 1..Len(q) : Append(q, r)[k] = q[k]
      /\ DOMAIN q = 1..Len(q)
      /\ DOMAIN Append(q, r) = 1..(Len(q) + 1)
  BY LenProperties, AppendProperties
<1>2. ToSet(q) = { q[k] : k \in 1..Len(q) }
  BY <1>1 DEF ToSet
<1>3. ToSet(Append(q, r)) = { Append(q, r)[k] : k \in 1..(Len(q) + 1) }
  BY <1>1 DEF ToSet
<1> QED
  BY <1>1, <1>2, <1>3

LEMMA StepIndInv == IndInv /\ [Next]_vars => IndInv'
<1> SUFFICES ASSUME IndInv, [Next]_vars PROVE IndInv'
  OBVIOUS
<1>0. /\ list \in Seq(Entry) /\ Len(list) \in Nat /\ UniqueKeys(list)
      /\ req \in Request \cup {NULL}
      /\ count \in 0..Len(list) /\ i \in 0..count
      /\ count \in Nat /\ i \in Nat
      /\ sent \in Seq(Reply)
      /\ closed \in BOOLEAN /\ dead \in BOOLEAN
  BY LenProperties DEF IndInv, TypeOK, OneServicePerKey
<1>1. CASE Receive
  <2>0. count = 0
    BY <1>0, <1>1 DEF Receive, IndInv, CountBelongsToInquiry
  <2>1. /\ list' = list /\ count' = count /\ i' = i /\ closed' = closed /\ dead' = dead
        /\ req' \in Request /\ sent' = <<>> /\ sent' \in Seq(Reply)
    BY <1>1, RepliesAreReplies DEF Receive
  <2>2. TypeOK'
    BY <1>0, <2>1, Zenon DEF TypeOK
  <2> QED
    BY <1>0, <2>0, <2>1, <2>2
       DEF IndInv, OneServicePerKey, InquirySendsSeen, CountBelongsToInquiry
<1>2. CASE Discard
  <2>0. count = 0
    BY <1>0, <1>2 DEF Discard, IndInv, CountBelongsToInquiry
  <2>1. /\ list' = list /\ count' = count /\ i' = i /\ closed' = closed /\ dead' = dead
        /\ req' = req /\ sent' = <<>> /\ sent' \in Seq(Reply)
    BY <1>2, RepliesAreReplies DEF Discard
  <2>2. TypeOK'
    BY <1>0, <2>1, Zenon DEF TypeOK
  <2> QED
    BY <1>0, <2>0, <2>1, <2>2
       DEF IndInv, OneServicePerKey, InquirySendsSeen, CountBelongsToInquiry
<1>3. CASE Register
  <2>0. count = 0 /\ i = 0
    BY <1>0, <1>3 DEF Register, Handling, IndInv, CountBelongsToInquiry
  <2>1. req.info \in Entry
    BY <1>0, <1>3, RequestFields DEF Register, Handling
  <2>2. list' \in Seq(Entry) /\ UniqueKeys(list') /\ Len(list') \in Nat
    BY <1>0, <1>3, <2>1, AddInfoProperties, ListAddProperties, LenProperties
       DEF Register
  <2>3. sent' \in Seq(Reply)
    BY <1>3, RepliesAreReplies, Zenon DEF Register
  <2>4. req' = NULL /\ count' = 0 /\ i' = 0 /\ closed' = closed /\ dead' = dead
    BY <1>3, <2>0 DEF Register
  <2>5. TypeOK'
    BY <1>0, <2>2, <2>3, <2>4 DEF TypeOK
  <2> QED
    BY <2>2, <2>4, <2>5
       DEF IndInv, OneServicePerKey, InquirySendsSeen, CountBelongsToInquiry
<1>4. CASE Unregister
  <2>0. count = 0 /\ i = 0
    BY <1>0, <1>4 DEF Unregister, Handling, IndInv, CountBelongsToInquiry
  <2>1. list' \in Seq(Entry) /\ UniqueKeys(list') /\ Len(list') \in Nat
    BY <1>0, <1>4, ListRemoveProperties, LenProperties DEF Unregister
  <2>2. sent' \in Seq(Reply)
    BY <1>4, RepliesAreReplies DEF Unregister
  <2>3. req' = NULL /\ count' = 0 /\ i' = 0 /\ closed' = closed /\ dead' = dead
    BY <1>4, <2>0 DEF Unregister
  <2>4. TypeOK'
    BY <1>0, <2>1, <2>2, <2>3 DEF TypeOK
  <2> QED
    BY <2>1, <2>3, <2>4
       DEF IndInv, OneServicePerKey, InquirySendsSeen, CountBelongsToInquiry
<1>5. CASE InquiryCount
  <2>0. /\ req # NULL /\ req.action = "inquiry" /\ sent = <<>>
        /\ list' = list /\ req' = req /\ sent' = sent /\ closed' = closed /\ dead' = dead
        /\ count' = GetCount(list, req.service_name) /\ i' = 0
    BY <1>5 DEF InquiryCount, Handling, IndInv, CountBelongsToInquiry
  <2>1. count' \in 0..Len(list') /\ i' \in 0..count' /\ count' > 0
    BY <1>0, <1>5, <2>0, GetCountProperties DEF InquiryCount
  <2>2. TypeOK'
    BY <1>0, <2>0, <2>1, Zenon DEF TypeOK
  <2>3. InquirySendsSeen'
    <3>1. Seen' = {}
      BY <2>0 DEF Seen
    <3>2. Cardinality({}) = 0 /\ Len(<<>>) = 0 /\ ToSet(<<>>) = {}
      BY FS_EmptySet DEF ToSet
    <3>3. sent' = <<>> /\ { InquiryResultPkt(list'[k]) : k \in {} } = {}
      BY <2>0
    <3> QED
      BY <2>0, <3>1, <3>2, <3>3 DEF InquirySendsSeen
  <2> QED
    BY <1>0, <2>0, <2>1, <2>2, <2>3
       DEF IndInv, OneServicePerKey, CountBelongsToInquiry
<1>6. CASE InquiryMiss
  <2>0. /\ count = 0 /\ i = 0
        /\ list' = list /\ req' = NULL /\ count' = 0 /\ i' = 0
        /\ closed' = closed /\ dead' = dead
    BY <1>0, <1>6 DEF InquiryMiss
  <2>1. sent' \in Seq(Reply)
    BY <1>6, RepliesAreReplies, Zenon DEF InquiryMiss
  <2>2. TypeOK'
    BY <1>0, <2>0, <2>1 DEF TypeOK
  <2> QED
    BY <1>0, <2>0, <2>2
       DEF IndInv, OneServicePerKey, InquirySendsSeen, CountBelongsToInquiry
<1>7. CASE InquiryStep
  <2> DEFINE e == list[i + 1]
  <2>0. /\ req # NULL /\ req.action = "inquiry" /\ i < count
        /\ list' = list /\ req' = req /\ count' = count /\ closed' = closed /\ dead' = dead
        /\ i' = i + 1
        /\ sent' = IF ListGet(list, req.service_name, i) = NULL THEN sent
                   ELSE Append(sent, InquiryResultPkt(ListGet(list, req.service_name, i)))
    BY <1>7 DEF InquiryStep, Handling
  <2>1. i' \in 0..count' /\ count > 0
    BY <1>0, <2>0
  <2>2. /\ count = GetCount(list, req.service_name)
        /\ Len(sent) = Cardinality(Seen)
        /\ ToSet(sent) = { InquiryResultPkt(list[k]) : k \in Seen }
    BY <2>0, <2>1 DEF IndInv, InquirySendsSeen
  <2>3. Seen' = { k \in 1..(i + 1) : list[k].service_name = req.service_name }
    BY <2>0 DEF Seen
  <2>4. ASSUME e.service_name = req.service_name
        PROVE  /\ sent' \in Seq(Reply)
               /\ Len(sent') = Cardinality(Seen')
               /\ ToSet(sent') = { InquiryResultPkt(list[k]) : k \in Seen' }
    <3>1. /\ ListGet(list, req.service_name, i) = e
          /\ ListGet(list, req.service_name, i) # NULL
          /\ e \in Entry
      BY <1>0, <2>0, <2>4, ListGetProperties
    <3>2. InquiryResultPkt(e) \in Reply
      BY <3>1, RepliesAreReplies
    <3>3. sent' = Append(sent, InquiryResultPkt(e))
      BY <2>0, <3>1
    <3>4. /\ sent' \in Seq(Reply) /\ Len(sent') = Len(sent) + 1
          /\ ToSet(sent') = ToSet(sent) \cup {InquiryResultPkt(e)}
      BY <1>0, <3>2, <3>3, ToSetAppend
    <3>5. Seen' = Seen \cup {i + 1} /\ i + 1 \notin Seen
      BY <1>0, <2>3, <2>4 DEF Seen
    <3>6. IsFiniteSet(1..i)
      BY <1>0, FS_Interval
    <3>7. IsFiniteSet(Seen)
      BY <3>6, FS_Subset DEF Seen
    <3>8. Cardinality(Seen') = Cardinality(Seen) + 1
      BY <3>5, <3>7, FS_AddElement
    <3>9. ToSet(sent') = { InquiryResultPkt(list[k]) : k \in Seen' }
      BY <2>2, <3>4, <3>5
    <3> QED
      BY <2>2, <3>4, <3>8, <3>9
  <2>5. ASSUME e.service_name # req.service_name
        PROVE  /\ sent' \in Seq(Reply)
               /\ Len(sent') = Cardinality(Seen')
               /\ ToSet(sent') = { InquiryResultPkt(list[k]) : k \in Seen' }
    <3>1. sent' = sent
      BY <1>0, <2>0, <2>5, ListGetProperties
    <3>2. Seen' = Seen
      BY <1>0, <2>3, <2>5 DEF Seen
    <3> QED
      BY <1>0, <2>2, <3>1, <3>2
  <2>6. /\ sent' \in Seq(Reply)
        /\ Len(sent') = Cardinality(Seen')
        /\ ToSet(sent') = { InquiryResultPkt(list[k]) : k \in Seen' }
    BY <2>4, <2>5
  <2>7. TypeOK'
    BY <1>0, <2>0, <2>1, <2>6, Zenon DEF TypeOK
  <2>8. InquirySendsSeen'
    BY <2>0, <2>2, <2>6 DEF InquirySendsSeen
  <2> QED
    BY <1>0, <2>0, <2>1, <2>7, <2>8
       DEF IndInv, OneServicePerKey, CountBelongsToInquiry
<1>8. CASE InquiryDone
  <2>1. /\ list' = list /\ req' = NULL /\ count' = 0 /\ i' = 0
        /\ sent' = sent /\ closed' = closed /\ dead' = dead
    BY <1>8 DEF InquiryDone
  <2>2. TypeOK'
    BY <1>0, <2>1 DEF TypeOK
  <2> QED
    BY <1>0, <2>1, <2>2
       DEF IndInv, OneServicePerKey, InquirySendsSeen, CountBelongsToInquiry
<1>9. CASE Stop
  <2>1. /\ list' = list /\ req' = req /\ count' = count /\ i' = i
        /\ sent' = sent /\ dead' = dead
    BY <1>9 DEF Stop
  <2>2. closed' \in BOOLEAN
    BY <1>9, Zenon DEF Stop
  <2>3. TypeOK'
    BY <1>0, <2>1, <2>2, Zenon DEF TypeOK
  <2>4. InquirySendsSeen' /\ CountBelongsToInquiry' /\ OneServicePerKey'
    BY <1>0, <2>1 DEF IndInv, InquirySendsSeen, Seen, CountBelongsToInquiry,
                      OneServicePerKey
  <2> QED
    BY <2>3, <2>4 DEF IndInv
<1>10. CASE UNCHANGED vars
  BY <1>10 DEF vars, IndInv, TypeOK, OneServicePerKey, InquirySendsSeen, Seen,
               CountBelongsToInquiry
<1>11. CASE ReceiveClosed \/ Dead
  BY <1>10, <1>11 DEF ReceiveClosed, Dead
<1>12. CASE ReceiveTooLong
  <2>0. count = 0
    BY <1>0, <1>12 DEF ReceiveTooLong, IndInv, CountBelongsToInquiry
  <2>1. /\ list' = list /\ count' = count /\ i' = i /\ closed' = closed
        /\ req' = req /\ sent' = <<>> /\ sent' \in Seq(Reply)
    BY <1>12, RepliesAreReplies DEF ReceiveTooLong
  <2>2. dead' \in BOOLEAN
    BY <1>12, Zenon DEF ReceiveTooLong
  <2>3. TypeOK'
    BY <1>0, <2>1, <2>2, Zenon DEF TypeOK
  <2> QED
    BY <1>0, <2>0, <2>1, <2>3
       DEF IndInv, OneServicePerKey, InquirySendsSeen, CountBelongsToInquiry
<1> QED
  BY <1>1, <1>2, <1>3, <1>4, <1>5, <1>6, <1>7, <1>8, <1>9, <1>10, <1>11, <1>12
     DEF Next, Handle

(* The inductive invariant holds in every behaviour of the daemon.         *)
THEOREM Invariance == Spec => []IndInv
BY InitIndInv, StepIndInv, PTL DEF Spec

(* The Java daemon's variables keep their types; in particular no inquiry  *)
(* counts more services than the list holds or looks past its count.       *)
THEOREM TypeCorrect == Spec => []TypeOK
BY Invariance, PTL DEF IndInv

(* add never lets a device and service name into the list twice.           *)
THEOREM KeysStayUnique == Spec => []OneServicePerKey
BY Invariance, PTL DEF IndInv

(* What an inquiry of the Java daemon has sent is the matching services    *)
(* among the positions it has seen.                                        *)
THEOREM InquirySendsOnlySeen == Spec => []InquirySendsSeen
BY Invariance, PTL DEF IndInv

(* An inquiry of the Android daemon for services that lead its list ends   *)
(* having sent every one of them once, or "service no found" if there is   *)
(* none.                                                                   *)
THEOREM LeadingServicesAreAnswered == Spec => LeadingServicesAnswered
<1> DEFINE Answered(s) ==
      InquiryEnds(s) /\ Leading(list, s) =>
        /\ Len(sent') = IF Matching(list, s) = {} THEN 1
                        ELSE Cardinality(Matching(list, s))
        /\ ToSet(sent') = IF Matching(list, s) = {} THEN {ResultPkt(FALSE)}
                          ELSE { InquiryResultPkt(e) : e \in Matching(list, s) }
<1>1. IndInv /\ [Next]_vars => [\A s \in Service : Answered(s)]_vars
  <2> SUFFICES ASSUME IndInv, Next, NEW s \in Service, InquiryEnds(s), Leading(list, s)
               PROVE  Answered(s)
    OBVIOUS
  <2> DEFINE c == GetCount(list, s)
  <2>1. /\ list \in Seq(Entry) /\ UniqueKeys(list) /\ sent \in Seq(Reply)
        /\ req # NULL /\ req.action = "inquiry" /\ req.service_name = s /\ req' = NULL
        /\ count \in 0..Len(list)
    BY LenProperties DEF IndInv, TypeOK, OneServicePerKey, InquiryEnds
  <2>2. InquiryMiss \/ InquiryDone
    BY <2>1 DEF Next, Handle, Handling, Receive, Discard, ReceiveTooLong,
       ReceiveClosed, Register, Unregister, InquiryCount, InquiryStep, Stop, Dead,
       vars
  <2>3. /\ c \in 0..Len(list) /\ Len(list) \in Nat
        /\ \A k \in 1..Len(list) : list[k].service_name = s <=> k <= c
    BY <2>1, LeadingProperties
  <2>4. /\ Cardinality(Matching(list, s)) = c
        /\ Matching(list, s) = {} <=> c = 0
        /\ { InquiryResultPkt(e) : e \in Matching(list, s) }
             = { InquiryResultPkt(list[k]) : k \in 1..c }
    BY <2>1, LeadingProperties
  <2>5. CASE InquiryMiss
    <3>1. c = 0 /\ sent' = <<ResultPkt(FALSE)>>
      BY <2>1, <2>5 DEF InquiryMiss
    <3>2. Len(<<ResultPkt(FALSE)>>) = 1 /\ ToSet(<<ResultPkt(FALSE)>>) = {ResultPkt(FALSE)}
      BY SingleReply
    <3> QED
      BY <2>4, <3>1, <3>2
  <2>6. CASE InquiryDone
    <3>1. /\ count = c /\ i = c /\ c > 0 /\ sent' = sent
          /\ Len(sent) = Cardinality(Seen)
          /\ ToSet(sent) = { InquiryResultPkt(list[k]) : k \in Seen }
      BY <2>1, <2>6 DEF InquiryDone, IndInv, InquirySendsSeen
    <3> HIDE DEF c
    <3>2. Seen = 1..c
      <4>1. \A k \in 1..c : k \in 1..Len(list) /\ k <= c
        BY <2>3
      <4> QED
        BY <2>1, <2>3, <3>1, <4>1 DEF Seen
    <3>3. Cardinality(1..c) = c
      <4>1. Cardinality(1..c) = IF 1 > c THEN 0 ELSE c - 1 + 1
        BY <2>3, FS_Interval
      <4> QED
        BY <2>3, <3>1, <4>1
    <3>4. Len(sent') = c /\ ToSet(sent') = { InquiryResultPkt(list[k]) : k \in 1..c }
      BY <3>1, <3>2, <3>3
    <3>5. Matching(list, s) # {}
      BY <2>4, <3>1 DEF c
    <3> QED
      BY <2>4, <3>4, <3>5 DEF c
  <2> QED
    BY <2>2, <2>5, <2>6
<1> QED
  BY <1>1, Invariance, PTL DEF Spec, LeadingServicesAnswered

-----------------------------------------------------------------------------
(* The holder's requests and replies are the daemon's.                     *)
LEMMA SameVocabulary ==
  /\ Holder!Request = Request
  /\ \A succ : Holder!ResultPkt(succ) = ResultPkt(succ)
  /\ Holder!ResultPkt(TRUE) = ResultPkt(TRUE)
  /\ Holder!ResultPkt(FALSE) = ResultPkt(FALSE)
  /\ \A e : Holder!InquiryResultPkt(e) = InquiryResultPkt(e)
<1>1. Holder!Request = Request
  BY DEF Request, RegisterPkt, UnregisterPkt, InquiryPkt, Entry,
         Holder!Request, Holder!RegisterPkt, Holder!UnregisterPkt,
         Holder!InquiryPkt, Holder!Entry
<1>2. ASSUME NEW succ
      PROVE  Holder!ResultPkt(succ) = ResultPkt(succ)
  BY DEF ResultPkt, Holder!ResultPkt
<1>3. ASSUME NEW e
      PROVE  Holder!InquiryResultPkt(e) = InquiryResultPkt(e)
  BY DEF InquiryResultPkt, Holder!InquiryResultPkt
<1> QED
  BY <1>1, <1>2, <1>3

LEMMA InitImplements == Init => Holder!Init
BY DEF Init, Holder!Init, ToSet

LEMMA StepImplements ==
  IndInv /\ [Next]_vars => [Holder!TruthfulNext]_(Holder!vars)
<1> SUFFICES ASSUME IndInv, [Next]_vars
             PROVE  Holder!TruthfulNext \/ UNCHANGED Holder!vars
  OBVIOUS
<1>0. /\ list \in Seq(Entry) /\ Len(list) \in Nat /\ UniqueKeys(list)
      /\ req \in Request \cup {NULL}
      /\ count \in 0..Len(list) /\ i \in 0..count
      /\ sent \in Seq(Reply)
      /\ ToSet(list) = { list[k] : k \in 1..Len(list) }
      /\ ToSet(sent) = { sent[k] : k \in 1..Len(sent) }
  BY LenProperties DEF IndInv, TypeOK, OneServicePerKey, ToSet
<1>1. CASE Receive
  <2>1. Holder!Receive
    BY <1>1, SameVocabulary DEF Receive, Holder!Receive
  <2> QED
    BY <2>1 DEF Holder!TruthfulNext, Holder!Common
<1>2. CASE Discard \/ ReceiveTooLong
  <2>1. Holder!Receive
    BY <1>2, SameVocabulary DEF Discard, ReceiveTooLong, Holder!Receive
  <2> QED
    BY <2>1 DEF Holder!TruthfulNext, Holder!Common
<1>3. CASE Register
  <2>1. req.info \in Entry
    BY <1>0, <1>3, RequestFields DEF Register, Handling
  <2>2. ToSet(list') = { f \in ToSet(list) : ~SameKey(f, req.info) } \cup {req.info}
    BY <1>0, <1>3, <2>1, ListAddProperties DEF Register
  <2>3. Holder!Register
    BY <1>3, <2>2, SameVocabulary
       DEF Register, Handling, Holder!Register, Holder!Handling, SameKey, HasKey
  <2> QED
    BY <2>3 DEF Holder!TruthfulNext, Holder!Common
<1>4. CASE Unregister
  <2> DEFINE gone == { e \in ToSet(list) : /\ e.device_name = req.device_name
                                           /\ e.service_name = req.service_name }
  <2>1. ToSet(list') =
          { e \in ToSet(list) : ~HasKey(e, req.device_name, req.service_name) }
    BY <1>0, <1>4, ListRemoveProperties DEF Unregister
  <2>2. ToSet(list') = ToSet(list) \ gone
    BY <2>1 DEF HasKey
  <2>3. Registered(list, req.device_name, req.service_name) = (gone # {})
    BY <1>0 DEF Registered, HasKey
  <2>4. sent' = <<ResultPkt(gone # {})>>
    BY <1>4, <2>3 DEF Unregister
  <2>5. Holder!Unregister
    BY <1>4, <2>2, <2>4, SameVocabulary
       DEF Unregister, Handling, Holder!Unregister, Holder!Handling
  <2> QED
    BY <2>5 DEF Holder!TruthfulNext, Holder!Common
<1>5. CASE InquiryCount
  BY <1>5 DEF InquiryCount, Holder!vars
<1>6. CASE InquiryMiss
  <2>1. /\ req # NULL /\ req.action = "inquiry" /\ sent = <<>>
        /\ GetCount(list, req.service_name) = 0
        /\ sent' = <<ResultPkt(FALSE)>> /\ req' = NULL /\ list' = list
    BY <1>6 DEF InquiryMiss, Handling, IndInv, CountBelongsToInquiry
  <2>2. Holder!Found(req.service_name) = {}
    BY <1>0, <2>1, GetCountProperties DEF Holder!Found
  <2>3. Holder!Miss
    BY <2>1, SameVocabulary DEF Holder!Miss, Holder!Handling
  <2> QED
    BY <2>2, <2>3 DEF Holder!TruthfulNext
<1>7. CASE InquiryStep
  <2> DEFINE e == list[i + 1]
  <2>0. /\ req # NULL /\ req.action = "inquiry" /\ i < count
        /\ list' = list /\ req' = req /\ i \in Nat
        /\ sent' = IF ListGet(list, req.service_name, i) = NULL THEN sent
                   ELSE Append(sent, InquiryResultPkt(ListGet(list, req.service_name, i)))
    BY <1>0, <1>7 DEF InquiryStep, Handling
  <2>1. CASE ListGet(list, req.service_name, i) = NULL
    BY <2>0, <2>1 DEF Holder!vars
  <2>2. CASE ListGet(list, req.service_name, i) # NULL
    <3>1. /\ i + 1 \in 1..Len(list)
          /\ e.service_name = req.service_name
          /\ sent' = Append(sent, InquiryResultPkt(e))
      BY <1>0, <2>0, <2>2, ListGetProperties
    <3>2. e \in Holder!Found(req.service_name)
      BY <1>0, <3>1 DEF Holder!Found
    <3>3. InquiryResultPkt(e) \notin Holder!Answered
      <4>0. count > 0
        BY <1>0, <2>0
      <4>1. ToSet(sent) = { InquiryResultPkt(list[k]) : k \in Seen }
        BY <2>0, <4>0, Zenon DEF IndInv, InquirySendsSeen
      <4>2. \A k \in 1..i : InquiryResultPkt(list[k]) # InquiryResultPkt(e)
        BY <1>0, <2>0, <3>1, NextAnswerIsNew
      <4>3. Holder!Answered = ToSet(sent)
        BY <1>0 DEF Holder!Answered
      <4> QED
        BY <4>1, <4>2, <4>3 DEF Seen
    <3>4. Holder!Answer
      BY <2>0, <3>1, <3>2, <3>3, SameVocabulary DEF Holder!Answer, Holder!Handling
    <3> QED
      BY <3>4 DEF Holder!TruthfulNext, Holder!Common
  <2> QED
    BY <2>1, <2>2
<1>8. CASE InquiryDone
  <2>1. Holder!Close
    BY <1>8 DEF InquiryDone, Handling, Holder!Close, Holder!Handling
  <2> QED
    BY <2>1 DEF Holder!TruthfulNext
<1>9. CASE Stop
  BY <1>9 DEF Stop, Holder!vars
<1>10. CASE UNCHANGED vars \/ ReceiveClosed \/ Dead
  BY <1>10 DEF ReceiveClosed, Dead, vars, Holder!vars
<1> QED
  BY <1>1, <1>2, <1>3, <1>4, <1>5, <1>6, <1>7, <1>8, <1>9, <1>10 DEF Next, Handle

(* The Java daemon is a service holder that never says anything untrue,    *)
(* while stop() closes its socket and up to a datagram that kills it.      *)
THEOREM JavaDaemonImplementsTruthful == Spec => ImplementsTruthful
BY Invariance, InitImplements, StepImplements, PTL
   DEF Spec, ImplementsTruthful, Holder!TruthfulSpec
=============================================================================
