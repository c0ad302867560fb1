---------------------------- MODULE CDaemonProofs ----------------------------
(***************************************************************************)
(* The invariants of CDaemon for every set of devices, services and data,  *)
(* and that it implements ServiceHolder; then those of CList, the list in  *)
(* memory, and that it implements SeqList, the list as CDaemon uses it.    *)
(***************************************************************************)
EXTENDS CDaemon, CList, ServiceListProofs

(* InquirySendsPrefix is not inductive alone: that the next service sent   *)
(* continues the prefix needs unique keys and the types, and that i is 0   *)
(* when an inquiry begins is due to Receive.                               *)
IndInv ==
  /\ TypeOK
  /\ OneServicePerKey
  /\ InquirySendsPrefix
  /\ req # NULL /\ req.action # "inquiry" => i = 0

LEMMA InitIndInv == Init => IndInv
<1> SUFFICES ASSUME Init PROVE IndInv
  OBVIOUS
<1>1. TypeOK
  <2>1. /\ list \in Seq(Entry) /\ sent \in Seq(Reply)
        /\ req \in Request \cup {NULL}
        /\ i \in 0..(Len(list) + 1)
    BY DEF Init
  <2>2. is_get_service \in BOOLEAN /\ running \in BOOLEAN
    BY Zenon DEF Init
  <2> QED
    BY <2>1, <2>2 DEF TypeOK
<1>2. OneServicePerKey
  BY DEF Init, OneServicePerKey, UniqueKeys
<1>3. req = NULL
  BY DEF Init
<1> QED
  BY <1>1, <1>2, <1>3 DEF IndInv, InquirySendsPrefix

LEMMA StepIndInv == IndInv /\ [Next]_vars => IndInv'
<1> SUFFICES ASSUME IndInv, [Next]_vars PROVE IndInv'
  OBVIOUS
<1>0. /\ list \in Seq(Entry) /\ Len(list) \in Nat /\ UniqueKeys(list)
      /\ req \in Request \cup {NULL}
      /\ i \in 0..(Len(list) + 1)
      /\ sent \in Seq(Reply)
      /\ is_get_service \in BOOLEAN /\ running \in BOOLEAN
  BY LenProperties DEF IndInv, TypeOK, OneServicePerKey
<1>1. CASE Receive
  <2>0. /\ list' = list /\ req' \in Request /\ running' = running
        /\ i' = 0 /\ i' \in 0..(Len(list') + 1)
        /\ sent' = <<>> /\ sent' \in Seq(Reply)
        /\ is_get_service' = FALSE
    BY <1>0, <1>1, RepliesAreReplies DEF Receive
  <2>1. TypeOK'
    BY <1>0, <2>0, Zenon DEF TypeOK
  <2>2. OneServicePerKey'
    BY <1>0, <1>1 DEF Receive, OneServicePerKey
  <2>3. InquirySendsPrefix'
    <3>1. sent' = [k \in 1..i' |-> InquiryResultPkt(list'[k])]
      BY <2>0
    <3>2. is_get_service' = (i' > 0)
      <4>1. (i' > 0) = FALSE
        BY <2>0
      <4> QED
        BY <2>0, <4>1, Zenon
    <3> QED
      BY <1>0, <2>0, <3>1, <3>2 DEF InquirySendsPrefix
  <2> QED
    BY <1>1, <2>1, <2>2, <2>3 DEF Receive, IndInv
<1>2. CASE Discard
  <2>1. TypeOK'
    BY <1>0, <1>2, RepliesAreReplies DEF Discard, TypeOK
  <2> QED
    BY <1>0, <1>2, <2>1
       DEF Discard, IndInv, OneServicePerKey, InquirySendsPrefix
<1>3. CASE ReadFail
  <2>1. TypeOK'
    BY <1>0, <1>3 DEF ReadFail, TypeOK
  <2> QED
    BY <1>0, <1>3, <2>1
       DEF ReadFail, IndInv, OneServicePerKey, InquirySendsPrefix
<1>4. CASE Register
  <2>1. req.info \in Entry /\ i = 0
    BY <1>0, <1>4, RequestFields DEF Register, Handling, IndInv
  <2>2. /\ list' \in Seq(Entry) /\ UniqueKeys(list')
        /\ Len(list') \in Nat
    BY <1>0, <1>4, <2>1, ListAddProperties, LenProperties DEF Register
  <2>3. sent' \in Seq(Reply)
    BY <1>4, RepliesAreReplies, Zenon DEF Register
  <2>4. /\ req' \in Request \cup {NULL} /\ i' \in 0..(Len(list') + 1)
        /\ is_get_service' \in BOOLEAN /\ running' \in BOOLEAN
    BY <1>0, <1>4, <2>1, <2>2 DEF Register
  <2>5. TypeOK'
    BY <2>2, <2>3, <2>4 DEF TypeOK
  <2> QED
    BY <1>4, <2>2, <2>5
       DEF Register, IndInv, OneServicePerKey, InquirySendsPrefix
<1>5. CASE Unregister
  <2>1. i = 0
    BY <1>5 DEF Unregister, Handling, IndInv
  <2>2. /\ list' \in Seq(Entry) /\ UniqueKeys(list')
        /\ Len(list') \in Nat
    BY <1>0, <1>5, ListRemoveProperties, LenProperties DEF Unregister
  <2>3. TypeOK'
    BY <1>0, <1>5, <2>1, <2>2, RepliesAreReplies DEF Unregister, TypeOK
  <2> QED
    BY <1>5, <2>2, <2>3
       DEF Unregister, IndInv, OneServicePerKey, InquirySendsPrefix
<1>6. CASE InquiryNext
  <2> DEFINE e == list[i + 1]
  <2>1. /\ i + 1 \in 1..Len(list)
        /\ e \in Entry
        /\ e.service_name = req.service_name
        /\ sent' = Append(sent, InquiryResultPkt(e))
    BY <1>0, <1>6, ListGetProperties DEF InquiryNext
  <2>2. /\ sent = [k \in 1..i |-> InquiryResultPkt(list[k])]
        /\ \A k \in 1..i : list[k].service_name = req.service_name
    BY <1>6 DEF InquiryNext, Handling, IndInv, InquirySendsPrefix
  <2>3. InquiryResultPkt(e) \in Reply
    BY <2>1, RepliesAreReplies
  <2>4. sent' \in Seq(Reply)
    BY <2>1, <2>3, <1>0, AppendProperties
  <2>5. sent' = [k \in 1..(i + 1) |-> InquiryResultPkt(list[k])]
    <3>1. Len(sent) = i
      BY <1>0, <2>2, LenProperties
    <3>2. Append(sent, InquiryResultPkt(e)) =
            [k \in 1..(Len(sent) + 1) |->
               IF k <= Len(sent) THEN sent[k] ELSE InquiryResultPkt(e)]
      BY <1>0, <2>3
    <3> QED
      BY <1>0, <2>1, <2>2, <3>1, <3>2
  <2>6. \A k \in 1..(i + 1) : list[k].service_name = req.service_name
    BY <1>0, <2>1, <2>2
  <2>7. TypeOK'
    BY <1>0, <1>6, <2>1, <2>4 DEF InquiryNext, TypeOK
  <2>8. InquirySendsPrefix'
    <3>1. is_get_service' = TRUE /\ i' > 0 /\ i' <= Len(list')
      BY <1>0, <1>6, <2>1 DEF InquiryNext
    <3> QED
      BY <1>6, <2>5, <2>6, <3>1 DEF InquiryNext, InquirySendsPrefix
  <2> QED
    BY <1>0, <1>6, <2>7, <2>8 DEF InquiryNext, Handling, IndInv, OneServicePerKey
<1>7. CASE InquiryEnd
  <2>1. i <= Len(list)
    BY <1>7 DEF InquiryEnd, Handling, IndInv, InquirySendsPrefix
  <2>2. sent' \in Seq(Reply)
    BY <1>0, <1>7, RepliesAreReplies DEF InquiryEnd
  <2>3. /\ list' \in Seq(Entry)
        /\ req' \in Request \cup {NULL} /\ i' \in 0..(Len(list') + 1)
        /\ is_get_service' \in BOOLEAN /\ running' \in BOOLEAN
    BY <1>0, <1>7, <2>1 DEF InquiryEnd
  <2>4. TypeOK'
    BY <2>2, <2>3 DEF TypeOK
  <2> QED
    BY <1>0, <1>7, <2>4
       DEF InquiryEnd, IndInv, OneServicePerKey, InquirySendsPrefix
<1>8. CASE UNCHANGED vars
  BY <1>8 DEF vars, IndInv, TypeOK, OneServicePerKey, InquirySendsPrefix
<1>9. CASE Ended
  BY <1>8, <1>9 DEF Ended
<1> QED
  BY <1>1, <1>2, <1>3, <1>4, <1>5, <1>6, <1>7, <1>8, <1>9 DEF Next, Handle

(* The inductive invariant holds in every behaviour of the daemon.         *)
THEOREM Invariance == Spec => []IndInv
BY InitIndInv, StepIndInv, PTL DEF Spec

(* The C daemon's variables keep their types, and the index of an inquiry  *)
(* its bound.                                                              *)
THEOREM TypeCorrect == Spec => []TypeOK
BY Invariance, PTL DEF IndInv

(* list_add never lets a device and service name into the list twice.      *)
THEOREM KeysStayUnique == Spec => []OneServicePerKey
BY Invariance, PTL DEF IndInv

(* What an inquiry of the C daemon sends is the matching prefix of its     *)
(* list.                                                                   *)
THEOREM InquirySendsOnlyPrefix == Spec => []InquirySendsPrefix
BY Invariance, PTL DEF IndInv

(* An inquiry of the C daemon for services that lead its list ends having  *)
(* sent every one of them once, or "service no found" if there is none.    *)
THEOREM LeadingServicesAreAnswered == Spec => LeadingServicesAnswered
<1> DEFINE Answered(s) ==
      InquiryEnds(s) /\ Leading(list, s) =>
        /\ Len(sent') = IF Matching(list, s) = {} THEN 1
                        ELSE Cardinality(Matching(list, s))
        /\ ToSet(sent') = IF Matching(list, s) = {} THEN {ResultPkt(FALSE)}
                          ELSE { InquiryResultPkt(e) : e \in Matching(list, s) }
<1>1. IndInv /\ [Next]_vars => [\A s \in Service : Answered(s)]_vars
  <2> SUFFICES ASSUME IndInv, Next, NEW s \in Service, InquiryEnds(s), Leading(list, s)
               PROVE  Answered(s)
    OBVIOUS
  <2> DEFINE c == GetCount(list, s)
  <2>1. /\ list \in Seq(Entry) /\ UniqueKeys(list) /\ sent \in Seq(Reply)
        /\ req # NULL /\ req.action = "inquiry" /\ req.service_name = s /\ req' = NULL
        /\ i \in Nat
    BY LenProperties DEF IndInv, TypeOK, OneServicePerKey, InquiryEnds
  <2>2. InquiryEnd
    BY <2>1 DEF Next, Handle, Handling, Receive, Discard, ReadFail, Register, Unregister,
       InquiryNext, Ended, vars
  <2>3. /\ i <= Len(list) /\ \A k \in 1..i : list[k].service_name = s
        /\ sent = [k \in 1..i |-> InquiryResultPkt(list[k])]
        /\ is_get_service = (i > 0)
    BY <2>1 DEF IndInv, InquirySendsPrefix
  <2>4. i = Len(list) \/ list[i + 1].service_name # s
    BY <2>1, <2>2, <2>3, ListGetProperties, LenProperties DEF InquiryEnd
  <2>5. /\ c \in 0..Len(list) /\ Len(list) \in Nat
        /\ \A k \in 1..Len(list) : list[k].service_name = s <=> k <= c
    BY <2>1, LeadingProperties
  <2>6. /\ Cardinality(Matching(list, s)) = c
        /\ Matching(list, s) = {} <=> c = 0
        /\ { InquiryResultPkt(e) : e \in Matching(list, s) }
             = { InquiryResultPkt(list[k]) : k \in 1..c }
    BY <2>1, LeadingProperties
  <2> HIDE DEF c
  <2>7. i = c
    <3>1. ~(c > i)
      <4>1. c > i => i + 1 \in 1..Len(list) /\ i + 1 <= c /\ i # Len(list)
        BY <2>1, <2>5
      <4> QED
        BY <2>4, <2>5, <4>1
    <3>2. ~(i > c)
      <4>1. i > c => i \in 1..i /\ i \in 1..Len(list)
        BY <2>1, <2>3, <2>5
      <4> QED
        BY <2>1, <2>3, <2>5, <4>1
    <3> QED
      BY <2>1, <2>5, <3>1, <3>2
  <2>8. CASE c = 0
    <3>1. ~is_get_service
      <4>1. ~(i > 0)
        BY <2>7, <2>8
      <4> QED
        BY <2>3, <4>1, Zenon
    <3>2. sent' = <<ResultPkt(FALSE)>>
      BY <2>2, <3>1 DEF InquiryEnd
    <3>3. Len(<<ResultPkt(FALSE)>>) = 1 /\ ToSet(<<ResultPkt(FALSE)>>) = {ResultPkt(FALSE)}
      BY SingleReply
    <3> QED
      BY <2>6, <2>8, <3>2, <3>3
  <2>9. CASE c # 0
    <3>1. is_get_service
      <4>1. i > 0
        BY <2>5, <2>7, <2>9
      <4> QED
        BY <2>3, <4>1, Zenon
    <3>2. sent' = sent
      BY <2>2, <3>1 DEF InquiryEnd
    <3>3. Len(sent) = c /\ DOMAIN sent = 1..c
      BY <2>1, <2>3, <2>7, LenProperties
    <3>4. ToSet(sent) = { InquiryResultPkt(list[k]) : k \in 1..c }
      BY <2>3, <2>7, <3>3 DEF ToSet
    <3> QED
      BY <2>6, <2>9, <3>2, <3>3, <3>4
  <2> QED
    BY <2>8, <2>9
<1> QED
  BY <1>1, Invariance, PTL DEF Spec, LeadingServicesAnswered

-----------------------------------------------------------------------------
(* The holder's requests and replies are the daemon's.                     *)
LEMMA SameVocabulary ==
  /\ Holder!Request = Request
  /\ \A succ : Holder!ResultPkt(succ) = ResultPkt(succ)
  /\ Holder!ResultPkt(TRUE) = ResultPkt(TRUE)
  /\ Holder!ResultPkt(FALSE) = ResultPkt(FALSE)
  /\ \A e : Holder!InquiryResultPkt(e) = InquiryResultPkt(e)
<1>1. Holder!Request = Request
  BY DEF Request, RegisterPkt, UnregisterPkt, InquiryPkt, Entry,
         Holder!Request, Holder!RegisterPkt, Holder!UnregisterPkt,
         Holder!InquiryPkt, Holder!Entry
<1>2. ASSUME NEW succ
      PROVE  Holder!ResultPkt(succ) = ResultPkt(succ)
  BY DEF ResultPkt, Holder!ResultPkt
<1>3. ASSUME NEW e
      PROVE  Holder!InquiryResultPkt(e) = InquiryResultPkt(e)
  BY DEF InquiryResultPkt, Holder!InquiryResultPkt
<1> QED
  BY <1>1, <1>2, <1>3

LEMMA InitImplements == Init => Holder!Init
BY DEF Init, Holder!Init, ToSet

LEMMA StepImplements ==
  IndInv /\ [Next]_vars => [Holder!AnsweringNext]_(Holder!vars)
<1> SUFFICES ASSUME IndInv, [Next]_vars
             PROVE  Holder!AnsweringNext \/ UNCHANGED Holder!vars
  OBVIOUS
<1>0. /\ list \in Seq(Entry) /\ Len(list) \in Nat /\ UniqueKeys(list)
      /\ req \in Request \cup {NULL}
      /\ i \in 0..(Len(list) + 1)
      /\ sent \in Seq(Reply)
      /\ ToSet(list) = { list[k] : k \in 1..Len(list) }
  BY LenProperties DEF IndInv, TypeOK, OneServicePerKey, ToSet
<1>1. CASE Receive
  <2>1. Holder!Receive
    BY <1>1, SameVocabulary DEF Receive, Holder!Receive
  <2> QED
    BY <2>1 DEF Holder!AnsweringNext, Holder!Common
<1>2. CASE Discard
  <2>1. Holder!Receive
    BY <1>2, SameVocabulary DEF Discard, Holder!Receive
  <2> QED
    BY <2>1 DEF Holder!AnsweringNext, Holder!Common
<1>3. CASE ReadFail
  BY <1>3 DEF ReadFail, Holder!vars
<1>4. CASE Register
  <2>1. req.info \in Entry
    BY <1>0, <1>4, RequestFields DEF Register, Handling
  <2>2. ToSet(list') = { f \in ToSet(list) : ~SameKey(f, req.info) } \cup {req.info}
    BY <1>0, <1>4, <2>1, ListAddProperties DEF Register
  <2>3. Holder!Register
    BY <1>4, <2>2, SameVocabulary
       DEF Register, Handling, Holder!Register, Holder!Handling, SameKey, HasKey
  <2> QED
    BY <2>3 DEF Holder!AnsweringNext, Holder!Common
<1>5. CASE Unregister
  <2> DEFINE gone == { e \in ToSet(list) : /\ e.device_name = req.device_name
                                           /\ e.service_name = req.service_name }
  <2>1. ToSet(list') =
          { e \in ToSet(list) : ~HasKey(e, req.device_name, req.service_name) }
    BY <1>0, <1>5, ListRemoveProperties DEF Unregister
  <2>2. ToSet(list') = ToSet(list) \ gone
    BY <2>1 DEF HasKey
  <2>3. Registered(list, req.device_name, req.service_name) = (gone # {})
    BY <1>0 DEF Registered, HasKey
  <2>4. sent' = <<ResultPkt(gone # {})>>
    BY <1>5, <2>3 DEF Unregister
  <2>5. Holder!Unregister
    BY <1>5, <2>2, <2>4, SameVocabulary
       DEF Unregister, Handling, Holder!Unregister, Holder!Handling
  <2> QED
    BY <2>5 DEF Holder!AnsweringNext, Holder!Common
<1>6. CASE InquiryNext
  <2> DEFINE e == list[i + 1]
  <2>1. /\ i + 1 \in 1..Len(list)
        /\ e.service_name = req.service_name
        /\ sent' = Append(sent, InquiryResultPkt(e))
    BY <1>0, <1>6, ListGetProperties DEF InquiryNext
  <2>2. sent = [k \in 1..i |-> InquiryResultPkt(list[k])]
    BY <1>6 DEF InquiryNext, Handling, IndInv, InquirySendsPrefix
  <2>3. e \in Holder!Found(req.service_name)
    BY <1>0, <2>1 DEF Holder!Found
  <2>4. InquiryResultPkt(e) \notin Holder!Answered
    <3>1. Len(sent) = i
      BY <1>0, <2>2, LenProperties
    <3>2. \A k \in 1..i : sent[k] # InquiryResultPkt(e)
      BY <1>0, <2>1, <2>2, NextAnswerIsNew
    <3> QED
      BY <3>1, <3>2, SameVocabulary DEF Holder!Answered
  <2>5. Holder!Answer
    BY <1>6, <2>1, <2>3, <2>4, SameVocabulary
       DEF InquiryNext, Handling, Holder!Answer, Holder!Handling
  <2> QED
    BY <2>5 DEF Holder!AnsweringNext, Holder!Common
<1>7. CASE InquiryEnd
  <2>1. /\ sent = [k \in 1..i |-> InquiryResultPkt(list[k])]
        /\ is_get_service = (i > 0)
    BY <1>7 DEF InquiryEnd, Handling, IndInv, InquirySendsPrefix
  <2>2. Len(sent) = i
    BY <1>0, <2>1, LenProperties
  <2>3. CASE is_get_service
    <3>0. Len(sent) # 0
      <4>1. i > 0
        BY <2>1, <2>3, Zenon
      <4> QED
        BY <4>1, <2>2
    <3>1. sent # <<>> /\ sent' = sent
      BY <1>7, <2>3, <3>0, EmptySeq DEF InquiryEnd
    <3>2. Holder!Close
      BY <1>7, <3>1 DEF InquiryEnd, Handling, Holder!Close, Holder!Handling
    <3> QED
      BY <3>1, <3>2 DEF Holder!AnsweringNext
  <2>4. CASE ~is_get_service
    <3>0. Len(sent) = 0
      <4>1. ~(i > 0)
        BY <2>1, <2>4, Zenon
      <4> QED
        BY <1>0, <4>1, <2>2
    <3>1. sent = <<>>
      BY <1>0, <3>0, EmptySeq
    <3>2. sent' = <<ResultPkt(FALSE)>>
      BY <1>7, <2>4 DEF InquiryEnd
    <3>3. Holder!Miss
      BY <1>7, <3>1, <3>2, SameVocabulary
         DEF InquiryEnd, Handling, Holder!Miss, Holder!Handling
    <3> QED
      BY <3>3 DEF Holder!AnsweringNext
  <2> QED
    BY <2>3, <2>4
<1>8. CASE UNCHANGED vars \/ Ended
  BY <1>8 DEF Ended, vars, Holder!vars
<1> QED
  BY <1>1, <1>2, <1>3, <1>4, <1>5, <1>6, <1>7, <1>8 DEF Next, Handle

(* The C daemon is a service holder that answers every request.            *)
THEOREM CDaemonImplementsAnswering == Spec => ImplementsAnswering
BY Invariance, InitImplements, StepImplements, PTL
   DEF Spec, ImplementsAnswering, Holder!AnsweringSpec

-----------------------------------------------------------------------------
(* The next pointers lead through the nodes of a chain.                    *)
Spells(nx, c) ==
  \A k \in 1..Len(c) : nx[c[k]] = IF k = Len(c) THEN NULL ELSE c[k + 1]

(* No node comes twice in a chain.                                         *)
Distinct(c) == \A j, k \in 1..Len(c) : c[j] = c[k] => j = k

(* The next pointers after the k-th node of a chain is unlinked, and after *)
(* x is linked behind the tail t.                                          *)
Bypass(nx, c, k) == IF k = 1 THEN nx ELSE [nx EXCEPT ![c[k - 1]] = nx[c[k]]]

Behind(nx, t, x) == IF t = NULL THEN nx ELSE [nx EXCEPT ![t] = x]

(* Unlinking a node: its predecessor, if it has one, takes over its next   *)
(* pointer.                                                                *)
LEMMA UnlinkedChain ==
  ASSUME NEW N, NULL \notin N, NEW c \in Seq(N), Distinct(c), NEW k \in 1..Len(c),
         NEW nx \in [N -> N \cup {NULL}], Spells(nx, c)
  PROVE  /\ RemoveAt(c, k) \in Seq(N) /\ Distinct(RemoveAt(c, k))
         /\ Spells(Bypass(nx, c, k), RemoveAt(c, k))
         /\ RemoveAt(c, k) = <<>> <=> Len(c) = 1
         /\ RemoveAt(c, k) # <<>> => RemoveAt(c, k)[1] = IF k = 1 THEN nx[c[1]] ELSE c[1]
         /\ RemoveAt(c, k) # <<>> =>
              RemoveAt(c, k)[Len(c) - 1] = IF k = Len(c) THEN c[k - 1] ELSE c[Len(c)]
<1> DEFINE n == Len(c)
           d == RemoveAt(c, k)
           ny == Bypass(nx, c, k)
<1>1. /\ d \in Seq(N) /\ Len(d) = n - 1
      /\ \A m \in 1..(n - 1) : d[m] = IF m < k THEN c[m] ELSE c[m + 1]
  BY RemoveAtProperties
<1>2. n \in Nat /\ \A m \in 1..n : c[m] \in N
  BY LenProperties, ElementOfSeq
<1>3. /\ \A j, m \in 1..n : c[j] = c[m] => j = m
      /\ \A m \in 1..n : nx[c[m]] = IF m = n THEN NULL ELSE c[m + 1]
  BY DEF Distinct, Spells
<1>4. k \in 1..n /\ ny = IF k = 1 THEN nx ELSE [nx EXCEPT ![c[k - 1]] = nx[c[k]]]
  BY DEF Bypass
<1> HIDE DEF n, d, ny
<1>5. \A m \in 1..(n - 1) : m < k => d[m] = c[m] /\ m \in 1..n
  BY <1>1, <1>2
<1>6. \A m \in 1..(n - 1) : m >= k => d[m] = c[m + 1] /\ m + 1 \in 1..n
  BY <1>1, <1>2, <1>4
<1>7. ASSUME NEW j \in 1..(n - 1), NEW m \in 1..(n - 1), d[j] = d[m]
      PROVE  j = m
  <2>1. CASE j < k /\ m < k
    BY <1>3, <1>5, <1>7, <2>1
  <2>2. CASE j >= k /\ m >= k
    <3>1. j + 1 = m + 1
      BY <1>3, <1>6, <1>7, <2>2
    <3> QED
      BY <3>1
  <2>3. CASE j < k /\ m >= k
    <3>1. j = m + 1
      BY <1>3, <1>5, <1>6, <1>7, <2>3
    <3> QED
      BY <1>4, <2>3, <3>1
  <2>4. CASE j >= k /\ m < k
    <3>1. j + 1 = m
      BY <1>3, <1>5, <1>6, <1>7, <2>4
    <3> QED
      BY <1>4, <2>4, <3>1
  <2> QED
    BY <1>4, <2>1, <2>2, <2>3, <2>4
<1>8. Distinct(d)
  BY <1>1, <1>7 DEF Distinct
<1>9. k # 1 => /\ k - 1 \in 1..n /\ c[k - 1] \in N
               /\ ny[c[k - 1]] = nx[c[k]]
               /\ \A x \in N : x # c[k - 1] => ny[x] = nx[x]
  BY <1>2, <1>4
<1>10. ASSUME NEW m \in 1..(n - 1)
       PROVE  ny[d[m]] = IF m = n - 1 THEN NULL ELSE d[m + 1]
  <2>1. CASE m < k - 1
    <3>1. m # n - 1 /\ m + 1 < k /\ m + 1 \in 1..(n - 1) /\ m \in 1..n /\ m # n /\ m # k - 1 /\ k # 1
      BY <1>2, <1>4, <2>1
    <3>2. d[m] = c[m] /\ d[m + 1] = c[m + 1]
      BY <1>5, <3>1, <2>1, <1>4
    <3>3. c[m] # c[k - 1] /\ c[m] \in N
      BY <1>2, <1>3, <1>9, <3>1
    <3>4. ny[c[m]] = nx[c[m]] /\ nx[c[m]] = c[m + 1]
      BY <1>3, <1>9, <3>1, <3>3
    <3> QED
      BY <3>1, <3>2, <3>4
  <2>2. CASE m = k - 1
    <3>1. k # 1 /\ m < k /\ (m = n - 1 <=> k = n)
      BY <1>2, <1>4, <2>2
    <3>2. ny[d[m]] = IF k = n THEN NULL ELSE c[k + 1]
      BY <1>3, <1>4, <1>5, <1>9, <2>2, <3>1
    <3>3. k # n => d[m + 1] = c[k + 1]
      <4>1. k # n => m + 1 \in 1..(n - 1) /\ m + 1 >= k /\ m + 1 = k
        BY <1>2, <1>4, <2>2
      <4> QED
        BY <1>6, <4>1
    <3> QED
      BY <3>1, <3>2, <3>3
  <2>3. CASE m >= k
    <3>1. /\ d[m] = c[m + 1] /\ m + 1 \in 1..n /\ c[m + 1] \in N
          /\ m + 1 # k - 1
      BY <1>2, <1>4, <1>6, <2>3
    <3>2. ny[c[m + 1]] = nx[c[m + 1]]
      <4>1. k = 1 => ny = nx
        BY <1>4
      <4>2. k # 1 => c[m + 1] # c[k - 1]
        BY <1>3, <1>9, <3>1
      <4> QED
        BY <1>9, <3>1, <4>1, <4>2
    <3>3. nx[c[m + 1]] = IF m = n - 1 THEN NULL ELSE c[m + 2]
      <4>1. (m + 1 = n <=> m = n - 1) /\ (m + 1) + 1 = m + 2
        BY <1>2
      <4> QED
        BY <1>3, <3>1, <4>1
    <3>4. m # n - 1 => d[m + 1] = c[m + 2]
      <4>1. m # n - 1 => m + 1 \in 1..(n - 1) /\ m + 1 >= k /\ (m + 1) + 1 = m + 2
        BY <1>2, <1>4, <2>3
      <4> QED
        BY <1>6, <4>1
    <3> QED
      BY <3>1, <3>2, <3>3, <3>4
  <2> QED
    BY <1>4, <2>1, <2>2, <2>3
<1>11. Spells(ny, d)
  <2>1. \A m \in 1..(n - 1) : ny[d[m]] = IF m = n - 1 THEN NULL ELSE d[m + 1]
    BY <1>10
  <2> QED
    BY <1>1, <2>1 DEF Spells
<1>12. d = <<>> <=> n = 1
  <2>1. d = <<>> <=> Len(d) = 0
    BY <1>1, EmptySeq
  <2> QED
    BY <1>1, <1>2, <2>1
<1>13. n # 1 => d[1] = IF k = 1 THEN nx[c[1]] ELSE c[1]
  <2>1. n # 1 => 1 \in 1..(n - 1) /\ 1 \in 1..n /\ n # 1 /\ 1 + 1 = 2
    BY <1>2, <1>4
  <2>2. CASE k = 1
    BY <1>3, <1>6, <2>1, <2>2
  <2>3. CASE k # 1
    <3>1. 1 < k
      BY <1>4, <2>3
    <3> QED
      BY <1>5, <2>1, <2>3, <3>1
  <2> QED
    BY <2>2, <2>3
<1>14. n # 1 => d[n - 1] = IF k = n THEN c[k - 1] ELSE c[n]
  <2>1. n # 1 => n - 1 \in 1..(n - 1) /\ (n - 1) + 1 = n
    BY <1>2, <1>4
  <2>2. CASE k = n
    <3>1. n # 1 => n - 1 < k
      BY <1>2, <2>2
    <3> QED
      BY <1>5, <2>1, <2>2, <3>1
  <2>3. CASE k # n
    <3>1. n - 1 >= k
      BY <1>2, <1>4, <2>3
    <3> QED
      BY <1>6, <2>1, <2>3, <3>1
  <2> QED
    BY <2>2, <2>3
<1> QED
  BY <1>1, <1>8, <1>11, <1>12, <1>13, <1>14 DEF d, n, ny

(* Linking a node behind the last one.                                     *)
LEMMA LinkedChain ==
  ASSUME NEW N, NULL \notin N, NEW c \in Seq(N), Distinct(c),
         NEW x \in N, \A k \in 1..Len(c) : c[k] # x,
         NEW nx \in [N -> N \cup {NULL}], Spells(nx, c), nx[x] = NULL,
         NEW t \in N \cup {NULL}, t # x, c # <<>> => t = c[Len(c)]
  PROVE  Spells(Behind(nx, t, x), Append(c, x)) /\ Distinct(Append(c, x))
<1> DEFINE n == Len(c)
           d == Append(c, x)
           ny == Behind(nx, t, x)
<1>1. /\ d \in Seq(N) /\ Len(d) = n + 1 /\ d[n + 1] = x
      /\ \A k \in 1..n : d[k] = c[k]
  BY AppendProperties
<1>2. n \in Nat /\ \A k \in 1..n : c[k] \in N
  BY LenProperties, ElementOfSeq
<1>3. n # 0 => t = c[n] /\ t # NULL /\ n \in 1..n
  <2>1. n # 0 => c # <<>>
    BY EmptySeq
  <2>2. n # 0 => n \in 1..n
    BY <1>2
  <2> QED
    BY <1>2, <2>1, <2>2
<1>4. /\ \A j, m \in 1..n : c[j] = c[m] => j = m
      /\ \A m \in 1..n : nx[c[m]] = IF m = n THEN NULL ELSE c[m + 1]
      /\ \A m \in 1..n : c[m] # x
  BY DEF Distinct, Spells
<1>5. ny = IF t = NULL THEN nx ELSE [nx EXCEPT ![t] = x]
  BY DEF Behind
<1> HIDE DEF n, d, ny
<1>6. \A k \in 1..(n + 1) : k \in 1..n \/ k = n + 1
  BY <1>2
<1>7. Distinct(d)
  <2>1. \A j, m \in 1..(n + 1) : d[j] = d[m] => j = m
    BY <1>1, <1>4, <1>6
  <2> QED
    BY <1>1, <2>1 DEF Distinct
<1>8. /\ ny[x] = NULL
      /\ t # NULL => ny[t] = x
      /\ \A y \in N : y # t => ny[y] = nx[y]
  BY <1>5
<1>9. ASSUME NEW k \in 1..n
      PROVE  ny[d[k]] = d[k + 1]
  <2>1. n # 0
    BY <1>2
  <2>2. CASE k = n
    BY <1>1, <1>3, <1>8, <2>1, <2>2
  <2>3. CASE k # n
    <3>1. k + 1 \in 1..n
      BY <1>2, <2>3
    <3>2. c[k] # t /\ c[k] \in N
      BY <1>2, <1>3, <1>4, <2>1, <2>3
    <3> QED
      BY <1>1, <1>4, <1>8, <2>3, <3>1, <3>2
  <2> QED
    BY <2>2, <2>3
<1>10. \A k \in 1..(n + 1) : ny[d[k]] = IF k = n + 1 THEN NULL ELSE d[k + 1]
  BY <1>1, <1>2, <1>6, <1>8, <1>9
<1>11. Spells(ny, d)
  BY <1>1, <1>10 DEF Spells
<1> QED
  BY <1>7, <1>11 DEF d, ny


(* What a walk looks at in its k-th iteration, and what it has looked at   *)
(* before: NULL behind the last node, and in front of the first.           *)
NodeAt(k) == IF k <= Len(chain) THEN chain[k] ELSE NULL

NodeBefore(k) == IF k = 1 THEN NULL ELSE chain[k - 1]

(* A node is linked once, and holds a service.                             *)
ChainOK ==
  /\ \A j, k \in 1..Len(chain) : chain[j] = chain[k] => j = k
  /\ \A n \in 1..used : info[n] \in Entry
  /\ pc = "gone" => chain = <<>>

(* Where the code is, and which call that is in.                           *)
CallOK ==
  /\ pc \in {"idle", "gone"} => call = NULL
  /\ pc = "walk" => Calling("list_add") \/ Calling("list_remove")
  /\ pc = "link" => Calling("list_add")
  /\ pc = "get" => Calling("list_get")
  /\ pc = "deinit" => Calling("deinit_list")

(* The node of list_add is fresh until it is linked: neither the list nor  *)
(* the tail, which may be stale, leads to it.                              *)
FreshNode ==
  /\ tail \in 1..used \cup {NULL}
  /\ pc \in {"walk", "link"} /\ Calling("list_add") =>
       /\ used > 0 /\ tail # used
       /\ info[used] = call.info /\ next[used] = NULL
       /\ \A k \in 1..Len(chain) : chain[k] # used

(* The walk of list_remove is somewhere in the list, prev one node behind  *)
(* node, and has passed no service that it wants.                          *)
WalkOK ==
  pc = "walk" =>
    \E k \in 1..(Len(chain) + 1) :
      /\ node = NodeAt(k) /\ prev = NodeBefore(k)
      /\ \A j \in 1..(k - 1) : ~Wanted(info[chain[j]])

(* The walk of list_get counts the nodes, and if it has passed the one at  *)
(* the index, that one has another name.                                   *)
GetOK ==
  IF pc = "get"
    THEN /\ node = NodeAt(at + 1)
         /\ at > call.index =>
              info[chain[call.index + 1]].service_name # call.service_name
    ELSE at = 0

(* deinit_list has freed the nodes behind it, and nothing else has freed.  *)
DeinitOK ==
  /\ pc = "deinit" =>
       \E k \in 1..(Len(chain) + 1) :
         node = NodeAt(k) /\ freed = { chain[j] : j \in 1..(k - 1) }
  /\ pc \notin {"deinit", "gone"} => freed = {}

(* PointersSpellList and NoDanglingPointers are not inductive: they take   *)
(* the places of the walks, and that a stale tail is never the new node.   *)
ListInd ==
  /\ ListTypeOK
  /\ PointersSpellList
  /\ ChainOK
  /\ CallOK
  /\ FreshNode
  /\ WalkOK
  /\ GetOK
  /\ DeinitOK

(* The calls of list.h, by what they carry.                                *)
LEMMA CallFields ==
  ASSUME NEW c \in Call(MaxIndex)
  PROVE  /\ c # NULL
         /\ c.op \in {"list_add", "list_remove", "list_get", "deinit_list"}
         /\ c.op = "list_add" => c.info \in Entry
         /\ c.op = "list_get" => c.index \in 0..MaxIndex
BY CListAssumption DEF Call

(* The nodes of the list are allocated nodes, each with its service and    *)
(* its successor.                                                          *)
LEMMA ChainFacts ==
  ASSUME ListInd
  PROVE  /\ Len(chain) \in Nat /\ chain \in Seq(1..used) /\ used \in 0..MaxNodes
         /\ used \in Nat /\ MaxNodes \in Nat /\ MaxIndex \in Nat
         /\ 1..used \subseteq Node /\ NULL \notin Node /\ NULL \notin Entry
         /\ \A k \in 1..Len(chain) : chain[k] \in 1..used /\ info[chain[k]] \in Entry
         /\ \A k \in 1..(Len(chain) + 1) : NodeAt(k) \in Pointer
         /\ \A k \in 1..(Len(chain) + 1) : NodeBefore(k) \in Pointer
         /\ \A k \in 1..(Len(chain) + 1) : NodeAt(k) = NULL <=> k = Len(chain) + 1
         /\ \A k \in 1..(Len(chain) + 1) : NodeBefore(k) = NULL <=> k = 1
         /\ pc # "gone" => /\ head = NodeAt(1)
                           /\ \A k \in 1..Len(chain) : next[NodeAt(k)] = NodeAt(k + 1)
<1>1. /\ chain \in Seq(1..used) /\ used \in 0..MaxNodes /\ used \in Nat
      /\ MaxNodes \in Nat /\ MaxIndex \in Nat /\ NULL \notin Nat
      /\ NULL \notin Entry
  BY CListAssumption, NullAssumption DEF ListInd, ListTypeOK
<1>2. Len(chain) \in Nat /\ \A k \in 1..Len(chain) : chain[k] \in 1..used
  BY <1>1, LenProperties, ElementOfSeq
<1>3. 1..used \subseteq Node /\ NULL \notin Node
  BY <1>1 DEF Node
<1>4. \A k \in 1..Len(chain) : chain[k] \in Node /\ chain[k] # NULL
  BY <1>2, <1>3
<1>5. \A k \in 1..Len(chain) : info[chain[k]] \in Entry
  BY <1>2 DEF ListInd, ChainOK
<1>6. ASSUME NEW k \in 1..(Len(chain) + 1)
      PROVE  NodeAt(k) \in Pointer /\ (NodeAt(k) = NULL <=> k = Len(chain) + 1)
  BY <1>2, <1>4 DEF NodeAt, Pointer
<1>7. ASSUME NEW k \in 1..(Len(chain) + 1)
      PROVE  NodeBefore(k) \in Pointer /\ (NodeBefore(k) = NULL <=> k = 1)
  <2>1. k = 1 \/ k - 1 \in 1..Len(chain)
    BY <1>2
  <2> QED
    BY <2>1, <1>4 DEF NodeBefore, Pointer
<1>8. ASSUME pc # "gone"
      PROVE  /\ head = NodeAt(1)
             /\ \A k \in 1..Len(chain) : next[NodeAt(k)] = NodeAt(k + 1)
  <2>1. /\ head = IF chain = <<>> THEN NULL ELSE chain[1]
        /\ \A k \in 1..Len(chain) :
             next[chain[k]] = IF k = Len(chain) THEN NULL ELSE chain[k + 1]
    BY <1>8 DEF ListInd, PointersSpellList
  <2>2. chain = <<>> <=> Len(chain) = 0
    BY <1>1, EmptySeq
  <2> QED
    BY <1>2, <2>1, <2>2 DEF NodeAt
<1> QED
  BY <1>1, <1>2, <1>3, <1>5, <1>6, <1>7, <1>8

LEMMA InitListInd == ListInit => ListInd
<1> SUFFICES ASSUME ListInit PROVE ListInd
  OBVIOUS
<1>1. ListTypeOK
  <2>1. removed \in BOOLEAN
    BY Zenon DEF ListInit
  <2>2. 0 \in 0..MaxNodes
    BY CListAssumption
  <2> QED
    BY <2>1, <2>2 DEF ListInit, ListTypeOK, Pointer
<1>2. PointersSpellList /\ ChainOK /\ CallOK /\ FreshNode /\ WalkOK /\ GetOK /\ DeinitOK
  BY DEF ListInit, PointersSpellList, ChainOK, CallOK, FreshNode, WalkOK, GetOK,
     DeinitOK
<1> QED
  BY <1>1, <1>2 DEF ListInd

(* A step that leaves the heap as it is, other than the end of deinit_list *)
LEMMA SameHeap ==
  ASSUME ListInd, UNCHANGED heap, pc # "gone",
         pc' \in {"idle", "walk", "link", "get", "deinit"},
         call' \in Call(MaxIndex) \cup {NULL}, prev' \in Pointer, node' \in Pointer,
         at' \in 0..Len(chain), removed' \in BOOLEAN, found' \in Entry \cup {NULL}
  PROVE  /\ ListTypeOK' /\ PointersSpellList' /\ ChainOK'
         /\ \A k \in 1..(Len(chain) + 1) :
              NodeAt(k)' = NodeAt(k) /\ NodeBefore(k)' = NodeBefore(k)
<1>1. ListTypeOK'
  BY DEF ListInd, ListTypeOK, heap, Node, Pointer
<1>2. PointersSpellList' /\ ChainOK'
  BY DEF ListInd, PointersSpellList, ChainOK, heap
<1> QED
  BY <1>1, <1>2 DEF heap, NodeAt, NodeBefore

LEMMA StepListInd == ListInd /\ [ListNext]_listVars => ListInd'
<1> SUFFICES ASSUME ListInd, [ListNext]_listVars PROVE ListInd'
  OBVIOUS
<1> DEFINE n == Len(chain)
<1>0. /\ ListTypeOK /\ PointersSpellList /\ ChainOK /\ CallOK
      /\ FreshNode /\ WalkOK /\ GetOK /\ DeinitOK
      /\ call \in Call(MaxIndex) \cup {NULL} /\ prev \in Pointer /\ node \in Pointer
      /\ at \in 0..n /\ removed \in BOOLEAN /\ found \in Entry \cup {NULL}
      /\ NULL \in Pointer /\ head \in Pointer
  BY Zenon DEF ListInd, ListTypeOK, Pointer
<1> USE ChainFacts
<1>1. CASE AddCall
  <2>1. /\ call' # NULL /\ call'.op = "list_add" /\ call'.info \in Entry
        /\ call' \in Call(MaxIndex)
    BY <1>1, CallFields DEF AddCall
  <2>2. /\ used' = used + 1 /\ used' \in 1..MaxNodes /\ used' \in Node /\ used' \notin 1..used
        /\ 1..used \subseteq 1..used'
    BY <1>1 DEF AddCall, Node
  <2>3. /\ chain' = chain /\ head' = head /\ tail' = tail /\ freed' = freed
        /\ at' = at /\ pc' = "walk" /\ node' = head /\ prev' = NULL
        /\ removed' = FALSE /\ found' = NULL /\ pc = "idle"
        /\ info' = [info EXCEPT ![used'] = call'.info]
        /\ next' = [next EXCEPT ![used'] = NULL]
    BY <1>1 DEF AddCall, ForgetResults
  <2>4. /\ info'[used'] = call'.info /\ next'[used'] = NULL
        /\ \A m \in 1..used : info'[m] = info[m] /\ next'[m] = next[m]
    BY <1>0, <2>2, <2>3 DEF ListTypeOK
  <2>5. ListTypeOK'
    <3>1. chain' \in Seq(1..used')
      BY <2>2, <2>3, SeqMonotonic
    <3>2. next' \in [Node -> Pointer] /\ info' \in [Node -> Entry \cup {NULL}]
      BY <1>0, <2>1, <2>3 DEF ListTypeOK, Pointer
    <3>3. removed' \in BOOLEAN
      BY <2>3
    <3>4. freed' \subseteq 1..used'
      BY <1>0, <2>2, <2>3 DEF ListTypeOK
    <3> QED
      BY <1>0, <2>1, <2>2, <2>3, <3>1, <3>2, <3>3, <3>4 DEF ListTypeOK, Pointer
  <2>6. PointersSpellList'
    BY <1>0, <2>3, <2>4, SMTT(30) DEF PointersSpellList
  <2>7. ChainOK'
    <3>1. \A m \in 1..used' : m \in 1..used \/ m = used'
      BY <2>2
    <3>2. \A m \in 1..used' : info'[m] \in Entry
      BY <1>0, <2>1, <3>1, <2>4 DEF ChainOK
    <3> QED
      BY <1>0, <2>3, <3>2 DEF ChainOK
  <2>8. CallOK' /\ GetOK' /\ DeinitOK'
    BY <1>0, <2>1, <2>3 DEF CallOK, GetOK, DeinitOK, Calling
  <2>9. FreshNode'
    BY <1>0, <2>2, <2>3, <2>4 DEF FreshNode
  <2>10. WalkOK'
    <3>1. node' = NodeAt(1)' /\ prev' = NodeBefore(1)'
      BY <2>3 DEF NodeAt, NodeBefore
    <3>2. 1 \in 1..(Len(chain') + 1) /\ ~\E j : j \in 1..(1 - 1)
      BY <2>3
    <3> QED
      BY <3>1, <3>2 DEF WalkOK
  <2> QED
    BY <2>5, <2>6, <2>7, <2>8, <2>9, <2>10 DEF ListInd
<1>2. CASE RemoveCall
  <2>1. /\ call' # NULL /\ call'.op = "list_remove" /\ call' \in Call(MaxIndex)
    BY <1>2, CallFields DEF RemoveCall
  <2>2. /\ UNCHANGED heap /\ at' = at /\ pc' = "walk" /\ node' = head /\ prev' = NULL
        /\ removed' = FALSE /\ found' = NULL /\ pc = "idle"
    BY <1>2 DEF RemoveCall, ForgetResults
  <2>3. removed' \in BOOLEAN
    BY <2>2, Zenon
  <2>4. /\ ListTypeOK' /\ PointersSpellList' /\ ChainOK'
        /\ \A k \in 1..(Len(chain) + 1) :
             NodeAt(k)' = NodeAt(k) /\ NodeBefore(k)' = NodeBefore(k)
    BY <1>0, <2>1, <2>2, <2>3, SameHeap
  <2>5. CallOK' /\ GetOK' /\ DeinitOK' /\ FreshNode'
    BY <1>0, <2>1, <2>2 DEF CallOK, GetOK, DeinitOK, FreshNode, Calling, heap
  <2>6. WalkOK'
    <3>1. 1 \in 1..(Len(chain') + 1) /\ ~\E j : j \in 1..(1 - 1) /\ chain' = chain
      BY <2>2 DEF heap
    <3>2. node' = NodeAt(1)' /\ prev' = NodeBefore(1)'
      BY <2>2, <2>4 DEF NodeBefore
    <3> QED
      BY <3>1, <3>2 DEF WalkOK
  <2> QED
    BY <2>4, <2>5, <2>6 DEF ListInd
<1>3. CASE WalkNext
  <2>1. PICK k \in 1..(n + 1) :
          /\ node = NodeAt(k) /\ prev = NodeBefore(k)
          /\ \A j \in 1..(k - 1) : ~Wanted(info[chain[j]])
    BY <1>0, <1>3 DEF WalkNext, WalkOK
  <2>2. k \in 1..n /\ k + 1 \in 1..(n + 1) /\ node = chain[k]
    BY <1>3, <2>1 DEF WalkNext, NodeAt
  <2>3. /\ UNCHANGED <<heap, pc, call, at, results>> /\ pc = "walk"
        /\ prev' = node /\ node' = next[node] /\ ~Wanted(info[chain[k]])
    BY <1>3, <2>2 DEF WalkNext
  <2>4. node' = NodeAt(k + 1) /\ prev' = NodeBefore(k + 1)
    <3>1. k + 1 # 1 /\ (k + 1) - 1 = k
      BY <2>2
    <3> QED
      BY <2>1, <2>2, <2>3, <3>1 DEF NodeBefore
  <2>5. /\ ListTypeOK' /\ PointersSpellList' /\ ChainOK'
        /\ \A m \in 1..(Len(chain) + 1) :
             NodeAt(m)' = NodeAt(m) /\ NodeBefore(m)' = NodeBefore(m)
    BY <1>0, <2>2, <2>3, <2>4, SameHeap DEF results
  <2>6. CallOK' /\ GetOK' /\ DeinitOK' /\ FreshNode'
    BY <1>0, <2>3 DEF CallOK, GetOK, DeinitOK, FreshNode, Calling, heap
  <2>7. WalkOK'
    <3>1. \A j \in 1..((k + 1) - 1) : ~Wanted(info[chain[j]])
      BY <2>1, <2>2, <2>3
    <3>2. \A j \in 1..((k + 1) - 1) : ~Wanted(info[chain[j]])'
      BY <2>3, <3>1 DEF heap, Wanted, Calling
    <3> QED
      BY <2>2, <2>3, <2>4, <2>5, <3>2 DEF WalkOK, heap
  <2> QED
    BY <2>5, <2>6, <2>7 DEF ListInd
<1>4. CASE WalkEnd
  <2>1. /\ UNCHANGED heap /\ pc = "walk" /\ found' = found
        /\ ReturnFromRemove(FALSE)
    BY <1>4 DEF WalkEnd
  <2>2. /\ prev' = NULL /\ node' = NULL /\ at' = 0
        /\ \/ /\ Calling("list_add") /\ pc' = "link" /\ call' = call /\ removed' = removed
           \/ /\ ~Calling("list_add") /\ pc' = "idle" /\ call' = NULL /\ removed' = FALSE
    BY <2>1 DEF ReturnFromRemove, LeaveScope
  <2>3. /\ call' \in Call(MaxIndex) \cup {NULL} /\ removed' \in BOOLEAN
        /\ pc' \in {"idle", "link"}
    BY <1>0, <2>2, Zenon
  <2>4. ListTypeOK' /\ PointersSpellList' /\ ChainOK'
    BY <1>0, <2>1, <2>2, <2>3, SameHeap
  <2>5. CallOK' /\ GetOK' /\ DeinitOK' /\ FreshNode' /\ WalkOK'
    BY <1>0, <2>1, <2>2 DEF CallOK, GetOK, DeinitOK, FreshNode, WalkOK, Calling, heap
  <2> QED
    BY <2>4, <2>5 DEF ListInd
<1>5. CASE Unlink
  <2>0. pc = "walk" /\ pc # "gone"
    BY <1>5 DEF Unlink
  <2>1. PICK k \in 1..(n + 1) : node = NodeAt(k) /\ prev = NodeBefore(k)
    BY <1>0, <2>0 DEF WalkOK
  <2>2. k \in 1..n /\ node = chain[k] /\ node \in 1..used /\ node \in Node
    BY <1>5, <2>1 DEF Unlink, NodeAt
  <2>3. k # 1 => k - 1 \in 1..n /\ prev = chain[k - 1] /\ prev \in 1..used /\ prev \in Node
    BY <2>1, <2>2, SMTT(30) DEF NodeBefore
  <2>4. prev = NULL <=> k = 1
    BY <2>1
  <2>5. /\ chain \in Seq(Node) /\ NULL \notin Node /\ next \in [Node -> Node \cup {NULL}]
        /\ chain \in Seq(1..used) /\ NULL \notin 1..used
    BY <1>0, SeqMonotonic DEF ListTypeOK, Pointer
  <2>6. Distinct(chain) /\ Spells(next, chain) /\ tail = chain[n]
    <3>1. chain # <<>>
      BY <2>2, EmptySeq
    <3> QED
      BY <1>0, <2>0, <3>1 DEF Distinct, Spells, ChainOK, PointersSpellList
  <2>7. n \in Nat
    OBVIOUS
  <2> HIDE ChainFacts DEF n
  <2>8. Place(node) = k
    BY <2>2, <2>6 DEF Place, Distinct, n
  <2>9. /\ chain' = RemoveAt(chain, k)
        /\ next' = IF k = 1 THEN next ELSE [next EXCEPT ![chain[k - 1]] = next[chain[k]]]
        /\ next' = Bypass(next, chain, k)
    BY <1>5, <2>2, <2>3, <2>4, <2>8 DEF Unlink, Bypass
  <2>10. IF k = 1 THEN head' = next[chain[1]] /\ tail' = tail
                  ELSE head' = head /\ tail' = IF k = n THEN chain[n - 1] ELSE tail
    <3>1. next[chain[k]] = NULL <=> k = n
      <4>1. next[chain[k]] = IF k = n THEN NULL ELSE chain[k + 1]
        BY <2>2, <2>6 DEF Spells, n
      <4>2. k # n => chain[k + 1] # NULL
        <5>1. k # n => k + 1 \in 1..n
          BY <2>2, <2>7
        <5> QED
          BY <2>5, <5>1, ElementOfSeq DEF n
      <4> QED
        BY <4>1, <4>2
    <3> QED
      BY <1>5, <2>2, <2>3, <2>4, <3>1 DEF Unlink
  <2>11. /\ chain' \in Seq(1..used) /\ Len(chain') = n - 1
         /\ \A m \in 1..(n - 1) : \E j \in 1..n : chain'[m] = chain[j]
    <3>1. /\ chain' \in Seq(1..used) /\ Len(chain') = n - 1
          /\ \A m \in 1..(n - 1) : chain'[m] = IF m < k THEN chain[m] ELSE chain[m + 1]
      BY <2>2, <2>5, <2>9, RemoveAtProperties DEF n
    <3>2. \A m \in 1..(n - 1) : m \in 1..n /\ m + 1 \in 1..n
      BY <2>7
    <3> QED
      BY <3>1, <3>2
  <2>12. k \in 1..Len(chain)
    BY <2>2 DEF n
  <2>13. /\ Distinct(chain') /\ Spells(next', chain')
         /\ chain' = <<>> <=> n = 1
         /\ chain' # <<>> => chain'[1] = IF k = 1 THEN next[chain[1]] ELSE chain[1]
         /\ chain' # <<>> => chain'[n - 1] = IF k = n THEN chain[k - 1] ELSE chain[n]
    <3>1. /\ chain \in Seq(Node) /\ NULL \notin Node /\ next \in [Node -> Node \cup {NULL}]
          /\ Distinct(chain) /\ Spells(next, chain)
      BY <2>5, <2>6
    <3>2. Distinct(RemoveAt(chain, k))
      BY <2>12, <3>1, UnlinkedChain, Zenon
    <3>3. Spells(Bypass(next, chain, k), RemoveAt(chain, k))
      BY <2>12, <3>1, UnlinkedChain, Zenon
    <3>4. RemoveAt(chain, k) = <<>> <=> Len(chain) = 1
      BY <2>12, <3>1, UnlinkedChain
    <3>5. RemoveAt(chain, k) # <<>> => RemoveAt(chain, k)[1] = IF k = 1 THEN next[chain[1]] ELSE chain[1]
      BY <2>12, <3>1, UnlinkedChain
    <3>6. RemoveAt(chain, k) # <<>> =>
              RemoveAt(chain, k)[Len(chain) - 1] = IF k = Len(chain) THEN chain[k - 1] ELSE chain[Len(chain)]
      BY <2>12, <3>1, UnlinkedChain
    <3> QED
      BY <2>9, <3>2, <3>3, <3>4, <3>5, <3>6 DEF n
  <2>14. /\ UNCHANGED <<info, used, freed, found>>
         /\ prev' = NULL /\ node' = NULL /\ at' = 0
         /\ \/ Calling("list_add") /\ pc' = "link" /\ call' = call /\ removed' = removed
            \/ ~Calling("list_add") /\ pc' = "idle" /\ call' = NULL /\ removed' = TRUE
    BY <1>5 DEF Unlink, ReturnFromRemove, LeaveScope
  <2>15. ListTypeOK'
    <3>1. next[chain[k]] \in Pointer /\ next[chain[1]] \in Pointer
      <4>1. chain[k] \in Node /\ chain[1] \in Node
        BY <2>2, <2>5, <2>7, ElementOfSeq DEF n
      <4> QED
        BY <2>5, <4>1 DEF Pointer
    <3>2. next' \in [Node -> Pointer]
      BY <2>5, <2>9, <3>1 DEF Pointer
    <3>3. tail' \in Pointer
      BY <1>0, <2>3, <2>10 DEF ListTypeOK, Pointer
    <3>4. head' \in Pointer
      BY <1>0, <2>10, <3>1
    <3>5. call' \in Call(MaxIndex) \cup {NULL} /\ pc' \in {"idle", "link"}
      BY <1>0, <2>14
    <3>6. removed' \in BOOLEAN
      BY <1>0, <2>14, Zenon
    <3>7. at' \in 0..Len(chain')
      BY <2>2, <2>7, <2>11, <2>14
    <3> QED
      BY <1>0, <2>11, <2>14, <3>2, <3>3, <3>4, <3>5, <3>6, <3>7 DEF ListTypeOK, Node, Pointer
  <2>16. PointersSpellList'
    <3>1. head' = IF chain' = <<>> THEN NULL ELSE chain'[1]
      <4>1. head = chain[1] /\ (n = 1 => k = 1 /\ next[chain[1]] = NULL)
        <5>1. 1 \in 1..n /\ chain # <<>>
          BY <2>2, <2>7, EmptySeq DEF n
        <5> QED
          BY <1>0, <2>0, <2>2, <5>1 DEF PointersSpellList, n
      <4> QED
        BY <2>10, <2>13, <4>1
    <3>2. chain' # <<>> => tail' = chain'[Len(chain')]
      <4>1. CASE k = 1
        <5>1. chain' # <<>> => k # n
          BY <2>13, <4>1
        <5> QED
          BY <2>6, <2>10, <2>11, <2>13, <4>1, <5>1
      <4>2. CASE k # 1
        BY <2>6, <2>10, <2>11, <2>13, <4>2
      <4> QED
        BY <4>1, <4>2
    <3> QED
      BY <2>13, <3>1, <3>2 DEF PointersSpellList, Spells
  <2>17. ChainOK'
    BY <1>0, <2>13, <2>14 DEF ChainOK, Distinct
  <2>18. CallOK' /\ WalkOK' /\ GetOK' /\ DeinitOK'
    BY <1>0, <2>0, <2>14 DEF CallOK, WalkOK, GetOK, DeinitOK, Calling
  <2>19. FreshNode'
    <3>1. tail' \in 1..used \cup {NULL}
      BY <1>0, <2>3, <2>10 DEF FreshNode
    <3>2. ASSUME Calling("list_add")
          PROVE  /\ used > 0 /\ tail' # used /\ info[used] = call.info /\ next'[used] = NULL
                 /\ \A m \in 1..(n - 1) : chain'[m] # used
      <4>1. /\ used > 0 /\ tail # used /\ info[used] = call.info /\ next[used] = NULL
            /\ \A m \in 1..n : chain[m] # used
        BY <1>0, <2>0, <3>2 DEF FreshNode, n
      <4>2. \A m \in 1..(n - 1) : chain'[m] # used
        BY <2>11, <4>1
      <4>3. k # 1 => chain[k - 1] # used
        BY <2>3, <4>1
      <4>4. tail' # used
        BY <2>10, <4>1, <4>3
      <4>5. next'[used] = NULL
        <5>1. used \in Node
          BY <1>0, <4>1 DEF ListTypeOK, Node
        <5> QED
          BY <2>5, <2>9, <4>1, <4>3, <5>1
      <4> QED
        BY <4>1, <4>2, <4>4, <4>5
    <3> QED
      BY <2>11, <2>14, <3>1, <3>2 DEF FreshNode, Calling
  <2> QED
    BY <2>15, <2>16, <2>17, <2>18, <2>19 DEF ListInd
<1>6. CASE Link
  <2>1. /\ pc = "link" /\ Calling("list_add") /\ used \in 1..used /\ used \in Node
        /\ tail \in 1..used \cup {NULL} /\ tail # used
        /\ info[used] = call.info /\ next[used] = NULL
        /\ \A k \in 1..n : chain[k] # used
    BY <1>0, <1>6 DEF Link, CallOK, FreshNode
  <2>2. /\ head' = IF head = NULL THEN used ELSE head
        /\ next' = IF tail = NULL THEN next ELSE [next EXCEPT ![tail] = used]
        /\ tail' = used /\ chain' = Append(chain, used) /\ pc' = "idle" /\ call' = NULL
        /\ UNCHANGED <<info, used, freed, locals, results>>
    BY <1>6 DEF Link
  <2>3. /\ chain \in Seq(Node) /\ NULL \notin Node /\ next \in [Node -> Node \cup {NULL}]
        /\ chain \in Seq(1..used) /\ tail \in Node \cup {NULL} /\ n \in Nat
    BY <1>0, SeqMonotonic DEF ListTypeOK, Pointer
  <2>4. /\ Distinct(chain) /\ Spells(next, chain)
        /\ chain # <<>> => tail = chain[n]
        /\ head = IF chain = <<>> THEN NULL ELSE chain[1]
    BY <1>0, <2>1 DEF Distinct, Spells, ChainOK, PointersSpellList
  <2> HIDE ChainFacts DEF n
  <2>5. Spells(next', chain') /\ Distinct(chain')
    <3>1. next' = Behind(next, tail, used)
      BY <2>2 DEF Behind
    <3>2. /\ chain \in Seq(Node) /\ NULL \notin Node /\ next \in [Node -> Node \cup {NULL}]
          /\ Distinct(chain) /\ Spells(next, chain) /\ used \in Node /\ next[used] = NULL
          /\ \A k \in 1..Len(chain) : chain[k] # used
          /\ tail \in Node \cup {NULL} /\ tail # used
          /\ chain # <<>> => tail = chain[Len(chain)]
      BY <2>1, <2>3, <2>4 DEF n
    <3>3. Spells(Behind(next, tail, used), Append(chain, used)) /\ Distinct(Append(chain, used))
      BY <3>2, LinkedChain, Zenon
    <3> QED
      BY <2>2, <3>1, <3>3
  <2>6. /\ chain' \in Seq(1..used) /\ Len(chain') = n + 1 /\ chain' # <<>>
        /\ \A k \in 1..n : chain'[k] = chain[k]
        /\ chain'[n + 1] = used
    BY <2>1, <2>2, <2>3, AppendProperties DEF n
  <2>7. ListTypeOK'
    <3>1. next' \in [Node -> Pointer] /\ head' \in Pointer /\ tail' \in Pointer
      BY <1>0, <2>1, <2>2, <2>3 DEF Pointer
    <3>2. at' \in 0..Len(chain')
      BY <1>0, <2>2, <2>3, <2>6 DEF locals, n
    <3> QED
      BY <1>0, <2>2, <2>6, <3>1, <3>2 DEF ListTypeOK, locals, results, Node, Pointer
  <2>8. head' = chain'[1]
    <3>1. CASE chain = <<>>
      <4>1. n = 0
        BY <3>1, EmptySeq DEF n
      <4> QED
        BY <2>2, <2>4, <2>6, <3>1, <4>1
    <3>2. CASE chain # <<>>
      <4>1. 1 \in 1..n
        BY <2>3, <3>2, EmptySeq DEF n
      <4>2. chain[1] \in Node
        BY <2>3, <4>1, ElementOfSeq DEF n
      <4> QED
        BY <2>2, <2>3, <2>4, <2>6, <3>2, <4>1, <4>2
    <3> QED
      BY <3>1, <3>2
  <2>9. PointersSpellList'
    BY <2>2, <2>5, <2>6, <2>8 DEF PointersSpellList, Spells
  <2>10. ChainOK'
    BY <1>0, <2>2, <2>5 DEF ChainOK, Distinct
  <2>11. CallOK' /\ FreshNode' /\ WalkOK' /\ GetOK' /\ DeinitOK'
    BY <1>0, <2>1, <2>2 DEF CallOK, FreshNode, WalkOK, GetOK, DeinitOK, Calling, locals
  <2> QED
    BY <2>7, <2>9, <2>10, <2>11 DEF ListInd
<1>7. CASE GetCall
  <2>1. /\ call' # NULL /\ call'.op = "list_get" /\ call' \in Call(MaxIndex)
        /\ call'.index \in 0..MaxIndex
    BY <1>7, CallFields DEF GetCall
  <2>2. /\ UNCHANGED heap /\ at' = 0 /\ pc' = "get" /\ node' = head /\ prev' = prev
        /\ removed' = FALSE /\ found' = NULL /\ pc = "idle"
    BY <1>7 DEF GetCall, ForgetResults
  <2>3. removed' \in BOOLEAN
    BY <2>2, Zenon
  <2>4. /\ ListTypeOK' /\ PointersSpellList' /\ ChainOK'
        /\ \A k \in 1..(Len(chain) + 1) :
             NodeAt(k)' = NodeAt(k) /\ NodeBefore(k)' = NodeBefore(k)
    BY <1>0, <2>1, <2>2, <2>3, SameHeap
  <2>5. CallOK' /\ DeinitOK' /\ FreshNode' /\ WalkOK'
    BY <1>0, <2>1, <2>2 DEF CallOK, DeinitOK, FreshNode, WalkOK, Calling, heap
  <2>6. GetOK'
    BY <2>1, <2>2, <2>4 DEF GetOK
  <2> QED
    BY <2>4, <2>5, <2>6 DEF ListInd
<1>8. CASE GetStep
  <2>1. /\ UNCHANGED <<heap, pc, call, prev, results>> /\ pc = "get" /\ node # NULL
        /\ ~AtIndex /\ node' = next[node] /\ at' = at + 1
    BY <1>8 DEF GetStep
  <2>2. /\ Calling("list_get") /\ call.index \in 0..MaxIndex
        /\ at \in 0..n /\ node = NodeAt(at + 1)
    BY <1>0, <2>1, CallFields DEF CallOK, Calling, ListTypeOK, GetOK
  <2>3. at + 1 \in 1..n /\ node = chain[at + 1] /\ node' = NodeAt((at + 1) + 1)
    BY <2>1, <2>2 DEF NodeAt
  <2>4. /\ ListTypeOK' /\ PointersSpellList' /\ ChainOK'
        /\ \A k \in 1..(Len(chain) + 1) :
             NodeAt(k)' = NodeAt(k) /\ NodeBefore(k)' = NodeBefore(k)
    BY <1>0, <2>1, <2>3, SameHeap DEF results
  <2>5. CallOK' /\ DeinitOK' /\ FreshNode' /\ WalkOK'
    BY <1>0, <2>1 DEF CallOK, DeinitOK, FreshNode, WalkOK, Calling, heap
  <2>6. GetOK'
    <3>1. (node = NodeAt(at + 1))'
      BY <2>1, <2>3, <2>4
    <3>2. at' > call.index => at > call.index \/ call.index = at
      BY <2>1, <2>2
    <3>3. call.index = at => info[chain[call.index + 1]].service_name # call.service_name
      BY <2>1, <2>3 DEF AtIndex
    <3> QED
      BY <1>0, <2>1, <3>1, <3>2, <3>3 DEF GetOK, heap
  <2> QED
    BY <2>4, <2>5, <2>6 DEF ListInd
<1>9. CASE GetReturn
  <2>1. /\ UNCHANGED heap /\ pc = "get" /\ pc' = "idle" /\ call' = NULL
        /\ removed' = removed /\ prev' = NULL /\ node' = NULL /\ at' = 0
        /\ found' = IF node = NULL THEN NULL ELSE info[node]
    BY <1>9 DEF GetReturn, LeaveScope
  <2>2. found' \in Entry \cup {NULL}
    BY <1>0, <2>1 DEF ListTypeOK, Pointer
  <2>3. ListTypeOK' /\ PointersSpellList' /\ ChainOK'
    BY <1>0, <2>1, <2>2, SameHeap
  <2>4. CallOK' /\ GetOK' /\ DeinitOK' /\ FreshNode' /\ WalkOK'
    BY <1>0, <2>1 DEF CallOK, GetOK, DeinitOK, FreshNode, WalkOK, Calling, heap
  <2> QED
    BY <2>3, <2>4 DEF ListInd
<1>10. CASE DeinitCall
  <2>1. /\ UNCHANGED heap /\ at' = at /\ pc' = "deinit" /\ node' = head /\ prev' = prev
        /\ removed' = FALSE /\ found' = NULL /\ pc = "idle"
        /\ call' = [op |-> "deinit_list"] /\ call' \in Call(MaxIndex)
    BY <1>10 DEF DeinitCall, ForgetResults, Call
  <2>2. removed' \in BOOLEAN
    BY <2>1, Zenon
  <2>3. /\ ListTypeOK' /\ PointersSpellList' /\ ChainOK'
        /\ \A k \in 1..(Len(chain) + 1) :
             NodeAt(k)' = NodeAt(k) /\ NodeBefore(k)' = NodeBefore(k)
    BY <1>0, <2>1, <2>2, SameHeap
  <2>4. CallOK' /\ GetOK' /\ FreshNode' /\ WalkOK'
    BY <1>0, <2>1, CallFields DEF CallOK, GetOK, FreshNode, WalkOK, Calling, heap
  <2>5. DeinitOK'
    <3>1. node' = NodeAt(1)' /\ 1 \in 1..(Len(chain') + 1)
      BY <2>1, <2>3 DEF heap
    <3>2. freed' = { chain'[j] : j \in 1..(1 - 1) }
      BY <1>0, <2>1 DEF DeinitOK, heap
    <3> QED
      BY <2>1, <3>1, <3>2 DEF DeinitOK
  <2> QED
    BY <2>3, <2>4, <2>5 DEF ListInd
<1>11. CASE DeinitStep
  <2>1. PICK k \in 1..(n + 1) : node = NodeAt(k) /\ freed = { chain[j] : j \in 1..(k - 1) }
    BY <1>0, <1>11 DEF DeinitStep, DeinitOK
  <2>2. k \in 1..n /\ k + 1 \in 1..(n + 1) /\ node = chain[k]
    BY <1>11, <2>1 DEF DeinitStep, NodeAt
  <2>3. /\ UNCHANGED <<head, tail, next, info, used, chain, pc, call, prev, at, results>>
        /\ pc = "deinit" /\ freed' = freed \cup {node} /\ node' = NodeAt(k + 1)
    BY <1>11, <2>1, <2>2 DEF DeinitStep
  <2>4. freed' = { chain[j] : j \in 1..((k + 1) - 1) }
    <3>1. \A j : j \in 1..((k + 1) - 1) <=> j \in 1..(k - 1) \/ j = k
      BY <2>2
    <3>2. ASSUME NEW x
          PROVE  x \in freed' <=> \E j \in 1..((k + 1) - 1) : x = chain[j]
      BY <2>1, <2>2, <2>3, <3>1, SMTT(30)
    <3> QED
      BY <3>2
  <2>5. ListTypeOK'
    <3>1. chain[k] \in 1..used /\ NodeAt(k + 1) \in Pointer
      BY <1>0, <2>2
    <3>2. freed \subseteq 1..used
      BY <1>0 DEF ListTypeOK
    <3>3. freed' \subseteq 1..used' /\ node' \in Pointer
      BY <2>2, <2>3, <3>1, <3>2
    <3> QED
      BY <1>0, <2>3, <3>3 DEF ListTypeOK, results, Node, Pointer
  <2>6. /\ PointersSpellList' /\ ChainOK' /\ CallOK' /\ GetOK' /\ FreshNode' /\ WalkOK'
    BY <1>0, <2>3 DEF PointersSpellList, ChainOK, CallOK, GetOK, FreshNode, WalkOK, Calling
  <2>7. DeinitOK'
    <3>1. node' = NodeAt(k + 1)' /\ k + 1 \in 1..(Len(chain') + 1)
      BY <2>2, <2>3 DEF NodeAt
    <3>2. freed' = { chain'[j] : j \in 1..((k + 1) - 1) }
      <4>1. chain' = chain
        BY <2>3
      <4> QED
        BY <2>4, <4>1
    <3> QED
      BY <2>3, <3>1, <3>2 DEF DeinitOK
  <2> QED
    BY <2>5, <2>6, <2>7 DEF ListInd
<1>12. CASE DeinitEnd
  <2>1. /\ UNCHANGED <<head, tail, next, info, used, freed, locals, results>>
        /\ pc = "deinit" /\ chain' = <<>> /\ pc' = "gone" /\ call' = NULL
    BY <1>12 DEF DeinitEnd
  <2>2. at' = 0
    BY <1>0, <2>1 DEF GetOK, locals
  <2>3. ListTypeOK'
    BY <1>0, <2>1, <2>2 DEF ListTypeOK, locals, results
  <2> QED
    BY <1>0, <2>1, <2>2, <2>3
       DEF ListInd, PointersSpellList, ChainOK, CallOK, GetOK, FreshNode, WalkOK,
           DeinitOK, Calling
<1>13. CASE UNCHANGED listVars
  <2> USE DEF listVars, heap, locals, results
  <2>1. ListTypeOK' /\ PointersSpellList' /\ ChainOK' /\ CallOK' /\ FreshNode'
    BY <1>0, <1>13 DEF ListTypeOK, PointersSpellList, ChainOK, CallOK, FreshNode, Calling,
       Node, Pointer
  <2>2. WalkOK'
    BY <1>0, <1>13 DEF WalkOK, Calling, Wanted, NodeAt, NodeBefore
  <2>3. GetOK' /\ DeinitOK'
    BY <1>0, <1>13, SMTT(30) DEF GetOK, DeinitOK, NodeAt
  <2> QED
    BY <2>1, <2>2, <2>3 DEF ListInd
<1>14. CASE Gone
  BY <1>13, <1>14 DEF Gone
<1> QED
  BY <1>1, <1>2, <1>3, <1>4, <1>5, <1>6, <1>7, <1>8, <1>9, <1>10, <1>11, <1>12,
     <1>13, <1>14 DEF ListNext, Step

(* The inductive invariant holds in every behaviour of the list.           *)
LEMMA ListInvariance == ListSpec => []ListInd
BY InitListInd, StepListInd, PTL DEF ListSpec

(* The fields of list.c's structs, and the locals of its functions, hold   *)
(* what they are declared to, for any number of nodes and services.        *)
THEOREM ListTypeCorrect == ListSpec => []ListTypeOK
BY ListInvariance, PTL DEF ListInd

(* However list_add, list_remove and list_get are called, head, next and   *)
(* tail spell the list.                                                    *)
THEOREM PointersSpell == ListSpec => []PointersSpellList
BY ListInvariance, PTL DEF ListInd

(* No function of list.c follows a pointer to freed memory.                *)
THEOREM NothingDangles == ListSpec => []NoDanglingPointers
<1>1. ASSUME ListInd PROVE NoDanglingPointers
  <2>1. ASSUME pc = "deinit" PROVE node \notin freed
    <3>1. PICK k \in 1..(Len(chain) + 1) :
            node = NodeAt(k) /\ freed = { chain[j] : j \in 1..(k - 1) }
      BY <1>1, <2>1 DEF ListInd, DeinitOK
    <3>2. \A j \in 1..(k - 1) : j \in 1..Len(chain) /\ chain[j] # NodeAt(k)
      BY <1>1, ChainFacts DEF ListInd, ChainOK, NodeAt
    <3> QED
      BY <3>1, <3>2
  <2> QED
    BY <1>1, <2>1 DEF ListInd, DeinitOK, NoDanglingPointers
<1> QED
  BY <1>1, ListInvariance, PTL

-----------------------------------------------------------------------------
(* The services of a chain of nodes.                                       *)
Services(c, f) == [k \in 1..Len(c) |-> f[c[k]]]

(* Each service is at the place of its node.                               *)
LEMMA ServicesFollow ==
  ASSUME NEW N, NEW c \in Seq(N), NEW f, \A n \in N : f[n] \in Entry
  PROVE  /\ Services(c, f) \in Seq(Entry) /\ Len(Services(c, f)) = Len(c)
         /\ \A k \in 1..Len(c) : Services(c, f)[k] = f[c[k]]
<1>1. Len(c) \in Nat /\ \A k \in 1..Len(c) : f[c[k]] \in Entry
  BY LenProperties, ElementOfSeq
<1>2. Services(c, f) \in [1..Len(c) -> Entry]
  BY <1>1 DEF Services
<1>3. Services(c, f) \in Seq(Entry)
  BY <1>1, <1>2, SeqDef
<1>4. Len(Services(c, f)) = Len(c)
  BY <1>1, <1>2, <1>3, LenProperties
<1> QED
  BY <1>3, <1>4 DEF Services

(* Unlinking a node removes its service.                                   *)
LEMMA ServicesRemove ==
  ASSUME NEW N, NEW c \in Seq(N), NEW f, \A n \in N : f[n] \in Entry, NEW k \in 1..Len(c)
  PROVE  Services(RemoveAt(c, k), f) = RemoveAt(Services(c, f), k)
<1>1. /\ RemoveAt(c, k) \in Seq(N) /\ Len(RemoveAt(c, k)) = Len(c) - 1
      /\ \A m \in 1..(Len(c) - 1) :
           RemoveAt(c, k)[m] = IF m < k THEN c[m] ELSE c[m + 1]
  BY RemoveAtProperties
<1>2. /\ RemoveAt(Services(c, f), k) \in Seq(Entry)
      /\ Len(RemoveAt(Services(c, f), k)) = Len(c) - 1
      /\ \A m \in 1..(Len(c) - 1) :
           RemoveAt(Services(c, f), k)[m] =
             IF m < k THEN Services(c, f)[m] ELSE Services(c, f)[m + 1]
  <2>1. Services(c, f) \in Seq(Entry) /\ Len(Services(c, f)) = Len(c)
    BY ServicesFollow
  <2> DEFINE S == Services(c, f)
  <2>2. S \in Seq(Entry) /\ k \in 1..Len(S) /\ Len(S) = Len(c)
    BY <2>1
  <2> HIDE DEF S
  <2>3. /\ RemoveAt(S, k) \in Seq(Entry)
        /\ Len(RemoveAt(S, k)) = Len(S) - 1
        /\ \A m \in 1..(Len(S) - 1) :
             RemoveAt(S, k)[m] = IF m < k THEN S[m] ELSE S[m + 1]
    BY <2>2, RemoveAtProperties
  <2> QED
    BY <2>2, <2>3 DEF S
<1>3. \A m \in 1..(Len(c) - 1) : m \in 1..Len(c) /\ m + 1 \in 1..Len(c)
  BY LenProperties
<1>4. /\ Services(RemoveAt(c, k), f) \in Seq(Entry)
      /\ Len(Services(RemoveAt(c, k), f)) = Len(c) - 1
      /\ \A m \in 1..(Len(c) - 1) :
           Services(RemoveAt(c, k), f)[m] = f[RemoveAt(c, k)[m]]
  BY <1>1, ServicesFollow
<1>5. ASSUME NEW m \in 1..(Len(c) - 1)
      PROVE  Services(RemoveAt(c, k), f)[m] = RemoveAt(Services(c, f), k)[m]
  <2>1. Services(c, f)[m] = f[c[m]] /\ Services(c, f)[m + 1] = f[c[m + 1]]
    BY <1>3, ServicesFollow
  <2>2. CASE m < k
    BY <1>1, <1>2, <1>4, <2>1, <2>2
  <2>3. CASE ~(m < k)
    BY <1>1, <1>2, <1>4, <2>1, <2>3
  <2> QED
    BY <2>2, <2>3
<1> QED
  BY <1>2, <1>4, <1>5, SeqEqual

(* Linking a node appends its service.                                     *)
LEMMA ServicesAppend ==
  ASSUME NEW N, NEW c \in Seq(N), NEW f, \A n \in N : f[n] \in Entry, NEW x \in N
  PROVE  Services(Append(c, x), f) = Append(Services(c, f), f[x])
<1>1. /\ Append(c, x) \in Seq(N) /\ Len(Append(c, x)) = Len(c) + 1
      /\ \A m \in 1..Len(c) : Append(c, x)[m] = c[m]
      /\ Append(c, x)[Len(c) + 1] = x
  BY AppendProperties
<1>2. /\ Append(Services(c, f), f[x]) \in Seq(Entry)
      /\ Len(Append(Services(c, f), f[x])) = Len(c) + 1
      /\ \A m \in 1..Len(c) : Append(Services(c, f), f[x])[m] = Services(c, f)[m]
      /\ Append(Services(c, f), f[x])[Len(c) + 1] = f[x]
  <2>1. Services(c, f) \in Seq(Entry) /\ Len(Services(c, f)) = Len(c)
    BY ServicesFollow
  <2> QED
    BY <2>1, AppendProperties
<1>3. \A m \in 1..(Len(c) + 1) : m \in 1..Len(c) \/ m = Len(c) + 1
  BY LenProperties
<1>4. /\ Services(Append(c, x), f) \in Seq(Entry)
      /\ Len(Services(Append(c, x), f)) = Len(c) + 1
      /\ \A m \in 1..(Len(c) + 1) : Services(Append(c, x), f)[m] = f[Append(c, x)[m]]
  <2>1. /\ Services(Append(c, x), f) \in Seq(Entry)
        /\ Len(Services(Append(c, x), f)) = Len(Append(c, x))
    BY <1>1, ServicesFollow
  <2> QED
    BY <1>1, <2>1 DEF Services
<1>5. \A m \in 1..Len(c) : Services(c, f)[m] = f[c[m]]
  BY ServicesFollow
<1>6. \A m \in 1..(Len(c) + 1) :
        Services(Append(c, x), f)[m] = Append(Services(c, f), f[x])[m]
  BY <1>1, <1>2, <1>3, <1>4, <1>5
<1> QED
  BY <1>2, <1>4, <1>6, SeqEqual

(* A removal takes the first service with the key.                         *)
LEMMA FirstIsRemoved ==
  ASSUME NEW l \in Seq(Entry), NEW d, NEW s, NEW k \in 1..Len(l), HasKey(l[k], d, s),
         \A j \in 1..(k - 1) : ~HasKey(l[j], d, s)
  PROVE  Registered(l, d, s) /\ ListRemove(l, d, s) = RemoveAt(l, k)
<1>1. Len(l) \in Nat
  BY LenProperties
<1>2. Registered(l, d, s)
  BY DEF Registered
<1>3. PositionOf(l, d, s) = k
  <2>1. ASSUME NEW m \in 1..Len(l), HasKey(l[m], d, s),
               \A j \in 1..(m - 1) : ~HasKey(l[j], d, s)
        PROVE  m = k
    <3>1. ~(m < k) /\ ~(k < m)
      BY <1>1, <2>1
    <3> QED
      BY <1>1, <3>1
  <2> QED
    BY <2>1 DEF PositionOf
<1> QED
  BY <1>2, <1>3 DEF ListRemove

(* SeqList speaks of the same services and calls as CList.                 *)
LEMMA SameOperators ==
  /\ A!Call(MaxIndex) = Call(MaxIndex)
  /\ \A l, d, s : A!Registered(l, d, s) = Registered(l, d, s)
  /\ \A l, d, s : A!ListRemove(l, d, s) = ListRemove(l, d, s)
  /\ \A l, e : A!ListAdd(l, e) = ListAdd(l, e)
  /\ \A l, s, k : A!ListGet(l, s, k) = ListGet(l, s, k)
<1>1. A!Call(MaxIndex) = Call(MaxIndex)
  BY DEF A!Call, Call, A!Entry, Entry
<1>2. ASSUME NEW l, NEW d, NEW s
      PROVE  A!Registered(l, d, s) = Registered(l, d, s)
  BY DEF A!Registered, Registered, A!HasKey, HasKey
<1>3. ASSUME NEW l, NEW d, NEW s
      PROVE  A!ListRemove(l, d, s) = ListRemove(l, d, s)
  <2>1. A!PositionOf(l, d, s) = PositionOf(l, d, s)
    BY DEF A!PositionOf, PositionOf, A!HasKey, HasKey
  <2>2. \A k : A!RemoveAt(l, k) = RemoveAt(l, k)
    BY DEF A!RemoveAt, RemoveAt
  <2> QED
    BY <1>2, <2>1, <2>2 DEF A!ListRemove, ListRemove
<1>4. ASSUME NEW l, NEW e
      PROVE  A!ListAdd(l, e) = ListAdd(l, e)
  BY <1>3 DEF A!ListAdd, ListAdd
<1>5. ASSUME NEW l, NEW s, NEW k
      PROVE  A!ListGet(l, s, k) = ListGet(l, s, k)
  BY DEF A!ListGet, ListGet
<1> QED
  BY <1>1, <1>2, <1>3, <1>4, <1>5

(* An empty list implements an empty sequence.                             *)
LEMMA InitImplementsSeqList == ListInit => A!Init
<1> SUFFICES ASSUME ListInit PROVE A!Init
  OBVIOUS
<1>1. Contents = <<>>
  <2>1. Services(<<>>, info) = <<>>
    BY DEF Services
  <2>2. <<>> \o <<>> = <<>>
    OBVIOUS
  <2> QED
    BY <2>1, <2>2 DEF ListInit, Contents, Services
<1> QED
  BY <1>1 DEF ListInit, A!Init

(* The list as SeqList sees it, and the service a walk has come to.        *)
LEMMA ContentsAre ==
  ASSUME ListInd
  PROVE  /\ Services(chain, info) \in Seq(Entry)
         /\ Len(Services(chain, info)) = Len(chain)
         /\ \A k \in 1..Len(chain) : Services(chain, info)[k] = info[chain[k]]
         /\ \A k \in 1..Len(chain) :
              Services(RemoveAt(chain, k), info) = RemoveAt(Services(chain, info), k)
         /\ pc # "link" => Contents = Services(chain, info)
         /\ pc = "link" => /\ Contents = Append(Services(chain, info), info[used])
                           /\ Contents = Services(Append(chain, used), info)
                           /\ info[used] = call.info /\ used \in 1..used
<1> DEFINE S == Services(chain, info)
<1>1. chain \in Seq(1..used) /\ \A m \in 1..used : info[m] \in Entry
  BY DEF ListInd, ListTypeOK, ChainOK
<1>2. S \in Seq(Entry)
  BY <1>1, ServicesFollow
<1>3. Len(S) = Len(chain)
  BY <1>1, ServicesFollow
<1>4. ASSUME NEW k \in 1..Len(chain)
      PROVE  /\ S[k] = info[chain[k]]
             /\ Services(RemoveAt(chain, k), info) = RemoveAt(S, k)
  <2>1. S[k] = info[chain[k]]
    BY DEF Services
  <2>2. Services(RemoveAt(chain, k), info) = RemoveAt(S, k)
    <3>1. chain \in Seq(1..used)
      BY <1>1
    <3>2. \A m \in 1..used : info[m] \in Entry
      BY <1>1
    <3> HIDE DEF S
    <3>3. Services(RemoveAt(chain, k), info) = RemoveAt(Services(chain, info), k)
      BY <3>1, <3>2, ServicesRemove, ZenonT(30)
    <3> QED
      BY <3>3 DEF S
  <2> QED
    BY <2>1, <2>2
<1>5. Contents = S \o IF pc = "link" THEN <<info[used]>> ELSE <<>>
  BY DEF Contents, Services
<1>6. S \o <<>> = S
  BY <1>2, ConcatEmptySeq
<1>7. ASSUME pc = "link"
      PROVE  /\ used \in 1..used /\ info[used] = call.info
             /\ S \o <<info[used]>> = Append(S, info[used])
             /\ Services(Append(chain, used), info) = Append(S, info[used])
  <2>1. used \in 1..used /\ info[used] = call.info
    BY <1>7 DEF ListInd, ListTypeOK, CallOK, FreshNode
  <2>2. Services(Append(chain, used), info) = Append(S, info[used])
    <3>1. chain \in Seq(1..used)
      BY <1>1
    <3>2. \A m \in 1..used : info[m] \in Entry
      BY <1>1
    <3>3. used \in 1..used
      BY <2>1
    <3> HIDE DEF S
    <3>4. Services(Append(chain, used), info) = Append(Services(chain, info), info[used])
      BY <3>1, <3>2, <3>3, ServicesAppend, ZenonT(30)
    <3> QED
      BY <3>4 DEF S
  <2> QED
    BY <1>1, <1>2, <2>1, <2>2, AppendIsConcat
<1> QED
  BY <1>2, <1>3, <1>4, <1>5, <1>6, <1>7

(* A walk is over when it comes to the first service it wants, or finds    *)
(* none: what it removes is what ListRemove removes.                       *)
LEMMA WalkRemoves ==
  ASSUME ListInd, pc = "walk", NEW d, NEW s,
         \A e \in Entry : Wanted(e) <=> HasKey(e, d, s)
  PROVE  /\ node = NULL => /\ ~Registered(Contents, d, s)
                           /\ ListRemove(Contents, d, s) = Contents
         /\ node # NULL /\ Wanted(info[node]) =>
              /\ Registered(Contents, d, s)
              /\ Services(RemoveAt(chain, Place(node)), info) = ListRemove(Contents, d, s)
<1> DEFINE n == Len(chain)
           S == Services(chain, info)
<1>1. /\ S \in Seq(Entry) /\ Len(S) = n /\ Contents = S
      /\ \A k \in 1..n : S[k] = info[chain[k]]
      /\ \A k \in 1..n : Services(RemoveAt(chain, k), info) = RemoveAt(S, k)
  BY ContentsAre
<1>2. /\ n \in Nat /\ \A k \in 1..n : info[chain[k]] \in Entry
      /\ \A k \in 1..(n + 1) : NodeAt(k) = NULL <=> k = n + 1
      /\ Distinct(chain)
  BY ChainFacts DEF ListInd, ChainOK, Distinct
<1>3. PICK k \in 1..(n + 1) :
        node = NodeAt(k) /\ \A j \in 1..(k - 1) : ~Wanted(info[chain[j]])
  BY DEF ListInd, WalkOK
<1> HIDE DEF S
<1>4. \A j \in 1..(k - 1) : j \in 1..n /\ ~HasKey(S[j], d, s)
  BY <1>1, <1>2, <1>3
<1>5. CASE node = NULL
  <2>1. k - 1 = n
    <3>1. k = n + 1
      BY <1>2, <1>3, <1>5
    <3> QED
      BY <1>2, <3>1
  <2>2. ~Registered(S, d, s)
    BY <1>1, <1>4, <2>1 DEF Registered
  <2> QED
    BY <1>1, <1>5, <2>2 DEF ListRemove
<1>6. CASE node # NULL /\ Wanted(info[node])
  <2>1. k \in 1..n /\ node = chain[k]
    BY <1>2, <1>3, <1>6 DEF NodeAt
  <2>2. Place(node) = k
    BY <1>2, <2>1 DEF Place, Distinct
  <2>3. HasKey(S[k], d, s)
    BY <1>1, <1>2, <1>6, <2>1
  <2>4. Registered(S, d, s) /\ ListRemove(S, d, s) = RemoveAt(S, k)
    BY <1>1, <1>4, <2>1, <2>3, FirstIsRemoved
  <2> QED
    BY <1>1, <1>6, <2>1, <2>2, <2>4
<1> QED
  BY <1>5, <1>6

(* Every step of the pointers is a step of the sequence, or none.          *)
LEMMA ListStepImplements ==
  ListInd /\ ListInd' /\ [ListNext]_listVars => [A!Next]_(A!vars)
<1> SUFFICES ASSUME ListInd, ListInd', [ListNext]_listVars
             PROVE  A!Next \/ UNCHANGED A!vars
  OBVIOUS
<1> DEFINE S == Services(chain, info)
<1>1. CASE AddCall \/ RemoveCall \/ GetCall \/ DeinitCall
  <2>1. /\ pc = "idle" /\ pc' \notin {"link", "gone"} /\ call' \in Call(MaxIndex)
        /\ removed' = FALSE /\ found' = NULL /\ chain' = chain
    BY <1>1 DEF AddCall, RemoveCall, GetCall, DeinitCall, ForgetResults, Call, heap
  <2>2. call = NULL
    BY <2>1 DEF ListInd, CallOK
  <2>3. Contents = S /\ Contents' = S'
    <3>1. (pc # "link" => Contents = S)'
      <4>1. Contents' = S' \o IF pc' = "link" THEN <<info'[used']>> ELSE <<>>
        BY DEF Contents, Services
      <4>2. S' \in Seq(Entry)
        BY ServicesFollow DEF ListInd, ListTypeOK, ChainOK
      <4> QED
        BY <4>1, <4>2, ConcatEmptySeq
    <3> QED
      BY <2>1, <3>1, ContentsAre
  <2>4. S' = S
    <3>1. \A k \in 1..Len(chain) : info'[chain[k]] = info[chain[k]]
      <4>1. UNCHANGED info \/ info' = [info EXCEPT ![used + 1] = call'.info]
        BY <1>1 DEF AddCall, RemoveCall, GetCall, DeinitCall, heap
      <4>2. \A k \in 1..Len(chain) : chain[k] \in Node /\ chain[k] # used + 1
        BY ChainFacts
      <4> QED
        BY <4>1, <4>2 DEF ListInd, ListTypeOK
    <3> QED
      BY <2>1, <3>1 DEF Services
  <2>5. A!Begin
    BY <2>1, <2>2, <2>3, <2>4, SameOperators DEF A!Begin
  <2> QED
    BY <2>5 DEF A!Next
<1>2. CASE WalkEnd \/ Unlink
  <2>0. /\ pc = "walk" /\ UNCHANGED <<info, used, found>>
        /\ \/ /\ Calling("list_add") /\ pc' = "link" /\ call' = call /\ removed' = removed
           \/ /\ ~Calling("list_add") /\ pc' = "idle" /\ call' = NULL
              /\ removed' = (node # NULL)
    BY <1>2 DEF WalkEnd, Unlink, heap, ReturnFromRemove
  <2>1. /\ Calling("list_add") \/ Calling("list_remove")
        /\ Calling("list_add") => call.info \in Entry /\ info[used] = call.info
    BY <2>0, CallFields DEF ListInd, ListTypeOK, CallOK, Calling, FreshNode
  <2>2. S' = IF node = NULL THEN S ELSE Services(RemoveAt(chain, Place(node)), info)
    BY <1>2, <2>0 DEF WalkEnd, Unlink, heap
  <2>3. node # NULL => Wanted(info[node])
    BY <1>2 DEF WalkEnd, Unlink
  <2>4. Contents = S /\ S' \in Seq(Entry)
    <3>1. S' \in Seq(Entry)
      BY ServicesFollow DEF ListInd, ListTypeOK, ChainOK
    <3> QED
      BY <2>0, <3>1, ContentsAre
  <2>5. Contents' = S' \o IF pc' = "link" THEN <<info[used]>> ELSE <<>>
    BY <2>0 DEF Contents, Services
  <2>6. CASE Calling("list_add")
    <3> DEFINE d == call.info.device_name
               s == call.info.service_name
    <3>1. \A e \in Entry : Wanted(e) <=> HasKey(e, d, s)
      BY <2>6 DEF Wanted, SameKey
    <3>2. S' = ListRemove(Contents, d, s)
      BY <2>0, <2>2, <2>3, <2>4, <3>1, WalkRemoves
    <3>3. Contents' = ListAdd(Contents, call.info)
      <4>1. Contents' = Append(S', call.info)
        BY <2>0, <2>1, <2>4, <2>5, <2>6, AppendIsConcat
      <4> QED
        BY <3>2, <4>1 DEF ListAdd
    <3>4. A!AddReturns
      BY <2>0, <2>6, <3>3, SameOperators DEF A!AddReturns, A!Calling, Calling
    <3> QED
      BY <3>4 DEF A!Next
  <2>7. CASE ~Calling("list_add")
    <3> DEFINE d == call.device_name
               s == call.service_name
    <3>1. \A e \in Entry : Wanted(e) <=> HasKey(e, d, s)
      BY <2>7 DEF Wanted
    <3>2. S' = ListRemove(Contents, d, s) /\ removed' = Registered(Contents, d, s)
      <4>1. /\ node = NULL => /\ ~Registered(Contents, d, s)
                              /\ ListRemove(Contents, d, s) = Contents
            /\ node # NULL => /\ Registered(Contents, d, s)
                              /\ Services(RemoveAt(chain, Place(node)), info) =
                                   ListRemove(Contents, d, s)
        BY <2>0, <2>3, <3>1, WalkRemoves
      <4>2. S' = ListRemove(Contents, d, s)
        BY <2>2, <2>4, <4>1
      <4>3. removed' = Registered(Contents, d, s)
        <5>1. removed' = (node # NULL)
          BY <2>0, <2>7, Zenon
        <5>2. (node # NULL) = Registered(Contents, d, s)
          <6>1. Registered(Contents, d, s) \in BOOLEAN
            BY DEF Registered
          <6> QED
            BY <4>1, <6>1
        <5> QED
          BY <5>1, <5>2, Zenon
      <4> QED
        BY <4>2, <4>3
    <3>3. Contents' = ListRemove(Contents, d, s)
      BY <2>0, <2>4, <2>5, <2>7, <3>2, ConcatEmptySeq
    <3>4. A!RemoveReturns
      BY <2>0, <2>1, <2>7, <3>2, <3>3, SameOperators DEF A!RemoveReturns, A!Calling, Calling
    <3> QED
      BY <3>4 DEF A!Next
  <2> QED
    BY <2>6, <2>7
<1>3. CASE Link
  <2>1. /\ pc = "link" /\ pc' = "idle" /\ chain' = Append(chain, used) /\ call' = NULL
        /\ UNCHANGED <<info, removed, found>>
    BY <1>3 DEF Link, results
  <2>2. S' \in Seq(Entry)
    BY ServicesFollow DEF ListInd, ListTypeOK, ChainOK
  <2>3. Contents' = S' \o <<>>
    BY <2>1 DEF Contents, Services
  <2>4. Contents' = Contents
    BY <2>1, <2>2, <2>3, ContentsAre, ConcatEmptySeq
  <2> QED
    BY <2>1, <2>4 DEF A!vars
<1>4. CASE GetReturn
  <2>1. /\ UNCHANGED <<chain, info, used, removed>> /\ pc = "get" /\ pc' = "idle"
        /\ call' = NULL /\ (node = NULL \/ AtIndex)
        /\ found' = IF node = NULL THEN NULL ELSE info[node]
    BY <1>4 DEF GetReturn, heap
  <2>2. /\ Calling("list_get") /\ call.index \in 0..MaxIndex /\ call.index \in Nat
        /\ at \in 0..Len(chain) /\ node = NodeAt(at + 1)
        /\ at > call.index => info[chain[call.index + 1]].service_name # call.service_name
    BY <2>1, CallFields, CListAssumption DEF ListInd, ListTypeOK, CallOK, Calling, GetOK
  <2>3. /\ Contents = S /\ Len(S) = Len(chain) /\ Contents' = Contents
        /\ \A k \in 1..Len(chain) : S[k] = info[chain[k]]
    BY <2>1, ContentsAre DEF Contents
  <2>4. found' = ListGet(Contents, call.service_name, call.index)
    <3> HIDE DEF S
    <3>1. CASE node = NULL
      <4>1. at = Len(chain)
        <5>1. at + 1 \in 1..(Len(chain) + 1) /\ NodeAt(at + 1) = NULL
          BY <2>2, <3>1, ChainFacts
        <5>2. at + 1 = Len(chain) + 1
          BY <5>1, ChainFacts
        <5> QED
          BY <2>2, <5>2, ChainFacts
      <4>2. call.index < Len(chain) =>
              /\ call.index + 1 \in 1..Len(chain)
              /\ info[chain[call.index + 1]].service_name # call.service_name
        BY <2>2, <4>1
      <4> QED
        BY <2>1, <2>3, <3>1, <4>2 DEF ListGet
    <3>2. CASE node # NULL
      <4>1. AtIndex /\ at + 1 \in 1..Len(chain) /\ node = chain[at + 1]
        BY <2>1, <2>2, <3>2 DEF NodeAt
      <4>2. /\ call.index = at /\ at < Len(chain)
            /\ info[node].service_name = call.service_name
        BY <2>2, <4>1 DEF AtIndex
      <4> QED
        BY <2>1, <2>3, <3>2, <4>1, <4>2 DEF ListGet
    <3> QED
      BY <3>1, <3>2
  <2>5. A!GetReturns
    <3>1. found' = A!ListGet(Contents, call.service_name, call.index)
      BY <2>4, SameOperators
    <3>2. Contents' = Contents /\ removed' = removed /\ call # NULL /\ call.op = "list_get"
      BY <2>1, <2>2, <2>3 DEF Calling
    <3>3. pc # "link" /\ pc' # "link" /\ pc # "gone" /\ pc' # "gone"
      BY <2>1
    <3> QED
      BY <2>1, <3>1, <3>2, <3>3, Zenon DEF A!GetReturns, A!Calling
  <2> QED
    BY <2>5 DEF A!Next
<1>5. CASE DeinitEnd
  <2>1. /\ UNCHANGED <<info, used, removed, found>> /\ pc = "deinit" /\ chain' = <<>>
        /\ pc' = "gone" /\ call' = NULL
    BY <1>5 DEF DeinitEnd, results
  <2>2. Calling("deinit_list")
    BY <2>1 DEF ListInd, CallOK
  <2>3. Contents' = <<>>
    <3>1. Contents' = [k \in 1..Len(<<>>) |-> info[<<>>[k]]] \o <<>>
      BY <2>1 DEF Contents
    <3>2. [k \in 1..Len(<<>>) |-> info[<<>>[k]]] = <<>>
      OBVIOUS
    <3> QED
      BY <3>1, <3>2
  <2>4. A!DeinitReturns
    BY <2>1, <2>2, <2>3 DEF A!DeinitReturns, A!Calling, Calling
  <2> QED
    BY <2>4 DEF A!Next
<1>6. CASE WalkNext \/ GetStep \/ DeinitStep \/ Gone \/ UNCHANGED listVars
  <2>1. UNCHANGED <<chain, info, used, pc, call, removed, found>>
    BY <1>6 DEF WalkNext, GetStep, DeinitStep, Gone, listVars, heap, results
  <2> QED
    BY <2>1 DEF A!vars, Contents
<1> QED
  BY <1>1, <1>2, <1>3, <1>4, <1>5, <1>6 DEF ListNext, Step

(* The linked list implements the sequence that CDaemon keeps: whatever    *)
(* the pointers and the walks do, every call does and returns what         *)
(* ListAdd, ListRemove and ListGet say.                                    *)
THEOREM ListImplementsSeqList == ListSpec => ImplementsSeqList
BY ListInvariance, InitImplementsSeqList, ListStepImplements, PTL
   DEF ListSpec, ImplementsSeqList, A!Spec
=============================================================================
