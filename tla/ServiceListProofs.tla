-------------------------- MODULE ServiceListProofs --------------------------
(***************************************************************************)
(* What the operators of ServiceList do to a list without duplicate keys,  *)
(* for every list: the facts the proofs about the daemons rest on.         *)
(***************************************************************************)
EXTENDS ServiceList, SequenceTheorems, FiniteSetTheorems, TLAPS

(* Removing position p of a sequence closes the gap and changes nothing    *)
(* else.                                                                   *)
LEMMA RemoveAtProperties ==
  ASSUME NEW S, NEW l \in Seq(S), NEW p \in 1..Len(l)
  PROVE  /\ RemoveAt(l, p) \in Seq(S)
         /\ Len(RemoveAt(l, p)) = Len(l) - 1
         /\ \A k \in 1..(Len(l) - 1) :
              RemoveAt(l, p)[k] = IF k < p THEN l[k] ELSE l[k + 1]
<1> DEFINE front == SubSeq(l, 1, p - 1)
           back == SubSeq(l, p + 1, Len(l))
<1>0. /\ Len(l) \in Nat
      /\ \A k \in 1..Len(l) : l[k] \in S
  BY LenProperties, ElementOfSeq
<1>1. /\ front \in Seq(S)
      /\ Len(front) = p - 1
      /\ \A k \in 1..(p - 1) : front[k] = l[k]
  <2>1. 1 \in Int /\ p - 1 \in Int /\ \A k \in 1..(p - 1) : l[k] \in S
    BY <1>0
  <2>2. /\ SubSeq(l, 1, p - 1) \in Seq(S)
        /\ Len(SubSeq(l, 1, p - 1)) = IF 1 <= p - 1 THEN (p - 1) - 1 + 1 ELSE 0
        /\ \A k \in 1..((p - 1) - 1 + 1) : SubSeq(l, 1, p - 1)[k] = l[1 + k - 1]
    BY <2>1, SubSeqProperties
  <2> QED
    BY <2>2, <1>0
<1>2. /\ back \in Seq(S)
      /\ Len(back) = Len(l) - p
      /\ \A k \in 1..(Len(l) - p) : back[k] = l[p + k]
  <2>1. p + 1 \in Int /\ Len(l) \in Int /\ \A k \in (p + 1)..Len(l) : l[k] \in S
    BY <1>0
  <2>2. /\ SubSeq(l, p + 1, Len(l)) \in Seq(S)
        /\ Len(SubSeq(l, p + 1, Len(l))) =
             IF p + 1 <= Len(l) THEN Len(l) - (p + 1) + 1 ELSE 0
        /\ \A k \in 1..(Len(l) - (p + 1) + 1) :
             SubSeq(l, p + 1, Len(l))[k] = l[(p + 1) + k - 1]
    BY <2>1, SubSeqProperties
  <2> QED
    BY <2>2, <1>0
<1>3. /\ front \o back \in Seq(S)
      /\ Len(front \o back) = Len(front) + Len(back)
      /\ \A k \in 1..(Len(front) + Len(back)) :
           (front \o back)[k] = IF k <= Len(front) THEN front[k] ELSE back[k - Len(front)]
  BY <1>1, <1>2, ConcatProperties
<1>4. RemoveAt(l, p) = front \o back
  BY DEF RemoveAt
<1> HIDE DEF front, back
<1>5. ASSUME NEW k \in 1..(Len(l) - 1)
      PROVE  (front \o back)[k] = IF k < p THEN l[k] ELSE l[k + 1]
  <2>1. (front \o back)[k] = IF k <= p - 1 THEN front[k] ELSE back[k - (p - 1)]
    BY <1>0, <1>1, <1>2, <1>3
  <2>2. CASE k < p
    BY <2>1, <2>2, <1>0, <1>1
  <2>3. CASE ~(k < p)
    <3>1. k - (p - 1) \in 1..(Len(l) - p) /\ p + (k - (p - 1)) = k + 1
      BY <2>3, <1>0
    <3> QED
      BY <2>1, <2>3, <3>1, <1>0, <1>2
  <2> QED
    BY <2>2, <2>3
<1>6. Len(front \o back) = Len(l) - 1
  BY <1>0, <1>1, <1>2, <1>3
<1> QED
  BY <1>3, <1>4, <1>5, <1>6

(* If keys are unique there is only one position a removal can stop at.    *)
LEMMA PositionOfUnique ==
  ASSUME NEW l \in Seq(Entry), UniqueKeys(l), NEW d, NEW s, Registered(l, d, s)
  PROVE  PositionOf(l, d, s) \in 1..Len(l) /\ HasKey(l[PositionOf(l, d, s)], d, s)
<1>1. PICK i \in 1..Len(l) : HasKey(l[i], d, s)
  BY DEF Registered
<1>2. \A j \in 1..(i - 1) : ~HasKey(l[j], d, s)
  BY <1>1, LenProperties DEF UniqueKeys, SameKey, HasKey
<1> QED
  BY <1>1, <1>2 DEF PositionOf

(* list_remove and RemoveByName: the service with the key goes, all others *)
(* stay, in their order.                                                   *)
LEMMA ListRemoveProperties ==
  ASSUME NEW l \in Seq(Entry), UniqueKeys(l), NEW d, NEW s
  PROVE  /\ ListRemove(l, d, s) \in Seq(Entry)
         /\ UniqueKeys(ListRemove(l, d, s))
         /\ ~Registered(ListRemove(l, d, s), d, s)
         /\ ToSet(ListRemove(l, d, s)) = { e \in ToSet(l) : ~HasKey(e, d, s) }
         /\ Len(ListRemove(l, d, s)) <= Len(l)
<1> DEFINE r == ListRemove(l, d, s)
           p == PositionOf(l, d, s)
<1>0. /\ Len(l) \in Nat
      /\ DOMAIN l = 1..Len(l)
  BY LenProperties
<1>1. CASE ~Registered(l, d, s)
  BY <1>0, <1>1 DEF ListRemove, Registered, ToSet
<1>2. CASE Registered(l, d, s)
  <2>1. p \in 1..Len(l) /\ HasKey(l[p], d, s)
    BY <1>2, PositionOfUnique
  <2>2. r = RemoveAt(l, p)
    BY <1>2 DEF ListRemove
  <2> HIDE DEF p, r
  <2>3. /\ r \in Seq(Entry)
        /\ Len(r) = Len(l) - 1
        /\ \A k \in 1..(Len(l) - 1) : r[k] = IF k < p THEN l[k] ELSE l[k + 1]
    BY <2>1, <2>2, RemoveAtProperties
  <2>4. DOMAIN r = 1..(Len(l) - 1)
    BY <2>3, LenProperties
  (* where the elements of r come from, and that all but one get there *)
  <2>5. \A k \in 1..(Len(l) - 1) : \E j \in 1..Len(l) :
          j # p /\ r[k] = l[j] /\ j = IF k < p THEN k ELSE k + 1
    BY <1>0, <2>1, <2>3
  <2>6. \A j \in 1..Len(l) : j # p => \E k \in 1..(Len(l) - 1) : r[k] = l[j]
    <3> SUFFICES ASSUME NEW j \in 1..Len(l), j # p
                 PROVE  \E k \in 1..(Len(l) - 1) : r[k] = l[j]
      OBVIOUS
    <3>1. CASE j < p
      BY <3>1, <1>0, <2>1, <2>3
    <3>2. CASE j > p
      <4>1. j - 1 \in 1..(Len(l) - 1) /\ ~(j - 1 < p) /\ (j - 1) + 1 = j
        BY <3>2, <1>0, <2>1
      <4> QED
        BY <4>1, <2>3
    <3> QED
      BY <3>1, <3>2, <1>0, <2>1
  <2>7. \A j \in 1..Len(l) : HasKey(l[j], d, s) <=> j = p
    BY <2>1 DEF UniqueKeys, SameKey, HasKey
  <2>8. UniqueKeys(r)
    <3> SUFFICES ASSUME NEW a \in 1..(Len(l) - 1), NEW b \in 1..(Len(l) - 1),
                        SameKey(r[a], r[b])
                 PROVE  a = b
      BY <2>3 DEF UniqueKeys
    <3>1. PICK j \in 1..Len(l) : r[a] = l[j] /\ j = IF a < p THEN a ELSE a + 1
      BY <2>5
    <3>2. PICK k \in 1..Len(l) : r[b] = l[k] /\ k = IF b < p THEN b ELSE b + 1
      BY <2>5
    <3>3. j = k
      BY <3>1, <3>2 DEF UniqueKeys
    <3> QED
      BY <3>1, <3>2, <3>3, <1>0, <2>1
  <2>9. ~Registered(r, d, s)
    BY <2>3, <2>5, <2>7 DEF Registered
  <2>10. ToSet(r) = { e \in ToSet(l) : ~HasKey(e, d, s) }
    <3>1. ToSet(r) = { r[k] : k \in 1..(Len(l) - 1) }
      BY <2>4 DEF ToSet
    <3>2. ToSet(l) = { l[j] : j \in 1..Len(l) }
      BY <1>0 DEF ToSet
    <3>3. ASSUME NEW e \in ToSet(r)
          PROVE  e \in ToSet(l) /\ ~HasKey(e, d, s)
      BY <3>1, <3>2, <2>5, <2>7
    <3>4. ASSUME NEW e \in ToSet(l), ~HasKey(e, d, s)
          PROVE  e \in ToSet(r)
      BY <3>1, <3>2, <3>4, <2>6, <2>7
    <3> QED
      BY <3>3, <3>4
  <2> QED
    BY <2>3, <2>8, <2>9, <2>10, <1>0 DEF r
<1> QED
  BY <1>1, <1>2

(* list_add and ServiceInfoList.add: the new service is the last, and the  *)
(* only one with its key.                                                  *)
LEMMA ListAddProperties ==
  ASSUME NEW l \in Seq(Entry), UniqueKeys(l), NEW e \in Entry
  PROVE  /\ ListAdd(l, e) \in Seq(Entry)
         /\ UniqueKeys(ListAdd(l, e))
         /\ ToSet(ListAdd(l, e)) = { f \in ToSet(l) : ~SameKey(f, e) } \cup {e}
         /\ Len(ListAdd(l, e)) \in 1..(Len(l) + 1)
<1> DEFINE r == ListRemove(l, e.device_name, e.service_name)
           a == Append(r, e)
<1>1. /\ r \in Seq(Entry)
      /\ UniqueKeys(r)
      /\ ~Registered(r, e.device_name, e.service_name)
      /\ ToSet(r) = { f \in ToSet(l) : ~SameKey(f, e) }
      /\ Len(r) <= Len(l)
  BY ListRemoveProperties DEF SameKey
<1>2. ListAdd(l, e) = a
  BY DEF ListAdd
<1> HIDE DEF r
<1>3. /\ a \in Seq(Entry)
      /\ Len(a) = Len(r) + 1
      /\ \A k \in 1..Len(r) : a[k] = r[k]
      /\ a[Len(r) + 1] = e
  BY <1>1, AppendProperties
<1> HIDE DEF a
<1>4. /\ Len(r) \in Nat /\ Len(l) \in Nat
      /\ DOMAIN r = 1..Len(r)
      /\ DOMAIN a = 1..(Len(r) + 1)
  BY <1>1, <1>3, LenProperties
<1>5. \A k \in 1..Len(r) : ~SameKey(r[k], e) /\ ~SameKey(e, r[k])
  BY <1>1 DEF Registered, SameKey, HasKey
<1>6. UniqueKeys(a)
  <2> SUFFICES ASSUME NEW j \in 1..(Len(r) + 1), NEW k \in 1..(Len(r) + 1),
                      SameKey(a[j], a[k])
               PROVE  j = k
    BY <1>3 DEF UniqueKeys
  <2>1. CASE j \in 1..Len(r) /\ k \in 1..Len(r)
    BY <2>1, <1>1, <1>3 DEF UniqueKeys
  <2>2. CASE j = Len(r) + 1 /\ k \in 1..Len(r)
    BY <2>2, <1>3, <1>5
  <2>3. CASE j \in 1..Len(r) /\ k = Len(r) + 1
    BY <2>3, <1>3, <1>5
  <2> QED
    BY <2>1, <2>2, <2>3, <1>4
<1>7. ToSet(a) = ToSet(r) \cup {e}
  <2>1. ToSet(a) = { a[k] : k \in 1..(Len(r) + 1) }
    BY <1>4 DEF ToSet
  <2>2. ToSet(r) = { r[k] : k \in 1..Len(r) }
    BY <1>4 DEF ToSet
  <2>3. 1..(Len(r) + 1) = 1..Len(r) \cup {Len(r) + 1}
    BY <1>4
  <2> QED
    BY <2>1, <2>2, <2>3, <1>3
<1> QED
  BY <1>1, <1>2, <1>3, <1>4, <1>6, <1>7

(* AddInfo: the new service is the first, and the only one with its key.   *)
LEMMA AddInfoProperties ==
  ASSUME NEW l \in Seq(Entry), UniqueKeys(l), NEW e \in Entry
  PROVE  /\ AddInfo(l, e) \in Seq(Entry)
         /\ UniqueKeys(AddInfo(l, e))
         /\ ToSet(AddInfo(l, e)) = { f \in ToSet(l) : ~SameKey(f, e) } \cup {e}
         /\ Len(AddInfo(l, e)) \in 1..(Len(l) + 1)
<1> DEFINE r == ListRemove(l, e.device_name, e.service_name)
           a == <<e>> \o r
<1>1. /\ r \in Seq(Entry)
      /\ UniqueKeys(r)
      /\ ~Registered(r, e.device_name, e.service_name)
      /\ ToSet(r) = { f \in ToSet(l) : ~SameKey(f, e) }
      /\ Len(r) <= Len(l)
  BY ListRemoveProperties DEF SameKey
<1>2. AddInfo(l, e) = a
  BY DEF AddInfo
<1> HIDE DEF r
<1>3. /\ a \in Seq(Entry)
      /\ Len(a) = 1 + Len(r)
      /\ \A k \in 1..(1 + Len(r)) : a[k] = IF k <= 1 THEN <<e>>[k] ELSE r[k - 1]
  <2>1. <<e>> \in Seq(Entry) /\ Len(<<e>>) = 1
    OBVIOUS
  <2> QED
    BY <2>1, <1>1, ConcatProperties
<1> HIDE DEF a
<1>4. /\ Len(r) \in Nat /\ Len(l) \in Nat
      /\ DOMAIN r = 1..Len(r)
      /\ DOMAIN a = 1..(Len(r) + 1)
  BY <1>1, <1>3, LenProperties
<1>5. /\ a[1] = e
      /\ \A k \in 2..(Len(r) + 1) : k - 1 \in 1..Len(r) /\ a[k] = r[k - 1]
  BY <1>3, <1>4
<1>6. \A k \in 1..Len(r) : ~SameKey(r[k], e) /\ ~SameKey(e, r[k])
  BY <1>1 DEF Registered, SameKey, HasKey
<1>7. UniqueKeys(a)
  <2> SUFFICES ASSUME NEW j \in 1..(Len(r) + 1), NEW k \in 1..(Len(r) + 1),
                      SameKey(a[j], a[k])
               PROVE  j = k
    BY <1>3, <1>4 DEF UniqueKeys
  <2>1. CASE j \in 2..(Len(r) + 1) /\ k \in 2..(Len(r) + 1)
    <3>1. j - 1 = k - 1
      BY <2>1, <1>1, <1>5 DEF UniqueKeys
    <3> QED
      BY <3>1
  <2>2. CASE j = 1 /\ k \in 2..(Len(r) + 1)
    BY <2>2, <1>5, <1>6
  <2>3. CASE j \in 2..(Len(r) + 1) /\ k = 1
    BY <2>3, <1>5, <1>6
  <2> QED
    BY <2>1, <2>2, <2>3, <1>4
<1>8. ToSet(a) = ToSet(r) \cup {e}
  <2>1. ToSet(a) = { a[k] : k \in 1..(Len(r) + 1) }
    BY <1>4 DEF ToSet
  <2>2. ToSet(r) = { r[k] : k \in 1..Len(r) }
    BY <1>4 DEF ToSet
  <2>3. \A k \in 1..Len(r) : k + 1 \in 2..(Len(r) + 1) /\ a[k + 1] = r[k]
    BY <1>4, <1>5
  <2>4. 1..(Len(r) + 1) = {1} \cup 2..(Len(r) + 1)
    BY <1>4
  <2>5. ASSUME NEW f \in ToSet(a)
        PROVE  f \in ToSet(r) \cup {e}
    BY <2>1, <2>2, <2>4, <1>5
  <2>6. ASSUME NEW f \in ToSet(r) \cup {e}
        PROVE  f \in ToSet(a)
    BY <2>1, <2>2, <2>3, <2>4, <1>5
  <2> QED
    BY <2>5, <2>6
<1> QED
  BY <1>1, <1>2, <1>3, <1>4, <1>7, <1>8

(* list_get and ServiceInfoList.get return NULL or the service at the      *)
(* index, which then has the name asked for.                               *)
LEMMA ListGetProperties ==
  ASSUME NEW l \in Seq(Entry), NEW s, NEW i \in Nat
  PROVE  /\ ListGet(l, s, i) # NULL <=> i < Len(l) /\ l[i + 1].service_name = s
         /\ ListGet(l, s, i) # NULL =>
              /\ i + 1 \in 1..Len(l)
              /\ ListGet(l, s, i) = l[i + 1]
              /\ ListGet(l, s, i) \in Entry
<1>1. Len(l) \in Nat
  BY LenProperties
<1>2. i < Len(l) => l[i + 1] \in Entry /\ l[i + 1] # NULL
  <2>1. i < Len(l) => i + 1 \in 1..Len(l)
    BY <1>1
  <2> QED
    BY <2>1, ElementOfSeq, NullAssumption
<1> QED
  BY <1>1, <1>2 DEF ListGet

(* How many services have a name: none if none is there, and if the first  *)
(* that many have it, no other has.  When the services with the name lead  *)
(* the list, the first that many do have it.                               *)
LEMMA GetCountProperties ==
  ASSUME NEW l \in Seq(Entry), NEW s
  PROVE  /\ GetCount(l, s) \in 0..Len(l)
         /\ GetCount(l, s) = 0 <=> \A k \in 1..Len(l) : l[k].service_name # s
         /\ (\A k \in 1..GetCount(l, s) : l[k].service_name = s) =>
              \A k \in 1..Len(l) : l[k].service_name = s => k <= GetCount(l, s)
         /\ Leading(l, s) => \A k \in 1..GetCount(l, s) : l[k].service_name = s
<1> DEFINE M == { k \in 1..Len(l) : l[k].service_name = s }
           c == Cardinality(M)
<1>0. Len(l) \in Nat
  BY LenProperties
<1>1. \A n \in Nat : IsFiniteSet(1..n) /\ Cardinality(1..n) = n
  <2> TAKE n \in Nat
  <2>1. IsFiniteSet(1..n) /\ Cardinality(1..n) = IF 1 > n THEN 0 ELSE n - 1 + 1
    BY FS_Interval
  <2> QED
    BY <2>1
<1>2. IsFiniteSet(M) /\ c \in Nat /\ c <= Len(l)
  <2>1. M \subseteq 1..Len(l)
    OBVIOUS
  <2>2. IsFiniteSet(M) /\ Cardinality(M) <= Cardinality(1..Len(l))
    BY <1>0, <1>1, <2>1, FS_Subset
  <2>3. Cardinality(M) \in Nat
    BY <2>2, FS_CardinalityType
  <2> QED
    BY <1>0, <1>1, <2>2, <2>3
<1>3. c = 0 <=> M = {}
  BY <1>2, FS_EmptySet
<1>4. ASSUME \A k \in 1..c : l[k].service_name = s,
             NEW k \in 1..Len(l), l[k].service_name = s
      PROVE  k <= c
  <2>1. 1..c \subseteq M
    <3> SUFFICES ASSUME NEW j \in 1..c PROVE j \in M
      OBVIOUS
    <3>1. j \in 1..Len(l)
      BY <1>0, <1>2
    <3>2. l[j].service_name = s
      BY <1>4
    <3> QED
      BY <3>1, <3>2
  <2>2. Cardinality(1..c) = c
    BY <1>1, <1>2
  <2>3. 1..c = M
    BY <1>2, <2>1, <2>2, FS_Subset
  <2> QED
    BY <1>4, <2>3
<1>5. ASSUME Leading(l, s), NEW k \in 1..c
      PROVE  l[k].service_name = s
  <2> SUFFICES ASSUME l[k].service_name # s PROVE FALSE
    OBVIOUS
  <2>1. k \in 1..Len(l) /\ k \in Nat
    BY <1>0, <1>2
  <2>2. M \subseteq 1..(k - 1)
    <3> SUFFICES ASSUME NEW j \in M PROVE j < k
      BY <1>0, <2>1
    <3>1. ~(k < j)
      BY <1>5, <2>1 DEF Leading
    <3> QED
      BY <3>1, <1>0, <2>1
  <2>3. Cardinality(M) <= Cardinality(1..(k - 1))
    BY <1>1, <2>1, <2>2, FS_Subset
  <2> QED
    BY <1>1, <1>2, <2>1, <2>3
<1>6. GetCount(l, s) = c
  BY DEF GetCount
<1> HIDE DEF c
<1> QED
  BY <1>0, <1>2, <1>3, <1>4, <1>5, <1>6

(* When the services with the name asked for lead a list without duplicate *)
(* keys, they are those at the first GetCount positions, each of them once *)
LEMMA LeadingProperties ==
  ASSUME NEW l \in Seq(Entry), UniqueKeys(l), NEW s, Leading(l, s)
  PROVE  /\ GetCount(l, s) \in 0..Len(l) /\ Len(l) \in Nat
         /\ \A k \in 1..Len(l) : l[k].service_name = s <=> k <= GetCount(l, s)
         /\ Matching(l, s) = { l[k] : k \in 1..GetCount(l, s) }
         /\ Cardinality(Matching(l, s)) = GetCount(l, s)
         /\ Matching(l, s) = {} <=> GetCount(l, s) = 0
         /\ { InquiryResultPkt(e) : e \in Matching(l, s) }
              = { InquiryResultPkt(l[k]) : k \in 1..GetCount(l, s) }
<1> DEFINE c == GetCount(l, s)
           M == Matching(l, s)
           f == [k \in 1..c |-> l[k]]
<1>1. /\ c \in 0..Len(l) /\ Len(l) \in Nat /\ c \in Nat
      /\ \A k \in 1..c : k \in 1..Len(l)
  BY GetCountProperties, LenProperties
<1>2. \A k \in 1..c : l[k].service_name = s
  BY GetCountProperties
<1>3. \A k \in 1..Len(l) : l[k].service_name = s => k <= c
  BY <1>2, GetCountProperties
<1> HIDE DEF c
<1>4. \A k \in 1..Len(l) : l[k].service_name = s <=> k \in 1..c
  BY <1>1, <1>2, <1>3
<1>5. M = { l[k] : k \in 1..c }
  <2>1. ToSet(l) = { l[k] : k \in 1..Len(l) }
    BY LenProperties DEF ToSet
  <2>2. \A e : e \in M <=> \E k \in 1..Len(l) : e = l[k] /\ e.service_name = s
    BY <2>1 DEF Matching
  <2> QED
    BY <1>1, <1>4, <2>2
<1> HIDE DEF M
<1>6. f \in Bijection(1..c, M)
  <2>1. \A j, k \in 1..c : l[j] = l[k] => j = k
    BY <1>1 DEF UniqueKeys, SameKey, HasKey
  <2>2. f \in [1..c -> M] /\ \A j, k \in 1..c : f[j] = f[k] => j = k
    BY <1>5, <2>1
  <2>3. \A e \in M : \E k \in 1..c : f[k] = e
    BY <1>5
  <2> QED
    BY <2>2, <2>3 DEF Bijection, Injection, Surjection, IsInjective
<1>7. Cardinality(M) = c
  <2>1. IsFiniteSet(1..c) /\ Cardinality(1..c) = IF 1 > c THEN 0 ELSE c - 1 + 1
    BY <1>1, FS_Interval
  <2>2. ExistsBijection(1..c, M)
    BY <1>6 DEF ExistsBijection
  <2>3. Cardinality(M) = Cardinality(1..c)
    BY <2>1, <2>2, FS_Bijection
  <2> QED
    BY <1>1, <2>1, <2>3
<1>8. M = {} <=> c = 0
  <2>1. CASE c = 0
    <3>1. 1..c = {}
      BY <2>1
    <3> QED
      BY <1>5, <2>1, <3>1
  <2>2. CASE c # 0
    <3>1. 1 \in 1..c
      BY <1>1, <2>2
    <3>2. l[1] \in M
      BY <1>5, <3>1
    <3> QED
      BY <2>2, <3>2
  <2> QED
    BY <2>1, <2>2
<1>9. { InquiryResultPkt(e) : e \in M } = { InquiryResultPkt(l[k]) : k \in 1..c }
  BY <1>5
<1>10. \A k \in 1..Len(l) : l[k].service_name = s <=> k <= c
  BY <1>1, <1>4
<1> QED
  BY <1>1, <1>5, <1>7, <1>8, <1>9, <1>10 DEF c, M

(* The slice GetAll fills.                                                 *)
LEMMA GetAllProperties ==
  ASSUME NEW l \in Seq(Entry), NEW s
  PROVE  /\ GetAll(l, s) \in Seq(Entry \cup {NULL})
         /\ Len(GetAll(l, s)) = GetCount(l, s)
         /\ \A k \in 1..GetCount(l, s) :
              /\ k \in 1..Len(l)
              /\ GetAll(l, s)[k] = ListGet(l, s, k - 1)
              /\ GetAll(l, s)[k] # NULL <=> l[k].service_name = s
              /\ GetAll(l, s)[k] # NULL => GetAll(l, s)[k] = l[k]
<1> DEFINE c == GetCount(l, s)
           g == GetAll(l, s)
<1>1. c \in 0..Len(l) /\ Len(l) \in Nat
  BY GetCountProperties, LenProperties
<1>2. g = [k \in 1..c |-> ListGet(l, s, k - 1)]
  BY DEF GetAll
<1>3. \A k \in 1..c : /\ k \in 1..Len(l) /\ k - 1 \in Nat /\ k - 1 < Len(l)
                      /\ (k - 1) + 1 = k
                      /\ l[k] \in Entry
  BY <1>1, ElementOfSeq
<1>4. \A k \in 1..c : /\ ListGet(l, s, k - 1) \in Entry \cup {NULL}
                      /\ ListGet(l, s, k - 1) # NULL <=> l[k].service_name = s
                      /\ ListGet(l, s, k - 1) # NULL => ListGet(l, s, k - 1) = l[k]
  BY <1>3, ListGetProperties
<1> HIDE DEF c, g
<1>5. g \in Seq(Entry \cup {NULL}) /\ Len(g) = c
  <2>1. c \in Nat
    BY <1>1
  <2>2. g \in [1..c -> Entry \cup {NULL}]
    BY <1>2, <1>4
  <2>3. g \in Seq(Entry \cup {NULL})
    BY <2>1, <2>2, SeqDef
  <2>4. DOMAIN g = 1..c /\ DOMAIN g = 1..Len(g) /\ Len(g) \in Nat
    BY <2>2, <2>3, LenProperties
  <2> QED
    BY <2>1, <2>3, <2>4
<1>6. \A k \in 1..c : g[k] = ListGet(l, s, k - 1)
  BY <1>2
<1> QED
  BY <1>3, <1>4, <1>5, <1>6 DEF c, g

-----------------------------------------------------------------------------
(* What a request holds, by its action.                                    *)
LEMMA RequestFields ==
  ASSUME NEW r \in Request
  PROVE  /\ r # NULL
         /\ r.action \in {"register", "unregister", "inquiry"}
         /\ r.action = "register" => r.info \in Entry
         /\ r.action = "unregister" => r.device_name \in Device /\ r.service_name \in Service
         /\ r.action = "inquiry" => r.service_name \in Service
BY NullAssumption DEF Request, RegisterPkt, UnregisterPkt, InquiryPkt

(* The replies a daemon sends are replies.                                 *)
LEMMA RepliesAreReplies ==
  /\ \A succ : ResultPkt(succ) \in Reply /\ <<ResultPkt(succ)>> \in Seq(Reply)
  /\ \A e \in Entry : InquiryResultPkt(e) \in Reply
  /\ ResultPkt(TRUE) \in Reply /\ <<ResultPkt(TRUE)>> \in Seq(Reply)
  /\ ResultPkt(FALSE) \in Reply /\ <<ResultPkt(FALSE)>> \in Seq(Reply)
  /\ <<>> \in Seq(Reply)
<1>1. ASSUME NEW succ
      PROVE  ResultPkt(succ) \in Reply
  BY DEF ResultPkt, Reply
<1>2. \A e \in Entry : InquiryResultPkt(e) \in Reply
  BY DEF InquiryResultPkt, Reply
<1>3. \A r \in Reply : <<r>> \in Seq(Reply)
  OBVIOUS
<1>4. <<>> \in Seq(Reply)
  OBVIOUS
<1> QED
  BY <1>1, <1>2, <1>3, <1>4

(* A single reply.                                                         *)
LEMMA SingleReply == \A r : Len(<<r>>) = 1 /\ ToSet(<<r>>) = {r}
<1> TAKE r
<1>1. Len(<<r>>) = 1 /\ DOMAIN <<r>> = {1} /\ <<r>>[1] = r
  OBVIOUS
<1>2. ToSet(<<r>>) = { <<r>>[k] : k \in DOMAIN <<r>> }
  BY DEF ToSet
<1> QED
  BY <1>1, <1>2

(* An inquiry that goes on sends a service it has not sent: the reply for  *)
(* position i + 1 is none of those for positions 1 to i.                   *)
LEMMA NextAnswerIsNew ==
  ASSUME NEW l \in Seq(Entry), UniqueKeys(l), NEW n \in Nat, n + 1 \in 1..Len(l),
         NEW k \in 1..n
  PROVE  InquiryResultPkt(l[k]) # InquiryResultPkt(l[n + 1])
<1>1. Len(l) \in Nat /\ k \in 1..Len(l) /\ k # n + 1
  BY LenProperties
<1>2. l[k] # l[n + 1]
  BY <1>1 DEF UniqueKeys, SameKey, HasKey
<1> QED
  BY <1>2 DEF InquiryResultPkt
=============================================================================
