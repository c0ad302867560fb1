--------------------------- MODULE JavaClientProofs ---------------------------
(***************************************************************************)
(* What the Android client keeps whatever its threads do to each other's   *)
(* packets, and what it keeps only if clicks come apart: for every number  *)
(* of clicks and of addresses.  Then the types.                            *)
(***************************************************************************)
EXTENDS JavaClient, ServiceListProofs, WellFoundedInduction

(* From here on the scan of a click has been made, and started.            *)
Started == {"lower", "assign", "receive", "blocked", "decode", "remove", "add",
            "notice", "join"}

Made == Started \cup {"run"}

(* The types the proof looks at.                                           *)
PlacesOK ==
  /\ pc \in [Click -> {"off", "set", "clear", "start", "make", "done"} \cup Made]
  /\ scan \in [Click -> {"off", "made", "reset", "check", "prepare", "assign",
                         "send", "dead"}]
  /\ DOMAIN awaited = Click

Busy(c) == pc[c] \notin {"off", "done"}

(* One click at a time is past the test, and runSearchFinish is lowered    *)
(* while it searches.                                                      *)
FlagGuards ==
  /\ \A c, d \in Click : Busy(c) /\ Busy(d) => c = d
  /\ \A c \in Click : Searching(c) => ~runSearchFinish

(* The thread that a search starts and joins is the one it has made.       *)
OwnThread ==
  \A c \in Click :
    /\ scan[c] \notin {"off", "dead"} => Searching(c)
    /\ pc[c] \in Made => thread = c
    /\ pc[c] \in Started => scan[c] # "made"
    /\ pc[c] = "join" => awaited[c] = c

(* OneSearchAtATime is not inductive: it takes the flag to keep the next   *)
(* click out, and the join of its own thread to end a search.              *)
ApartInv == PlacesOK /\ (apart => FlagGuards /\ OwnThread)

(* No search has begun.                                                    *)
LEMMA InitApartInv == Init => ApartInv
BY DEF Init, ApartInv, PlacesOK, FlagGuards, OwnThread, Busy, Searching, Made, Started

(* A step that leaves the flag, the threads and the place of every search  *)
(* as they are.                                                            *)
LEMMA SamePlaces ==
  ASSUME ApartInv, UNCHANGED <<pc, scan, awaited, thread, runSearchFinish, apart>>
  PROVE  ApartInv'
BY DEF ApartInv, PlacesOK, FlagGuards, OwnThread, Busy, Searching

(* A search goes on behind the start of its thread.                        *)
LEMMA GoesOn ==
  ASSUME ApartInv, NEW c \in Click, pc[c] \in Started, pc[c] # "join",
         NEW there \in Started \ {"join"}, Goto(c, there),
         UNCHANGED <<scan, awaited, thread, runSearchFinish, apart>>
  PROVE  ApartInv'
BY DEF ApartInv, PlacesOK, FlagGuards, OwnThread, Busy, Searching, Goto, Made, Started

(* A scan goes on, or ends.                                                *)
LEMMA ScanGoesOn ==
  ASSUME ApartInv, NEW c \in Click, scan[c] \notin {"off", "dead", "made"},
         NEW there \in {"check", "prepare", "assign", "send", "dead"},
         ScanGoto(c, there),
         UNCHANGED <<pc, awaited, thread, runSearchFinish, apart>>
  PROVE  ApartInv'
BY DEF ApartInv, PlacesOK, FlagGuards, OwnThread, Busy, Searching, ScanGoto, Made,
   Started

(* No step breaks it.                                                      *)
LEMMA StepApartInv == ApartInv /\ [Next]_vars => ApartInv'
<1> SUFFICES ASSUME ApartInv, [Next]_vars PROVE ApartInv'
  OBVIOUS
<1> USE DEF mainVars, listVars, scanVars, packetVars, netVars, environment
<1>0. ASSUME Crash PROVE ApartInv'
  BY <1>0, SamePlaces DEF Crash
<1>1. ASSUME NEW c \in Click, Test(c) PROVE ApartInv'
  <2>1. /\ UNCHANGED <<scan, awaited, thread, runSearchFinish, apart>>
        /\ pc[c] = "off"
        /\ apart => \A d \in Click : pc[d] # "set"
        /\ Goto(c, IF runSearchFinish THEN "set" ELSE "done")
    BY <1>1 DEF Test, At
  <2> QED
    BY <2>1 DEF ApartInv, PlacesOK, FlagGuards, OwnThread, Busy, Searching, Goto,
       Made, Started
<1>2. ASSUME NEW c \in Click, RunSearch(c) PROVE ApartInv'
  <2>1. CASE Set(c)
    <3>1. /\ UNCHANGED <<scan, awaited, thread, apart>> /\ runSearchFinish' = FALSE
          /\ pc[c] = "set" /\ Goto(c, IF client = "inquiry" THEN "clear" ELSE "start")
      BY <2>1 DEF Set, At
    <3> QED
      BY <3>1 DEF ApartInv, PlacesOK, FlagGuards, OwnThread, Busy, Searching, Goto,
         Made, Started
  <2>2. CASE Clear(c) \/ SetData(c)
    <3>1. CASE Crash
      BY <1>0, <3>1
    <3>2. CASE ~Crash
      <4>1. /\ UNCHANGED <<scan, awaited, thread, runSearchFinish, apart>>
            /\ \/ pc[c] = "clear" /\ Goto(c, "start")
               \/ pc[c] = "start" /\ Goto(c, "make")
        BY <2>2, <3>2 DEF Clear, SetData, At
      <4> QED
        BY <4>1 DEF ApartInv, PlacesOK, FlagGuards, OwnThread, Busy, Searching, Goto,
           Made, Started
    <3> QED
      BY <3>1, <3>2
  <2>3. CASE MakeThread(c)
    <3>1. /\ UNCHANGED <<awaited, runSearchFinish, apart>> /\ thread' = c
          /\ scan' = [scan EXCEPT ![c] = "made"]
          /\ pc[c] = "make" /\ Goto(c, "run")
      BY <2>3 DEF MakeThread, At
    <3> QED
      BY <3>1 DEF ApartInv, PlacesOK, FlagGuards, OwnThread, Busy, Searching, Goto,
         Made, Started
  <2>4. CASE StartThread(c)
    <3>1. CASE Crash
      BY <1>0, <3>1
    <3>2. CASE ~Crash
      <4>1. /\ UNCHANGED <<awaited, thread, runSearchFinish, apart>>
            /\ scan' = [scan EXCEPT ![thread] = "reset"]
            /\ pc[c] = "run" /\ Goto(c, "lower")
        BY <2>4, <3>2 DEF StartThread, At
      <4> QED
        BY <4>1, ZenonT(30)
           DEF ApartInv, PlacesOK, FlagGuards, OwnThread, Busy, Searching, Goto, Made,
               Started
    <3> QED
      BY <3>1, <3>2
  <2>5. CASE Lower(c) \/ Assign(c) \/ Block(c) \/ ReceiveReply(c) \/ Decode(c)
               \/ RemoveSame(c) \/ AddLast(c) \/ Timeout(c)
    <3>1. CASE Crash
      BY <1>0, <3>1
    <3>2. CASE ~Crash
      <4>1. /\ UNCHANGED <<scan, awaited, thread, runSearchFinish, apart>>
            /\ pc[c] \in Started /\ pc[c] # "join"
            /\ \E there \in Started \ {"join"} : Goto(c, there)
        BY <2>5, <3>2 DEF Lower, Assign, Block, ReceiveReply, Decode, RemoveSame,
           AddLast, Timeout, At, Started
      <4> QED
        BY <4>1, GoesOn
    <3> QED
      BY <3>1, <3>2
  <2>6. CASE Notice(c)
    <3>1. CASE Crash
      BY <1>0, <3>1
    <3>2. CASE ~Crash
      <4>1. /\ UNCHANGED <<scan, thread, runSearchFinish, apart>>
            /\ awaited' = [awaited EXCEPT ![c] = thread]
            /\ pc[c] = "notice" /\ Goto(c, "join")
        BY <2>6, <3>2 DEF Notice, At
      <4> QED
        BY <4>1 DEF ApartInv, PlacesOK, FlagGuards, OwnThread, Busy, Searching, Goto,
           Made, Started
    <3> QED
      BY <3>1, <3>2
  <2>7. CASE Join(c)
    <3>1. /\ UNCHANGED <<scan, thread, apart>> /\ runSearchFinish' = TRUE
          /\ awaited' = [awaited EXCEPT ![c] = NULL]
          /\ pc[c] = "join" /\ Goto(c, "done")
          /\ scan[awaited[c]] \in {"made", "dead"}
      BY <2>7 DEF Join, At
    <3> QED
      BY <3>1 DEF ApartInv, PlacesOK, FlagGuards, OwnThread, Busy, Searching, Goto,
         Made, Started
  <2> QED
    BY <1>2, <2>1, <2>2, <2>3, <2>4, <2>5, <2>6, <2>7 DEF RunSearch
<1>3. ASSUME NEW c \in Click, Scan(c) PROVE ApartInv'
  <2>1. CASE Crash
    BY <1>0, <2>1
  <2>2. CASE ~Crash
    <3>1. /\ UNCHANGED <<pc, awaited, thread, runSearchFinish, apart>>
          /\ scan[c] \notin {"off", "dead", "made"}
          /\ \E there \in {"check", "prepare", "assign", "send", "dead"} :
               ScanGoto(c, there)
      BY <1>3, <2>2 DEF Scan, ScanReset, ScanCheck, ScanPrepare, ScanAssign, ScanSend,
         ScanAt
    <3> QED
      BY <3>1, ScanGoesOn
  <2> QED
    BY <2>1, <2>2
<1>4. ASSUME DaemonAnswers \/ Over \/ UNCHANGED vars PROVE ApartInv'
  BY <1>4, SamePlaces DEF DaemonAnswers, Over, vars
<1> QED
  BY <1>1, <1>2, <1>3, <1>4 DEF Next

(* If clicks come apart, runSearchFinish of InquiryClient and the join of  *)
(* the scan keep searches apart, so its fields belong to one at a time.    *)
THEOREM SearchesStayApart == Spec => []OneSearchAtATime
<1>1. ApartInv => OneSearchAtATime
  BY DEF ApartInv, FlagGuards, OwnThread, OneSearchAtATime, Busy, Searching
<1> QED
  BY <1>1, InitApartInv, StepApartInv, PTL DEF Spec
-----------------------------------------------------------------------------
(* A reply that tells the truth: of an inquiry, or of a registration.      *)
TrueReply(r) ==
  r.action = "succ" => held # {} /\ (client = "inquiry" => r.info \in held)

(* A service about to be added is held, and if clicks come apart, the      *)
(* links are whole and the list has no service with its key by then.       *)
AdditionOK ==
  /\ \A c \in Click : pc[c] \in {"remove", "add"} => info[c] \in held
  /\ apart =>
       /\ ~torn
       /\ \A c \in Click : pc[c] = "add" =>
            ~Registered(list, info[c].device_name, info[c].service_name)

(* ListIsTrue is not inductive: that a reply still on its way, or in a     *)
(* buffer, is true must be kept, that services never go, and what add()    *)
(* relies on between its two steps.                                        *)
ListInv ==
  /\ list \in Seq(Entry)
  /\ held \subseteq Entry
  /\ client = "register" => held \subseteq {RegInfo}
  /\ DOMAIN buffer = Click /\ DOMAIN info = Click
  /\ \A r \in replies : TrueReply(r)
  /\ \A c \in Click : buffer[c] # NULL => TrueReply(buffer[c])
  /\ AdditionOK
  /\ ListIsTrue

(* What is registered is a service.                                        *)
LEMMA RegInfoIsEntry == RegInfo \in Entry
BY JavaClientAssumption DEF RegInfo

(* Nothing has been read yet.                                              *)
LEMMA InitListInv == Init => ListInv
<1> SUFFICES ASSUME Init PROVE ListInv
  OBVIOUS
<1>1. /\ list = <<>> /\ ~inquirySucc /\ ~torn
  BY Zenon DEF Init
<1>2. list \in Seq(Entry) /\ UniqueKeys(list) /\ ToSet(list) = {}
  BY <1>1 DEF UniqueKeys, ToSet
<1>3. held \subseteq Entry /\ (client = "register" => held = {})
  BY RegInfoIsEntry DEF Init
<1>4. /\ DOMAIN buffer = Click /\ DOMAIN info = Click
      /\ (\A c \in Click : buffer[c] = NULL /\ pc[c] = "off") /\ replies = {}
  BY DEF Init
<1> QED
  BY <1>1, <1>2, <1>3, <1>4 DEF ListInv, ListIsTrue, AdditionOK

(* The faulty clear leaves the last service of two.                        *)
LEMMA ClearProperties ==
  ASSUME NEW l \in Seq(Entry), Len(l) = 2
  PROVE  /\ Tail(l) \in Seq(Entry) /\ UniqueKeys(Tail(l))
         /\ ToSet(Tail(l)) \subseteq ToSet(l)
<1> DEFINE t == Tail(l)
<1>1. l # <<>>
  OBVIOUS
<1>2. /\ t \in Seq(Entry) /\ Len(t) = Len(l) - 1
      /\ \A i \in 1..Len(t) : t[i] = l[i + 1]
  BY <1>1, HeadTailProperties, Zenon
<1> HIDE DEF t
<1>3. Len(t) = 1 /\ t[1] = l[2]
  BY <1>2
<1>4. DOMAIN t = 1..1 /\ DOMAIN l = 1..2
  BY <1>2, <1>3, LenProperties
<1>5. UniqueKeys(t)
  BY <1>3 DEF UniqueKeys
<1>6. ToSet(t) \subseteq ToSet(l)
  BY <1>3, <1>4 DEF ToSet
<1> QED
  BY <1>2, <1>5, <1>6 DEF t

(* A walk that looks for a key there is stops at a service of the list,    *)
(* also if there are several with the key.                                 *)
LEMMA PositionIsInList ==
  ASSUME NEW l \in Seq(Entry), NEW d, NEW s, Registered(l, d, s)
  PROVE  PositionOf(l, d, s) \in 1..Len(l)
<1> DEFINE T == { i \in 1..Len(l) : HasKey(l[i], d, s) }
<1>1. Len(l) \in Nat /\ T \subseteq Nat /\ T # {}
  BY LenProperties DEF Registered
<1>2. PICK i \in T : \A j \in T : ~(<<j, i>> \in OpToRel(<,Nat))
  BY <1>1, NatLessThanWellFounded, WFMin
<1>3. \A x, y \in Nat : x < y => <<x, y>> \in OpToRel(<,Nat)
  BY DEF OpToRel
<1>4. \A j \in T : ~(j < i)
  BY <1>1, <1>2, <1>3
<1>5. \A j \in 1..(i - 1) : j \in 1..Len(l) /\ j < i
  BY <1>1
<1>6. \A j \in 1..(i - 1) : ~HasKey(l[j], d, s)
  BY <1>4, <1>5
<1> QED
  BY <1>6 DEF PositionOf

(* remove() makes no services.                                             *)
LEMMA RemoveMakesNone ==
  ASSUME NEW l \in Seq(Entry), NEW d, NEW s
  PROVE  /\ ListRemove(l, d, s) \in Seq(Entry)
         /\ ToSet(ListRemove(l, d, s)) \subseteq ToSet(l)
<1> DEFINE r == ListRemove(l, d, s)
           p == PositionOf(l, d, s)
<1>1. CASE ~Registered(l, d, s)
  BY <1>1 DEF ListRemove
<1>2. CASE Registered(l, d, s)
  <2>1. p \in 1..Len(l) /\ r = RemoveAt(l, p)
    BY <1>2, PositionIsInList DEF ListRemove
  <2> HIDE DEF p, r
  <2>2. /\ r \in Seq(Entry) /\ Len(r) = Len(l) - 1
        /\ \A k \in 1..(Len(l) - 1) : r[k] = IF k < p THEN l[k] ELSE l[k + 1]
    BY <2>1, RemoveAtProperties
  <2>3. Len(l) \in Nat /\ DOMAIN l = 1..Len(l) /\ DOMAIN r = 1..(Len(l) - 1)
    BY <2>2, LenProperties
  <2>4. \A k \in 1..(Len(l) - 1) : \E j \in 1..Len(l) : r[k] = l[j]
    BY <2>2, <2>3
  <2>5. ToSet(r) \subseteq ToSet(l)
    BY <2>3, <2>4 DEF ToSet
  <2> QED
    BY <2>2, <2>5 DEF r
<1> QED
  BY <1>1, <1>2

(* list.add() makes one, and repeats no key that is not there.             *)
LEMMA AppendAdds ==
  ASSUME NEW l \in Seq(Entry), NEW e \in Entry
  PROVE  /\ Append(l, e) \in Seq(Entry)
         /\ ToSet(Append(l, e)) = ToSet(l) \cup {e}
         /\ UniqueKeys(l) /\ ~Registered(l, e.device_name, e.service_name)
              => UniqueKeys(Append(l, e))
<1> DEFINE a == Append(l, e)
           n == Len(l)
<1>1. /\ a \in Seq(Entry) /\ Len(a) = n + 1 /\ a[n + 1] = e
      /\ \A k \in 1..n : a[k] = l[k]
  BY AppendProperties
<1>2. n \in Nat /\ DOMAIN l = 1..n /\ DOMAIN a = 1..(n + 1)
  BY <1>1, LenProperties
<1> HIDE DEF a, n
<1>3. 1..(n + 1) = 1..n \cup {n + 1}
  BY <1>2
<1>4. ToSet(a) = ToSet(l) \cup {e}
  BY <1>1, <1>2, <1>3 DEF ToSet
<1>5. ASSUME UniqueKeys(l), ~Registered(l, e.device_name, e.service_name)
      PROVE  UniqueKeys(a)
  <2>1. ListAdd(l, e) = a
    BY <1>5 DEF ListAdd, ListRemove, a
  <2> QED
    BY <1>5, <2>1, ListAddProperties
<1> QED
  BY <1>1, <1>4, <1>5 DEF a

(* A change that another thread disturbs leaves services of the list.      *)
LEMMA ChangeMakesNone ==
  ASSUME NEW c, NEW l \in Seq(Entry), Change(c, l)
  PROVE  /\ list' \in Seq(Entry) /\ ToSet(list') \subseteq ToSet(l)
         /\ ~Disturbed(c) => list' = l /\ torn' = torn
<1>1. CASE list' = l /\ torn' = torn
  BY <1>1
<1>2. CASE Disturbed(c) /\ list' \in SeqOf(ToSet(l), Len(l))
  <2>1. ToSet(l) \subseteq Entry /\ Len(l) \in Nat
    BY LenProperties, ElementOfSeq DEF ToSet
  <2>2. PICK m \in 0..Len(l) : list' \in [1..m -> ToSet(l)]
    BY <1>2 DEF SeqOf
  <2>3. m \in Nat /\ DOMAIN list' = 1..m
    BY <2>1, <2>2
  <2>4. list' \in Seq(Entry)
    BY <2>1, <2>2, <2>3
  <2>5. ToSet(list') \subseteq ToSet(l)
    BY <2>2, <2>3 DEF ToSet
  <2> QED
    BY <1>2, <2>4, <2>5
<1> QED
  BY <1>1, <1>2 DEF Change

(* If clicks come apart, a thread has the list to itself.                  *)
LEMMA AloneInList ==
  ASSUME ApartInv, ListInv, apart, NEW c \in Click, InList(c)
  PROVE  /\ ~Disturbed(c)
         /\ \A d \in Click \ {c} : pc[d] # "add"
<1>1. \A d \in Click : Busy(d) => d = c
  BY DEF ApartInv, FlagGuards, InList, Busy
<1> QED
  BY <1>1 DEF Disturbed, InList, Busy, ListInv, AdditionOK

(* A step after which the list is as it was, and what is told is true, and *)
(* no thread has set out to add.                                           *)
LEMMA SameList ==
  ASSUME ListInv, UNCHANGED <<list, torn, info, inquirySucc, client, apart, held>>,
         replies' \subseteq replies, DOMAIN buffer' = Click,
         \A c \in Click : buffer'[c] \in {NULL, buffer[c]} \cup replies,
         \A c \in Click : pc'[c] \in {"remove", "add"} => pc'[c] = pc[c]
  PROVE  ListInv'
<1>1. ListIsTrue'
  BY DEF ListInv, ListIsTrue
<1>2. AdditionOK'
  BY DEF ListInv, AdditionOK
<1> QED
  BY <1>1, <1>2 DEF ListInv, TrueReply

(* A step on the list of a thread that has it to itself if clicks come     *)
(* apart.                                                                  *)
LEMMA OtherList ==
  ASSUME ListInv, UNCHANGED <<inquirySucc, client, apart, held, replies, buffer>>,
         DOMAIN info' = Click,
         list' \in Seq(Entry), ToSet(list') \subseteq held,
         apart => UniqueKeys(list'), AdditionOK'
  PROVE  ListInv'
<1>1. ListIsTrue'
  BY DEF ListInv, ListIsTrue
<1> QED
  BY <1>1 DEF ListInv, TrueReply

(* No step breaks it.                                                      *)
LEMMA StepListInv == ListInv /\ ApartInv /\ [Next]_vars => ListInv'
<1> SUFFICES ASSUME ListInv, ApartInv, [Next]_vars PROVE ListInv'
  OBVIOUS
<1> USE DEF mainVars, listVars, scanVars, packetVars, netVars, environment
<1>0. /\ list \in Seq(Entry) /\ held \subseteq Entry /\ ToSet(list) \subseteq held
      /\ apart => UniqueKeys(list)
      /\ AdditionOK /\ DOMAIN pc = Click /\ DOMAIN info = Click /\ DOMAIN buffer = Click
  BY DEF ListInv, ListIsTrue, ApartInv, PlacesOK
<1>1. ASSUME Crash PROVE ListInv'
  BY <1>1, SameList DEF Crash, ListInv
<1>2. ASSUME NEW c \in Click, Clear(c) PROVE ListInv'
  <2> DEFINE l == IF Len(list) = 2 THEN Tail(list) ELSE <<>>
  <2>1. CASE Crash
    BY <1>1, <2>1
  <2>2. CASE ~Crash
    <3>1. /\ UNCHANGED <<inquirySucc, client, apart, held, replies, buffer, info>>
          /\ pc[c] = "clear" /\ Goto(c, "start") /\ Change(c, l)
      BY <1>2, <2>2 DEF Clear, At
    <3>2. l \in Seq(Entry) /\ UniqueKeys(l) /\ ToSet(l) \subseteq ToSet(list)
      <4>1. CASE Len(list) = 2
        BY <1>0, <4>1, ClearProperties
      <4>2. CASE Len(list) # 2
        BY <4>2 DEF UniqueKeys, ToSet
      <4> QED
        BY <4>1, <4>2
    <3> HIDE DEF l
    <3>3. list' \in Seq(Entry) /\ ToSet(list') \subseteq held
      BY <1>0, <3>1, <3>2, ChangeMakesNone
    <3>4. ASSUME apart PROVE /\ list' = l /\ torn' = torn
                            /\ \A d \in Click : pc[d] # "add"
      BY <3>1, <3>2, <3>4, AloneInList, ChangeMakesNone DEF InList
    <3>5. AdditionOK'
      BY <1>0, <3>1, <3>4 DEF AdditionOK, Goto
    <3> QED
      BY <1>0, <3>1, <3>2, <3>3, <3>4, <3>5, OtherList
  <2> QED
    BY <2>1, <2>2
<1>3. ASSUME NEW c \in Click, RemoveSame(c) PROVE ListInv'
  <2> DEFINE l == ListRemove(list, info[c].device_name, info[c].service_name)
  <2>1. CASE Crash
    BY <1>1, <2>1
  <2>2. CASE ~Crash
    <3>1. /\ UNCHANGED <<inquirySucc, client, apart, held, replies, buffer, info>>
          /\ pc[c] = "remove" /\ Goto(c, "add") /\ Change(c, l)
      BY <1>3, <2>2 DEF RemoveSame, At
    <3>2. l \in Seq(Entry) /\ ToSet(l) \subseteq ToSet(list)
      BY <1>0, RemoveMakesNone
    <3>3. apart => /\ UniqueKeys(l)
                   /\ ~Registered(l, info[c].device_name, info[c].service_name)
      BY <1>0, ListRemoveProperties
    <3> HIDE DEF l
    <3>4. list' \in Seq(Entry) /\ ToSet(list') \subseteq held
      BY <1>0, <3>1, <3>2, ChangeMakesNone
    <3>5. ASSUME apart PROVE /\ list' = l /\ torn' = torn
                            /\ \A d \in Click \ {c} : pc[d] # "add"
      BY <3>1, <3>2, <3>5, AloneInList, ChangeMakesNone DEF InList
    <3>6. AdditionOK'
      BY <1>0, <3>1, <3>3, <3>5 DEF AdditionOK, Goto
    <3> QED
      BY <1>0, <3>1, <3>3, <3>4, <3>5, <3>6, OtherList
  <2> QED
    BY <2>1, <2>2
<1>4. ASSUME NEW c \in Click, AddLast(c) PROVE ListInv'
  <2> DEFINE l == Append(list, info[c])
  <2>1. CASE Crash
    BY <1>1, <2>1
  <2>2. CASE ~Crash
    <3>1. /\ UNCHANGED <<inquirySucc, client, apart, held, replies, buffer>>
          /\ pc[c] = "add" /\ Goto(c, "assign") /\ Change(c, l)
          /\ info' = [info EXCEPT ![c] = NULL]
      BY <1>4, <2>2 DEF AddLast, At
    <3>2. info[c] \in held /\ info[c] \in Entry
      BY <1>0, <3>1 DEF AdditionOK
    <3>3. /\ l \in Seq(Entry) /\ ToSet(l) = ToSet(list) \cup {info[c]}
          /\ apart => UniqueKeys(l)
      BY <1>0, <3>1, <3>2, AppendAdds DEF AdditionOK
    <3> HIDE DEF l
    <3>4. list' \in Seq(Entry) /\ ToSet(list') \subseteq held
      BY <1>0, <3>1, <3>2, <3>3, ChangeMakesNone
    <3>5. ASSUME apart PROVE /\ list' = l /\ torn' = torn
                            /\ \A d \in Click \ {c} : pc[d] # "add"
      BY <3>1, <3>3, <3>5, AloneInList, ChangeMakesNone DEF InList
    <3>6. AdditionOK'
      BY <1>0, <3>1, <3>5 DEF AdditionOK, Goto
    <3> QED
      BY <1>0, <3>1, <3>3, <3>4, <3>5, <3>6, OtherList
  <2> QED
    BY <2>1, <2>2
<1>5. ASSUME NEW c \in Click, ReceiveReply(c) PROVE ListInv'
  <2>1. PICK r \in replies :
          /\ replies' = replies \ {r}
          /\ buffer' = [buffer EXCEPT ![into[c].by] = r] \/ buffer' = buffer
    BY <1>5 DEF ReceiveReply
  <2>2. /\ UNCHANGED <<list, torn, info, inquirySucc, client, apart, held>>
        /\ Goto(c, "decode")
    BY <1>5 DEF ReceiveReply
  <2>3. \A d \in Click : pc'[d] \in {"remove", "add"} => pc'[d] = pc[d]
    BY <1>0, <2>2 DEF Goto
  <2> QED
    BY <1>0, <2>1, <2>2, <2>3, SameList
<1>6. ASSUME NEW c \in Click, Decode(c) PROVE ListInv'
  <2>1. UNCHANGED <<list, torn, client, apart, held, replies, buffer>>
    BY <1>6 DEF Decode
  <2>2. buffer[c] # NULL => TrueReply(buffer[c])
    BY DEF ListInv
  <2>3. inquirySucc' => held # {}
    BY <1>6, <2>2 DEF Decode, TrueReply, ListInv, ListIsTrue
  <2>4. AdditionOK' /\ DOMAIN info' = Click
    <3>1. CASE client = "inquiry" /\ buffer[c] # NULL /\ buffer[c].action = "succ"
      <4>1. info' = [info EXCEPT ![c] = buffer[c].info] /\ Goto(c, "remove")
        BY <1>6, <3>1 DEF Decode
      <4>2. buffer[c].info \in held
        BY <2>2, <3>1 DEF TrueReply
      <4>3. pc[c] = "decode"
        BY <1>6 DEF Decode, At
      <4> QED
        BY <1>0, <2>1, <4>1, <4>2, <4>3 DEF AdditionOK, Goto
    <3>2. CASE ~(client = "inquiry" /\ buffer[c] # NULL /\ buffer[c].action = "succ")
      <4>1. info' = info /\ Goto(c, "assign")
        BY <1>6, <3>2 DEF Decode
      <4> QED
        BY <1>0, <2>1, <4>1 DEF AdditionOK, Goto
    <3> QED
      BY <3>1, <3>2
  <2>5. ListIsTrue'
    BY <2>1, <2>3 DEF ListInv, ListIsTrue
  <2> QED
    BY <2>1, <2>4, <2>5 DEF ListInv, TrueReply
<1>7. ASSUME NEW c \in Click,
             Test(c) \/ Set(c) \/ SetData(c) \/ MakeThread(c) \/ StartThread(c)
               \/ Lower(c) \/ Assign(c) \/ Block(c) \/ Timeout(c) \/ Notice(c)
               \/ Join(c)
      PROVE  ListInv'
  <2>1. CASE Crash
    BY <1>1, <2>1
  <2>2. CASE ~Crash
    <3>1. UNCHANGED <<list, torn, info, inquirySucc, client, apart, held, replies>>
      BY <1>7, <2>2 DEF Test, Set, SetData, MakeThread, StartThread, Lower, Assign,
         Block, Timeout, Notice, Join
    <3>2. buffer' \in {buffer, [buffer EXCEPT ![c] = NULL]}
      BY <1>7, <2>2 DEF Test, Set, SetData, MakeThread, StartThread, Lower, Assign,
         Block, Timeout, Notice, Join
    <3>3. \E there : there \notin {"remove", "add"} /\ pc' = [pc EXCEPT ![c] = there]
      BY <1>7, <2>2 DEF Test, Set, SetData, MakeThread, StartThread, Lower, Assign,
         Block, Timeout, Notice, Join, Goto
    <3>4. \A d \in Click : pc'[d] \in {"remove", "add"} => pc'[d] = pc[d]
      BY <1>0, <3>3
    <3> QED
      BY <1>0, <3>1, <3>2, <3>4, SameList
  <2> QED
    BY <2>1, <2>2
<1>8. ASSUME NEW c \in Click, Scan(c) PROVE ListInv'
  <2>1. CASE Crash
    BY <1>1, <2>1
  <2>2. CASE ~Crash
    <3>1. UNCHANGED <<pc, list, torn, info, inquirySucc, client, apart, held, replies,
                      buffer>>
      BY <1>8, <2>2 DEF Scan, ScanReset, ScanCheck, ScanPrepare, ScanAssign, ScanSend
    <3> QED
      BY <1>0, <3>1, SameList
  <2> QED
    BY <2>1, <2>2
<1>9. CASE DaemonAnswers
  <2>1. UNCHANGED <<pc, list, torn, info, inquirySucc, client, apart, buffer>>
    BY <1>9 DEF DaemonAnswers
  <2>2. held \subseteq held' /\ held' \subseteq Entry
        /\ (client = "register" => held' \subseteq {RegInfo})
    BY <1>9, RegInfoIsEntry DEF DaemonAnswers, ListInv
  <2>3. \A r \in replies' : TrueReply(r)'
    BY <1>9, <2>1, <2>2 DEF DaemonAnswers, ListInv, TrueReply, ResultPkt,
       InquiryResultPkt
  <2>4. \A c \in Click : buffer[c] # NULL => TrueReply(buffer[c])'
    BY <2>1, <2>2 DEF ListInv, TrueReply
  <2>5. ListIsTrue'
    BY <2>1, <2>2 DEF ListInv, ListIsTrue
  <2>6. AdditionOK'
    BY <1>0, <2>1, <2>2 DEF AdditionOK
  <2> QED
    BY <2>1, <2>2, <2>3, <2>4, <2>5, <2>6 DEF ListInv
<1>10. CASE Over \/ UNCHANGED vars
  <2>1. UNCHANGED <<pc, list, torn, info, inquirySucc, client, apart, held, replies,
                    buffer>>
    BY <1>10 DEF Over, vars
  <2> QED
    BY <1>0, <2>1, SameList
<1> QED
  BY <1>2, <1>3, <1>4, <1>5, <1>6, <1>7, <1>8, <1>9, <1>10 DEF Next, RunSearch

(* However the threads of InquiryClient and UDPClient mix up their         *)
(* packets and get into each other's way in the list, it shows registered  *)
(* services only, each once if clicks come apart, and a success is told    *)
(* only if the daemon holds something.                                     *)
THEOREM ListStaysTrue == Spec => []ListIsTrue
<1>1. ListInv => ListIsTrue
  BY DEF ListInv
<1> QED
  BY <1>1, InitListInv, StepListInv, InitApartInv, StepApartInv, PTL DEF Spec
-----------------------------------------------------------------------------
(* From here on a search has a thread.                                     *)
Going == Started \cup {"run"}

(* What a thread reads has been given a value: the fields sendData, thread *)
(* and dataPacket, and what each thread keeps of them.                     *)
Given ==
  \A c \in Click :
    /\ pc[c] \in Going \cup {"make"} => sendData \in Click
    /\ pc[c] \in Going => thread \in Click
    /\ scan[c] # "off" => sendData \in Click
    /\ scan[c] \in {"check", "prepare", "assign", "send"} => data[c] \in Click
    /\ pc[c] = "receive" \/ scan[c] = "send" => dataPacket \in Packet
    /\ pc[c] = "blocked" => into[c] \in Packet
    /\ pc[c] = "join" => awaited[c] \in Click

(* TypeOK is not inductive: that a packet is made of what a thread reads   *)
(* takes Given, and that the list is one of services takes ListInv.        *)
FieldsInv == TypeOK /\ Given

(* Nothing has been read yet.                                              *)
LEMMA InitFieldsInv == Init => FieldsInv
<1> SUFFICES ASSUME Init PROVE FieldsInv
  OBVIOUS
<1>1. Given
  BY DEF Init, Given, Going, Started
<1>2. list \in Seq(Entry) /\ held \subseteq Entry
  BY InitListInv DEF ListInv
<1>3. LastSub \in Nat \ {0} /\ Daemon \in 1..LastSub
  BY JavaClientAssumption
<1>4. 0 \in 0..LastSub
  BY <1>3
<1>5. TypeOK
  BY <1>2, <1>3, <1>4 DEF Init, TypeOK, NoAddress
<1> QED
  BY <1>1, <1>5 DEF FieldsInv

(* No step breaks it.                                                      *)
LEMMA StepFieldsInv ==
  FieldsInv /\ ListInv /\ ListInv' /\ [Next]_vars => FieldsInv'
<1> SUFFICES ASSUME FieldsInv, ListInv, ListInv', [Next]_vars PROVE FieldsInv'
  OBVIOUS
<1> USE DEF mainVars, listVars, scanVars, packetVars, netVars, environment
<1>1. TypeOK /\ Given
  BY DEF FieldsInv
<1>2. list' \in Seq(Entry) /\ held' \subseteq Entry
  BY DEF ListInv
<1>3. LastSub \in Nat \ {0} /\ Daemon \in 1..LastSub /\ 0 \in 0..LastSub
  BY JavaClientAssumption
<1>4. ASSUME Crash PROVE FieldsInv'
  BY <1>1, <1>4 DEF Crash, TypeOK, Given, FieldsInv
<1>5. ASSUME NEW c \in Click, Test(c) PROVE FieldsInv'
  BY <1>1, <1>5 DEF Test, At, Goto, TypeOK, Given, FieldsInv, Going, Started
<1>6. ASSUME NEW c \in Click, Set(c) PROVE FieldsInv'
  BY <1>1, <1>6 DEF Set, At, Goto, TypeOK, Given, FieldsInv, Going, Started
<1>7. ASSUME NEW c \in Click, Clear(c) PROVE FieldsInv'
  <2>1. CASE Crash
    BY <1>4, <2>1
  <2>2. CASE ~Crash
    <3>1. torn' \in BOOLEAN
      BY <1>1, <1>7, <2>2 DEF Clear, Change, TypeOK
    <3>2. /\ Goto(c, "start") /\ pc[c] = "clear"
          /\ UNCHANGED <<runSearchFinish, inquirySucc, info, sendData, thread, buffer,
                         into, awaited, recEnd, scanVars, packetVars, netVars,
                         environment, crashed>>
      BY <1>7, <2>2 DEF Clear, At
    <3> QED
      BY <1>1, <1>2, <3>1, <3>2 DEF Goto, TypeOK, Given, FieldsInv, Going, Started
  <2> QED
    BY <2>1, <2>2
<1>8. ASSUME NEW c \in Click, SetData(c) PROVE FieldsInv'
  BY <1>1, <1>8 DEF SetData, At, Goto, TypeOK, Given, FieldsInv, Going, Started
<1>9. ASSUME NEW c \in Click, MakeThread(c) PROVE FieldsInv'
  BY <1>1, <1>9 DEF MakeThread, At, Goto, TypeOK, Given, FieldsInv, Going, Started
<1>10. ASSUME NEW c \in Click, StartThread(c) PROVE FieldsInv'
  <2>1. CASE Crash
    BY <1>4, <2>1
  <2>2. CASE ~Crash
    BY <1>1, <1>10, <2>2 DEF StartThread, At, Goto, TypeOK, Given, FieldsInv, Going,
       Started
  <2> QED
    BY <2>1, <2>2
<1>11. ASSUME NEW c \in Click, Lower(c) PROVE FieldsInv'
  BY <1>1, <1>11 DEF Lower, At, Goto, TypeOK, Given, FieldsInv, Going, Started
<1>12. ASSUME NEW c \in Click, Assign(c) PROVE FieldsInv'
  <2>1. dataPacket' \in Packet
    BY <1>3, <1>12 DEF Assign, Packet, NoAddress
  <2> QED
    BY <1>1, <1>12, <2>1 DEF Assign, At, Goto, TypeOK, Given, FieldsInv, Going, Started
<1>13. ASSUME NEW c \in Click, Block(c) PROVE FieldsInv'
  BY <1>1, <1>13 DEF Block, At, Goto, TypeOK, Given, FieldsInv, Going, Started
<1>14. ASSUME NEW c \in Click, ReceiveReply(c) PROVE FieldsInv'
  <2>1. into[c] \in Packet /\ into[c].by \in Click
    BY <1>1, <1>14 DEF ReceiveReply, At, Given, Packet
  <2>2. dataPacket' \in Packet \/ dataPacket' = dataPacket
    BY <1>3, <1>14, <2>1 DEF ReceiveReply, Packet
  <2>3. /\ buffer' \in [Click -> Reply \cup {NULL}] /\ overwritten' \subseteq Click
        /\ replies' \subseteq Reply
    BY <1>1, <1>14, <2>1 DEF ReceiveReply, TypeOK
  <2>4. /\ into' = [into EXCEPT ![c] = NULL] /\ recEnd' = TRUE
        /\ Goto(c, "decode")
        /\ UNCHANGED <<runSearchFinish, inquirySucc, list, sendData, thread, awaited,
                       scanVars, requests, held, environment, crashed, torn, info>>
    BY <1>14 DEF ReceiveReply
  <2>5. TypeOK'
    <3>1. /\ pc' = [pc EXCEPT ![c] = "decode"] /\ into' = [into EXCEPT ![c] = NULL]
          /\ dataPacket' \in Packet \cup {NULL}
      BY <1>1, <2>2, <2>4 DEF Goto, TypeOK
    <3> QED
      BY <1>1, <2>3, <2>4, <3>1 DEF TypeOK
  <2>6. Given'
    <3>1. /\ pc' = [pc EXCEPT ![c] = "decode"] /\ into' = [into EXCEPT ![c] = NULL]
          /\ pc[c] = "blocked" /\ UNCHANGED <<sendData, thread, scan, data, awaited>>
          /\ DOMAIN pc = Click /\ DOMAIN into = Click
      BY <1>1, <1>14, <2>4 DEF ReceiveReply, At, Goto, TypeOK
    <3> SUFFICES ASSUME NEW d \in Click
                 PROVE  /\ pc'[d] \in Going \cup {"make"} => sendData' \in Click
                        /\ pc'[d] \in Going => thread' \in Click
                        /\ scan'[d] # "off" => sendData' \in Click
                        /\ scan'[d] \in {"check", "prepare", "assign", "send"}
                             => data'[d] \in Click
                        /\ pc'[d] = "receive" \/ scan'[d] = "send"
                             => dataPacket' \in Packet
                        /\ pc'[d] = "blocked" => into'[d] \in Packet
                        /\ pc'[d] = "join" => awaited'[d] \in Click
      BY DEF Given
    <3>2. CASE d = c
      BY <1>1, <2>2, <3>1, <3>2 DEF Given, Going, Started
    <3>3. CASE d # c
      BY <1>1, <2>2, <3>1, <3>3 DEF Given, Going, Started
    <3> QED
      BY <3>2, <3>3
  <2> QED
    BY <2>5, <2>6 DEF FieldsInv
<1>15. ASSUME NEW c \in Click, Decode(c) PROVE FieldsInv'
  <2>1. inquirySucc' \in BOOLEAN
    BY <1>1, <1>15 DEF Decode, TypeOK
  <2>2. /\ pc[c] = "decode" /\ (Goto(c, "remove") \/ Goto(c, "assign"))
        /\ info' \in [Click -> Entry \cup {NULL}]
    <3>1. buffer[c] # NULL /\ client = "inquiry" /\ buffer[c].action = "succ"
            => buffer[c].info \in Entry
      BY DEF ListInv, TrueReply
    <3> QED
      BY <1>1, <1>15, <3>1 DEF Decode, At, TypeOK
  <2>3. UNCHANGED <<runSearchFinish, list, torn, sendData, thread, buffer, into,
                    awaited, recEnd, scanVars, packetVars, netVars, environment,
                    crashed>>
    BY <1>15 DEF Decode
  <2> QED
    BY <1>1, <1>2, <2>1, <2>2, <2>3 DEF Goto, TypeOK, Given, FieldsInv, Going, Started
<1>16. ASSUME NEW c \in Click, RemoveSame(c) \/ AddLast(c) PROVE FieldsInv'
  <2>1. CASE Crash
    BY <1>4, <2>1
  <2>2. CASE ~Crash
    <3>1. torn' \in BOOLEAN
      BY <1>1, <1>16, <2>2 DEF RemoveSame, AddLast, Change, TypeOK
    <3>2. info' \in [Click -> Entry \cup {NULL}]
      BY <1>1, <1>16, <2>2 DEF RemoveSame, AddLast, TypeOK
    <3>3. /\ \/ pc[c] = "remove" /\ Goto(c, "add")
             \/ pc[c] = "add" /\ Goto(c, "assign")
          /\ UNCHANGED <<runSearchFinish, inquirySucc, sendData, thread, buffer,
                         into, awaited, recEnd, scanVars, packetVars, netVars,
                         environment, crashed>>
      BY <1>16, <2>2 DEF RemoveSame, AddLast, At
    <3> QED
      BY <1>1, <1>2, <3>1, <3>2, <3>3 DEF Goto, TypeOK, Given, FieldsInv, Going, Started
  <2> QED
    BY <2>1, <2>2
<1>17. ASSUME NEW c \in Click, Timeout(c) PROVE FieldsInv'
  BY <1>1, <1>17 DEF Timeout, At, Goto, TypeOK, Given, FieldsInv, Going, Started
<1>18. ASSUME NEW c \in Click, Notice(c) PROVE FieldsInv'
  <2>1. CASE Crash
    BY <1>4, <2>1
  <2>2. CASE ~Crash
    BY <1>1, <1>18, <2>2 DEF Notice, At, Goto, TypeOK, Given, FieldsInv, Going, Started
  <2> QED
    BY <2>1, <2>2
<1>19. ASSUME NEW c \in Click, Join(c) PROVE FieldsInv'
  BY <1>1, <1>19 DEF Join, At, Goto, TypeOK, Given, FieldsInv, Going, Started
<1>20. ASSUME NEW c \in Click, Scan(c) PROVE FieldsInv'
  <2>1. CASE ScanReset(c)
    BY <1>1, <1>3, <2>1 DEF ScanReset, ScanAt, ScanGoto, TypeOK, Given, FieldsInv
  <2>2. CASE ScanCheck(c)
    <3>1. data' \in [Click -> Click \cup {NULL}] /\ finish' \in [Click -> BOOLEAN]
      BY <1>1, <2>2 DEF ScanCheck, TypeOK
    <3>2. /\ \/ ScanGoto(c, "dead")
             \/ ScanGoto(c, "prepare") /\ data' = data
          /\ \A d \in Click \ {c} : data'[d] = data[d]
          /\ scan[c] = "check"
          /\ UNCHANGED <<mainVars, recEnd, subIP, subAddr, packetVars, netVars,
                         environment, crashed>>
      BY <1>1, <2>2 DEF ScanCheck, ScanAt, TypeOK
    <3>3. TypeOK'
      BY <1>1, <3>1, <3>2 DEF ScanGoto, TypeOK, mainVars, listVars, packetVars,
         netVars, environment
    <3>4. Given'
      BY <1>1, <3>2 DEF ScanGoto, TypeOK, Given, mainVars, packetVars
    <3> QED
      BY <3>3, <3>4 DEF FieldsInv
  <2>3. CASE ScanPrepare(c)
    <3>1. subIP' \in 0..LastSub /\ subAddr' \in 0..LastSub
      BY <1>1, <1>3, <2>3 DEF ScanPrepare, TypeOK
    <3>2. finish' \in [Click -> BOOLEAN]
      BY <1>1, <2>3 DEF ScanPrepare, TypeOK
    <3> QED
      BY <1>1, <2>3, <3>1, <3>2 DEF ScanPrepare, ScanAt, ScanGoto, TypeOK, Given,
         FieldsInv
  <2>4. CASE ScanAssign(c)
    <3>1. dataPacket' \in Packet
      BY <1>1, <2>4 DEF ScanAssign, ScanAt, Given, TypeOK, Packet
    <3> QED
      BY <1>1, <2>4, <3>1 DEF ScanAssign, ScanAt, ScanGoto, TypeOK, Given, FieldsInv
  <2>5. CASE ScanSend(c)
    <3>1. CASE Crash
      BY <1>4, <3>1
    <3>2. CASE ~Crash
      <4>1. requests' \in Nat
        BY <1>1, <2>5, <3>2 DEF ScanSend, TypeOK
      <4> QED
        BY <1>1, <2>5, <3>2, <4>1 DEF ScanSend, ScanAt, ScanGoto, TypeOK, Given,
           FieldsInv
    <3> QED
      BY <3>1, <3>2
  <2> QED
    BY <1>20, <2>1, <2>2, <2>3, <2>4, <2>5 DEF Scan
<1>21. CASE DaemonAnswers
  <2>1. replies' \subseteq Reply /\ requests' \in Nat
    <3>1. held \subseteq Entry /\ replies \subseteq Reply
      BY <1>1 DEF TypeOK
    <3>2. \A r \in replies' : r \in Reply
      BY <1>21, <3>1, RepliesAreReplies DEF DaemonAnswers
    <3> QED
      BY <1>1, <1>21, <3>2 DEF DaemonAnswers, TypeOK
  <2> QED
    BY <1>1, <1>2, <1>21, <2>1 DEF DaemonAnswers, TypeOK, Given, FieldsInv
<1>22. CASE Over \/ UNCHANGED vars
  BY <1>1, <1>22 DEF Over, vars, TypeOK, Given, FieldsInv
<1> QED
  BY <1>5, <1>6, <1>7, <1>8, <1>9, <1>10, <1>11, <1>12, <1>13, <1>14, <1>15, <1>17,
     <1>18, <1>19, <1>20, <1>21, <1>22, <1>16 DEF Next, RunSearch

(* No thread of InquiryClient or UDPClient reads a field that has not been *)
(* assigned, however they are interleaved.                                 *)
THEOREM TypeCorrect == Spec => []TypeOK
<1>1. FieldsInv => TypeOK
  BY DEF FieldsInv
<1> QED
  BY <1>1, InitFieldsInv, StepFieldsInv, InitListInv, StepListInv, InitApartInv,
     StepApartInv, PTL DEF Spec
=============================================================================
