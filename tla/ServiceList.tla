---------------------------- MODULE ServiceList -----------------------------
(***************************************************************************)
(* The list of registered services as the three daemons use it: list.c,    *)
(* provider.go (over container/list) and ServiceInfoList.java (over        *)
(* LinkedList).  The three removals are the same: the first node with the  *)
(* device and service name goes, and the loop stops.  C and Java add at    *)
(* the tail, Go at the front.  The three look-ups by service name index    *)
(* the WHOLE list, not the matching services.                              *)
(***************************************************************************)
EXTENDS Protocal, Naturals, FiniteSets, SequencesExt

HasKey(e, d, s) == e.device_name = d /\ e.service_name = s

SameKey(e, f) == HasKey(e, f.device_name, f.service_name)

(* Is there a service registered under this device and service name?       *)
Registered(l, d, s) == \E i \in 1..Len(l) : HasKey(l[i], d, s)

(* Where the walk of a removal stops: the first node with the key.         *)
PositionOf(l, d, s) ==
  CHOOSE i \in 1..Len(l) : /\ HasKey(l[i], d, s)
                           /\ \A j \in 1..(i - 1) : ~HasKey(l[j], d, s)

ListRemove(l, d, s) ==
  IF Registered(l, d, s) THEN RemoveAt(l, PositionOf(l, d, s)) ELSE l

(* Mutant of ListAdd: the older registration of the key stays.             *)
ListAddKeepsOld(l, e) == Append(l, e)

ListAdd(l, e) == Append(ListRemove(l, e.device_name, e.service_name), e)

(* Mutant of AddInfo: the older registration of the key stays.             *)
AddInfoKeepsOld(l, e) == <<e>> \o l

AddInfo(l, e) == <<e>> \o ListRemove(l, e.device_name, e.service_name)

(* Mutant of ListGet: the service name is not compared.                    *)
ListGetAnyService(l, s, index) == IF index < Len(l) THEN l[index + 1] ELSE NULL

(* The service at position index of the list, if it has the name asked for *)
ListGet(l, s, index) ==
  IF index < Len(l) /\ l[index + 1].service_name = s THEN l[index + 1] ELSE NULL

(* Mutant of GetCount: the walk stops at the first service it counts.      *)
GetCountOne(l, s) ==
  IF \E i \in 1..Len(l) : l[i].service_name = s THEN 1 ELSE 0

(* How many registered services have the name asked for.                   *)
GetCount(l, s) == Cardinality({ i \in 1..Len(l) : l[i].service_name = s })

(* Mutant of GetAll: the walk starts one node too far.                     *)
GetAllFromNext(l, s) == [k \in 1..GetCount(l, s) |-> ListGet(l, s, k)]

(* The slice GetAll fills: slot k holds node k if that node has the name   *)
(* asked for, and nil otherwise; matching nodes past the end of the slice  *)
(* are dropped.                                                            *)
GetAll(l, s) == [k \in 1..GetCount(l, s) |-> ListGet(l, s, k - 1)]

(* The calls of list.h, with indices up to a bound.                        *)
Call(maxIndex) ==
  { [op |-> "list_add", info |-> e] : e \in Entry }
    \cup { [op |-> "list_remove", device_name |-> d, service_name |-> s] :
             d \in Device, s \in Service }
    \cup { [op |-> "list_get", service_name |-> s, index |-> n] :
             s \in Service, n \in 0..maxIndex }
    \cup { [op |-> "deinit_list"] }

-----------------------------------------------------------------------------
(* At most one service is registered under a device and service name: the  *)
(* "remove same service" of list_add and AddInfo.                          *)
UniqueKeys(l) == \A i, j \in 1..Len(l) : SameKey(l[i], l[j]) => i = j

(* The registered services with a service name.                            *)
Matching(l, s) == { e \in ToSet(l) : e.service_name = s }

(* The services with the name asked for come before all others.            *)
Leading(l, s) ==
  \A i, j \in 1..Len(l) : i < j /\ l[j].service_name = s => l[i].service_name = s
=============================================================================
