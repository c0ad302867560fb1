-------------------------------- MODULE CList --------------------------------
(***************************************************************************)
(* The linked list of c/provider/comm/list.c in memory: nodes at addresses *)
(* with next pointers, a list with head and tail pointers, and the walks   *)
(* of list_remove, list_get and deinit_list one iteration at a time.       *)
(*                                                                         *)
(* list_remove unlinks a node and never frees it.  When it unlinks the     *)
(* only node it sets head and leaves tail at the unlinked node; the next   *)
(* list_add writes through that stale tail.                                *)
(*                                                                         *)
(* chain is no variable of the program: it records which nodes the         *)
(* unlinking and linking steps mean to be in the list, for the invariants  *)
(* to compare the pointers with.  at is the i of list_get: i, Init, Next   *)
(* and Spec are left to CDaemon, for CDaemonProofs speaks of both.         *)
(***************************************************************************)
EXTENDS ServiceList

CONSTANTS
  MaxNodes,  \* bound: how many nodes get_node can allocate
  MaxIndex   \* bound: list_get is called with an index up to this

ASSUME CListAssumption ==
  /\ MaxNodes \in Nat
  /\ MaxIndex \in Nat
  /\ NULL \notin Nat \cup Call(MaxIndex)

VARIABLES
  head, tail,      \* the list's pointers: a node or NULL
  next,            \* the next pointer of each allocated node
  info,            \* the service of each allocated node
  used,            \* the nodes 1..used have been allocated
  freed,           \* the nodes passed to free
  pc,              \* where the code is: idle, walk, link, get, deinit or gone
  call,            \* the call under way, or NULL
  prev, node, at,  \* the local variables of the walks
  removed, found,  \* what the latest list_remove and list_get returned
  chain            \* the nodes in the list, in order (see above)

heap == <<head, tail, next, info, used, freed, chain>>
locals == <<prev, node, at>>
results == <<removed, found>>
listVars == <<heap, pc, call, locals, results>>

Node == 1..MaxNodes

Pointer == Node \cup {NULL}

(* init_list: all pointers are NULL.                                       *)
ListInit ==
  /\ head = NULL /\ tail = NULL
  /\ next = [n \in Node |-> NULL]
  /\ info = [n \in Node |-> NULL]
  /\ used = 0
  /\ freed = {}
  /\ chain = <<>>
  /\ pc = "idle"
  /\ call = NULL
  /\ prev = NULL /\ node = NULL /\ at = 0
  /\ removed = FALSE /\ found = NULL

Calling(op) == call # NULL /\ call.op = op

(* What the last call returned is dropped when the next one is made.       *)
ForgetResults == removed' = FALSE /\ found' = NULL

-----------------------------------------------------------------------------
(* list_add: get_node, fill it in, and call list_remove with its key.      *)
AddCall ==
  /\ pc = "idle"
  /\ used < MaxNodes
  /\ call' \in { c \in Call(MaxIndex) : c.op = "list_add" }
  /\ used' = used + 1
  /\ info' = [info EXCEPT ![used'] = call'.info]
  /\ next' = [next EXCEPT ![used'] = NULL]
  /\ prev' = NULL /\ node' = head
  /\ pc' = "walk"
  /\ ForgetResults
  /\ UNCHANGED <<head, tail, freed, chain, at>>

RemoveCall ==
  /\ pc = "idle"
  /\ call' \in { c \in Call(MaxIndex) : c.op = "list_remove" }
  /\ prev' = NULL /\ node' = head
  /\ pc' = "walk"
  /\ ForgetResults
  /\ UNCHANGED <<heap, at>>

(* The key list_remove walks for: the caller's, or the new service's.      *)
Wanted(e) ==
  IF Calling("list_add") THEN SameKey(e, call.info)
                         ELSE HasKey(e, call.device_name, call.service_name)

(* The local variables of a walk end with it.                              *)
LeaveScope == prev' = NULL /\ node' = NULL /\ at' = 0

(* list_remove returns: list_add ignores the result and goes on to link.   *)
ReturnFromRemove(result) ==
  /\ IF Calling("list_add")
       THEN pc' = "link" /\ UNCHANGED <<call, removed>>
       ELSE pc' = "idle" /\ call' = NULL /\ removed' = result
  /\ LeaveScope

WalkNext ==
  /\ pc = "walk"
  /\ node # NULL
  /\ ~Wanted(info[node])
  /\ prev' = node
  /\ node' = next[node]
  /\ UNCHANGED <<heap, pc, call, at, results>>

WalkEnd ==
  /\ pc = "walk"
  /\ node = NULL
  /\ ReturnFromRemove(FALSE)
  /\ UNCHANGED <<heap, found>>

(* The place of a linked node in the list.                                 *)
Place(n) == CHOOSE k \in 1..Len(chain) : chain[k] = n

(* Mutant of Unlink: removing the last of several nodes leaves tail alone. *)
UnlinkKeepsTail ==
  /\ pc = "walk"
  /\ node # NULL
  /\ Wanted(info[node])
  /\ IF prev # NULL
       THEN /\ next' = [next EXCEPT ![prev] = next[node]]
            /\ UNCHANGED head
       ELSE head' = next[node] /\ UNCHANGED next
  /\ chain' = RemoveAt(chain, Place(node))
  /\ ReturnFromRemove(TRUE)
  /\ UNCHANGED <<tail, info, used, freed, found>>

(* Mutant of Unlink: the unlinked node is freed, as if to mend the leak.   *)
UnlinkFrees ==
  /\ pc = "walk"
  /\ node # NULL
  /\ Wanted(info[node])
  /\ IF prev # NULL
       THEN /\ next' = [next EXCEPT ![prev] = next[node]]
            /\ tail' = IF next[node] = NULL THEN prev ELSE tail
            /\ UNCHANGED head
       ELSE head' = next[node] /\ UNCHANGED <<next, tail>>
  /\ freed' = freed \cup {node}
  /\ chain' = RemoveAt(chain, Place(node))
  /\ ReturnFromRemove(TRUE)
  /\ UNCHANGED <<info, used, found>>

(* The walk has found the service: its node is unlinked.                   *)
Unlink ==
  /\ pc = "walk"
  /\ node # NULL
  /\ Wanted(info[node])
  /\ IF prev # NULL
       THEN /\ next' = [next EXCEPT ![prev] = next[node]]
            /\ tail' = IF next[node] = NULL THEN prev ELSE tail
            /\ UNCHANGED head
       ELSE head' = next[node] /\ UNCHANGED <<next, tail>>
  /\ chain' = RemoveAt(chain, Place(node))
  /\ ReturnFromRemove(TRUE)
  /\ UNCHANGED <<info, used, freed, found>>

(* The rest of list_add.  With an empty list and a stale tail the write    *)
(* through tail goes to an unlinked node.                                  *)
Link ==
  /\ pc = "link"
  /\ head' = IF head = NULL THEN used ELSE head
  /\ next' = IF tail = NULL THEN next ELSE [next EXCEPT ![tail] = used]
  /\ tail' = used
  /\ chain' = Append(chain, used)
  /\ pc' = "idle"
  /\ call' = NULL
  /\ UNCHANGED <<info, used, freed, locals, results>>

-----------------------------------------------------------------------------
GetCall ==
  /\ pc = "idle"
  /\ call' \in { c \in Call(MaxIndex) : c.op = "list_get" }
  /\ node' = head /\ at' = 0
  /\ pc' = "get"
  /\ ForgetResults
  /\ UNCHANGED <<heap, prev>>

(* Mutant of AtIndex: the service name is not compared.                    *)
AtIndexAnyName == node # NULL /\ at = call.index

AtIndex ==
  node # NULL /\ at = call.index /\ info[node].service_name = call.service_name

(* Mutant of GetStep: the index counts two for every node.                 *)
GetStepByTwo ==
  /\ pc = "get"
  /\ node # NULL
  /\ ~AtIndex
  /\ node' = next[node] /\ at' = at + 2
  /\ UNCHANGED <<heap, pc, call, prev, results>>

GetStep ==
  /\ pc = "get"
  /\ node # NULL
  /\ ~AtIndex
  /\ node' = next[node] /\ at' = at + 1
  /\ UNCHANGED <<heap, pc, call, prev, results>>

GetReturn ==
  /\ pc = "get"
  /\ node = NULL \/ AtIndex
  /\ found' = IF node = NULL THEN NULL ELSE info[node]
  /\ pc' = "idle"
  /\ call' = NULL
  /\ LeaveScope
  /\ UNCHANGED <<heap, removed>>

-----------------------------------------------------------------------------
DeinitCall ==
  /\ pc = "idle"
  /\ call' = [op |-> "deinit_list"]
  /\ node' = head
  /\ pc' = "deinit"
  /\ ForgetResults
  /\ UNCHANGED <<heap, prev, at>>

DeinitStep ==
  /\ pc = "deinit"
  /\ node # NULL
  /\ freed' = freed \cup {node}
  /\ node' = next[node]
  /\ UNCHANGED <<head, tail, next, info, used, chain, pc, call, prev, at, results>>

(* free(list): the list no longer exists.                                  *)
DeinitEnd ==
  /\ pc = "deinit"
  /\ node = NULL
  /\ chain' = <<>>
  /\ pc' = "gone"
  /\ call' = NULL
  /\ UNCHANGED <<head, tail, next, info, used, freed, locals, results>>

(* After deinit_list there are no more calls.                              *)
Gone == pc = "gone" /\ UNCHANGED listVars

Step ==
  \/ WalkNext \/ WalkEnd \/ Unlink \/ Link
  \/ GetStep \/ GetReturn
  \/ DeinitStep \/ DeinitEnd

ListNext == AddCall \/ RemoveCall \/ GetCall \/ DeinitCall \/ Step \/ Gone

ListSpec == ListInit /\ [][ListNext]_listVars

-----------------------------------------------------------------------------
(* The variables hold what their declarations say; the index of a walk     *)
(* never passes the end of the list.                                       *)
ListTypeOK ==
  /\ head \in Pointer /\ tail \in Pointer
  /\ next \in [Node -> Pointer]
  /\ info \in [Node -> Entry \cup {NULL}]
  /\ used \in 0..MaxNodes
  /\ freed \subseteq 1..used
  /\ chain \in Seq(1..used)
  /\ pc \in {"idle", "walk", "link", "get", "deinit", "gone"}
  /\ call \in Call(MaxIndex) \cup {NULL}
  /\ prev \in Pointer /\ node \in Pointer
  /\ at \in 0..Len(chain)
  /\ removed \in BOOLEAN
  /\ found \in Entry \cup {NULL}

(* The pointers spell the list: from head, next leads through exactly the  *)
(* linked nodes and ends in NULL, and in a list that is not empty tail is  *)
(* the last of them, so list_add appends where list_get will look.         *)
PointersSpellList ==
  pc # "gone" =>
    /\ head = IF chain = <<>> THEN NULL ELSE chain[1]
    /\ \A k \in 1..Len(chain) :
         next[chain[k]] = IF k = Len(chain) THEN NULL ELSE chain[k + 1]
    /\ chain # <<>> => tail = chain[Len(chain)]

(* No pointer the code may follow next leads to freed memory: tail may be  *)
(* stale, but only because list_remove never frees may list_add write      *)
(* through it.  During deinit_list the node about to be freed has not been *)
(* freed before.                                                           *)
NoDanglingPointers ==
  /\ pc \in {"idle", "walk", "link", "get"} =>
       /\ {head, tail, prev, node} \cap freed = {}
       /\ \A k \in 1..Len(chain) : next[chain[k]] \notin freed
  /\ pc = "deinit" => node \notin freed

(* The services of the list, and the one list_add is about to link.        *)
Contents ==
  [k \in 1..Len(chain) |-> info[chain[k]]]
    \o IF pc = "link" THEN <<info[used]>> ELSE <<>>

A == INSTANCE SeqList WITH list <- Contents,
                           call <- IF pc = "link" THEN NULL ELSE call,
                           alive <- (pc # "gone")

(* The linked list is a sequence: every call does to it, and returns, what *)
(* the operators ListAdd, ListRemove and ListGet say.                      *)
ImplementsSeqList == A!Spec
=============================================================================
