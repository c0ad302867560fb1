------------------------------- MODULE SeqList -------------------------------
(***************************************************************************)
(* What list.h promises: a service_info_list is a sequence of services.    *)
(* Calls are made one at a time; each takes effect in one step.  CDaemon   *)
(* uses the list in this form.                                             *)
(***************************************************************************)
EXTENDS ServiceList

CONSTANT MaxIndex   \* bound: list_get is called with an index up to this

VARIABLES
  list,     \* the services, head first
  call,     \* the call under way, or NULL
  removed,  \* did the list_remove that returned last find its service?
  found,    \* what the list_get that returned last returned
  alive     \* deinit_list has not been called

vars == <<list, call, removed, found, alive>>

Init ==
  /\ list = <<>>
  /\ call = NULL
  /\ removed = FALSE
  /\ found = NULL
  /\ alive = TRUE

Begin ==
  /\ alive
  /\ call = NULL
  /\ call' \in Call(MaxIndex)
  /\ removed' = FALSE
  /\ found' = NULL
  /\ UNCHANGED <<list, alive>>

Calling(op) == call # NULL /\ call.op = op

AddReturns ==
  /\ Calling("list_add")
  /\ list' = ListAdd(list, call.info)
  /\ call' = NULL
  /\ UNCHANGED <<removed, found, alive>>

RemoveReturns ==
  /\ Calling("list_remove")
  /\ list' = ListRemove(list, call.device_name, call.service_name)
  /\ removed' = Registered(list, call.device_name, call.service_name)
  /\ call' = NULL
  /\ UNCHANGED <<found, alive>>

GetReturns ==
  /\ Calling("list_get")
  /\ found' = ListGet(list, call.service_name, call.index)
  /\ call' = NULL
  /\ UNCHANGED <<list, removed, alive>>

DeinitReturns ==
  /\ Calling("deinit_list")
  /\ list' = <<>>
  /\ alive' = FALSE
  /\ call' = NULL
  /\ UNCHANGED <<removed, found>>

Next == Begin \/ AddReturns \/ RemoveReturns \/ GetReturns \/ DeinitReturns

Spec == Init /\ [][Next]_vars
=============================================================================
