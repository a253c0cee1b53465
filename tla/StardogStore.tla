---------------------------- MODULE StardogStore ----------------------------
(***************************************************************************)
(* store/stardog/stardog.go: the records as triples of a Stardog database. *)
(* An instance is the node sdcf:instance<guid> with one datais triple per  *)
(* insertion; a binding is the node sdcf:binding<guid> with datais and     *)
(* boundto triples.  A set of rows [guid, data] stands for the triples of  *)
(* the instance nodes, a set of rows [inst, guid, cred] for those of the   *)
(* binding nodes: the datais values of binding b are the cred of its rows  *)
(* and its boundto values their inst, whatever row each came from.         *)
(* Nothing makes a GUID unique and nothing ties a binding to the life of   *)
(* its instance.  AddData commits one transaction: it takes effect once.   *)
(***************************************************************************)
EXTENDS Faults

CONSTANT None

VARIABLES instanceRows, bindingRows

HasInstance(g) == \E r \in instanceRows : r.guid = g

DataOf(b) == {r.cred : r \in {i \in bindingRows : i.guid = b}}

(* The bindings the two binding queries find: those bound to an instance node. *)
BoundTo(g) ==
  IF HasInstance(g) THEN {r.guid : r \in {i \in bindingRows : i.inst = g}} ELSE {}

(* Bindings[0] of the query results: any of the datais values. *)
GetInstance(g) ==
  IF HasInstance(g) THEN {r.data : r \in {i \in instanceRows : i.guid = g}}
                    ELSE {None}

AddInstance(g, data, reply) ==
  /\ \/ /\ instanceRows' = instanceRows \cup {[guid |-> g, data |-> data]}
        /\ Replied("storeReplyLost", reply, TRUE)
     \/ /\ CallFails("storeWrite", reply)
        /\ UNCHANGED instanceRows
  /\ UNCHANGED bindingRows

(* DELETE WHERE on the instance node: succeeds when there is nothing to delete. *)
DeleteInstance(g, reply) ==
  /\ \/ /\ instanceRows' = {r \in instanceRows : r.guid # g}
        /\ Replied("storeReplyLost", reply, TRUE)
     \/ /\ CallFails("storeWrite", reply)
        /\ UNCHANGED instanceRows
  /\ UNCHANGED bindingRows

GetBinding(g, b) == IF b \in BoundTo(g) THEN DataOf(b) ELSE {None}

(***************************************************************************)
(* A map from GUID to data filled in the order of the results: for each    *)
(* binding, any one of its datais values.  A missing instance gives the    *)
(* empty map, not an error.                                                *)
(***************************************************************************)
GetAllBindings(g) ==
  {{[guid |-> b, cred |-> pick[b]] : b \in BoundTo(g)} :
     pick \in {f \in [BoundTo(g) -> {r.cred : r \in bindingRows}] :
                 \A b \in BoundTo(g) : f[b] \in DataOf(b)}}

(* The insertion of AddBinding; the GetInstance before it is a call of its own. *)
AddBinding(g, b, cred, reply) ==
  /\ \/ /\ bindingRows' = bindingRows \cup {[inst |-> g, guid |-> b, cred |-> cred]}
        /\ Replied("storeReplyLost", reply, TRUE)
     \/ /\ CallFails("storeWrite", reply)
        /\ UNCHANGED bindingRows
  /\ UNCHANGED instanceRows

(***************************************************************************)
(* DELETE WHERE on the binding node.  The reply is the boolean of the      *)
(* result; what the server answers when nothing matched is not in this     *)
(* repository, so both are possible.                                       *)
(***************************************************************************)
DeleteBinding(g, b, reply) ==
  /\ \/ /\ bindingRows' = {r \in bindingRows : r.guid # b}
        /\ \E outcome \in {TRUE, DataOf(b) # {}} :
             Replied("storeReplyLost", reply, outcome)
     \/ /\ CallFails("storeWrite", reply)
        /\ UNCHANGED bindingRows
  /\ UNCHANGED instanceRows
=============================================================================
