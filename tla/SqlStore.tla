------------------------------ MODULE SqlStore ------------------------------
(***************************************************************************)
(* store/sql/mysql.go: the tables service_instance and bindings.  A row of *)
(* service_instance is [guid, data], unique by guid; a row of bindings is  *)
(* [inst, guid, cred], unique by guid over the whole table and deleted     *)
(* with its service_instance row (ON DELETE CASCADE).  The AUTO_INCREMENT  *)
(* keys only join the two tables and are left out.  Reads are sets of      *)
(* possible answers, None standing for the error of a missing row; writes  *)
(* take the reply, TRUE for a nil error.                                   *)
(***************************************************************************)
EXTENDS Faults

CONSTANT None

VARIABLES instanceRows, bindingRows

HasInstance(g) == \E r \in instanceRows : r.guid = g

HasBinding(b) == \E r \in bindingRows : r.guid = b

GetInstance(g) ==
  IF HasInstance(g) THEN {r.data : r \in {i \in instanceRows : i.guid = g}}
                    ELSE {None}

\* Mutant of InstanceKeyFree: service_guid is not unique.
InstanceKeyFreeDropped(g) == TRUE

(* service_guid varchar(64) UNIQUE KEY *)
InstanceKeyFree(g) == ~HasInstance(g)

AddInstance(g, data, reply) ==
  /\ \/ /\ instanceRows' = IF InstanceKeyFree(g)
                           THEN instanceRows \cup {[guid |-> g, data |-> data]}
                           ELSE instanceRows
        /\ Replied("storeReplyLost", reply, InstanceKeyFree(g))
     \/ /\ CallFails("storeWrite", reply)
        /\ UNCHANGED instanceRows
  /\ UNCHANGED bindingRows

DeleteInstance(g, reply) ==
  \/ /\ instanceRows' = {r \in instanceRows : r.guid # g}
     /\ bindingRows' = {r \in bindingRows : r.inst # g}
     /\ Replied("storeReplyLost", reply, HasInstance(g))
  \/ /\ CallFails("storeWrite", reply)
     /\ UNCHANGED <<instanceRows, bindingRows>>

(* The statement selects by binding_guid alone: g is only used in messages. *)
GetBinding(g, b) ==
  IF HasBinding(b) THEN {r.cred : r \in {i \in bindingRows : i.guid = b}}
                   ELSE {None}

GetAllBindings(g) ==
  IF HasInstance(g)
  THEN {{[guid |-> r.guid, cred |-> r.cred] : r \in {i \in bindingRows : i.inst = g}}}
  ELSE {None}

\* Mutant of BindingKeyFree: binding_guid is not unique.
BindingKeyFreeDropped(g, b) == HasInstance(g)

(* binding_guid UNIQUE KEY, and service_id read in the same transaction *)
BindingKeyFree(g, b) == HasInstance(g) /\ ~HasBinding(b)

AddBinding(g, b, cred, reply) ==
  /\ \/ /\ bindingRows' = IF BindingKeyFree(g, b)
                          THEN bindingRows \cup {[inst |-> g, guid |-> b, cred |-> cred]}
                          ELSE bindingRows
        /\ Replied("storeReplyLost", reply, BindingKeyFree(g, b))
     \/ /\ CallFails("storeWrite", reply)
        /\ UNCHANGED bindingRows
  /\ UNCHANGED instanceRows

(* Deletes by binding_guid alone and reports an error when no row went. *)
DeleteBinding(g, b, reply) ==
  /\ \/ /\ bindingRows' = {r \in bindingRows : r.guid # b}
        /\ Replied("storeReplyLost", reply, HasBinding(b))
     \/ /\ CallFails("storeWrite", reply)
        /\ UNCHANGED bindingRows
  /\ UNCHANGED instanceRows
=============================================================================
