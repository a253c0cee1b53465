------------------------------- MODULE Store --------------------------------
(***************************************************************************)
(* broker.Store, with the implementation main.go selects by the storage    *)
(* type of the configuration.                                              *)
(***************************************************************************)
EXTENDS Faults

CONSTANTS
  StorageType,   \* conf.Storage.Type: "sql" or "stardog"
  None           \* a value that is none of the model's data: an empty string, a nil, an error

ASSUME StorageAssumption == StorageType \in {"sql", "stardog"}

VARIABLES
  instanceRows,   \* the service instances recorded, [guid, data]
  bindingRows     \* the bindings recorded, [inst, guid, cred]

storeVars == <<instanceRows, bindingRows>>

Sql == INSTANCE SqlStore
Sd  == INSTANCE StardogStore

OnSql == StorageType = "sql"

GetInstance(g) == IF OnSql THEN Sql!GetInstance(g) ELSE Sd!GetInstance(g)

GetBinding(g, b) == IF OnSql THEN Sql!GetBinding(g, b) ELSE Sd!GetBinding(g, b)

GetAllBindings(g) == IF OnSql THEN Sql!GetAllBindings(g) ELSE Sd!GetAllBindings(g)

AddInstance(g, data, reply) ==
  IF OnSql THEN Sql!AddInstance(g, data, reply) ELSE Sd!AddInstance(g, data, reply)

DeleteInstance(g, reply) ==
  IF OnSql THEN Sql!DeleteInstance(g, reply) ELSE Sd!DeleteInstance(g, reply)

AddBinding(g, b, cred, reply) ==
  IF OnSql THEN Sql!AddBinding(g, b, cred, reply) ELSE Sd!AddBinding(g, b, cred, reply)

DeleteBinding(g, b, reply) ==
  IF OnSql THEN Sql!DeleteBinding(g, b, reply) ELSE Sd!DeleteBinding(g, b, reply)

(* A read that fails is an error for the caller, like a record that is missing. *)
Read(answers, answer) ==
  /\ \/ answer \in answers /\ UNCHANGED faults
     \/ answer = None /\ Fault("storeRead")
  /\ UNCHANGED storeVars
=============================================================================
