---------------------------- MODULE SerialProofs ----------------------------
(***************************************************************************)
(* Proofs about a platform that has one request at a time outstanding per  *)
(* instance: the databases of the broker and its records stay in step on   *)
(* both stores, whatever requests the platform sends for other instances   *)
(* meanwhile, and whichever Stardog calls fail without effect.  On the SQL *)
(* store, moreover, the records of bindings belong to recorded instances,  *)
(* and what the handlers answer is true of the records.                    *)
(***************************************************************************)
EXTENDS ForeignProofs, StepProofs, FiniteSetTheorems

(***************************************************************************)
(* The setting DatabaseOwnership speaks of: no call takes effect while its *)
(* answer is lost, the store answers what it is asked, and the broker does *)
(* not die between the call of Stardog and the record of it.               *)
(***************************************************************************)
SerialSetting ==
  /\ Serialized
  /\ FaultKinds \cap {"storeRead", "storeWrite", "storeReplyLost", "stardogReplyLost",
                      "restart"} = {}

-----------------------------------------------------------------------------
(* The inductive invariant. *)

(* One request at a time per instance. *)
OneRequest ==
  \A v, w \in Workers :
    pc[v] # "idle" /\ pc[w] # "idle" /\ req[v].inst = req[w].inst => v = w

(* An instance has one record. *)
OneRecord == \A r, q \in instanceRows : r.guid = q.guid => r = q

RecordOf(w) == [guid |-> req[w].inst, data |-> inst[w]]

(* Its handler knows whether it has, and its answer told so. *)
InstanceKnown(w) ==
  /\ pc[w] \in {"createDb", "addInstance"} => Unrecorded(req[w].inst)
  /\ pc[w] \in InstLabels \ {"createDb", "addInstance"} => RecordOf(w) \in instanceRows
  /\ Answered(w, "create", {200, 201}) =>
       \E r \in instanceRows :
         /\ r.guid = req[w].inst
         /\ r.data.plan = req[w].plan /\ r.data.meta = req[w].meta
         /\ req[w].db \in {r.data.db, None}
  /\ Answered(w, "get", {200}) => RecordOf(w) \in instanceRows
  /\ Answered(w, "get", {404}) \/ Answered(w, "remove", {200, 410}) =>
       Unrecorded(req[w].inst)

RecordsInv ==
  /\ AskedInv /\ ForeignInv
  /\ OneRequest /\ OneRecord
  /\ \A w \in Workers : InstanceKnown(w)

(* What owns a database: a record, and a record that a creation is about to make. *)
Owners ==
  {r \in instanceRows : ~BeingErased(r)} \cup
  {RecordOf(w) : w \in {v \in Workers : pc[v] = "addInstance"}}

(* Every owner has its database, ... *)
OwnersServed == \A r \in Owners : DatabaseOf(r.data) \in databases

(* ... to itself, ... *)
OwnersDiffer ==
  \A r, q \in Owners : DatabaseOf(r.data) = DatabaseOf(q.data) => r = q

(* ... and no database of the broker is without one. *)
AllOwned ==
  \A db \in databases \ ExistingDbs : \E r \in Owners : DatabaseOf(r.data) = db

DatabasesInv == RecordsInv /\ OwnersServed /\ OwnersDiffer /\ AllOwned

-----------------------------------------------------------------------------
(* What the remote calls do when the only fault is a call without effect. *)

(* CreateDatabase succeeds on a free name, or does nothing. *)
LEMMA CreateDatabaseExact ==
  ASSUME SerialSetting, NEW s, NEW d, NEW reply, CreateDatabase(s, d, reply)
  PROVE  /\ reply = TRUE => <<s, d>> \notin databases /\ databases' = databases \cup {<<s, d>>}
         /\ reply = FALSE => databases' = databases
<1> DEFINE db == <<s, d>>
<1>1. /\ db \in databases => databases \cup {db} = databases
      /\ "stardogReplyLost" \notin FaultKinds
  BY DEF SerialSetting
<1>2. \/ databases' = databases \cup {db} /\ Replied("stardogReplyLost", reply, db \notin databases)
      \/ databases' = databases /\ CallFails("stardogCall", reply)
  BY DEF CreateDatabase
<1> HIDE DEF db
<1>3. CASE db \in databases
  BY <1>1, <1>2, <1>3 DEF Replied, CallFails, Fault, db
<1>4. CASE db \notin databases
  BY <1>1, <1>2, <1>4 DEF Replied, CallFails, Fault, db
<1> QED BY <1>3, <1>4

(* DeleteDatabase succeeds on a database that is there, or does nothing. *)
LEMMA DeleteDatabaseExact ==
  ASSUME SerialSetting, NEW s, NEW d, NEW reply, DeleteDatabase(s, d, reply)
  PROVE  /\ reply = TRUE => databases' = databases \ {<<s, d>>}
         /\ reply = FALSE => databases' = databases
<1> DEFINE db == <<s, d>>
<1>1. /\ db \notin databases => databases \ {db} = databases
      /\ "stardogReplyLost" \notin FaultKinds
  BY DEF SerialSetting
<1>2. \/ databases' = databases \ {db} /\ Replied("stardogReplyLost", reply, db \in databases)
      \/ databases' = databases /\ CallFails("stardogCall", reply)
  BY DEF DeleteDatabase
<1> HIDE DEF db
<1>3. CASE db \in databases
  BY <1>1, <1>2, <1>3 DEF Replied, CallFails, Fault, db
<1>4. CASE db \notin databases
  BY <1>1, <1>2, <1>4 DEF Replied, CallFails, Fault, db
<1> QED BY <1>3, <1>4

(* AddInstance of a GUID without a record succeeds on both stores. *)
LEMMA AddInstanceSerial ==
  ASSUME SerialSetting, NEW g, NEW data, NEW reply \in BOOLEAN, AddInstance(g, data, reply),
         Unrecorded(g)
  PROVE  /\ reply = TRUE /\ UNCHANGED <<bindingRows, faults>>
         /\ instanceRows' = instanceRows \cup {[guid |-> g, data |-> data]}
<1> USE DEF SerialSetting, Unrecorded
<1>1. CASE OnSql
  BY <1>1 DEF AddInstance, Sql!AddInstance, Sql!InstanceKeyFree, Sql!HasInstance,
              Sql!Replied, Sql!CallFails, Sql!Fault
<1>2. CASE ~OnSql
  BY <1>2 DEF AddInstance, Sd!AddInstance, Sd!Replied, Sd!CallFails, Sd!Fault
<1> QED BY <1>1, <1>2

(* DeleteInstance leaves no record of the GUID. *)
LEMMA DeleteInstanceSerial ==
  ASSUME SerialSetting, NEW g, NEW reply \in BOOLEAN, DeleteInstance(g, reply)
  PROVE  /\ instanceRows' = {r \in instanceRows : r.guid # g}
         /\ OnSql => bindingRows' = {r \in bindingRows : r.inst # g}
         /\ UNCHANGED faults
<1> USE DEF SerialSetting
<1>1. CASE OnSql
  BY <1>1 DEF DeleteInstance, Sql!DeleteInstance, Sql!Replied, Sql!CallFails, Sql!Fault
<1>2. CASE ~OnSql
  BY <1>2 DEF DeleteInstance, Sd!DeleteInstance, Sd!Replied, Sd!CallFails, Sd!Fault
<1> QED BY <1>1, <1>2

-----------------------------------------------------------------------------
(* RecordsInv is an invariant. *)

(* Initially there is no record and no request. *)
LEMMA RecordsInit == Init => RecordsInv
<1> SUFFICES ASSUME Init PROVE RecordsInv
  OBVIOUS
<1>1. AskedInv /\ ForeignInv
  BY AskedInit, ForeignInit
<1>2. instanceRows = {} /\ \A w \in Workers : pc[w] = "idle"
  BY DEF Init
<1> QED BY <1>1, <1>2, LabelFacts
        DEF RecordsInv, OneRequest, OneRecord, InstanceKnown, Answered

(* A step of w touches the record of its own instance alone. *)
OwnRecord(w) ==
  /\ \A r \in instanceRows' : r \in instanceRows \/ r.guid = req[w].inst
  /\ \A r \in instanceRows : r \in instanceRows' \/ r.guid = req[w].inst

(* Responses of others stay, like the rest of them. *)
LEMMA RespStays ==
  ASSUME TypeInv, NEW w \in Workers, Moves(w), NEW v \in Workers, v # w
  PROVE  resp'[v] = resp[v]
  BY DEF Moves, TypeInv, TypeOK

(* ... so what the others know stays true. *)
LEMMA OthersKnow ==
  ASSUME RecordsInv, NEW w \in Workers, Moves(w),
         UNCHANGED instanceRows \/ (pc[w] # "idle" /\ OwnRecord(w)),
         NEW v \in Workers, v # w
  PROVE  InstanceKnown(v)'
<1>1. /\ pc'[v] = pc[v] /\ req'[v] = req[v] /\ inst'[v] = inst[v] /\ resp'[v] = resp[v]
  BY OthersStay, RespStays DEF RecordsInv, AskedInv
<1>2. CASE pc[v] = "idle"
  BY <1>1, <1>2, LabelFacts DEF InstanceKnown, Answered
<1>3. CASE pc[v] # "idle"
  <2>1. UNCHANGED instanceRows \/ (req[v].inst # req[w].inst /\ OwnRecord(w))
    BY <1>3 DEF RecordsInv, OneRequest
  <2>2. /\ Unrecorded(req[v].inst) => Unrecorded(req[v].inst)'
        /\ \A r \in instanceRows : r.guid = req[v].inst => r \in instanceRows'
    BY <1>1, <2>1 DEF OwnRecord, Unrecorded
  <2>3. RecordOf(v)' = RecordOf(v) /\ RecordOf(v).guid = req[v].inst
    BY <1>1 DEF RecordOf
  <2>4. InstanceKnown(v)
    BY DEF RecordsInv
  <2> QED BY <1>1, <2>2, <2>3, <2>4 DEF InstanceKnown, Answered
<1> QED BY <1>2, <1>3

(* It is enough to look at the record and the worker of the step. *)
LEMMA RecordsStep ==
  ASSUME RecordsInv, AskedInv', ForeignInv', NEW w \in Workers, pc[w] # "idle", Moves(w),
         req'[w] = req[w] \/ pc'[w] = "idle",
         OwnRecord(w), OneRecord', InstanceKnown(w)'
  PROVE  RecordsInv'
<1>1. ASSUME NEW v \in Workers PROVE InstanceKnown(v)'
  BY <1>1, OthersKnow
<1>2. ASSUME NEW v \in Workers, pc'[v] # "idle"
      PROVE  pc[v] # "idle" /\ req'[v] = req[v]
  BY <1>2, OthersStay DEF RecordsInv, AskedInv
<1>3. OneRequest'
  BY <1>2 DEF RecordsInv, OneRequest
<1> QED BY <1>1, <1>3 DEF RecordsInv

(* ... or at the worker alone, when no instance changes. *)
LEMMA RecordsKept ==
  ASSUME RecordsInv, AskedInv', ForeignInv', NEW w \in Workers, pc[w] # "idle", Moves(w),
         req'[w] = req[w] \/ pc'[w] = "idle",
         UNCHANGED instanceRows, InstanceKnown(w)'
  PROVE  RecordsInv'
<1>1. OwnRecord(w) /\ OneRecord'
  BY DEF OwnRecord, RecordsInv, OneRecord
<1> QED BY <1>1, RecordsStep

(* A handler that goes on knows what it knew, and one that fails has nothing to say. *)
LEMMA KnowsStill ==
  ASSUME NEW w, InstanceKnown(w), UNCHANGED instanceRows, req'[w] = req[w],
         inst'[w] = inst[w],
         \/ pc[w] = "createDb" /\ pc'[w] = "addInstance"
         \/ /\ {pc[w], pc'[w]} \subseteq InstLabels \ {"createDb", "addInstance"}
         \/ /\ pc'[w] = "done"
            /\ resp'[w].code \in {400, 409, 500} \/ req[w].op \in {"bind", "unbind"}
  PROVE  InstanceKnown(w)'
<1>1. RecordOf(w)' = RecordOf(w)
  BY DEF RecordOf
<1> QED BY <1>1, LabelFacts DEF InstanceKnown, Answered, Unrecorded

(* Every step of a handler preserves the invariant. *)
LEMMA RecordsHandle ==
  ASSUME SerialSetting, RecordsInv, AskedInv', ForeignInv', NEW w \in Workers, Handle(w)
  PROVE  RecordsInv'
<1> USE DEF GoesTo, Ends, Same, storeVars
<1>a. /\ TypeInv /\ AskedInv /\ InstanceKnown(w) /\ "storeRead" \notin FaultKinds
      /\ OneRecord
  BY DEF RecordsInv, AskedInv, SerialSetting
<1>b. ASSUME NEW found, getServiceInstance(w, found)
      PROVE  /\ UNCHANGED instanceRows
             /\ found = None => Unrecorded(req[w].inst)
             /\ found # None => [guid |-> req[w].inst, data |-> found] \in instanceRows
  BY <1>a, <1>b, LookupExact
<1>1. CASE CreateUnknownPlan(w)
  <2>1. /\ UNCHANGED instanceRows /\ pc[w] # "idle" /\ Moves(w) /\ req'[w] = req[w]
        /\ InstanceKnown(w)'
    BY <1>a, <1>1, CreateUnknownPlanStep, KnowsStill, LabelFacts
  <2> QED BY <2>1, RecordsKept
<1>2. CASE CreateExisting(w)
  <2>1. PICK found \in InstanceData :
          /\ getServiceInstance(w, found)
          /\ \/ compareService(found, req[w]) /\ Ends(w, 200, TRUE)
             \/ ~compareService(found, req[w]) /\ Ends(w, 409, FALSE)
    BY <1>a, <1>2, CreateExistingStep
  <2>2. /\ UNCHANGED instanceRows
        /\ [guid |-> req[w].inst, data |-> found] \in instanceRows
    BY <1>b, <2>1, NoneAssumption
  <2>3. pc[w] # "idle" /\ Moves(w) /\ req'[w] = req[w] /\ pc'[w] = "done" /\ req[w].op = "create"
    BY <1>a, <1>2, <2>1, CreateExistingStep
  <2>4. resp'[w].code = 200 => compareService(found, req[w])
    BY <2>1
  <2>5. resp'[w].code \in {200, 409}
    BY <2>1
  <2>6. InstanceKnown(w)'
    BY <2>2, <2>3, <2>4, <2>5, LabelFacts DEF InstanceKnown, Answered, compareService
  <2> QED BY <2>2, <2>3, <2>6, RecordsKept
<1>3. CASE CreateNew(w)
  <2>1. /\ UNCHANGED instanceRows /\ pc[w] # "idle" /\ Moves(w) /\ req'[w] = req[w]
        /\ Unrecorded(req[w].inst) /\ req[w].op = "create"
    BY <1>a, <1>b, <1>3, CreateNewStep, SMTT(30), ZenonT(60)
  <2>2. CASE pc'[w] = "createDb"
    BY <2>1, <2>2, LabelFacts, RecordsKept DEF InstanceKnown, Answered, Unrecorded
  <2>3. CASE Ends(w, 500, FALSE)
    BY <2>1, <2>3, LabelFacts, RecordsKept DEF InstanceKnown, Answered
  <2> QED BY <1>a, <1>3, <2>2, <2>3, CreateNewStep
<1>4. CASE CreateDb(w)
  <2>1. /\ UNCHANGED instanceRows /\ Moves(w) /\ req'[w] = req[w] /\ inst'[w] = inst[w]
        /\ pc[w] = "createDb"
    BY <1>a, <1>4, CreateDbStep, SMTT(30), ZenonT(60)
  <2>2. \/ pc'[w] = "addInstance"
        \/ pc'[w] = "done" /\ resp'[w].code = 500
    BY <1>a, <1>4, CreateDbLeads
  <2>3. InstanceKnown(w)'
    BY <1>a, <2>1, <2>2, KnowsStill, LabelFacts
  <2> QED BY <2>1, <2>3, RecordsKept
<1>5. CASE StoreInstance(w)
  <2>1. PICK reply \in BOOLEAN :
          /\ AddInstance(req[w].inst, inst[w], reply)
          /\ \/ reply = TRUE /\ Ends(w, 201, TRUE)
             \/ reply = FALSE /\ Ends(w, 500, FALSE)
    BY <1>a, <1>5, StoreInstanceStep, SMTT(30), ZenonT(60)
  <2>2. pc[w] = "addInstance" /\ req[w].op = "create" /\ inst'[w] = inst[w]
    BY <1>a, <1>5, StoreInstanceStep
  <2>3. Unrecorded(req[w].inst)
    BY <1>a, <2>2 DEF InstanceKnown
  <2>4. reply = TRUE /\ instanceRows' = instanceRows \cup {RecordOf(w)}
    <3>1. AddInstance(req[w].inst, inst[w], reply)
      BY <2>1
    <3> QED BY <2>3, <3>1, AddInstanceSerial DEF RecordOf
  <2>5. Ends(w, 201, TRUE)
    BY <2>1, <2>4
  <2>6. OwnRecord(w) /\ OneRecord'
    BY <1>a, <2>3, <2>4 DEF OwnRecord, OneRecord, Unrecorded, RecordOf
  <2>7. /\ inst[w].plan = req[w].plan /\ inst[w].meta = req[w].meta
        /\ req[w].db \in {inst[w].db, None}
    BY <1>a, <2>2 DEF AskedInv, Asked
  <2>8. \E r \in instanceRows' :
          /\ r.guid = req[w].inst
          /\ r.data.plan = req[w].plan /\ r.data.meta = req[w].meta
          /\ req[w].db \in {r.data.db, None}
    <3>1. RecordOf(w) \in instanceRows'
      BY <2>4
    <3>2. RecordOf(w).guid = req[w].inst /\ RecordOf(w).data = inst[w]
      BY DEF RecordOf
    <3> QED BY <2>7, <3>1, <3>2
  <2>9. InstanceKnown(w)'
    BY <2>2, <2>5, <2>8, LabelFacts DEF InstanceKnown, Answered
  <2> QED BY <2>2, <2>5, <2>6, <2>9, RecordsStep
<1>6. CASE Get(w)
  <2>1. /\ UNCHANGED instanceRows /\ pc[w] # "idle" /\ Moves(w) /\ req'[w] = req[w]
        /\ req[w].op = "get"
    BY <1>a, <1>b, <1>6, GetStep, SMTT(30), ZenonT(60)
  <2>2. InstanceKnown(w)'
    BY <1>a, <1>b, <1>6, <2>1, GetStep, LabelFacts
       DEF InstanceKnown, Answered, RecordOf, Unrecorded
  <2> QED BY <2>1, <2>2, RecordsKept
<1>7. CASE Remove(w)
  <2>1. /\ UNCHANGED instanceRows /\ pc[w] # "idle" /\ Moves(w) /\ req'[w] = req[w]
        /\ req[w].op = "remove"
    BY <1>a, <1>b, <1>7, RemoveStep, SMTT(30), ZenonT(60)
  <2>2. InstanceKnown(w)'
    BY <1>a, <1>b, <1>7, <2>1, RemoveStep, LabelFacts
       DEF InstanceKnown, Answered, RecordOf, Unrecorded
  <2> QED BY <2>1, <2>2, RecordsKept
<1>8. CASE ListBindings(w)
  <2>1. /\ UNCHANGED instanceRows /\ pc[w] # "idle" /\ Moves(w) /\ req'[w] = req[w]
        /\ InstanceKnown(w)'
    BY <1>a, <1>8, ListBindingsStep, KnowsStill, LabelFacts, ReadEffect
  <2> QED BY <2>1, RecordsKept
<1>9. CASE ListSomeBindings(w)
  <2>1. /\ UNCHANGED instanceRows /\ pc[w] # "idle" /\ Moves(w) /\ req'[w] = req[w]
        /\ InstanceKnown(w)'
    BY <1>a, <1>9, ListSomeBindingsStep, KnowsStill, LabelFacts
  <2> QED BY <2>1, RecordsKept
<1>10. CASE NextBinding(w)
  <2>1. /\ UNCHANGED instanceRows /\ pc[w] # "idle" /\ Moves(w) /\ req'[w] = req[w]
        /\ InstanceKnown(w)'
    BY <1>a, <1>10, NextBindingStep, KnowsStill, LabelFacts
  <2> QED BY <2>1, RecordsKept
<1>11. CASE DeleteDb(w)
  <2>1. /\ UNCHANGED instanceRows /\ Moves(w) /\ req'[w] = req[w] /\ inst'[w] = inst[w]
        /\ pc[w] = "deleteDb"
    BY <1>a, <1>11, DeleteDbStep, SMTT(30), ZenonT(60)
  <2>2. \/ pc'[w] = "deleteInstance"
        \/ pc'[w] = "done" /\ resp'[w].code = 500
    BY <1>a, <1>11, DeleteDbLeads
  <2>3. InstanceKnown(w)'
    BY <1>a, <2>1, <2>2, KnowsStill, LabelFacts
  <2> QED BY <2>1, <2>3, RecordsKept
<1>12. CASE EraseInstance(w)
  <2>1. /\ pc[w] = "deleteInstance" /\ req[w].op = "remove" /\ Ends(w, 200, TRUE)
        /\ \E reply \in BOOLEAN : DeleteInstance(req[w].inst, reply)
    BY <1>a, <1>12, EraseInstanceStep
  <2>2. instanceRows' = {r \in instanceRows : r.guid # req[w].inst}
    BY <2>1, DeleteInstanceSerial
  <2>3. OwnRecord(w) /\ OneRecord'
    BY <1>a, <2>2 DEF OwnRecord, OneRecord
  <2>4. InstanceKnown(w)'
    BY <2>1, <2>2, LabelFacts DEF InstanceKnown, Answered, Unrecorded
  <2> QED BY <2>1, <2>3, <2>4, RecordsStep
<1>13. CASE Bind(w)
  <2>1. /\ UNCHANGED instanceRows /\ pc[w] # "idle" /\ Moves(w) /\ req'[w] = req[w]
        /\ req[w].op = "bind"
    BY <1>a, <1>b, <1>13, BindFirstStep, SMTT(30), ZenonT(60)
  <2>2. InstanceKnown(w)'
    BY <1>a, <1>b, <1>13, <2>1, BindFirstStep, LabelFacts
       DEF InstanceKnown, Answered, RecordOf
  <2> QED BY <2>1, <2>2, RecordsKept
<1>14. CASE FindBinding(w)
  <2>1. /\ UNCHANGED instanceRows /\ pc[w] # "idle" /\ Moves(w) /\ req'[w] = req[w]
        /\ InstanceKnown(w)'
    BY <1>a, <1>14, FindBindingStep, KnowsStill, LabelFacts, ReadEffect
  <2> QED BY <2>1, RecordsKept
<1>15. CASE CheckUser(w)
  <2>1. /\ UNCHANGED instanceRows /\ pc[w] # "idle" /\ Moves(w) /\ req'[w] = req[w]
        /\ InstanceKnown(w)'
    BY <1>a, <1>15, CheckUserStep, KnowsStill, LabelFacts
  <2> QED BY <2>1, RecordsKept
<1>16. CASE MakeUser(w)
  <2>1. /\ UNCHANGED instanceRows /\ Moves(w) /\ req'[w] = req[w] /\ inst'[w] = inst[w]
        /\ pc[w] = "newUser"
    BY <1>a, <1>16, MakeUserStep, SMTT(30), ZenonT(60)
  <2>2. \/ pc'[w] = "grantWrite"
        \/ pc'[w] = "done" /\ resp'[w].code = 500
    BY <1>a, <1>16, MakeUserLeads
  <2>3. InstanceKnown(w)'
    BY <1>a, <2>1, <2>2, KnowsStill, LabelFacts
  <2> QED BY <2>1, <2>3, RecordsKept
<1>17. CASE GrantWrite(w)
  <2>1. /\ UNCHANGED instanceRows /\ Moves(w) /\ req'[w] = req[w] /\ inst'[w] = inst[w]
        /\ pc[w] = "grantWrite"
    BY <1>a, <1>17, GrantWriteStep, SMTT(30), ZenonT(60)
  <2>2. \/ pc'[w] = "grantRead"
        \/ pc'[w] = "done" /\ resp'[w].code = 500
    BY <1>a, <1>17, GrantWriteLeads
  <2>3. InstanceKnown(w)'
    BY <1>a, <2>1, <2>2, KnowsStill, LabelFacts
  <2> QED BY <2>1, <2>3, RecordsKept
<1>18. CASE GrantRead(w)
  <2>1. /\ UNCHANGED instanceRows /\ Moves(w) /\ req'[w] = req[w] /\ inst'[w] = inst[w]
        /\ pc[w] = "grantRead"
    BY <1>a, <1>18, GrantReadStep, SMTT(30), ZenonT(60)
  <2>2. \/ pc'[w] \in {"checkInstance", "addBinding"}
        \/ pc'[w] = "done" /\ resp'[w].code = 500
    BY <1>a, <1>18, GrantReadLeads
  <2>3. InstanceKnown(w)'
    BY <1>a, <2>1, <2>2, KnowsStill, LabelFacts
  <2> QED BY <2>1, <2>3, RecordsKept
<1>19. CASE CheckInstance(w)
  <2>1. /\ UNCHANGED instanceRows /\ pc[w] # "idle" /\ Moves(w) /\ req'[w] = req[w]
        /\ InstanceKnown(w)'
    BY <1>a, <1>19, CheckInstanceStep, KnowsStill, LabelFacts, ReadEffect
  <2> QED BY <2>1, RecordsKept
<1>20. CASE StoreBinding(w)
  <2>1. /\ UNCHANGED instanceRows /\ pc[w] # "idle" /\ Moves(w) /\ req'[w] = req[w]
        /\ InstanceKnown(w)'
    BY <1>a, <1>20, StoreBindingStep, KnowsStill, LabelFacts, AddBindingEffect, SMTT(30), ZenonT(60)
  <2> QED BY <2>1, RecordsKept
<1>21. CASE Unbind(w)
  <2>1. /\ UNCHANGED instanceRows /\ pc[w] # "idle" /\ Moves(w) /\ req'[w] = req[w]
        /\ req[w].op = "unbind"
    BY <1>a, <1>b, <1>21, UnbindFirstStep, SMTT(30), ZenonT(60)
  <2>2. InstanceKnown(w)'
    BY <1>a, <1>b, <1>21, <2>1, UnbindFirstStep, LabelFacts
       DEF InstanceKnown, Answered, RecordOf
  <2> QED BY <2>1, <2>2, RecordsKept
<1>22. CASE UnbindGet(w)
  <2>1. /\ UNCHANGED instanceRows /\ pc[w] # "idle" /\ Moves(w) /\ req'[w] = req[w]
        /\ InstanceKnown(w)'
    BY <1>a, <1>22, UnbindGetStep, KnowsStill, LabelFacts, ReadEffect
  <2> QED BY <2>1, RecordsKept
<1>23. CASE EraseBinding(w)
  <2>1. /\ UNCHANGED instanceRows /\ Moves(w) /\ req'[w] = req[w] /\ inst'[w] = inst[w]
        /\ pc[w] = "deleteBinding"
    BY <1>a, <1>23, EraseBindingStep, DeleteBindingEffect, SMTT(30), ZenonT(60)
  <2>2. \/ pc'[w] = "revokeWrite"
        \/ pc'[w] = "done" /\ resp'[w].code = 500
    BY <1>a, <1>23, EraseBindingLeads
  <2>3. InstanceKnown(w)'
    BY <1>a, <2>1, <2>2, KnowsStill, LabelFacts
  <2> QED BY <2>1, <2>3, RecordsKept
<1>24. CASE RevokeWrite(w)
  <2>1. /\ UNCHANGED instanceRows /\ Moves(w) /\ req'[w] = req[w] /\ inst'[w] = inst[w]
        /\ pc[w] = "revokeWrite"
    BY <1>a, <1>24, RevokeWriteStep, SMTT(30), ZenonT(60) DEF UnbindFailed
  <2>2. \/ pc'[w] \in {"revokeRead", "nextBinding"}
        \/ pc'[w] = "done" /\ (resp'[w].code = 500 \/ req[w].op = "unbind")
    BY <1>a, <1>24, RevokeWriteStep, SMTT(30), ZenonT(60) DEF UnbindFailed
  <2>3. InstanceKnown(w)'
    BY <1>a, <2>1, <2>2, KnowsStill, LabelFacts
  <2> QED BY <2>1, <2>3, RecordsKept
<1>25. CASE RevokeRead(w)
  <2>1. /\ UNCHANGED instanceRows /\ Moves(w) /\ req'[w] = req[w] /\ inst'[w] = inst[w]
        /\ pc[w] = "revokeRead"
    BY <1>a, <1>25, RevokeReadStep, SMTT(30), ZenonT(60) DEF UnbindFailed
  <2>2. \/ pc'[w] \in {"deleteUser", "nextBinding"}
        \/ pc'[w] = "done" /\ (resp'[w].code = 500 \/ req[w].op = "unbind")
    BY <1>a, <1>25, RevokeReadStep, SMTT(30), ZenonT(60) DEF UnbindFailed
  <2>3. InstanceKnown(w)'
    BY <1>a, <2>1, <2>2, KnowsStill, LabelFacts
  <2> QED BY <2>1, <2>3, RecordsKept
<1>26. CASE RemoveUser(w)
  <2>1. /\ UNCHANGED instanceRows /\ Moves(w) /\ req'[w] = req[w] /\ inst'[w] = inst[w]
        /\ pc[w] = "deleteUser"
    BY <1>a, <1>26, RemoveUserStep, SMTT(30), ZenonT(60) DEF UnbindFailed, UnbindDone
  <2>2. \/ pc'[w] = "nextBinding"
        \/ pc'[w] = "done" /\ (resp'[w].code = 500 \/ req[w].op = "unbind")
    BY <1>a, <1>26, RemoveUserStep, SMTT(30), ZenonT(60) DEF UnbindFailed, UnbindDone
  <2>3. InstanceKnown(w)'
    BY <1>a, <2>1, <2>2, KnowsStill, LabelFacts
  <2> QED BY <2>1, <2>3, RecordsKept
<1> QED BY <1>1, <1>2, <1>3, <1>4, <1>5, <1>6, <1>7, <1>8, <1>9, <1>10, <1>11, <1>12,
           <1>13, <1>14, <1>15, <1>16, <1>17, <1>18, <1>19, <1>20, <1>21, <1>22, <1>23,
           <1>24, <1>25, <1>26 DEF Handle

(* So does every step. *)
LEMMA RecordsNext ==
  ASSUME SerialSetting, RecordsInv, [Next]_vars
  PROVE  RecordsInv'
<1>1. TypeInv /\ ForeignInv /\ AskedInv /\ SamePlans
  BY DEF RecordsInv, AskedInv, SerialSetting, SamePlans
<1>2. AskedInv' /\ ForeignInv'
  BY <1>1, AskedNext, ForeignNext
<1>3. ASSUME NEW w \in Workers, Handle(w) PROVE RecordsInv'
  BY <1>2, <1>3, RecordsHandle
<1>4. ASSUME NEW w \in Workers, Panic(w) \/ Return(w) PROVE RecordsInv'
  <2>1. /\ pc[w] # "idle" /\ Moves(w) /\ pc'[w] = "idle" /\ UNCHANGED instanceRows
    BY <1>1, <1>4, EndStep, ExitStep DEF storeVars, Ops
  <2>2. InstanceKnown(w)'
    BY <2>1, LabelFacts DEF InstanceKnown, Answered
  <2> QED BY <1>2, <2>1, <2>2, RecordsKept
<1>5. ASSUME NEW w \in Workers, NEW r \in Requests, Receive(w, r) PROVE RecordsInv'
  <2>1. /\ pc[w] = "idle" /\ Moves(w) /\ pc'[w] \in Ops /\ req'[w] = r
        /\ UNCHANGED instanceRows
    BY <1>1, <1>5, ReceiveStep DEF storeVars
  <2>2. InstanceKnown(w)'
    BY <2>1, LabelFacts DEF InstanceKnown, Answered, Ops
  <2>3. ASSUME NEW v \in Workers PROVE InstanceKnown(v)'
    BY <2>1, <2>2, <2>3, OthersKnow
  <2>4. ASSUME NEW v \in Workers, v # w
        PROVE  /\ pc'[v] = pc[v] /\ req'[v] = req[v]
               /\ pc[v] # "idle" => req[v].inst # r.inst
    <3>1. ~Busy(r.inst)
      BY <1>1, <1>5, ReceiveStep DEF SerialSetting
    <3> QED BY <1>1, <2>1, <2>4, <3>1, OthersStay DEF Busy
  <2>5. OneRequest'
    BY <2>1, <2>4 DEF RecordsInv, OneRequest
  <2>6. OneRecord'
    BY <2>1 DEF RecordsInv, OneRecord
  <2> QED BY <1>2, <2>3, <2>5, <2>6 DEF RecordsInv
<1>6. CASE Restart
  BY <1>6 DEF Restart, Fault, SerialSetting
<1>7. CASE UNCHANGED vars
  <2>1. ASSUME NEW w \in Workers PROVE InstanceKnown(w)'
    BY <1>7 DEF vars, locals, storeVars, RecordsInv, InstanceKnown, Answered, RecordOf,
                Unrecorded
  <2> QED BY <1>2, <1>7, <2>1
          DEF vars, locals, storeVars, RecordsInv, OneRequest, OneRecord
<1> QED BY <1>3, <1>4, <1>5, <1>6, <1>7 DEF Next

-----------------------------------------------------------------------------
(* DatabasesInv is an invariant. *)

(* Initially the databases are those of others. *)
LEMMA DatabasesInit == Init => DatabasesInv
<1> SUFFICES ASSUME Init PROVE DatabasesInv
  OBVIOUS
<1>1. databases = ExistingDbs /\ instanceRows = {} /\ \A w \in Workers : pc[w] = "idle"
  BY DEF Init
<1>2. Owners = {}
  BY <1>1 DEF Owners
<1> QED BY <1>1, <1>2, RecordsInit DEF DatabasesInv, OwnersServed, OwnersDiffer, AllOwned

(* The owners stay when neither the record nor the two labels that make owners move. *)
LEMMA OwnersStay ==
  ASSUME TypeInv, NEW w \in Workers, Moves(w), UNCHANGED instanceRows,
         {pc[w], pc'[w]} \cap {"addInstance", "deleteInstance"} = {}
  PROVE  Owners' = Owners
<1>1. ASSUME NEW v \in Workers
      PROVE  /\ (pc'[v] = "addInstance") = (pc[v] = "addInstance")
             /\ (pc'[v] = "deleteInstance") = (pc[v] = "deleteInstance")
             /\ pc[v] \in {"addInstance", "deleteInstance"} =>
                  RecordOf(v)' = RecordOf(v) /\ req'[v].inst = req[v].inst
  BY <1>1, OthersStay DEF RecordOf
<1>2. \A r \in instanceRows : BeingErased(r)' = BeingErased(r)
  BY <1>1 DEF BeingErased
<1>3. {RecordOf(v) : v \in {u \in Workers : pc[u] = "addInstance"}}' =
        {RecordOf(v) : v \in {u \in Workers : pc[u] = "addInstance"}}
  BY <1>1
<1> QED BY <1>2, <1>3 DEF Owners

(* With the owners and the databases as they were, nothing else matters. *)
LEMMA DatabasesKept ==
  ASSUME DatabasesInv, RecordsInv', UNCHANGED databases, Owners' = Owners
  PROVE  DatabasesInv'
  BY DEF DatabasesInv, OwnersServed, OwnersDiffer, AllOwned

(* A quiet step. *)
LEMMA DatabasesQuiet ==
  ASSUME DatabasesInv, RecordsInv', NEW w \in Workers, Moves(w),
         UNCHANGED <<databases, instanceRows>>,
         {pc[w], pc'[w]} \cap {"addInstance", "deleteInstance"} = {}
  PROVE  DatabasesInv'
  BY OwnersStay, DatabasesKept DEF DatabasesInv, RecordsInv, AskedInv

(* CreateDb makes an owner with its database, or none. *)
LEMMA CreateDbOwns ==
  ASSUME SerialSetting, DatabasesInv, RecordsInv', NEW w \in Workers, CreateDb(w)
  PROVE  DatabasesInv'
<1> USE DEF GoesTo, Ends, Same, storeVars, stardogVars
<1> DEFINE db == DatabaseOf(inst[w])
<1>a. TypeInv /\ RecordsInv /\ ForeignInv
  BY DEF DatabasesInv, RecordsInv, AskedInv
<1>1. /\ UNCHANGED instanceRows /\ pc[w] = "createDb" /\ Same(w)
      /\ req[w].op = "create"
  BY <1>a, CreateDbStep, SMTT(30), ZenonT(60)
<1>2. \/ CreateDatabase(ServerOf(inst[w]), inst[w].db, TRUE) /\ GoesTo(w, "addInstance")
      \/ CreateDatabase(ServerOf(inst[w]), inst[w].db, FALSE) /\ Ends(w, 500, FALSE)
  BY <1>a, CreateDbStep, Zenon
<1>3. CASE /\ CreateDatabase(ServerOf(inst[w]), inst[w].db, FALSE)
           /\ Ends(w, 500, FALSE)
  <2>1. UNCHANGED databases
    BY <1>3, CreateDatabaseExact, SMTT(30), ZenonT(60)
  <2> QED BY <1>1, <1>3, <2>1, DatabasesQuiet
<1>4. CASE /\ CreateDatabase(ServerOf(inst[w]), inst[w].db, TRUE)
           /\ GoesTo(w, "addInstance")
  <2>1. db \notin databases /\ databases' = databases \cup {db}
    BY <1>4, CreateDatabaseExact DEF DatabaseOf
  <2>2. Moves(w) /\ pc'[w] = "addInstance" /\ RecordOf(w)' = RecordOf(w)
    BY <1>1, <1>4 DEF RecordOf
  <2>3. ASSUME NEW v \in Workers, v # w
        PROVE pc'[v] = pc[v] /\ req'[v] = req[v] /\ RecordOf(v)' = RecordOf(v)
    BY <1>a, <2>2, <2>3, OthersStay DEF RecordOf
  <2>4. \A r \in instanceRows : BeingErased(r)' = BeingErased(r)
    BY <1>1, <2>2, <2>3 DEF BeingErased
  <2>5. {RecordOf(v) : v \in {u \in Workers : pc[u] = "addInstance"}}' =
          {RecordOf(v) : v \in {u \in Workers : pc[u] = "addInstance"}} \cup {RecordOf(w)}
    BY <1>1, <2>2, <2>3
  <2>6. Owners' = Owners \cup {RecordOf(w)}
    BY <1>1, <2>4, <2>5 DEF Owners
  <2>7. \A r : DatabaseOf(r.data)' = DatabaseOf(r.data)
    BY DEF DatabaseOf, ServerOf
  <2>8. DatabaseOf(RecordOf(w).data) = db
    BY DEF RecordOf
  <2>9. \A r \in Owners : DatabaseOf(r.data) # db
    BY <2>1 DEF DatabasesInv, OwnersServed
  <2> HIDE DEF db
  <2>10. OwnersServed'
    BY <2>1, <2>6, <2>8 DEF DatabasesInv, OwnersServed
  <2>11. OwnersDiffer'
    BY <2>6, <2>8, <2>9 DEF DatabasesInv, OwnersDiffer
  <2>12. AllOwned'
    BY <2>1, <2>6, <2>8 DEF DatabasesInv, AllOwned
  <2> QED BY <2>10, <2>11, <2>12 DEF DatabasesInv
<1> QED BY <1>2, <1>3, <1>4

(* StoreInstance turns the owner into the record it was about to be. *)
LEMMA StoreInstanceOwns ==
  ASSUME SerialSetting, DatabasesInv, RecordsInv', NEW w \in Workers, StoreInstance(w)
  PROVE  DatabasesInv'
<1>a. TypeInv /\ RecordsInv /\ InstanceKnown(w) /\ OneRequest
  BY DEF DatabasesInv, RecordsInv, AskedInv
<1>1. PICK reply \in BOOLEAN :
        /\ AddInstance(req[w].inst, inst[w], reply)
        /\ \/ reply = TRUE /\ Ends(w, 201, TRUE)
           \/ reply = FALSE /\ Ends(w, 500, FALSE)
  BY <1>a, StoreInstanceStep, SMTT(30), ZenonT(60)
<1> USE DEF GoesTo, Ends, Same, storeVars
<1>2. UNCHANGED databases /\ pc[w] = "addInstance" /\ Moves(w) /\ pc'[w] = "done"
  BY <1>a, <1>1, StoreInstanceStep DEF stardogVars
<1>3. Unrecorded(req[w].inst)
  BY <1>a, <1>2 DEF InstanceKnown
<1>4. instanceRows' = instanceRows \cup {RecordOf(w)}
  <2>1. AddInstance(req[w].inst, inst[w], reply)
    BY <1>1
  <2> QED BY <1>3, <2>1, AddInstanceSerial DEF RecordOf
<1>5. ASSUME NEW v \in Workers, v # w
      PROVE  /\ pc'[v] = pc[v] /\ req'[v] = req[v] /\ RecordOf(v)' = RecordOf(v)
             /\ pc[v] # "idle" => req[v].inst # req[w].inst
  BY <1>a, <1>2, <1>5, OthersStay DEF RecordOf, OneRequest
<1>6. \A r \in instanceRows : BeingErased(r)' = BeingErased(r)
  BY <1>2, <1>5 DEF BeingErased
<1>7. ASSUME NEW r, r.guid = req[w].inst PROVE ~BeingErased(r)'
  BY <1>2, <1>5, <1>7 DEF BeingErased
<1>8. {RecordOf(v) : v \in {u \in Workers : pc[u] = "addInstance"}}' \cup {RecordOf(w)} =
        {RecordOf(v) : v \in {u \in Workers : pc[u] = "addInstance"}}
  BY <1>2, <1>5
<1>9. Owners' = Owners
  <2>1. RecordOf(w).guid = req[w].inst
    BY DEF RecordOf
  <2> QED BY <1>4, <1>6, <1>7, <1>8, <2>1 DEF Owners
<1> QED BY <1>2, <1>9, DatabasesKept

(* DeleteDb takes the database together with its owner, or nothing. *)
LEMMA DeleteDbOwns ==
  ASSUME SerialSetting, DatabasesInv, RecordsInv', NEW w \in Workers, DeleteDb(w)
  PROVE  DatabasesInv'
<1> DEFINE db == DatabaseOf(inst[w])
<1>a. TypeInv /\ RecordsInv /\ InstanceKnown(w) /\ OneRequest /\ OneRecord
  BY DEF DatabasesInv, RecordsInv, AskedInv
<1>1. UNCHANGED instanceRows /\ pc[w] = "deleteDb" /\ Same(w)
  BY <1>a, DeleteDbStep DEF storeVars
<1>2. \/ DeleteDatabase(ServerOf(inst[w]), inst[w].db, TRUE) /\ GoesTo(w, "deleteInstance")
      \/ DeleteDatabase(ServerOf(inst[w]), inst[w].db, FALSE) /\ Ends(w, 500, FALSE)
  BY <1>a, DeleteDbStep, Zenon
<1> USE DEF GoesTo, Ends, Same
<1>3. CASE /\ DeleteDatabase(ServerOf(inst[w]), inst[w].db, FALSE)
           /\ Ends(w, 500, FALSE)
  <2>1. UNCHANGED databases
    BY <1>3, DeleteDatabaseExact, SMTT(30), ZenonT(60)
  <2> QED BY <1>1, <1>3, <2>1, DatabasesQuiet
<1>4. CASE /\ DeleteDatabase(ServerOf(inst[w]), inst[w].db, TRUE)
           /\ GoesTo(w, "deleteInstance")
  <2>1. databases' = databases \ {db}
    BY <1>4, DeleteDatabaseExact DEF DatabaseOf
  <2>2. Moves(w) /\ pc'[w] = "deleteInstance" /\ req'[w] = req[w]
    BY <1>4
  <2>3. ASSUME NEW v \in Workers, v # w
        PROVE  /\ pc'[v] = pc[v] /\ req'[v] = req[v] /\ RecordOf(v)' = RecordOf(v)
               /\ pc[v] # "idle" => RecordOf(v) # RecordOf(w)
    <3>1. pc[v] # "idle" => req[v].inst # req[w].inst
      BY <1>a, <1>1, <2>3 DEF OneRequest
    <3>2. RecordOf(v).guid = req[v].inst /\ RecordOf(w).guid = req[w].inst
      BY DEF RecordOf
    <3>3. pc'[v] = pc[v] /\ req'[v] = req[v] /\ inst'[v] = inst[v]
      BY <1>a, <2>2, <2>3, OthersStay
    <3> QED BY <3>1, <3>2, <3>3 DEF RecordOf
  <2>4. \A r \in instanceRows :
          BeingErased(r)' = (BeingErased(r) \/ r.guid = req[w].inst)
    BY <1>1, <2>2, <2>3 DEF BeingErased
  <2>5. RecordOf(w) \in instanceRows /\ RecordOf(w).guid = req[w].inst
    BY <1>a, <1>1, LabelFacts DEF InstanceKnown, RecordOf
  <2>6. \A r \in instanceRows : r.guid = req[w].inst <=> r = RecordOf(w)
    BY <1>a, <2>5 DEF OneRecord
  <2>7. {RecordOf(v) : v \in {u \in Workers : pc[u] = "addInstance"}}' =
          {RecordOf(v) : v \in {u \in Workers : pc[u] = "addInstance"}} \ {RecordOf(w)}
    BY <1>1, <2>2, <2>3
  <2>8. Owners' = Owners \ {RecordOf(w)}
    BY <1>1, <2>4, <2>6, <2>7 DEF Owners
  <2>9. RecordOf(w) \in Owners
    <3>1. ~BeingErased(RecordOf(w))
      BY <1>a, <1>1, <2>5 DEF BeingErased, OneRequest
    <3> QED BY <2>5, <3>1 DEF Owners
  <2>10. DatabaseOf(RecordOf(w).data) = db
    BY DEF RecordOf
  <2> HIDE DEF db
  <2>11. \A r \in Owners' : r \in Owners /\ DatabaseOf(r.data) # db
    BY <2>8, <2>9, <2>10 DEF DatabasesInv, OwnersDiffer
  <2>12. OwnersServed'
    BY <2>1, <2>11 DEF DatabasesInv, OwnersServed
  <2>13. OwnersDiffer'
    BY <2>11 DEF DatabasesInv, OwnersDiffer
  <2>14. AllOwned'
    BY <2>1, <2>8, <2>10 DEF DatabasesInv, AllOwned
  <2> QED BY <2>12, <2>13, <2>14 DEF DatabasesInv
<1> QED BY <1>2, <1>3, <1>4

(* EraseInstance drops a record that owned nothing any more. *)
LEMMA EraseInstanceOwns ==
  ASSUME SerialSetting, DatabasesInv, RecordsInv', NEW w \in Workers, EraseInstance(w)
  PROVE  DatabasesInv'
<1>a. TypeInv
  BY DEF DatabasesInv, RecordsInv, AskedInv
<1>1. /\ pc[w] = "deleteInstance" /\ UNCHANGED databases /\ Ends(w, 200, TRUE)
      /\ \E reply \in BOOLEAN : DeleteInstance(req[w].inst, reply)
  BY <1>a, EraseInstanceStep DEF stardogVars
<1>2. Moves(w) /\ pc'[w] = "done" /\ req'[w] = req[w]
  BY <1>1 DEF Ends
<1>3. instanceRows' = {r \in instanceRows : r.guid # req[w].inst}
  BY <1>1, DeleteInstanceSerial
<1>4. ASSUME NEW v \in Workers, v # w
      PROVE pc'[v] = pc[v] /\ req'[v] = req[v] /\ RecordOf(v)' = RecordOf(v)
  BY <1>a, <1>2, <1>4, OthersStay DEF RecordOf
<1>5. \A r \in instanceRows :
        BeingErased(r) = (r.guid = req[w].inst \/ BeingErased(r)')
  BY <1>1, <1>2, <1>4 DEF BeingErased
<1>6. {RecordOf(v) : v \in {u \in Workers : pc[u] = "addInstance"}}' =
        {RecordOf(v) : v \in {u \in Workers : pc[u] = "addInstance"}}
  BY <1>1, <1>2, <1>4
<1>7. Owners' = Owners
  BY <1>3, <1>5, <1>6 DEF Owners
<1> QED BY <1>1, <1>7, DatabasesKept

(* The other steps of a handler are quiet. *)
LEMMA DatabasesHandle ==
  ASSUME SerialSetting, DatabasesInv, RecordsInv', NEW w \in Workers, Handle(w)
  PROVE  DatabasesInv'
<1> USE DEF GoesTo, Ends, storeVars, stardogVars
<1>a. TypeInv
  BY DEF DatabasesInv, RecordsInv, AskedInv
<1>1. CASE CreateUnknownPlan(w)
  BY <1>a, <1>1, CreateUnknownPlanStep, DatabasesQuiet
<1>2. CASE CreateExisting(w)
  BY <1>a, <1>2, CreateExistingStep, LookupEffect, DatabasesQuiet
<1>3. CASE CreateNew(w)
  BY <1>a, <1>3, CreateNewStep, LookupEffect, DatabasesQuiet
<1>4. CASE CreateDb(w)
  BY <1>4, CreateDbOwns
<1>5. CASE StoreInstance(w)
  BY <1>5, StoreInstanceOwns
<1>6. CASE Get(w)
  BY <1>a, <1>6, GetStep, LookupEffect, DatabasesQuiet
<1>7. CASE Remove(w)
  BY <1>a, <1>7, RemoveStep, LookupEffect, DatabasesQuiet
<1>8. CASE ListBindings(w)
  BY <1>a, <1>8, ListBindingsStep, ReadEffect, DatabasesQuiet
<1>9. CASE ListSomeBindings(w)
  BY <1>a, <1>9, ListSomeBindingsStep, DatabasesQuiet
<1>10. CASE NextBinding(w)
  BY <1>a, <1>10, NextBindingStep, DatabasesQuiet
<1>11. CASE DeleteDb(w)
  BY <1>11, DeleteDbOwns
<1>12. CASE EraseInstance(w)
  BY <1>12, EraseInstanceOwns
<1>13. CASE Bind(w)
  BY <1>a, <1>13, BindFirstStep, LookupEffect, DatabasesQuiet
<1>14. CASE FindBinding(w)
  BY <1>a, <1>14, FindBindingStep, ReadEffect, DatabasesQuiet
<1>15. CASE CheckUser(w)
  BY <1>a, <1>15, CheckUserStep, DatabasesQuiet
<1>16. CASE MakeUser(w)
  <2>1. Moves(w) /\ pc[w] = "newUser" /\ pc'[w] \in {"grantWrite", "done"}
    BY <1>a, <1>16, MakeUserStep, MakeUserLeads, SMTT(30), ZenonT(60)
  <2>2. UNCHANGED <<databases, instanceRows>>
    <3>1. /\ UNCHANGED storeVars
          /\ \E reply : NewUser(cred[w].url, cred[w].user, reply)
      BY <1>a, <1>16, MakeUserStep, Zenon
    <3> QED BY <3>1, NewUserEffect
  <2> QED BY <2>1, <2>2, DatabasesQuiet
<1>17. CASE GrantWrite(w)
  <2>1. Moves(w) /\ pc[w] = "grantWrite" /\ pc'[w] \in {"grantRead", "done"}
    BY <1>a, <1>17, GrantWriteStep, GrantWriteLeads, SMTT(30), ZenonT(60)
  <2>2. UNCHANGED <<databases, instanceRows>>
    <3>1. /\ UNCHANGED storeVars
          /\ \E reply : Grant(cred[w].url, cred[w].user, cred[w].db, "write", reply)
      BY <1>a, <1>17, GrantWriteStep, Zenon
    <3> QED BY <3>1, GrantEffect
  <2> QED BY <2>1, <2>2, DatabasesQuiet
<1>18. CASE GrantRead(w)
  <2>1. /\ Moves(w) /\ pc[w] = "grantRead" /\ pc'[w] \in {"addBinding", "checkInstance", "done"}
    BY <1>a, <1>18, GrantReadStep, GrantReadLeads, SMTT(30), ZenonT(60)
  <2>2. UNCHANGED <<databases, instanceRows>>
    <3>1. /\ UNCHANGED storeVars
          /\ \E reply : Grant(cred[w].url, cred[w].user, cred[w].db, "read", reply)
      BY <1>a, <1>18, GrantReadStep, Zenon
    <3> QED BY <3>1, GrantEffect
  <2> QED BY <2>1, <2>2, DatabasesQuiet
<1>19. CASE CheckInstance(w)
  BY <1>a, <1>19, CheckInstanceStep, ReadEffect, DatabasesQuiet
<1>20. CASE StoreBinding(w)
  BY <1>a, <1>20, StoreBindingStep, AddBindingEffect, DatabasesQuiet, SMTT(30), ZenonT(60)
<1>21. CASE Unbind(w)
  BY <1>a, <1>21, UnbindFirstStep, LookupEffect, DatabasesQuiet
<1>22. CASE UnbindGet(w)
  BY <1>a, <1>22, UnbindGetStep, ReadEffect, DatabasesQuiet
<1>23. CASE EraseBinding(w)
  <2>1. Moves(w) /\ pc[w] = "deleteBinding" /\ pc'[w] \in {"revokeWrite", "done"}
    BY <1>a, <1>23, EraseBindingStep, EraseBindingLeads, SMTT(30), ZenonT(60)
  <2>2. UNCHANGED <<databases, instanceRows>>
    <3>1. /\ UNCHANGED stardogVars
          /\ \E reply : DeleteBinding(req[w].inst, req[w].bind, reply)
      BY <1>a, <1>23, EraseBindingStep, Zenon
    <3> QED BY <3>1, DeleteBindingEffect
  <2> QED BY <2>1, <2>2, DatabasesQuiet
<1>24. CASE RevokeWrite(w)
  <2>1. /\ Moves(w) /\ pc[w] = "revokeWrite"
        /\ pc'[w] \in {"revokeRead", "nextBinding", "done"}
    BY <1>a, <1>24, RevokeWriteStep, SMTT(30), ZenonT(60) DEF UnbindFailed
  <2>2. UNCHANGED <<databases, instanceRows>>
    BY <1>a, <1>24, RevokeWriteStep, RevokeEffect
  <2> QED BY <2>1, <2>2, DatabasesQuiet
<1>25. CASE RevokeRead(w)
  <2>1. /\ Moves(w) /\ pc[w] = "revokeRead"
        /\ pc'[w] \in {"deleteUser", "nextBinding", "done"}
    BY <1>a, <1>25, RevokeReadStep, SMTT(30), ZenonT(60) DEF UnbindFailed
  <2>2. UNCHANGED <<databases, instanceRows>>
    BY <1>a, <1>25, RevokeReadStep, RevokeEffect
  <2> QED BY <2>1, <2>2, DatabasesQuiet
<1>26. CASE RemoveUser(w)
  <2>1. Moves(w) /\ pc[w] = "deleteUser" /\ pc'[w] \in {"nextBinding", "done"}
    BY <1>a, <1>26, RemoveUserStep, SMTT(30), ZenonT(60) DEF UnbindFailed, UnbindDone
  <2>2. UNCHANGED <<databases, instanceRows>>
    BY <1>a, <1>26, RemoveUserStep, DeleteUserEffect
  <2> QED BY <2>1, <2>2, DatabasesQuiet
<1> QED BY <1>1, <1>2, <1>3, <1>4, <1>5, <1>6, <1>7, <1>8, <1>9, <1>10, <1>11, <1>12,
           <1>13, <1>14, <1>15, <1>16, <1>17, <1>18, <1>19, <1>20, <1>21, <1>22, <1>23,
           <1>24, <1>25, <1>26 DEF Handle

(* So every step preserves the invariant. *)
LEMMA DatabasesNext ==
  ASSUME SerialSetting, DatabasesInv, [Next]_vars
  PROVE  DatabasesInv'
<1> USE DEF storeVars, stardogVars
<1>1. TypeInv /\ RecordsInv'
  BY RecordsNext DEF DatabasesInv, RecordsInv, AskedInv
<1>2. ASSUME NEW w \in Workers, Handle(w) PROVE DatabasesInv'
  BY <1>1, <1>2, DatabasesHandle
<1>3. ASSUME NEW w \in Workers, Panic(w) \/ Return(w) PROVE DatabasesInv'
  <2>1. /\ UNCHANGED <<databases, instanceRows>> /\ Moves(w) /\ pc'[w] = "idle"
        /\ pc[w] \notin {"addInstance", "deleteInstance"}
    BY <1>1, <1>3, EndStep, ExitStep DEF Ops
  <2> QED BY <1>1, <2>1, DatabasesQuiet
<1>4. ASSUME NEW w \in Workers, NEW r \in Requests, Receive(w, r) PROVE DatabasesInv'
  <2>1. /\ UNCHANGED <<databases, instanceRows>> /\ Moves(w) /\ pc[w] = "idle"
        /\ pc'[w] \notin {"addInstance", "deleteInstance"}
    BY <1>1, <1>4, ReceiveStep DEF Ops
  <2> QED BY <1>1, <2>1, DatabasesQuiet
<1>5. CASE Restart
  BY <1>5 DEF Restart, Fault, SerialSetting
<1>6. CASE UNCHANGED vars
  <2>1. Owners' = Owners
    BY <1>6 DEF vars, locals, Owners, BeingErased, RecordOf
  <2> QED BY <1>1, <1>6, <2>1, DatabasesKept DEF vars
<1> QED BY <1>2, <1>3, <1>4, <1>5, <1>6 DEF Next

(* The invariant gives exactly one owner, or none, to every database. *)
LEMMA OneOwner ==
  ASSUME DatabasesInv
  PROVE  DatabaseOwnership
<1> SUFFICES ASSUME NEW db \in Servers \X DbNames
             PROVE  Cardinality(RecordsOf(db)) + Cardinality(CreatorsOf(db)) =
                      IF db \in databases \ ExistingDbs THEN 1 ELSE 0
  BY DEF DatabaseOwnership
<1>a. /\ OneRequest /\ ForeignInv /\ \A w \in Workers : InstanceKnown(w)
      /\ Cardinality({}) = 0 /\ \A x : Cardinality({x}) = 1
  BY FS_EmptySet, FS_Singleton DEF DatabasesInv, RecordsInv
<1>1. \A r \in RecordsOf(db) : r \in Owners /\ r \in instanceRows /\ DatabaseOf(r.data) = db
  BY DEF RecordsOf, Owners
<1>2. ASSUME NEW w \in CreatorsOf(db)
      PROVE  /\ w \in Workers /\ pc[w] = "addInstance" /\ RecordOf(w) \in Owners
             /\ DatabaseOf(RecordOf(w).data) = db
             /\ RecordOf(w) \notin instanceRows
  <2>1. w \in Workers /\ pc[w] = "addInstance" /\ DatabaseOf(inst[w]) = db
    BY DEF CreatorsOf
  <2>2. RecordOf(w).guid = req[w].inst /\ RecordOf(w).data = inst[w]
    BY DEF RecordOf
  <2>3. Unrecorded(req[w].inst)
    BY <1>a, <2>1 DEF InstanceKnown
  <2> QED BY <2>1, <2>2, <2>3 DEF Owners, Unrecorded
<1>3. CASE db \in databases \ ExistingDbs
  <2>1. PICK r \in Owners : DatabaseOf(r.data) = db
    BY <1>3 DEF DatabasesInv, AllOwned
  <2>2. \A q \in Owners : DatabaseOf(q.data) = db => q = r
    BY <2>1 DEF DatabasesInv, OwnersDiffer
  <2>3. CASE r \in instanceRows /\ ~BeingErased(r)
    <3>1. RecordsOf(db) = {r}
      BY <1>1, <2>1, <2>2, <2>3 DEF RecordsOf
    <3>2. CreatorsOf(db) = {}
      BY <1>2, <2>2, <2>3
    <3>3. Cardinality(RecordsOf(db)) = 1 /\ Cardinality(CreatorsOf(db)) = 0
      BY <3>1, <3>2, FS_EmptySet, FS_Singleton
    <3> QED BY <1>3, <3>3
  <2>4. ASSUME NEW w \in Workers, pc[w] = "addInstance", r = RecordOf(w)
        PROVE  Cardinality(RecordsOf(db)) + Cardinality(CreatorsOf(db)) = 1
    <3>1. w \in CreatorsOf(db)
      BY <2>1, <2>4 DEF CreatorsOf, RecordOf
    <3>2. RecordsOf(db) = {}
      BY <1>1, <1>2, <2>2, <2>4, <3>1
    <3>3. ASSUME NEW v \in CreatorsOf(db) PROVE v = w
      <4>1. v \in Workers /\ pc[v] = "addInstance" /\ RecordOf(v) = RecordOf(w)
        BY <1>2, <2>2, <2>4
      <4>2. req[v].inst = req[w].inst
        BY <4>1 DEF RecordOf
      <4> QED BY <1>a, <2>4, <4>1, <4>2 DEF OneRequest
    <3>4. CreatorsOf(db) = {w}
      BY <3>1, <3>3
    <3> QED BY <1>a, <3>2, <3>4
  <2> QED BY <1>3, <2>1, <2>3, <2>4 DEF Owners
<1>4. CASE db \notin databases
  <2>1. \A q \in Owners : DatabaseOf(q.data) # db
    BY <1>4 DEF DatabasesInv, OwnersServed
  <2>2. RecordsOf(db) = {} /\ CreatorsOf(db) = {}
    BY <1>1, <1>2, <2>1
  <2> QED BY <1>a, <1>4, <2>2
<1>5. CASE db \in ExistingDbs
  <2>1. RecordsOf(db) = {}
    BY <1>a, <1>1, <1>5 DEF ForeignInv, RecordsOurs
  <2>2. CreatorsOf(db) = {}
    BY <1>a, <1>5, LabelFacts DEF CreatorsOf, ForeignInv, HandlerOurs
  <2> QED BY <1>a, <1>5, <2>1, <2>2
<1> QED BY <1>3, <1>4, <1>5

(* An answer that an instance was created is true as long as it is the last. *)
LEMMA CreationAnswered ==
  ASSUME DatabasesInv
  PROVE  CreateAnswer
<1> SUFFICES ASSUME NEW w \in Workers, Answered(w, "create", {200, 201})
             PROVE  \E d \in Recorded(req[w].inst) :
                      /\ d.plan = req[w].plan /\ d.meta = req[w].meta
                      /\ req[w].db \in {d.db, None}
                      /\ DatabaseOf(d) \in databases
  BY DEF CreateAnswer
<1>1. PICK r \in instanceRows :
        /\ r.guid = req[w].inst
        /\ r.data.plan = req[w].plan /\ r.data.meta = req[w].meta
        /\ req[w].db \in {r.data.db, None}
  BY DEF DatabasesInv, RecordsInv, InstanceKnown
<1>2. pc[w] = "done"
  BY DEF Answered
<1>3. ~BeingErased(r)
  BY <1>1, <1>2 DEF BeingErased, DatabasesInv, RecordsInv, OneRequest
<1>4. DatabaseOf(r.data) \in databases
  BY <1>3 DEF DatabasesInv, OwnersServed, Owners
<1>5. r.data \in Recorded(req[w].inst)
  BY <1>1 DEF Recorded
<1> QED BY <1>1, <1>4, <1>5

(***************************************************************************)
(* With one request at a time per instance, on either store, whichever     *)
(* Stardog calls fail without effect and whichever transactions do not     *)
(* begin: every database the broker made belongs to exactly one record or  *)
(* one creation about to record it, and each of these has its database.    *)
(***************************************************************************)
THEOREM DatabasesOwned == SerialSetting => (Spec => []DatabaseOwnership)
<1> SUFFICES ASSUME SerialSetting PROVE Spec => []DatabaseOwnership
  OBVIOUS
<1>1. Init => DatabasesInv
  BY DatabasesInit
<1>2. DatabasesInv /\ [Next]_vars => DatabasesInv'
  BY DatabasesNext
<1>3. DatabasesInv => DatabaseOwnership
  BY OneOwner
<1> QED BY <1>1, <1>2, <1>3, PTL DEF Spec

(***************************************************************************)
(* In the same setting a creation answered 200 or 201 is recorded as the   *)
(* platform asked for it and has its database, until the platform's next   *)
(* request for the instance.                                               *)
(***************************************************************************)
THEOREM CreationsAnswered == SerialSetting => (Spec => []CreateAnswer)
<1> SUFFICES ASSUME SerialSetting PROVE Spec => []CreateAnswer
  OBVIOUS
<1>1. Init => DatabasesInv
  BY DatabasesInit
<1>2. DatabasesInv /\ [Next]_vars => DatabasesInv'
  BY DatabasesNext
<1>3. DatabasesInv => CreateAnswer
  BY CreationAnswered
<1> QED BY <1>1, <1>2, <1>3, PTL DEF Spec

-----------------------------------------------------------------------------
(* On the SQL store, whose foreign key and unique keys the invariant is about. *)
SqlSetting == SerialSetting /\ OnSql

-----------------------------------------------------------------------------
(* The inductive invariant: bindings. *)

(* The foreign key of the table bindings. *)
ForeignKey == \A r \in bindingRows : ~Unrecorded(r.inst)

(* A binding has one record. *)
OneBinding == \A r, q \in bindingRows : r.guid = q.guid => r = q

Unbound(b) == \A r \in bindingRows : r.guid # b

BindingOf(w) == [inst |-> req[w].inst, guid |-> req[w].bind, cred |-> cred[w]]

PlaceOf(c) == <<c.url, c.db>>

(* Its handler knows whether it has, and its answer told so. *)
BindingKnown(w) ==
  /\ pc[w] \in NewUserLabels \cup BoundLabels => Unbound(req[w].bind)
  /\ pc[w] \in NewUserLabels \cup BoundLabels \cup UnbindLabels =>
       PlaceOf(cred[w]) = DatabaseOf(inst[w])
  /\ pc[w] = "deleteBinding" => BindingOf(w) \in bindingRows
  /\ pc[w] \in UnbindLabels /\ req[w].op = "unbind" => Unbound(req[w].bind)
  /\ Answered(w, "bind", {200, 201}) => ~Unbound(req[w].bind)
  /\ Answered(w, "unbind", {200, 410}) => Unbound(req[w].bind)

(* What RemoveServiceInstance has still to unbind is recorded, and only it has a list. *)
ListedKnown(w) ==
  /\ \A t \in todo[w] :
       [inst |-> req[w].inst, guid |-> t.guid, cred |-> t.cred] \in bindingRows
  /\ pc[w] \notin UnbindLabels \cup {"nextBinding"} \/ req[w].op # "remove" =>
       todo[w] = {}

(* A binding is for the database of its instance. *)
BindingsFit ==
  \A r \in bindingRows, i \in instanceRows :
    i.guid = r.inst => PlaceOf(r.cred) = DatabaseOf(i.data)

BindingsInv ==
  /\ DatabasesInv
  /\ ForeignKey /\ OneBinding /\ BindingsFit
  /\ \A w \in Workers : BindingKnown(w) /\ ListedKnown(w)

-----------------------------------------------------------------------------
(* What the SQL store does in the setting. *)

(* GetBinding finds a binding exactly when there is one. *)
LEMMA GetBindingExact ==
  ASSUME OnSql, NEW g, NEW b, NEW answer \in GetBinding(g, b)
  PROVE  \/ Unbound(b) /\ answer = None
         \/ \E r \in bindingRows : r.guid = b /\ answer = r.cred
<1>1. CASE Unbound(b)
  BY <1>1 DEF Unbound, GetBinding, Sql!GetBinding, Sql!HasBinding
<1>2. CASE ~Unbound(b)
  BY <1>2 DEF Unbound, GetBinding, Sql!GetBinding, Sql!HasBinding
<1> QED BY <1>1, <1>2

(* GetAllBindings lists the bindings of the instance, all of them. *)
LEMMA GetAllBindingsExact ==
  ASSUME OnSql, NEW g, ~Unrecorded(g), NEW answer \in GetAllBindings(g)
  PROVE  answer = {[guid |-> r.guid, cred |-> r.cred] : r \in {i \in bindingRows : i.inst = g}}
  BY DEF Unrecorded, GetAllBindings, Sql!GetAllBindings, Sql!HasInstance

(* AddBinding of a new GUID to a recorded instance succeeds. *)
LEMMA AddBindingExact ==
  ASSUME SqlSetting, NEW g, NEW b, NEW c, NEW reply \in BOOLEAN, AddBinding(g, b, c, reply),
         ~Unrecorded(g), Unbound(b)
  PROVE  /\ reply = TRUE /\ UNCHANGED <<instanceRows, faults>>
         /\ bindingRows' = bindingRows \cup {[inst |-> g, guid |-> b, cred |-> c]}
  BY DEF SqlSetting, SerialSetting, Unrecorded, Unbound, AddBinding, Sql!AddBinding,
         Sql!BindingKeyFree, Sql!HasInstance, Sql!HasBinding, Sql!Replied, Sql!CallFails,
         Sql!Fault

(* DeleteBinding of a recorded binding succeeds. *)
LEMMA DeleteBindingExact ==
  ASSUME SqlSetting, NEW g, NEW b, NEW reply \in BOOLEAN, DeleteBinding(g, b, reply),
         ~Unbound(b)
  PROVE  /\ reply = TRUE /\ UNCHANGED <<instanceRows, faults>>
         /\ bindingRows' = {r \in bindingRows : r.guid # b}
  BY DEF SqlSetting, SerialSetting, Unbound, DeleteBinding, Sql!DeleteBinding,
         Sql!HasBinding, Sql!Replied, Sql!CallFails, Sql!Fault

-----------------------------------------------------------------------------
(* BindingsInv is an invariant. *)

(* Initially there is no binding and no request. *)
LEMMA BindingsInit == Init => BindingsInv
<1> SUFFICES ASSUME Init PROVE BindingsInv
  OBVIOUS
<1>1. bindingRows = {} /\ \A w \in Workers : pc[w] = "idle" /\ todo[w] = {}
  BY DEF Init
<1> QED BY <1>1, DatabasesInit
        DEF BindingsInv, ForeignKey, OneBinding, BindingsFit, BindingKnown, ListedKnown,
            Answered, NewUserLabels, BoundLabels, UnbindLabels

(* The facts a step starts from. *)
LEMMA BindingsFacts ==
  ASSUME BindingsInv
  PROVE  /\ TypeInv /\ RecordsInv /\ ForeignInv /\ RecordsOurs /\ OneRequest /\ OneRecord
         /\ AskedInv /\ \A w \in Workers : InstanceKnown(w)
  BY DEF BindingsInv, DatabasesInv, RecordsInv, AskedInv, ForeignInv

(* A request to bind or unbind is for the instance of its binding GUID. *)
LEMMA RequestOf ==
  ASSUME TypeInv, NEW w \in Workers, pc[w] # "idle", req[w].op \in {"bind", "unbind"}
  PROVE  req[w].inst = InstanceOf[req[w].bind]
  BY Serving, PlatformAssumption

(* A step of w touches bindings of its own instance alone. *)
OwnBindings(w) ==
  /\ \A r \in bindingRows' : r \in bindingRows \/ r.inst = req[w].inst
  /\ \A r \in bindingRows : r \in bindingRows' \/ r.inst = req[w].inst

(* What the others know stays true. *)
LEMMA OthersBound ==
  ASSUME BindingsInv, RecordsOurs', NEW w \in Workers, Moves(w),
         UNCHANGED bindingRows \/ (pc[w] # "idle" /\ OwnBindings(w)),
         NEW v \in Workers, v # w
  PROVE  BindingKnown(v)' /\ ListedKnown(v)'
<1>a. TypeInv /\ RecordsOurs /\ OneRequest /\ BindingKnown(v) /\ ListedKnown(v)
  BY BindingsFacts DEF BindingsInv
<1>1. /\ pc'[v] = pc[v] /\ req'[v] = req[v] /\ inst'[v] = inst[v] /\ cred'[v] = cred[v]
      /\ todo'[v] = todo[v] /\ resp'[v] = resp[v]
  BY <1>a, OthersStay, RespStays
<1>2. CASE pc[v] = "idle"
  BY <1>a, <1>1, <1>2 DEF BindingKnown, ListedKnown, Answered, TypeInv, HandlerOK,
                          NewUserLabels, BoundLabels, UnbindLabels
<1>3. CASE pc[v] # "idle"
  <2>1. \/ UNCHANGED bindingRows
        \/ req[v].inst # req[w].inst /\ OwnBindings(w)
    BY <1>a, <1>3 DEF OneRequest
  <2>2. \A r : r.inst = req[v].inst => (r \in bindingRows' <=> r \in bindingRows)
    BY <2>1 DEF OwnBindings
  <2>3. req[v].op \in {"bind", "unbind"} => Unbound(req[v].bind)' = Unbound(req[v].bind)
    <3> SUFFICES ASSUME req[v].op \in {"bind", "unbind"}
                 PROVE  Unbound(req[v].bind)' = Unbound(req[v].bind)
      OBVIOUS
    <3>1. req[v].inst = InstanceOf[req[v].bind]
      BY <1>a, <1>3, RequestOf
    <3>2. \A r \in bindingRows : r.guid = req[v].bind => r.inst = req[v].inst
      BY <1>a, <3>1 DEF RecordsOurs
    <3>3. \A r \in bindingRows' : r.guid = req[v].bind => r.inst = req[v].inst
      BY <3>1 DEF RecordsOurs
    <3> QED BY <1>1, <2>2, <3>2, <3>3 DEF Unbound
  <2>4. /\ PlaceOf(cred[v])' = PlaceOf(cred[v]) /\ DatabaseOf(inst[v])' = DatabaseOf(inst[v])
        /\ BindingOf(v)' = BindingOf(v) /\ BindingOf(v).inst = req[v].inst
    BY <1>1 DEF PlaceOf, DatabaseOf, ServerOf, BindingOf
  <2>5. ListedKnown(v)'
    BY <1>a, <1>1, <2>2 DEF ListedKnown
  <2>6. /\ pc[v] \in NewUserLabels \cup BoundLabels => req[v].op = "bind"
        /\ BindingOf(v) \in bindingRows => BindingOf(v) \in bindingRows'
    BY <1>a, <1>3, <2>2, <2>4, OpAt DEF NewUserLabels, BoundLabels
  <2>7. BindingKnown(v)'
    BY <1>a, <1>1, <2>3, <2>4, <2>6 DEF BindingKnown, Answered
  <2> QED BY <2>5, <2>7
<1> QED BY <1>2, <1>3

(* It is enough to look at the bindings of the instance and at the worker of the step. *)
LEMMA BindingsStep ==
  ASSUME BindingsInv, DatabasesInv', NEW w \in Workers, pc[w] # "idle", Moves(w),
         OwnBindings(w), ForeignKey', OneBinding', BindingsFit',
         BindingKnown(w)', ListedKnown(w)'
  PROVE  BindingsInv'
<1>1. RecordsOurs'
  BY DEF DatabasesInv, RecordsInv, ForeignInv
<1>2. ASSUME NEW v \in Workers PROVE BindingKnown(v)' /\ ListedKnown(v)'
  BY <1>1, <1>2, OthersBound
<1> QED BY <1>2 DEF BindingsInv

(* ... or at the worker alone, when no record changes. *)
LEMMA BindingsKept ==
  ASSUME BindingsInv, DatabasesInv', NEW w \in Workers, Moves(w),
         UNCHANGED <<instanceRows, bindingRows>>, BindingKnown(w)', ListedKnown(w)'
  PROVE  BindingsInv'
<1>1. RecordsOurs'
  BY DEF DatabasesInv, RecordsInv, ForeignInv
<1>2. ASSUME NEW v \in Workers PROVE BindingKnown(v)' /\ ListedKnown(v)'
  BY <1>1, <1>2, OthersBound
<1>3. ForeignKey' /\ OneBinding' /\ BindingsFit'
  BY DEF BindingsInv, ForeignKey, OneBinding, BindingsFit, Unrecorded, PlaceOf, DatabaseOf,
         ServerOf
<1> QED BY <1>2, <1>3 DEF BindingsInv

(* A handler that is not about a binding, or fails, has nothing to say. *)
LEMMA BoundNothing ==
  ASSUME NEW w, pc'[w] \notin CredLabels,
         pc'[w] = "done" =>
           resp'[w].code \in {409, 500} \/ req'[w].op \notin {"bind", "unbind"}
  PROVE  BindingKnown(w)'
  BY LabelFacts DEF BindingKnown, Answered, NewUserLabels, BoundLabels, UnbindLabels

(* The list of a handler that does not touch it. *)
LEMMA ListedStill ==
  ASSUME NEW w, ListedKnown(w), todo'[w] = todo[w], req'[w] = req[w],
         UNCHANGED bindingRows,
         \/ {pc[w], pc'[w]} \subseteq UnbindLabels \cup {"nextBinding"}
         \/ pc[w] \notin UnbindLabels \cup {"nextBinding"} \/ req[w].op # "remove"
  PROVE  ListedKnown(w)'
  BY DEF ListedKnown
(* A handler that goes on with the binding it has. *)
LEMMA BoundStill ==
  ASSUME NEW w, BindingKnown(w), UNCHANGED bindingRows,
         req'[w] = req[w], inst'[w] = inst[w], cred'[w] = cred[w],
         \/ {pc[w], pc'[w]} \subseteq NewUserLabels \cup BoundLabels
         \/ {pc[w], pc'[w]} \subseteq UnbindLabels
  PROVE  BindingKnown(w)'
<1>1. /\ PlaceOf(cred[w])' = PlaceOf(cred[w]) /\ DatabaseOf(inst[w])' = DatabaseOf(inst[w])
      /\ Unbound(req[w].bind)' = Unbound(req[w].bind)
  BY DEF PlaceOf, DatabaseOf, ServerOf, Unbound
<1> QED BY <1>1 DEF BindingKnown, Answered, NewUserLabels, BoundLabels, UnbindLabels

(* A step of a handler that neither has nor finds a binding. *)
LEMMA BindingsQuiet ==
  ASSUME BindingsInv, DatabasesInv', NEW w \in Workers, Moves(w),
         UNCHANGED <<instanceRows, bindingRows>>,
         req'[w] = req[w], todo'[w] = todo[w],
         pc'[w] \notin CredLabels,
         pc[w] \in UnbindLabels \cup {"nextBinding"} /\ req[w].op = "remove" =>
           pc'[w] = "nextBinding" \/ todo[w] = {},
         pc'[w] = "done" =>
           resp'[w].code \in {409, 500} \/ req[w].op \notin {"bind", "unbind"}
  PROVE  BindingsInv'
<1>1. BindingKnown(w)'
  BY BoundNothing
<1>2. ListedKnown(w)'
  BY DEF BindingsInv, ListedKnown
<1> QED BY <1>1, <1>2, BindingsKept

(* ListBindings lists bindings that are recorded. *)
LEMMA ListBindingsBound ==
  ASSUME SqlSetting, BindingsInv, DatabasesInv', NEW w \in Workers,
         ListBindings(w) \/ ListSomeBindings(w)
  PROVE  BindingsInv'
<1>a. /\ TypeInv /\ RecordsInv /\ InstanceKnown(w) /\ ListedKnown(w) /\ OnSql
      /\ "storeRead" \notin FaultKinds
  BY BindingsFacts DEF BindingsInv, SqlSetting, SerialSetting
<1>1. /\ pc[w] = "listBindings" /\ req[w].op = "remove" /\ Moves(w) /\ req'[w] = req[w]
      /\ UNCHANGED <<instanceRows, bindingRows>>
  BY <1>a, ListBindingsStep, ListSomeBindingsStep, ReadEffect DEF GoesTo, Ends, storeVars
<1>2. todo[w] = {}
  BY <1>a, <1>1 DEF ListedKnown, UnbindLabels
<1>3. ASSUME NEW answer \in GetAllBindings(req[w].inst), NEW t \in answer
      PROVE  [inst |-> req[w].inst, guid |-> t.guid, cred |-> t.cred] \in bindingRows
  <2>1. RecordOf(w) \in instanceRows /\ RecordOf(w).guid = req[w].inst
    BY <1>a, <1>1, LabelFacts DEF InstanceKnown, RecordOf
  <2>2. ~Unrecorded(req[w].inst)
    BY <2>1 DEF Unrecorded
  <2>3. PICK r \in bindingRows : r.inst = req[w].inst /\ t = [guid |-> r.guid, cred |-> r.cred]
    BY <1>a, <1>3, <2>2, GetAllBindingsExact
  <2>4. r = [inst |-> r.inst, guid |-> r.guid, cred |-> r.cred]
    BY <1>a DEF TypeInv, TypeOK, StoreOK
  <2> QED BY <2>3, <2>4
<1>4. \/ pc'[w] = "nextBinding" /\ \E answer \in GetAllBindings(req[w].inst) : todo'[w] \subseteq answer
      \/ pc'[w] = "done" /\ todo'[w] = {}
  <2>1. CASE ListBindings(w)
    BY <1>a, <1>2, <2>1, ListBindingsStep, ReadExact DEF GoesTo, Ends
  <2>2. CASE ListSomeBindings(w)
    BY <1>a, <2>2, ListSomeBindingsStep DEF GoesTo
  <2> QED BY <2>1, <2>2
<1>5. ListedKnown(w)'
  BY <1>1, <1>3, <1>4 DEF ListedKnown, UnbindLabels
<1>6. BindingKnown(w)'
  BY <1>1, <1>4, BoundNothing, LabelFacts
<1> QED BY <1>1, <1>5, <1>6, BindingsKept

(* NextBinding takes a binding for the database of the instance. *)
LEMMA NextBindingBound ==
  ASSUME SqlSetting, BindingsInv, DatabasesInv', NEW w \in Workers, NextBinding(w)
  PROVE  BindingsInv'
<1>a. TypeInv /\ InstanceKnown(w) /\ ListedKnown(w) /\ BindingsFit
  BY BindingsFacts DEF BindingsInv
<1>1. /\ pc[w] = "nextBinding" /\ req[w].op = "remove" /\ Moves(w) /\ req'[w] = req[w]
      /\ UNCHANGED <<instanceRows, bindingRows>> /\ inst'[w] = inst[w]
  BY <1>a, NextBindingStep DEF GoesTo, storeVars
<1>2. CASE todo[w] = {} /\ GoesTo(w, "deleteDb") /\ todo'[w] = todo[w]
  <2>1. pc'[w] = "deleteDb"
    BY <1>2 DEF GoesTo
  <2> QED BY <1>1, <1>2, <2>1, BindingsQuiet, LabelFacts
<1>3. CASE /\ GoesTo(w, "revokeWrite")
           /\ \E b \in todo[w] : cred'[w] = b.cred /\ todo'[w] = todo[w] \ {b}
  <2>1. PICK b \in todo[w] : cred'[w] = b.cred /\ todo'[w] = todo[w] \ {b}
    BY <1>3
  <2>2. pc'[w] = "revokeWrite"
    BY <1>3 DEF GoesTo
  <2> DEFINE r == [inst |-> req[w].inst, guid |-> b.guid, cred |-> b.cred]
  <2>3. r \in bindingRows
    BY <1>a DEF ListedKnown
  <2>4. r.inst = req[w].inst /\ r.cred = b.cred
    OBVIOUS
  <2> HIDE DEF r
  <2>5. RecordOf(w) \in instanceRows /\ RecordOf(w).guid = req[w].inst /\ RecordOf(w).data = inst[w]
    BY <1>a, <1>1, LabelFacts DEF InstanceKnown, RecordOf
  <2>6. PlaceOf(b.cred) = DatabaseOf(inst[w])
    BY <1>a, <2>3, <2>4, <2>5 DEF BindingsFit
  <2>7. (PlaceOf(cred[w]) = DatabaseOf(inst[w]))'
    BY <1>1, <2>1, <2>6 DEF PlaceOf, DatabaseOf, ServerOf
  <2>8. BindingKnown(w)'
    BY <1>1, <2>2, <2>7 DEF BindingKnown, Answered, NewUserLabels, BoundLabels, UnbindLabels
  <2>9. ListedKnown(w)'
    BY <1>a, <1>1, <2>1, <2>2 DEF ListedKnown, UnbindLabels
  <2> QED BY <1>1, <2>8, <2>9, BindingsKept
<1> QED BY <1>a, <1>2, <1>3, NextBindingStep

(* EraseInstance takes the bindings along: ON DELETE CASCADE. *)
LEMMA EraseInstanceBound ==
  ASSUME SqlSetting, BindingsInv, DatabasesInv', NEW w \in Workers, EraseInstance(w)
  PROVE  BindingsInv'
<1>a. TypeInv /\ ListedKnown(w)
  BY BindingsFacts DEF BindingsInv
<1>1. /\ pc[w] = "deleteInstance" /\ Same(w) /\ Ends(w, 200, TRUE) /\ req[w].op = "remove"
      /\ \E reply \in BOOLEAN : DeleteInstance(req[w].inst, reply)
  BY <1>a, EraseInstanceStep
<1>2. /\ instanceRows' = {r \in instanceRows : r.guid # req[w].inst}
      /\ bindingRows' = {r \in bindingRows : r.inst # req[w].inst}
  BY <1>1, DeleteInstanceSerial DEF SqlSetting
<1>3. Moves(w) /\ pc'[w] = "done" /\ req'[w] = req[w] /\ todo'[w] = {}
  BY <1>a, <1>1 DEF Ends, Same, ListedKnown, UnbindLabels
<1>4. OwnBindings(w) /\ ForeignKey' /\ OneBinding'
  BY <1>2 DEF OwnBindings, BindingsInv, ForeignKey, OneBinding, Unrecorded
<1>5. BindingsFit'
  BY <1>2 DEF BindingsInv, BindingsFit, PlaceOf, DatabaseOf, ServerOf
<1>6. BindingKnown(w)' /\ ListedKnown(w)'
  BY <1>1, <1>3, BoundNothing, LabelFacts DEF ListedKnown
<1> QED BY <1>1, <1>3, <1>4, <1>5, <1>6, BindingsStep

(* StoreInstance records an instance without bindings. *)
LEMMA StoreInstanceBound ==
  ASSUME SqlSetting, BindingsInv, DatabasesInv', NEW w \in Workers, StoreInstance(w)
  PROVE  BindingsInv'
<1>a. TypeInv /\ ListedKnown(w) /\ InstanceKnown(w)
  BY BindingsFacts DEF BindingsInv
<1>1. PICK reply \in BOOLEAN :
        /\ AddInstance(req[w].inst, inst[w], reply)
        /\ \/ reply = TRUE /\ Ends(w, 201, TRUE)
           \/ reply = FALSE /\ Ends(w, 500, FALSE)
  BY <1>a, StoreInstanceStep, SMTT(30), ZenonT(60)
<1>2. /\ pc[w] = "addInstance" /\ req[w].op = "create" /\ Same(w)
      /\ Moves(w) /\ pc'[w] = "done" /\ req'[w] = req[w]
  BY <1>a, <1>1, StoreInstanceStep, SMTT(30), ZenonT(60) DEF Ends
<1>3. Unrecorded(req[w].inst)
  BY <1>a, <1>2 DEF InstanceKnown
<1>4. instanceRows' = instanceRows \cup {RecordOf(w)} /\ UNCHANGED bindingRows
  <2>1. AddInstance(req[w].inst, inst[w], reply)
    BY <1>1
  <2> QED BY <1>3, <2>1, AddInstanceSerial DEF RecordOf, SqlSetting
<1>5. OwnBindings(w) /\ ForeignKey' /\ OneBinding'
  BY <1>4 DEF OwnBindings, BindingsInv, ForeignKey, OneBinding, Unrecorded
<1>6. BindingsFit'
  <2>1. RecordOf(w).guid = req[w].inst
    BY DEF RecordOf
  <2>2. \A r \in bindingRows : r.inst # req[w].inst
    BY <1>3 DEF BindingsInv, ForeignKey
  <2> QED BY <1>4, <2>1, <2>2 DEF BindingsInv, BindingsFit, PlaceOf, DatabaseOf, ServerOf
<1>7. BindingKnown(w)' /\ ListedKnown(w)'
  BY <1>a, <1>2, <1>4, BoundNothing, ListedStill, LabelFacts DEF Same
<1> QED BY <1>2, <1>5, <1>6, <1>7, BindingsStep

(* FindBinding finds the binding, or finds that there is none. *)
LEMMA FindBindingBound ==
  ASSUME SqlSetting, BindingsInv, DatabasesInv', NEW w \in Workers, FindBinding(w)
  PROVE  BindingsInv'
<1>a. /\ TypeInv /\ ListedKnown(w) /\ OnSql /\ "storeRead" \notin FaultKinds
  BY BindingsFacts DEF BindingsInv, SqlSetting, SerialSetting
<1>1. /\ pc[w] = "getBinding" /\ req[w].op = "bind" /\ Moves(w) /\ req'[w] = req[w]
      /\ UNCHANGED <<instanceRows, bindingRows>> /\ inst'[w] = inst[w] /\ todo'[w] = todo[w]
  BY <1>a, FindBindingStep, ReadEffect DEF GoesTo, Ends
<1>2. ListedKnown(w)'
  BY <1>a, <1>1, ListedStill
<1>3. CASE /\ cred'[w] \in GetBinding(req[w].inst, req[w].bind) \ {None}
           /\ Ends(w, 200, TRUE) \/ Ends(w, 409, FALSE)
  <2>1. ~Unbound(req[w].bind)
    BY <1>3, GetBindingAnswer DEF Unbound
  <2>2. ~Unbound(req[w].bind)'
    BY <1>1, <2>1 DEF Unbound
  <2>3. pc'[w] = "done"
    BY <1>3 DEF Ends
  <2>4. BindingKnown(w)'
    BY <1>1, <2>2, <2>3 DEF BindingKnown, Answered, NewUserLabels, BoundLabels, UnbindLabels
  <2> QED BY <1>1, <1>2, <2>4, BindingsKept
<1>4. CASE /\ Read(GetBinding(req[w].inst, req[w].bind), None)
           /\ cred'[w].url = ServerOf(inst[w]) /\ cred'[w].db = inst[w].db
           /\ GoesTo(w, "userExists")
  <2>1. None \in GetBinding(req[w].inst, req[w].bind)
    BY <1>a, <1>4, ReadExact
  <2>2. \A r \in bindingRows : r.cred # None
    BY <1>a, NoneAssumption DEF TypeInv, TypeOK, StoreOK
  <2>3. Unbound(req[w].bind)
    BY <1>a, <2>1, <2>2, GetBindingExact
  <2>4. Unbound(req[w].bind)' /\ (PlaceOf(cred[w]) = DatabaseOf(inst[w]))'
    BY <1>1, <1>4, <2>3 DEF Unbound, PlaceOf, DatabaseOf, ServerOf
  <2>5. pc'[w] = "userExists"
    BY <1>4 DEF GoesTo
  <2>6. BindingKnown(w)'
    BY <2>4, <2>5 DEF BindingKnown, Answered, NewUserLabels, BoundLabels, UnbindLabels
  <2> QED BY <1>1, <1>2, <2>6, BindingsKept
<1> QED BY <1>a, <1>3, <1>4, FindBindingStep

(* StoreBinding records the binding, on both ways to it. *)
LEMMA StoreBindingBound ==
  ASSUME SqlSetting, BindingsInv, DatabasesInv', NEW w \in Workers, StoreBinding(w)
  PROVE  /\ BindingsInv'
         /\ bindingRows' = bindingRows \cup {BindingOf(w)} /\ UNCHANGED instanceRows
<1>a. /\ TypeInv /\ ListedKnown(w) /\ InstanceKnown(w) /\ BindingKnown(w) /\ OneRecord
  BY BindingsFacts DEF BindingsInv
<1>1. PICK reply \in BOOLEAN :
        /\ AddBinding(req[w].inst, req[w].bind, cred[w], reply)
        /\ Ends(w, 201, TRUE) \/ Ends(w, 200, FALSE)
  BY <1>a, StoreBindingStep
<1>2. /\ pc[w] = "addBinding" /\ req[w].op = "bind" /\ Same(w)
      /\ Moves(w) /\ pc'[w] = "done" /\ req'[w] = req[w]
  BY <1>a, <1>1, StoreBindingStep DEF Ends
<1>3. /\ RecordOf(w) \in instanceRows /\ RecordOf(w).guid = req[w].inst
      /\ RecordOf(w).data = inst[w]
  BY <1>a, <1>2, LabelFacts DEF InstanceKnown, RecordOf
<1>4. ~Unrecorded(req[w].inst) /\ Unbound(req[w].bind) /\ PlaceOf(cred[w]) = DatabaseOf(inst[w])
  BY <1>a, <1>2, <1>3 DEF Unrecorded, BindingKnown, BoundLabels
<1>5. bindingRows' = bindingRows \cup {BindingOf(w)} /\ UNCHANGED instanceRows
  BY <1>1, <1>4, AddBindingExact DEF BindingOf
<1>6. /\ BindingOf(w).inst = req[w].inst /\ BindingOf(w).guid = req[w].bind
      /\ BindingOf(w).cred = cred[w]
  BY DEF BindingOf
<1>7. OwnBindings(w) /\ ForeignKey' /\ OneBinding'
  BY <1>4, <1>5, <1>6 DEF OwnBindings, BindingsInv, ForeignKey, OneBinding, Unrecorded, Unbound
<1>8. BindingsFit'
  <2>1. \A i \in instanceRows : i.guid = req[w].inst => i = RecordOf(w)
    BY <1>a, <1>3 DEF OneRecord
  <2>2. \A r \in bindingRows', i \in instanceRows' :
          i.guid = r.inst => PlaceOf(r.cred) = DatabaseOf(i.data)
    BY <1>3, <1>4, <1>5, <1>6, <2>1 DEF BindingsInv, BindingsFit
  <2> QED BY <2>2 DEF BindingsFit, PlaceOf, DatabaseOf, ServerOf
<1>9. ListedKnown(w)'
  BY <1>a, <1>2, <1>5 DEF ListedKnown, Same, UnbindLabels
<1>10. BindingKnown(w)'
  <2>1. ~Unbound(req[w].bind)'
    BY <1>2, <1>5, <1>6 DEF Unbound
  <2> QED BY <1>2, <2>1 DEF BindingKnown, Answered, NewUserLabels, BoundLabels, UnbindLabels
<1> QED BY <1>2, <1>5, <1>7, <1>8, <1>9, <1>10, BindingsStep

(* UnbindGet finds the binding of its instance, or finds that there is none. *)
LEMMA UnbindGetBound ==
  ASSUME SqlSetting, BindingsInv, DatabasesInv', NEW w \in Workers, UnbindGet(w)
  PROVE  BindingsInv'
<1>a. /\ TypeInv /\ ListedKnown(w) /\ OnSql /\ "storeRead" \notin FaultKinds /\ RecordsOurs
  BY BindingsFacts DEF BindingsInv, SqlSetting, SerialSetting
<1>1. /\ pc[w] = "unbindGet" /\ req[w].op = "unbind" /\ Moves(w) /\ req'[w] = req[w]
      /\ UNCHANGED <<instanceRows, bindingRows>> /\ inst'[w] = inst[w] /\ todo'[w] = todo[w]
      /\ cred'[w] \in GetBinding(req[w].inst, req[w].bind)
      /\ \/ cred'[w] # None /\ pc'[w] = "deleteBinding"
         \/ cred'[w] = None /\ pc'[w] = "done"
  BY <1>a, UnbindGetStep, ReadExact DEF GoesTo, Ends, storeVars
<1>2. ListedKnown(w)'
  BY <1>a, <1>1, ListedStill
<1>3. CASE cred'[w] # None /\ pc'[w] = "deleteBinding"
  <2>1. PICK r \in bindingRows : r.guid = req[w].bind /\ r.cred = cred'[w]
    BY <1>1, <1>3, GetBindingAnswer
  <2>2. r.inst = req[w].inst
    BY <1>a, <1>1, <2>1, RequestOf DEF RecordsOurs
  <2>3. r = [inst |-> r.inst, guid |-> r.guid, cred |-> r.cred]
    BY <1>a DEF TypeInv, TypeOK, StoreOK
  <2>4. (BindingOf(w) \in bindingRows)'
    BY <1>1, <2>1, <2>2, <2>3 DEF BindingOf
  <2>5. BindingKnown(w)'
    BY <1>3, <2>4 DEF BindingKnown, Answered, NewUserLabels, BoundLabels, UnbindLabels
  <2> QED BY <1>1, <1>2, <2>5, BindingsKept
<1>4. CASE cred'[w] = None /\ pc'[w] = "done"
  <2>1. \A r \in bindingRows : r.cred # None
    BY <1>a, NoneAssumption DEF TypeInv, TypeOK, StoreOK
  <2>2. Unbound(req[w].bind)
    BY <1>a, <1>1, <1>4, <2>1, GetBindingExact
  <2>3. Unbound(req[w].bind)'
    BY <1>1, <2>2 DEF Unbound
  <2>4. BindingKnown(w)'
    BY <1>1, <1>4, <2>3 DEF BindingKnown, Answered, NewUserLabels, BoundLabels, UnbindLabels
  <2> QED BY <1>1, <1>2, <2>4, BindingsKept
<1> QED BY <1>1, <1>3, <1>4

(* EraseBinding deletes the record it found. *)
LEMMA EraseBindingBound ==
  ASSUME SqlSetting, BindingsInv, DatabasesInv', NEW w \in Workers, EraseBinding(w)
  PROVE  /\ BindingsInv' /\ pc'[w] = "revokeWrite"
         /\ bindingRows' = bindingRows \ {BindingOf(w)} /\ UNCHANGED instanceRows
<1>a. /\ TypeInv /\ ListedKnown(w) /\ InstanceKnown(w) /\ BindingKnown(w) /\ OneRecord
      /\ BindingsFit /\ OneBinding
  BY BindingsFacts DEF BindingsInv
<1>1. PICK reply \in BOOLEAN :
        /\ DeleteBinding(req[w].inst, req[w].bind, reply)
        /\ \/ reply = TRUE /\ GoesTo(w, "revokeWrite")
           \/ reply = FALSE /\ Ends(w, 500, FALSE)
  BY <1>a, EraseBindingStep
<1>2. pc[w] = "deleteBinding" /\ req[w].op = "unbind" /\ Same(w)
  BY <1>a, EraseBindingStep
<1>3. /\ BindingOf(w) \in bindingRows /\ BindingOf(w).inst = req[w].inst
      /\ BindingOf(w).guid = req[w].bind /\ BindingOf(w).cred = cred[w]
  BY <1>a, <1>2 DEF BindingKnown, BindingOf
<1>4. /\ reply = TRUE /\ UNCHANGED instanceRows
      /\ bindingRows' = {r \in bindingRows : r.guid # req[w].bind}
  <2>1. ~Unbound(req[w].bind)
    BY <1>3 DEF Unbound
  <2>2. DeleteBinding(req[w].inst, req[w].bind, reply)
    BY <1>1
  <2> QED BY <2>1, <2>2, DeleteBindingExact
<1>5. /\ Moves(w) /\ pc'[w] = "revokeWrite" /\ req'[w] = req[w]
  BY <1>1, <1>4 DEF GoesTo
<1>6. bindingRows' = bindingRows \ {BindingOf(w)}
  BY <1>a, <1>3, <1>4 DEF OneBinding
<1>7. OwnBindings(w) /\ ForeignKey' /\ OneBinding'
  BY <1>3, <1>4, <1>6 DEF OwnBindings, BindingsInv, ForeignKey, OneBinding, Unrecorded
<1>8. BindingsFit'
  BY <1>4 DEF BindingsInv, BindingsFit, PlaceOf, DatabaseOf, ServerOf
<1>9. ListedKnown(w)'
  BY <1>a, <1>2, <1>5 DEF ListedKnown, Same
<1>10. BindingKnown(w)'
  <2>1. Unbound(req[w].bind)'
    BY <1>4, <1>5 DEF Unbound
  <2>2. /\ RecordOf(w) \in instanceRows /\ RecordOf(w).guid = req[w].inst
        /\ RecordOf(w).data = inst[w]
    BY <1>a, <1>2, LabelFacts DEF InstanceKnown, RecordOf
  <2>3. PlaceOf(cred[w]) = DatabaseOf(inst[w])
    BY <1>a, <1>3, <2>2 DEF BindingsFit
  <2>4. (PlaceOf(cred[w]) = DatabaseOf(inst[w]))'
    BY <1>2, <2>3 DEF Same, PlaceOf, DatabaseOf, ServerOf
  <2> QED BY <1>5, <2>1, <2>4 DEF BindingKnown, Answered, NewUserLabels, BoundLabels, UnbindLabels
<1> QED BY <1>2, <1>4, <1>5, <1>6, <1>7, <1>8, <1>9, <1>10, BindingsStep
(* Plan.Bind keeps the binding it is making, or fails. *)
LEMMA PlanBindBound ==
  ASSUME SqlSetting, BindingsInv, DatabasesInv', NEW w \in Workers,
         Moves(w), UNCHANGED <<instanceRows, bindingRows>>, Same(w), req'[w] = req[w],
         pc[w] \in NewUserLabels \cup BoundLabels,
         \/ pc'[w] \in NewUserLabels \cup BoundLabels
         \/ pc'[w] = "done" /\ resp'[w].code \in {409, 500}
  PROVE  BindingsInv'
<1>a. BindingKnown(w) /\ ListedKnown(w)
  BY DEF BindingsInv
<1>1. ListedKnown(w)'
  BY <1>a, ListedStill DEF Same, NewUserLabels, BoundLabels, UnbindLabels
<1>2. BindingKnown(w)'
  BY <1>a, BoundStill, BoundNothing, LabelFacts DEF Same
<1> QED BY <1>1, <1>2, BindingsKept

(* Plan.UnBind keeps the binding it is removing, or is through with it. *)
LEMMA PlanUnBindBound ==
  ASSUME SqlSetting, BindingsInv, DatabasesInv', NEW w \in Workers,
         Moves(w), UNCHANGED <<instanceRows, bindingRows>>, Same(w), req'[w] = req[w],
         pc[w] \in UnbindLabels,
         pc'[w] \in UnbindLabels \/ UnbindFailed(w) \/ UnbindDone(w)
  PROVE  BindingsInv'
<1>a. BindingKnown(w) /\ ListedKnown(w)
  BY DEF BindingsInv
<1>1. CASE pc'[w] \in UnbindLabels
  <2>1. ListedKnown(w)'
    BY <1>a, <1>1, ListedStill DEF Same
  <2>2. BindingKnown(w)'
    BY <1>a, <1>1, BoundStill DEF Same
  <2> QED BY <2>1, <2>2, BindingsKept
<1>2. CASE req[w].op = "remove" /\ pc'[w] = "nextBinding"
  BY <1>2, BindingsQuiet, LabelFacts DEF Same
<1>3. CASE req[w].op = "unbind" /\ pc'[w] = "done"
  <2>1. ListedKnown(w)'
    BY <1>a, <1>3, ListedStill DEF Same
  <2>2. Unbound(req[w].bind)'
    BY <1>a, <1>3 DEF BindingKnown, Unbound
  <2>3. BindingKnown(w)'
    BY <1>3, <2>2 DEF BindingKnown, Answered, NewUserLabels, BoundLabels, UnbindLabels
  <2> QED BY <2>1, <2>3, BindingsKept
<1> QED BY <1>1, <1>2, <1>3 DEF UnbindFailed, UnbindDone, GoesTo, Ends

(* CheckInstance finds the instance it is about to bind. *)
LEMMA CheckInstanceFinds ==
  ASSUME SqlSetting, BindingsInv, NEW w \in Workers, CheckInstance(w)
  PROVE  /\ pc[w] = "checkInstance" /\ Same(w) /\ GoesTo(w, "addBinding")
         /\ UNCHANGED storeVars
<1>a. TypeInv
  BY BindingsFacts
<1>1. PICK answer \in GetInstance(req[w].inst) \cup {None} :
        /\ Read(GetInstance(req[w].inst), answer)
        /\ \/ answer # None /\ GoesTo(w, "addBinding")
           \/ answer = None /\ Ends(w, 200, FALSE)
  BY <1>a, CheckInstanceStep
<1>2. pc[w] = "checkInstance" /\ Same(w)
  BY <1>a, CheckInstanceStep
<1>3. answer \in GetInstance(req[w].inst) /\ UNCHANGED storeVars
  BY <1>1, ReadExact DEF SqlSetting, SerialSetting
<1>4. RecordOf(w) \in instanceRows /\ RecordOf(w).guid = req[w].inst
  BY <1>2, BindingsFacts, LabelFacts DEF InstanceKnown, RecordOf
<1>5. PICK r \in instanceRows : answer = r.data
  BY <1>3, <1>4, GetInstanceExact DEF Unrecorded
<1>6. answer # None
  BY <1>a, <1>5, NoneAssumption DEF TypeInv, TypeOK, StoreOK, InstanceRecords
<1> QED BY <1>1, <1>2, <1>3, <1>6

(* Every step of a handler preserves the invariant. *)
LEMMA BindingsHandle ==
  ASSUME SqlSetting, BindingsInv, DatabasesInv', NEW w \in Workers, Handle(w)
  PROVE  BindingsInv'
<1> USE DEF GoesTo, Ends, storeVars
<1>a. TypeInv
  BY BindingsFacts
<1>1. CASE CreateUnknownPlan(w)
  BY <1>a, <1>1, CreateUnknownPlanStep, BindingsQuiet, LabelFacts DEF Same
<1>2. CASE CreateExisting(w)
  BY <1>a, <1>2, CreateExistingStep, LookupEffect, BindingsQuiet, LabelFacts
<1>3. CASE CreateNew(w)
  BY <1>a, <1>3, CreateNewStep, LookupEffect, BindingsQuiet, LabelFacts
<1>4. CASE CreateDb(w)
  <2>1. /\ Moves(w) /\ req'[w] = req[w] /\ pc'[w] \in {"addInstance", "done"}
    BY <1>a, <1>4, CreateDbLeads
  <2>2. /\ UNCHANGED storeVars /\ pc[w] = "createDb" /\ req[w].op = "create" /\ Same(w)
    BY <1>a, <1>4, CreateDbStep, SMTT(30), ZenonT(60)
  <2> QED BY <2>1, <2>2, BindingsQuiet, LabelFacts DEF Same
<1>5. CASE StoreInstance(w)
  BY <1>5, StoreInstanceBound
<1>6. CASE Get(w)
  BY <1>a, <1>6, GetStep, LookupEffect, BindingsQuiet, LabelFacts
<1>7. CASE Remove(w)
  BY <1>a, <1>7, RemoveStep, LookupEffect, BindingsQuiet, LabelFacts DEF UnbindLabels
<1>8. CASE ListBindings(w) \/ ListSomeBindings(w)
  BY <1>8, ListBindingsBound
<1>9. CASE NextBinding(w)
  BY <1>9, NextBindingBound
<1>10. CASE DeleteDb(w)
  <2>1. /\ Moves(w) /\ req'[w] = req[w] /\ pc'[w] \in {"deleteInstance", "done"}
    BY <1>a, <1>10, DeleteDbLeads
  <2>2. /\ UNCHANGED storeVars /\ pc[w] = "deleteDb" /\ req[w].op = "remove" /\ Same(w)
    BY <1>a, <1>10, DeleteDbStep, SMTT(30), ZenonT(60)
  <2> QED BY <2>1, <2>2, BindingsQuiet, LabelFacts DEF Same, UnbindLabels
<1>11. CASE EraseInstance(w)
  BY <1>11, EraseInstanceBound
<1>12. CASE Bind(w)
  <2>1. /\ Moves(w) /\ req'[w] = req[w] /\ todo'[w] = todo[w] /\ pc[w] = "bind"
        /\ \/ pc'[w] = "getBinding"
           \/ pc'[w] = "done" /\ resp'[w].code = 500
    BY <1>a, <1>12, BindFirstStep
  <2>2. UNCHANGED <<instanceRows, bindingRows>>
    BY <1>a, <1>12, BindFirstStep, LookupEffect
  <2> QED BY <2>1, <2>2, BindingsQuiet, LabelFacts DEF UnbindLabels
<1>13. CASE FindBinding(w)
  BY <1>13, FindBindingBound
<1>14. CASE CheckUser(w)
  <2>1. /\ Moves(w) /\ req'[w] = req[w]
        /\ \/ pc'[w] = "newUser"
           \/ pc'[w] = "done" /\ resp'[w].code \in {409, 500}
    BY <1>a, <1>14, CheckUserLeads
  <2>2. UNCHANGED storeVars /\ pc[w] = "userExists" /\ Same(w)
    BY <1>a, <1>14, CheckUserStep
  <2> QED BY <2>1, <2>2, PlanBindBound DEF NewUserLabels, BoundLabels
<1>15. CASE MakeUser(w)
  <2>1. /\ Moves(w) /\ req'[w] = req[w]
        /\ \/ pc'[w] = "grantWrite"
           \/ pc'[w] = "done" /\ resp'[w].code = 500
    BY <1>a, <1>15, MakeUserLeads
  <2>2. UNCHANGED storeVars /\ pc[w] = "newUser" /\ Same(w)
    BY <1>a, <1>15, MakeUserStep, SMTT(30), ZenonT(60)
  <2> QED BY <2>1, <2>2, PlanBindBound DEF NewUserLabels, BoundLabels
<1>16. CASE GrantWrite(w)
  <2>1. /\ Moves(w) /\ req'[w] = req[w]
        /\ \/ pc'[w] = "grantRead"
           \/ pc'[w] = "done" /\ resp'[w].code = 500
    BY <1>a, <1>16, GrantWriteLeads
  <2>2. UNCHANGED storeVars /\ pc[w] = "grantWrite" /\ Same(w)
    BY <1>a, <1>16, GrantWriteStep, SMTT(30), ZenonT(60)
  <2> QED BY <2>1, <2>2, PlanBindBound DEF NewUserLabels, BoundLabels
<1>17. CASE GrantRead(w)
  <2>1. /\ Moves(w) /\ req'[w] = req[w]
        /\ \/ pc'[w] \in {"addBinding", "checkInstance"}
           \/ pc'[w] = "done" /\ resp'[w].code = 500
    BY <1>a, <1>17, GrantReadLeads
  <2>2. UNCHANGED storeVars /\ pc[w] = "grantRead" /\ Same(w)
    BY <1>a, <1>17, GrantReadStep, SMTT(30), ZenonT(60)
  <2> QED BY <2>1, <2>2, PlanBindBound DEF NewUserLabels, BoundLabels
<1>18. CASE CheckInstance(w)
  <2>1. /\ pc[w] = "checkInstance" /\ Same(w) /\ GoesTo(w, "addBinding")
        /\ UNCHANGED storeVars
    BY <1>18, CheckInstanceFinds
  <2> QED BY <2>1, PlanBindBound DEF NewUserLabels, BoundLabels
<1>19. CASE StoreBinding(w)
  BY <1>19, StoreBindingBound
<1>20. CASE Unbind(w)
  <2>1. /\ pc[w] = "unbind" /\ req[w].op = "unbind" /\ todo'[w] = todo[w]
        /\ getServiceInstance(w, inst'[w])
        /\ \/ inst'[w] # None /\ GoesTo(w, "unbindGet")
           \/ inst'[w] = None /\ Ends(w, 410, FALSE)
    BY <1>a, <1>20, UnbindFirstStep
  <2>2. UNCHANGED storeVars /\ (inst'[w] = None => Unrecorded(req[w].inst))
    BY <2>1, BindingsFacts, LookupExact, SMTT(30), ZenonT(60) DEF SqlSetting, SerialSetting
  <2>3. CASE inst'[w] # None /\ GoesTo(w, "unbindGet")
    BY <2>1, <2>2, <2>3, BindingsQuiet, LabelFacts DEF UnbindLabels
  <2>4. CASE inst'[w] = None /\ Ends(w, 410, FALSE)
    <3>1. \A r \in bindingRows : r.guid = req[w].bind => r.inst = req[w].inst
      BY <1>a, <2>1, BindingsFacts, RequestOf DEF RecordsOurs
    <3>2. Unbound(req[w].bind)
      BY <2>2, <2>4, <3>1 DEF BindingsInv, ForeignKey, Unbound
    <3>3. Unbound(req[w].bind)'
      BY <2>2, <2>4, <3>2 DEF Unbound
    <3>4. BindingKnown(w)'
      BY <2>1, <2>4, <3>3 DEF BindingKnown, Answered, NewUserLabels, BoundLabels, UnbindLabels
    <3>5. ListedKnown(w)'
      BY <2>1, <2>2, <2>4, ListedStill DEF BindingsInv
    <3> QED BY <2>2, <2>4, <3>4, <3>5, BindingsKept
  <2> QED BY <2>1, <2>3, <2>4
<1>21. CASE UnbindGet(w)
  BY <1>21, UnbindGetBound
<1>22. CASE EraseBinding(w)
  BY <1>22, EraseBindingBound
<1>23. CASE RevokeWrite(w)
  <2>1. /\ UNCHANGED storeVars /\ pc[w] = "revokeWrite" /\ Same(w)
        /\ GoesTo(w, "revokeRead") \/ UnbindFailed(w)
    BY <1>a, <1>23, RevokeWriteStep, Zenon
  <2>2. Moves(w) /\ req'[w] = req[w]
    BY <2>1 DEF UnbindFailed
  <2>3. pc'[w] = "revokeRead" \/ UnbindFailed(w)
    BY <2>1
  <2> QED BY <2>1, <2>2, <2>3, PlanUnBindBound DEF UnbindLabels
<1>24. CASE RevokeRead(w)
  <2>1. /\ UNCHANGED storeVars /\ pc[w] = "revokeRead" /\ Same(w)
        /\ GoesTo(w, "deleteUser") \/ UnbindFailed(w)
    BY <1>a, <1>24, RevokeReadStep, Zenon
  <2>2. Moves(w) /\ req'[w] = req[w]
    BY <2>1 DEF UnbindFailed
  <2>3. pc'[w] = "deleteUser" \/ UnbindFailed(w)
    BY <2>1
  <2> QED BY <2>1, <2>2, <2>3, PlanUnBindBound DEF UnbindLabels
<1>25. CASE RemoveUser(w)
  <2>1. /\ UNCHANGED storeVars /\ pc[w] = "deleteUser" /\ Same(w)
        /\ UnbindDone(w) \/ UnbindFailed(w)
    BY <1>a, <1>25, RemoveUserStep, Zenon
  <2>2. Moves(w) /\ req'[w] = req[w]
    BY <2>1 DEF UnbindFailed, UnbindDone
  <2> QED BY <2>1, <2>2, PlanUnBindBound DEF UnbindLabels
<1> QED BY <1>1, <1>2, <1>3, <1>4, <1>5, <1>6, <1>7, <1>8, <1>9, <1>10, <1>11, <1>12,
           <1>13, <1>14, <1>15, <1>16, <1>17, <1>18, <1>19, <1>20, <1>21, <1>22, <1>23,
           <1>24, <1>25 DEF Handle

(* So every step does. *)
LEMMA BindingsNext ==
  ASSUME SqlSetting, BindingsInv, [Next]_vars
  PROVE  BindingsInv'
<1> USE DEF storeVars
<1>1. TypeInv /\ DatabasesInv'
  BY DatabasesNext, BindingsFacts DEF BindingsInv, SqlSetting
<1>2. ASSUME NEW w \in Workers, Handle(w) PROVE BindingsInv'
  BY <1>1, <1>2, BindingsHandle
<1>3. ASSUME NEW w \in Workers, Panic(w) \/ Return(w) PROVE BindingsInv'
  <2>1. UNCHANGED storeVars /\ Moves(w) /\ pc'[w] = "idle" /\ todo'[w] = {}
    BY <1>1, <1>3, EndStep, ExitStep
  <2>2. BindingKnown(w)' /\ ListedKnown(w)'
    BY <2>1, BoundNothing, LabelFacts DEF ListedKnown
  <2> QED BY <1>1, <2>1, <2>2, BindingsKept
<1>4. ASSUME NEW w \in Workers, NEW r \in Requests, Receive(w, r) PROVE BindingsInv'
  <2>1. /\ UNCHANGED storeVars /\ Moves(w) /\ pc'[w] \in Ops /\ todo'[w] = {}
    BY <1>1, <1>4, ReceiveStep DEF Same
  <2>2. BindingKnown(w)' /\ ListedKnown(w)'
    BY <2>1, BoundNothing, LabelFacts DEF ListedKnown, Ops
  <2> QED BY <1>1, <2>1, <2>2, BindingsKept
<1>5. CASE Restart
  BY <1>5 DEF Restart, Fault, SqlSetting, SerialSetting
<1>6. CASE UNCHANGED vars
  <2>1. ASSUME NEW w \in Workers PROVE BindingKnown(w)' /\ ListedKnown(w)'
    BY <1>6 DEF vars, locals, BindingsInv, BindingKnown, ListedKnown, Unbound, Answered,
                BindingOf, PlaceOf, DatabaseOf, ServerOf
  <2>2. ForeignKey' /\ OneBinding' /\ BindingsFit'
    BY <1>6 DEF vars, BindingsInv, ForeignKey, OneBinding, BindingsFit, Unrecorded, PlaceOf,
                DatabaseOf, ServerOf
  <2> QED BY <1>1, <2>1, <2>2 DEF BindingsInv
<1> QED BY <1>2, <1>3, <1>4, <1>5, <1>6 DEF Next

-----------------------------------------------------------------------------
(* What the invariant says of the answers. *)

(* The records of an instance are the one of the GUID, or none. *)
LEMMA RecordedOf ==
  ASSUME OneRecord, NEW g
  PROVE  /\ Unrecorded(g) => Recorded(g) = {}
         /\ \A data : [guid |-> g, data |-> data] \in instanceRows => Recorded(g) = {data}
<1>1. Unrecorded(g) => Recorded(g) = {}
  BY DEF Unrecorded, Recorded
<1>2. ASSUME NEW data, [guid |-> g, data |-> data] \in instanceRows
      PROVE  Recorded(g) = {data}
  <2> DEFINE r == [guid |-> g, data |-> data]
  <2>1. r \in instanceRows /\ r.guid = g /\ r.data = data
    BY <1>2
  <2> HIDE DEF r
  <2>2. {i \in instanceRows : i.guid = g} = {r}
    BY <2>1 DEF OneRecord
  <2> QED BY <2>1, <2>2 DEF Recorded
<1> QED BY <1>1, <1>2

(* Every answer is true of the records. *)
LEMMA RecordsAnswered ==
  ASSUME BindingsInv
  PROVE  /\ CreateAnswer /\ GetAnswer /\ RemoveAnswer /\ RemoveDropsBindings
         /\ GoneAnswer /\ BindAnswer /\ UnbindAnswer
<1>a. /\ TypeInv /\ OneRecord /\ RecordsOurs /\ ForeignKey
      /\ \A w \in Workers : InstanceKnown(w) /\ BindingKnown(w)
  BY BindingsFacts DEF BindingsInv
<1>1. CreateAnswer
  BY CreationAnswered DEF BindingsInv
<1>2. GetAnswer
  BY <1>a, RecordedOf DEF GetAnswer, InstanceKnown, RecordOf
<1>3. \A w \in Workers : Answered(w, "remove", {200, 410}) => Unrecorded(req[w].inst)
  BY <1>a DEF InstanceKnown
<1>4. RemoveAnswer
  BY <1>a, <1>3, RecordedOf DEF RemoveAnswer, Answered
<1>5. RemoveDropsBindings
  BY <1>a, <1>3 DEF RemoveDropsBindings, Answered, ForeignKey
<1>6. \A g, b : Unbound(b) => RecordedBindings(g, b) = {}
  BY DEF Unbound, RecordedBindings
<1>7. \A w \in Workers : Answered(w, "unbind", {200, 410}) => Unbound(req[w].bind)
  BY <1>a DEF BindingKnown
<1>8. GoneAnswer
  <2>1. \A w \in Workers : Answered(w, "remove", {410}) => Recorded(req[w].inst) = {}
    BY <1>a, <1>3, RecordedOf DEF Answered
  <2>2. \A w \in Workers :
          Answered(w, "unbind", {410}) => RecordedBindings(req[w].inst, req[w].bind) = {}
    BY <1>6, <1>7 DEF Answered
  <2> QED BY <2>1, <2>2 DEF GoneAnswer
<1>9. UnbindAnswer
  BY <1>6, <1>7 DEF UnbindAnswer, Answered
<1>10. BindAnswer
  <2> SUFFICES ASSUME NEW w \in Workers, Answered(w, "bind", {200, 201})
               PROVE  RecordedBindings(req[w].inst, req[w].bind) # {}
    BY DEF BindAnswer
  <2>1. PICK r \in bindingRows : r.guid = req[w].bind
    BY <1>a DEF BindingKnown, Unbound
  <2>2. req[w].inst = InstanceOf[req[w].bind]
    BY <1>a, RequestOf DEF Answered
  <2>3. r.inst = req[w].inst
    BY <1>a, <2>1, <2>2 DEF RecordsOurs
  <2>4. r.cred \in RecordedBindings(req[w].inst, req[w].bind)
    BY <2>1, <2>3 DEF RecordedBindings
  <2> QED BY <2>4
<1> QED BY <1>1, <1>2, <1>4, <1>5, <1>8, <1>9, <1>10
=============================================================================
