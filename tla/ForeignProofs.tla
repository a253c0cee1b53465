---------------------------- MODULE ForeignProofs -----------------------------
(***************************************************************************)
(* The broker leaves the databases and users of other applications alone:  *)
(* ForeignUntouched is an invariant for every set of workers, requests and *)
(* faults and for both stores, if GUIDs mean what the platform means by    *)
(* them (PlatformAssumption).                                              *)
(***************************************************************************)
EXTENDS ServiceBrokerProofs

-----------------------------------------------------------------------------
(* The parts of ForeignInv. *)

(* It holds initially: nothing is recorded and no handler runs. *)
LEMMA ForeignInit == Init => ForeignInv
<1> SUFFICES ASSUME Init PROVE ForeignInv
  OBVIOUS
<1>1. ForeignUntouched /\ RecordsOurs
  BY DEF Init, ForeignUntouched, RecordsOurs
<1>2. ASSUME NEW w \in Workers PROVE HandlerOurs(w)
  BY LabelFacts DEF Init, HandlerOurs, NewUserLabels, BoundLabels
<1> QED BY <1>1, <1>2 DEF ForeignInv

(* A step of w keeps it when it keeps the shared parts and w's. *)
LEMMA ForeignStep ==
  ASSUME TypeInv, ForeignInv, NEW w \in Workers, Moves(w),
         ForeignUntouched', RecordsOurs', HandlerOurs(w)'
  PROVE  ForeignInv'
<1>1. ASSUME NEW v \in Workers, v # w PROVE HandlerOurs(v)'
  BY <1>1, OthersStay DEF ForeignInv, HandlerOurs, OwnUser
<1> QED BY <1>1 DEF ForeignInv

(* A step that leaves Stardog alone leaves the others alone. *)
LEMMA UntouchedStays ==
  ASSUME ForeignInv, UNCHANGED stardogVars PROVE ForeignUntouched'
  BY DEF ForeignInv, ForeignUntouched, stardogVars

(* So does a step that adds databases and users and gives no permission. *)
LEMMA UntouchedGrows ==
  ASSUME ForeignInv, ExistingDbs \subseteq databases', ExistingUsers \subseteq users',
         grants' \subseteq grants
  PROVE  ForeignUntouched'
  BY DEF ForeignInv, ForeignUntouched

(* Records that stay or go leave the rest as they were. *)
LEMMA RecordsShrink ==
  ASSUME ForeignInv, instanceRows' \subseteq instanceRows, bindingRows' \subseteq bindingRows
  PROVE  RecordsOurs'
  BY DEF ForeignInv, RecordsOurs

(* So does a step that leaves the store alone. *)
LEMMA RecordsStay == ASSUME ForeignInv, UNCHANGED storeVars PROVE RecordsOurs'
  BY RecordsShrink DEF storeVars

(* A handler that answered has nothing to show but the bindings it had to unbind. *)
LEMMA AnswerOurs ==
  ASSUME ForeignInv, NEW w \in Workers, pc'[w] = "done", req'[w] = req[w],
         todo'[w] = todo[w]
  PROVE  HandlerOurs(w)'
  BY LabelFacts DEF ForeignInv, HandlerOurs, OwnUser, NewUserLabels, BoundLabels

(***************************************************************************)
(* A handler that goes on with the variables it has: what the next label   *)
(* wants of them, the one before did.                                      *)
(***************************************************************************)
LEMMA GoOnOurs ==
  ASSUME ForeignInv, NEW w \in Workers, pc[w] \in InstLabels \ {"createDb"},
         req'[w] = req[w], inst'[w] = inst[w], cred'[w] = cred[w], todo'[w] = todo[w],
         pc'[w] \in NewUserLabels \cup BoundLabels => pc[w] \in NewUserLabels \cup BoundLabels,
         pc'[w] \in CredLabels \ NewUserLabels => pc[w] \in CredLabels \ NewUserLabels
  PROVE  HandlerOurs(w)'
  BY DEF ForeignInv, HandlerOurs, OwnUser

(* What getServiceInstance finds is ours. *)
LEMMA FoundOurs ==
  ASSUME ForeignInv, NEW w, NEW found, getServiceInstance(w, found), found # None
  PROVE  ServerOf(found) = Home[req[w].inst] /\ DatabaseOf(found) \notin ExistingDbs
  BY LookupEffect DEF ForeignInv, RecordsOurs

-----------------------------------------------------------------------------
(* The handlers that start with a lookup of the instance. *)

(* What they share: the label they go to, if any, is not about a binding. *)
LEMMA LookupForeign ==
  ASSUME TypeInv, ForeignInv, NEW w \in Workers, pc[w] # "idle",
         NEW found, getServiceInstance(w, found), inst' = [inst EXCEPT ![w] = found],
         UNCHANGED <<stardogVars, planMap, req, cred, todo>>,
         NEW label \in InstLabels \ CredLabels, NEW code,
         \/ found # None /\ Goto(w, label)
         \/ WriteResponse(w, code) \/ SendError(w, code)
  PROVE  ForeignInv'
<1>1. Assigns(w) /\ inst'[w] = found /\ todo'[w] = todo[w]
  BY LookupStep DEF TypeInv, TypeOK
<1>2. ForeignUntouched' /\ RecordsOurs'
  BY LookupEffect, UntouchedStays, RecordsShrink
<1>3. CASE found # None /\ Goto(w, label)
  <2>1. Moves(w) /\ pc'[w] = label /\ req'[w] = req[w]
    BY <1>1, <1>3, GotoMoves
  <2>2. HandlerOurs(w)'
    BY <1>1, <1>3, <2>1, FoundOurs, LabelFacts
       DEF ForeignInv, HandlerOurs, OwnUser, NewUserLabels, BoundLabels
  <2> QED BY <1>2, <2>1, <2>2, ForeignStep
<1>4. CASE WriteResponse(w, code) \/ SendError(w, code)
  <2>1. Moves(w) /\ pc'[w] = "done" /\ req'[w] = req[w]
    BY <1>1, <1>4, AnswerMoves
  <2> QED BY <1>1, <1>2, <2>1, AnswerOurs, ForeignStep
<1> QED BY <1>3, <1>4

(* Get, Remove, Bind and Unbind keep the invariant. *)
LEMMA LookupsForeign ==
  ASSUME TypeInv, ForeignInv, NEW w \in Workers,
         Get(w) \/ Remove(w) \/ Bind(w) \/ Unbind(w)
  PROVE  ForeignInv'
<1>1. UNCHANGED <<stardogVars, planMap, req, cred, todo>> /\ pc[w] # "idle"
  BY DEF Get, Remove, Bind, Unbind
<1>2. {"listBindings", "getBinding", "unbindGet"} \subseteq InstLabels \ CredLabels
  BY LabelFacts
<1>3. CASE Get(w)
  <2>1. PICK found : /\ getServiceInstance(w, found)
                     /\ inst' = [inst EXCEPT ![w] = found]
                     /\ WriteResponse(w, 200) \/ SendError(w, 404)
    BY <1>3 DEF Get
  <2>2. CASE WriteResponse(w, 200)
    BY <1>1, <1>2, <2>1, <2>2, LookupForeign
  <2>3. CASE SendError(w, 404)
    BY <1>1, <1>2, <2>1, <2>3, LookupForeign, ZenonT(60)
  <2> QED BY <2>1, <2>2, <2>3
<1>4. CASE Remove(w)
  <2>1. PICK found : /\ getServiceInstance(w, found)
                     /\ inst' = [inst EXCEPT ![w] = found]
                     /\ (found # None /\ Goto(w, "listBindings")) \/ SendError(w, 410)
    BY <1>4 DEF Remove
  <2> QED BY <1>1, <1>2, <2>1, LookupForeign, ZenonT(60)
<1>5. CASE Bind(w)
  <2>1. PICK found : /\ getServiceInstance(w, found)
                     /\ inst' = [inst EXCEPT ![w] = found]
                     /\ (found # None /\ Goto(w, "getBinding")) \/ SendError(w, 500)
    BY <1>5 DEF Bind
  <2> QED BY <1>1, <1>2, <2>1, LookupForeign, ZenonT(60)
<1>6. CASE Unbind(w)
  <2>1. PICK found : /\ getServiceInstance(w, found)
                     /\ inst' = [inst EXCEPT ![w] = found]
                     /\ (found # None /\ Goto(w, "unbindGet")) \/ SendError(w, 410)
    BY <1>6 DEF Unbind
  <2> QED BY <1>1, <1>2, <2>1, LookupForeign, ZenonT(60)
<1> QED BY <1>3, <1>4, <1>5, <1>6

-----------------------------------------------------------------------------
(* CreateServiceInstance *)

(* CreateUnknownPlan keeps the invariant. *)
LEMMA CreateUnknownPlanForeign ==
  ASSUME TypeInv, ForeignInv, NEW w \in Workers, CreateUnknownPlan(w)  PROVE ForeignInv'
<1>1. /\ UNCHANGED <<stardogVars, storeVars, req, inst, cred, todo>>
      /\ SendError(w, 400)
  BY DEF CreateUnknownPlan, locals
<1>2. Moves(w) /\ pc'[w] = "done" /\ req'[w] = req[w] /\ todo'[w] = todo[w]
  BY <1>1, AssignsNothing, AnswerMoves
<1> QED BY <1>1, <1>2, UntouchedStays, RecordsStay, AnswerOurs, ForeignStep

(* CreateExisting keeps it. *)
LEMMA CreateExistingForeign ==
  ASSUME TypeInv, ForeignInv, NEW w \in Workers, CreateExisting(w)  PROVE ForeignInv'
<1>1. UNCHANGED <<stardogVars, planMap, req, cred, todo>> /\ pc[w] # "idle"
  BY DEF CreateExisting
<1>2. PICK found : /\ getServiceInstance(w, found)
                   /\ inst' = [inst EXCEPT ![w] = found]
                   /\ WriteResponse(w, 200) \/ SendError(w, 409)
  BY DEF CreateExisting
<1>3. "listBindings" \in InstLabels \ CredLabels
  BY LabelFacts
<1>4. CASE WriteResponse(w, 200)
  BY <1>1, <1>2, <1>3, <1>4, LookupForeign
<1>5. CASE SendError(w, 409)
  BY <1>1, <1>2, <1>3, <1>5, LookupForeign, ZenonT(60)
<1> QED BY <1>2, <1>4, <1>5

(* CreateNew keeps it: the instance will be on the server of its GUID. *)
LEMMA CreateNewForeign ==
  ASSUME TypeInv, ForeignInv, NEW w \in Workers, CreateNew(w)  PROVE ForeignInv'
<1>1. UNCHANGED <<stardogVars, planMap, req, cred, todo>> /\ pc[w] = "create"
  BY DEF CreateNew
<1>2. ForeignUntouched' /\ RecordsOurs'
  BY <1>1, LookupEffect, UntouchedStays, RecordsShrink DEF CreateNew
<1>3. req[w] \in Requests /\ req[w].op = "create"
  BY <1>1, Serving, OpAt
<1>4. CASE Inflates(req[w])
  <2>1. PICK d \in Chosen(req[w].db, DbNames) :
          inst' = [inst EXCEPT ![w] =
                [plan |-> req[w].plan, meta |-> req[w].meta, db |-> d, url |-> req[w].url]]
    BY <1>4 DEF CreateNew
  <2> DEFINE new == [plan |-> req[w].plan, meta |-> req[w].meta, db |-> d, url |-> req[w].url]
  <2>2. new \in InstanceRecords
    BY <1>3, <1>4, RequestType DEF InstanceRecords, InstanceData, Inflates, WellFormed, Chosen
  <2>3. ServerOf(new) = ServerOf(req[w])
    BY DEF ServerOf
  <2>4. ServerOf(new) = Home[req[w].inst]
    BY <1>3, <1>4, <2>3, PlatformAssumption
  <2>5. Assigns(w) /\ inst'[w] = new /\ todo'[w] = todo[w]
    BY <1>1, <2>1, <2>2, AssignsInst
  <2>6. Moves(w) /\ pc'[w] = "createDb" /\ req'[w] = req[w]
    BY <1>1, <1>4, <2>5, GotoMoves DEF CreateNew
  <2>7. HandlerOurs(w)'
    BY <2>4, <2>5, <2>6, LabelFacts
       DEF ForeignInv, HandlerOurs, OwnUser, NewUserLabels, BoundLabels
  <2> QED BY <1>2, <2>6, <2>7, ForeignStep
<1>5. CASE ~Inflates(req[w])
  <2>1. SendError(w, 500) /\ UNCHANGED inst
    BY <1>5 DEF CreateNew
  <2>2. Moves(w) /\ pc'[w] = "done" /\ req'[w] = req[w] /\ todo'[w] = todo[w]
    BY <1>1, <2>1, AssignsNothing, AnswerMoves
  <2> QED BY <1>2, <2>2, AnswerOurs, ForeignStep
<1> QED BY <1>4, <1>5

(* CreateDb keeps it: after a nil error the database was nobody's before. *)
LEMMA CreateDbForeign ==
  ASSUME TypeInv, ForeignInv, NEW w \in Workers, CreateDb(w)  PROVE ForeignInv'
<1>1. PICK reply \in BOOLEAN :
        /\ CreateDatabase(ServerOf(inst[w]), inst[w].db, reply)
        /\ (reply = TRUE /\ Goto(w, "addInstance")) \/ SendError(w, 500)
  BY DEF CreateDb
<1>2. UNCHANGED <<storeVars, planMap, req, inst, cred, todo>> /\ pc[w] = "createDb"
  BY DEF CreateDb, locals
<1>3. /\ databases \subseteq databases' /\ UNCHANGED <<users, grants>>
      /\ reply = TRUE => DatabaseOf(inst[w]) \notin databases
  BY <1>1, CreateDatabaseEffect DEF DatabaseOf
<1>4. ForeignUntouched' /\ RecordsOurs'
  BY <1>2, <1>3, UntouchedGrows, RecordsStay DEF ForeignInv, ForeignUntouched
<1>5. Assigns(w) /\ inst'[w] = inst[w] /\ todo'[w] = todo[w]
  BY <1>2, AssignsNothing
<1>6. CASE reply = TRUE /\ Goto(w, "addInstance")
  <2>1. Moves(w) /\ pc'[w] = "addInstance" /\ req'[w] = req[w]
    BY <1>2, <1>5, <1>6, GotoMoves
  <2>2. DatabaseOf(inst[w]) \notin ExistingDbs /\ ServerOf(inst[w]) = Home[req[w].inst]
    BY <1>2, <1>3, <1>6, LabelFacts DEF ForeignInv, ForeignUntouched, HandlerOurs
  <2>3. HandlerOurs(w)'
    BY <1>5, <2>1, <2>2, LabelFacts
       DEF ForeignInv, HandlerOurs, OwnUser, NewUserLabels, BoundLabels
  <2> QED BY <1>4, <2>1, <2>3, ForeignStep
<1>7. CASE SendError(w, 500)
  <2>1. Moves(w) /\ pc'[w] = "done" /\ req'[w] = req[w]
    BY <1>2, <1>5, <1>7, AnswerMoves
  <2> QED BY <1>4, <1>5, <2>1, AnswerOurs, ForeignStep
<1> QED BY <1>1, <1>6, <1>7

(* StoreInstance keeps it: what it records is ours. *)
LEMMA StoreInstanceForeign ==
  ASSUME TypeInv, ForeignInv, NEW w \in Workers, StoreInstance(w)  PROVE ForeignInv'
<1>1. PICK reply \in BOOLEAN :
        /\ AddInstance(req[w].inst, inst[w], reply)
        /\ WriteResponse(w, 201) \/ SendError(w, 500)
  BY DEF StoreInstance
<1>2. UNCHANGED <<stardogVars, planMap, req, inst, cred, todo>> /\ pc[w] = "addInstance"
  BY DEF StoreInstance, locals
<1>3. ServerOf(inst[w]) = Home[req[w].inst] /\ DatabaseOf(inst[w]) \notin ExistingDbs
  BY <1>2, LabelFacts DEF ForeignInv, HandlerOurs
<1>4. /\ instanceRows' \subseteq instanceRows \cup {[guid |-> req[w].inst, data |-> inst[w]]}
      /\ bindingRows' = bindingRows
  BY <1>1, AddInstanceEffect
<1>5. RecordsOurs'
  BY <1>3, <1>4 DEF ForeignInv, RecordsOurs
<1>6. Moves(w) /\ pc'[w] = "done" /\ req'[w] = req[w] /\ todo'[w] = todo[w]
  BY <1>1, <1>2, AssignsNothing, AnswerMoves
<1> QED BY <1>2, <1>5, <1>6, UntouchedStays, AnswerOurs, ForeignStep

-----------------------------------------------------------------------------
(* RemoveServiceInstance *)

(* ListBindings keeps the invariant: the bindings listed are of our users. *)
LEMMA ListBindingsForeign ==
  ASSUME TypeInv, ForeignInv, NEW w \in Workers, ListBindings(w)  PROVE ForeignInv'
<1>1. PICK answer \in GetAllBindings(req[w].inst) \cup {None} :
        /\ Read(GetAllBindings(req[w].inst), answer)
        /\ \/ /\ answer # None
              /\ todo' = [todo EXCEPT ![w] = answer] /\ Goto(w, "nextBinding")
           \/ SendError(w, 500) /\ UNCHANGED todo
  BY DEF ListBindings
<1>2. UNCHANGED <<stardogVars, planMap, req, inst, cred>> /\ pc[w] = "listBindings"
  BY DEF ListBindings
<1>3. ForeignUntouched' /\ RecordsOurs'
  BY <1>1, <1>2, ReadEffect, UntouchedStays, RecordsShrink
<1>4. CASE answer # None /\ todo' = [todo EXCEPT ![w] = answer] /\ Goto(w, "nextBinding")
  <2>1. ASSUME NEW t \in answer
        PROVE  OwnUser(w, t.cred) /\ t \in [guid : Bindings, cred : Credentials]
    <3>1. PICK r \in bindingRows :
            /\ t = [guid |-> r.guid, cred |-> r.cred]
            /\ \E q \in bindingRows : q.guid = r.guid /\ q.inst = req[w].inst
      BY <1>1, <1>4, <2>1, GetAllBindingsAnswer
    <3>2. r.inst = req[w].inst
      BY <3>1 DEF ForeignInv, RecordsOurs
    <3>3. OwnUser(w, r.cred)
      BY <3>2 DEF ForeignInv, RecordsOurs, OwnUser, UserOf
    <3> QED BY <3>1, <3>3 DEF TypeInv, TypeOK, StoreOK
  <2>2. todo' = [todo EXCEPT ![w] = todo'[w]] /\ todo'[w] = answer
    BY <1>4 DEF TypeInv, TypeOK
  <2>3. Assigns(w) /\ inst'[w] = inst[w]
    BY <1>2, <2>1, <2>2, Keeps DEF Assigns, Todos
  <2>4. Moves(w) /\ pc'[w] = "nextBinding" /\ req'[w] = req[w]
    BY <1>2, <1>4, <2>3, GotoMoves
  <2>5. HandlerOurs(w)'
    BY <1>2, <2>1, <2>2, <2>3, <2>4, LabelFacts
       DEF ForeignInv, HandlerOurs, OwnUser, NewUserLabels, BoundLabels
  <2> QED BY <1>3, <2>4, <2>5, ForeignStep
<1>5. CASE SendError(w, 500) /\ UNCHANGED todo
  <2>1. Moves(w) /\ pc'[w] = "done" /\ req'[w] = req[w] /\ todo'[w] = todo[w]
    BY <1>2, <1>5, AssignsNothing, AnswerMoves
  <2> QED BY <1>3, <2>1, AnswerOurs, ForeignStep
<1> QED BY <1>1, <1>4, <1>5

(* ListSomeBindings keeps it: what is left out need not be looked at. *)
LEMMA ListSomeBindingsForeign ==
  ASSUME TypeInv, ForeignInv, NEW w \in Workers, ListSomeBindings(w)  PROVE ForeignInv'
<1>0. PICK answer \in GetAllBindings(req[w].inst) \ {None} :
        \E part \in SUBSET answer : todo' = [todo EXCEPT ![w] = part]
  BY DEF ListSomeBindings
<1>1. PICK part \in SUBSET answer : todo' = [todo EXCEPT ![w] = part]
  BY <1>0
<1>2. /\ UNCHANGED <<stardogVars, storeVars, planMap, req, inst, cred>>
      /\ pc[w] = "listBindings" /\ Goto(w, "nextBinding")
  BY DEF ListSomeBindings
<1>3. ForeignUntouched' /\ RecordsOurs'
  BY <1>2, UntouchedStays, RecordsStay DEF storeVars, ForeignInv
<1>4. ASSUME NEW t \in part
      PROVE  OwnUser(w, t.cred) /\ t \in [guid : Bindings, cred : Credentials]
  <2>1. PICK r \in bindingRows :
          /\ t = [guid |-> r.guid, cred |-> r.cred]
          /\ \E q \in bindingRows : q.guid = r.guid /\ q.inst = req[w].inst
    BY <1>1, <1>4, GetAllBindingsAnswer
  <2>2. r.inst = req[w].inst
    BY <2>1 DEF ForeignInv, RecordsOurs
  <2>3. OwnUser(w, r.cred)
    BY <2>2 DEF ForeignInv, RecordsOurs, OwnUser, UserOf
  <2> QED BY <2>1, <2>3 DEF TypeInv, TypeOK, StoreOK
<1>5. todo' = [todo EXCEPT ![w] = todo'[w]] /\ todo'[w] = part
  BY <1>1 DEF TypeInv, TypeOK
<1>6. Assigns(w) /\ inst'[w] = inst[w]
  BY <1>2, <1>4, <1>5, Keeps DEF Assigns, Todos
<1>7. Moves(w) /\ pc'[w] = "nextBinding" /\ req'[w] = req[w]
  BY <1>2, <1>6, GotoMoves
<1>8. HandlerOurs(w)'
  BY <1>2, <1>4, <1>5, <1>6, <1>7, LabelFacts
     DEF ForeignInv, HandlerOurs, OwnUser, NewUserLabels, BoundLabels
<1> QED BY <1>3, <1>7, <1>8, ForeignStep

(* NextBinding keeps it. *)
LEMMA NextBindingForeign ==
  ASSUME TypeInv, ForeignInv, NEW w \in Workers, NextBinding(w)  PROVE ForeignInv'
<1>1. /\ UNCHANGED <<stardogVars, storeVars, faults, planMap, req, inst>>
      /\ pc[w] = "nextBinding"
  BY DEF NextBinding
<1>2. ForeignUntouched' /\ RecordsOurs'
  BY <1>1, UntouchedStays, RecordsStay
<1>3. CASE todo[w] = {}
  <2>1. Goto(w, "deleteDb") /\ UNCHANGED <<cred, todo>>
    BY <1>3 DEF NextBinding
  <2>2. /\ Assigns(w) /\ inst'[w] = inst[w] /\ cred'[w] = cred[w] /\ todo'[w] = todo[w]
        /\ Moves(w) /\ pc'[w] = "deleteDb" /\ req'[w] = req[w]
    BY <1>1, <2>1, AssignsNothing, GotoMoves
  <2>3. HandlerOurs(w)'
    BY <1>1, <2>2, GoOnOurs, LabelFacts DEF NewUserLabels, BoundLabels
  <2> QED BY <1>2, <2>2, <2>3, ForeignStep
<1>4. CASE todo[w] # {}
  <2>1. Goto(w, "revokeWrite")
    BY <1>4 DEF NextBinding
  <2>2. PICK b \in todo[w] : /\ cred' = [cred EXCEPT ![w] = b.cred]
                             /\ todo' = [todo EXCEPT ![w] = @ \ {b}]
    BY <1>4 DEF NextBinding
  <2>3. b.cred \in Credentials /\ todo[w] \ {b} \in Todos
    BY DEF TypeInv, TypeOK, Todos
  <2>4. /\ cred' = [cred EXCEPT ![w] = cred'[w]] /\ cred'[w] = b.cred
        /\ todo' = [todo EXCEPT ![w] = todo'[w]] /\ todo'[w] = todo[w] \ {b}
    BY <2>2 DEF TypeInv, TypeOK
  <2>5. Assigns(w) /\ inst'[w] = inst[w]
    BY <1>1, <2>3, <2>4, Keeps DEF Assigns
  <2>6. Moves(w) /\ pc'[w] = "revokeWrite" /\ req'[w] = req[w]
    BY <1>1, <2>1, <2>5, GotoMoves
  <2>7. HandlerOurs(w)'
    BY <1>1, <2>2, <2>4, <2>5, <2>6, LabelFacts
       DEF ForeignInv, HandlerOurs, OwnUser, NewUserLabels, BoundLabels
  <2> QED BY <1>2, <2>6, <2>7, ForeignStep
<1> QED BY <1>3, <1>4

(* DeleteDb keeps it: it deletes the database of a record. *)
LEMMA DeleteDbForeign ==
  ASSUME TypeInv, ForeignInv, NEW w \in Workers, DeleteDb(w)  PROVE ForeignInv'
<1>1. PICK reply \in BOOLEAN :
        /\ DeleteDatabase(ServerOf(inst[w]), inst[w].db, reply)
        /\ Goto(w, "deleteInstance") \/ SendError(w, 500)
  BY DEF DeleteDb
<1>2. UNCHANGED <<storeVars, planMap, req, inst, cred, todo>> /\ pc[w] = "deleteDb"
  BY DEF DeleteDb, locals
<1>3. databases \ {DatabaseOf(inst[w])} \subseteq databases' /\ UNCHANGED <<users, grants>>
  BY <1>1, DeleteDatabaseEffect DEF DatabaseOf
<1>4. DatabaseOf(inst[w]) \notin ExistingDbs
  BY <1>2, LabelFacts DEF ForeignInv, HandlerOurs
<1>5. ForeignUntouched' /\ RecordsOurs'
  BY <1>2, <1>3, <1>4, UntouchedGrows, RecordsStay DEF ForeignInv, ForeignUntouched
<1>6. /\ Assigns(w) /\ inst'[w] = inst[w] /\ cred'[w] = cred[w] /\ todo'[w] = todo[w]
  BY <1>2, AssignsNothing
<1>7. CASE Goto(w, "deleteInstance")
  <2>1. Moves(w) /\ pc'[w] = "deleteInstance" /\ req'[w] = req[w]
    BY <1>2, <1>6, <1>7, GotoMoves
  <2>2. HandlerOurs(w)'
    BY <1>2, <1>6, <2>1, GoOnOurs, LabelFacts DEF NewUserLabels, BoundLabels
  <2> QED BY <1>5, <2>1, <2>2, ForeignStep
<1>8. CASE SendError(w, 500)
  <2>1. Moves(w) /\ pc'[w] = "done" /\ req'[w] = req[w]
    BY <1>2, <1>6, <1>8, AnswerMoves
  <2> QED BY <1>5, <1>6, <2>1, AnswerOurs, ForeignStep
<1> QED BY <1>1, <1>7, <1>8

(* EraseInstance keeps it. *)
LEMMA EraseInstanceForeign ==
  ASSUME TypeInv, ForeignInv, NEW w \in Workers, EraseInstance(w)  PROVE ForeignInv'
<1>1. PICK reply \in BOOLEAN : DeleteInstance(req[w].inst, reply)
  BY DEF EraseInstance
<1>2. UNCHANGED <<stardogVars, planMap, req, inst, cred, todo>> /\ WriteResponse(w, 200)
  BY DEF EraseInstance, locals
<1>3. ForeignUntouched' /\ RecordsOurs'
  BY <1>1, <1>2, DeleteInstanceEffect, UntouchedStays, RecordsShrink
<1>4. Moves(w) /\ pc'[w] = "done" /\ req'[w] = req[w] /\ todo'[w] = todo[w]
  BY <1>2, AssignsNothing, AnswerMoves
<1> QED BY <1>3, <1>4, AnswerOurs, ForeignStep

-----------------------------------------------------------------------------
(* Bind *)

(* FindBinding keeps the invariant: the user will be on the instance's server. *)
LEMMA FindBindingForeign ==
  ASSUME TypeInv, ForeignInv, NEW w \in Workers, FindBinding(w)  PROVE ForeignInv'
<1> DEFINE answers == GetBinding(req[w].inst, req[w].bind)
<1>1. UNCHANGED <<stardogVars, planMap, req, inst, todo>> /\ pc[w] = "getBinding"
  BY DEF FindBinding
<1>2. /\ req[w] \in Requests
      /\ ServerOf(inst[w]) \in Servers /\ inst[w].db \in DbNames
  BY <1>1, Serving, InstSet, LabelFacts
<1>3. CASE \E found \in answers \ {None} :
             /\ Read(answers, found)
             /\ cred' = [cred EXCEPT ![w] = found]
             /\ IF EqualBinding(found, req[w]) THEN WriteResponse(w, 200)
                                               ELSE SendError(w, 409)
  <2>1. PICK found \in answers : /\ Read(answers, found) /\ found # None
                                 /\ cred' = [cred EXCEPT ![w] = found]
                                 /\ WriteResponse(w, 200) \/ SendError(w, 409)
    BY <1>3
  <2>2. found \in Credentials
    BY <2>1, GetBindingAnswer DEF TypeInv, TypeOK, StoreOK
  <2>3. Assigns(w) /\ todo'[w] = todo[w]
    BY <1>1, <2>1, <2>2, AssignsCred
  <2>4. Moves(w) /\ pc'[w] = "done" /\ req'[w] = req[w]
    BY <1>1, <2>1, <2>3, AnswerMoves
  <2>5. ForeignUntouched' /\ RecordsOurs'
    BY <1>1, <2>1, ReadEffect, UntouchedStays, RecordsShrink
  <2> QED BY <2>3, <2>4, <2>5, AnswerOurs, ForeignStep
<1>4. CASE /\ Read(answers, None)
           /\ \E u \in Chosen(req[w].user, UserNames), p \in Chosen(req[w].pw, Passwords) :
                cred' = [cred EXCEPT ![w] =
                  [url |-> ServerOf(inst[w]), db |-> inst[w].db, user |-> u, pw |-> p]]
           /\ Goto(w, "userExists")
  <2>1. PICK u \in Chosen(req[w].user, UserNames), p \in Chosen(req[w].pw, Passwords) :
          cred' = [cred EXCEPT ![w] =
            [url |-> ServerOf(inst[w]), db |-> inst[w].db, user |-> u, pw |-> p]]
    BY <1>4
  <2> DEFINE new == [url |-> ServerOf(inst[w]), db |-> inst[w].db, user |-> u, pw |-> p]
  <2>2. u \in UserNames /\ p \in Passwords
    BY <1>2, RequestType DEF Chosen
  <2>3. new \in Credentials
    BY <1>2, <2>2 DEF Credentials
  <2>4. Assigns(w) /\ inst'[w] = inst[w] /\ cred'[w] = new /\ todo'[w] = todo[w]
    BY <1>1, <2>1, <2>3, AssignsCred
  <2>5. Moves(w) /\ pc'[w] = "userExists" /\ req'[w] = req[w]
    BY <1>1, <1>4, <2>4, GotoMoves
  <2>6. new.url = Home[req[w].inst]
    BY <1>1, LabelFacts DEF ForeignInv, HandlerOurs
  <2>7. HandlerOurs(w)'
    BY <1>1, <2>4, <2>5, <2>6, LabelFacts
       DEF ForeignInv, HandlerOurs, OwnUser, NewUserLabels, BoundLabels
  <2>8. ForeignUntouched' /\ RecordsOurs'
    BY <1>1, <1>4, ReadEffect, UntouchedStays, RecordsShrink
  <2> QED BY <2>5, <2>7, <2>8, ForeignStep
<1> QED BY <1>3, <1>4 DEF FindBinding

(* What the steps of plan.Bind after NewUser share. *)
LEMMA BoundForeign ==
  ASSUME TypeInv, ForeignInv, NEW w \in Workers, pc[w] \in BoundLabels,
         UNCHANGED <<req, inst, cred, todo>>, ForeignUntouched', RecordsOurs',
         \/ Goto(w, "grantRead") \/ Goto(w, "checkInstance") \/ Goto(w, "addBinding")
         \/ SendError(w, 500) \/ SendError(w, 200) \/ WriteResponse(w, 201)
  PROVE  ForeignInv'
<1>1. Assigns(w) /\ inst'[w] = inst[w] /\ cred'[w] = cred[w] /\ todo'[w] = todo[w]
  BY AssignsNothing
<1>2. ASSUME NEW label \in BoundLabels, Goto(w, label) PROVE ForeignInv'
  <2>1. Moves(w) /\ pc'[w] = label /\ req'[w] = req[w]
    BY <1>1, <1>2, GotoMoves
  <2>2. HandlerOurs(w)'
    BY <1>1, <2>1, GoOnOurs, LabelFacts DEF NewUserLabels, BoundLabels
  <2> QED BY <2>1, <2>2, ForeignStep
<1>3. ASSUME NEW code, WriteResponse(w, code) \/ SendError(w, code) PROVE ForeignInv'
  <2>1. Moves(w) /\ pc'[w] = "done" /\ req'[w] = req[w]
    BY <1>1, <1>3, AnswerMoves
  <2> QED BY <1>1, <2>1, AnswerOurs, ForeignStep
<1> QED BY <1>2, <1>3 DEF BoundLabels

(* CheckUser keeps it. *)
LEMMA CheckUserForeign ==
  ASSUME TypeInv, ForeignInv, NEW w \in Workers, CheckUser(w)  PROVE ForeignInv'
<1>1. PICK reply \in BOOLEAN, exists \in BOOLEAN :
        /\ UserExists(cred[w].url, cred[w].user, reply, exists)
        /\ SendError(w, 500) \/ SendError(w, 409) \/ Goto(w, "newUser")
  BY DEF CheckUser
<1>2. UNCHANGED <<storeVars, req, inst, cred, todo>> /\ pc[w] = "userExists"
  BY DEF CheckUser, locals
<1>3. ForeignUntouched' /\ RecordsOurs'
  BY <1>1, <1>2, UserExistsEffect, UntouchedStays, RecordsStay
<1>4. Assigns(w) /\ inst'[w] = inst[w] /\ cred'[w] = cred[w] /\ todo'[w] = todo[w]
  BY <1>2, AssignsNothing
<1>5. CASE Goto(w, "newUser")
  <2>1. Moves(w) /\ pc'[w] = "newUser" /\ req'[w] = req[w]
    BY <1>2, <1>4, <1>5, GotoMoves
  <2>2. HandlerOurs(w)'
    BY <1>2, <1>4, <2>1, GoOnOurs, LabelFacts DEF NewUserLabels, BoundLabels
  <2> QED BY <1>3, <2>1, <2>2, ForeignStep
<1>6. CASE SendError(w, 500) \/ SendError(w, 409)
  <2>1. Moves(w) /\ pc'[w] = "done" /\ req'[w] = req[w]
    BY <1>2, <1>4, <1>6, AnswerMoves
  <2> QED BY <1>3, <1>4, <2>1, AnswerOurs, ForeignStep
<1> QED BY <1>1, <1>5, <1>6

(* MakeUser keeps it: after a nil error the user was nobody's before. *)
LEMMA MakeUserForeign ==
  ASSUME TypeInv, ForeignInv, NEW w \in Workers, MakeUser(w)  PROVE ForeignInv'
<1>1. PICK reply \in BOOLEAN :
        /\ NewUser(cred[w].url, cred[w].user, reply)
        /\ SendError(w, 500) \/ (reply = TRUE /\ Goto(w, "grantWrite"))
  BY DEF MakeUser
<1>2. UNCHANGED <<storeVars, req, inst, cred, todo>> /\ pc[w] = "newUser"
  BY DEF MakeUser, locals
<1>3. /\ users \subseteq users' /\ UNCHANGED <<databases, grants>>
      /\ reply = TRUE => <<cred[w].url, cred[w].user>> \notin users
  BY <1>1, NewUserEffect
<1>4. ForeignUntouched' /\ RecordsOurs'
  BY <1>2, <1>3, UntouchedGrows, RecordsStay DEF ForeignInv, ForeignUntouched
<1>5. Assigns(w) /\ inst'[w] = inst[w] /\ cred'[w] = cred[w] /\ todo'[w] = todo[w]
  BY <1>2, AssignsNothing
<1>6. CASE reply = TRUE /\ Goto(w, "grantWrite")
  <2>1. Moves(w) /\ pc'[w] = "grantWrite" /\ req'[w] = req[w]
    BY <1>2, <1>5, <1>6, GotoMoves
  <2>2. cred[w].url = Home[req[w].inst] /\ OwnUser(w, cred[w])
    BY <1>2, <1>3, <1>6 DEF ForeignInv, ForeignUntouched, HandlerOurs, OwnUser, NewUserLabels
  <2>3. HandlerOurs(w)'
    BY <1>2, <1>5, <2>1, <2>2, LabelFacts
       DEF ForeignInv, HandlerOurs, OwnUser, NewUserLabels, BoundLabels
  <2> QED BY <1>4, <2>1, <2>3, ForeignStep
<1>7. CASE SendError(w, 500)
  <2>1. Moves(w) /\ pc'[w] = "done" /\ req'[w] = req[w]
    BY <1>2, <1>5, <1>7, AnswerMoves
  <2> QED BY <1>4, <1>5, <2>1, AnswerOurs, ForeignStep
<1> QED BY <1>1, <1>6, <1>7

(* A permission for the user of a binding on its way is given to one of ours. *)
LEMMA GrantForeign ==
  ASSUME ForeignInv, NEW w \in Workers, pc[w] \in BoundLabels,
         NEW a, NEW reply, Grant(cred[w].url, cred[w].user, cred[w].db, a, reply)
  PROVE  ForeignUntouched'
<1>1. /\ grants' \subseteq grants \cup {<<cred[w].url, cred[w].user, cred[w].db, a>>}
      /\ UNCHANGED <<databases, users>>
  BY GrantEffect
<1>2. <<cred[w].url, cred[w].user>> \notin ExistingUsers
  BY LabelFacts DEF ForeignInv, HandlerOurs, OwnUser, BoundLabels, NewUserLabels
<1> QED BY <1>1, <1>2 DEF ForeignInv, ForeignUntouched

(* GrantWrite and GrantRead keep it. *)
LEMMA GrantStepForeign ==
  ASSUME TypeInv, ForeignInv, NEW w \in Workers, GrantWrite(w) \/ GrantRead(w)
  PROVE  ForeignInv'
<1>1. PICK reply \in BOOLEAN, a \in Actions :
        /\ Grant(cred[w].url, cred[w].user, cred[w].db, a, reply)
        /\ \/ SendError(w, 500)
           \/ Goto(w, "grantRead") \/ Goto(w, "addBinding") \/ Goto(w, "checkInstance")
  BY DEF GrantWrite, GrantRead, GrantStep, Actions
<1>2. UNCHANGED <<storeVars, req, inst, cred, todo>> /\ pc[w] \in BoundLabels
  BY DEF GrantWrite, GrantRead, GrantStep, locals, BoundLabels
<1> QED BY <1>1, <1>2, GrantForeign, RecordsStay, BoundForeign

(* CheckInstance keeps it. *)
LEMMA CheckInstanceForeign ==
  ASSUME TypeInv, ForeignInv, NEW w \in Workers, CheckInstance(w)  PROVE ForeignInv'
<1>1. PICK answer : /\ Read(GetInstance(req[w].inst), answer)
                    /\ Goto(w, "addBinding") \/ SendError(w, 200)
  BY DEF CheckInstance
<1>2. UNCHANGED <<stardogVars, req, inst, cred, todo>> /\ pc[w] \in BoundLabels
  BY DEF CheckInstance, locals, BoundLabels
<1> QED BY <1>1, <1>2, ReadEffect, UntouchedStays, RecordsShrink, BoundForeign

(* StoreBinding keeps it: the binding recorded is the GUID's, with our user. *)
LEMMA StoreBindingForeign ==
  ASSUME TypeInv, ForeignInv, NEW w \in Workers, StoreBinding(w)  PROVE ForeignInv'
<1>1. PICK reply \in BOOLEAN :
        /\ AddBinding(req[w].inst, req[w].bind, cred[w], reply)
        /\ WriteResponse(w, 201) \/ SendError(w, 200)
  BY DEF StoreBinding
<1>2. UNCHANGED <<stardogVars, planMap, req, inst, cred, todo>> /\ pc[w] = "addBinding"
  BY DEF StoreBinding, locals
<1>3. req[w] \in Requests /\ req[w].op = "bind"
  BY <1>2, Serving, OpAt DEF BoundLabels
<1>4. req[w].inst = InstanceOf[req[w].bind]
  BY <1>3, PlatformAssumption
<1>5. cred[w].url = Home[req[w].inst] /\ UserOf(cred[w]) \notin ExistingUsers
  BY <1>2, LabelFacts DEF ForeignInv, HandlerOurs, OwnUser, UserOf, BoundLabels, NewUserLabels
<1>6. /\ bindingRows' \subseteq
           bindingRows \cup {[inst |-> req[w].inst, guid |-> req[w].bind, cred |-> cred[w]]}
      /\ instanceRows' = instanceRows
  BY <1>1, AddBindingEffect
<1>7. RecordsOurs'
  BY <1>4, <1>5, <1>6 DEF ForeignInv, RecordsOurs
<1> QED BY <1>1, <1>2, <1>7, UntouchedStays, BoundForeign DEF BoundLabels

-----------------------------------------------------------------------------
(* UnBind *)

(* UnbindGet keeps the invariant: the binding found is of our user. *)
LEMMA UnbindGetForeign ==
  ASSUME TypeInv, ForeignInv, NEW w \in Workers, UnbindGet(w)  PROVE ForeignInv'
<1> DEFINE answers == GetBinding(req[w].inst, req[w].bind)
<1>1. PICK found \in answers \cup {None} :
        /\ Read(answers, found)
        /\ cred' = [cred EXCEPT ![w] = found]
        /\ (found # None /\ Goto(w, "deleteBinding")) \/ SendError(w, 410)
  BY DEF UnbindGet
<1>2. UNCHANGED <<stardogVars, planMap, req, inst, todo>> /\ pc[w] = "unbindGet"
  BY DEF UnbindGet
<1>3. found \in Credentials \cup {None}
  BY <1>1, GetBindingAnswer DEF TypeInv, TypeOK, StoreOK
<1>4. Assigns(w) /\ inst'[w] = inst[w] /\ cred'[w] = found /\ todo'[w] = todo[w]
  BY <1>1, <1>2, <1>3, AssignsCred
<1>5. ForeignUntouched' /\ RecordsOurs'
  BY <1>1, <1>2, ReadEffect, UntouchedStays, RecordsShrink
<1>6. CASE found # None /\ Goto(w, "deleteBinding")
  <2>1. Moves(w) /\ pc'[w] = "deleteBinding" /\ req'[w] = req[w]
    BY <1>2, <1>4, <1>6, GotoMoves
  <2>2. req[w] \in Requests /\ req[w].op = "unbind"
    BY <1>2, Serving, OpAt
  <2>3. PICK r \in bindingRows : r.guid = req[w].bind /\ found = r.cred
    BY <1>1, <1>6, GetBindingAnswer
  <2>4. r.inst = req[w].inst
    BY <2>2, <2>3, PlatformAssumption DEF ForeignInv, RecordsOurs
  <2>5. OwnUser(w, found)
    BY <2>3, <2>4 DEF ForeignInv, RecordsOurs, OwnUser, UserOf
  <2>6. HandlerOurs(w)'
    BY <1>2, <1>4, <2>1, <2>5, LabelFacts
       DEF ForeignInv, HandlerOurs, OwnUser, NewUserLabels, BoundLabels
  <2> QED BY <1>5, <2>1, <2>6, ForeignStep
<1>7. CASE SendError(w, 410)
  <2>1. Moves(w) /\ pc'[w] = "done" /\ req'[w] = req[w]
    BY <1>2, <1>4, <1>7, AnswerMoves
  <2> QED BY <1>4, <1>5, <2>1, AnswerOurs, ForeignStep
<1> QED BY <1>1, <1>6, <1>7

(* What the steps from EraseBinding on share. *)
LEMMA ErasedForeign ==
  ASSUME TypeInv, ForeignInv, NEW w \in Workers, pc[w] \in UnbindLabels \cup {"deleteBinding"},
         UNCHANGED <<req, inst, cred, todo>>, ForeignUntouched', RecordsOurs',
         \/ Goto(w, "revokeWrite") \/ Goto(w, "revokeRead") \/ Goto(w, "deleteUser")
         \/ Goto(w, "nextBinding")
         \/ SendError(w, 500) \/ WriteResponse(w, 200)
  PROVE  ForeignInv'
<1>1. Assigns(w) /\ inst'[w] = inst[w] /\ cred'[w] = cred[w] /\ todo'[w] = todo[w]
  BY AssignsNothing
<1>2. ASSUME NEW label \in UnbindLabels \cup {"nextBinding"}, Goto(w, label) PROVE ForeignInv'
  <2>1. Moves(w) /\ pc'[w] = label /\ req'[w] = req[w]
    BY <1>1, <1>2, GotoMoves
  <2>2. HandlerOurs(w)'
    BY <1>1, <1>2, <2>1, GoOnOurs, LabelFacts DEF NewUserLabels, BoundLabels, UnbindLabels
  <2> QED BY <2>1, <2>2, ForeignStep
<1>3. ASSUME NEW code, WriteResponse(w, code) \/ SendError(w, code) PROVE ForeignInv'
  <2>1. Moves(w) /\ pc'[w] = "done" /\ req'[w] = req[w]
    BY <1>1, <1>3, AnswerMoves
  <2> QED BY <1>1, <2>1, AnswerOurs, ForeignStep
<1> QED BY <1>2, <1>3 DEF UnbindLabels

(* EraseBinding keeps it. *)
LEMMA EraseBindingForeign ==
  ASSUME TypeInv, ForeignInv, NEW w \in Workers, EraseBinding(w)  PROVE ForeignInv'
<1>1. PICK reply \in BOOLEAN :
        /\ DeleteBinding(req[w].inst, req[w].bind, reply)
        /\ Goto(w, "revokeWrite") \/ SendError(w, 500)
  BY DEF EraseBinding
<1>2. UNCHANGED <<stardogVars, req, inst, cred, todo>> /\ pc[w] = "deleteBinding"
  BY DEF EraseBinding, locals
<1>3. ForeignUntouched' /\ RecordsOurs'
  BY <1>1, <1>2, DeleteBindingEffect, UntouchedStays, RecordsShrink
<1> QED BY <1>1, <1>2, <1>3, ErasedForeign

(* RevokeWrite and RevokeRead keep it. *)
LEMMA RevokeStepForeign ==
  ASSUME TypeInv, ForeignInv, NEW w \in Workers, RevokeWrite(w) \/ RevokeRead(w)
  PROVE  ForeignInv'
<1>1. /\ \/ Goto(w, "revokeRead") \/ Goto(w, "deleteUser") \/ UnBindReturns(w, FALSE)
      /\ \E s, u, d, a, reply : Revoke(s, u, d, a, reply)
  <2>1. CASE RevokeWrite(w)
    BY <2>1, Zenon DEF RevokeWrite, RevokeStep
  <2>2. CASE RevokeRead(w)
    BY <2>2, Zenon DEF RevokeRead, RevokeStep
  <2> QED BY <2>1, <2>2
<1>2. UNCHANGED <<storeVars, req, inst, cred, todo>> /\ pc[w] \in UnbindLabels
  BY DEF RevokeWrite, RevokeRead, RevokeStep, locals, UnbindLabels
<1>3. ForeignUntouched' /\ RecordsOurs'
  BY <1>1, <1>2, RevokeEffect, UntouchedGrows, RecordsStay DEF ForeignInv, ForeignUntouched
<1>4. UnBindReturns(w, FALSE) => Goto(w, "nextBinding") \/ SendError(w, 500)
  BY DEF UnBindReturns
<1> QED BY <1>1, <1>2, <1>3, <1>4, ErasedForeign, ZenonT(60)

(* RemoveUser keeps it: the user was ours on the server of the instance. *)
LEMMA RemoveUserForeign ==
  ASSUME TypeInv, ForeignInv, NEW w \in Workers, RemoveUser(w)  PROVE ForeignInv'
<1>1. PICK reply \in BOOLEAN :
        /\ DeleteUser(ServerOf(inst[w]), cred[w].user, reply)
        /\ Goto(w, "nextBinding") \/ SendError(w, 500) \/ WriteResponse(w, 200)
  BY DEF RemoveUser, UnBindReturns
<1>2. UNCHANGED <<storeVars, req, inst, cred, todo>> /\ pc[w] = "deleteUser"
  BY DEF RemoveUser, locals
<1>3. /\ users \ {<<ServerOf(inst[w]), cred[w].user>>} \subseteq users'
      /\ grants' \subseteq grants /\ UNCHANGED databases
  BY <1>1, DeleteUserEffect
<1>4. <<ServerOf(inst[w]), cred[w].user>> \notin ExistingUsers
  BY <1>2, LabelFacts DEF ForeignInv, HandlerOurs, OwnUser, NewUserLabels
<1>5. ForeignUntouched' /\ RecordsOurs'
  BY <1>2, <1>3, <1>4, UntouchedGrows, RecordsStay DEF ForeignInv, ForeignUntouched
<1> QED BY <1>1, <1>2, <1>5, ErasedForeign DEF UnbindLabels

-----------------------------------------------------------------------------

(* A goroutine that starts or ends keeps the invariant. *)
LEMMA WorkerForeign ==
  ASSUME TypeInv, ForeignInv, NEW w \in Workers,
         Moves(w), UNCHANGED <<stardogVars, storeVars>>,
         pc'[w] \in Ops \cup {"idle"}, todo'[w] = {}
  PROVE  ForeignInv'
<1>1. HandlerOurs(w)'
  BY LabelFacts DEF HandlerOurs, Ops, NewUserLabels, BoundLabels
<1> QED BY <1>1, UntouchedStays, RecordsStay, ForeignStep

(* Every step keeps it. *)
LEMMA ForeignNext == TypeInv /\ ForeignInv /\ [Next]_vars => ForeignInv'
<1> SUFFICES ASSUME TypeInv, ForeignInv, [Next]_vars PROVE ForeignInv'
  OBVIOUS
<1>1. ASSUME NEW w \in Workers, Handle(w) PROVE ForeignInv'
  BY <1>1, CreateUnknownPlanForeign, CreateExistingForeign, CreateNewForeign,
     CreateDbForeign, StoreInstanceForeign, LookupsForeign, ListBindingsForeign,
     ListSomeBindingsForeign, NextBindingForeign, DeleteDbForeign, EraseInstanceForeign, FindBindingForeign,
     CheckUserForeign, MakeUserForeign, GrantStepForeign, CheckInstanceForeign,
     StoreBindingForeign, UnbindGetForeign, EraseBindingForeign, RevokeStepForeign,
     RemoveUserForeign
     DEF Handle
<1>2. ASSUME NEW w \in Workers, Panic(w) \/ Return(w) PROVE ForeignInv'
  <2>1. Exit(w) /\ MayFault
    BY <1>2, FaultCounts DEF Panic, Return, MayFault
  <2>2. Moves(w) /\ pc'[w] = "idle" /\ todo'[w] = {} /\ UNCHANGED <<stardogVars, storeVars>>
    BY <2>1, ExitType DEF Exit, TypeInv, TypeOK
  <2> QED BY <2>2, WorkerForeign
<1>3. ASSUME NEW w \in Workers, NEW r \in Requests, Receive(w, r) PROVE ForeignInv'
  <2>1. /\ pc[w] = "idle" /\ Goto(w, r.op) /\ req' = [req EXCEPT ![w] = r]
        /\ UNCHANGED <<stardogVars, storeVars, faults, planMap, inst, cred, todo>>
    BY <1>3 DEF Receive
  <2>2. /\ pc'[w] = r.op /\ pc' = [pc EXCEPT ![w] = pc'[w]]
        /\ req' = [req EXCEPT ![w] = req'[w]] /\ resp' = [resp EXCEPT ![w] = resp'[w]]
    BY <2>1 DEF Goto, TypeInv, TypeOK
  <2>3. Moves(w) /\ todo'[w] = {}
    BY <2>1, <2>2, AssignsNothing DEF Moves, Assigns, TypeInv, HandlerOK
  <2> QED BY <2>1, <2>2, <2>3, RequestType, WorkerForeign
<1>4. CASE Restart
  <2>1. UNCHANGED <<stardogVars, storeVars>>
    BY <1>4 DEF Restart
  <2>2. ASSUME NEW w \in Workers PROVE HandlerOurs(w)'
    BY <1>4, LabelFacts DEF Restart, HandlerOurs, NewUserLabels, BoundLabels
  <2> QED BY <2>1, <2>2, UntouchedStays, RecordsStay DEF ForeignInv
<1>5. CASE UNCHANGED vars
  <2>1. UNCHANGED <<stardogVars, storeVars, pc, req, inst, cred, todo>>
    BY <1>5 DEF vars, locals
  <2>2. ASSUME NEW w \in Workers PROVE HandlerOurs(w)'
    BY <2>1 DEF ForeignInv, HandlerOurs, OwnUser
  <2> QED BY <2>1, <2>2, UntouchedStays, RecordsStay DEF ForeignInv
<1> QED BY <1>1, <1>2, <1>3, <1>4, <1>5 DEF Next

(***************************************************************************)
(* The broker never deletes a database or a user of another application    *)
(* and never gives one of their users a permission, with any number of     *)
(* handlers in any order and any fault of Fault at any call.               *)
(***************************************************************************)
THEOREM ForeignSafe == Spec => []ForeignUntouched
<1>1. Init => TypeInv /\ ForeignInv
  BY TypeInit, ForeignInit
<1>2. (TypeInv /\ ForeignInv) /\ [Next]_vars => (TypeInv /\ ForeignInv)'
  BY TypeNext, ForeignNext
<1>3. TypeInv /\ ForeignInv => ForeignUntouched
  BY DEF ForeignInv
<1> QED BY <1>1, <1>2, <1>3, PTL DEF Spec
=============================================================================
