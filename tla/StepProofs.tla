------------------------------ MODULE StepProofs ------------------------------
(***************************************************************************)
(* What each action of ServiceBroker does, for the proofs that need more   *)
(* than the types: the label it starts from, the variables of the worker   *)
(* after it, and the remote call with the reply that took it there.        *)
(***************************************************************************)
EXTENDS ServiceBrokerProofs

-----------------------------------------------------------------------------
(* How a step leaves its worker. *)

(* The handler goes on at label. *)
GoesTo(w, label) ==
  /\ Moves(w) /\ req'[w] = req[w]
  /\ pc'[w] = label /\ resp'[w] = resp[w]

(* The handler answers. *)
Ends(w, code, ok) ==
  /\ Moves(w) /\ req'[w] = req[w]
  /\ pc'[w] = "done" /\ resp'[w] = [code |-> code, ok |-> ok]

(* It assigns none of its variables. *)
Same(w) == inst'[w] = inst[w] /\ cred'[w] = cred[w] /\ todo'[w] = todo[w]

(* Goto is GoesTo. *)
LEMMA GotoStep ==
  ASSUME TypeInv, NEW w \in Workers, NEW label, Goto(w, label), UNCHANGED req, Assigns(w)
  PROVE  GoesTo(w, label)
  BY GotoMoves DEF GoesTo

(* Respond is Ends. *)
LEMMA RespondStep ==
  ASSUME TypeInv, NEW w \in Workers, NEW code, NEW ok, Respond(w, code, ok),
         UNCHANGED req, Assigns(w)
  PROVE  Ends(w, code, ok)
<1>1. /\ pc'[w] = "done" /\ pc' = [pc EXCEPT ![w] = pc'[w]]
      /\ resp'[w] = [code |-> code, ok |-> ok] /\ resp' = [resp EXCEPT ![w] = resp'[w]]
  BY DEF Respond, TypeInv, TypeOK
<1>2. req' = [req EXCEPT ![w] = req'[w]] /\ req'[w] = req[w]
  BY DEF TypeInv, TypeOK
<1> QED BY <1>1, <1>2 DEF Ends, Moves, Assigns

(* WriteResponse and SendError are. *)
LEMMA WriteStep ==
  ASSUME TypeInv, NEW w \in Workers, NEW code, WriteResponse(w, code),
         UNCHANGED req, Assigns(w)
  PROVE  Ends(w, code, TRUE)
  BY RespondStep DEF WriteResponse

(* SendError likewise. *)
LEMMA ErrorStep ==
  ASSUME TypeInv, NEW w \in Workers, NEW code, SendError(w, code),
         UNCHANGED req, Assigns(w)
  PROVE  Ends(w, code, FALSE)
  BY RespondStep DEF SendError

-----------------------------------------------------------------------------
(* CreateServiceInstance *)

(* CreateUnknownPlan answers 400. *)
LEMMA CreateUnknownPlanStep ==
  ASSUME TypeInv, NEW w \in Workers, CreateUnknownPlan(w)
  PROVE  /\ pc[w] = "create" /\ req[w].op = "create"
         /\ UNCHANGED <<stardogVars, storeVars, faults, planMap>>
         /\ Same(w) /\ Ends(w, 400, FALSE)
<1>1. /\ UNCHANGED <<stardogVars, storeVars, faults, planMap, req, inst, cred, todo>>
      /\ SendError(w, 400) /\ pc[w] = "create"
  BY DEF CreateUnknownPlan, locals
<1>2. Assigns(w) /\ Same(w)
  BY <1>1, AssignsNothing DEF Same
<1> QED BY <1>1, <1>2, ErrorStep, OpAt

(* CreateExisting answers 200 or 409 to an instance it found. *)
LEMMA CreateExistingStep ==
  ASSUME TypeInv, NEW w \in Workers, CreateExisting(w)
  PROVE  /\ pc[w] = "create" /\ req[w].op = "create"
         /\ UNCHANGED <<stardogVars, planMap>>
         /\ \E found \in InstanceData :
              /\ getServiceInstance(w, found)
              /\ inst'[w] = found /\ cred'[w] = cred[w] /\ todo'[w] = todo[w]
              /\ \/ compareService(found, req[w]) /\ Ends(w, 200, TRUE)
                 \/ ~compareService(found, req[w]) /\ Ends(w, 409, FALSE)
<1>1. UNCHANGED <<stardogVars, planMap, req, cred, todo>> /\ pc[w] = "create"
  BY DEF CreateExisting
<1>2. PICK found \in InstanceData :
        /\ getServiceInstance(w, found)
        /\ inst' = [inst EXCEPT ![w] = found]
        /\ \/ compareService(found, req[w]) /\ WriteResponse(w, 200)
           \/ ~compareService(found, req[w]) /\ SendError(w, 409)
  BY DEF CreateExisting
<1>3. found \in InstanceRecords \cup {None}
  BY <1>2, LookupType DEF TypeInv, TypeOK
<1>4. Assigns(w) /\ inst'[w] = found /\ cred'[w] = cred[w] /\ todo'[w] = todo[w]
  BY <1>1, <1>2, <1>3, AssignsInst
<1>5. CASE compareService(found, req[w]) /\ WriteResponse(w, 200)
  BY <1>1, <1>2, <1>4, <1>5, WriteStep, OpAt
<1>6. CASE ~compareService(found, req[w]) /\ SendError(w, 409)
  BY <1>1, <1>2, <1>4, <1>6, ErrorStep, OpAt
<1> QED BY <1>2, <1>5, <1>6

(* CreateNew inflates what was asked for. *)
LEMMA CreateNewStep ==
  ASSUME TypeInv, NEW w \in Workers, CreateNew(w)
  PROVE  /\ pc[w] = "create" /\ req[w].op = "create" /\ req[w].plan \in planMap
         /\ UNCHANGED <<stardogVars, planMap>>
         /\ getServiceInstance(w, None)
         /\ cred'[w] = cred[w] /\ todo'[w] = todo[w]
         /\ \/ /\ GoesTo(w, "createDb")
               /\ inst'[w] \in InstanceRecords
               /\ inst'[w].plan = req[w].plan /\ inst'[w].meta = req[w].meta
               /\ req[w].db \in {inst'[w].db, None}
            \/ Ends(w, 500, FALSE) /\ inst'[w] = inst[w]
<1>1. /\ UNCHANGED <<stardogVars, planMap, req, cred, todo>> /\ pc[w] = "create"
      /\ req[w].plan \in planMap /\ getServiceInstance(w, None)
  BY DEF CreateNew
<1>2. req[w] \in Requests /\ req[w].op = "create"
  BY <1>1, Serving, OpAt
<1>3. CASE Inflates(req[w])
  <2>1. PICK d \in Chosen(req[w].db, DbNames) :
          inst' = [inst EXCEPT ![w] =
                [plan |-> req[w].plan, meta |-> req[w].meta, db |-> d, url |-> req[w].url]]
    BY <1>3 DEF CreateNew
  <2> DEFINE new == [plan |-> req[w].plan, meta |-> req[w].meta, db |-> d, url |-> req[w].url]
  <2>2. new \in InstanceRecords
    BY <1>2, <1>3, RequestType DEF InstanceRecords, InstanceData, Inflates, WellFormed, Chosen
  <2>3. Assigns(w) /\ inst'[w] = new /\ cred'[w] = cred[w] /\ todo'[w] = todo[w]
    BY <1>1, <2>1, <2>2, AssignsInst
  <2>4. GoesTo(w, "createDb")
    BY <1>1, <1>3, <2>3, GotoStep DEF CreateNew
  <2>5. req[w].db \in {d, None}
    BY DEF Chosen
  <2>6. /\ inst'[w].plan = req[w].plan /\ inst'[w].meta = req[w].meta
        /\ inst'[w].db = d
    BY <2>3
  <2> HIDE DEF new
  <2> QED BY <1>1, <1>2, <2>2, <2>3, <2>4, <2>5, <2>6
<1>4. CASE ~Inflates(req[w])
  <2>1. SendError(w, 500) /\ UNCHANGED inst
    BY <1>4 DEF CreateNew
  <2>2. Assigns(w) /\ Same(w)
    BY <1>1, <2>1, AssignsNothing DEF Same
  <2> QED BY <1>1, <1>2, <2>1, <2>2, ErrorStep DEF Same
<1> QED BY <1>3, <1>4

(* CreateDb calls Stardog. *)
LEMMA CreateDbStep ==
  ASSUME TypeInv, NEW w \in Workers, CreateDb(w)
  PROVE  /\ pc[w] = "createDb" /\ req[w].op = "create"
         /\ UNCHANGED <<storeVars, planMap>> /\ Same(w)
         /\ \/ /\ CreateDatabase(ServerOf(inst[w]), inst[w].db, TRUE)
               /\ GoesTo(w, "addInstance")
            \/ /\ CreateDatabase(ServerOf(inst[w]), inst[w].db, FALSE)
               /\ Ends(w, 500, FALSE)
<1>1. UNCHANGED <<storeVars, planMap, req, inst, cred, todo>> /\ pc[w] = "createDb"
  BY DEF CreateDb, locals
<1>2. \/ CreateDatabase(ServerOf(inst[w]), inst[w].db, TRUE) /\ Goto(w, "addInstance")
      \/ CreateDatabase(ServerOf(inst[w]), inst[w].db, FALSE) /\ SendError(w, 500)
  BY DEF CreateDb
<1>3. Assigns(w) /\ Same(w)
  BY <1>1, AssignsNothing DEF Same
<1> QED BY <1>1, <1>2, <1>3, GotoStep, ErrorStep, OpAt, SMTT(30), ZenonT(60)

(* StoreInstance calls the store. *)
LEMMA StoreInstanceStep ==
  ASSUME TypeInv, NEW w \in Workers, StoreInstance(w)
  PROVE  /\ pc[w] = "addInstance" /\ req[w].op = "create"
         /\ UNCHANGED <<stardogVars, planMap>> /\ Same(w)
         /\ \/ AddInstance(req[w].inst, inst[w], TRUE) /\ Ends(w, 201, TRUE)
            \/ AddInstance(req[w].inst, inst[w], FALSE) /\ Ends(w, 500, FALSE)
<1>1. UNCHANGED <<stardogVars, planMap, req, inst, cred, todo>> /\ pc[w] = "addInstance"
  BY DEF StoreInstance, locals
<1>2. \/ AddInstance(req[w].inst, inst[w], TRUE) /\ WriteResponse(w, 201)
      \/ AddInstance(req[w].inst, inst[w], FALSE) /\ SendError(w, 500)
  BY DEF StoreInstance
<1>3. Assigns(w) /\ Same(w)
  BY <1>1, AssignsNothing DEF Same
<1> QED BY <1>1, <1>2, <1>3, WriteStep, ErrorStep, OpAt, SMTT(30), ZenonT(60)
-----------------------------------------------------------------------------
(* The handlers that look up the instance first. *)

(* What they share. *)
LEMMA LookupAssigns ==
  ASSUME TypeInv, NEW w \in Workers, NEW found, getServiceInstance(w, found),
         inst' = [inst EXCEPT ![w] = found], UNCHANGED <<cred, todo>>
  PROVE  /\ Assigns(w) /\ inst'[w] = found /\ cred'[w] = cred[w] /\ todo'[w] = todo[w]
         /\ found \in InstanceRecords \cup {None}
<1>1. found \in InstanceRecords \cup {None}
  BY LookupType DEF TypeInv, TypeOK
<1> QED BY <1>1, AssignsInst

(* Get answers 200 or 404. *)
LEMMA GetStep ==
  ASSUME TypeInv, NEW w \in Workers, Get(w)
  PROVE  /\ pc[w] = "get" /\ req[w].op = "get"
         /\ UNCHANGED <<stardogVars, planMap>>
         /\ cred'[w] = cred[w] /\ todo'[w] = todo[w]
         /\ getServiceInstance(w, inst'[w])
         /\ \/ inst'[w] # None /\ Ends(w, 200, TRUE)
            \/ inst'[w] = None /\ Ends(w, 404, FALSE)
<1>1. UNCHANGED <<stardogVars, planMap, req, cred, todo>> /\ pc[w] = "get"
  BY DEF Get
<1>2. PICK found : /\ getServiceInstance(w, found)
                   /\ inst' = [inst EXCEPT ![w] = found]
                   /\ \/ found # None /\ WriteResponse(w, 200)
                      \/ found = None /\ SendError(w, 404)
  BY DEF Get
<1>3. Assigns(w) /\ inst'[w] = found /\ cred'[w] = cred[w] /\ todo'[w] = todo[w]
  BY <1>1, <1>2, LookupAssigns
<1> QED BY <1>1, <1>2, <1>3, WriteStep, ErrorStep, OpAt, SMTT(30), ZenonT(60)

(* Remove goes on with the bindings or answers 410. *)
LEMMA RemoveStep ==
  ASSUME TypeInv, NEW w \in Workers, Remove(w)
  PROVE  /\ pc[w] = "remove" /\ req[w].op = "remove"
         /\ UNCHANGED <<stardogVars, planMap>>
         /\ cred'[w] = cred[w] /\ todo'[w] = todo[w]
         /\ getServiceInstance(w, inst'[w])
         /\ \/ inst'[w] # None /\ GoesTo(w, "listBindings")
            \/ inst'[w] = None /\ Ends(w, 410, FALSE)
<1>1. UNCHANGED <<stardogVars, planMap, req, cred, todo>> /\ pc[w] = "remove"
  BY DEF Remove
<1>2. PICK found : /\ getServiceInstance(w, found)
                   /\ inst' = [inst EXCEPT ![w] = found]
                   /\ \/ found # None /\ Goto(w, "listBindings")
                      \/ found = None /\ SendError(w, 410)
  BY DEF Remove
<1>3. Assigns(w) /\ inst'[w] = found /\ cred'[w] = cred[w] /\ todo'[w] = todo[w]
  BY <1>1, <1>2, LookupAssigns
<1> QED BY <1>1, <1>2, <1>3, GotoStep, ErrorStep, OpAt, SMTT(30), ZenonT(60)

(* Bind goes on with the binding or answers 500. *)
LEMMA BindFirstStep ==
  ASSUME TypeInv, NEW w \in Workers, Bind(w)
  PROVE  /\ pc[w] = "bind" /\ req[w].op = "bind"
         /\ UNCHANGED <<stardogVars, planMap>>
         /\ cred'[w] = cred[w] /\ todo'[w] = todo[w]
         /\ getServiceInstance(w, inst'[w])
         /\ \/ inst'[w] # None /\ GoesTo(w, "getBinding")
            \/ inst'[w] = None /\ Ends(w, 500, FALSE)
<1>1. UNCHANGED <<stardogVars, planMap, req, cred, todo>> /\ pc[w] = "bind"
  BY DEF Bind
<1>2. PICK found : /\ getServiceInstance(w, found)
                   /\ inst' = [inst EXCEPT ![w] = found]
                   /\ \/ found # None /\ Goto(w, "getBinding")
                      \/ found = None /\ SendError(w, 500)
  BY Zenon, SMTT(30), ZenonT(60) DEF Bind
<1>3. Assigns(w) /\ inst'[w] = found /\ cred'[w] = cred[w] /\ todo'[w] = todo[w]
  BY <1>1, <1>2, LookupAssigns
<1> QED BY <1>1, <1>2, <1>3, GotoStep, ErrorStep, OpAt, SMTT(30), ZenonT(60)

(* Unbind goes on with the binding or answers 410. *)
LEMMA UnbindFirstStep ==
  ASSUME TypeInv, NEW w \in Workers, Unbind(w)
  PROVE  /\ pc[w] = "unbind" /\ req[w].op = "unbind"
         /\ UNCHANGED <<stardogVars, planMap>>
         /\ cred'[w] = cred[w] /\ todo'[w] = todo[w]
         /\ getServiceInstance(w, inst'[w])
         /\ \/ inst'[w] # None /\ GoesTo(w, "unbindGet")
            \/ inst'[w] = None /\ Ends(w, 410, FALSE)
<1>1. UNCHANGED <<stardogVars, planMap, req, cred, todo>> /\ pc[w] = "unbind"
  BY DEF Unbind
<1>2. PICK found : /\ getServiceInstance(w, found)
                   /\ inst' = [inst EXCEPT ![w] = found]
                   /\ \/ found # None /\ Goto(w, "unbindGet")
                      \/ found = None /\ SendError(w, 410)
  BY DEF Unbind
<1>3. Assigns(w) /\ inst'[w] = found /\ cred'[w] = cred[w] /\ todo'[w] = todo[w]
  BY <1>1, <1>2, LookupAssigns
<1> QED BY <1>1, <1>2, <1>3, GotoStep, ErrorStep, OpAt

-----------------------------------------------------------------------------
(* RemoveServiceInstance *)

(* ListBindings takes the bindings to unbind. *)
LEMMA ListBindingsStep ==
  ASSUME TypeInv, NEW w \in Workers, ListBindings(w)
  PROVE  /\ pc[w] = "listBindings" /\ req[w].op = "remove"
         /\ UNCHANGED <<stardogVars, planMap>>
         /\ inst'[w] = inst[w] /\ cred'[w] = cred[w]
         /\ \E answer \in GetAllBindings(req[w].inst) \cup {None} :
              /\ Read(GetAllBindings(req[w].inst), answer)
              /\ \/ answer # None /\ todo'[w] = answer /\ GoesTo(w, "nextBinding")
                 \/ answer = None /\ todo'[w] = todo[w] /\ Ends(w, 500, FALSE)
<1>1. UNCHANGED <<stardogVars, planMap, req, inst, cred>> /\ pc[w] = "listBindings"
  BY DEF ListBindings
<1>2. PICK answer \in GetAllBindings(req[w].inst) \cup {None} :
        /\ Read(GetAllBindings(req[w].inst), answer)
        /\ \/ /\ answer # None
              /\ todo' = [todo EXCEPT ![w] = answer] /\ Goto(w, "nextBinding")
           \/ answer = None /\ SendError(w, 500) /\ UNCHANGED todo
  BY DEF ListBindings
<1>3. req[w].op = "remove"
  BY <1>1, OpAt
<1>4. CASE answer # None /\ todo' = [todo EXCEPT ![w] = answer] /\ Goto(w, "nextBinding")
  <2>1. ASSUME NEW t \in answer PROVE t \in [guid : Bindings, cred : Credentials]
    BY <1>2, <1>4, <2>1, GetAllBindingsAnswer DEF TypeInv, TypeOK, StoreOK
  <2>2. todo' = [todo EXCEPT ![w] = todo'[w]] /\ todo'[w] = answer
    BY <1>4 DEF TypeInv, TypeOK
  <2>3. Assigns(w) /\ inst'[w] = inst[w] /\ cred'[w] = cred[w]
    BY <1>1, <2>1, <2>2, Keeps DEF Assigns, Todos
  <2> QED BY <1>1, <1>2, <1>3, <1>4, <2>2, <2>3, GotoStep
<1>5. CASE answer = None /\ SendError(w, 500) /\ UNCHANGED todo
  <2>1. Assigns(w) /\ Same(w)
    BY <1>1, <1>5, AssignsNothing DEF Same
  <2> QED BY <1>1, <1>2, <1>3, <1>5, <2>1, ErrorStep DEF Same
<1> QED BY <1>2, <1>4, <1>5

(* ListSomeBindings leaves some out. *)
LEMMA ListSomeBindingsStep ==
  ASSUME TypeInv, NEW w \in Workers, ListSomeBindings(w)
  PROVE  /\ OnSql /\ pc[w] = "listBindings" /\ req[w].op = "remove"
         /\ UNCHANGED <<stardogVars, storeVars, planMap>> /\ Fault("storePartial")
         /\ inst'[w] = inst[w] /\ cred'[w] = cred[w]
         /\ \E answer \in GetAllBindings(req[w].inst) \ {None} : todo'[w] \subseteq answer
         /\ GoesTo(w, "nextBinding")
<1>1. /\ OnSql /\ UNCHANGED <<stardogVars, storeVars, planMap, req, inst, cred>>
      /\ pc[w] = "listBindings" /\ Goto(w, "nextBinding") /\ Fault("storePartial")
  BY DEF ListSomeBindings
<1>2. PICK answer \in GetAllBindings(req[w].inst) \ {None} :
        \E part \in SUBSET answer : todo' = [todo EXCEPT ![w] = part]
  BY DEF ListSomeBindings
<1>3. PICK part \in SUBSET answer : todo' = [todo EXCEPT ![w] = part]
  BY <1>2
<1>4. ASSUME NEW t \in part PROVE t \in [guid : Bindings, cred : Credentials]
  BY <1>2, <1>3, <1>4, GetAllBindingsAnswer DEF TypeInv, TypeOK, StoreOK
<1>5. todo' = [todo EXCEPT ![w] = todo'[w]] /\ todo'[w] = part
  BY <1>3 DEF TypeInv, TypeOK
<1>6. Assigns(w) /\ inst'[w] = inst[w] /\ cred'[w] = cred[w]
  BY <1>1, <1>4, <1>5, Keeps DEF Assigns, Todos
<1>7. GoesTo(w, "nextBinding") /\ req[w].op = "remove"
  BY <1>1, <1>6, GotoStep, OpAt
<1> QED BY <1>1, <1>2, <1>3, <1>5, <1>6, <1>7

(* NextBinding takes a binding from the list, or is through with it. *)
LEMMA NextBindingStep ==
  ASSUME TypeInv, NEW w \in Workers, NextBinding(w)
  PROVE  /\ pc[w] = "nextBinding" /\ req[w].op = "remove"
         /\ UNCHANGED <<stardogVars, storeVars, faults, planMap>> /\ inst'[w] = inst[w]
         /\ \/ /\ todo[w] = {} /\ GoesTo(w, "deleteDb")
               /\ cred'[w] = cred[w] /\ todo'[w] = todo[w]
            \/ /\ GoesTo(w, "revokeWrite")
               /\ \E b \in todo[w] : cred'[w] = b.cred /\ todo'[w] = todo[w] \ {b}
<1>1. /\ UNCHANGED <<stardogVars, storeVars, faults, planMap, req, inst>>
      /\ pc[w] = "nextBinding" /\ req[w].op = "remove"
  BY OpAt DEF NextBinding
<1>2. CASE todo[w] = {}
  <2>1. Goto(w, "deleteDb") /\ UNCHANGED <<cred, todo>>
    BY <1>2 DEF NextBinding
  <2>2. Assigns(w) /\ Same(w)
    BY <1>1, <2>1, AssignsNothing DEF Same
  <2> QED BY <1>1, <1>2, <2>1, <2>2, GotoStep DEF Same
<1>3. CASE todo[w] # {}
  <2>1. Goto(w, "revokeWrite")
    BY <1>3 DEF NextBinding
  <2>2. PICK b \in todo[w] : /\ cred' = [cred EXCEPT ![w] = b.cred]
                             /\ todo' = [todo EXCEPT ![w] = @ \ {b}]
    BY <1>3 DEF NextBinding
  <2>3. b.cred \in Credentials /\ todo[w] \ {b} \in Todos
    BY DEF TypeInv, TypeOK, Todos
  <2>4. /\ cred' = [cred EXCEPT ![w] = cred'[w]] /\ cred'[w] = b.cred
        /\ todo' = [todo EXCEPT ![w] = todo'[w]] /\ todo'[w] = todo[w] \ {b}
    BY <2>2 DEF TypeInv, TypeOK
  <2>5. Assigns(w) /\ inst'[w] = inst[w]
    BY <1>1, <2>3, <2>4, Keeps DEF Assigns
  <2> QED BY <1>1, <2>1, <2>2, <2>4, <2>5, GotoStep
<1> QED BY <1>2, <1>3

(* DeleteDb calls Stardog. *)
LEMMA DeleteDbStep ==
  ASSUME TypeInv, NEW w \in Workers, DeleteDb(w)
  PROVE  /\ pc[w] = "deleteDb" /\ req[w].op = "remove"
         /\ UNCHANGED <<storeVars, planMap>> /\ Same(w)
         /\ \/ /\ DeleteDatabase(ServerOf(inst[w]), inst[w].db, TRUE)
               /\ GoesTo(w, "deleteInstance")
            \/ /\ DeleteDatabase(ServerOf(inst[w]), inst[w].db, FALSE)
               /\ Ends(w, 500, FALSE)
<1>1. UNCHANGED <<storeVars, planMap, req, inst, cred, todo>> /\ pc[w] = "deleteDb"
  BY DEF DeleteDb, locals
<1>2. \/ DeleteDatabase(ServerOf(inst[w]), inst[w].db, TRUE) /\ Goto(w, "deleteInstance")
      \/ DeleteDatabase(ServerOf(inst[w]), inst[w].db, FALSE) /\ SendError(w, 500)
  BY DEF DeleteDb
<1>3. Assigns(w) /\ Same(w)
  BY <1>1, AssignsNothing DEF Same
<1> QED BY <1>1, <1>2, <1>3, GotoStep, ErrorStep, OpAt, SMTT(30), ZenonT(60)

(* EraseInstance answers 200, whatever the store says. *)
LEMMA EraseInstanceStep ==
  ASSUME TypeInv, NEW w \in Workers, EraseInstance(w)
  PROVE  /\ pc[w] = "deleteInstance" /\ req[w].op = "remove"
         /\ UNCHANGED <<stardogVars, planMap>> /\ Same(w)
         /\ \E reply \in BOOLEAN : DeleteInstance(req[w].inst, reply)
         /\ Ends(w, 200, TRUE)
<1>1. /\ UNCHANGED <<stardogVars, planMap, req, inst, cred, todo>>
      /\ pc[w] = "deleteInstance" /\ WriteResponse(w, 200)
      /\ \E reply \in BOOLEAN : DeleteInstance(req[w].inst, reply)
  BY DEF EraseInstance, locals
<1>2. Assigns(w) /\ Same(w)
  BY <1>1, AssignsNothing DEF Same
<1> QED BY <1>1, <1>2, WriteStep, OpAt

-----------------------------------------------------------------------------
(* Bind *)

(* FindBinding answers 200 or 409, or makes up the binding. *)
LEMMA FindBindingStep ==
  ASSUME TypeInv, NEW w \in Workers, FindBinding(w)
  PROVE  /\ pc[w] = "getBinding" /\ req[w].op = "bind"
         /\ UNCHANGED <<stardogVars, planMap>>
         /\ inst'[w] = inst[w] /\ todo'[w] = todo[w] /\ cred'[w] \in Credentials
         /\ \/ /\ cred'[w] \in GetBinding(req[w].inst, req[w].bind) \ {None}
               /\ Read(GetBinding(req[w].inst, req[w].bind), cred'[w])
               /\ \/ EqualBinding(cred'[w], req[w]) /\ Ends(w, 200, TRUE)
                  \/ ~EqualBinding(cred'[w], req[w]) /\ Ends(w, 409, FALSE)
            \/ /\ Read(GetBinding(req[w].inst, req[w].bind), None)
               /\ cred'[w].url = ServerOf(inst[w]) /\ cred'[w].db = inst[w].db
               /\ req[w].user \in {cred'[w].user, None}
               /\ req[w].pw \in {cred'[w].pw, None}
               /\ GoesTo(w, "userExists")
<1> DEFINE answers == GetBinding(req[w].inst, req[w].bind)
<1>1. /\ UNCHANGED <<stardogVars, planMap, req, inst, todo>>
      /\ pc[w] = "getBinding" /\ req[w].op = "bind"
  BY OpAt DEF FindBinding
<1>2. /\ req[w] \in Requests
      /\ ServerOf(inst[w]) \in Servers /\ inst[w].db \in DbNames
  BY <1>1, Serving, InstSet, LabelFacts
<1>3. CASE \E found \in answers \ {None} :
             /\ Read(answers, found)
             /\ cred' = [cred EXCEPT ![w] = found]
             /\ IF EqualBinding(found, req[w]) THEN WriteResponse(w, 200)
                                               ELSE SendError(w, 409)
  <2>1. PICK found \in answers : /\ Read(answers, found) /\ found # None
                                 /\ cred' = [cred EXCEPT ![w] = found]
                                 /\ \/ EqualBinding(found, req[w]) /\ WriteResponse(w, 200)
                                    \/ ~EqualBinding(found, req[w]) /\ SendError(w, 409)
    BY <1>3
  <2>2. found \in Credentials
    BY <2>1, GetBindingAnswer DEF TypeInv, TypeOK, StoreOK
  <2>3. Assigns(w) /\ inst'[w] = inst[w] /\ todo'[w] = todo[w] /\ cred'[w] = found
    BY <1>1, <2>1, <2>2, AssignsCred
  <2>4. \/ EqualBinding(found, req[w]) /\ Ends(w, 200, TRUE)
        \/ ~EqualBinding(found, req[w]) /\ Ends(w, 409, FALSE)
    BY <1>1, <2>1, <2>3, WriteStep, ErrorStep, SMTT(30), ZenonT(60)
  <2> QED BY <1>1, <2>1, <2>2, <2>3, <2>4
<1>4. CASE /\ Read(answers, None)
           /\ \E u \in Chosen(req[w].user, UserNames), p \in Chosen(req[w].pw, Passwords) :
                cred' = [cred EXCEPT ![w] =
                  [url |-> ServerOf(inst[w]), db |-> inst[w].db, user |-> u, pw |-> p]]
           /\ Goto(w, "userExists")
  <2>1. PICK u \in Chosen(req[w].user, UserNames), p \in Chosen(req[w].pw, Passwords) :
          cred' = [cred EXCEPT ![w] =
            [url |-> ServerOf(inst[w]), db |-> inst[w].db, user |-> u, pw |-> p]]
    BY <1>4
  <2> DEFINE new == [url |-> ServerOf(inst[w]), db |-> inst[w].db, user |-> u, pw |-> p]
  <2>2. /\ u \in UserNames /\ req[w].user \in {u, None}
        /\ p \in Passwords /\ req[w].pw \in {p, None}
    BY <1>2, RequestType DEF Chosen
  <2>3. new \in Credentials
    BY <1>2, <2>2 DEF Credentials
  <2>4. Assigns(w) /\ inst'[w] = inst[w] /\ cred'[w] = new /\ todo'[w] = todo[w]
    BY <1>1, <2>1, <2>3, AssignsCred
  <2>5. /\ cred'[w].url = ServerOf(inst[w]) /\ cred'[w].db = inst[w].db
        /\ cred'[w].user = u /\ cred'[w].pw = p
    BY <2>4
  <2>6. GoesTo(w, "userExists")
    BY <1>1, <1>4, <2>4, GotoStep
  <2> HIDE DEF new
  <2> QED BY <1>1, <1>4, <2>2, <2>3, <2>4, <2>5, <2>6
<1> QED BY <1>3, <1>4 DEF FindBinding

(* CheckUser asks Stardog whether the user is there. *)
LEMMA CheckUserStep ==
  ASSUME TypeInv, NEW w \in Workers, CheckUser(w)
  PROVE  /\ pc[w] = "userExists" /\ req[w].op = "bind"
         /\ UNCHANGED <<stardogVars, storeVars, planMap>> /\ Same(w)
         /\ \/ UserOf(cred[w]) \notin users /\ UNCHANGED faults /\ GoesTo(w, "newUser")
            \/ UserOf(cred[w]) \in users /\ UNCHANGED faults /\ Ends(w, 409, FALSE)
            \/ Fault("stardogCall") /\ Ends(w, 500, FALSE)
<1>1. UNCHANGED <<storeVars, planMap, req, inst, cred, todo>> /\ pc[w] = "userExists"
  BY DEF CheckUser, locals
<1>2. PICK reply \in BOOLEAN, exists \in BOOLEAN :
        /\ UserExists(cred[w].url, cred[w].user, reply, exists)
        /\ \/ reply = FALSE /\ SendError(w, 500)
           \/ reply = TRUE /\ exists = TRUE /\ SendError(w, 409)
           \/ reply = TRUE /\ exists = FALSE /\ Goto(w, "newUser")
  BY DEF CheckUser
<1>3. /\ UNCHANGED stardogVars
      /\ \/ UserOf(cred[w]) \notin users /\ UNCHANGED faults /\ Goto(w, "newUser")
         \/ UserOf(cred[w]) \in users /\ UNCHANGED faults /\ SendError(w, 409)
         \/ Fault("stardogCall") /\ SendError(w, 500)
  BY <1>2 DEF UserExists, CallFails, UserOf
<1>4. Assigns(w) /\ Same(w)
  BY <1>1, AssignsNothing DEF Same
<1>5. req[w].op = "bind"
  BY <1>1, OpAt DEF NewUserLabels, BoundLabels
<1>6. \/ UserOf(cred[w]) \notin users /\ UNCHANGED faults /\ GoesTo(w, "newUser")
      \/ UserOf(cred[w]) \in users /\ UNCHANGED faults /\ Ends(w, 409, FALSE)
      \/ Fault("stardogCall") /\ Ends(w, 500, FALSE)
  <2>1. Goto(w, "newUser") => GoesTo(w, "newUser")
    BY <1>1, <1>4, GotoStep
  <2>2. /\ SendError(w, 409) => Ends(w, 409, FALSE)
        /\ SendError(w, 500) => Ends(w, 500, FALSE)
    BY <1>1, <1>4, ErrorStep, SMTT(30), ZenonT(60)
  <2> QED BY <1>3, <2>1, <2>2, SMTT(30), ZenonT(60)
<1> QED BY <1>1, <1>3, <1>4, <1>5, <1>6

(* MakeUser calls Stardog. *)
LEMMA MakeUserStep ==
  ASSUME TypeInv, NEW w \in Workers, MakeUser(w)
  PROVE  /\ pc[w] = "newUser" /\ req[w].op = "bind"
         /\ UNCHANGED <<storeVars, planMap>> /\ Same(w)
         /\ \/ NewUser(cred[w].url, cred[w].user, TRUE) /\ GoesTo(w, "grantWrite")
            \/ NewUser(cred[w].url, cred[w].user, FALSE) /\ Ends(w, 500, FALSE)
<1>1. UNCHANGED <<storeVars, planMap, req, inst, cred, todo>> /\ pc[w] = "newUser"
  BY DEF MakeUser, locals
<1>2. \/ NewUser(cred[w].url, cred[w].user, TRUE) /\ Goto(w, "grantWrite")
      \/ NewUser(cred[w].url, cred[w].user, FALSE) /\ SendError(w, 500)
  BY DEF MakeUser
<1>3. Assigns(w) /\ Same(w)
  BY <1>1, AssignsNothing DEF Same
<1> QED BY <1>1, <1>2, <1>3, GotoStep, ErrorStep, OpAt, SMTT(30), ZenonT(60) DEF NewUserLabels, BoundLabels

(* GrantWrite and GrantRead do. *)
LEMMA GrantWriteStep ==
  ASSUME TypeInv, NEW w \in Workers, GrantWrite(w)
  PROVE  /\ pc[w] = "grantWrite" /\ req[w].op = "bind"
         /\ UNCHANGED <<storeVars, planMap>> /\ Same(w)
         /\ \/ /\ Grant(cred[w].url, cred[w].user, cred[w].db, "write", TRUE)
               /\ GoesTo(w, "grantRead")
            \/ /\ Grant(cred[w].url, cred[w].user, cred[w].db, "write", FALSE)
               /\ Ends(w, 500, FALSE)
<1>1. UNCHANGED <<storeVars, planMap, req, inst, cred, todo>> /\ pc[w] = "grantWrite"
  BY DEF GrantWrite, GrantStep, locals
<1>2. \/ /\ Grant(cred[w].url, cred[w].user, cred[w].db, "write", TRUE)
         /\ Goto(w, "grantRead")
      \/ /\ Grant(cred[w].url, cred[w].user, cred[w].db, "write", FALSE)
         /\ SendError(w, 500)
  BY DEF GrantWrite, GrantStep
<1>3. Assigns(w) /\ Same(w)
  BY <1>1, AssignsNothing DEF Same
<1> QED BY <1>1, <1>2, <1>3, GotoStep, ErrorStep, OpAt, SMTT(30), ZenonT(60) DEF NewUserLabels, BoundLabels

(* The second permission. *)
LEMMA GrantReadStep ==
  ASSUME TypeInv, NEW w \in Workers, GrantRead(w)
  PROVE  /\ pc[w] = "grantRead" /\ req[w].op = "bind"
         /\ UNCHANGED <<storeVars, planMap>> /\ Same(w)
         /\ \/ /\ Grant(cred[w].url, cred[w].user, cred[w].db, "read", TRUE)
               /\ GoesTo(w, IF OnSql THEN "addBinding" ELSE "checkInstance")
            \/ /\ Grant(cred[w].url, cred[w].user, cred[w].db, "read", FALSE)
               /\ Ends(w, 500, FALSE)
<1>1. UNCHANGED <<storeVars, planMap, req, inst, cred, todo>> /\ pc[w] = "grantRead"
  BY DEF GrantRead, GrantStep, locals
<1>2. \/ /\ Grant(cred[w].url, cred[w].user, cred[w].db, "read", TRUE)
         /\ Goto(w, IF OnSql THEN "addBinding" ELSE "checkInstance")
      \/ /\ Grant(cred[w].url, cred[w].user, cred[w].db, "read", FALSE)
         /\ SendError(w, 500)
  BY DEF GrantRead, GrantStep
<1>3. Assigns(w) /\ Same(w)
  BY <1>1, AssignsNothing DEF Same
<1> QED BY <1>1, <1>2, <1>3, GotoStep, ErrorStep, OpAt, SMTT(30), ZenonT(60) DEF NewUserLabels, BoundLabels

(* CheckInstance looks the instance up again. *)
LEMMA CheckInstanceStep ==
  ASSUME TypeInv, NEW w \in Workers, CheckInstance(w)
  PROVE  /\ pc[w] = "checkInstance" /\ req[w].op = "bind"
         /\ UNCHANGED <<stardogVars, planMap>> /\ Same(w)
         /\ \E answer \in GetInstance(req[w].inst) \cup {None} :
              /\ Read(GetInstance(req[w].inst), answer)
              /\ \/ answer # None /\ GoesTo(w, "addBinding")
                 \/ answer = None /\ Ends(w, 200, FALSE)
<1>1. UNCHANGED <<stardogVars, planMap, req, inst, cred, todo>> /\ pc[w] = "checkInstance"
  BY DEF CheckInstance, locals
<1>2. PICK answer \in GetInstance(req[w].inst) \cup {None} :
        /\ Read(GetInstance(req[w].inst), answer)
        /\ \/ answer # None /\ Goto(w, "addBinding")
           \/ answer = None /\ SendError(w, 200)
  BY DEF CheckInstance
<1>3. Assigns(w) /\ Same(w)
  BY <1>1, AssignsNothing DEF Same
<1> QED BY <1>1, <1>2, <1>3, GotoStep, ErrorStep, OpAt DEF NewUserLabels, BoundLabels

(* StoreBinding calls the store. *)
LEMMA StoreBindingStep ==
  ASSUME TypeInv, NEW w \in Workers, StoreBinding(w)
  PROVE  /\ pc[w] = "addBinding" /\ req[w].op = "bind"
         /\ UNCHANGED <<stardogVars, planMap>> /\ Same(w)
         /\ \/ AddBinding(req[w].inst, req[w].bind, cred[w], TRUE) /\ Ends(w, 201, TRUE)
            \/ AddBinding(req[w].inst, req[w].bind, cred[w], FALSE) /\ Ends(w, 200, FALSE)
<1>1. UNCHANGED <<stardogVars, planMap, req, inst, cred, todo>> /\ pc[w] = "addBinding"
  BY DEF StoreBinding, locals
<1>2. \/ AddBinding(req[w].inst, req[w].bind, cred[w], TRUE) /\ WriteResponse(w, 201)
      \/ AddBinding(req[w].inst, req[w].bind, cred[w], FALSE) /\ SendError(w, 200)
  BY DEF StoreBinding
<1>3. Assigns(w) /\ Same(w)
  BY <1>1, AssignsNothing DEF Same
<1> QED BY <1>1, <1>2, <1>3, WriteStep, ErrorStep, OpAt DEF NewUserLabels, BoundLabels

-----------------------------------------------------------------------------
(* UnBind and Plan.UnBind *)

(* UnbindGet takes the binding or answers 410. *)
LEMMA UnbindGetStep ==
  ASSUME TypeInv, NEW w \in Workers, UnbindGet(w)
  PROVE  /\ pc[w] = "unbindGet" /\ req[w].op = "unbind"
         /\ UNCHANGED <<stardogVars, planMap>>
         /\ inst'[w] = inst[w] /\ todo'[w] = todo[w]
         /\ cred'[w] \in GetBinding(req[w].inst, req[w].bind) \cup {None}
         /\ Read(GetBinding(req[w].inst, req[w].bind), cred'[w])
         /\ \/ cred'[w] # None /\ GoesTo(w, "deleteBinding")
            \/ cred'[w] = None /\ Ends(w, 410, FALSE)
<1> DEFINE answers == GetBinding(req[w].inst, req[w].bind)
<1>1. UNCHANGED <<stardogVars, planMap, req, inst, todo>> /\ pc[w] = "unbindGet"
  BY DEF UnbindGet
<1>2. PICK found \in answers \cup {None} :
        /\ Read(answers, found)
        /\ cred' = [cred EXCEPT ![w] = found]
        /\ \/ found # None /\ Goto(w, "deleteBinding")
           \/ found = None /\ SendError(w, 410)
  BY DEF UnbindGet
<1>3. found \in Credentials \cup {None}
  BY <1>2, GetBindingAnswer DEF TypeInv, TypeOK, StoreOK
<1>4. Assigns(w) /\ inst'[w] = inst[w] /\ cred'[w] = found /\ todo'[w] = todo[w]
  BY <1>1, <1>2, <1>3, AssignsCred
<1>5. \/ found # None /\ GoesTo(w, "deleteBinding")
      \/ found = None /\ Ends(w, 410, FALSE)
  BY <1>1, <1>2, <1>4, GotoStep, ErrorStep, SMTT(30), ZenonT(60)
<1> QED BY <1>1, <1>2, <1>4, <1>5, OpAt

(* EraseBinding calls the store. *)
LEMMA EraseBindingStep ==
  ASSUME TypeInv, NEW w \in Workers, EraseBinding(w)
  PROVE  /\ pc[w] = "deleteBinding" /\ req[w].op = "unbind"
         /\ UNCHANGED <<stardogVars, planMap>> /\ Same(w)
         /\ \/ DeleteBinding(req[w].inst, req[w].bind, TRUE) /\ GoesTo(w, "revokeWrite")
            \/ DeleteBinding(req[w].inst, req[w].bind, FALSE) /\ Ends(w, 500, FALSE)
<1>1. UNCHANGED <<stardogVars, planMap, req, inst, cred, todo>> /\ pc[w] = "deleteBinding"
  BY DEF EraseBinding, locals
<1>2. \/ DeleteBinding(req[w].inst, req[w].bind, TRUE) /\ Goto(w, "revokeWrite")
      \/ DeleteBinding(req[w].inst, req[w].bind, FALSE) /\ SendError(w, 500)
  BY DEF EraseBinding
<1>3. Assigns(w) /\ Same(w)
  BY <1>1, AssignsNothing DEF Same
<1> QED BY <1>1, <1>2, <1>3, GotoStep, ErrorStep, OpAt, SMTT(30), ZenonT(60)

(* What UnBindReturns leads to: RemoveServiceInstance goes on, UnBind answers. *)
LEMMA ReturnsStep ==
  ASSUME TypeInv, NEW w \in Workers, pc[w] \in UnbindLabels,
         UNCHANGED <<req, inst, cred, todo>>
  PROVE  /\ req[w].op \in {"remove", "unbind"} /\ Same(w)
         /\ UnBindReturns(w, TRUE) =>
              \/ req[w].op = "remove" /\ GoesTo(w, "nextBinding")
              \/ req[w].op = "unbind" /\ Ends(w, 200, TRUE)
         /\ UnBindReturns(w, FALSE) =>
              \/ req[w].op = "remove" /\ GoesTo(w, "nextBinding")
              \/ req[w].op = "unbind" /\ Ends(w, 500, FALSE)
         /\ \A label : Goto(w, label) => GoesTo(w, label)
<1>1. Assigns(w) /\ Same(w)
  BY AssignsNothing DEF Same
<1>2. req[w].op \in {"remove", "unbind"}
  BY OpAt DEF UnbindLabels
<1> QED BY <1>1, <1>2, GotoStep, WriteStep, ErrorStep, SMTT(30), ZenonT(60) DEF UnBindReturns

(* A failed call of Plan.UnBind, and a successful one. *)
UnbindFailed(w) ==
  \/ req[w].op = "remove" /\ GoesTo(w, "nextBinding")
  \/ req[w].op = "unbind" /\ Ends(w, 500, FALSE)

UnbindDone(w) ==
  \/ req[w].op = "remove" /\ GoesTo(w, "nextBinding")
  \/ req[w].op = "unbind" /\ Ends(w, 200, TRUE)

(* RevokeWrite calls Stardog. *)
LEMMA RevokeWriteStep ==
  ASSUME TypeInv, NEW w \in Workers, RevokeWrite(w)
  PROVE  /\ pc[w] = "revokeWrite" /\ req[w].op \in {"remove", "unbind"}
         /\ UNCHANGED <<storeVars, planMap>> /\ Same(w)
         /\ \/ /\ Revoke(ServerOf(inst[w]), cred[w].user, cred[w].db, "write", TRUE)
               /\ GoesTo(w, "revokeRead")
            \/ /\ Revoke(ServerOf(inst[w]), cred[w].user, cred[w].db, "write", FALSE)
               /\ UnbindFailed(w)
<1>1. UNCHANGED <<storeVars, planMap, req, inst, cred, todo>> /\ pc[w] = "revokeWrite"
  BY DEF RevokeWrite, RevokeStep, locals
<1>2. \/ /\ Revoke(ServerOf(inst[w]), cred[w].user, cred[w].db, "write", TRUE)
         /\ Goto(w, "revokeRead")
      \/ /\ Revoke(ServerOf(inst[w]), cred[w].user, cred[w].db, "write", FALSE)
         /\ UnBindReturns(w, FALSE)
  BY DEF RevokeWrite, RevokeStep
<1> QED BY <1>1, <1>2, ReturnsStep, SMTT(30), ZenonT(60) DEF UnbindFailed, UnbindLabels

(* RevokeRead does. *)
LEMMA RevokeReadStep ==
  ASSUME TypeInv, NEW w \in Workers, RevokeRead(w)
  PROVE  /\ pc[w] = "revokeRead" /\ req[w].op \in {"remove", "unbind"}
         /\ UNCHANGED <<storeVars, planMap>> /\ Same(w)
         /\ \/ /\ Revoke(ServerOf(inst[w]), cred[w].user, cred[w].db, "read", TRUE)
               /\ GoesTo(w, "deleteUser")
            \/ /\ Revoke(ServerOf(inst[w]), cred[w].user, cred[w].db, "read", FALSE)
               /\ UnbindFailed(w)
<1>1. UNCHANGED <<storeVars, planMap, req, inst, cred, todo>> /\ pc[w] = "revokeRead"
  BY DEF RevokeRead, RevokeStep, locals
<1>2. \/ /\ Revoke(ServerOf(inst[w]), cred[w].user, cred[w].db, "read", TRUE)
         /\ Goto(w, "deleteUser")
      \/ /\ Revoke(ServerOf(inst[w]), cred[w].user, cred[w].db, "read", FALSE)
         /\ UnBindReturns(w, FALSE)
  BY DEF RevokeRead, RevokeStep
<1> QED BY <1>1, <1>2, ReturnsStep, SMTT(30), ZenonT(60) DEF UnbindFailed, UnbindLabels

(* RemoveUser does. *)
LEMMA RemoveUserStep ==
  ASSUME TypeInv, NEW w \in Workers, RemoveUser(w)
  PROVE  /\ pc[w] = "deleteUser" /\ req[w].op \in {"remove", "unbind"}
         /\ UNCHANGED <<storeVars, planMap>> /\ Same(w)
         /\ \/ DeleteUser(ServerOf(inst[w]), cred[w].user, TRUE) /\ UnbindDone(w)
            \/ DeleteUser(ServerOf(inst[w]), cred[w].user, FALSE) /\ UnbindFailed(w)
<1>1. UNCHANGED <<storeVars, planMap, req, inst, cred, todo>> /\ pc[w] = "deleteUser"
  BY DEF RemoveUser, locals
<1>2. \/ DeleteUser(ServerOf(inst[w]), cred[w].user, TRUE) /\ UnBindReturns(w, TRUE)
      \/ DeleteUser(ServerOf(inst[w]), cred[w].user, FALSE) /\ UnBindReturns(w, FALSE)
  BY DEF RemoveUser
<1> QED BY <1>1, <1>2, ReturnsStep, SMTT(30), ZenonT(60) DEF UnbindDone, UnbindFailed, UnbindLabels

-----------------------------------------------------------------------------
(* The platform and the process. *)

(* A request that arrives finds a worker with nothing. *)
LEMMA ReceiveStep ==
  ASSUME TypeInv, NEW w \in Workers, NEW r \in Requests, Receive(w, r)
  PROVE  /\ pc[w] = "idle" /\ UNCHANGED <<stardogVars, storeVars, faults, planMap>>
         /\ Serialized => ~Busy(r.inst)
         /\ Moves(w) /\ Same(w) /\ todo[w] = {}
         /\ req'[w] = r /\ pc'[w] = r.op /\ r.op \in Ops /\ resp'[w] = resp[w]
<1>1. /\ pc[w] = "idle" /\ Goto(w, r.op) /\ req' = [req EXCEPT ![w] = r]
      /\ UNCHANGED <<stardogVars, storeVars, faults, planMap, inst, cred, todo>>
      /\ Serialized => ~Busy(r.inst)
  BY DEF Receive
<1>2. /\ pc'[w] = r.op /\ pc' = [pc EXCEPT ![w] = pc'[w]]
      /\ req'[w] = r /\ req' = [req EXCEPT ![w] = req'[w]]
      /\ resp'[w] = resp[w] /\ resp' = [resp EXCEPT ![w] = resp'[w]]
  BY <1>1 DEF Goto, TypeInv, TypeOK
<1>3. Assigns(w) /\ Same(w) /\ todo[w] = {}
  BY <1>1, AssignsNothing DEF Same, TypeInv, HandlerOK
<1>4. Moves(w)
  BY <1>2, <1>3 DEF Moves, Assigns
<1> QED BY <1>1, <1>2, <1>3, <1>4, RequestType

(* A goroutine that ends leaves an idle worker. *)
LEMMA ExitStep ==
  ASSUME TypeInv, NEW w \in Workers, Exit(w)
  PROVE  /\ UNCHANGED <<stardogVars, storeVars, planMap>>
         /\ Moves(w) /\ pc'[w] = "idle" /\ req'[w] = None /\ todo'[w] = {}
         /\ resp'[w] = NoResponse
<1>1. /\ pc'[w] = "idle" /\ req'[w] = None /\ inst'[w] = None /\ cred'[w] = None
      /\ todo'[w] = {} /\ resp'[w] = NoResponse
  BY DEF Exit, TypeInv, TypeOK
<1>2. Moves(w)
  BY <1>1 DEF Exit, Moves
<1> QED BY <1>1, <1>2 DEF Exit

(* A goroutine ends when its answer is delivered or when it panics. *)
LEMMA EndStep ==
  ASSUME TypeInv, NEW w \in Workers, Panic(w) \/ Return(w)
  PROVE  /\ pc[w] \in Ops \cup {"listBindings", "addBinding", "done"} /\ Exit(w)
         /\ \/ Fault("storeBegin")
            \/ pc[w] = "done" /\ UNCHANGED faults
  BY DEF Panic, Return, Ops

-----------------------------------------------------------------------------

(* Where the calls of the plans and of the store lead, whatever they do. *)

(* CreateDb goes on to the store or fails. *)
LEMMA CreateDbLeads ==
  ASSUME TypeInv, NEW w \in Workers, CreateDb(w)
  PROVE  GoesTo(w, "addInstance") \/ Ends(w, 500, FALSE)
  BY CreateDbStep, Zenon

(* So does DeleteDb. *)
LEMMA DeleteDbLeads ==
  ASSUME TypeInv, NEW w \in Workers, DeleteDb(w)
  PROVE  GoesTo(w, "deleteInstance") \/ Ends(w, 500, FALSE)
  BY DeleteDbStep, Zenon

(* CheckUser goes on when the name is free. *)
LEMMA CheckUserLeads ==
  ASSUME TypeInv, NEW w \in Workers, CheckUser(w)
  PROVE  GoesTo(w, "newUser") \/ Ends(w, 409, FALSE) \/ Ends(w, 500, FALSE)
  BY CheckUserStep, Zenon

(* MakeUser goes on to the permissions. *)
LEMMA MakeUserLeads ==
  ASSUME TypeInv, NEW w \in Workers, MakeUser(w)
  PROVE  GoesTo(w, "grantWrite") \/ Ends(w, 500, FALSE)
  BY MakeUserStep, Zenon

(* GrantWrite goes on to the second one. *)
LEMMA GrantWriteLeads ==
  ASSUME TypeInv, NEW w \in Workers, GrantWrite(w)
  PROVE  GoesTo(w, "grantRead") \/ Ends(w, 500, FALSE)
  BY GrantWriteStep, Zenon

(* GrantRead goes on to the store. *)
LEMMA GrantReadLeads ==
  ASSUME TypeInv, NEW w \in Workers, GrantRead(w)
  PROVE  \/ GoesTo(w, "addBinding") \/ GoesTo(w, "checkInstance")
         \/ Ends(w, 500, FALSE)
<1>1. \/ GoesTo(w, IF OnSql THEN "addBinding" ELSE "checkInstance")
      \/ Ends(w, 500, FALSE)
  BY GrantReadStep, Zenon
<1> QED BY <1>1

(* EraseBinding goes on to the plan. *)
LEMMA EraseBindingLeads ==
  ASSUME TypeInv, NEW w \in Workers, EraseBinding(w)
  PROVE  GoesTo(w, "revokeWrite") \/ Ends(w, 500, FALSE)
  BY EraseBindingStep, Zenon

-----------------------------------------------------------------------------
(* Requests and what is made of them. *)

(* Every recorded instance is of a plan the configuration has. *)
PlansKnown == \A r \in instanceRows : r.data.plan \in planMap

(* What a handler is creating is what its request asked for. *)
Asked(w) ==
  /\ pc[w] \in {"createDb", "addInstance"} =>
       /\ inst[w].plan = req[w].plan /\ inst[w].meta = req[w].meta
       /\ req[w].db \in {inst[w].db, None}
       /\ req[w].plan \in planMap
  /\ pc[w] \in NewUserLabels \cup BoundLabels =>
       /\ req[w].user \in {cred[w].user, None}
       /\ req[w].pw \in {cred[w].pw, None}

(* A broker that comes back with other plans does not know its records any more. *)
SamePlans == "restart" \in FaultKinds => \A c, d \in Configs : c = d

AskedInv == TypeInv /\ PlansKnown /\ \A w \in Workers : Asked(w)

-----------------------------------------------------------------------------
(* The invariant holds. *)

(* Initially there is no record and no handler. *)
LEMMA AskedInit == Init => AskedInv
<1> SUFFICES ASSUME Init PROVE AskedInv
  OBVIOUS
<1>1. TypeInv
  BY TypeInit
<1>2. instanceRows = {} /\ \A w \in Workers : pc[w] = "idle"
  BY DEF Init
<1> QED BY <1>1, <1>2 DEF AskedInv, PlansKnown, Asked, NewUserLabels, BoundLabels

(* It is enough to look at the new records and at the worker that moves. *)
LEMMA AskedStep ==
  ASSUME AskedInv, TypeInv', NEW w \in Workers, Moves(w), UNCHANGED planMap,
         \A r \in instanceRows' : r \in instanceRows \/ r.data.plan \in planMap,
         Asked(w)'
  PROVE  AskedInv'
<1>1. PlansKnown'
  BY DEF AskedInv, PlansKnown
<1>2. ASSUME NEW v \in Workers, v # w PROVE Asked(v)'
  BY <1>2, OthersStay DEF AskedInv, Asked
<1> QED BY <1>1, <1>2 DEF AskedInv

(* A worker with nothing to create. *)
LEMMA AskedNothing ==
  ASSUME NEW w, pc'[w] \notin {"createDb", "addInstance"} \cup NewUserLabels \cup BoundLabels
  PROVE  Asked(w)'
  BY DEF Asked

(* A worker that goes on creating what it was creating. *)
LEMMA AskedStill ==
  ASSUME NEW w, Asked(w), UNCHANGED planMap, req'[w] = req[w],
         \/ pc'[w] = "done"
         \/ pc[w] \in {"createDb", "addInstance"} /\ pc'[w] \in {"createDb", "addInstance"}
            /\ inst'[w] = inst[w]
         \/ pc[w] \in NewUserLabels \cup BoundLabels /\ cred'[w] = cred[w]
            /\ pc'[w] \in NewUserLabels \cup BoundLabels
  PROVE  Asked(w)'
  BY DEF Asked, NewUserLabels, BoundLabels

(* Every step of a handler preserves the invariant. *)
LEMMA AskedHandle ==
  ASSUME AskedInv, TypeInv', NEW w \in Workers, Handle(w)
  PROVE  AskedInv'
<1> USE DEF AskedInv, GoesTo, Ends, Same, NewUserLabels, BoundLabels, storeVars
<1>1. CASE CreateUnknownPlan(w)
  BY <1>1, CreateUnknownPlanStep, AskedStep, AskedNothing
<1>2. CASE CreateExisting(w)
  <2>1. Moves(w) /\ pc'[w] = "done" /\ UNCHANGED <<planMap, instanceRows>>
    BY <1>2, CreateExistingStep, LookupEffect
  <2> QED BY <2>1, AskedStep, AskedNothing
<1>3. CASE CreateNew(w)
  <2>1. UNCHANGED <<planMap, instanceRows>> /\ Moves(w) /\ Asked(w)'
    BY <1>3, CreateNewStep, LookupEffect DEF Asked
  <2> QED BY <2>1, AskedStep
<1>4. CASE CreateDb(w)
  <2>1. UNCHANGED <<planMap, instanceRows>> /\ Moves(w) /\ Asked(w)'
    BY <1>4, CreateDbStep, AskedStill, SMTT(30), ZenonT(60)
  <2> QED BY <2>1, AskedStep
<1>5. CASE StoreInstance(w)
  <2>1. UNCHANGED planMap /\ Moves(w) /\ pc'[w] = "done"
    BY <1>5, StoreInstanceStep
  <2>2. instanceRows' \subseteq instanceRows \cup {[guid |-> req[w].inst, data |-> inst[w]]}
    BY <1>5, StoreInstanceStep, AddInstanceEffect, SMTT(30), ZenonT(60)
  <2>3. inst[w].plan \in planMap
    BY <1>5, StoreInstanceStep DEF Asked
  <2> QED BY <2>1, <2>2, <2>3, AskedStep, AskedNothing
<1>6. CASE Get(w)
  BY <1>6, GetStep, LookupEffect, AskedStep, AskedNothing
<1>7. CASE Remove(w)
  BY <1>7, RemoveStep, LookupEffect, AskedStep, AskedNothing
<1>8. CASE ListBindings(w)
  <2>1. UNCHANGED <<planMap, instanceRows>> /\ Moves(w) /\ pc'[w] \in {"nextBinding", "done"}
    BY <1>8, ListBindingsStep, ReadEffect
  <2> QED BY <2>1, AskedStep, AskedNothing
<1>9. CASE ListSomeBindings(w)
  BY <1>9, ListSomeBindingsStep, AskedStep, AskedNothing
<1>10. CASE NextBinding(w)
  BY <1>10, NextBindingStep, AskedStep, AskedNothing
<1>11. CASE DeleteDb(w)
  BY <1>11, DeleteDbStep, AskedStep, AskedNothing, SMTT(30), ZenonT(60)
<1>12. CASE EraseInstance(w)
  <2>1. instanceRows' \subseteq instanceRows
    BY <1>12, EraseInstanceStep, DeleteInstanceEffect
  <2> QED BY <1>12, <2>1, EraseInstanceStep, AskedStep, AskedNothing
<1>13. CASE Bind(w)
  BY <1>13, BindFirstStep, LookupEffect, AskedStep, AskedNothing
<1>14. CASE FindBinding(w)
  <2>1. UNCHANGED <<planMap, instanceRows>> /\ Moves(w) /\ Asked(w)'
    BY <1>14, FindBindingStep, ReadEffect DEF Asked
  <2> QED BY <2>1, AskedStep
<1>15. CASE CheckUser(w)
  BY <1>15, CheckUserStep, AskedStep, AskedStill
<1>16. CASE MakeUser(w)
  <2>1. UNCHANGED <<planMap, instanceRows>> /\ Moves(w) /\ Asked(w)'
    BY <1>16, MakeUserStep, AskedStill, SMTT(30), ZenonT(60)
  <2> QED BY <2>1, AskedStep
<1>17. CASE GrantWrite(w)
  <2>1. UNCHANGED <<planMap, instanceRows>> /\ Moves(w) /\ Asked(w)'
    BY <1>17, GrantWriteStep, AskedStill, SMTT(30), ZenonT(60)
  <2> QED BY <2>1, AskedStep
<1>18. CASE GrantRead(w)
  <2>1. UNCHANGED <<planMap, instanceRows>> /\ Moves(w) /\ Asked(w)'
    BY <1>18, GrantReadStep, AskedStill, SMTT(30), ZenonT(60)
  <2> QED BY <2>1, AskedStep
<1>19. CASE CheckInstance(w)
  <2>1. UNCHANGED <<planMap, instanceRows>> /\ Moves(w) /\ Asked(w)'
    BY <1>19, CheckInstanceStep, ReadEffect, AskedStill
  <2> QED BY <2>1, AskedStep
<1>20. CASE StoreBinding(w)
  BY <1>20, StoreBindingStep, AddBindingEffect, AskedStep, AskedNothing, SMTT(30), ZenonT(60)
<1>21. CASE Unbind(w)
  BY <1>21, UnbindFirstStep, LookupEffect, AskedStep, AskedNothing
<1>22. CASE UnbindGet(w)
  BY <1>22, UnbindGetStep, ReadEffect, AskedStep, AskedNothing
<1>23. CASE EraseBinding(w)
  BY <1>23, EraseBindingStep, DeleteBindingEffect, AskedStep, AskedNothing, SMTT(30), ZenonT(60)
<1>24. CASE RevokeWrite(w)
  BY <1>24, RevokeWriteStep, AskedStep, AskedNothing, SMTT(30), ZenonT(60) DEF UnbindFailed
<1>25. CASE RevokeRead(w)
  BY <1>25, RevokeReadStep, AskedStep, AskedNothing, SMTT(30), ZenonT(60) DEF UnbindFailed
<1>26. CASE RemoveUser(w)
  BY <1>26, RemoveUserStep, AskedStep, AskedNothing, SMTT(30), ZenonT(60) DEF UnbindFailed, UnbindDone
<1> QED BY <1>1, <1>2, <1>3, <1>4, <1>5, <1>6, <1>7, <1>8, <1>9, <1>10, <1>11, <1>12,
           <1>13, <1>14, <1>15, <1>16, <1>17, <1>18, <1>19, <1>20, <1>21, <1>22, <1>23,
           <1>24, <1>25, <1>26 DEF Handle

(* So does every step. *)
LEMMA AskedNext ==
  ASSUME SamePlans, AskedInv, [Next]_vars
  PROVE  AskedInv'
<1>1. TypeInv'
  BY TypeNext DEF AskedInv
<1>2. ASSUME NEW w \in Workers, Handle(w) PROVE AskedInv'
  BY <1>1, <1>2, AskedHandle
<1>3. ASSUME NEW w \in Workers, Panic(w) \/ Return(w) PROVE AskedInv'
  <2>1. UNCHANGED <<planMap, instanceRows>> /\ Moves(w) /\ pc'[w] = "idle"
    BY <1>3, EndStep, ExitStep DEF storeVars, AskedInv
  <2> QED BY <1>1, <2>1, AskedStep, AskedNothing DEF NewUserLabels, BoundLabels
<1>4. ASSUME NEW w \in Workers, NEW r \in Requests, Receive(w, r) PROVE AskedInv'
  <2>1. UNCHANGED <<planMap, instanceRows>> /\ Moves(w) /\ pc'[w] \in Ops
    BY <1>4, ReceiveStep DEF storeVars, AskedInv
  <2> QED BY <1>1, <2>1, AskedStep, AskedNothing DEF Ops, NewUserLabels, BoundLabels
<1>5. CASE Restart
  <2>1. UNCHANGED instanceRows /\ \A w \in Workers : pc'[w] = "idle"
    BY <1>5 DEF Restart, storeVars
  <2>2. planMap' = planMap
    BY <1>5 DEF Restart, Fault, SamePlans, AskedInv, TypeInv, TypeOK
  <2> QED BY <1>1, <2>1, <2>2, AskedNothing
          DEF AskedInv, PlansKnown, NewUserLabels, BoundLabels
<1>6. CASE UNCHANGED vars
  BY <1>1, <1>6 DEF vars, locals, storeVars, AskedInv, PlansKnown, Asked
<1> QED BY <1>2, <1>3, <1>4, <1>5, <1>6 DEF Next

-----------------------------------------------------------------------------
(* Without a read that fails, what a lookup finds is what is recorded. *)

Unrecorded(g) == \A r \in instanceRows : r.guid # g

(* Reads are answered. *)
LEMMA ReadExact ==
  ASSUME "storeRead" \notin FaultKinds, NEW answers, NEW answer, Read(answers, answer)
  PROVE  answer \in answers /\ UNCHANGED <<storeVars, faults>>
  BY DEF Read, Fault

(* GetInstance of both stores finds an instance exactly when there is one. *)
LEMMA GetInstanceExact ==
  ASSUME NEW g, NEW answer \in GetInstance(g)
  PROVE  \/ Unrecorded(g) /\ answer = None
         \/ \E r \in instanceRows : r.guid = g /\ answer = r.data
<1>1. CASE Unrecorded(g)
  BY <1>1 DEF Unrecorded, GetInstance, Sql!GetInstance, Sd!GetInstance,
              Sql!HasInstance, Sd!HasInstance
<1>2. CASE ~Unrecorded(g)
  BY <1>2 DEF Unrecorded, GetInstance, Sql!GetInstance, Sd!GetInstance,
              Sql!HasInstance, Sd!HasInstance
<1> QED BY <1>1, <1>2

(* So does getServiceInstance, since the configuration has the plan. *)
LEMMA LookupExact ==
  ASSUME "storeRead" \notin FaultKinds, AskedInv, NEW w, NEW found,
         getServiceInstance(w, found)
  PROVE  /\ UNCHANGED <<storeVars, faults>>
         /\ found = None => Unrecorded(req[w].inst)
         /\ found # None => [guid |-> req[w].inst, data |-> found] \in instanceRows
<1>1. PICK answer \in GetInstance(req[w].inst) \cup {None} :
        /\ Read(GetInstance(req[w].inst), answer)
        /\ found = IF Known(answer) THEN answer ELSE None
  BY DEF getServiceInstance
<1>2. answer \in GetInstance(req[w].inst) /\ UNCHANGED <<storeVars, faults>>
  BY <1>1, ReadExact
<1>3. CASE Unrecorded(req[w].inst) /\ answer = None
  BY <1>1, <1>2, <1>3 DEF Known
<1>4. ASSUME NEW r \in instanceRows, r.guid = req[w].inst, answer = r.data
      PROVE  answer = found /\ found # None /\ [guid |-> req[w].inst, data |-> found] = r
  <2>1. answer # None /\ answer.plan \in planMap
    BY <1>4, NoneAssumption
       DEF AskedInv, PlansKnown, TypeInv, TypeOK, StoreOK, InstanceRecords
  <2>2. r = [guid |-> r.guid, data |-> r.data]
    BY DEF AskedInv, TypeInv, TypeOK, StoreOK
  <2> QED BY <1>1, <1>4, <2>1, <2>2 DEF Known
<1> QED BY <1>2, <1>3, <1>4, GetInstanceExact
=============================================================================
