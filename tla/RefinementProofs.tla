-------------------------- MODULE RefinementProofs --------------------------
(***************************************************************************)
(* Proof that the handlers over the SQL store implement AtomicBroker for   *)
(* any number of workers, whatever the requests, in any interleaving, and  *)
(* under every fault but the two that the controller takes for something   *)
(* else.                                                                   *)
(***************************************************************************)
EXTENDS BrokerRefinement, StepProofs

(***************************************************************************)
(* A lookup that fails passes for a record that is missing, and a deletion *)
(* that fails is dropped: with either, answers are not true.               *)
(***************************************************************************)
AtomicSetting ==
  /\ OnSql
  /\ FaultKinds \cap {"storeRead", "storeWrite"} = {}
  /\ SamePlans

-----------------------------------------------------------------------------
(* What a step of the handlers is to AtomicBroker. *)

(* The handler has not acted yet. *)
Called(w) == pc[w] \notin {"idle", "done"} /\ (pc[w] \in UnbindLabels => req[w].op # "unbind")

(* ... which is a phase of AtomicBroker. *)
LEMMA PhaseFacts ==
  ASSUME NEW w \in Workers
  PROVE  /\ Called(w) => Phase[w] = "called"
         /\ pc[w] = "idle" => Phase[w] = "idle"
         /\ pc[w] # "idle" => Phase[w] # "idle"
         /\ pc[w] \in UnbindLabels /\ req[w].op = "unbind" => Phase[w] = "applied"
  BY DEF Phase, PhaseOf, Called, UnbindLabels

(* A step changes the phase of its worker alone. *)
LEMMA PhaseStep ==
  ASSUME TypeInv, NEW w \in Workers, Moves(w), NEW phase, PhaseOf(w)' = phase
  PROVE  Phase' = [Phase EXCEPT ![w] = phase]
<1>1. ASSUME NEW v \in Workers, v # w PROVE PhaseOf(v)' = PhaseOf(v)
  BY <1>1, OthersStay DEF PhaseOf
<1> QED BY <1>1, Zenon DEF Phase

(* A handler on its way keeps its request. *)
LEMMA KeepsRequest ==
  ASSUME TypeInv, NEW w \in Workers, Moves(w), req'[w] = req[w]
  PROVE  req' = req
<1>1. req' = [req EXCEPT ![w] = req[w]]
  BY DEF Moves
<1>2. req = [v \in Workers |-> req[v]]
  BY DEF TypeInv, TypeOK
<1> QED BY <1>1, <1>2, Zenon

(* An answer is an Answer. *)
LEMMA AnswerStep ==
  ASSUME TypeInv, NEW w \in Workers, NEW code, NEW ok, Ends(w, code, ok)
  PROVE  Atomic!Answer(w, code, ok)
<1>1. PhaseOf(w)' = "answered"
  BY DEF Ends, PhaseOf, UnbindLabels
<1>2. Phase' = [Phase EXCEPT ![w] = "answered"]
  BY <1>1, PhaseStep DEF Ends
<1>3. resp' = [resp EXCEPT ![w] = [code |-> code, ok |-> ok]]
  BY DEF Ends, Moves
<1>4. req' = req
  BY KeepsRequest DEF Ends
<1> QED BY <1>2, <1>3, <1>4 DEF Atomic!Answer

(* An error that says nothing about the records. *)
LEMMA RefuseStep ==
  ASSUME TypeInv, NEW w \in Workers, Called(w), UNCHANGED storeVars,
         NEW code, Ends(w, code, FALSE),
         \/ code = 500
         \/ code = 400 /\ req[w].op = "create"
         \/ code \in {200, 409} /\ req[w].op = "bind"
  PROVE  Atomic!Refuse(w)
<1>1. Phase[w] = "called"
  BY PhaseFacts
<1>2. Atomic!Answer(w, code, FALSE)
  BY AnswerStep
<1>3. UNCHANGED Atomic!records
  BY DEF Atomic!records, storeVars
<1>4. \/ Atomic!Answer(w, 500, FALSE)
      \/ Atomic!Serving(w, "create") /\ Atomic!Answer(w, 400, FALSE)
      \/ Atomic!Serving(w, "bind") /\ \E c \in {200, 409} : Atomic!Answer(w, c, FALSE)
  <2>1. CASE code = 500
    BY <1>2, <2>1, ZenonT(60)
  <2>2. CASE code = 400 /\ req[w].op = "create"
    BY <1>1, <1>2, <2>2 DEF Atomic!Serving
  <2>3. CASE code \in {200, 409} /\ req[w].op = "bind"
    <3>1. Atomic!Serving(w, "bind")
      BY <1>1, <2>3 DEF Atomic!Serving
    <3>2. \E c \in {200, 409} : Atomic!Answer(w, c, FALSE)
      BY <1>2, <2>3, Zenon
    <3> QED BY <3>1, <3>2
  <2> QED BY <2>1, <2>2, <2>3, ZenonT(60)
<1> QED BY <1>1, <1>3, <1>4 DEF Atomic!Refuse

(* Nothing that the platform sees. *)
LEMMA StutterStep ==
  ASSUME TypeInv, NEW w \in Workers, NEW label, GoesTo(w, label), UNCHANGED storeVars,
         \/ Called(w) /\ label \notin {"idle", "done"} \cup UnbindLabels
         \/ Called(w) /\ label \in UnbindLabels /\ req[w].op # "unbind"
         \/ {pc[w], label} \subseteq UnbindLabels /\ req[w].op = "unbind"
  PROVE  UNCHANGED Atomic!vars
<1>1. PhaseOf(w)' = PhaseOf(w) /\ req'[w] = req[w]
  BY DEF GoesTo, PhaseOf, Called, UnbindLabels
<1>2. Phase' = [Phase EXCEPT ![w] = PhaseOf(w)]
  BY <1>1, PhaseStep DEF GoesTo
<1>3. Phase' = Phase
  BY <1>2 DEF Phase
<1>4. req' = req
  BY KeepsRequest DEF GoesTo
<1>5. resp' = resp
  BY DEF GoesTo, Moves, TypeInv, TypeOK
<1> QED BY <1>3, <1>4, <1>5 DEF Atomic!vars, Atomic!records, storeVars

-----------------------------------------------------------------------------
(* Without a read that fails, what a lookup finds is what is recorded. *)

(* getServiceInstance finds an instance exactly when there is one. *)
LEMMA FindsInstance ==
  ASSUME AtomicSetting, AskedInv, NEW w, NEW found, getServiceInstance(w, found)
  PROVE  /\ UNCHANGED storeVars
         /\ found = None => ~Atomic!HasInstance(req[w].inst)
         /\ found # None => \E r \in instanceRows : r.guid = req[w].inst /\ r.data = found
<1>1. /\ UNCHANGED storeVars
      /\ found = None => Unrecorded(req[w].inst)
      /\ found # None => [guid |-> req[w].inst, data |-> found] \in instanceRows
  BY LookupExact DEF AtomicSetting
<1> QED BY <1>1 DEF Unrecorded, Atomic!HasInstance

(* GetBinding finds a binding exactly when there is one. *)
LEMMA GetBindingExact ==
  ASSUME AtomicSetting, AskedInv, NEW g, NEW b, NEW found, Read(GetBinding(g, b), found)
  PROVE  /\ UNCHANGED storeVars
         /\ found = None => ~Atomic!HasBinding(b)
         /\ found # None => \E r \in bindingRows : r.guid = b /\ r.cred = found
<1>1. found \in GetBinding(g, b) /\ UNCHANGED storeVars
  BY ReadExact DEF AtomicSetting
<1>2. CASE Atomic!HasBinding(b)
  <2>1. PICK r \in bindingRows : r.guid = b /\ r.cred = found
    BY <1>1, <1>2 DEF GetBinding, Sql!GetBinding, Sql!HasBinding, Atomic!HasBinding,
                      AtomicSetting
  <2>2. r.cred # None
    BY NoneAssumption DEF AskedInv, TypeInv, TypeOK, StoreOK
  <2> QED BY <1>1, <2>1, <2>2
<1>3. CASE ~Atomic!HasBinding(b)
  BY <1>1, <1>3 DEF GetBinding, Sql!GetBinding, Sql!HasBinding, Atomic!HasBinding,
                    AtomicSetting
<1> QED BY <1>2, <1>3

-----------------------------------------------------------------------------
(* Without a write that fails, the tables change as AtomicBroker says. *)

(* An instance is added unless its key is taken, which is an error. *)
LEMMA AddInstanceExact ==
  ASSUME AtomicSetting, NEW g, NEW data, NEW reply, AddInstance(g, data, reply)
  PROVE  /\ UNCHANGED bindingRows
         /\ \/ /\ ~Atomic!HasInstance(g)
               /\ instanceRows' = instanceRows \cup {[guid |-> g, data |-> data]}
            \/ reply # TRUE /\ UNCHANGED instanceRows
<1> USE DEF AtomicSetting, AddInstance, Sql!AddInstance, Sql!InstanceKeyFree,
            Sql!HasInstance, Atomic!HasInstance, Sql!Replied, Sql!CallFails, Sql!Fault
<1>1. CASE Atomic!HasInstance(g)
  BY <1>1
<1>2. CASE ~Atomic!HasInstance(g)
  BY <1>2
<1> QED BY <1>1, <1>2

(* A binding is added unless its key is taken or its instance is not there. *)
LEMMA AddBindingExact ==
  ASSUME AtomicSetting, NEW g, NEW b, NEW c, NEW reply, AddBinding(g, b, c, reply)
  PROVE  /\ UNCHANGED instanceRows
         /\ \/ /\ Atomic!HasInstance(g) /\ ~Atomic!HasBinding(b)
               /\ bindingRows' = bindingRows \cup {[inst |-> g, guid |-> b, cred |-> c]}
            \/ reply # TRUE /\ UNCHANGED bindingRows
<1> USE DEF AtomicSetting, AddBinding, Sql!AddBinding, Sql!BindingKeyFree,
            Sql!HasInstance, Sql!HasBinding, Atomic!HasInstance, Atomic!HasBinding,
            Sql!Replied, Sql!CallFails, Sql!Fault
<1>1. CASE Atomic!HasInstance(g) /\ ~Atomic!HasBinding(b)
  BY <1>1
<1>2. CASE ~(Atomic!HasInstance(g) /\ ~Atomic!HasBinding(b))
  BY <1>2
<1> QED BY <1>1, <1>2

(* A binding goes; when it is not there, that is an error. *)
LEMMA DeleteBindingExact ==
  ASSUME AtomicSetting, NEW g, NEW b, NEW reply, DeleteBinding(g, b, reply)
  PROVE  /\ UNCHANGED instanceRows
         /\ \/ /\ Atomic!HasBinding(b)
               /\ bindingRows' = {r \in bindingRows : r.guid # b}
            \/ reply # TRUE /\ UNCHANGED bindingRows
<1> USE DEF AtomicSetting, DeleteBinding, Sql!DeleteBinding, Sql!HasBinding,
            Atomic!HasBinding, Sql!Replied, Sql!CallFails, Sql!Fault
<1>1. CASE Atomic!HasBinding(b)
  BY <1>1
<1>2. CASE ~Atomic!HasBinding(b)
  <2>1. {r \in bindingRows : r.guid # b} = bindingRows
    BY <1>2
  <2> QED BY <1>2, <2>1
<1> QED BY <1>1, <1>2

(* An instance goes with its bindings. *)
LEMMA DeleteInstanceExact ==
  ASSUME AtomicSetting, NEW g, NEW reply, DeleteInstance(g, reply)
  PROVE  /\ instanceRows' = {r \in instanceRows : r.guid # g}
         /\ bindingRows' = {r \in bindingRows : r.inst # g}
  BY DEF AtomicSetting, DeleteInstance, Sql!DeleteInstance, Sql!CallFails, Sql!Fault

-----------------------------------------------------------------------------
(* The steps of the handlers, handler by handler. *)

(* An action of AtomicBroker that w takes, or nothing. *)
Acts(w) ==
  \/ Atomic!Provision(w) \/ Atomic!Deprovision(w)
  \/ Atomic!BindApp(w) \/ Atomic!UnbindApp(w) \/ Atomic!FinishUnbind(w)
  \/ Atomic!TellInstance(w) \/ Atomic!TellBinding(w)
  \/ Atomic!TellNoInstance(w) \/ Atomic!TellNoBinding(w)
  \/ Atomic!Refuse(w) \/ Atomic!End(w)
  \/ UNCHANGED Atomic!vars

(* An instance that is there is told. *)
LEMMA TellInstanceStep ==
  ASSUME TypeInv, NEW w \in Workers, Called(w), UNCHANGED storeVars,
         NEW r \in instanceRows, r.guid = req[w].inst,
         \/ req[w].op = "get" /\ Ends(w, 200, TRUE)
         \/ req[w].op = "create" /\ compareService(r.data, req[w]) /\ Ends(w, 200, TRUE)
         \/ req[w].op = "create" /\ ~compareService(r.data, req[w]) /\ Ends(w, 409, FALSE)
  PROVE  Atomic!TellInstance(w)
<1>1. Phase[w] = "called"
  BY PhaseFacts
<1>2. UNCHANGED Atomic!records
  BY DEF Atomic!records, storeVars
<1>3. /\ Ends(w, 200, TRUE) => Atomic!Answer(w, 200, TRUE)
      /\ Ends(w, 409, FALSE) => Atomic!Answer(w, 409, FALSE)
  BY AnswerStep, ZenonT(60)
<1> QED BY <1>1, <1>2, <1>3 DEF Atomic!TellInstance, Atomic!Serving

(* An instance that is not there is told. *)
LEMMA TellNoInstanceStep ==
  ASSUME TypeInv, NEW w \in Workers, Called(w), UNCHANGED storeVars,
         ~Atomic!HasInstance(req[w].inst),
         \/ req[w].op = "get" /\ Ends(w, 404, FALSE)
         \/ req[w].op \in {"remove", "unbind"} /\ Ends(w, 410, FALSE)
  PROVE  Atomic!TellNoInstance(w)
<1>1. Phase[w] = "called"
  BY PhaseFacts
<1>2. UNCHANGED Atomic!records
  BY DEF Atomic!records, storeVars
<1>3. /\ Ends(w, 404, FALSE) => Atomic!Answer(w, 404, FALSE)
      /\ Ends(w, 410, FALSE) => Atomic!Answer(w, 410, FALSE)
  BY AnswerStep, ZenonT(60)
<1> QED BY <1>1, <1>2, <1>3 DEF Atomic!TellNoInstance, Atomic!Serving

(* CreateServiceInstance: the record is its one change, and the last thing it does. *)
LEMMA CreateActs ==
  ASSUME AtomicSetting, AskedInv, NEW w \in Workers,
         \/ CreateUnknownPlan(w) \/ CreateExisting(w) \/ CreateNew(w)
         \/ CreateDb(w) \/ StoreInstance(w)
  PROVE  Acts(w)
<1> USE DEF AskedInv
<1>1. CASE CreateUnknownPlan(w)
  <2>1. /\ Called(w) /\ req[w].op = "create" /\ UNCHANGED storeVars
        /\ Ends(w, 400, FALSE)
    BY <1>1, CreateUnknownPlanStep, ZenonT(60) DEF Called, UnbindLabels
  <2> QED BY <2>1, RefuseStep DEF Acts
<1>2. CASE CreateExisting(w)
  <2>1. Called(w) /\ req[w].op = "create"
    BY <1>2, CreateExistingStep DEF Called, UnbindLabels
  <2>2. PICK found \in InstanceData :
          /\ getServiceInstance(w, found)
          /\ \/ compareService(found, req[w]) /\ Ends(w, 200, TRUE)
             \/ ~compareService(found, req[w]) /\ Ends(w, 409, FALSE)
    BY <1>2, CreateExistingStep
  <2>3. PICK r \in instanceRows : r.guid = req[w].inst /\ r.data = found
    BY <2>2, FindsInstance, NoneAssumption
  <2>4. UNCHANGED storeVars
    BY <2>2, FindsInstance
  <2>5. Atomic!TellInstance(w)
    BY <2>1, <2>2, <2>3, <2>4, TellInstanceStep
  <2> QED BY <2>5 DEF Acts
<1>3. CASE CreateNew(w)
  <2>1. Called(w) /\ UNCHANGED storeVars
    BY <1>3, CreateNewStep, FindsInstance DEF Called, UnbindLabels
  <2>2. CASE GoesTo(w, "createDb")
    BY <2>1, <2>2, StutterStep DEF Acts, UnbindLabels
  <2>3. CASE Ends(w, 500, FALSE)
    BY <2>1, <2>3, RefuseStep DEF Acts
  <2> QED BY <1>3, <2>2, <2>3, CreateNewStep
<1>4. CASE CreateDb(w)
  <2>1. Called(w) /\ UNCHANGED storeVars
    BY <1>4, CreateDbStep DEF Called, UnbindLabels
  <2>2. CASE GoesTo(w, "addInstance")
    BY <2>1, <2>2, StutterStep DEF Acts, UnbindLabels
  <2>3. CASE Ends(w, 500, FALSE)
    BY <2>1, <2>3, RefuseStep DEF Acts
  <2> QED BY <1>4, <2>2, <2>3, CreateDbStep
<1>5. CASE StoreInstance(w)
  <2>1. Called(w) /\ req[w].op = "create" /\ pc[w] = "addInstance"
    BY <1>5, StoreInstanceStep DEF Called, UnbindLabels
  <2>2. PICK reply \in BOOLEAN :
          /\ AddInstance(req[w].inst, inst[w], reply)
          /\ \/ reply = TRUE /\ Ends(w, 201, TRUE)
             \/ reply = FALSE /\ Ends(w, 500, FALSE)
    BY <1>5, StoreInstanceStep
  <2>3. CASE /\ ~Atomic!HasInstance(req[w].inst)
             /\ instanceRows' = instanceRows \cup {[guid |-> req[w].inst, data |-> inst[w]]}
    <3>1. inst[w] \in InstanceRecords
      BY <2>1, InstSet, LabelFacts
    <3>2. /\ inst[w].plan = req[w].plan /\ inst[w].meta = req[w].meta
          /\ req[w].db \in {inst[w].db, None}
      BY <2>1 DEF Asked
    <3>3. \E data \in InstanceRecords :
            /\ data.plan = req[w].plan /\ data.meta = req[w].meta
            /\ req[w].db \in {data.db, None}
            /\ instanceRows' = instanceRows \cup {[guid |-> req[w].inst, data |-> data]}
      BY <2>3, <3>1, <3>2
    <3>4. /\ Ends(w, 201, TRUE) => Atomic!Answer(w, 201, TRUE)
          /\ Ends(w, 500, FALSE) => Atomic!Answer(w, 500, FALSE)
      BY AnswerStep
    <3>5. Atomic!Serving(w, "create")
      BY <2>1, PhaseFacts DEF Atomic!Serving
    <3>6. UNCHANGED bindingRows
      BY <2>2, AddInstanceExact
    <3>7. Atomic!Provision(w)
      BY <2>2, <2>3, <3>3, <3>4, <3>5, <3>6, ZenonT(60) DEF Atomic!Provision, Atomic!Changed
    <3> QED BY <3>7 DEF Acts
  <2>4. CASE reply # TRUE /\ UNCHANGED <<instanceRows, bindingRows>>
    <3>1. Ends(w, 500, FALSE) /\ UNCHANGED storeVars
      BY <2>2, <2>4 DEF storeVars
    <3> QED BY <2>1, <3>1, RefuseStep DEF Acts
  <2> QED BY <2>2, <2>3, <2>4, AddInstanceExact
<1> QED BY <1>1, <1>2, <1>3, <1>4, <1>5

(* GetServiceInstance tells what it found. *)
LEMMA GetActs ==
  ASSUME AtomicSetting, AskedInv, NEW w \in Workers, Get(w)
  PROVE  Acts(w)
<1> USE DEF AskedInv
<1>1. Called(w) /\ req[w].op = "get" /\ getServiceInstance(w, inst'[w])
  BY GetStep DEF Called, UnbindLabels
<1>2. UNCHANGED storeVars
  BY <1>1, FindsInstance
<1>3. CASE inst'[w] # None /\ Ends(w, 200, TRUE)
  <2>1. PICK r \in instanceRows : r.guid = req[w].inst
    BY <1>1, <1>3, FindsInstance
  <2> QED BY <1>1, <1>2, <1>3, <2>1, TellInstanceStep DEF Acts
<1>4. CASE inst'[w] = None /\ Ends(w, 404, FALSE)
  <2>1. ~Atomic!HasInstance(req[w].inst)
    BY <1>1, <1>4, FindsInstance
  <2> QED BY <1>1, <1>2, <1>4, <2>1, TellNoInstanceStep DEF Acts
<1> QED BY <1>3, <1>4, GetStep

(* RemoveServiceInstance: the records are the last thing it deletes. *)
LEMMA RemoveActs ==
  ASSUME AtomicSetting, AskedInv, NEW w \in Workers,
         \/ Remove(w) \/ ListBindings(w) \/ ListSomeBindings(w) \/ NextBinding(w)
         \/ DeleteDb(w) \/ EraseInstance(w)
  PROVE  Acts(w)
<1> USE DEF AskedInv
<1>1. CASE Remove(w)
  <2>1. Called(w) /\ req[w].op = "remove" /\ getServiceInstance(w, inst'[w])
    BY <1>1, RemoveStep DEF Called, UnbindLabels
  <2>2. UNCHANGED storeVars
    BY <2>1, FindsInstance
  <2>3. CASE GoesTo(w, "listBindings")
    BY <2>1, <2>2, <2>3, StutterStep DEF Acts, UnbindLabels
  <2>4. CASE inst'[w] = None /\ Ends(w, 410, FALSE)
    <3>1. ~Atomic!HasInstance(req[w].inst)
      BY <2>1, <2>4, FindsInstance
    <3> QED BY <2>1, <2>2, <2>4, <3>1, TellNoInstanceStep DEF Acts
  <2> QED BY <1>1, <2>3, <2>4, RemoveStep
<1>2. CASE ListBindings(w)
  <2>1. Called(w) /\ UNCHANGED storeVars
    BY <1>2, ListBindingsStep, ReadEffect, ZenonT(60) DEF Called, UnbindLabels, storeVars
  <2>2. CASE GoesTo(w, "nextBinding")
    BY <2>1, <2>2, StutterStep DEF Acts, UnbindLabels
  <2>3. CASE Ends(w, 500, FALSE)
    BY <2>1, <2>3, RefuseStep DEF Acts
  <2> QED BY <1>2, <2>2, <2>3, ListBindingsStep
<1>3. CASE ListSomeBindings(w)
  <2>1. Called(w) /\ UNCHANGED storeVars /\ GoesTo(w, "nextBinding")
    BY <1>3, ListSomeBindingsStep DEF Called, UnbindLabels
  <2> QED BY <2>1, StutterStep DEF Acts, UnbindLabels
<1>4. CASE NextBinding(w)
  <2>1. Called(w) /\ UNCHANGED storeVars /\ req[w].op # "unbind"
    BY <1>4, NextBindingStep DEF Called, UnbindLabels
  <2>2. CASE GoesTo(w, "deleteDb")
    BY <2>1, <2>2, StutterStep DEF Acts, UnbindLabels
  <2>3. CASE GoesTo(w, "revokeWrite")
    BY <2>1, <2>3, StutterStep DEF Acts, UnbindLabels
  <2> QED BY <1>4, <2>2, <2>3, NextBindingStep
<1>5. CASE DeleteDb(w)
  <2>1. Called(w) /\ UNCHANGED storeVars
    BY <1>5, DeleteDbStep DEF Called, UnbindLabels
  <2>2. CASE GoesTo(w, "deleteInstance")
    BY <2>1, <2>2, StutterStep DEF Acts, UnbindLabels
  <2>3. CASE Ends(w, 500, FALSE)
    BY <2>1, <2>3, RefuseStep DEF Acts
  <2> QED BY <1>5, <2>2, <2>3, DeleteDbStep
<1>6. CASE EraseInstance(w)
  <2>1. Called(w) /\ req[w].op = "remove" /\ Ends(w, 200, TRUE)
    BY <1>6, EraseInstanceStep DEF Called, UnbindLabels
  <2>2. /\ instanceRows' = {r \in instanceRows : r.guid # req[w].inst}
        /\ bindingRows' = {r \in bindingRows : r.inst # req[w].inst}
    BY <1>6, EraseInstanceStep, DeleteInstanceExact
  <2>3. Atomic!Serving(w, "remove") /\ Atomic!Answer(w, 200, TRUE)
    BY <2>1, AnswerStep, PhaseFacts DEF Atomic!Serving
  <2>4. Atomic!Deprovision(w)
    BY <2>2, <2>3 DEF Atomic!Deprovision
  <2> QED BY <2>4 DEF Acts
<1> QED BY <1>1, <1>2, <1>3, <1>4, <1>5, <1>6

(* Bind: the record is its one change, and the last thing it does. *)
LEMMA BindActs ==
  ASSUME AtomicSetting, AskedInv, NEW w \in Workers,
         \/ Bind(w) \/ FindBinding(w) \/ CheckUser(w) \/ MakeUser(w)
         \/ GrantWrite(w) \/ GrantRead(w) \/ CheckInstance(w) \/ StoreBinding(w)
  PROVE  Acts(w)
<1> USE DEF AskedInv
<1>1. CASE Bind(w)
  <2>1. Called(w) /\ UNCHANGED storeVars
    BY <1>1, BindFirstStep, FindsInstance DEF Called, UnbindLabels
  <2>2. CASE GoesTo(w, "getBinding")
    BY <2>1, <2>2, StutterStep DEF Acts, UnbindLabels
  <2>3. CASE Ends(w, 500, FALSE)
    BY <2>1, <2>3, RefuseStep DEF Acts
  <2> QED BY <1>1, <2>2, <2>3, BindFirstStep
<1>2. CASE FindBinding(w)
  <2>1. Called(w) /\ req[w].op = "bind"
    BY <1>2, FindBindingStep DEF Called, UnbindLabels
  <2>2. CASE /\ cred'[w] # None
             /\ Read(GetBinding(req[w].inst, req[w].bind), cred'[w])
             /\ \/ EqualBinding(cred'[w], req[w]) /\ Ends(w, 200, TRUE)
                \/ ~EqualBinding(cred'[w], req[w]) /\ Ends(w, 409, FALSE)
    <3>1. PICK r \in bindingRows : r.guid = req[w].bind /\ r.cred = cred'[w]
      BY <2>2, GetBindingExact
    <3>2. UNCHANGED Atomic!records
      BY <2>2, GetBindingExact DEF Atomic!records, storeVars
    <3>3. /\ Ends(w, 200, TRUE) => Atomic!Answer(w, 200, TRUE)
          /\ Ends(w, 409, FALSE) => Atomic!Answer(w, 409, FALSE)
      BY AnswerStep
    <3>4. Atomic!Serving(w, "bind")
      BY <2>1, PhaseFacts DEF Atomic!Serving
    <3>5. IF EqualBinding(r.cred, req[w]) THEN Atomic!Answer(w, 200, TRUE)
                                          ELSE Atomic!Answer(w, 409, FALSE)
      BY <2>2, <3>1, <3>3, ZenonT(60)
    <3>6. Atomic!TellBinding(w)
      BY <3>1, <3>2, <3>4, <3>5 DEF Atomic!TellBinding
    <3> QED BY <3>6 DEF Acts
  <2>3. CASE Read(GetBinding(req[w].inst, req[w].bind), None) /\ GoesTo(w, "userExists")
    <3>1. UNCHANGED storeVars
      BY <2>3, GetBindingExact
    <3> QED BY <2>1, <2>3, <3>1, StutterStep DEF Acts, UnbindLabels
  <2> QED BY <1>2, <2>2, <2>3, FindBindingStep
<1>3. CASE CheckUser(w)
  <2>1. Called(w) /\ UNCHANGED storeVars /\ req[w].op = "bind"
    BY <1>3, CheckUserStep DEF Called, UnbindLabels
  <2>2. ASSUME NEW label \in {"newUser"}, GoesTo(w, label) PROVE Acts(w)
    BY <2>1, <2>2, StutterStep DEF Acts, UnbindLabels
  <2>3. CASE Ends(w, 500, FALSE) \/ Ends(w, 409, FALSE)
    BY <2>1, <2>3, RefuseStep, ZenonT(60) DEF Acts
  <2>4. GoesTo(w, "newUser") \/ Ends(w, 409, FALSE) \/ Ends(w, 500, FALSE)
    BY <1>3, CheckUserLeads
  <2> QED BY <2>2, <2>3, <2>4
<1>4. CASE MakeUser(w)
  <2>1. Called(w) /\ UNCHANGED storeVars /\ req[w].op = "bind"
    BY <1>4, MakeUserStep DEF Called, UnbindLabels
  <2>2. ASSUME NEW label \in {"grantWrite"}, GoesTo(w, label) PROVE Acts(w)
    BY <2>1, <2>2, StutterStep DEF Acts, UnbindLabels
  <2>3. CASE Ends(w, 500, FALSE)
    BY <2>1, <2>3, RefuseStep DEF Acts
  <2> QED BY <1>4, <2>2, <2>3, MakeUserStep
<1>5. CASE GrantWrite(w)
  <2>1. Called(w) /\ UNCHANGED storeVars /\ req[w].op = "bind"
    BY <1>5, GrantWriteStep DEF Called, UnbindLabels
  <2>2. ASSUME NEW label \in {"grantRead"}, GoesTo(w, label) PROVE Acts(w)
    BY <2>1, <2>2, StutterStep DEF Acts, UnbindLabels
  <2>3. CASE Ends(w, 500, FALSE)
    BY <2>1, <2>3, RefuseStep DEF Acts
  <2> QED BY <1>5, <2>2, <2>3, GrantWriteStep
<1>6. CASE GrantRead(w)
  <2>1. Called(w) /\ UNCHANGED storeVars /\ req[w].op = "bind"
    BY <1>6, GrantReadStep DEF Called, UnbindLabels
  <2>2. ASSUME NEW label \in {"checkInstance", "addBinding"}, GoesTo(w, label) PROVE Acts(w)
    BY <2>1, <2>2, StutterStep DEF Acts, UnbindLabels
  <2>3. CASE Ends(w, 500, FALSE)
    BY <2>1, <2>3, RefuseStep DEF Acts
  <2> QED BY <1>6, <2>2, <2>3, GrantReadStep
<1>7. CASE CheckInstance(w)
  <2>1. Called(w) /\ UNCHANGED storeVars /\ req[w].op = "bind"
    BY <1>7, CheckInstanceStep, ReadEffect DEF Called, UnbindLabels, storeVars
  <2>2. CASE GoesTo(w, "addBinding")
    BY <2>1, <2>2, StutterStep DEF Acts, UnbindLabels
  <2>3. CASE Ends(w, 200, FALSE)
    BY <2>1, <2>3, RefuseStep DEF Acts
  <2> QED BY <1>7, <2>2, <2>3, CheckInstanceStep
<1>8. CASE StoreBinding(w)
  <2>1. Called(w) /\ req[w].op = "bind" /\ pc[w] = "addBinding"
    BY <1>8, StoreBindingStep DEF Called, UnbindLabels
  <2>2. PICK reply \in BOOLEAN :
          /\ AddBinding(req[w].inst, req[w].bind, cred[w], reply)
          /\ \/ reply = TRUE /\ Ends(w, 201, TRUE)
             \/ reply = FALSE /\ Ends(w, 200, FALSE)
    BY <1>8, StoreBindingStep
  <2>3. CASE /\ Atomic!HasInstance(req[w].inst) /\ ~Atomic!HasBinding(req[w].bind)
             /\ bindingRows' = bindingRows \cup
                  {[inst |-> req[w].inst, guid |-> req[w].bind, cred |-> cred[w]]}
    <3>1. cred[w] \in Credentials
      BY <2>1, CredSet, LabelFacts
    <3>2. req[w].user \in {cred[w].user, None} /\ req[w].pw \in {cred[w].pw, None}
      BY <2>1 DEF Asked, BoundLabels
    <3>3. \E c \in Credentials :
            /\ req[w].user \in {c.user, None} /\ req[w].pw \in {c.pw, None}
            /\ bindingRows' = bindingRows \cup
                 {[inst |-> req[w].inst, guid |-> req[w].bind, cred |-> c]}
      BY <2>3, <3>1, <3>2
    <3>4. /\ Ends(w, 201, TRUE) => Atomic!Answer(w, 201, TRUE)
          /\ Ends(w, 200, FALSE) => Atomic!Answer(w, 200, FALSE)
      BY AnswerStep
    <3>5. Atomic!Serving(w, "bind")
      BY <2>1, PhaseFacts DEF Atomic!Serving
    <3>6. UNCHANGED instanceRows
      BY <2>2, AddBindingExact
    <3>7. Atomic!BindApp(w)
      BY <2>2, <2>3, <3>3, <3>4, <3>5, <3>6 DEF Atomic!BindApp, Atomic!Changed
    <3> QED BY <3>7 DEF Acts
  <2>4. CASE reply # TRUE /\ UNCHANGED <<instanceRows, bindingRows>>
    <3>1. Ends(w, 200, FALSE) /\ UNCHANGED storeVars
      BY <2>2, <2>4 DEF storeVars
    <3> QED BY <2>1, <3>1, RefuseStep DEF Acts
  <2> QED BY <2>2, <2>3, <2>4, AddBindingExact
<1> QED BY <1>1, <1>2, <1>3, <1>4, <1>5, <1>6, <1>7, <1>8

(* UnBind: the record is its first change, and the answer comes later. *)
LEMMA UnbindActs ==
  ASSUME AtomicSetting, AskedInv, NEW w \in Workers,
         Unbind(w) \/ UnbindGet(w) \/ EraseBinding(w)
  PROVE  Acts(w)
<1> USE DEF AskedInv
<1>1. CASE Unbind(w)
  <2>1. Called(w) /\ req[w].op = "unbind" /\ getServiceInstance(w, inst'[w])
    BY <1>1, UnbindFirstStep DEF Called, UnbindLabels
  <2>2. UNCHANGED storeVars
    BY <2>1, FindsInstance
  <2>3. CASE GoesTo(w, "unbindGet")
    BY <2>1, <2>2, <2>3, StutterStep DEF Acts, UnbindLabels
  <2>4. CASE inst'[w] = None /\ Ends(w, 410, FALSE)
    <3>1. ~Atomic!HasInstance(req[w].inst)
      BY <2>1, <2>4, FindsInstance
    <3> QED BY <2>1, <2>2, <2>4, <3>1, TellNoInstanceStep DEF Acts
  <2> QED BY <1>1, <2>3, <2>4, UnbindFirstStep
<1>2. CASE UnbindGet(w)
  <2>1. /\ Called(w) /\ req[w].op = "unbind"
        /\ Read(GetBinding(req[w].inst, req[w].bind), cred'[w])
    BY <1>2, UnbindGetStep DEF Called, UnbindLabels
  <2>2. UNCHANGED storeVars
    BY <2>1, GetBindingExact
  <2>3. CASE GoesTo(w, "deleteBinding")
    BY <2>1, <2>2, <2>3, StutterStep DEF Acts, UnbindLabels
  <2>4. CASE cred'[w] = None /\ Ends(w, 410, FALSE)
    <3>1. ~Atomic!HasBinding(req[w].bind)
      BY <2>1, <2>4, GetBindingExact
    <3>2. Atomic!Answer(w, 410, FALSE)
      BY <2>4, AnswerStep
    <3>3. Atomic!Serving(w, "unbind")
      BY <2>1, PhaseFacts DEF Atomic!Serving
    <3>4. Atomic!TellNoBinding(w)
      BY <2>2, <3>1, <3>2, <3>3 DEF Atomic!TellNoBinding, Atomic!records, storeVars
    <3> QED BY <3>4 DEF Acts
  <2> QED BY <1>2, <2>3, <2>4, UnbindGetStep
<1>3. CASE EraseBinding(w)
  <2>1. Called(w) /\ req[w].op = "unbind"
    BY <1>3, EraseBindingStep DEF Called, UnbindLabels
  <2>2. PICK reply \in BOOLEAN :
          /\ DeleteBinding(req[w].inst, req[w].bind, reply)
          /\ \/ reply = TRUE /\ GoesTo(w, "revokeWrite")
             \/ reply = FALSE /\ Ends(w, 500, FALSE)
    BY <1>3, EraseBindingStep
  <2>3. CASE /\ Atomic!HasBinding(req[w].bind)
             /\ bindingRows' = {r \in bindingRows : r.guid # req[w].bind}
    <3>1. Atomic!Serving(w, "unbind")
      BY <2>1, PhaseFacts DEF Atomic!Serving
    <3>2. UNCHANGED instanceRows
      BY <2>2, DeleteBindingExact
    <3>3. \/ Phase' = [Phase EXCEPT ![w] = "applied"] /\ UNCHANGED <<req, resp>>
          \/ Atomic!Answer(w, 500, FALSE)
      <4>1. CASE GoesTo(w, "revokeWrite")
        <5>1. PhaseOf(w)' = "applied"
          BY <2>1, <4>1 DEF GoesTo, PhaseOf, UnbindLabels
        <5>2. Phase' = [Phase EXCEPT ![w] = "applied"]
          BY <4>1, <5>1, PhaseStep DEF GoesTo
        <5>3. req' = req
          BY <4>1, KeepsRequest DEF GoesTo
        <5>4. resp' = resp
          BY <4>1 DEF GoesTo, Moves, TypeInv, TypeOK
        <5> QED BY <5>2, <5>3, <5>4
      <4>2. CASE Ends(w, 500, FALSE)
        BY <4>2, AnswerStep
      <4> QED BY <2>2, <4>1, <4>2
    <3>4. Atomic!UnbindApp(w)
      BY <2>3, <3>1, <3>2, <3>3 DEF Atomic!UnbindApp
    <3> QED BY <3>4 DEF Acts
  <2>4. CASE reply # TRUE /\ UNCHANGED <<instanceRows, bindingRows>>
    <3>1. Ends(w, 500, FALSE) /\ UNCHANGED storeVars
      BY <2>2, <2>4 DEF storeVars
    <3> QED BY <2>1, <3>1, RefuseStep DEF Acts
  <2> QED BY <2>2, <2>3, <2>4, DeleteBindingExact
<1> QED BY <1>1, <1>2, <1>3

(* Plan.UnBind touches no record: it is the end of UnBind, and inside           *)
(* RemoveServiceInstance nothing.                                              *)
LEMMA PlanUnbindActs ==
  ASSUME AtomicSetting, AskedInv, NEW w \in Workers,
         RevokeWrite(w) \/ RevokeRead(w) \/ RemoveUser(w)
  PROVE  Acts(w)
<1> USE DEF AskedInv
<1>1. /\ pc[w] \in UnbindLabels /\ req[w].op \in {"remove", "unbind"} /\ UNCHANGED storeVars
      /\ \/ GoesTo(w, "revokeRead") \/ GoesTo(w, "deleteUser")
         \/ UnbindFailed(w) \/ UnbindDone(w)
  <2>1. CASE RevokeWrite(w)
    BY <2>1, RevokeWriteStep DEF UnbindLabels
  <2>2. CASE RevokeRead(w)
    BY <2>2, RevokeReadStep DEF UnbindLabels
  <2>3. CASE RemoveUser(w)
    BY <2>3, RemoveUserStep DEF UnbindLabels
  <2> QED BY <2>1, <2>2, <2>3
<1>2. CASE GoesTo(w, "revokeRead") \/ GoesTo(w, "deleteUser")
  <2>1. \/ Called(w) /\ req[w].op # "unbind"
        \/ req[w].op = "unbind"
    BY <1>1 DEF Called, UnbindLabels
  <2>2. ASSUME NEW label \in {"revokeRead", "deleteUser"}, GoesTo(w, label)
        PROVE  UNCHANGED Atomic!vars
    BY <1>1, <2>1, <2>2, StutterStep DEF UnbindLabels
  <2> QED BY <1>2, <2>2 DEF Acts
<1>3. CASE req[w].op = "remove" /\ GoesTo(w, "nextBinding")
  <2>1. Called(w)
    BY <1>1, <1>3 DEF Called, UnbindLabels
  <2> QED BY <1>1, <1>3, <2>1, StutterStep DEF Acts, UnbindLabels
<1>4. CASE req[w].op = "unbind" /\ (Ends(w, 200, TRUE) \/ Ends(w, 500, FALSE))
  <2>1. /\ Ends(w, 200, TRUE) => Atomic!Answer(w, 200, TRUE)
        /\ Ends(w, 500, FALSE) => Atomic!Answer(w, 500, FALSE)
    BY AnswerStep
  <2>2. Phase[w] = "applied"
    BY <1>1, <1>4, PhaseFacts
  <2>3. UNCHANGED Atomic!records
    BY <1>1 DEF Atomic!records, storeVars
  <2>4. Atomic!FinishUnbind(w)
    BY <1>4, <2>1, <2>2, <2>3, ZenonT(60) DEF Atomic!FinishUnbind, Atomic!Changed
  <2> QED BY <2>4 DEF Acts
<1> QED BY <1>1, <1>2, <1>3, <1>4 DEF UnbindFailed, UnbindDone

-----------------------------------------------------------------------------
(* The platform and the process. *)

(* A request that arrives is called. *)
LEMMA ReceiveActs ==
  ASSUME TypeInv, NEW w \in Workers, NEW r \in Requests, Receive(w, r)
  PROVE  Atomic!Call(w, r)
<1>1. PhaseOf(w)' = "called"
  BY ReceiveStep DEF PhaseOf, UnbindLabels, Ops
<1>2. Phase' = [Phase EXCEPT ![w] = "called"]
  BY <1>1, ReceiveStep, PhaseStep
<1>3. Phase[w] = "idle"
  BY ReceiveStep, PhaseFacts
<1> QED BY <1>2, <1>3 DEF Receive, Goto, Atomic!Call, Atomic!records, storeVars

(* A goroutine that ends takes its request with it. *)
LEMMA EndActs ==
  ASSUME TypeInv, NEW w \in Workers, Panic(w) \/ Return(w)
  PROVE  Atomic!End(w)
<1>1. Exit(w) /\ pc[w] # "idle"
  BY EndStep DEF Ops
<1>2. PhaseOf(w)' = "idle"
  BY <1>1, ExitStep DEF PhaseOf, UnbindLabels
<1>3. Phase' = [Phase EXCEPT ![w] = "idle"]
  BY <1>1, <1>2, ExitStep, PhaseStep
<1>4. Phase[w] # "idle"
  BY <1>1, PhaseFacts
<1> QED BY <1>1, <1>3, <1>4 DEF Exit, NoResponse, Atomic!End, Atomic!records, storeVars

(* When the broker dies, so do all requests. *)
LEMMA RestartActs ==
  ASSUME Restart  PROVE Atomic!Crash
<1>1. ASSUME NEW w \in Workers PROVE PhaseOf(w)' = "idle"
  BY DEF Restart, PhaseOf, UnbindLabels
<1>2. Phase' = [w \in Workers |-> "idle"]
  BY <1>1 DEF Phase
<1> QED BY <1>2 DEF Restart, NoResponse, Atomic!Crash, Atomic!records, storeVars

(* Nothing happens. *)
LEMMA NothingActs ==
  ASSUME UNCHANGED vars  PROVE UNCHANGED Atomic!vars
<1>1. Phase' = Phase
  BY DEF vars, locals, Phase, PhaseOf
<1> QED BY <1>1 DEF vars, locals, storeVars, Atomic!vars, Atomic!records

(* Initially the platform has called nothing. *)
LEMMA RefinesInit == Init => Atomic!Init
<1> SUFFICES ASSUME Init PROVE Atomic!Init
  OBVIOUS
<1>1. Phase = [w \in Workers |-> "idle"]
  BY DEF Init, Phase, PhaseOf, UnbindLabels
<1> QED BY <1>1 DEF Init, NoResponse, Atomic!Init

(* Every step of the broker is a step of AtomicBroker, or nothing. *)
LEMMA RefinesNext ==
  ASSUME AtomicSetting, AskedInv, [Next]_vars
  PROVE  [Atomic!Next]_(Atomic!vars)
<1>1. ASSUME NEW w \in Workers, Acts(w)
      PROVE  Atomic!Next \/ UNCHANGED Atomic!vars
  BY <1>1 DEF Acts, Atomic!Next
<1>2. ASSUME NEW w \in Workers, Handle(w) PROVE Acts(w)
  <2>1. CASE \/ CreateUnknownPlan(w) \/ CreateExisting(w) \/ CreateNew(w)
             \/ CreateDb(w) \/ StoreInstance(w)
    BY <2>1, CreateActs
  <2>2. CASE Get(w)
    BY <2>2, GetActs
  <2>3. CASE \/ Remove(w) \/ ListBindings(w) \/ ListSomeBindings(w) \/ NextBinding(w)
             \/ DeleteDb(w) \/ EraseInstance(w)
    BY <2>3, RemoveActs
  <2>4. CASE \/ Bind(w) \/ FindBinding(w) \/ CheckUser(w) \/ MakeUser(w)
             \/ GrantWrite(w) \/ GrantRead(w) \/ CheckInstance(w) \/ StoreBinding(w)
    BY <2>4, BindActs
  <2>5. CASE Unbind(w) \/ UnbindGet(w) \/ EraseBinding(w)
    BY <2>5, UnbindActs
  <2>6. CASE RevokeWrite(w) \/ RevokeRead(w) \/ RemoveUser(w)
    BY <2>6, PlanUnbindActs
  <2> QED BY <1>2, <2>1, <2>2, <2>3, <2>4, <2>5, <2>6 DEF Handle
<1>3. ASSUME NEW w \in Workers, Panic(w) \/ Return(w) PROVE Atomic!Next
  BY <1>3, EndActs DEF AskedInv, Atomic!Next
<1>4. ASSUME NEW w \in Workers, NEW r \in Requests, Receive(w, r) PROVE Atomic!Next
  BY <1>4, ReceiveActs DEF AskedInv, Atomic!Next
<1>5. CASE Restart
  BY <1>5, RestartActs DEF Atomic!Next
<1>6. CASE UNCHANGED vars
  BY <1>6, NothingActs
<1> QED BY <1>1, <1>2, <1>3, <1>4, <1>5, <1>6 DEF Next

(***************************************************************************)
(* The handlers of controller.go over mysql.go act on the records as       *)
(* AtomicBroker does: at most once per request, in one step that decides   *)
(* the answer, however the goroutines interleave, whichever Stardog calls  *)
(* fail, wherever the connection or the broker breaks.                     *)
(***************************************************************************)
THEOREM Implements == AtomicSetting => (Spec => ActsAtomically)
<1> SUFFICES ASSUME AtomicSetting PROVE Spec => ActsAtomically
  OBVIOUS
<1>1. Init => AskedInv
  BY AskedInit
<1>2. AskedInv /\ [Next]_vars => AskedInv'
  BY AskedNext DEF AtomicSetting
<1>3. Init => Atomic!Init
  BY RefinesInit
<1>4. AskedInv /\ [Next]_vars => [Atomic!Next]_(Atomic!vars)
  BY RefinesNext
<1> QED BY <1>1, <1>2, <1>3, <1>4, PTL DEF Spec, ActsAtomically, Atomic!Spec
=============================================================================
