------------------------ MODULE ServiceBrokerProofs --------------------------
(***************************************************************************)
(* Proofs about ServiceBroker for every set of workers, requests, faults   *)
(* and configurations and for both stores: the type invariant, and that    *)
(* the broker leaves the databases and users of other applications alone.  *)
(***************************************************************************)
EXTENDS BrokerProperties, TLAPS

-----------------------------------------------------------------------------
(* What one remote call can change, whether it fails, answers or loses its *)
(* answer.                                                                 *)

MayFault == faults' = faults \/ (faults < MaxFaults /\ faults' = faults + 1)

(* A fault counts one, within the bound. *)
LEMMA FaultCounts == ASSUME NEW kind, Fault(kind) PROVE MayFault
  BY DEF Fault, MayFault

(* CreateDatabase answers nil only for a name that was free. *)
LEMMA CreateDatabaseEffect ==
  ASSUME NEW s, NEW d, NEW reply, CreateDatabase(s, d, reply)
  PROVE  /\ databases \subseteq databases' /\ databases' \subseteq databases \cup {<<s, d>>}
         /\ UNCHANGED <<users, grants>> /\ MayFault
         /\ reply = TRUE => <<s, d>> \notin databases
  BY DEF CreateDatabase, Replied, CallFails, Fault, MayFault

(* DeleteDatabase removes at most the database it names. *)
LEMMA DeleteDatabaseEffect ==
  ASSUME NEW s, NEW d, NEW reply, DeleteDatabase(s, d, reply)
  PROVE  /\ databases \ {<<s, d>>} \subseteq databases' /\ databases' \subseteq databases
         /\ UNCHANGED <<users, grants>> /\ MayFault
  BY DEF DeleteDatabase, Replied, CallFails, Fault, MayFault

(* UserExists changes nothing, and its nil error makes the answer right. *)
LEMMA UserExistsEffect ==
  ASSUME NEW s, NEW u, NEW reply, NEW exists, UserExists(s, u, reply, exists)
  PROVE  UNCHANGED stardogVars /\ MayFault
  BY DEF UserExists, CallFails, Fault, MayFault

(* NewUser answers nil only for a name that was free. *)
LEMMA NewUserEffect ==
  ASSUME NEW s, NEW u, NEW reply, NewUser(s, u, reply)
  PROVE  /\ users \subseteq users' /\ users' \subseteq users \cup {<<s, u>>}
         /\ UNCHANGED <<databases, grants>> /\ MayFault
         /\ reply = TRUE => <<s, u>> \notin users
  BY DEF NewUser, Replied, CallFails, Fault, MayFault

(* DeleteUser removes at most the user it names. *)
LEMMA DeleteUserEffect ==
  ASSUME NEW s, NEW u, NEW reply, DeleteUser(s, u, reply)
  PROVE  /\ users \ {<<s, u>>} \subseteq users' /\ users' \subseteq users
         /\ grants' \subseteq grants /\ UNCHANGED databases /\ MayFault
  BY DEF DeleteUser, Replied, CallFails, Fault, MayFault

(* Grant adds at most the permission it names. *)
LEMMA GrantEffect ==
  ASSUME NEW s, NEW u, NEW d, NEW a, NEW reply, Grant(s, u, d, a, reply)
  PROVE  /\ grants' \subseteq grants \cup {<<s, u, d, a>>}
         /\ UNCHANGED <<databases, users>> /\ MayFault
  BY DEF Grant, Replied, CallFails, Fault, MayFault

(* Revoke only removes permissions. *)
LEMMA RevokeEffect ==
  ASSUME NEW s, NEW u, NEW d, NEW a, NEW reply, Revoke(s, u, d, a, reply)
  PROVE  /\ grants' \subseteq grants /\ UNCHANGED <<databases, users>> /\ MayFault
  BY DEF Revoke, Replied, CallFails, Fault, MayFault

-----------------------------------------------------------------------------
(* The two stores. *)

(* AddInstance adds at most the row it is given. *)
LEMMA AddInstanceEffect ==
  ASSUME NEW g, NEW data, NEW reply, AddInstance(g, data, reply)
  PROVE  /\ instanceRows' \subseteq instanceRows \cup {[guid |-> g, data |-> data]}
         /\ UNCHANGED bindingRows /\ MayFault
  BY DEF AddInstance, Sql!AddInstance, Sd!AddInstance, Sql!Replied, Sd!Replied,
         Sql!CallFails, Sd!CallFails, Sql!Fault, Sd!Fault, MayFault

(* DeleteInstance only removes rows. *)
LEMMA DeleteInstanceEffect ==
  ASSUME NEW g, NEW reply, DeleteInstance(g, reply)
  PROVE  /\ instanceRows' \subseteq instanceRows /\ bindingRows' \subseteq bindingRows
         /\ MayFault
  BY DEF DeleteInstance, Sql!DeleteInstance, Sd!DeleteInstance, Sql!Replied, Sd!Replied,
         Sql!CallFails, Sd!CallFails, Sql!Fault, Sd!Fault, MayFault

(* AddBinding adds at most the row it is given. *)
LEMMA AddBindingEffect ==
  ASSUME NEW g, NEW b, NEW c, NEW reply, AddBinding(g, b, c, reply)
  PROVE  /\ bindingRows' \subseteq bindingRows \cup {[inst |-> g, guid |-> b, cred |-> c]}
         /\ UNCHANGED instanceRows /\ MayFault
  BY DEF AddBinding, Sql!AddBinding, Sd!AddBinding, Sql!Replied, Sd!Replied,
         Sql!CallFails, Sd!CallFails, Sql!Fault, Sd!Fault, MayFault

(* DeleteBinding only removes binding rows. *)
LEMMA DeleteBindingEffect ==
  ASSUME NEW g, NEW b, NEW reply, DeleteBinding(g, b, reply)
  PROVE  /\ bindingRows' \subseteq bindingRows
         /\ UNCHANGED instanceRows /\ MayFault
  BY DEF DeleteBinding, Sql!DeleteBinding, Sd!DeleteBinding, Sql!Replied, Sd!Replied,
         Sql!CallFails, Sd!CallFails, Sql!Fault, Sd!Fault, MayFault

(* A read leaves the store alone. *)
LEMMA ReadEffect ==
  ASSUME NEW answers, NEW answer, Read(answers, answer)
  PROVE  /\ answer \in answers \cup {None}
         /\ UNCHANGED <<instanceRows, bindingRows>> /\ MayFault
  BY DEF Read, Fault, MayFault, storeVars

(* GetInstance finds the data of a row of the GUID. *)
LEMMA GetInstanceAnswer ==
  ASSUME NEW g, NEW answer \in GetInstance(g), answer # None
  PROVE  \E r \in instanceRows : r.guid = g /\ answer = r.data
  BY DEF GetInstance, Sql!GetInstance, Sd!GetInstance

(* GetBinding finds the data of a row of the binding GUID. *)
LEMMA GetBindingAnswer ==
  ASSUME NEW g, NEW b, NEW answer \in GetBinding(g, b), answer # None
  PROVE  \E r \in bindingRows : r.guid = b /\ answer = r.cred
  BY DEF GetBinding, Sql!GetBinding, Sd!GetBinding, Sd!DataOf

(* GetAllBindings finds data of rows whose binding GUID is bound to g. *)
LEMMA GetAllBindingsAnswer ==
  ASSUME NEW g, NEW answer \in GetAllBindings(g), answer # None, NEW t \in answer
  PROVE  \E r \in bindingRows :
           /\ t = [guid |-> r.guid, cred |-> r.cred]
           /\ \E q \in bindingRows : q.guid = r.guid /\ q.inst = g
<1>1. CASE OnSql
  BY <1>1 DEF GetAllBindings, Sql!GetAllBindings
<1>2. CASE ~OnSql
  <2>1. PICK pick \in [Sd!BoundTo(g) -> {r.cred : r \in bindingRows}] :
          /\ \A b \in Sd!BoundTo(g) : pick[b] \in Sd!DataOf(b)
          /\ answer = {[guid |-> b, cred |-> pick[b]] : b \in Sd!BoundTo(g)}
    BY <1>2 DEF GetAllBindings, Sd!GetAllBindings
  <2>2. PICK b \in Sd!BoundTo(g) : t = [guid |-> b, cred |-> pick[b]]
    BY <2>1
  <2>3. PICK r \in bindingRows : r.guid = b /\ r.cred = pick[b]
    BY <2>1, <2>2 DEF Sd!DataOf
  <2>4. PICK q \in bindingRows : q.inst = g /\ q.guid = b
    BY <2>2 DEF Sd!BoundTo
  <2> QED BY <2>2, <2>3, <2>4
<1> QED BY <1>1, <1>2

(* getServiceInstance finds the data of a row of the requested instance. *)
LEMMA LookupEffect ==
  ASSUME NEW w, NEW found, getServiceInstance(w, found)
  PROVE  /\ UNCHANGED <<instanceRows, bindingRows>> /\ MayFault
         /\ found # None => \E r \in instanceRows : r.guid = req[w].inst /\ found = r.data
<1>1. PICK answer \in GetInstance(req[w].inst) \cup {None} :
        /\ Read(GetInstance(req[w].inst), answer)
        /\ found = IF Known(answer) THEN answer ELSE None
  BY DEF getServiceInstance
<1>2. UNCHANGED <<instanceRows, bindingRows>> /\ MayFault
  BY <1>1, ReadEffect
<1>3. ASSUME found # None
      PROVE  \E r \in instanceRows : r.guid = req[w].inst /\ found = r.data
  BY <1>1, <1>3, GetInstanceAnswer
<1> QED BY <1>2, <1>3

-----------------------------------------------------------------------------
(* Types *)

(* ServerOf is a server for every recorded instance. *)
LEMMA ServerOfType == ASSUME NEW d \in InstanceRecords PROVE ServerOf(d) \in Servers
  BY BrokerAssumption, NoneAssumption DEF InstanceRecords, Inflates, InstanceData, ServerOf

(* The type invariant holds initially. *)
LEMMA TypeInit == Init => TypeInv
<1>1. ASSUME Init PROVE TypeOK
  <2>1. StardogOK /\ StoreOK
    BY <1>1, BrokerAssumption DEF Init, StardogOK, StoreOK
  <2>2. faults \in 0 .. MaxFaults
    BY <1>1, FaultAssumption DEF Init
  <2>3. NoResponse \in Responses /\ "idle" \in Labels /\ {} \in Todos
    BY DEF NoResponse, Responses, Labels, Todos
  <2> QED BY <1>1, <2>1, <2>2, <2>3 DEF Init, TypeOK
<1>2. ASSUME Init, NEW w \in Workers PROVE HandlerOK(w)
  BY <1>2 DEF Init, HandlerOK, Labels, Ops, InstLabels, CredLabels, NewUserLabels,
              BoundLabels, UnbindLabels
<1> QED BY <1>1, <1>2 DEF TypeInv

(* Every request of Requests is a request, with what its operation needs. *)
LEMMA RequestType ==
  ASSUME NEW r \in Requests
  PROVE  /\ r # None /\ r.op \in Ops /\ r.inst \in Instances
         /\ r.bind \in Bindings \cup {None} /\ r.plan \in PlanIDs \cup {None}
         /\ r.meta \in Metas \cup {None} /\ r.db \in DbNames \cup {None}
         /\ r.url \in Servers \cup {None}
         /\ r.user \in UserNames \cup {None} /\ r.pw \in Passwords \cup {None}
         /\ WellFormed(r)
  BY BrokerAssumption, NoneAssumption DEF Request

-----------------------------------------------------------------------------
(* The shared variables after a step. *)

(* CreateDatabase keeps the types of the Stardog servers. *)
LEMMA CreateDatabaseType ==
  ASSUME StardogOK, NEW s \in Servers, NEW d \in DbNames, NEW reply,
         CreateDatabase(s, d, reply)
  PROVE  StardogOK' /\ MayFault
<1>1. databases' \subseteq databases \cup {<<s, d>>} /\ UNCHANGED <<users, grants>> /\ MayFault
  BY CreateDatabaseEffect
<1>2. <<s, d>> \in Servers \X DbNames
  OBVIOUS
<1> QED BY <1>1, <1>2 DEF StardogOK

(* DeleteDatabase keeps them. *)
LEMMA DeleteDatabaseType ==
  ASSUME StardogOK, NEW s, NEW d, NEW reply, DeleteDatabase(s, d, reply)
  PROVE  StardogOK' /\ MayFault
  BY DeleteDatabaseEffect DEF StardogOK

(* NewUser keeps them. *)
LEMMA NewUserType ==
  ASSUME StardogOK, NEW s \in Servers, NEW u \in UserNames, NEW reply,
         NewUser(s, u, reply)
  PROVE  StardogOK' /\ MayFault
<1>1. users' \subseteq users \cup {<<s, u>>} /\ UNCHANGED <<databases, grants>> /\ MayFault
  BY NewUserEffect
<1>2. <<s, u>> \in Servers \X UserNames
  OBVIOUS
<1> QED BY <1>1, <1>2 DEF StardogOK

(* DeleteUser keeps them. *)
LEMMA DeleteUserType ==
  ASSUME StardogOK, NEW s, NEW u, NEW reply, DeleteUser(s, u, reply)
  PROVE  StardogOK' /\ MayFault
  BY DeleteUserEffect DEF StardogOK

(* Grant keeps them. *)
LEMMA GrantType ==
  ASSUME StardogOK, NEW s \in Servers, NEW u \in UserNames, NEW d \in DbNames,
         NEW a \in Actions, NEW reply, Grant(s, u, d, a, reply)
  PROVE  StardogOK' /\ MayFault
  BY GrantEffect DEF StardogOK

(* Revoke keeps them. *)
LEMMA RevokeType ==
  ASSUME StardogOK, NEW s, NEW u, NEW d, NEW a, NEW reply, Revoke(s, u, d, a, reply)
  PROVE  StardogOK' /\ MayFault
  BY RevokeEffect DEF StardogOK

(* UserExists keeps them. *)
LEMMA UserExistsType ==
  ASSUME StardogOK, NEW s, NEW u, NEW reply, NEW exists,
         UserExists(s, u, reply, exists)
  PROVE  StardogOK' /\ MayFault
  BY UserExistsEffect DEF StardogOK, stardogVars

(* AddInstance keeps the types of the store. *)
LEMMA AddInstanceType ==
  ASSUME StoreOK, NEW g \in Instances, NEW data \in InstanceRecords, NEW reply,
         AddInstance(g, data, reply)
  PROVE  StoreOK' /\ MayFault
  BY AddInstanceEffect DEF StoreOK

(* DeleteInstance keeps them. *)
LEMMA DeleteInstanceType ==
  ASSUME StoreOK, NEW g, NEW reply, DeleteInstance(g, reply)
  PROVE  StoreOK' /\ MayFault
  BY DeleteInstanceEffect DEF StoreOK

(* AddBinding keeps them. *)
LEMMA AddBindingType ==
  ASSUME StoreOK, NEW g \in Instances, NEW b \in Bindings, NEW c \in Credentials,
         NEW reply, AddBinding(g, b, c, reply)
  PROVE  StoreOK' /\ MayFault
  BY AddBindingEffect DEF StoreOK

(* DeleteBinding keeps them. *)
LEMMA DeleteBindingType ==
  ASSUME StoreOK, NEW g, NEW b, NEW reply, DeleteBinding(g, b, reply)
  PROVE  StoreOK' /\ MayFault
  BY DeleteBindingEffect DEF StoreOK

(* A read keeps them. *)
LEMMA ReadType ==
  ASSUME StoreOK, NEW answers, NEW answer, Read(answers, answer)
  PROVE  StoreOK' /\ MayFault /\ answer \in answers \cup {None}
  BY ReadEffect DEF StoreOK

(* getServiceInstance finds a recorded instance or nothing. *)
LEMMA LookupType ==
  ASSUME StoreOK, NEW w, NEW found, getServiceInstance(w, found)
  PROVE  StoreOK' /\ MayFault /\ found \in InstanceRecords \cup {None}
  BY LookupEffect DEF StoreOK

(* What every shared variable holds. *)
SharedOK == StardogOK /\ StoreOK /\ faults \in 0 .. MaxFaults /\ planMap \in Configs

(* A step keeps them when it leaves the plans alone and counts its fault. *)
LEMMA SharedStep ==
  ASSUME TypeInv, MayFault, UNCHANGED planMap,
         StardogOK' \/ UNCHANGED stardogVars, StoreOK' \/ UNCHANGED storeVars
  PROVE  SharedOK'
<1>1. SharedOK
  BY DEF TypeInv, TypeOK, SharedOK
<1>2. faults' \in 0 .. MaxFaults
  BY <1>1, FaultAssumption DEF SharedOK, MayFault
<1>3. StardogOK'
  BY <1>1 DEF SharedOK, StardogOK, stardogVars
<1>4. StoreOK'
  BY <1>1 DEF SharedOK, StoreOK, storeVars
<1> QED BY <1>1, <1>2, <1>3, <1>4 DEF SharedOK

-----------------------------------------------------------------------------
(* The locals after a step. *)

(* The locals of worker w have their types. *)
WorkerOK(w) ==
  /\ pc[w] \in Labels
  /\ req[w] \in Requests \cup {None}
  /\ inst[w] \in InstanceRecords \cup {None}
  /\ cred[w] \in Credentials \cup {None}
  /\ todo[w] \in Todos
  /\ resp[w] \in Responses
  /\ HandlerOK(w)

(* Only w moves. *)
Moves(w) ==
  /\ pc' = [pc EXCEPT ![w] = pc'[w]]
  /\ req' = [req EXCEPT ![w] = req'[w]]
  /\ inst' = [inst EXCEPT ![w] = inst'[w]]
  /\ cred' = [cred EXCEPT ![w] = cred'[w]]
  /\ todo' = [todo EXCEPT ![w] = todo'[w]]
  /\ resp' = [resp EXCEPT ![w] = resp'[w]]

(* The variables a handler assigns change for w only, to values of their types. *)
Assigns(w) ==
  /\ inst' = [inst EXCEPT ![w] = inst'[w]] /\ inst'[w] \in InstanceRecords \cup {None}
  /\ cred' = [cred EXCEPT ![w] = cred'[w]] /\ cred'[w] \in Credentials \cup {None}
  /\ todo' = [todo EXCEPT ![w] = todo'[w]] /\ todo'[w] \in Todos

(* When w moves, the locals of the others stay as they are. *)
LEMMA OthersStay ==
  ASSUME TypeInv, NEW w \in Workers, Moves(w), NEW v \in Workers, v # w
  PROVE  /\ pc'[v] = pc[v] /\ req'[v] = req[v] /\ inst'[v] = inst[v]
         /\ cred'[v] = cred[v] /\ todo'[v] = todo[v]
  BY DEF TypeInv, TypeOK, Moves

(* A step of w keeps the types when it keeps those of w and of what is shared. *)
LEMMA StepType ==
  ASSUME TypeInv, NEW w \in Workers, Moves(w), SharedOK', WorkerOK(w)'
  PROVE  TypeInv'
<1>1. TypeOK'
  <2>1. pc' \in [Workers -> Labels]
    BY DEF TypeInv, TypeOK, Moves, WorkerOK
  <2>2. req' \in [Workers -> Requests \cup {None}]
    BY DEF TypeInv, TypeOK, Moves, WorkerOK
  <2>3. inst' \in [Workers -> InstanceRecords \cup {None}]
    BY DEF TypeInv, TypeOK, Moves, WorkerOK
  <2>4. cred' \in [Workers -> Credentials \cup {None}]
    BY DEF TypeInv, TypeOK, Moves, WorkerOK
  <2>5. todo' \in [Workers -> Todos]
    BY DEF TypeInv, TypeOK, Moves, WorkerOK
  <2>6. resp' \in [Workers -> Responses]
    BY DEF TypeInv, TypeOK, Moves, WorkerOK
  <2> QED BY <2>1, <2>2, <2>3, <2>4, <2>5, <2>6 DEF TypeOK, SharedOK
<1>2. ASSUME NEW v \in Workers, v # w PROVE HandlerOK(v)'
  BY <1>2, OthersStay DEF TypeInv, HandlerOK
<1> QED BY <1>1, <1>2 DEF TypeInv, WorkerOK

(* What a step need not assign. *)
LEMMA Keeps ==
  ASSUME TypeInv, NEW w \in Workers
  PROVE  /\ UNCHANGED inst => /\ inst' = [inst EXCEPT ![w] = inst'[w]] /\ inst'[w] = inst[w]
                              /\ inst'[w] \in InstanceRecords \cup {None}
         /\ UNCHANGED cred => /\ cred' = [cred EXCEPT ![w] = cred'[w]] /\ cred'[w] = cred[w]
                              /\ cred'[w] \in Credentials \cup {None}
         /\ UNCHANGED todo => /\ todo' = [todo EXCEPT ![w] = todo'[w]] /\ todo'[w] = todo[w]
                              /\ todo'[w] \in Todos
  BY DEF TypeInv, TypeOK

(* A step that goes on to label moves w alone. *)
LEMMA GotoMoves ==
  ASSUME TypeInv, NEW w \in Workers, NEW label, Goto(w, label), UNCHANGED req, Assigns(w)
  PROVE  Moves(w) /\ pc'[w] = label /\ req'[w] = req[w] /\ resp'[w] = resp[w]
<1>1. pc'[w] = label /\ resp' = resp /\ pc' = [pc EXCEPT ![w] = pc'[w]]
  BY DEF Goto, TypeInv, TypeOK
<1>2. /\ req' = [req EXCEPT ![w] = req'[w]] /\ req'[w] = req[w]
      /\ resp' = [resp EXCEPT ![w] = resp'[w]] /\ resp'[w] = resp[w]
  BY <1>1 DEF TypeInv, TypeOK
<1> QED BY <1>1, <1>2 DEF Moves, Assigns

(* It keeps the types when label is one of the handler's and what is used there is set. *)
LEMMA GotoType ==
  ASSUME TypeInv, NEW w \in Workers, NEW label \in Labels \ {"idle", "done"},
         Goto(w, label), UNCHANGED req, Assigns(w), SharedOK',
         req[w] # None, <<req[w].op, label>> \in Positions,
         label \in InstLabels => inst'[w] # None,
         label \in CredLabels => cred'[w] # None
  PROVE  TypeInv'
<1>1. Moves(w) /\ pc'[w] = label /\ req'[w] = req[w] /\ resp'[w] = resp[w]
  BY GotoMoves
<1>2. HandlerOK(w)'
  BY <1>1 DEF HandlerOK
<1>3. WorkerOK(w)'
  BY <1>1, <1>2 DEF WorkerOK, Assigns, TypeInv, TypeOK
<1> QED BY <1>1, <1>3, StepType

(* A step that answers moves w alone. *)
LEMMA AnswerMoves ==
  ASSUME TypeInv, NEW w \in Workers, NEW code,
         WriteResponse(w, code) \/ SendError(w, code), UNCHANGED req, Assigns(w)
  PROVE  /\ Moves(w) /\ pc'[w] = "done" /\ req'[w] = req[w]
         /\ resp'[w] \in [code : {code}, ok : BOOLEAN]
<1>1. PICK ok \in BOOLEAN :
        /\ pc' = [pc EXCEPT ![w] = "done"]
        /\ resp' = [resp EXCEPT ![w] = [code |-> code, ok |-> ok]]
  BY DEF WriteResponse, SendError, Respond
<1>2. pc'[w] = "done" /\ pc' = [pc EXCEPT ![w] = pc'[w]]
  BY <1>1 DEF TypeInv, TypeOK
<1>3. req' = [req EXCEPT ![w] = req'[w]] /\ req'[w] = req[w]
  BY DEF TypeInv, TypeOK
<1>4. /\ resp' = [resp EXCEPT ![w] = resp'[w]]
      /\ resp'[w] \in [code : {code}, ok : BOOLEAN]
  BY <1>1 DEF TypeInv, TypeOK
<1> QED BY <1>2, <1>3, <1>4 DEF Moves, Assigns

(* It keeps the types. *)
LEMMA AnswerType ==
  ASSUME TypeInv, NEW w \in Workers, NEW code \in {200, 201, 400, 404, 409, 410, 500},
         WriteResponse(w, code) \/ SendError(w, code),
         UNCHANGED req, Assigns(w), SharedOK', req[w] # None
  PROVE  TypeInv'
<1>1. /\ Moves(w) /\ pc'[w] = "done" /\ req'[w] = req[w]
      /\ resp'[w] \in [code : {code}, ok : BOOLEAN]
  BY AnswerMoves
<1>2. HandlerOK(w)'
  BY <1>1 DEF HandlerOK, InstLabels, CredLabels, NewUserLabels, BoundLabels, UnbindLabels
<1>3. WorkerOK(w)'
  BY <1>1, <1>2 DEF WorkerOK, Assigns, Labels, Responses, TypeInv, TypeOK
<1> QED BY <1>1, <1>3, StepType

(* A step that assigns nothing. *)
LEMMA AssignsNothing ==
  ASSUME TypeInv, NEW w \in Workers, UNCHANGED <<inst, cred, todo>>
  PROVE  Assigns(w) /\ inst'[w] = inst[w] /\ cred'[w] = cred[w] /\ todo'[w] = todo[w]
  BY Keeps DEF Assigns

(* A step that assigns serviceInstance. *)
LEMMA AssignsInst ==
  ASSUME TypeInv, NEW w \in Workers, NEW found \in InstanceRecords \cup {None},
         inst' = [inst EXCEPT ![w] = found], UNCHANGED <<cred, todo>>
  PROVE  Assigns(w) /\ inst'[w] = found /\ cred'[w] = cred[w] /\ todo'[w] = todo[w]
<1>1. inst' = [inst EXCEPT ![w] = inst'[w]] /\ inst'[w] = found
  BY DEF TypeInv, TypeOK
<1> QED BY <1>1, Keeps DEF Assigns

(* A step that assigns serviceBinding. *)
LEMMA AssignsCred ==
  ASSUME TypeInv, NEW w \in Workers, NEW found \in Credentials \cup {None},
         cred' = [cred EXCEPT ![w] = found], UNCHANGED <<inst, todo>>
  PROVE  Assigns(w) /\ inst'[w] = inst[w] /\ cred'[w] = found /\ todo'[w] = todo[w]
<1>1. cred' = [cred EXCEPT ![w] = cred'[w]] /\ cred'[w] = found
  BY DEF TypeInv, TypeOK
<1> QED BY <1>1, Keeps DEF Assigns

-----------------------------------------------------------------------------
(* Where a handler is, and what it has. *)

(* A worker that is not idle serves a request. *)
LEMMA Serving ==
  ASSUME TypeInv, NEW w \in Workers, pc[w] # "idle"
  PROVE  req[w] \in Requests /\ req[w] # None /\ req[w].inst \in Instances
<1>1. req[w] \in Requests /\ req[w] # None
  BY DEF TypeInv, TypeOK, HandlerOK
<1> QED BY <1>1, RequestType

(* The label tells the operation. *)
LEMMA OpAt ==
  ASSUME TypeInv, NEW w \in Workers, pc[w] \notin {"idle", "done"}
  PROVE  /\ pc[w] \in {"create", "createDb", "addInstance"} => req[w].op = "create"
         /\ pc[w] = "get" => req[w].op = "get"
         /\ pc[w] \in {"remove", "listBindings", "nextBinding", "deleteDb", "deleteInstance"}
              => req[w].op = "remove"
         /\ pc[w] \in {"bind", "getBinding"} \cup NewUserLabels \cup BoundLabels
              => req[w].op = "bind"
         /\ pc[w] \in {"unbind", "unbindGet", "deleteBinding"} => req[w].op = "unbind"
         /\ pc[w] \in UnbindLabels => req[w].op \in {"remove", "unbind"}
<1>1. <<req[w].op, pc[w]>> \in Positions
  BY DEF TypeInv, HandlerOK
<1> QED BY <1>1 DEF Positions, UnbindLabels, NewUserLabels, BoundLabels

(* Where serviceInstance is set. *)
LEMMA InstSet ==
  ASSUME TypeInv, NEW w \in Workers, pc[w] \in InstLabels
  PROVE  /\ inst[w] \in InstanceRecords /\ inst[w] # None
         /\ ServerOf(inst[w]) \in Servers /\ inst[w].db \in DbNames
<1>1. inst[w] \in InstanceRecords /\ inst[w] # None
  BY DEF TypeInv, TypeOK, HandlerOK
<1> QED BY <1>1, ServerOfType DEF InstanceRecords, InstanceData

(* Where serviceBinding is set. *)
LEMMA CredSet ==
  ASSUME TypeInv, NEW w \in Workers, pc[w] \in CredLabels
  PROVE  /\ cred[w] \in Credentials /\ cred[w] # None
         /\ cred[w].url \in Servers /\ cred[w].db \in DbNames /\ cred[w].user \in UserNames
<1>1. cred[w] \in Credentials /\ cred[w] # None
  BY DEF TypeInv, TypeOK, HandlerOK
<1> QED BY <1>1 DEF Credentials

(* The labels by name. *)
LEMMA LabelFacts ==
  /\ InstLabels = {"createDb", "addInstance", "listBindings", "nextBinding", "deleteDb",
                   "deleteInstance", "getBinding", "userExists", "newUser", "grantWrite",
                   "grantRead", "checkInstance", "addBinding", "unbindGet", "deleteBinding",
                   "revokeWrite", "revokeRead", "deleteUser"}
  /\ CredLabels = {"userExists", "newUser", "grantWrite", "grantRead", "checkInstance",
                   "addBinding", "revokeWrite", "revokeRead", "deleteUser", "deleteBinding"}
  BY DEF InstLabels, CredLabels, Labels, Ops, NewUserLabels, BoundLabels, UnbindLabels

-----------------------------------------------------------------------------
(* CreateServiceInstance keeps the types. *)

(* CreateUnknownPlan keeps them. *)
LEMMA CreateUnknownPlanType ==
  ASSUME TypeInv, NEW w \in Workers, CreateUnknownPlan(w)  PROVE TypeInv'
<1>1. /\ UNCHANGED <<stardogVars, storeVars, faults, planMap, req, inst, cred, todo>>
      /\ SendError(w, 400) /\ pc[w] # "idle"
  BY DEF CreateUnknownPlan, locals
<1>2. Assigns(w) /\ req[w] # None
  BY <1>1, AssignsNothing, Serving
<1>3. SharedOK'
  BY <1>1, SharedStep DEF MayFault
<1> QED BY <1>1, <1>2, <1>3, AnswerType

(* CreateExisting keeps them. *)
LEMMA CreateExistingType ==
  ASSUME TypeInv, NEW w \in Workers, CreateExisting(w)  PROVE TypeInv'
<1>1. PICK found \in InstanceData :
        /\ getServiceInstance(w, found)
        /\ inst' = [inst EXCEPT ![w] = found]
        /\ WriteResponse(w, 200) \/ SendError(w, 409)
  BY DEF CreateExisting
<1>2. UNCHANGED <<stardogVars, planMap, req, cred, todo>> /\ pc[w] # "idle"
  BY DEF CreateExisting
<1>3. StoreOK' /\ MayFault /\ found \in InstanceRecords \cup {None}
  BY <1>1, LookupType DEF TypeInv, TypeOK
<1>4. Assigns(w) /\ req[w] # None /\ SharedOK'
  BY <1>1, <1>2, <1>3, AssignsInst, Serving, SharedStep
<1> QED BY <1>1, <1>2, <1>4, AnswerType

(* CreateNew keeps them: what it inflates is an instance record. *)
LEMMA CreateNewType ==
  ASSUME TypeInv, NEW w \in Workers, CreateNew(w)  PROVE TypeInv'
<1>1. UNCHANGED <<stardogVars, planMap, req, cred, todo>> /\ pc[w] = "create"
  BY DEF CreateNew
<1>2. StoreOK' /\ MayFault
  BY LookupType DEF CreateNew, TypeInv, TypeOK
<1>3. req[w] \in Requests /\ req[w] # None /\ req[w].op = "create" /\ SharedOK'
  BY <1>1, <1>2, Serving, OpAt, SharedStep
<1>4. CASE Inflates(req[w])
  <2>1. PICK d \in Chosen(req[w].db, DbNames) :
          inst' = [inst EXCEPT ![w] =
                [plan |-> req[w].plan, meta |-> req[w].meta, db |-> d, url |-> req[w].url]]
    BY <1>4 DEF CreateNew
  <2> DEFINE new == [plan |-> req[w].plan, meta |-> req[w].meta, db |-> d, url |-> req[w].url]
  <2>2. new \in InstanceRecords
    BY <1>3, <1>4, RequestType DEF InstanceRecords, InstanceData, Inflates, WellFormed, Chosen
  <2>3. new # None
    BY <2>2, NoneAssumption DEF InstanceRecords
  <2>4. Assigns(w) /\ inst'[w] # None
    BY <1>1, <2>1, <2>2, <2>3, AssignsInst
  <2>5. Goto(w, "createDb")
    BY <1>4 DEF CreateNew
  <2>6. <<"create", "createDb">> \in Positions
    BY DEF Positions
  <2>7. "createDb" \in Labels \ {"idle", "done"} /\ "createDb" \notin CredLabels
    BY LabelFacts DEF Labels
  <2> QED BY <1>1, <1>3, <2>4, <2>5, <2>6, <2>7, GotoType
<1>5. CASE ~Inflates(req[w])
  <2>1. SendError(w, 500) /\ UNCHANGED inst
    BY <1>5 DEF CreateNew
  <2>2. Assigns(w)
    BY <1>1, <2>1, AssignsNothing
  <2> QED BY <1>1, <1>3, <2>1, <2>2, AnswerType
<1> QED BY <1>4, <1>5

(* CreateDb keeps them. *)
LEMMA CreateDbType ==
  ASSUME TypeInv, NEW w \in Workers, CreateDb(w)  PROVE TypeInv'
<1>1. PICK reply \in BOOLEAN :
        /\ CreateDatabase(ServerOf(inst[w]), inst[w].db, reply)
        /\ Goto(w, "addInstance") \/ SendError(w, 500)
  BY DEF CreateDb
<1>2. UNCHANGED <<storeVars, planMap, req, inst, cred, todo>> /\ pc[w] = "createDb"
  BY DEF CreateDb, locals
<1>3. /\ req[w] # None /\ req[w].op = "create" /\ inst[w] # None
      /\ ServerOf(inst[w]) \in Servers /\ inst[w].db \in DbNames
  BY <1>2, Serving, OpAt, InstSet, LabelFacts
<1>4. StardogOK' /\ MayFault
  BY <1>1, <1>3, CreateDatabaseType DEF TypeInv, TypeOK
<1>5. Assigns(w) /\ inst'[w] = inst[w] /\ SharedOK'
  BY <1>2, <1>4, AssignsNothing, SharedStep
<1>6. CASE Goto(w, "addInstance")
  <2>1. <<"create", "addInstance">> \in Positions
    BY DEF Positions
  <2>2. "addInstance" \in Labels \ {"idle", "done"} /\ "addInstance" \notin CredLabels
    BY LabelFacts DEF Labels
  <2> QED BY <1>2, <1>3, <1>5, <1>6, <2>1, <2>2, GotoType
<1>7. CASE SendError(w, 500)
  BY <1>2, <1>3, <1>5, <1>7, AnswerType
<1> QED BY <1>1, <1>6, <1>7

(* StoreInstance keeps them. *)
LEMMA StoreInstanceType ==
  ASSUME TypeInv, NEW w \in Workers, StoreInstance(w)  PROVE TypeInv'
<1>1. PICK reply \in BOOLEAN :
        /\ AddInstance(req[w].inst, inst[w], reply)
        /\ WriteResponse(w, 201) \/ SendError(w, 500)
  BY DEF StoreInstance
<1>2. UNCHANGED <<stardogVars, planMap, req, inst, cred, todo>> /\ pc[w] = "addInstance"
  BY DEF StoreInstance, locals
<1>3. req[w] # None /\ req[w].inst \in Instances /\ inst[w] \in InstanceRecords
  BY <1>2, Serving, InstSet, LabelFacts
<1>4. StoreOK' /\ MayFault
  BY <1>1, <1>3, AddInstanceType DEF TypeInv, TypeOK
<1>5. Assigns(w) /\ SharedOK'
  BY <1>2, <1>4, AssignsNothing, SharedStep
<1> QED BY <1>1, <1>2, <1>3, <1>5, AnswerType

-----------------------------------------------------------------------------
(* The handlers that start by looking up the instance keep the types. *)

(* The part they share. *)
LEMMA LookupStep ==
  ASSUME TypeInv, NEW w \in Workers, pc[w] # "idle",
         NEW found, getServiceInstance(w, found), inst' = [inst EXCEPT ![w] = found],
         UNCHANGED <<stardogVars, planMap, req, cred, todo>>
  PROVE  SharedOK' /\ Assigns(w) /\ inst'[w] = found /\ req[w] # None
<1>1. StoreOK' /\ MayFault /\ found \in InstanceRecords \cup {None}
  BY LookupType DEF TypeInv, TypeOK
<1> QED BY <1>1, AssignsInst, Serving, SharedStep

(* Get keeps them. *)
LEMMA GetType ==
  ASSUME TypeInv, NEW w \in Workers, Get(w)  PROVE TypeInv'
<1>1. PICK found : /\ getServiceInstance(w, found)
                   /\ inst' = [inst EXCEPT ![w] = found]
                   /\ WriteResponse(w, 200) \/ SendError(w, 404)
  BY DEF Get
<1>2. UNCHANGED <<stardogVars, planMap, req, cred, todo>> /\ pc[w] # "idle"
  BY DEF Get
<1>3. SharedOK' /\ Assigns(w) /\ req[w] # None
  BY <1>1, <1>2, LookupStep
<1> QED BY <1>1, <1>2, <1>3, AnswerType

(* Remove keeps them. *)
LEMMA RemoveType ==
  ASSUME TypeInv, NEW w \in Workers, Remove(w)  PROVE TypeInv'
<1>1. PICK found : /\ getServiceInstance(w, found)
                   /\ inst' = [inst EXCEPT ![w] = found]
                   /\ (found # None /\ Goto(w, "listBindings")) \/ SendError(w, 410)
  BY DEF Remove
<1>2. UNCHANGED <<stardogVars, planMap, req, cred, todo>> /\ pc[w] = "remove"
  BY DEF Remove
<1>3. SharedOK' /\ Assigns(w) /\ inst'[w] = found /\ req[w] # None /\ req[w].op = "remove"
  BY <1>1, <1>2, LookupStep, OpAt
<1>4. CASE found # None /\ Goto(w, "listBindings")
  <2>1. <<"remove", "listBindings">> \in Positions
    BY DEF Positions
  <2>2. "listBindings" \in Labels \ {"idle", "done"} /\ "listBindings" \notin CredLabels
    BY LabelFacts DEF Labels
  <2> QED BY <1>2, <1>3, <1>4, <2>1, <2>2, GotoType
<1>5. CASE SendError(w, 410)
  BY <1>2, <1>3, <1>5, AnswerType
<1> QED BY <1>1, <1>4, <1>5

(* Bind keeps them. *)
LEMMA BindType ==
  ASSUME TypeInv, NEW w \in Workers, Bind(w)  PROVE TypeInv'
<1>1. PICK found : /\ getServiceInstance(w, found)
                   /\ inst' = [inst EXCEPT ![w] = found]
                   /\ (found # None /\ Goto(w, "getBinding")) \/ SendError(w, 500)
  BY DEF Bind
<1>2. UNCHANGED <<stardogVars, planMap, req, cred, todo>> /\ pc[w] = "bind"
  BY DEF Bind
<1>3. SharedOK' /\ Assigns(w) /\ inst'[w] = found /\ req[w] # None /\ req[w].op = "bind"
  BY <1>1, <1>2, LookupStep, OpAt
<1>4. CASE found # None /\ Goto(w, "getBinding")
  <2>1. <<"bind", "getBinding">> \in Positions
    BY DEF Positions
  <2>2. "getBinding" \in Labels \ {"idle", "done"} /\ "getBinding" \notin CredLabels
    BY LabelFacts DEF Labels
  <2> QED BY <1>2, <1>3, <1>4, <2>1, <2>2, GotoType
<1>5. CASE SendError(w, 500)
  BY <1>2, <1>3, <1>5, AnswerType
<1> QED BY <1>1, <1>4, <1>5

(* Unbind keeps them. *)
LEMMA UnbindType ==
  ASSUME TypeInv, NEW w \in Workers, Unbind(w)  PROVE TypeInv'
<1>1. PICK found : /\ getServiceInstance(w, found)
                   /\ inst' = [inst EXCEPT ![w] = found]
                   /\ (found # None /\ Goto(w, "unbindGet")) \/ SendError(w, 410)
  BY DEF Unbind
<1>2. UNCHANGED <<stardogVars, planMap, req, cred, todo>> /\ pc[w] = "unbind"
  BY DEF Unbind
<1>3. SharedOK' /\ Assigns(w) /\ inst'[w] = found /\ req[w] # None /\ req[w].op = "unbind"
  BY <1>1, <1>2, LookupStep, OpAt
<1>4. CASE found # None /\ Goto(w, "unbindGet")
  <2>1. <<"unbind", "unbindGet">> \in Positions
    BY DEF Positions
  <2>2. "unbindGet" \in Labels \ {"idle", "done"} /\ "unbindGet" \notin CredLabels
    BY LabelFacts DEF Labels
  <2> QED BY <1>2, <1>3, <1>4, <2>1, <2>2, GotoType
<1>5. CASE SendError(w, 410)
  BY <1>2, <1>3, <1>5, AnswerType
<1> QED BY <1>1, <1>4, <1>5

-----------------------------------------------------------------------------
(* The loop of RemoveServiceInstance keeps the types. *)

(* ListBindings keeps them. *)
LEMMA ListBindingsType ==
  ASSUME TypeInv, NEW w \in Workers, ListBindings(w)  PROVE TypeInv'
<1>1. PICK answer \in GetAllBindings(req[w].inst) \cup {None} :
        /\ Read(GetAllBindings(req[w].inst), answer)
        /\ \/ /\ answer # None
              /\ todo' = [todo EXCEPT ![w] = answer] /\ Goto(w, "nextBinding")
           \/ SendError(w, 500) /\ UNCHANGED todo
  BY DEF ListBindings
<1>2. UNCHANGED <<stardogVars, planMap, req, inst, cred>> /\ pc[w] = "listBindings"
  BY DEF ListBindings
<1>3. /\ req[w] # None /\ req[w].op = "remove" /\ inst[w] # None
      /\ StoreOK' /\ MayFault
  BY <1>1, <1>2, Serving, OpAt, InstSet, LabelFacts, ReadType DEF TypeInv, TypeOK
<1>4. SharedOK'
  BY <1>2, <1>3, SharedStep
<1>5. CASE answer # None /\ todo' = [todo EXCEPT ![w] = answer] /\ Goto(w, "nextBinding")
  <2>1. answer \in Todos
    <3>1. ASSUME NEW t \in answer PROVE t \in [guid : Bindings, cred : Credentials]
      BY <1>1, <1>5, <3>1, GetAllBindingsAnswer DEF TypeInv, TypeOK, StoreOK
    <3> QED BY <3>1 DEF Todos
  <2>2. todo' = [todo EXCEPT ![w] = todo'[w]] /\ todo'[w] = answer
    BY <1>5 DEF TypeInv, TypeOK
  <2>3. Assigns(w) /\ inst'[w] = inst[w]
    BY <1>2, <2>1, <2>2, Keeps DEF Assigns
  <2>4. <<"remove", "nextBinding">> \in Positions
    BY DEF Positions
  <2>5. "nextBinding" \in Labels \ {"idle", "done"} /\ "nextBinding" \notin CredLabels
    BY LabelFacts DEF Labels
  <2> QED BY <1>2, <1>3, <1>4, <1>5, <2>3, <2>4, <2>5, GotoType
<1>6. CASE SendError(w, 500) /\ UNCHANGED todo
  <2>1. Assigns(w)
    BY <1>2, <1>6, AssignsNothing
  <2> QED BY <1>2, <1>3, <1>4, <1>6, <2>1, AnswerType
<1> QED BY <1>1, <1>5, <1>6

(* ListSomeBindings keeps them. *)
LEMMA ListSomeBindingsType ==
  ASSUME TypeInv, NEW w \in Workers, ListSomeBindings(w)  PROVE TypeInv'
<1>0. PICK answer \in GetAllBindings(req[w].inst) \ {None} :
        \E part \in SUBSET answer : todo' = [todo EXCEPT ![w] = part]
  BY DEF ListSomeBindings
<1>1. PICK part \in SUBSET answer : todo' = [todo EXCEPT ![w] = part]
  BY <1>0
<1>2. /\ UNCHANGED <<stardogVars, storeVars, planMap, req, inst, cred>>
      /\ pc[w] = "listBindings" /\ Goto(w, "nextBinding") /\ Fault("storePartial")
  BY DEF ListSomeBindings
<1>3. /\ req[w] # None /\ req[w].op = "remove" /\ inst[w] # None
      /\ StoreOK' /\ MayFault
  BY <1>2, Serving, OpAt, InstSet, LabelFacts, FaultCounts
     DEF TypeInv, TypeOK, StoreOK, storeVars, MayFault
<1>4. SharedOK'
  BY <1>2, <1>3, SharedStep
<1>5. part \in Todos
  <2>1. ASSUME NEW t \in part PROVE t \in [guid : Bindings, cred : Credentials]
    BY <1>1, <2>1, GetAllBindingsAnswer DEF TypeInv, TypeOK, StoreOK
  <2> QED BY <2>1 DEF Todos
<1>6. todo' = [todo EXCEPT ![w] = todo'[w]] /\ todo'[w] = part
  BY <1>1 DEF TypeInv, TypeOK
<1>7. Assigns(w) /\ inst'[w] = inst[w]
  BY <1>2, <1>5, <1>6, Keeps DEF Assigns
<1>8. <<"remove", "nextBinding">> \in Positions
  BY DEF Positions
<1>9. "nextBinding" \in Labels \ {"idle", "done"} /\ "nextBinding" \notin CredLabels
  BY LabelFacts DEF Labels
<1> QED BY <1>2, <1>3, <1>4, <1>7, <1>8, <1>9, GotoType

(* NextBinding keeps them. *)
LEMMA NextBindingType ==
  ASSUME TypeInv, NEW w \in Workers, NextBinding(w)  PROVE TypeInv'
<1>1. /\ UNCHANGED <<stardogVars, storeVars, faults, planMap, req, inst>>
      /\ pc[w] = "nextBinding"
  BY DEF NextBinding
<1>2. req[w] # None /\ req[w].op = "remove" /\ inst[w] # None
  BY <1>1, Serving, OpAt, InstSet, LabelFacts
<1>3. SharedOK'
  BY <1>1, SharedStep DEF MayFault
<1>4. CASE todo[w] = {}
  <2>1. Goto(w, "deleteDb") /\ UNCHANGED <<cred, todo>>
    BY <1>4 DEF NextBinding
  <2>2. Assigns(w) /\ inst'[w] = inst[w]
    BY <1>1, <2>1, AssignsNothing
  <2>3. <<"remove", "deleteDb">> \in Positions
    BY DEF Positions
  <2>4. "deleteDb" \in Labels \ {"idle", "done"} /\ "deleteDb" \notin CredLabels
    BY LabelFacts DEF Labels
  <2> QED BY <1>1, <1>2, <1>3, <2>1, <2>2, <2>3, <2>4, GotoType
<1>5. CASE todo[w] # {}
  <2>1. Goto(w, "revokeWrite")
    BY <1>5 DEF NextBinding
  <2>2. PICK b \in todo[w] : /\ cred' = [cred EXCEPT ![w] = b.cred]
                             /\ todo' = [todo EXCEPT ![w] = @ \ {b}]
    BY <1>5 DEF NextBinding
  <2>3. b.cred \in Credentials /\ b.cred # None /\ todo[w] \ {b} \in Todos
    BY NoneAssumption DEF TypeInv, TypeOK, Todos
  <2>4. /\ cred' = [cred EXCEPT ![w] = cred'[w]] /\ cred'[w] = b.cred
        /\ todo' = [todo EXCEPT ![w] = todo'[w]] /\ todo'[w] = todo[w] \ {b}
    BY <2>2 DEF TypeInv, TypeOK
  <2>5. Assigns(w) /\ inst'[w] = inst[w] /\ cred'[w] # None
    BY <1>1, <2>3, <2>4, Keeps DEF Assigns
  <2>6. <<"remove", "revokeWrite">> \in Positions
    BY DEF Positions, UnbindLabels
  <2>7. "revokeWrite" \in Labels \ {"idle", "done"}
    BY DEF Labels
  <2> QED BY <1>1, <1>2, <1>3, <2>1, <2>5, <2>6, <2>7, GotoType
<1> QED BY <1>4, <1>5

(* DeleteDb keeps them. *)
LEMMA DeleteDbType ==
  ASSUME TypeInv, NEW w \in Workers, DeleteDb(w)  PROVE TypeInv'
<1>1. PICK reply \in BOOLEAN :
        /\ DeleteDatabase(ServerOf(inst[w]), inst[w].db, reply)
        /\ Goto(w, "deleteInstance") \/ SendError(w, 500)
  BY DEF DeleteDb
<1>2. UNCHANGED <<storeVars, planMap, req, inst, cred, todo>> /\ pc[w] = "deleteDb"
  BY DEF DeleteDb, locals
<1>3. req[w] # None /\ req[w].op = "remove" /\ inst[w] # None
  BY <1>2, Serving, OpAt, InstSet, LabelFacts
<1>4. StardogOK' /\ MayFault
  BY <1>1, DeleteDatabaseType DEF TypeInv, TypeOK
<1>5. Assigns(w) /\ inst'[w] = inst[w] /\ SharedOK'
  BY <1>2, <1>4, AssignsNothing, SharedStep
<1>6. CASE Goto(w, "deleteInstance")
  <2>1. <<"remove", "deleteInstance">> \in Positions
    BY DEF Positions
  <2>2. "deleteInstance" \in Labels \ {"idle", "done"} /\ "deleteInstance" \notin CredLabels
    BY LabelFacts DEF Labels
  <2> QED BY <1>2, <1>3, <1>5, <1>6, <2>1, <2>2, GotoType
<1>7. CASE SendError(w, 500)
  BY <1>2, <1>3, <1>5, <1>7, AnswerType
<1> QED BY <1>1, <1>6, <1>7

(* EraseInstance keeps them. *)
LEMMA EraseInstanceType ==
  ASSUME TypeInv, NEW w \in Workers, EraseInstance(w)  PROVE TypeInv'
<1>1. PICK reply \in BOOLEAN : DeleteInstance(req[w].inst, reply)
  BY DEF EraseInstance
<1>2. /\ UNCHANGED <<stardogVars, planMap, req, inst, cred, todo>>
      /\ WriteResponse(w, 200) /\ pc[w] # "idle"
  BY DEF EraseInstance, locals
<1>3. StoreOK' /\ MayFault
  BY <1>1, DeleteInstanceType DEF TypeInv, TypeOK
<1>4. Assigns(w) /\ req[w] # None /\ SharedOK'
  BY <1>2, <1>3, AssignsNothing, Serving, SharedStep
<1> QED BY <1>2, <1>4, AnswerType

-----------------------------------------------------------------------------
(* Bind keeps the types. *)

(* FindBinding keeps them. *)
LEMMA FindBindingType ==
  ASSUME TypeInv, NEW w \in Workers, FindBinding(w)  PROVE TypeInv'
<1> DEFINE answers == GetBinding(req[w].inst, req[w].bind)
<1>1. UNCHANGED <<stardogVars, planMap, req, inst, todo>> /\ pc[w] = "getBinding"
  BY DEF FindBinding
<1>2. /\ req[w] \in Requests /\ req[w] # None /\ req[w].op = "bind" /\ inst[w] # None
      /\ ServerOf(inst[w]) \in Servers /\ inst[w].db \in DbNames
  BY <1>1, Serving, OpAt, InstSet, LabelFacts
<1>3. CASE \E found \in answers \ {None} :
             /\ Read(answers, found)
             /\ cred' = [cred EXCEPT ![w] = found]
             /\ IF EqualBinding(found, req[w]) THEN WriteResponse(w, 200)
                                               ELSE SendError(w, 409)
  <2>1. PICK found \in answers : /\ Read(answers, found) /\ found # None
                                 /\ cred' = [cred EXCEPT ![w] = found]
                                 /\ WriteResponse(w, 200) \/ SendError(w, 409)
    BY <1>3
  <2>2. found \in Credentials
    BY <2>1, GetBindingAnswer DEF TypeInv, TypeOK, StoreOK
  <2>3. Assigns(w)
    BY <1>1, <2>1, <2>2, AssignsCred
  <2>4. SharedOK'
    BY <1>1, <2>1, ReadType, SharedStep DEF TypeInv, TypeOK
  <2> QED BY <1>1, <1>2, <2>1, <2>3, <2>4, AnswerType
<1>4. CASE /\ Read(answers, None)
           /\ \E u \in Chosen(req[w].user, UserNames), p \in Chosen(req[w].pw, Passwords) :
                cred' = [cred EXCEPT ![w] =
                  [url |-> ServerOf(inst[w]), db |-> inst[w].db, user |-> u, pw |-> p]]
           /\ Goto(w, "userExists")
  <2>1. PICK u \in Chosen(req[w].user, UserNames), p \in Chosen(req[w].pw, Passwords) :
          cred' = [cred EXCEPT ![w] =
            [url |-> ServerOf(inst[w]), db |-> inst[w].db, user |-> u, pw |-> p]]
    BY <1>4
  <2> DEFINE new == [url |-> ServerOf(inst[w]), db |-> inst[w].db, user |-> u, pw |-> p]
  <2>2. u \in UserNames /\ p \in Passwords
    BY <1>2, RequestType DEF Chosen
  <2>3. new \in Credentials
    BY <1>2, <2>2 DEF Credentials
  <2>4. new # None
    BY <2>3, NoneAssumption
  <2>5. Assigns(w) /\ inst'[w] = inst[w] /\ cred'[w] # None
    BY <1>1, <2>1, <2>3, <2>4, AssignsCred
  <2>6. SharedOK'
    BY <1>1, <1>4, ReadType, SharedStep DEF TypeInv, TypeOK
  <2>7. <<"bind", "userExists">> \in Positions
    BY DEF Positions
  <2>8. "userExists" \in Labels \ {"idle", "done"}
    BY DEF Labels
  <2> QED BY <1>1, <1>2, <1>4, <2>5, <2>6, <2>7, <2>8, GotoType
<1> QED BY <1>3, <1>4 DEF FindBinding

(* What the steps of plan.Bind share: they assign nothing. *)
LEMMA BindStep ==
  ASSUME TypeInv, NEW w \in Workers, pc[w] \in NewUserLabels \cup BoundLabels,
         UNCHANGED <<planMap, req, inst, cred, todo>>, MayFault,
         StardogOK' \/ UNCHANGED stardogVars, StoreOK' \/ UNCHANGED storeVars,
         \/ Goto(w, "newUser") \/ Goto(w, "grantWrite") \/ Goto(w, "grantRead")
         \/ Goto(w, "checkInstance") \/ Goto(w, "addBinding")
         \/ SendError(w, 500) \/ SendError(w, 409) \/ SendError(w, 200)
         \/ WriteResponse(w, 201)
  PROVE  TypeInv'
<1>1. pc[w] \in InstLabels \cap CredLabels /\ pc[w] \notin {"idle", "done"}
  BY LabelFacts DEF NewUserLabels, BoundLabels
<1>2. /\ req[w] # None /\ req[w].op = "bind" /\ inst[w] # None /\ cred[w] # None
      /\ Assigns(w) /\ inst'[w] = inst[w] /\ cred'[w] = cred[w] /\ SharedOK'
  BY <1>1, Serving, OpAt, InstSet, CredSet, AssignsNothing, SharedStep
<1>3. ASSUME NEW label \in {"newUser", "grantWrite", "grantRead", "checkInstance", "addBinding"},
             Goto(w, label)
      PROVE  TypeInv'
  <2>1. <<"bind", label>> \in Positions
    BY DEF Positions
  <2>2. label \in Labels \ {"idle", "done"}
    BY DEF Labels
  <2> QED BY <1>2, <1>3, <2>1, <2>2, GotoType
<1>4. ASSUME NEW code \in {200, 201, 409, 500}, WriteResponse(w, code) \/ SendError(w, code)
      PROVE  TypeInv'
  BY <1>2, <1>4, AnswerType
<1> QED BY <1>3, <1>4

(* CheckUser keeps them. *)
LEMMA CheckUserType ==
  ASSUME TypeInv, NEW w \in Workers, CheckUser(w)  PROVE TypeInv'
<1>1. PICK reply \in BOOLEAN, exists \in BOOLEAN :
        /\ UserExists(cred[w].url, cred[w].user, reply, exists)
        /\ SendError(w, 500) \/ SendError(w, 409) \/ Goto(w, "newUser")
  BY DEF CheckUser
<1>2. /\ UNCHANGED <<storeVars, planMap, req, inst, cred, todo>>
      /\ pc[w] \in NewUserLabels
  BY DEF CheckUser, locals, NewUserLabels
<1>3. StardogOK' /\ MayFault
  BY <1>1, UserExistsType DEF TypeInv, TypeOK
<1> QED BY <1>1, <1>2, <1>3, BindStep

(* MakeUser keeps them. *)
LEMMA MakeUserType ==
  ASSUME TypeInv, NEW w \in Workers, MakeUser(w)  PROVE TypeInv'
<1>1. PICK reply \in BOOLEAN :
        /\ NewUser(cred[w].url, cred[w].user, reply)
        /\ SendError(w, 500) \/ Goto(w, "grantWrite")
  BY DEF MakeUser
<1>2. /\ UNCHANGED <<storeVars, planMap, req, inst, cred, todo>>
      /\ pc[w] \in NewUserLabels /\ pc[w] \in CredLabels
  BY DEF MakeUser, locals, NewUserLabels, CredLabels
<1>3. StardogOK' /\ MayFault
  BY <1>1, <1>2, CredSet, NewUserType DEF TypeInv, TypeOK
<1> QED BY <1>1, <1>2, <1>3, BindStep

(* GrantWrite keeps them. *)
LEMMA GrantWriteType ==
  ASSUME TypeInv, NEW w \in Workers, GrantWrite(w)  PROVE TypeInv'
<1>1. PICK reply \in BOOLEAN :
        /\ Grant(cred[w].url, cred[w].user, cred[w].db, "write", reply)
        /\ SendError(w, 500) \/ Goto(w, "grantRead")
  BY DEF GrantWrite, GrantStep
<1>2. /\ UNCHANGED <<storeVars, planMap, req, inst, cred, todo>>
      /\ pc[w] \in BoundLabels /\ pc[w] \in CredLabels
  BY DEF GrantWrite, GrantStep, locals, BoundLabels, CredLabels
<1>3. StardogOK' /\ MayFault
  BY <1>1, <1>2, CredSet, GrantType DEF TypeInv, TypeOK, Actions
<1> QED BY <1>1, <1>2, <1>3, BindStep

(* GrantRead keeps them. *)
LEMMA GrantReadType ==
  ASSUME TypeInv, NEW w \in Workers, GrantRead(w)  PROVE TypeInv'
<1>1. PICK reply \in BOOLEAN :
        /\ Grant(cred[w].url, cred[w].user, cred[w].db, "read", reply)
        /\ SendError(w, 500) \/ Goto(w, "addBinding") \/ Goto(w, "checkInstance")
  BY DEF GrantRead, GrantStep
<1>2. /\ UNCHANGED <<storeVars, planMap, req, inst, cred, todo>>
      /\ pc[w] \in BoundLabels /\ pc[w] \in CredLabels
  BY DEF GrantRead, GrantStep, locals, BoundLabels, CredLabels
<1>3. StardogOK' /\ MayFault
  BY <1>1, <1>2, CredSet, GrantType DEF TypeInv, TypeOK, Actions
<1> QED BY <1>1, <1>2, <1>3, BindStep

(* CheckInstance keeps them. *)
LEMMA CheckInstanceType ==
  ASSUME TypeInv, NEW w \in Workers, CheckInstance(w)  PROVE TypeInv'
<1>1. PICK answer : /\ Read(GetInstance(req[w].inst), answer)
                    /\ Goto(w, "addBinding") \/ SendError(w, 200)
  BY DEF CheckInstance
<1>2. UNCHANGED <<stardogVars, planMap, req, inst, cred, todo>> /\ pc[w] \in BoundLabels
  BY DEF CheckInstance, locals, BoundLabels
<1>3. StoreOK' /\ MayFault
  BY <1>1, ReadType DEF TypeInv, TypeOK
<1> QED BY <1>1, <1>2, <1>3, BindStep

(* StoreBinding keeps them. *)
LEMMA StoreBindingType ==
  ASSUME TypeInv, NEW w \in Workers, StoreBinding(w)  PROVE TypeInv'
<1>1. PICK reply \in BOOLEAN :
        /\ AddBinding(req[w].inst, req[w].bind, cred[w], reply)
        /\ WriteResponse(w, 201) \/ SendError(w, 200)
  BY DEF StoreBinding
<1>2. UNCHANGED <<stardogVars, planMap, req, inst, cred, todo>> /\ pc[w] = "addBinding"
  BY DEF StoreBinding, locals
<1>3. /\ req[w].inst \in Instances /\ req[w].bind \in Bindings /\ cred[w] \in Credentials
      /\ pc[w] \in BoundLabels
  BY <1>2, Serving, OpAt, RequestType, CredSet, LabelFacts DEF WellFormed, BoundLabels
<1>4. StoreOK' /\ MayFault
  BY <1>1, <1>3, AddBindingType DEF TypeInv, TypeOK
<1> QED BY <1>1, <1>2, <1>3, <1>4, BindStep

-----------------------------------------------------------------------------
(* UnBind and plan.UnBind keep the types. *)

(* UnbindGet keeps them. *)
LEMMA UnbindGetType ==
  ASSUME TypeInv, NEW w \in Workers, UnbindGet(w)  PROVE TypeInv'
<1> DEFINE answers == GetBinding(req[w].inst, req[w].bind)
<1>1. PICK found \in answers \cup {None} :
        /\ Read(answers, found)
        /\ cred' = [cred EXCEPT ![w] = found]
        /\ (found # None /\ Goto(w, "deleteBinding")) \/ SendError(w, 410)
  BY DEF UnbindGet
<1>2. UNCHANGED <<stardogVars, planMap, req, inst, todo>> /\ pc[w] = "unbindGet"
  BY DEF UnbindGet
<1>3. req[w] # None /\ req[w].op = "unbind" /\ inst[w] # None
  BY <1>2, Serving, OpAt, InstSet, LabelFacts
<1>4. found \in Credentials \cup {None}
  BY <1>1, GetBindingAnswer DEF TypeInv, TypeOK, StoreOK
<1>5. Assigns(w) /\ inst'[w] = inst[w] /\ cred'[w] = found
  BY <1>1, <1>2, <1>4, AssignsCred
<1>6. SharedOK'
  BY <1>1, <1>2, ReadType, SharedStep DEF TypeInv, TypeOK
<1>7. CASE found # None /\ Goto(w, "deleteBinding")
  <2>1. <<"unbind", "deleteBinding">> \in Positions
    BY DEF Positions
  <2>2. "deleteBinding" \in Labels \ {"idle", "done"}
    BY DEF Labels
  <2> QED BY <1>2, <1>3, <1>5, <1>6, <1>7, <2>1, <2>2, GotoType
<1>8. CASE SendError(w, 410)
  BY <1>2, <1>3, <1>5, <1>6, <1>8, AnswerType
<1> QED BY <1>1, <1>7, <1>8

(* EraseBinding keeps them. *)
LEMMA EraseBindingType ==
  ASSUME TypeInv, NEW w \in Workers, EraseBinding(w)  PROVE TypeInv'
<1>1. PICK reply \in BOOLEAN :
        /\ DeleteBinding(req[w].inst, req[w].bind, reply)
        /\ Goto(w, "revokeWrite") \/ SendError(w, 500)
  BY DEF EraseBinding
<1>2. /\ UNCHANGED <<stardogVars, planMap, req, inst, cred, todo>>
      /\ pc[w] = "deleteBinding"
  BY DEF EraseBinding, locals
<1>3. req[w] # None /\ req[w].op = "unbind" /\ inst[w] # None /\ cred[w] # None
  BY <1>2, Serving, OpAt, InstSet, CredSet, LabelFacts
<1>4. StoreOK' /\ MayFault
  BY <1>1, DeleteBindingType DEF TypeInv, TypeOK
<1>5. Assigns(w) /\ inst'[w] = inst[w] /\ cred'[w] = cred[w] /\ SharedOK'
  BY <1>2, <1>4, AssignsNothing, SharedStep
<1>6. CASE Goto(w, "revokeWrite")
  <2>1. <<"unbind", "revokeWrite">> \in Positions
    BY DEF Positions, UnbindLabels
  <2>2. "revokeWrite" \in Labels \ {"idle", "done"}
    BY DEF Labels
  <2> QED BY <1>2, <1>3, <1>5, <1>6, <2>1, <2>2, GotoType
<1>7. CASE SendError(w, 500)
  BY <1>2, <1>3, <1>5, <1>7, AnswerType
<1> QED BY <1>1, <1>6, <1>7

(* What the steps of plan.UnBind share: they call Stardog and assign nothing. *)
LEMMA UnbindStep ==
  ASSUME TypeInv, NEW w \in Workers, pc[w] \in UnbindLabels,
         UNCHANGED <<storeVars, planMap, req, inst, cred, todo>>, MayFault, StardogOK',
         \/ Goto(w, "revokeRead") \/ Goto(w, "deleteUser")
         \/ req[w].op = "remove" /\ Goto(w, "nextBinding")
         \/ SendError(w, 500) \/ WriteResponse(w, 200)
  PROVE  TypeInv'
<1>1. pc[w] \in InstLabels \cap CredLabels /\ pc[w] \notin {"idle", "done"}
  BY LabelFacts DEF UnbindLabels
<1>2. /\ req[w] # None /\ req[w].op \in {"remove", "unbind"}
      /\ inst[w] # None /\ cred[w] # None
      /\ Assigns(w) /\ inst'[w] = inst[w] /\ cred'[w] = cred[w] /\ SharedOK'
  BY <1>1, Serving, OpAt, InstSet, CredSet, AssignsNothing, SharedStep
<1>3. ASSUME NEW label \in {"revokeRead", "deleteUser"}, Goto(w, label)
      PROVE  TypeInv'
  <2>1. <<req[w].op, label>> \in Positions
    BY <1>2 DEF Positions, UnbindLabels
  <2>2. label \in Labels \ {"idle", "done"}
    BY DEF Labels
  <2> QED BY <1>2, <1>3, <2>1, <2>2, GotoType
<1>4. CASE req[w].op = "remove" /\ Goto(w, "nextBinding")
  <2>1. <<"remove", "nextBinding">> \in Positions
    BY DEF Positions
  <2>2. "nextBinding" \in Labels \ {"idle", "done"}
    BY DEF Labels
  <2> QED BY <1>2, <1>4, <2>1, <2>2, GotoType
<1>5. ASSUME NEW code \in {200, 500}, WriteResponse(w, code) \/ SendError(w, code)
      PROVE  TypeInv'
  BY <1>2, <1>5, AnswerType
<1> QED BY <1>3, <1>4, <1>5

(* RevokeWrite keeps them. *)
LEMMA RevokeWriteType ==
  ASSUME TypeInv, NEW w \in Workers, RevokeWrite(w)  PROVE TypeInv'
<1>1. PICK reply \in BOOLEAN :
        /\ Revoke(ServerOf(inst[w]), cred[w].user, cred[w].db, "write", reply)
        /\ Goto(w, "revokeRead") \/ UnBindReturns(w, FALSE)
  BY Zenon DEF RevokeWrite, RevokeStep
<1>2. UNCHANGED <<storeVars, planMap, req, inst, cred, todo>> /\ pc[w] \in UnbindLabels
  BY DEF RevokeWrite, RevokeStep, locals, UnbindLabels
<1>3. StardogOK' /\ MayFault
  BY <1>1, RevokeType DEF TypeInv, TypeOK
<1>4. UnBindReturns(w, FALSE) =>
        (req[w].op = "remove" /\ Goto(w, "nextBinding")) \/ SendError(w, 500)
  BY DEF UnBindReturns
<1> QED BY <1>1, <1>2, <1>3, <1>4, UnbindStep

(* RevokeRead keeps them. *)
LEMMA RevokeReadType ==
  ASSUME TypeInv, NEW w \in Workers, RevokeRead(w)  PROVE TypeInv'
<1>1. PICK reply \in BOOLEAN :
        /\ Revoke(ServerOf(inst[w]), cred[w].user, cred[w].db, "read", reply)
        /\ Goto(w, "deleteUser") \/ UnBindReturns(w, FALSE)
  BY Zenon DEF RevokeRead, RevokeStep
<1>2. UNCHANGED <<storeVars, planMap, req, inst, cred, todo>> /\ pc[w] \in UnbindLabels
  BY DEF RevokeRead, RevokeStep, locals, UnbindLabels
<1>3. StardogOK' /\ MayFault
  BY <1>1, RevokeType DEF TypeInv, TypeOK
<1>4. UnBindReturns(w, FALSE) =>
        (req[w].op = "remove" /\ Goto(w, "nextBinding")) \/ SendError(w, 500)
  BY DEF UnBindReturns
<1> QED BY <1>1, <1>2, <1>3, <1>4, UnbindStep

(* RemoveUser keeps them. *)
LEMMA RemoveUserType ==
  ASSUME TypeInv, NEW w \in Workers, RemoveUser(w)  PROVE TypeInv'
<1>1. PICK reply \in BOOLEAN :
        /\ DeleteUser(ServerOf(inst[w]), cred[w].user, reply)
        /\ \/ req[w].op = "remove" /\ Goto(w, "nextBinding")
           \/ SendError(w, 500) \/ WriteResponse(w, 200)
  BY DEF RemoveUser, UnBindReturns
<1>2. UNCHANGED <<storeVars, planMap, req, inst, cred, todo>> /\ pc[w] \in UnbindLabels
  BY DEF RemoveUser, locals, UnbindLabels
<1>3. StardogOK' /\ MayFault
  BY <1>1, DeleteUserType DEF TypeInv, TypeOK
<1> QED BY <1>1, <1>2, <1>3, UnbindStep

-----------------------------------------------------------------------------
(* The platform and the process keep the types. *)

(* Receive keeps them: the label of a handler is its operation. *)
LEMMA ReceiveType ==
  ASSUME TypeInv, NEW w \in Workers, NEW r \in Requests, Receive(w, r)  PROVE TypeInv'
<1>1. /\ pc[w] = "idle" /\ Goto(w, r.op) /\ req' = [req EXCEPT ![w] = r]
      /\ UNCHANGED <<stardogVars, storeVars, faults, planMap, inst, cred, todo>>
  BY DEF Receive
<1>2. r # None /\ r.op \in Ops
  BY RequestType
<1>3. /\ pc'[w] = r.op /\ pc' = [pc EXCEPT ![w] = pc'[w]]
      /\ resp'[w] = resp[w] /\ resp' = [resp EXCEPT ![w] = resp'[w]]
  BY <1>1 DEF Goto, TypeInv, TypeOK
<1>4. req'[w] = r /\ req' = [req EXCEPT ![w] = req'[w]]
  BY <1>1 DEF TypeInv, TypeOK
<1>5. Assigns(w)
  BY <1>1, AssignsNothing
<1>6. Moves(w)
  BY <1>3, <1>4, <1>5 DEF Moves, Assigns
<1>7. /\ r.op \in Labels \ {"idle", "done"} /\ <<r.op, r.op>> \in Positions
      /\ r.op \notin InstLabels /\ r.op \notin CredLabels
  BY <1>2, LabelFacts DEF Ops, Labels, Positions
<1>8. HandlerOK(w)'
  BY <1>2, <1>3, <1>4, <1>7 DEF HandlerOK
<1>9. WorkerOK(w)'
  BY <1>3, <1>4, <1>5, <1>7, <1>8 DEF WorkerOK, Assigns, TypeInv, TypeOK
<1>10. SharedOK'
  BY <1>1, SharedStep DEF MayFault
<1> QED BY <1>6, <1>9, <1>10, StepType

(* A goroutine that ends leaves nothing. *)
LEMMA ExitType ==
  ASSUME TypeInv, NEW w \in Workers, Exit(w), MayFault  PROVE TypeInv' /\ Moves(w)
<1>1. /\ pc'[w] = "idle" /\ req'[w] = None /\ inst'[w] = None /\ cred'[w] = None
      /\ todo'[w] = {} /\ resp'[w] = NoResponse
  BY DEF Exit, TypeInv, TypeOK
<1>2. Moves(w)
  BY <1>1 DEF Exit, Moves
<1>3. HandlerOK(w)'
  BY <1>1, LabelFacts DEF HandlerOK
<1>4. WorkerOK(w)'
  BY <1>1, <1>3 DEF WorkerOK, Labels, Todos, Responses, NoResponse
<1>5. SharedOK'
  BY SharedStep DEF Exit
<1> QED BY <1>2, <1>4, <1>5, StepType

(* Restart keeps the types: it is Init but for the servers and the store. *)
LEMMA RestartType == ASSUME TypeInv, Restart  PROVE TypeInv'
<1>1. MayFault /\ planMap' \in Configs /\ UNCHANGED <<stardogVars, storeVars>>
  BY FaultCounts DEF Restart
<1>2. StardogOK' /\ StoreOK' /\ faults' \in 0 .. MaxFaults
  <2>1. StardogOK /\ StoreOK /\ faults \in 0 .. MaxFaults
    BY DEF TypeInv, TypeOK
  <2>2. faults' \in 0 .. MaxFaults
    BY <1>1, <2>1, FaultAssumption DEF MayFault
  <2> QED BY <1>1, <2>1, <2>2 DEF StardogOK, StoreOK, stardogVars, storeVars
<1>3. NoResponse \in Responses /\ "idle" \in Labels /\ {} \in Todos
  BY DEF NoResponse, Responses, Labels, Todos
<1>4. TypeOK'
  BY <1>1, <1>2, <1>3 DEF Restart, TypeOK
<1>5. ASSUME NEW w \in Workers PROVE HandlerOK(w)'
  BY <1>5, LabelFacts DEF Restart, HandlerOK
<1> QED BY <1>4, <1>5 DEF TypeInv

-----------------------------------------------------------------------------

(* Every step keeps the types. *)
LEMMA TypeNext == TypeInv /\ [Next]_vars => TypeInv'
<1> SUFFICES ASSUME TypeInv, [Next]_vars PROVE TypeInv'
  OBVIOUS
<1>1. ASSUME NEW w \in Workers, Handle(w) PROVE TypeInv'
  BY <1>1, CreateUnknownPlanType, CreateExistingType, CreateNewType, CreateDbType,
     StoreInstanceType, GetType, RemoveType, ListBindingsType,
     ListSomeBindingsType, NextBindingType,
     DeleteDbType, EraseInstanceType, BindType, FindBindingType, CheckUserType,
     MakeUserType, GrantWriteType, GrantReadType, CheckInstanceType, StoreBindingType,
     UnbindType, UnbindGetType, EraseBindingType, RevokeWriteType, RevokeReadType,
     RemoveUserType
     DEF Handle
<1>2. ASSUME NEW w \in Workers, Panic(w) \/ Return(w) PROVE TypeInv'
  <2>1. Exit(w) /\ MayFault
    BY <1>2, FaultCounts DEF Panic, Return, MayFault
  <2> QED BY <2>1, ExitType
<1>3. ASSUME NEW w \in Workers, NEW r \in Requests, Receive(w, r) PROVE TypeInv'
  BY <1>3, ReceiveType
<1>4. CASE Restart
  BY <1>4, RestartType
<1>5. CASE UNCHANGED vars
  <2>1. TypeOK'
    BY <1>5 DEF vars, stardogVars, storeVars, locals, TypeInv, TypeOK, StardogOK, StoreOK
  <2>2. ASSUME NEW w \in Workers PROVE HandlerOK(w)'
    BY <1>5 DEF vars, locals, TypeInv, HandlerOK
  <2> QED BY <2>1, <2>2 DEF TypeInv
<1> QED BY <1>1, <1>2, <1>3, <1>4, <1>5 DEF Next

(***************************************************************************)
(* Every variable has its type, whatever the requests, the faults and the  *)
(* number of handlers: with HandlerOK, the variables a handler uses are    *)
(* set wherever it uses them (no nil serviceInstance, no binding a lookup  *)
(* did not find).                                                          *)
(***************************************************************************)
THEOREM TypeCorrect == Spec => [](TypeOK /\ \A w \in Workers : HandlerOK(w))
<1>1. Spec => []TypeInv
  BY TypeInit, TypeNext, PTL DEF Spec
<1>2. TypeInv => TypeOK /\ \A w \in Workers : HandlerOK(w)
  BY DEF TypeInv
<1> QED BY <1>1, <1>2, PTL
=============================================================================
