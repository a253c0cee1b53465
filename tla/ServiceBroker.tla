---------------------------- MODULE ServiceBroker ----------------------------
(***************************************************************************)
(* The request handlers of broker/controller.go with the plans they call   *)
(* (plans/shared, plans/perinstance), over the store and the Stardog       *)
(* servers.  net/http runs each request in a goroutine of its own: a       *)
(* worker is one such goroutine and takes one step per remote call.  The   *)
(* handlers take no lock.                                                  *)
(***************************************************************************)
EXTENDS Stardog, Store

CONSTANTS
  Workers,         \* goroutines that may serve requests at the same time
  Instances,       \* service instance GUIDs
  Bindings,        \* binding GUIDs
  PlanIDs,
  PlanName,        \* the plan module of each plan ID, see handlePlugins of main.go
  Servers,         \* URLs of Stardog servers
  StardogURL,      \* the server of the shared plan
  DbNames, UserNames, Passwords,
  Metas,           \* organization, space and service IDs, which compareService compares
  Requests,        \* the requests the platform may send
  Configs,         \* the sets of plan IDs a configuration file may hold
  Serialized,      \* TRUE: the platform has one request outstanding per instance
  ExistingDbs,     \* <<server, name>> of the databases of other applications
  ExistingUsers    \* <<server, name>> of their users

Ops == {"create", "get", "remove", "bind", "unbind"}

InstanceData == [plan : PlanIDs, meta : Metas, db : DbNames, url : Servers \cup {None}]

Credentials == [url : Servers, db : DbNames, user : UserNames, pw : Passwords]

(* url stands for the three perinstance parameters: url, username, password. *)
Request == [op : Ops, inst : Instances, bind : Bindings \cup {None},
            plan : PlanIDs \cup {None}, meta : Metas \cup {None},
            db : DbNames \cup {None}, url : Servers \cup {None},
            user : UserNames \cup {None}, pw : Passwords \cup {None}]

WellFormed(r) ==
  /\ r.op = "create" => r.plan # None /\ r.meta # None
  /\ r.op \in {"bind", "unbind"} => r.bind # None

ASSUME BrokerAssumption ==
  /\ PlanName \in [PlanIDs -> {"shared_database_plan", "perinstance"}]
  /\ StardogURL \in Servers
  /\ \A r \in Requests : r \in Request /\ WellFormed(r)
  /\ Configs # {} /\ \A c \in Configs : c \subseteq PlanIDs
  /\ Serialized \in BOOLEAN
  /\ ExistingDbs \subseteq Servers \X DbNames
  /\ ExistingUsers \subseteq Servers \X UserNames

ASSUME NoneAssumption ==
  None \notin PlanIDs \cup Metas \cup Servers \cup DbNames \cup UserNames
                \cup Passwords \cup Bindings \cup InstanceData \cup Credentials
                \cup Requests

VARIABLES
  planMap,   \* the keys of databasePlanMap
  pc,        \* what each worker does next
  req,       \* the request it serves
  inst,      \* serviceInstance: the instance it found, or is creating
  cred,      \* serviceBinding: the binding it found, or is creating or removing
  todo,      \* RemoveServiceInstance: the bindings still to be unbound
  resp       \* the response, when it is done

locals == <<req, inst, cred, todo>>

vars == <<stardogVars, storeVars, faults, planMap, pc, locals, resp>>

Labels == {"idle", "create", "createDb", "addInstance", "get", "remove",
           "listBindings", "nextBinding", "deleteDb", "deleteInstance",
           "bind", "getBinding", "userExists", "newUser", "grantWrite", "grantRead",
           "checkInstance", "addBinding", "unbind", "unbindGet", "deleteBinding",
           "revokeWrite", "revokeRead", "deleteUser", "done"}

NoResponse == [code |-> 0, ok |-> FALSE]

Init ==
  /\ databases = ExistingDbs
  /\ users = ExistingUsers
  /\ grants = {}
  /\ instanceRows = {}
  /\ bindingRows = {}
  /\ faults = 0
  /\ planMap \in Configs
  /\ pc = [w \in Workers |-> "idle"]
  /\ req = [w \in Workers |-> None]
  /\ inst = [w \in Workers |-> None]
  /\ cred = [w \in Workers |-> None]
  /\ todo = [w \in Workers |-> {}]
  /\ resp = [w \in Workers |-> NoResponse]

-----------------------------------------------------------------------------
(* What a step does with its own worker. *)

Goto(w, label) == pc' = [pc EXCEPT ![w] = label] /\ UNCHANGED resp

(* ok tells WriteResponse from SendError, which writes an error document. *)
Respond(w, code, ok) ==
  /\ pc' = [pc EXCEPT ![w] = "done"]
  /\ resp' = [resp EXCEPT ![w] = [code |-> code, ok |-> ok]]

WriteResponse(w, code) == Respond(w, code, TRUE)

SendError(w, code) == Respond(w, code, FALSE)

-----------------------------------------------------------------------------
(* The platform and the process. *)

Busy(g) == \E w \in Workers : pc[w] # "idle" /\ req[w].inst = g

(* The router hands a request that passed HTTPBasicCheck to its handler. *)
Receive(w, r) ==
  /\ pc[w] = "idle"
  /\ Serialized => ~Busy(r.inst)
  /\ Goto(w, r.op)
  /\ req' = [req EXCEPT ![w] = r]
  /\ UNCHANGED <<stardogVars, storeVars, faults, planMap, inst, cred, todo>>

(* The goroutine ends. *)
Exit(w) ==
  /\ pc' = [pc EXCEPT ![w] = "idle"]
  /\ req' = [req EXCEPT ![w] = None]
  /\ inst' = [inst EXCEPT ![w] = None]
  /\ cred' = [cred EXCEPT ![w] = None]
  /\ todo' = [todo EXCEPT ![w] = {}]
  /\ resp' = [resp EXCEPT ![w] = NoResponse]
  /\ UNCHANGED <<stardogVars, storeVars, planMap>>

(* The platform has the response. *)
Return(w) == pc[w] = "done" /\ Exit(w) /\ UNCHANGED faults

(***************************************************************************)
(* mysql.go drops the error of Begin and uses the nil transaction: the     *)
(* handler panics, net/http recovers and closes the connection, and the    *)
(* platform gets no answer.  GetInstance, GetAllBindings and AddBinding    *)
(* begin a transaction.                                                    *)
(***************************************************************************)
Panic(w) ==
  /\ OnSql
  /\ pc[w] \in {"create", "get", "remove", "bind", "unbind", "listBindings", "addBinding"}
  /\ pc[w] = "create" => req[w].plan \in planMap
  /\ Fault("storeBegin")
  /\ Exit(w)

(* The broker dies and comes back with the plans of its configuration file. *)
Restart ==
  /\ Fault("restart")
  /\ planMap' \in Configs
  /\ pc' = [w \in Workers |-> "idle"]
  /\ req' = [w \in Workers |-> None]
  /\ inst' = [w \in Workers |-> None]
  /\ cred' = [w \in Workers |-> None]
  /\ todo' = [w \in Workers |-> {}]
  /\ resp' = [w \in Workers |-> NoResponse]
  /\ UNCHANGED <<stardogVars, storeVars>>

-----------------------------------------------------------------------------
(* Lookups. *)

Known(data) == data # None /\ data.plan \in planMap

(***************************************************************************)
(* getServiceInstance: a record that is missing, that cannot be read or    *)
(* whose plan the configuration no longer has is the same error, None.     *)
(***************************************************************************)
getServiceInstance(w, found) ==
  \E answer \in GetInstance(req[w].inst) \cup {None} :
    /\ Read(GetInstance(req[w].inst), answer)
    /\ found = IF Known(answer) THEN answer ELSE None

(* The server an inflated plan talks to. *)
ServerOf(data) ==
  IF PlanName[data.plan] = "perinstance" THEN data.url ELSE StardogURL

(* compareService, with EqualInstance of both plans *)
compareService(data, r) == data.meta = r.meta /\ data.plan = r.plan /\ data.db = r.db

(* EqualBinding of both plans *)
EqualBinding(c, r) == c.user = r.user /\ c.pw = r.pw

\* Mutant of Chosen: an empty name is used as it is.
ChosenAsRequested(requested, names) == {requested}

(* GetRandomName when the request names nothing; nothing stops a collision. *)
Chosen(requested, names) == IF requested = None THEN names ELSE {requested}

-----------------------------------------------------------------------------
(* CreateServiceInstance *)

CreateUnknownPlan(w) ==
  /\ pc[w] = "create"
  /\ req[w].plan \notin planMap
  /\ SendError(w, 400)
  /\ UNCHANGED <<stardogVars, storeVars, faults, planMap, locals>>

CreateExisting(w) ==
  /\ pc[w] = "create"
  /\ req[w].plan \in planMap
  /\ \E found \in InstanceData :
       /\ getServiceInstance(w, found)
       /\ inst' = [inst EXCEPT ![w] = found]
       /\ IF compareService(found, req[w]) THEN WriteResponse(w, 200)
                                           ELSE SendError(w, 409)
  /\ UNCHANGED <<stardogVars, planMap, req, cred, todo>>

(* InflatePlan of perinstance wants a URL and a password. *)
Inflates(r) == PlanName[r.plan] = "perinstance" => r.url # None

CreateNew(w) ==
  /\ pc[w] = "create"
  /\ req[w].plan \in planMap
  /\ getServiceInstance(w, None)
  /\ IF Inflates(req[w])
     THEN /\ \E d \in Chosen(req[w].db, DbNames) :
               inst' = [inst EXCEPT ![w] =
                 [plan |-> req[w].plan, meta |-> req[w].meta, db |-> d, url |-> req[w].url]]
          /\ Goto(w, "createDb")
     ELSE SendError(w, 500) /\ UNCHANGED inst
  /\ UNCHANGED <<stardogVars, planMap, req, cred, todo>>

CreateDb(w) ==
  /\ pc[w] = "createDb"
  /\ \E reply \in BOOLEAN :
       /\ CreateDatabase(ServerOf(inst[w]), inst[w].db, reply)
       /\ IF reply THEN Goto(w, "addInstance") ELSE SendError(w, 500)
  /\ UNCHANGED <<storeVars, planMap, locals>>

(* When the store fails the database stays: "Resources leaked". *)
StoreInstance(w) ==
  /\ pc[w] = "addInstance"
  /\ \E reply \in BOOLEAN :
       /\ AddInstance(req[w].inst, inst[w], reply)
       /\ IF reply THEN WriteResponse(w, 201) ELSE SendError(w, 500)
  /\ UNCHANGED <<stardogVars, planMap, locals>>

-----------------------------------------------------------------------------
(* GetServiceInstance *)

Get(w) ==
  /\ pc[w] = "get"
  /\ \E found \in InstanceData \cup {None} :
       /\ getServiceInstance(w, found)
       /\ inst' = [inst EXCEPT ![w] = found]
       /\ IF found # None THEN WriteResponse(w, 200) ELSE SendError(w, 404)
  /\ UNCHANGED <<stardogVars, planMap, req, cred, todo>>

-----------------------------------------------------------------------------
(* RemoveServiceInstance *)

Remove(w) ==
  /\ pc[w] = "remove"
  /\ \E found \in InstanceData \cup {None} :
       /\ getServiceInstance(w, found)
       /\ inst' = [inst EXCEPT ![w] = found]
       /\ IF found # None THEN Goto(w, "listBindings") ELSE SendError(w, 410)
  /\ UNCHANGED <<stardogVars, planMap, req, cred, todo>>

ListBindings(w) ==
  /\ pc[w] = "listBindings"
  /\ LET answers == GetAllBindings(req[w].inst)
     IN  \E answer \in answers \cup {None} :
           /\ Read(answers, answer)
           /\ IF answer # None
              THEN todo' = [todo EXCEPT ![w] = answer] /\ Goto(w, "nextBinding")
              ELSE SendError(w, 500) /\ UNCHANGED todo
  /\ UNCHANGED <<stardogVars, planMap, req, inst, cred>>

(***************************************************************************)
(* The connection breaks while GetAllBindings of mysql.go reads the rows:  *)
(* rows.Next is FALSE as after the last row, rows.Err is not asked, and    *)
(* the bindings read so far pass for all of them.                          *)
(***************************************************************************)
ListSomeBindings(w) ==
  /\ OnSql
  /\ pc[w] = "listBindings"
  /\ \E answer \in GetAllBindings(req[w].inst) \ {None} :
       \E part \in SUBSET answer : todo' = [todo EXCEPT ![w] = part]
  /\ Fault("storePartial")
  /\ Goto(w, "nextBinding")
  /\ UNCHANGED <<stardogVars, storeVars, planMap, req, inst, cred>>

\* Mutant of NextBinding: Plan.RemoveInstance is not called.
NextBindingThenErase(w) ==
  /\ pc[w] = "nextBinding"
  /\ IF todo[w] = {}
     THEN Goto(w, "deleteInstance") /\ UNCHANGED <<cred, todo>>
     ELSE /\ \E b \in todo[w] : /\ cred' = [cred EXCEPT ![w] = b.cred]
                                /\ todo' = [todo EXCEPT ![w] = @ \ {b}]
          /\ Goto(w, "revokeWrite")
  /\ UNCHANGED <<stardogVars, storeVars, faults, planMap, req, inst>>

\* Mutant of NextBinding: the loop does not advance.
NextBindingAgain(w) ==
  /\ pc[w] = "nextBinding"
  /\ IF todo[w] = {}
     THEN Goto(w, "deleteDb") /\ UNCHANGED cred
     ELSE /\ \E b \in todo[w] : cred' = [cred EXCEPT ![w] = b.cred]
          /\ Goto(w, "revokeWrite")
  /\ UNCHANGED <<stardogVars, storeVars, faults, planMap, req, inst, todo>>

(* The loop over bindMap, in the order Go iterates a map: any. *)
NextBinding(w) ==
  /\ pc[w] = "nextBinding"
  /\ IF todo[w] = {}
     THEN Goto(w, "deleteDb") /\ UNCHANGED <<cred, todo>>
     ELSE /\ \E b \in todo[w] : /\ cred' = [cred EXCEPT ![w] = b.cred]
                                /\ todo' = [todo EXCEPT ![w] = @ \ {b}]
          /\ Goto(w, "revokeWrite")
  /\ UNCHANGED <<stardogVars, storeVars, faults, planMap, req, inst>>

(* Plan.RemoveInstance *)
DeleteDb(w) ==
  /\ pc[w] = "deleteDb"
  /\ \E reply \in BOOLEAN :
       /\ DeleteDatabase(ServerOf(inst[w]), inst[w].db, reply)
       /\ IF reply THEN Goto(w, "deleteInstance") ELSE SendError(w, 500)
  /\ UNCHANGED <<storeVars, planMap, locals>>

(* The error of DeleteInstance is dropped. *)
EraseInstance(w) ==
  /\ pc[w] = "deleteInstance"
  /\ \E reply \in BOOLEAN : DeleteInstance(req[w].inst, reply)
  /\ WriteResponse(w, 200)
  /\ UNCHANGED <<stardogVars, planMap, locals>>

-----------------------------------------------------------------------------
(* Bind *)

Bind(w) ==
  /\ pc[w] = "bind"
  /\ \E found \in InstanceData \cup {None} :
       /\ getServiceInstance(w, found)
       /\ inst' = [inst EXCEPT ![w] = found]
       /\ IF found # None THEN Goto(w, "getBinding") ELSE SendError(w, 500)
  /\ UNCHANGED <<stardogVars, planMap, req, cred, todo>>

(* An error of GetBinding is taken for a binding that does not exist. *)
FindBinding(w) ==
  /\ pc[w] = "getBinding"
  /\ LET answers == GetBinding(req[w].inst, req[w].bind)
     IN  \/ \E found \in answers \ {None} :
              /\ Read(answers, found)
              /\ cred' = [cred EXCEPT ![w] = found]
              /\ IF EqualBinding(found, req[w]) THEN WriteResponse(w, 200)
                                                ELSE SendError(w, 409)
         \/ /\ Read(answers, None)
            /\ \E u \in Chosen(req[w].user, UserNames), p \in Chosen(req[w].pw, Passwords) :
                 cred' = [cred EXCEPT ![w] =
                   [url |-> ServerOf(inst[w]), db |-> inst[w].db, user |-> u, pw |-> p]]
            /\ Goto(w, "userExists")
  /\ UNCHANGED <<stardogVars, planMap, req, inst, todo>>

CheckUser(w) ==
  /\ pc[w] = "userExists"
  /\ \E reply \in BOOLEAN, exists \in BOOLEAN :
       /\ UserExists(cred[w].url, cred[w].user, reply, exists)
       /\ \/ ~reply /\ SendError(w, 500)
          \/ reply /\ exists /\ SendError(w, 409)
          \/ reply /\ ~exists /\ Goto(w, "newUser")
  /\ UNCHANGED <<storeVars, planMap, locals>>

MakeUser(w) ==
  /\ pc[w] = "newUser"
  /\ \E reply \in BOOLEAN :
       /\ NewUser(cred[w].url, cred[w].user, reply)
       /\ IF reply THEN Goto(w, "grantWrite") ELSE SendError(w, 500)
  /\ UNCHANGED <<storeVars, planMap, locals>>

GrantStep(w, at, action, next) ==
  /\ pc[w] = at
  /\ \E reply \in BOOLEAN :
       /\ Grant(cred[w].url, cred[w].user, cred[w].db, action, reply)
       /\ IF reply THEN Goto(w, next) ELSE SendError(w, 500)
  /\ UNCHANGED <<storeVars, planMap, locals>>

GrantWrite(w) == GrantStep(w, "grantWrite", "write", "grantRead")

\* Mutant of GrantRead: the action of the permission is still "write".
GrantReadAsWrite(w) ==
  GrantStep(w, "grantRead", "write", IF OnSql THEN "addBinding" ELSE "checkInstance")

(* The Stardog store looks the instance up again before it inserts. *)
GrantRead(w) ==
  GrantStep(w, "grantRead", "read", IF OnSql THEN "addBinding" ELSE "checkInstance")

(* Bind sends a failed AddBinding with the code of Plan.Bind, which is 200. *)
CheckInstance(w) ==
  /\ pc[w] = "checkInstance"
  /\ LET answers == GetInstance(req[w].inst)
     IN  \E answer \in answers \cup {None} :
           /\ Read(answers, answer)
           /\ IF answer # None THEN Goto(w, "addBinding") ELSE SendError(w, 200)
  /\ UNCHANGED <<stardogVars, planMap, locals>>

StoreBinding(w) ==
  /\ pc[w] = "addBinding"
  /\ \E reply \in BOOLEAN :
       /\ AddBinding(req[w].inst, req[w].bind, cred[w], reply)
       /\ IF reply THEN WriteResponse(w, 201) ELSE SendError(w, 200)
  /\ UNCHANGED <<stardogVars, planMap, locals>>

-----------------------------------------------------------------------------
(* UnBind *)

Unbind(w) ==
  /\ pc[w] = "unbind"
  /\ \E found \in InstanceData \cup {None} :
       /\ getServiceInstance(w, found)
       /\ inst' = [inst EXCEPT ![w] = found]
       /\ IF found # None THEN Goto(w, "unbindGet") ELSE SendError(w, 410)
  /\ UNCHANGED <<stardogVars, planMap, req, cred, todo>>

UnbindGet(w) ==
  /\ pc[w] = "unbindGet"
  /\ LET answers == GetBinding(req[w].inst, req[w].bind)
     IN  \E found \in answers \cup {None} :
           /\ Read(answers, found)
           /\ cred' = [cred EXCEPT ![w] = found]
           /\ IF found # None THEN Goto(w, "deleteBinding") ELSE SendError(w, 410)
  /\ UNCHANGED <<stardogVars, planMap, req, inst, todo>>

(* The record goes before the user does. *)
EraseBinding(w) ==
  /\ pc[w] = "deleteBinding"
  /\ \E reply \in BOOLEAN :
       /\ DeleteBinding(req[w].inst, req[w].bind, reply)
       /\ IF reply THEN Goto(w, "revokeWrite") ELSE SendError(w, 500)
  /\ UNCHANGED <<stardogVars, planMap, locals>>

-----------------------------------------------------------------------------
(* Plan.UnBind, called by UnBind and, for every binding, by RemoveServiceInstance *)

\* Mutant of UnBindReturns: RemoveServiceInstance stops at the first error.
UnBindReturnsOrFails(w, ok) ==
  \/ ~ok /\ SendError(w, 500)
  \/ ok /\ req[w].op = "remove" /\ Goto(w, "nextBinding")
  \/ ok /\ req[w].op = "unbind" /\ WriteResponse(w, 200)

(* RemoveServiceInstance logs an error of Plan.UnBind and goes on. *)
UnBindReturns(w, ok) ==
  \/ req[w].op = "remove" /\ Goto(w, "nextBinding")
  \/ req[w].op = "unbind" /\ ok /\ WriteResponse(w, 200)
  \/ req[w].op = "unbind" /\ ~ok /\ SendError(w, 500)

RevokeStep(w, at, action, next) ==
  /\ pc[w] = at
  /\ \E reply \in BOOLEAN :
       /\ Revoke(ServerOf(inst[w]), cred[w].user, cred[w].db, action, reply)
       /\ IF reply THEN Goto(w, next) ELSE UnBindReturns(w, FALSE)
  /\ UNCHANGED <<storeVars, planMap, locals>>

RevokeWrite(w) == RevokeStep(w, "revokeWrite", "write", "revokeRead")

\* Mutant of RevokeRead: the user keeps existing.
RevokeReadLast(w) ==
  /\ pc[w] = "revokeRead"
  /\ \E reply \in BOOLEAN :
       /\ Revoke(ServerOf(inst[w]), cred[w].user, cred[w].db, "read", reply)
       /\ UnBindReturns(w, reply)
  /\ UNCHANGED <<storeVars, planMap, locals>>

RevokeRead(w) == RevokeStep(w, "revokeRead", "read", "deleteUser")

RemoveUser(w) ==
  /\ pc[w] = "deleteUser"
  /\ \E reply \in BOOLEAN :
       /\ DeleteUser(ServerOf(inst[w]), cred[w].user, reply)
       /\ UnBindReturns(w, reply)
  /\ UNCHANGED <<storeVars, planMap, locals>>

-----------------------------------------------------------------------------

Handle(w) ==
  \/ CreateUnknownPlan(w) \/ CreateExisting(w) \/ CreateNew(w)
  \/ CreateDb(w) \/ StoreInstance(w)
  \/ Get(w)
  \/ Remove(w) \/ ListBindings(w) \/ ListSomeBindings(w) \/ NextBinding(w)
  \/ DeleteDb(w) \/ EraseInstance(w)
  \/ Bind(w) \/ FindBinding(w) \/ CheckUser(w) \/ MakeUser(w)
  \/ GrantWrite(w) \/ GrantRead(w) \/ CheckInstance(w) \/ StoreBinding(w)
  \/ Unbind(w) \/ UnbindGet(w) \/ EraseBinding(w)
  \/ RevokeWrite(w) \/ RevokeRead(w) \/ RemoveUser(w)

Next ==
  \/ \E w \in Workers : Handle(w) \/ Panic(w) \/ Return(w)
  \/ \E w \in Workers, r \in Requests : Receive(w, r)
  \/ Restart

Spec == Init /\ [][Next]_vars
=============================================================================
