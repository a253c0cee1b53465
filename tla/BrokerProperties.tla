-------------------------- MODULE BrokerProperties ---------------------------
(***************************************************************************)
(* What the broker owes the platform and the other users of the Stardog    *)
(* servers.                                                                *)
(***************************************************************************)
EXTENDS ServiceBroker, FiniteSets

(***************************************************************************)
(* GUIDs as the Open Service Broker API means them: an instance GUID names *)
(* one instance, so all its creations aim at one server, and a binding     *)
(* GUID names one binding of one instance.  The broker relies on this and  *)
(* checks none of it.                                                      *)
(***************************************************************************)
CONSTANTS
  Home,         \* the server of each instance GUID
  InstanceOf    \* the instance GUID of each binding GUID

ASSUME PlatformAssumption ==
  /\ Home \in [Instances -> Servers]
  /\ InstanceOf \in [Bindings -> Instances]
  /\ \A r \in Requests :
       /\ r.op = "create" /\ Inflates(r) => ServerOf(r) = Home[r.inst]
       /\ r.op \in {"bind", "unbind"} => r.inst = InstanceOf[r.bind]

-----------------------------------------------------------------------------

(* An instance the broker recorded: a perinstance one has the URL it needs. *)
InstanceRecords == {d \in InstanceData : Inflates(d)}

StardogOK ==
  /\ databases \subseteq Servers \X DbNames
  /\ users \subseteq Servers \X UserNames
  /\ grants \subseteq Servers \X UserNames \X DbNames \X Actions

StoreOK ==
  /\ instanceRows \subseteq [guid : Instances, data : InstanceRecords]
  /\ bindingRows \subseteq [inst : Instances, guid : Bindings, cred : Credentials]

Todos == SUBSET [guid : Bindings, cred : Credentials]

Responses == [code : {0, 200, 201, 400, 404, 409, 410, 500}, ok : BOOLEAN]

(* The type of every variable. *)
TypeOK ==
  /\ StardogOK
  /\ StoreOK
  /\ faults \in 0 .. MaxFaults
  /\ planMap \in Configs
  /\ pc \in [Workers -> Labels]
  /\ req \in [Workers -> Requests \cup {None}]
  /\ inst \in [Workers -> InstanceRecords \cup {None}]
  /\ cred \in [Workers -> Credentials \cup {None}]
  /\ todo \in [Workers -> Todos]
  /\ resp \in [Workers -> Responses]

(***************************************************************************)
(* Which handler a label belongs to, and which of its variables are set.   *)
(***************************************************************************)
UnbindLabels == {"revokeWrite", "revokeRead", "deleteUser"}

(* <<op, label>>: the handler of op can be at the label. *)
Positions ==
  ({"create"} \X {"create", "createDb", "addInstance"}) \cup
  ({"get"}    \X {"get"}) \cup
  ({"remove"} \X ({"remove", "listBindings", "nextBinding", "deleteDb",
                   "deleteInstance"} \cup UnbindLabels)) \cup
  ({"bind"}   \X {"bind", "getBinding", "userExists", "newUser", "grantWrite",
                  "grantRead", "checkInstance", "addBinding"}) \cup
  ({"unbind"} \X ({"unbind", "unbindGet", "deleteBinding"} \cup UnbindLabels))

(* serviceInstance is set. *)
InstLabels == Labels \ ({"idle", "done"} \cup Ops)

(* The user of serviceBinding is new or, for NewUserLabels, about to be checked. *)
BoundLabels == {"grantWrite", "grantRead", "checkInstance", "addBinding"}

NewUserLabels == {"userExists", "newUser"}

(* serviceBinding is set. *)
CredLabels == NewUserLabels \cup BoundLabels \cup UnbindLabels \cup {"deleteBinding"}

(* A handler is where its request can take it, with the variables set there. *)
HandlerOK(w) ==
  /\ pc[w] = "idle" => req[w] = None /\ todo[w] = {}
  /\ pc[w] # "idle" => req[w] # None
  /\ pc[w] \notin {"idle", "done"} => <<req[w].op, pc[w]>> \in Positions
  /\ pc[w] \in InstLabels => inst[w] # None
  /\ pc[w] \in CredLabels => cred[w] # None

TypeInv == TypeOK /\ \A w \in Workers : HandlerOK(w)

-----------------------------------------------------------------------------
(* Other applications of the Stardog servers. *)

(***************************************************************************)
(* The broker never deletes a database or a user it did not create, and    *)
(* never gives a permission to a user it did not create, whatever names    *)
(* requests ask for, however handlers interleave and whichever calls fail. *)
(* RemoveInstance and UnBind of the plans delete by name: what protects    *)
(* the others is that a name reaches a record only after a 201 of Stardog. *)
(***************************************************************************)
ForeignUntouched ==
  /\ ExistingDbs \subseteq databases
  /\ ExistingUsers \subseteq users
  /\ \A p \in grants : <<p[1], p[2]>> \notin ExistingUsers

DatabaseOf(data) == <<ServerOf(data), data.db>>

UserOf(c) == <<c.url, c.user>>

(***************************************************************************)
(* Why: every database and user a record names was new when the broker     *)
(* made it, and all records of an instance are about its one server.       *)
(***************************************************************************)
RecordsOurs ==
  /\ \A r \in instanceRows :
       ServerOf(r.data) = Home[r.guid] /\ DatabaseOf(r.data) \notin ExistingDbs
  /\ \A r \in bindingRows :
       /\ r.inst = InstanceOf[r.guid]
       /\ r.cred.url = Home[r.inst] /\ UserOf(r.cred) \notin ExistingUsers

(* The user name c, on the server of the request's instance. *)
OwnUser(w, c) == <<Home[req[w].inst], c.user>> \notin ExistingUsers

HandlerOurs(w) ==
  /\ pc[w] \in InstLabels =>
       /\ ServerOf(inst[w]) = Home[req[w].inst]
       /\ pc[w] # "createDb" => DatabaseOf(inst[w]) \notin ExistingDbs
  /\ pc[w] \in NewUserLabels \cup BoundLabels => cred[w].url = Home[req[w].inst]
  /\ pc[w] \in CredLabels \ NewUserLabels => OwnUser(w, cred[w])
  /\ \A t \in todo[w] : OwnUser(w, t.cred)

ForeignInv == ForeignUntouched /\ RecordsOurs /\ \A w \in Workers : HandlerOurs(w)

-----------------------------------------------------------------------------
(* Who answers for a database or a user: a record, or a handler on the way. *)

BeingErased(r) == \E w \in Workers : pc[w] = "deleteInstance" /\ req[w].inst = r.guid

RecordsOf(db) == {r \in instanceRows : DatabaseOf(r.data) = db /\ ~BeingErased(r)}

CreatorsOf(db) == {w \in Workers : pc[w] = "addInstance" /\ DatabaseOf(inst[w]) = db}

(***************************************************************************)
(* One request at a time per instance, and no call that takes effect while *)
(* its answer is lost: every database the broker made belongs to exactly   *)
(* one instance record or one creation about to record it, and every such  *)
(* record or creation has its database.  CreateServiceInstance calls       *)
(* Stardog first and the store second, RemoveServiceInstance likewise.     *)
(***************************************************************************)
DatabaseOwnership ==
  \A db \in Servers \X DbNames :
    Cardinality(RecordsOf(db)) + Cardinality(CreatorsOf(db)) =
      IF db \in databases \ ExistingDbs THEN 1 ELSE 0

(* RemoveServiceInstance is past the binding. *)
BeingUnbound(r) ==
  \E w \in Workers :
    /\ pc[w] \in UnbindLabels \cup {"nextBinding", "deleteDb", "deleteInstance"}
    /\ req[w].op = "remove" /\ req[w].inst = r.inst
    /\ [guid |-> r.guid, cred |-> r.cred] \notin todo[w]
    /\ pc[w] \in UnbindLabels => cred[w] # r.cred

BindingsOf(user) == {r \in bindingRows : UserOf(r.cred) = user /\ ~BeingUnbound(r)}

BindersOf(user) ==
  {w \in Workers : pc[w] \in BoundLabels /\ UserOf(cred[w]) = user}

UnbindersOf(user) ==
  {w \in Workers : /\ pc[w] \in UnbindLabels
                   /\ req[w].op = "unbind"
                   /\ UserOf(cred[w]) = user}

(***************************************************************************)
(* One request at a time per instance, SQL store, until the first fault:   *)
(* every user the broker made belongs to exactly one binding record, one   *)
(* Bind about to record it or one UnBind about to delete it, and each of   *)
(* these has its user.                                                     *)
(***************************************************************************)
UserOwnership ==
  faults = 0 =>
    \A user \in Servers \X UserNames :
      Cardinality(BindingsOf(user)) + Cardinality(BindersOf(user))
        + Cardinality(UnbindersOf(user)) =
        IF user \in users \ ExistingUsers THEN 1 ELSE 0

(* No record and no handler knows of them any more. *)
LostDatabases ==
  {db \in databases \ ExistingDbs :
     /\ \A r \in instanceRows : DatabaseOf(r.data) # db
     /\ CreatorsOf(db) = {}}

LostUsers ==
  {user \in users \ ExistingUsers :
     /\ \A r \in bindingRows : UserOf(r.cred) # user
     /\ BindersOf(user) \cup UnbindersOf(user) = {}}

(***************************************************************************)
(* One request at a time per instance, SQL store, one binding per          *)
(* instance: a call that fails leaves at most one database or user behind  *)
(* with no record of it, be it the creation the controller cannot record   *)
(* ("Resources leaked"), the second permission of GrantUserAccessToDb, a   *)
(* binding GetAllBindings leaves out or a call of UnBind; and nothing is   *)
(* left behind without a failure, however often requests repeat.           *)
(***************************************************************************)
LeaksBounded == Cardinality(LostDatabases) + Cardinality(LostUsers) <= faults

-----------------------------------------------------------------------------
(* What a response tells the platform, while it has not yet sent another   *)
(* request for the instance.                                               *)

Answered(w, op, codes) == pc[w] = "done" /\ req[w].op = op /\ resp[w].code \in codes

Recorded(g) == {r.data : r \in {i \in instanceRows : i.guid = g}}

RecordedBindings(g, b) ==
  {r.cred : r \in {i \in bindingRows : i.inst = g /\ i.guid = b}}

(* 200 or 201: the instance is recorded as requested and has its database. *)
CreateAnswer ==
  \A w \in Workers :
    Answered(w, "create", {200, 201}) =>
      \E d \in Recorded(req[w].inst) :
        /\ d.plan = req[w].plan /\ d.meta = req[w].meta
        /\ req[w].db \in {d.db, None}
        /\ DatabaseOf(d) \in databases

(* 200 shows the record of the instance, 404 says there is none. *)
GetAnswer ==
  \A w \in Workers :
    /\ Answered(w, "get", {200}) => Recorded(req[w].inst) = {inst[w]}
    /\ Answered(w, "get", {404}) => Recorded(req[w].inst) = {}

(* 200: the instance is not recorded any more.  RemoveServiceInstance drops
   the error of DeleteInstance.                                             *)
RemoveAnswer ==
  \A w \in Workers :
    Answered(w, "remove", {200}) => Recorded(req[w].inst) = {}

(* 200: no binding of the instance is recorded any more. *)
RemoveDropsBindings ==
  \A w \in Workers :
    Answered(w, "remove", {200}) => \A r \in bindingRows : r.inst # req[w].inst

(* 410: there is no such instance or binding. *)
GoneAnswer ==
  \A w \in Workers :
    /\ Answered(w, "remove", {410}) => Recorded(req[w].inst) = {}
    /\ Answered(w, "unbind", {410}) => RecordedBindings(req[w].inst, req[w].bind) = {}

(* 200 or 201: the binding is recorded. *)
BindAnswer ==
  \A w \in Workers :
    Answered(w, "bind", {200, 201}) => RecordedBindings(req[w].inst, req[w].bind) # {}

(* ... and its credentials open the database of the instance. *)
BindGivesAccess ==
  \A w \in Workers :
    Answered(w, "bind", {200, 201}) =>
      \A c \in RecordedBindings(req[w].inst, req[w].bind), a \in Actions :
        /\ <<c.url, c.db>> \in databases
        /\ <<c.url, c.user, c.db, a>> \in grants

(* 200: the binding is not recorded any more. *)
UnbindAnswer ==
  \A w \in Workers :
    Answered(w, "unbind", {200}) => RecordedBindings(req[w].inst, req[w].bind) = {}

(***************************************************************************)
(* One request at a time per instance, SQL store, Stardog calls that fail  *)
(* without effect and transactions that do not begin: every answer of a    *)
(* handler is true of the records and of the Stardog server.  Credentials  *)
(* are only good until the first fault: a RemoveServiceInstance that fails *)
(* at its last call has deleted the users and leaves their records.        *)
(***************************************************************************)
AnswersTrue ==
  /\ CreateAnswer /\ GetAnswer /\ RemoveAnswer /\ RemoveDropsBindings
  /\ GoneAnswer /\ BindAnswer /\ UnbindAnswer
  /\ faults = 0 => BindGivesAccess

-----------------------------------------------------------------------------
(* What the comments and tests of the repository say and the code does not do. *)

(* A 500 of UnBind leaves a record to try again with, or no user.           *)
UnbindRetryable ==
  \A w \in Workers :
    Answered(w, "unbind", {500}) /\ cred[w] # None =>
      \/ RecordedBindings(req[w].inst, req[w].bind) # {}
      \/ UserOf(cred[w]) \notin users

(* With nothing in flight, a user the broker made belongs to a binding.     *)
NoUserLeftBehind ==
  (\A w \in Workers : pc[w] = "idle") =>
    \A user \in users \ ExistingUsers : \E r \in bindingRows : UserOf(r.cred) = user

-----------------------------------------------------------------------------
(* The scheduler runs every goroutine, and net/http delivers every response. *)
FairSpec == Spec /\ \A w \in Workers : WF_vars(Handle(w)) /\ WF_vars(Return(w))

(***************************************************************************)
(* Every request comes to an end: the loop of RemoveServiceInstance, which *)
(* goes on after errors, runs out of bindings.                             *)
(***************************************************************************)
EveryRequestEnds == \A w \in Workers : pc[w] # "idle" ~> pc[w] = "idle"

(* A platform that does not give up sends the removal again and again.      *)
Removals(g) == {r \in Requests : r.op = "remove" /\ r.inst = g}

RetrySpec ==
  FairSpec /\ \A g \in Instances :
                SF_vars(\E w \in Workers, r \in Removals(g) : Receive(w, r))

(***************************************************************************)
(* With requests of Stardog that fail without effect, a removal tried      *)
(* often enough succeeds: RemoveServiceInstance keeps the record until the *)
(* database is gone and can start again from any point.                    *)
(***************************************************************************)
RemovalSucceeds == \A g \in Instances : Recorded(g) # {} ~> Recorded(g) = {}
=============================================================================
