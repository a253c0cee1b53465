# Verification of the Stardog service broker

The broker implements the Open Service Broker API: a platform (Cloud Foundry)
asks it over HTTP to create and remove *service instances* and to bind and
unbind applications.  An instance is a database on a Stardog server, a binding
is a user of that server with a permission on the database.  The broker keeps
its records in a *store*.  This directory holds TLA+ modules of the broker, the
configurations that check them with TLC, and theorems about them checked by TLAPS.

The question behind most of it: three parties hold state (the store, the
Stardog servers, the platform), the handlers change it with one remote call at
a time, take no lock, use no transaction across the parties, and undo nothing.
Do the three still agree, and if not, exactly when?

## The system

| component | source | state | operations | what makes it correct |
|---|---|---|---|---|
| request handlers | `broker/controller.go` | locals of one goroutine per request; the plan map, constant after start-up | CreateServiceInstance, GetServiceInstance, RemoveServiceInstance, Bind, UnBind, Catalog | a success means what it says; nothing is made without a record or deleted without being ours; every request ends |
| plans | `plans/shared`, `plans/perinstance` | the parameters of one instance | InflatePlan, CreateServiceInstance, RemoveInstance, Bind, UnBind, EqualInstance, EqualBinding | a name is used only after the server accepted it as new |
| Stardog client | `broker/stardog_client.go` | none; the servers hold databases, users, permissions | CreateDatabase, DeleteDatabase, UserExists, NewUser, DeleteUser, GrantUserAccessToDb, RevokeUserAccess, Query, AddData | an error for every unexpected status |
| SQL store | `store/sql/mysql.go` | tables `service_instance`, `bindings`; a connection pool | the seven operations of `broker.Store`; start-up | unique GUIDs; a binding goes with its instance; connections come back |
| Stardog store | `store/stardog/stardog.go` | triples of a metadata database | the same | the same, but nothing in the code ensures it |
| memory store | `store/memory/memory.go` | two maps | the same | tests only; no lock |
| HTTP server | `broker/server.go` | listener, `doneChannel` | Start, Wait, Stop, GetAddr | a return of Wait means Serve is over; someone gets it once the listener is closed |
| start-up | `main.go`, `NewMySQLStore`, `NewStardogStore` | configuration; the schema on MySQL, the metadata database on Stardog | main, handlePlugins, createMetaDatabase | no service without a complete store; a usable configuration serves in the end; the records do not move |
| helpers, documents, logger | `broker/utils.go`, `models.go`, `interfaces.go`, `plans.go`, `sdlog.go` | none | WriteResponse, SendError, HTTPBasicCheck, GetRandomName, ... | |

Interaction: net/http starts a goroutine per request, which runs a handler.  A
handler looks the instance up in the store, inflates its plan, and calls the
plan and the store in an order of its own; the plan calls the client, and the
client a Stardog server.  Concurrency is between goroutines, and it shows only
in the store and on the servers.

What is hard here (the list with lines is in `PROJECT.json`, "hazards"):
failures between two calls, replies that are lost, restarts in the middle of a
handler, errors that are dropped or taken for "not there", two handlers on one
GUID, repetition by the platform, a store without keys, a start-up that ends
half-way, a session that is not the one the next statement gets, connections
that never come back, and a channel that carries one value for two receivers.

## The modules

| module | models |
|---|---|
| `Faults` | what can go wrong with a remote call: no effect and an error, or the effect and an error; counted and bounded |
| `Stardog` | the servers behind `stardog_client.go`: `databases`, `users`, `grants` |
| `SqlStore`, `StardogStore` | the two implementations of `broker.Store`, over the same two variables `instanceRows` and `bindingRows` |
| `Store` | `broker.Store`: dispatch to the implementation main.go selects |
| `ServiceBroker` | the handlers with the plans, composed with `Store` and `Stardog`; the platform; restarts |
| `BrokerProperties` | types, invariants, ownership, what answers mean, liveness |
| `AtomicBroker` | the abstract broker: each request acts on the records at most once, in one step that decides its answer |
| `BrokerRefinement` | the mapping from `ServiceBroker` to `AtomicBroker` |
| `MCServiceBroker` | small instances for TLC |
| `Startup` | main.go up to the server: the configuration, the plans, NewMySQLStore statement by statement with the VCAP selection, NewStardogStore |
| `ServerLifecycle` | Start, Wait and Stop: the listener, the goroutine of Serve, the receivers of `doneChannel` |
| `SqlConnections` | mysql.go as a user of connections: what each call takes and gives back, the pool, MySQL's limit |
| `BrokerProcess` | the composition of the three over the life of a process, with crashes and the next start; or a program that embeds the server |
| `ProcessProperties` | its types, promises and inductive invariants |
| `MCBrokerProcess` | fifteen configurations and four VCAP_SERVICES for TLC |
| `ServiceBrokerProofs` | proofs of the types, and of what every store and server operation does |
| `ForeignProofs` | proof that other applications' databases and users are safe |
| `StepProofs` | lemmas, no theorem to read: what each action does to its own handler, and that nothing else moves |
| `RefinementProofs` | proof that `ServiceBroker` implements `AtomicBroker` |
| `SerialProofs` | proofs about records, databases and bindings under serialization |
| `UserProofs` | proofs about users, permissions and answers |
| `LeakProofs` | proof of the bound on what failures leave behind |
| `ProcessProofs` | proofs about `BrokerProcess` |

Two systems share the parts: `ServiceBroker` is the inside of a broker that
serves (what the handlers do to records and servers), `BrokerProcess` the
outside (how it comes to serve, what it uses meanwhile, how it ends).  They
meet where a call of the store fails: in `ServiceBroker` that is a fault of kind
`storeBegin` or `storeWrite`; `BrokerProcess` says when a missing connection can
be the reason.

### State and code

* `pc[w]` is the next remote call of goroutine `w`; each label is named after
  the call (`"createDb"` is `client.CreateDatabase`).  Everything between two
  remote calls happens in one step, together with the call before it: goroutines
  share nothing else.
* `req[w]`, `inst[w]`, `cred[w]`, `todo[w]` are the handler's request,
  `serviceInstance`, `serviceBinding` (in Bind: the `responseCred` being made)
  and the part of `bindMap` not visited yet.
* `resp[w]` is the status and whether `WriteResponse` or `SendError` wrote it.
* A row `[guid, data]` is a record of an instance, a row `[inst, guid, cred]`
  one of a binding.  A document is a record of the fields the code compares or
  uses: organization, space and service ID are one field `meta`, and the URL,
  user and password of the perinstance plan one field `url`.
* A read of the store is a set of possible answers, `None` standing for every
  Go error; a write takes the `reply`, TRUE for a nil error.
* `GetRandomName` is any name (`Chosen`): a collision with an existing name is
  possible in the model as it is, with small probability, in the code.

Four details of the code that the model keeps because they matter: a
*failed* lookup is the same as a missing record (`getServiceInstance`);
`GetBinding` and `DeleteBinding` of the SQL store ignore the instance GUID; the
Stardog store keeps a `datais` value per insertion and answers with any of
them; `Begin` errors are dropped, so a handler panics and the platform gets no
answer (`Panic`).

Where the repository does not say what a Stardog server answers (granting on a
missing database, revoking a permission that is not there, `delete where`
without a match) the model allows both answers.

### State and code of the process

* `stage` is what main does next: one stage per statement sent to MySQL and per
  request to Stardog, "server" for Start, "serving" from then on, "exited" for
  every `os.Exit` and return.  `conf` is the configuration file together with the
  `MYSQL_*` variables; it stays the same from start to start.  `vcap` is
  VCAP_SERVICES, which each start may find changed.
* `schema` and `databases` are on the servers and outlive the process.  A MySQL
  "server" stands for the address and database its credentials give.  `selected`
  says whether the session that gets the next statement is the one that saw
  `USE`: `createMetaDatabase` runs it on a `sql.DB`, whose connection may break
  and be replaced in between (`LoseSession`).
* `target` is history: the MySQL server chosen last.
* `listener`, `serving` and `thread[t]` are the socket, the goroutine of Start
  and the goroutines that call Wait and Stop.  `doneChannel` has no buffer, so
  sending and receiving are one step (`Done`).
* `conf = Unset` is a program that embeds `broker.Server`, as the tests do, and
  calls Wait and Stop(true or false) from any goroutines in any order, once each.
* `idle`, `holding`, `calling[h]` and `abandoned` count connections; `listings`,
  the calls of GetAllBindings, is history.  A call that gets no connection goes to
  "refused", where the handler reports the error or panics.  `abandoned` are the
  transactions of GetAllBindings, which only a path with an error ends.  MySQL may
  end sessions that are silent (`TimeOutSession`), and does not have to.

### Faults

`storeRead`, `storeBegin`, `storeWrite`: a store call fails before its effect.
`stardogCall`: the same for a server.  `storeReplyLost`, `stardogReplyLost`: the
call takes effect and the handler sees an error.  `restart`: every handler is
gone, and the broker comes back with any configuration of `Configs`.
`storePartial`: GetAllBindings yields a part of the bindings as if it were all,
because `rows.Err` is not looked at (`ListSomeBindings`).  For the process:
`sessionLost` (above), `listen` and `accept` (net.Listen, Serve), and `restart`.
`MaxFaults` bounds how many strike in a behaviour.

## What the runs show

`Process` and `WaitAndStop` use `MCBrokerProcess`, all other runs `MCServiceBroker`.  Instances `g1`, `g2`; bindings `b1` of `g1` and
`b2` of `g2`; two workers (one in the sequential counterexamples).  Two workers
are enough for every race of two handlers; a third adds no new pair.  Two
database names and two user names make a random name collide with a requested
one.  `Serialized` is the platform's rule of one outstanding request per
instance, which the broker relies on and does not enforce.

| run | instance | shows |
|---|---|---|
| `Serial` | SQL, serialized, two instances, both plans, two of: a Stardog call or `Begin` that fails, a partial list of bindings | `TypeOK`; `DatabaseOwnership`: every database the broker made belongs to exactly one record or creation in progress, and each of those has its database; `UserOwnership`: the same for users and bindings, until the first fault; `AnswersTrue`: every status is true of the records and of the server; `LeaksBounded`: databases and users that no record and no handler knows are no more than the faults |
| `Foreign` | Stardog store, one instance, not serialized, all faults (two), requests and random choices may name database `dx` and user `ux` of another application | `ForeignUntouched`: they survive and get no permission |
| `AtomicCreations`, `AtomicBindings` | SQL, not serialized, contradicting requests for one GUID, one fault | `ActsAtomically`: the handlers refine `AtomicBroker` |
| `Retry` | SQL, serialized, two instances, fair, one fault: a call of Stardog without effect, or a read, list, `Begin` or reply of the store | `RemovalSucceeds`: a removal repeated for ever succeeds; `EveryRequestEnds`; `LeaksBounded` with repetition |
| `Process` | fifteen configurations, seven of which can lead to a server; two faults of every kind of the process; three threads, two handlers | see below |
| `BindAnswered` | one failed write | violation: Bind answers 200 for a binding that was not recorded |
| `UnbindFails` | one failed Stardog call | violation: UnBind leaves a user with access that no request reaches |
| `RemoveOnStardog` | Stardog store, no fault | violation: a removed instance leaves its bindings recorded |
| `BindRacesRemove` | two handlers, no fault | violation: Bind racing RemoveServiceInstance leaves a user behind |
| `RetryLostReply` | one lost reply of DeleteDatabase | violation: the instance can never be removed |
| `WaitAndStop` | a program that embeds the server, two goroutines, no fault | violation: with one goroutine in Wait and one in Stop(true), one stays blocked for ever |

The faults of a run are those its properties survive.  `AnswersTrue` fails with
`storeRead` (a failed read is answered 410 or taken for absence,
controller.go:211, 334, 339) and `storeWrite` (Bind's 200, the dropped error of
`DeleteInstance`); its part about credentials fails once `RemoveInstance` fails
after the users were deleted.  `ActsAtomically` excludes the same two kinds and
keeps lost replies, failed calls and restarts.  `UserOwnership` fails with any
fault in Bind, which undoes nothing.

The abstract broker is about the *records*: `Provision`, `Deprovision`, `BindApp`
and `UnbindApp` each change them in one step.  A handler has acted once its
store write is done; UnBind is the one handler that goes on afterwards (phase
"applied").  What the theorem of atomicity rests on is the unique keys, the
cascade and the row counts of the SQL store: without a key, TLC finds two
creations that are both answered 201.

`LeaksBounded` assumes no restart (one may cut off several handlers) and one
binding per instance (a removal that breaks off may strand a user per binding).
What it excludes is that one failure, together with everything the platform
then repeats, costs more than one database or user.

`Process`:

* `ServesOnlyWhenReady`: whatever an earlier start left half done and whichever
  statement was refused, lost its reply or its session, the process listens only
  with a usable configuration and with the database and both tables (or the
  metadata database) on the server meant.
* `GoodConfigurationServes`: a configuration that is usable from some time on
  comes to serve and stays at it.  It rests on every statement saying IF NOT
  EXISTS, on `USE` before each creation of tables, and on the next start finding
  what the last one, or another process, made.
* `MetadataStaysPut`: with a service name in the configuration (or
  MYSQL_SERVICE_NAME), every start chooses the same MySQL server, however
  VCAP_SERVICES is ordered.  Without a name the first service is taken, and TLC
  moves the records by listing another one first.
* `RefusedOnlyWhenDrained`: a handler is refused a connection only when the calls
  of GetAllBindings so far, and the other handlers, can hold all of MySQL's
  sessions: `listings + |Goroutines| > MaxConnections`.  With MySQL's default of
  151 connections that is some 150 removals of instances within `wait_timeout`.
* `WaitEndsAfterServe` and `StopReleasesOne`: a goroutine returns from Wait or
  Stop(true) only after Serve is over and the listener closed, and once the
  listener is closed one of those that wait does return.  More does not hold:
  `doneChannel` carries one value, and any other receiver stays blocked.  The
  comment on Wait says that it blocks until Stop is called; `WaitAndStop` states
  that as `StopEndsWait`, and TLC finds the goroutine that stays.

Its bounds: `MaxIdle` 1 and two handlers, so that a connection given back is
closed when the pool is full; `MaxConnections` 3 and `MaxListings` 3, so that the
sessions run out through abandoned transactions alone and through them together
with a handler; three threads, so that two wait and one stops; two faults, so
that one start fails half-way and the next one meets another failure.  The two
MySQL servers and plans suffice for the selection, which compares one service
at a time.  The store's handlers run in main's server only.

Deadlock is checked in every run but `Process` and `WaitAndStop`, where an
embedding program really stops: its goroutines may all be blocked in Wait or
done.  In the others an idle worker can always receive a request.

### Fairness

`FairSpec` gives every handler and every delivery of a response weak fairness:
the Go scheduler runs every goroutine, and each remote call returns (the code
sets no timeout, so this is an assumption about the network, see the hazards).
`RetrySpec` adds strong fairness of the platform's removal requests for each
instance: the platform does not give up.  It is strong because, serialized, a
removal is only possible between other requests of the instance.
`ProcessFairSpec` gives weak fairness to main (`MainStep`), to the goroutine of
Start and its receivers (`Listening`) and to the platform that starts a process
that exited (`Again`): main is sequential and the Go scheduler runs every
goroutine that can go on.  Nothing is assumed of the handlers, of Stop, of other
processes or of MySQL's timeout.

## What is proved

* `TypeCorrect` (`ServiceBrokerProofs`): `Spec => [](TypeOK /\ \A w : HandlerOK(w))`
  for every value of the constants that satisfies the named assumptions.
  `TypeOK` alone is not inductive: that a step uses `inst[w]` or `cred[w]` as a
  record needs `HandlerOK`, which says at which labels each handler can be and
  which of its locals are set there.  Lemmas on the effect and the type of each
  store and server operation come first, then one lemma per action.
* `ForeignSafe` (`ForeignProofs`): `Spec => []ForeignUntouched`, with either
  store, any faults, restarts, and any number of concurrent handlers.  The
  handlers delete databases and users *by name*, so the property depends on where
  a name comes from.  The strengthening `ForeignInv` adds: no record names a
  database or user of another application (`RecordsOurs`), nor does a handler
  that is past the server's 201 (`HandlerOurs`); all of an instance's records
  aim at the instance's server.  The last part rests on `PlatformAssumption`: a
  GUID is not reused for another server or another instance.  Without it the
  theorem is false: UnBind deletes the user on the server of the *instance*, not
  of the binding.

* `Implements` (`RefinementProofs`): `AtomicSetting => (Spec => ActsAtomically)`,
  with `ActsAtomically == Atomic!Spec` of `BrokerRefinement`.  `RefinesInit` takes
  `Init` to the abstract `Init`, and a lemma for each handler takes its steps to
  `Provision`, `Deprovision`, `BindApp`, `UnbindApp`, an answer that changes
  nothing, or a stutter, over the mapping `Phase` of a handler.  It needs no serialization,
  and it admits lost replies, failed calls, panics and restarts that
  find the same plans.
  The invariant is `AskedInv`: the types, that the plan of every record is
  configured, and that what a handler has in hand is what was asked for
  (`Asked`).  A write that reports success did its work because of the unique
  keys and the row counts of the SQL store.

The theorems that follow are about a platform with one request at a time
outstanding per instance.  Their invariants build on each other:

* `DatabasesOwned` (`DatabaseOwnership`) and `CreationsAnswered` (`CreateAnswer`)
  in `SerialProofs`, on both stores.  `RecordsInv` says that no two handlers work
  on an instance (`OneRequest`), that a GUID has one record (`OneRecord`; the
  Stardog store has no key, so only serialization gives it) and that a handler
  knows the record of its instance (`InstanceKnown`).  `DatabasesInv` adds the
  *owners* of databases: records that no removal is about to erase, and the
  record a creation is about to make.  Each owner has its database
  (`OwnersServed`), none shares it (`OwnersDiffer`), and each database of the
  broker has one (`AllOwned`).  `DatabaseOwnership` counts owners of each kind;
  without the three together it is not inductive, as a step hands a database
  from one kind of owner to another.  The runs check both on the SQL store
  (`CreateAnswer` is a part of `AnswersTrue`); on the Stardog store, and for
  instances on several servers, they rest on the theorems.
* `BindingsInv` (also `SerialProofs`, on the SQL store) adds the foreign key and
  the unique key of the bindings, that a binding is for the database of its
  instance (`BindingsFit`), and that a handler knows the binding it binds or
  unbinds (`BindingKnown`) and the list it works through (`ListedKnown`).
* `UsersOwned` (`UserOwnership`) and `AnswersAreTrue` (`AnswersTrue`) in
  `UserProofs`.  `UsersInv` is `BindingsInv` and, *until the first fault*,
  `UsersKept`: owners of users as above, where a removal gives up a user
  when it takes the binding from its list (`TakenFromList`); the bindings of one
  instance have different users even while it is removed (`RowsDiffer`); and
  every permission that was given and is not being revoked is there (`Granted`).
  The last is needed because a Stardog server may refuse to revoke what is not
  there, and then Plan.UnBind stops before it deletes the user.
* `LeaksAreBounded` (`LeaksBounded`) in `LeakProofs`.  `LeaksBounded` is far from
  inductive: the user a failure costs may lose its record only much later, and
  without a further failure.  `LeaksInv` counts such users at the fault: a user
  is `Forsaken` when no record and no handler will get to it if nothing fails
  from now on (`KeptFor`), because a list left it out, its permission is
  missing, or the handler that had it is gone.  Each step makes no user
  forsaken without a fault and one at most with a fault (`Spares`), lost users
  are forsaken ones, and no database is ever lost (`LostCounted`).

Their hypotheses are named settings, constant-level formulas over what may fail,
and the runs named here, which check the same properties, meet them:

| setting | says | why |
|---|---|---|
| `AtomicSetting` | SQL store; no `storeRead`, no `storeWrite`; every restart finds the same plans | the controller takes the two failures for something else (see above); a plan removed from the configuration hides its records.  `AtomicCreations`, `AtomicBindings` |
| `SerialSetting` | `Serialized`; no `storeRead`, `storeWrite`, `storeReplyLost`, `stardogReplyLost`, `restart` | the platform's rule; with any of these faults the broker and its servers part, as it undoes nothing.  Calls of Stardog may fail, transactions may not begin, lists may be cut short.  `Serial` |
| `SqlSetting` | `SerialSetting` on the SQL store | the Stardog store leaves bindings of removed instances (`RemoveOnStardog`) |
| `LeakSetting` | `SqlSetting`, one binding GUID per instance | a removal that breaks off strands one user per binding.  `Serial` |

* In `ProcessProofs`, for every value of the constants of `BrokerProcess`:
  * `ReadySafe` (`ServesOnlyWhenReady`), by `ReadyInv`: what main knows at each
    stage from the answers so far.  It is inductive because an answer without
    error implies the effect (`CreateMakes`) and no one takes objects away.
  * `WaitSafe` (`WaitEndsAfterServe`), by `WaitInv`: the goroutine of Start sends
    only when the listener is closed, and before it has sent no thread has
    received.
  * `ConnectionsSafe` (`RefusedOnlyWhenDrained`), by `ConnectionsInv`: whoever is
    outside a call holds no connection, and the abandoned sessions together with
    the calls of GetAllBindings in progress are at most the calls so far.  The
    refused handler holds none, so the others hold at most
    `Cardinality(Goroutines) - 1` (`RefusedDrained`).
  * `TargetStays` (`MetadataStaysPut`), by `TargetInv`: the last target was found
    under the configured name in some VCAP_SERVICES; `NamedServer` shows that any
    two finds agree.
  * `ProcessTypes` (`ProcessTypeOK`), by `StartupTypeInv`, `WaitInv` and
    `ConnectionsInv` together: the bound of `abandoned` needs the last, that no
    statement goes to an unknown server needs the first.
  The assumptions are `ConnectionsAssumption`, `ProcessAssumption` and
  `VcapAssumption`: in any two VCAP_SERVICES one name means one server, as names
  are unique in a Cloud Foundry space.

The assumptions on constants (those above, `FaultAssumption`,
`StorageAssumption`, `BrokerAssumption`, `NoneAssumption`, `PlatformAssumption`)
are evaluated by TLC in every run of the module that states them.

So every invariant and every safety property of the passing runs has a theorem.
Only model-checked: liveness (`EveryRequestEnds`, `RemovalSucceeds`,
`GoodConfigurationServes`, `StopReleasesOne`), which with ENABLED is outside what
the prover does; `LeaksBounded` where the faults of `Retry` go beyond
`LeakSetting` (a failed read, a lost reply of the store); and the violations.
Induction over data and RECURSIVE operators are out of reach too, and none is
used: the first service of a list is a CHOOSE with a condition, not a loop.

## Not modelled

* Catalog, GetAddr and the getters of the plans, logging, HTTP authentication and
  JSON parsing: they change no state, and a request that fails them never
  reaches a handler's first call.
* The text of responses, and that `WriteResponse` takes it for a format string.
* Ports, credentials, the log file; the exit codes of main.  A missing
  `log_level` is a configuration that never serves, as in the code, although the
  repository's README (line 32) calls INFO the default.
* `AddDocument`, `doRequestResponse`, `getNewParameters`: no caller.
* The memory store: the tests' double, which main cannot select.  It has no lock,
  so concurrent handlers have no outcome to state a property about.
* Connections of the Stardog client (bodies of responses are not closed
  everywhere); calls that never return (`http.Client` has no timeout): the code
  gives no bound, and every liveness property assumes that calls return.
* Handlers and start-up in one state space: `ServiceBroker` restarts into any
  configuration at once, and `BrokerProcess` shows what a start does.
* Other applications that create databases and users while the broker runs.

## Plan

Done: all modules and runs above, and a theorem for every safety property of the
passing runs.  What is left:

1. `LeaksAreBounded` with failed reads and lost replies of the store, as in
   `Retry`; `DatabasesOwned` with the faults its text excludes, in the weaker form
   that holds then.
2. An abstract `StoreContract` that `SqlStore` refines, with the two places where
   `StardogStore` does not.
3. Other applications that act while the broker runs.
