---------------------------- MODULE ProcessProofs ----------------------------
(***************************************************************************)
(* For every set of configurations, services, threads and handlers, every  *)
(* limit of the pool and of MySQL and any number of faults: the process    *)
(* serves only with a store that is ready, Wait and Stop(true) return only *)
(* after Serve, and connections run out only by removals.                  *)
(***************************************************************************)
EXTENDS ProcessProperties, FiniteSetTheorems, TLAPS

-----------------------------------------------------------------------------
(* ServesOnlyWhenReady *)

(* What main knew it still knows after a step that leaves it where it is. *)
LEMMA ReadyStays ==
  ASSUME ReadyInv, UNCHANGED <<conf, vcap, stage, target>>,
         schema \subseteq schema', databases \subseteq databases'
  PROVE  ReadyInv'
<1>1. UNCHANGED <<Embedded, Usable>>
  BY DEF Embedded, Usable
<1>2. StoreReady => StoreReady'
  BY DEF StoreReady
<1>3. \A o \in Objects : Made(o) => Made(o)'
  BY DEF Made
<1> QED BY <1>1, <1>2, <1>3 DEF ReadyInv, Embedded, Objects

(* Nothing is claimed of a process that exited. *)
LEMMA ReadyExited ==
  ASSUME stage' = "exited" PROVE ReadyInv'
  BY DEF ReadyInv, SqlStages, Stages

(* main decides what to do and has asked no server yet. *)
LEMMA ReadyConfigured ==
  ASSUME ReadyInv, LoadConfiguration \/ ChooseStore PROVE ReadyInv'
<1>1. CASE LoadConfiguration
  BY <1>1, ReadyExited DEF LoadConfiguration, Proceed, Abort, ReadyInv, SqlStages, Stages, Embedded
<1>2. CASE ChooseStore /\ stage' = "exited"
  BY <1>2, ReadyExited
<1>3. CASE ChooseStore /\ stage' # "exited"
  <2>1. Embedded \/ (conf.parses /\ NewSdLogger(conf.level) /\ handlePlugins(conf.plans))
    BY <1>3 DEF ChooseStore, ReadyInv
  <2> QED BY <1>3, <2>1 DEF ChooseStore, Proceed, Abort, ReadyInv, SqlStages, Stages, Embedded
<1> QED BY <1>1, <1>2, <1>3

(* An answer without error says that the object is there. *)
LEMMA CreateMakes ==
  ASSUME NEW at, NEW object, NEW possible, NEW next,
         Create(at, object, possible, next)
  PROVE  /\ stage = at
         /\ UNCHANGED <<conf, vcap, target, databases>>
         /\ schema \subseteq schema'
         /\ stage' = "exited" \/ (stage' = next /\ Made(object)')
<1>1. PICK reply \in BOOLEAN :
        /\ \/ /\ schema' = IF possible THEN schema \cup {<<target, object>>} ELSE schema
              /\ Replied("storeReplyLost", reply, possible)
           \/ CallFails("storeWrite", reply) /\ UNCHANGED schema
        /\ IF reply THEN Proceed(next) ELSE Abort
  BY DEF Create
<1>2. reply => schema' = schema \cup {<<target, object>>}
  <2> SUFFICES ASSUME reply PROVE schema' = schema \cup {<<target, object>>}
    OBVIOUS
  <2>1. reply = TRUE
    BY Zenon
  <2>2. possible = TRUE /\ schema' = IF possible THEN schema \cup {<<target, object>>} ELSE schema
    BY <1>1, <2>1 DEF Replied, CallFails
  <2> QED BY <2>2, Zenon
<1>3. stage' = "exited" \/ (stage' = next /\ reply)
  BY <1>1 DEF Proceed, Abort
<1> QED BY <1>1, <1>2, <1>3 DEF Create, Made, stardogVars

(* The statements of createMetaDatabase. *)
LEMMA ReadySql ==
  ASSUME ReadyInv,
         CreateMetaDatabase \/ UseDatabase \/ CreateServiceTable \/ CreateBindTable
  PROVE  ReadyInv'
<1> SUFFICES ASSUME ~Embedded', stage' # "exited" PROVE ReadyInv'
  BY ReadyExited DEF ReadyInv
<1>1. ~Embedded /\ stage \in SqlStages /\ UNCHANGED <<conf, vcap, target>>
  BY DEF CreateMetaDatabase, UseDatabase, CreateServiceTable, CreateBindTable, Create,
         SqlStages, Embedded
<1>2. /\ conf.parses /\ NewSdLogger(conf.level) /\ handlePlugins(conf.plans)
      /\ conf.storage = "sql" /\ conf.driver \in {"mysql", Unset}
      /\ target = MySQLServer(conf, vcap) /\ target # Unset
  BY <1>1 DEF ReadyInv, SqlStages
<1>3. CASE CreateMetaDatabase
  <2>1. stage' = "useDatabase" /\ Made("database")'
    BY <1>3, CreateMakes DEF CreateMetaDatabase
  <2> QED BY <1>1, <1>2, <2>1 DEF ReadyInv, SqlStages, Stages
<1>4. CASE UseDatabase
  <2>1. stage' = "createServiceTable" /\ schema' = schema
    BY <1>4 DEF UseDatabase, Abort
  <2>2. Made("database")'
    BY <1>1, <1>4, <2>1 DEF UseDatabase, ReadyInv, SqlStages, Made
  <2> QED BY <1>1, <1>2, <2>1, <2>2 DEF ReadyInv, SqlStages, Stages
<1>5. CASE CreateServiceTable
  <2>1. /\ stage = "createServiceTable" /\ stage' = "createBindTable"
        /\ schema \subseteq schema' /\ Made("service_instance")'
    BY <1>5, CreateMakes DEF CreateServiceTable
  <2>2. Made("database")'
    BY <1>1, <2>1 DEF ReadyInv, SqlStages, Made
  <2> QED BY <1>1, <1>2, <2>1, <2>2 DEF ReadyInv, SqlStages, Stages
<1>6. CASE CreateBindTable
  <2>1. /\ stage = "createBindTable" /\ stage' = "server"
        /\ schema \subseteq schema' /\ Made("bindings")'
    BY <1>6, CreateMakes DEF CreateBindTable
  <2>2. Made("database")' /\ Made("service_instance")'
    BY <1>1, <2>1 DEF ReadyInv, SqlStages, Made
  <2>3. Usable' /\ StoreReady'
    BY <1>1, <1>2, <2>1, <2>2 DEF Usable, StoreReady, Objects, Made, Embedded
  <2> QED BY <1>1, <1>2, <2>1, <2>3 DEF ReadyInv, SqlStages, Stages
<1> QED BY <1>3, <1>4, <1>5, <1>6

(* The requests of NewStardogStore. *)
LEMMA ReadyStardog ==
  ASSUME ReadyInv, FindDatabase \/ MakeDatabase PROVE ReadyInv'
<1> SUFFICES ASSUME ~Embedded', stage' # "exited" PROVE ReadyInv'
  BY ReadyExited DEF ReadyInv
<1>1. /\ ~Embedded /\ UNCHANGED <<conf, vcap, target, schema>>
      /\ stage \in {"findDatabase", "makeDatabase"}
  BY DEF FindDatabase, MakeDatabase, Embedded
<1>2. /\ conf.parses /\ NewSdLogger(conf.level) /\ handlePlugins(conf.plans)
      /\ conf.storage = "stardog"
  BY <1>1 DEF ReadyInv
<1>3. \/ stage' = "makeDatabase"
      \/ stage' = "server" /\ <<conf.contact, BrokerDb>> \in databases'
  <2>1. CASE FindDatabase
    <3>1. PICK reply \in BOOLEAN :
            /\ GetDatabaseSize(conf.contact, BrokerDb, reply)
            /\ Proceed(IF reply THEN "server" ELSE "makeDatabase")
      BY <2>1 DEF FindDatabase
    <3>2. reply => <<conf.contact, BrokerDb>> \in databases'
      BY <3>1 DEF GetDatabaseSize, Replied, stardogVars
    <3> QED BY <3>1, <3>2 DEF Proceed
  <2>2. CASE MakeDatabase
    <3>1. PICK reply \in BOOLEAN :
            /\ CreateDatabase(conf.contact, BrokerDb, reply)
            /\ IF reply THEN Proceed("server") ELSE Abort
      BY <2>2 DEF MakeDatabase
    <3>2. reply => <<conf.contact, BrokerDb>> \in databases'
      BY <3>1 DEF CreateDatabase, Replied, CallFails
    <3> QED BY <3>1, <3>2 DEF Proceed, Abort
  <2> QED BY <2>1, <2>2
<1> QED BY <1>1, <1>2, <1>3 DEF ReadyInv, SqlStages, Stages, Usable, StoreReady, Embedded

(* The inductive step. *)
LEMMA ReadyStep == ReadyInv /\ [Next]_processVars => ReadyInv'
<1> SUFFICES ASSUME ReadyInv, [Next]_processVars PROVE ReadyInv'
  OBVIOUS
<1>1. CASE StartUp
  BY <1>1, ReadyConfigured, ReadySql, ReadyStardog DEF StartUp, PrepareToServe
<1>2. CASE Serve
  BY <1>2 DEF Serve, Proceed, ReadyInv, SqlStages, Stages, Usable, StoreReady, Embedded, stardogVars
<1>3. CASE CannotServe
  <2>1. CASE stage' = "exited"
    BY <2>1, ReadyExited
  <2>2. CASE UNCHANGED stage
    BY <1>3, <2>2, ReadyStays DEF CannotServe, stardogVars
  <2> QED BY <1>3, <2>1, <2>2 DEF CannotServe, Abort
<1>4. CASE Listening \/ MainWaits \/ Disturb \/ (\E t \in Threads : Program(t)) \/ StoreStep
  BY <1>4, ReadyStays
     DEF Listening, MainWaits, Disturb, Program, StoreStep, startupVars, stardogVars
<1>5. CASE MainReturns \/ Crash
  BY <1>5, ReadyExited DEF MainReturns, Crash, Ends, Abort
<1>6. CASE Elsewhere
  BY <1>6, ReadyStays DEF Elsewhere, RivalMakesDatabase, startupVars
<1>7. CASE LosesSession
  BY <1>7, ReadyStays DEF LosesSession, LoseSession, stardogVars
<1>8. CASE Again
  BY <1>8 DEF Again, Relaunch, ReadyInv, SqlStages, Stages
<1>9. CASE UNCHANGED processVars
  BY <1>9, ReadyStays DEF processVars, startupVars, stardogVars
<1> QED BY <1>1, <1>2, <1>3, <1>4, <1>5, <1>6, <1>7, <1>8, <1>9 DEF Next, MainStep

(***************************************************************************)
(* The process listens only with a usable configuration and a store that   *)
(* is complete on the server it means.                                     *)
(***************************************************************************)
THEOREM ReadySafe == Spec => []ServesOnlyWhenReady
<1>1. Init => ReadyInv
  BY DEF Init, ReadyInv, Embedded, SqlStages, Stages
<1>2. ReadyInv => ServesOnlyWhenReady
  BY DEF ReadyInv, ServesOnlyWhenReady, Embedded
<1> QED BY <1>1, <1>2, ReadyStep, PTL DEF Spec

-----------------------------------------------------------------------------
(* WaitEndsAfterServe *)

(* Threads that stay as they are have received what they had. *)
LEMMA WaitStays ==
  ASSUME WaitInv, UNCHANGED <<stage, lifecycleVars>> PROVE WaitInv'
  BY DEF WaitInv, lifecycleVars, Received

(* Before the server starts, and after the process, nobody waits. *)
LEMMA WaitForgets == ASSUME ForgetServer PROVE WaitInv'
  BY DEF ForgetServer, WaitInv, Received

(* A process that does not serve has no server. *)
LEMMA WaitElsewhere ==
  ASSUME WaitInv, stage # "serving", UNCHANGED lifecycleVars PROVE WaitInv'
  BY DEF WaitInv, lifecycleVars, Received

(* The steps of the goroutine of Start, and of those that wait for it. *)
LEMMA WaitServing ==
  ASSUME WaitInv, stage = "serving", UNCHANGED stage,
         \/ ServeReturns \/ AcceptFails
         \/ \E t \in Threads : Done(t) \/ Wait(t) \/ \E wait \in BOOLEAN : Stop(t, wait)
  PROVE  WaitInv'
<1>1. CASE ServeReturns \/ AcceptFails
  BY <1>1 DEF ServeReturns, AcceptFails, WaitInv, Received
<1>2. ASSUME NEW t \in Threads, Done(t) PROVE WaitInv'
  BY <1>2 DEF Done, WaitInv
<1>3. ASSUME NEW t \in Threads, thread[t] = "out",
             \/ UNCHANGED thread \/ Receive(t)
      PROVE  Received' = Received /\ thread' \in [Threads -> {"out", "receiving", "returned"}]
  BY <1>3 DEF WaitInv, Receive, Received
<1>4. ASSUME NEW t \in Threads, Wait(t) PROVE WaitInv'
  BY <1>3, <1>4 DEF Wait, WaitInv
<1>5. ASSUME NEW t \in Threads, NEW wait \in BOOLEAN, Stop(t, wait) PROVE WaitInv'
  BY <1>3, <1>5 DEF Stop, WaitInv
<1> QED BY <1>1, <1>2, <1>4, <1>5

(* The inductive step. *)
LEMMA WaitStep == ProcessAssumption /\ WaitInv /\ [Next]_processVars => WaitInv'
<1> SUFFICES ASSUME ProcessAssumption, WaitInv, [Next]_processVars PROVE WaitInv'
  OBVIOUS
<1>1. CASE StartUp
  <2>1. stage # "serving"
    BY <1>1 DEF StartUp, PrepareToServe, LoadConfiguration, ChooseStore, CreateMetaDatabase,
         UseDatabase, CreateServiceTable, CreateBindTable, Create, FindDatabase, MakeDatabase
  <2> QED BY <1>1, <2>1, WaitElsewhere DEF StartUp
<1>2. CASE Serve
  BY <1>2 DEF Serve, Start, Proceed, WaitInv, Received
<1>3. CASE CannotServe
  BY <1>3, WaitElsewhere DEF CannotServe, CannotListen
<1>4. CASE Listening \/ MainWaits \/ Disturb \/ (\E t \in Threads : Program(t))
  BY <1>4, WaitServing DEF Listening, MainWaits, Disturb, Program, startupVars, ProcessAssumption
<1>5. CASE MainReturns \/ Crash
  BY <1>5, WaitForgets DEF MainReturns, Crash, Ends
<1>6. CASE StoreStep \/ Elsewhere
  BY <1>6, WaitStays DEF StoreStep, Elsewhere, RivalMakesDatabase, startupVars
<1>7. CASE LosesSession \/ Again
  BY <1>7, WaitElsewhere DEF LosesSession, LoseSession, Again, Relaunch
<1>8. CASE UNCHANGED processVars
  BY <1>8, WaitStays DEF processVars, startupVars
<1> QED BY <1>1, <1>2, <1>3, <1>4, <1>5, <1>6, <1>7, <1>8 DEF Next, MainStep

(***************************************************************************)
(* Whoever returns from Wait or Stop(true) finds Serve over and the port   *)
(* free.                                                                   *)
(***************************************************************************)
THEOREM WaitSafe == Spec => []WaitEndsAfterServe
<1>1. Init => WaitInv
  BY DEF Init, NoServer, WaitInv, Received
<1>2. WaitInv => WaitEndsAfterServe
  BY DEF WaitInv, WaitEndsAfterServe
<1>3. WaitInv /\ [Next]_processVars => WaitInv'
  BY WaitStep, ProcessAssumption
<1> QED BY <1>1, <1>2, <1>3, PTL DEF Spec

-----------------------------------------------------------------------------
(* RefusedOnlyWhenDrained *)

(* The sets of handlers whose cardinality counts are finite. *)
LEMMA HandlersFinite ==
  ASSUME NEW S \in SUBSET Goroutines PROVE IsFiniteSet(S) /\ Cardinality(S) \in Nat
  BY FS_Subset, FS_CardinalityType, ConnectionsAssumption

(* Calls that stay as they are. *)
LEMMA ConnectionsStay ==
  ASSUME ConnectionsInv, UNCHANGED connectionVars PROVE ConnectionsInv'
  BY DEF ConnectionsInv, connectionVars, RefusedOnlyWhenDrained, Listing

(* No calls. *)
LEMMA ConnectionsForgotten == ASSUME ForgetConnections PROVE ConnectionsInv'
<1>1. Listing' = {} /\ RefusedOnlyWhenDrained'
  BY DEF ForgetConnections, Listing, RefusedOnlyWhenDrained
<1>2. calling' \in [Goroutines -> Calls]
  BY DEF ForgetConnections, Calls
<1> QED BY <1>1, <1>2, FS_EmptySet DEF ForgetConnections, ConnectionsInv

(* How a step of h changes the set of handlers that list bindings. *)
LEMMA ListingMoves ==
  ASSUME ConnectionsInv, NEW h \in Goroutines, NEW place \in Calls, At(h, place)
  PROVE  /\ calling' \in [Goroutines -> Calls]
         /\ calling'[h] = place
         /\ \A g \in Goroutines \ {h} : calling'[g] = calling[g]
         /\ Cardinality(Listing) \in Nat /\ Cardinality(Listing)' \in Nat
         /\ place = "getAllBindings" => Cardinality(Listing)' <= Cardinality(Listing) + 1
         /\ place # "getAllBindings" => Cardinality(Listing)' <= Cardinality(Listing)
         /\ place # "getAllBindings" /\ calling[h] = "getAllBindings" =>
              Cardinality(Listing)' + 1 <= Cardinality(Listing)
<1>1. /\ calling' \in [Goroutines -> Calls]
      /\ calling'[h] = place
      /\ \A g \in Goroutines \ {h} : calling'[g] = calling[g]
  BY DEF At, ConnectionsInv
<1>2. Listing' = IF place = "getAllBindings" THEN Listing \cup {h} ELSE Listing \ {h}
  BY <1>1 DEF Listing
<1>3. IsFiniteSet(Listing) /\ Cardinality(Listing) \in Nat
  BY HandlersFinite DEF Listing
<1>4. /\ Cardinality(Listing \cup {h}) =
           IF h \in Listing THEN Cardinality(Listing) ELSE Cardinality(Listing) + 1
      /\ Cardinality(Listing \ {h}) =
           IF h \in Listing THEN Cardinality(Listing) - 1 ELSE Cardinality(Listing)
  BY <1>3, FS_AddElement, FS_RemoveElement
<1>5. Cardinality(Listing') \in Nat
  <2>1. Listing' \in SUBSET Goroutines
    BY <1>2 DEF Listing
  <2> QED BY <2>1, HandlersFinite
<1>6. calling[h] = "getAllBindings" <=> h \in Listing
  BY DEF Listing
<1> QED BY <1>1, <1>2, <1>3, <1>4, <1>5, <1>6

(* A handler that is refused found every session taken by others or lost. *)
LEMMA RefusedDrained ==
  ASSUME ConnectionsInv, NEW h \in Goroutines, h \notin holding,
         idle = 0, Sessions >= MaxConnections
  PROVE  abandoned + Cardinality(Goroutines) > MaxConnections
<1>1. holding \in SUBSET (Goroutines \ {h})
  BY DEF ConnectionsInv
<1>2. /\ IsFiniteSet(Goroutines \ {h})
      /\ Cardinality(Goroutines \ {h}) = Cardinality(Goroutines) - 1
  BY FS_RemoveElement, ConnectionsAssumption
<1>3. Cardinality(holding) <= Cardinality(Goroutines) - 1
  BY <1>1, <1>2, FS_Subset
<1>4. Cardinality(holding) \in Nat /\ Cardinality(Goroutines) \in Nat
  BY HandlersFinite DEF ConnectionsInv
<1> QED BY <1>3, <1>4, ConnectionsAssumption DEF Sessions, ConnectionsInv

(* A handler asks for a connection. *)
LEMMA AcquireSafe ==
  ASSUME ConnectionsInv, NEW h \in Goroutines,
         NEW place \in Calls \ {"out", "prepared", "refused"},
         calling[h] \in {"out", "prepared"}, Acquire(h, place),
         UNCHANGED abandoned, listings' \in {listings, listings + 1},
         place = "getAllBindings" => listings' = listings + 1
  PROVE  ConnectionsInv'
<1>1. h \notin holding /\ calling[h] # "getAllBindings"
  BY DEF ConnectionsInv
<1>2. idle' \in Nat
  BY DEF Acquire, ConnectionsInv
<1>3. listings' \in Nat /\ listings <= listings'
  BY DEF ConnectionsInv
<1>4. \A g \in Goroutines : calling[g] = "refused" =>
        listings' + Cardinality(Goroutines) > MaxConnections
  BY <1>3, HandlersFinite, ConnectionsAssumption DEF ConnectionsInv, RefusedOnlyWhenDrained
<1>5. CASE At(h, "refused") /\ UNCHANGED holding /\ idle = 0 /\ Sessions >= MaxConnections
  <2>1. abandoned + Cardinality(Goroutines) > MaxConnections
    BY <1>1, <1>5, RefusedDrained
  <2>2. /\ calling' \in [Goroutines -> Calls]
        /\ \A g \in Goroutines \ {h} : calling'[g] = calling[g]
        /\ Cardinality(Listing) \in Nat /\ Cardinality(Listing)' \in Nat
        /\ Cardinality(Listing)' <= Cardinality(Listing)
    BY <1>5, ListingMoves DEF Calls
  <2>3. abandoned' \in Nat /\ abandoned' + Cardinality(Listing)' <= listings'
    BY <1>3, <2>2 DEF ConnectionsInv
  <2>4. listings' + Cardinality(Goroutines) > MaxConnections
    BY <1>3, <2>1, <2>2, HandlersFinite, ConnectionsAssumption DEF ConnectionsInv
  <2>5. RefusedOnlyWhenDrained'
    BY <2>4 DEF RefusedOnlyWhenDrained
  <2> QED BY <1>1, <1>2, <1>3, <1>5, <2>2, <2>3, <2>5 DEF ConnectionsInv
<1>6. CASE At(h, place) /\ holding' = holding \cup {h}
  <2>1. /\ calling' \in [Goroutines -> Calls]
        /\ calling'[h] = place
        /\ \A g \in Goroutines \ {h} : calling'[g] = calling[g]
        /\ Cardinality(Listing) \in Nat /\ Cardinality(Listing)' \in Nat
        /\ place = "getAllBindings" => Cardinality(Listing)' <= Cardinality(Listing) + 1
        /\ place # "getAllBindings" => Cardinality(Listing)' <= Cardinality(Listing)
    BY <1>6, ListingMoves
  <2>2. abandoned' \in Nat /\ abandoned' + Cardinality(Listing)' <= listings'
    BY <1>3, <2>1 DEF ConnectionsInv
  <2>3. RefusedOnlyWhenDrained'
    BY <1>4, <2>1 DEF RefusedOnlyWhenDrained
  <2>4. holding' \subseteq Goroutines
    BY <1>6 DEF ConnectionsInv
  <2>5. \A g \in Goroutines :
          calling'[g] \in {"out", "prepared", "refused"} => g \notin holding'
    BY <1>6, <2>1 DEF ConnectionsInv
  <2> QED BY <1>2, <1>3, <2>1, <2>2, <2>3, <2>4, <2>5 DEF ConnectionsInv
<1> QED BY <1>5, <1>6 DEF Acquire

(* A handler gives its connection back, or loses it. *)
LEMMA LeaveSafe ==
  ASSUME ConnectionsInv, NEW h \in Goroutines, NEW place \in {"out", "prepared"},
         At(h, place), holding' = holding \ {h}, idle' \in Nat, UNCHANGED listings,
         \/ UNCHANGED abandoned
         \/ calling[h] = "getAllBindings" /\ abandoned' = abandoned + 1
  PROVE  ConnectionsInv'
<1>1. place \in Calls /\ place # "getAllBindings" /\ place # "refused"
  BY DEF Calls
<1>2. /\ calling' \in [Goroutines -> Calls]
      /\ calling'[h] = place
      /\ \A g \in Goroutines \ {h} : calling'[g] = calling[g]
      /\ Cardinality(Listing) \in Nat /\ Cardinality(Listing)' \in Nat
      /\ Cardinality(Listing)' <= Cardinality(Listing)
      /\ calling[h] = "getAllBindings" => Cardinality(Listing)' + 1 <= Cardinality(Listing)
  BY <1>1, ListingMoves
<1>3. abandoned' \in Nat /\ abandoned' + Cardinality(Listing)' <= listings'
  BY <1>2 DEF ConnectionsInv
<1>4. RefusedOnlyWhenDrained'
  BY <1>1, <1>2 DEF ConnectionsInv, RefusedOnlyWhenDrained
<1>5. /\ listings' \in Nat /\ holding' \subseteq Goroutines
      /\ \A g \in Goroutines :
           calling'[g] \in {"out", "prepared", "refused"} => g \notin holding'
  BY <1>2 DEF ConnectionsInv
<1> QED BY <1>2, <1>3, <1>4, <1>5 DEF ConnectionsInv

(* The calls of the store. *)
LEMMA CallSafe ==
  ASSUME ConnectionsInv, NEW h \in Goroutines, StoreCall(h) PROVE ConnectionsInv'
<1> DEFINE Asks == {"preparing", "executing", "getInstance", "getBinding", "addBinding"}
<1>1. Asks \subseteq Calls \ {"out", "prepared", "refused", "getAllBindings"}
      /\ "getAllBindings" \in Calls \ {"out", "prepared", "refused"}
  BY DEF Calls
<1>2. CASE Prepare(h) \/ Execute(h) \/ GetInstance(h) \/ GetBinding(h) \/ AddBinding(h)
  <2>1. PICK place \in Asks : Acquire(h, place)
    BY <1>2 DEF Prepare, Execute, GetInstance, GetBinding, AddBinding
  <2>2. calling[h] \in {"out", "prepared"} /\ UNCHANGED <<abandoned, listings>>
    BY <1>2 DEF Prepare, Execute, GetInstance, GetBinding, AddBinding
  <2> QED BY <1>1, <2>1, <2>2, AcquireSafe
<1>3. CASE GetAllBindings(h)
  BY <1>1, <1>3, AcquireSafe DEF GetAllBindings
<1>4. ASSUME NEW place \in {"out", "prepared"}, Release(h, place) PROVE ConnectionsInv'
  <2>1. idle' \in Nat
    BY <1>4 DEF Release, ConnectionsInv
  <2> QED BY <1>4, <2>1, LeaveSafe DEF Release
<1>5. CASE Prepared(h) \/ Finish(h) \/ RollBack(h)
  BY <1>4, <1>5 DEF Prepared, Finish, RollBack
<1>6. CASE Abandon(h) \/ Break(h)
  <2>1. idle' \in Nat
    BY <1>6 DEF Abandon, Break, ConnectionsInv
  <2> QED BY <1>6, <2>1, LeaveSafe DEF Abandon, Break
<1>7. CASE GiveUp(h)
  <2>1. h \notin holding
    BY <1>7 DEF GiveUp, ConnectionsInv
  <2>2. holding' = holding \ {h} /\ idle' \in Nat
    BY <1>7, <2>1 DEF GiveUp, ConnectionsInv
  <2> QED BY <1>7, <2>2, LeaveSafe DEF GiveUp
<1> QED BY <1>2, <1>3, <1>5, <1>6, <1>7 DEF StoreCall

(* MySQL ends a silent session. *)
LEMMA TimeOutSafe == ASSUME ConnectionsInv, TimeOutSession PROVE ConnectionsInv'
<1>1. Listing' = Listing /\ Cardinality(Listing) \in Nat
  BY HandlersFinite DEF TimeOutSession, Listing
<1>2. idle' \in Nat /\ abandoned' \in Nat /\ abandoned' <= abandoned
  BY DEF TimeOutSession, ConnectionsInv
<1>3. abandoned' + Cardinality(Listing') <= listings'
  BY <1>1, <1>2 DEF TimeOutSession, ConnectionsInv
<1> QED BY <1>2, <1>3 DEF TimeOutSession, ConnectionsInv, RefusedOnlyWhenDrained

(* The inductive step. *)
LEMMA ConnectionsStep == ConnectionsInv /\ [Next]_processVars => ConnectionsInv'
<1> SUFFICES ASSUME ConnectionsInv, [Next]_processVars PROVE ConnectionsInv'
  OBVIOUS
<1>1. CASE StoreStep
  BY <1>1, CallSafe, TimeOutSafe DEF StoreStep
<1>2. CASE MainReturns \/ Crash
  BY <1>2, ConnectionsForgotten DEF MainReturns, Crash, Ends
<1>3. CASE \/ StartUp \/ Serve \/ MainWaits \/ CannotServe \/ Listening \/ Disturb
           \/ LosesSession \/ Elsewhere \/ Again
           \/ \E t \in Threads : Program(t)
  BY <1>3, ConnectionsStay
     DEF StartUp, Serve, MainWaits, CannotServe, Listening, Disturb, LosesSession, Elsewhere,
         Again, Program
<1>4. CASE UNCHANGED processVars
  BY <1>4, ConnectionsStay DEF processVars
<1> QED BY <1>1, <1>2, <1>3, <1>4 DEF Next, MainStep

(***************************************************************************)
(* A call of the store is refused a connection only after so many removals *)
(* that their sessions and those of the other handlers can make up all     *)
(* that MySQL grants.                                                      *)
(***************************************************************************)
THEOREM ConnectionsSafe == Spec => []RefusedOnlyWhenDrained
<1>1. Init => ConnectionsInv
  <2> SUFFICES ASSUME Init PROVE ConnectionsInv
    OBVIOUS
  <2>1. Listing = {} /\ RefusedOnlyWhenDrained /\ calling \in [Goroutines -> Calls]
    BY DEF Init, NoConnections, Listing, RefusedOnlyWhenDrained, Calls
  <2> QED BY <2>1, FS_EmptySet DEF Init, NoConnections, ConnectionsInv
<1>2. ConnectionsInv => RefusedOnlyWhenDrained
  BY DEF ConnectionsInv
<1> QED BY <1>1, <1>2, ConnectionsStep, PTL DEF Spec

-----------------------------------------------------------------------------
(* MetadataStaysPut *)

(* A service found by its name is on the same server whenever it is found. *)
LEMMA NamedServer ==
  ASSUME VcapAssumption, NEW c, NEW v1 \in VcapServices, NEW v2 \in VcapServices,
         ServiceName(c) # Unset, getVCAPPlan(c, v1) # Unset, getVCAPPlan(c, v2) # Unset
  PROVE  getVCAPPlan(c, v1) = getVCAPPlan(c, v2)
<1> DEFINE type == getValueSearchPath("p-mysql", c.type, c.variables.type)
           plan == getValueSearchPath(Unset, c.plan, c.variables.plan)
<1>1. ASSUME NEW v \in VcapServices, getVCAPPlan(c, v) # Unset
      PROVE  /\ type \in DOMAIN v
             /\ \E s \in Range(v[type]) :
                  s.name = ServiceName(c) /\ getVCAPPlan(c, v) = s.server
  <2> DEFINE i == CHOOSE i \in DOMAIN v[type] : First(v[type], i, ServiceName(c), plan)
  <2>1. /\ type \in DOMAIN v
        /\ \E k \in DOMAIN v[type] : First(v[type], k, ServiceName(c), plan)
        /\ getVCAPPlan(c, v) = v[type][i].server
    BY <1>1 DEF getVCAPPlan
  <2>2. i \in DOMAIN v[type] /\ First(v[type], i, ServiceName(c), plan)
    BY <2>1
  <2>3. v[type][i].name = ServiceName(c)
    BY <2>2 DEF First, Wanted
  <2> QED BY <2>1, <2>2, <2>3 DEF Range
<1>2. PICK s1 \in Range(v1[type]) :
        s1.name = ServiceName(c) /\ getVCAPPlan(c, v1) = s1.server
  BY <1>1
<1>3. PICK s2 \in Range(v2[type]) :
        s2.name = ServiceName(c) /\ getVCAPPlan(c, v2) = s2.server
  BY <1>1
<1>4. type \in DOMAIN v1 \cap DOMAIN v2
  BY <1>1
<1> QED BY <1>2, <1>3, <1>4 DEF VcapAssumption

(* Only ChooseStore chooses, by the services of the day. *)
LEMMA TargetMoves ==
  ASSUME [Next]_processVars
  PROVE  /\ UNCHANGED conf
         /\ UNCHANGED target \/ (target' = MySQLServer(conf, vcap) /\ target' # Unset)
         /\ UNCHANGED vcap \/ vcap' \in VcapServices
<1>1. CASE StartUp
  BY <1>1 DEF StartUp, PrepareToServe, LoadConfiguration, ChooseStore, CreateMetaDatabase,
       UseDatabase, CreateServiceTable, CreateBindTable, Create, FindDatabase, MakeDatabase
<1>2. CASE \/ Serve \/ MainWaits \/ CannotServe \/ Listening \/ Disturb \/ StoreStep
           \/ MainReturns \/ Crash \/ LosesSession \/ Elsewhere \/ Again
           \/ \E t \in Threads : Program(t)
  BY <1>2 DEF Serve, MainWaits, CannotServe, Listening, Disturb, StoreStep, MainReturns, Crash,
       LosesSession, LoseSession, Elsewhere, RivalMakesDatabase, Again, Relaunch, Program,
       startupVars
<1>3. CASE UNCHANGED processVars
  BY <1>3 DEF processVars, startupVars
<1> QED BY <1>1, <1>2, <1>3 DEF Next, MainStep

(* The inductive step. *)
LEMMA TargetStep == TargetInv /\ [Next]_processVars => TargetInv'
<1> SUFFICES ASSUME TargetInv, [Next]_processVars PROVE TargetInv'
  OBVIOUS
<1>1. NamesServer' <=> NamesServer
  BY TargetMoves DEF NamesServer
<1> QED BY <1>1, TargetMoves DEF TargetInv

(***************************************************************************)
(* A configuration that names its service leads to the same MySQL server   *)
(* in every life of the process.                                           *)
(***************************************************************************)
THEOREM TargetStays == Spec => MetadataStaysPut
<1>1. Init => TargetInv
  BY DEF Init, TargetInv
<1>2. TargetInv /\ [Next]_processVars =>
        [NamesServer /\ target # Unset => target' = target]_processVars
  <2> SUFFICES ASSUME TargetInv, [Next]_processVars, NamesServer, target # Unset,
                      target' # target
               PROVE  FALSE
    OBVIOUS
  <2>1. /\ target' = MySQLServer(conf, vcap) /\ target' # Unset
        /\ vcap \in VcapServices
    BY TargetMoves DEF TargetInv
  <2>2. PICK v \in VcapServices : target = MySQLServer(conf, v)
    BY DEF TargetInv
  <2>3. conf.useVcap => ServiceName(conf) # Unset
    BY DEF NamesServer
  <2> QED BY <2>1, <2>2, <2>3, NamedServer, VcapAssumption DEF MySQLServer
<1> QED BY <1>1, <1>2, TargetStep, PTL DEF Spec, MetadataStaysPut

-----------------------------------------------------------------------------
(* ProcessTypeOK *)

(* The server a configuration leads to is one of those there are. *)
LEMMA ServerTypes ==
  ASSUME NEW c \in Configurations, NEW v \in VcapServices
  PROVE  MySQLServer(c, v) \in MySQLServers \cup {Unset}
<1> DEFINE type == getValueSearchPath("p-mysql", c.type, c.variables.type)
           plan == getValueSearchPath(Unset, c.plan, c.variables.plan)
           i == CHOOSE i \in DOMAIN v[type] : First(v[type], i, ServiceName(c), plan)
<1>1. CASE c.useVcap /\ getVCAPPlan(c, v) # Unset
  <2>1. /\ type \in DOMAIN v
        /\ \E k \in DOMAIN v[type] : First(v[type], k, ServiceName(c), plan)
        /\ getVCAPPlan(c, v) = v[type][i].server
    BY <1>1 DEF getVCAPPlan
  <2>2. i \in DOMAIN v[type]
    BY <2>1
  <2>3. v[type][i] \in Range(v[type])
    BY <2>2 DEF Range
  <2> HIDE DEF i, type, plan
  <2>4. v[type][i] \in UNION {Range(v[t]) : t \in DOMAIN v}
    BY <2>1, <2>3
  <2>5. v[type][i] \in UNION {UNION {Range(w[t]) : t \in DOMAIN w} : w \in VcapServices}
    BY <2>4
  <2> QED BY <1>1, <2>1, <2>5 DEF MySQLServer, MySQLServers
<1>2. CASE c.useVcap /\ getVCAPPlan(c, v) = Unset
  BY <1>2 DEF MySQLServer
<1>3. CASE ~c.useVcap
  BY <1>3 DEF MySQLServer, MySQLServers
<1> QED BY <1>1, <1>2, <1>3

(* A fault is counted up to the bound. *)
LEMMA FaultTypes ==
  ASSUME faults \in 0 .. MaxFaults, UNCHANGED faults \/ \E kind : Fault(kind)
  PROVE  faults' \in 0 .. MaxFaults
  BY FaultAssumption DEF Fault

(* The statements of createMetaDatabase. *)
LEMMA CreateTypes ==
  ASSUME StartupTypeInv, NEW at \in SqlStages, NEW object \in Objects, NEW possible,
         NEW next \in SqlStages \cup {"server"}, Create(at, object, possible, next)
  PROVE  StartupTypeInv'
<1>1. /\ stage = at /\ target # Unset /\ ~Embedded
      /\ UNCHANGED <<conf, vcap, target, databases, users, grants>>
  BY DEF Create, StartupTypeInv, SqlStages, stardogVars
<1>2. schema' \subseteq MySQLServers \X Objects
  BY <1>1 DEF Create, StartupTypeInv, StartupTypeOK
<1>3. faults' \in 0 .. MaxFaults
  BY FaultTypes DEF Create, Replied, CallFails, StartupTypeInv, StartupTypeOK
<1>4. stage' \in SqlStages \cup {"server", "exited"} /\ selected' \in BOOLEAN
  BY DEF Create, Proceed, Abort, StartupTypeInv, StartupTypeOK
<1> QED BY <1>1, <1>2, <1>3, <1>4 DEF StartupTypeInv, StartupTypeOK, Stages, SqlStages, Embedded

(* What main does until it starts the server. *)
LEMMA PrepareTypes == ASSUME StartupTypeInv, PrepareToServe PROVE StartupTypeInv'
<1>1. CASE CreateMetaDatabase \/ CreateServiceTable \/ CreateBindTable
  BY <1>1, CreateTypes
     DEF CreateMetaDatabase, CreateServiceTable, CreateBindTable, SqlStages, Objects
<1>2. CASE LoadConfiguration
  BY <1>2 DEF LoadConfiguration, Proceed, Abort, StartupTypeInv, StartupTypeOK, Stages,
       SqlStages, Embedded, stardogVars
<1>3. CASE ChooseStore
  <2>1. conf \in Configurations /\ vcap \in VcapServices /\ ~Embedded
    BY <1>3 DEF ChooseStore, StartupTypeInv, StartupTypeOK, Embedded
  <2>2. target' \in MySQLServers \cup {Unset}
    BY <1>3, <2>1, ServerTypes DEF ChooseStore, StartupTypeInv, StartupTypeOK
  <2>3. /\ stage' \in {"findDatabase", "createDatabase", "exited"} /\ selected' \in BOOLEAN
        /\ stage' = "createDatabase" => target' # Unset
    BY <1>3 DEF ChooseStore, Proceed, Abort, StartupTypeInv, StartupTypeOK
  <2> QED BY <1>3, <2>1, <2>2, <2>3 DEF ChooseStore, StartupTypeInv, StartupTypeOK, Stages,
       SqlStages, Embedded, stardogVars
<1>4. CASE UseDatabase
  <2>1. faults' \in 0 .. MaxFaults
    BY <1>4, FaultTypes DEF UseDatabase, Replied, CallFails, StartupTypeInv, StartupTypeOK
  <2> QED BY <1>4, <2>1 DEF UseDatabase, Abort, StartupTypeInv, StartupTypeOK, Stages,
       SqlStages, Embedded, stardogVars
<1>5. CASE FindDatabase
  <2>1. faults' \in 0 .. MaxFaults
    BY <1>5, FaultTypes DEF FindDatabase, GetDatabaseSize, Replied, StartupTypeInv, StartupTypeOK
  <2> QED BY <1>5, <2>1 DEF FindDatabase, GetDatabaseSize, Proceed, StartupTypeInv,
       StartupTypeOK, Stages, SqlStages, Embedded, stardogVars
<1>6. CASE MakeDatabase
  <2>1. faults' \in 0 .. MaxFaults
    BY <1>6, FaultTypes
       DEF MakeDatabase, CreateDatabase, Replied, CallFails, StartupTypeInv, StartupTypeOK
  <2>2. conf \in Configurations
    BY <1>6 DEF MakeDatabase, StartupTypeInv, StartupTypeOK, Embedded
  <2>3. databases' \subseteq {c.contact : c \in Configurations} \X {BrokerDb}
    BY <1>6, <2>2 DEF MakeDatabase, CreateDatabase, StartupTypeInv, StartupTypeOK
  <2> QED BY <1>6, <2>1, <2>2, <2>3 DEF MakeDatabase, CreateDatabase, Proceed, Abort,
       StartupTypeInv, StartupTypeOK, Stages, SqlStages, Embedded
<1> QED BY <1>1, <1>2, <1>3, <1>4, <1>5, <1>6 DEF PrepareToServe

(* A step that leaves the stage, or exits or starts the process. *)
LEMMA StartupTypesStay ==
  ASSUME StartupTypeInv, UNCHANGED <<conf, target, schema, databases, users, grants>>,
         vcap' \in VcapServices, faults' \in 0 .. MaxFaults, selected' \in BOOLEAN,
         \/ UNCHANGED stage
         \/ ~Embedded /\ stage' \in {"exited", "load"}
         \/ stage' = "serving"
  PROVE  StartupTypeInv'
  BY DEF StartupTypeInv, StartupTypeOK, Stages, SqlStages, Embedded

(* The inductive step of StartupTypeInv. *)
LEMMA StartupTypesStep == StartupTypeInv /\ [Next]_processVars => StartupTypeInv'
<1> SUFFICES ASSUME StartupTypeInv, [Next]_processVars PROVE StartupTypeInv'
  OBVIOUS
<1> USE DEF startupVars, stardogVars
<1>1. StartupTypeOK
  BY DEF StartupTypeInv
<1>2. CASE StartUp
  BY <1>2, PrepareTypes DEF StartUp
<1>3. CASE Serve
  BY <1>1, <1>3, StartupTypesStay DEF Serve, Start, Proceed, StartupTypeOK
<1>4. CASE CannotServe
  <2>1. faults' \in 0 .. MaxFaults
    BY <1>1, <1>4, FaultTypes DEF CannotServe, CannotListen, StartupTypeOK
  <2> QED BY <1>1, <1>4, <2>1, StartupTypesStay DEF CannotServe, Abort, StartupTypeOK
<1>5. CASE Listening \/ MainWaits \/ (\E t \in Threads : Program(t))
  BY <1>1, <1>5, StartupTypesStay
     DEF Listening, ServeReturns, Done, MainWaits, Wait, Program, Stop, StartupTypeOK
<1>6. CASE StoreStep
  BY <1>1, <1>6, StartupTypesStay DEF StoreStep, StartupTypeOK
<1>7. CASE Disturb
  <2>1. faults' \in 0 .. MaxFaults
    BY <1>1, <1>7, FaultTypes DEF Disturb, AcceptFails, StartupTypeOK
  <2> QED BY <1>1, <1>7, <2>1, StartupTypesStay DEF Disturb, StartupTypeOK
<1>8. CASE MainReturns
  BY <1>1, <1>8, StartupTypesStay DEF MainReturns, Ends, Abort, StartupTypeOK
<1>9. CASE Crash
  <2>1. faults' \in 0 .. MaxFaults
    BY <1>1, <1>9, FaultTypes DEF Crash, StartupTypeOK
  <2> QED BY <1>1, <1>9, <2>1, StartupTypesStay DEF Crash, Ends, Abort, StartupTypeOK
<1>10. CASE LosesSession
  <2>1. faults' \in 0 .. MaxFaults
    BY <1>1, <1>10, FaultTypes DEF LosesSession, LoseSession, StartupTypeOK
  <2> QED BY <1>1, <1>10, <2>1, StartupTypesStay DEF LosesSession, LoseSession, StartupTypeOK
<1>11. CASE Elsewhere
  <2>1. databases' \subseteq {c.contact : c \in Configurations} \X {BrokerDb}
    BY <1>1, <1>11 DEF Elsewhere, RivalMakesDatabase, StartupTypeOK
  <2> QED BY <1>11, <2>1 DEF Elsewhere, RivalMakesDatabase, StartupTypeInv, StartupTypeOK,
       Embedded
<1>12. CASE Again
  <2>1. ~Embedded
    BY <1>12 DEF Again, Relaunch, StartupTypeInv
  <2> QED BY <1>1, <1>12, <2>1, StartupTypesStay DEF Again, Relaunch, StartupTypeOK
<1>13. CASE UNCHANGED processVars
  BY <1>1, <1>13, StartupTypesStay DEF processVars, StartupTypeOK
<1> QED BY <1>2, <1>3, <1>4, <1>5, <1>6, <1>7, <1>8, <1>9, <1>10, <1>11, <1>12, <1>13
     DEF Next, MainStep

(* The listener; WaitInv has the rest of the server. *)
LEMMA ServerTypesStep ==
  ServerTypeOK /\ WaitInv' /\ [Next]_processVars => ServerTypeOK'
<1> SUFFICES ASSUME ServerTypeOK, WaitInv', [Next]_processVars
             PROVE  listener' \in {"none", "open", "closed"}
  BY DEF WaitInv, ServerTypeOK
<1>1. CASE StartUp \/ StoreStep \/ LosesSession \/ Elsewhere \/ Again \/ CannotServe
  BY <1>1 DEF StartUp, StoreStep, LosesSession, Elsewhere, Again, CannotServe, CannotListen,
       lifecycleVars, ServerTypeOK
<1>2. CASE \/ Serve \/ Listening \/ MainWaits \/ Disturb
           \/ \E t \in Threads : Program(t)
  BY <1>2 DEF Serve, Start, Listening, ServeReturns, Done, MainWaits, Wait, Disturb,
       AcceptFails, Program, Stop, ServerTypeOK
<1>3. CASE MainReturns \/ Crash
  BY <1>3 DEF MainReturns, Crash, Ends, ForgetServer
<1>4. CASE UNCHANGED processVars
  BY <1>4 DEF processVars, lifecycleVars, ServerTypeOK
<1> QED BY <1>1, <1>2, <1>3, <1>4 DEF Next, MainStep

(* The two bounds of the connections; ConnectionsInv has the rest. *)
LEMMA ConnectionsTypesStep ==
  idle <= MaxIdle /\ listings <= MaxListings /\ ConnectionsInv /\ [Next]_processVars =>
    idle' <= MaxIdle /\ listings' <= MaxListings
<1> SUFFICES ASSUME idle <= MaxIdle, listings <= MaxListings, ConnectionsInv,
                    [Next]_processVars
             PROVE  idle' <= MaxIdle /\ listings' <= MaxListings
  OBVIOUS
<1> USE ConnectionsAssumption DEF ConnectionsInv
<1>1. CASE StoreStep
  <2>1. ASSUME NEW h \in Goroutines, NEW place, Acquire(h, place) PROVE idle' <= MaxIdle
    BY <2>1 DEF Acquire
  <2>2. ASSUME NEW h \in Goroutines, NEW place, Release(h, place)
        PROVE  idle' <= MaxIdle /\ UNCHANGED listings
    BY <2>2 DEF Release
  <2>3. CASE TimeOutSession
    BY <2>3 DEF TimeOutSession
  <2>4. ASSUME NEW h \in Goroutines, StoreCall(h)
        PROVE  idle' <= MaxIdle /\ listings' <= MaxListings
    BY <2>1, <2>2, <2>4 DEF StoreCall, Prepare, Prepared, Execute, GetInstance, GetBinding,
         AddBinding, GetAllBindings, Finish, RollBack, Abandon, GiveUp, Break
  <2> QED BY <1>1, <2>3, <2>4 DEF StoreStep
<1>2. CASE MainReturns \/ Crash
  BY <1>2 DEF MainReturns, Crash, Ends, ForgetConnections
<1>3. CASE \/ StartUp \/ Serve \/ MainWaits \/ CannotServe \/ Listening \/ Disturb
           \/ LosesSession \/ Elsewhere \/ Again
           \/ \E t \in Threads : Program(t)
  BY <1>3 DEF StartUp, Serve, MainWaits, CannotServe, Listening, Disturb, LosesSession,
       Elsewhere, Again, Program, connectionVars
<1>4. CASE UNCHANGED processVars
  BY <1>4 DEF processVars, connectionVars
<1> QED BY <1>1, <1>2, <1>3, <1>4 DEF Next, MainStep

(***************************************************************************)
(* Every variable keeps its type, and the counters their bounds: sessions  *)
(* are abandoned only by the calls of GetAllBindings that were counted.    *)
(***************************************************************************)
THEOREM ProcessTypes == Spec => []ProcessTypeOK
<1> DEFINE Inv == /\ StartupTypeInv /\ ServerTypeOK /\ WaitInv /\ ConnectionsInv
                  /\ idle <= MaxIdle /\ listings <= MaxListings
<1>1. Init => Inv
  <2> SUFFICES ASSUME Init PROVE Inv
    OBVIOUS
  <2>1. StartupTypeInv
    <3>1. /\ conf \in Configurations \cup {Unset}
          /\ stage = IF Embedded THEN "server" ELSE "load"
      BY DEF Init
    <3>2. stage \in Stages /\ stage \notin SqlStages /\ (Embedded => stage = "server")
      BY <3>1 DEF Stages, SqlStages
    <3>3. faults \in 0 .. MaxFaults
      BY FaultAssumption DEF Init
    <3> QED BY <3>1, <3>2, <3>3 DEF Init, StartupTypeInv, StartupTypeOK
  <2>2. ServerTypeOK /\ WaitInv
    BY DEF Init, NoServer, ServerTypeOK, WaitInv, Received
  <2>3. Listing = {} /\ RefusedOnlyWhenDrained /\ calling \in [Goroutines -> Calls]
    BY DEF Init, NoConnections, Listing, RefusedOnlyWhenDrained, Calls
  <2>4. ConnectionsInv /\ idle <= MaxIdle /\ listings <= MaxListings
    BY <2>3, FS_EmptySet, ConnectionsAssumption DEF Init, NoConnections, ConnectionsInv
  <2> QED BY <2>1, <2>2, <2>4
<1>2. Inv /\ [Next]_processVars => Inv'
  <2> SUFFICES ASSUME Inv, [Next]_processVars PROVE Inv'
    OBVIOUS
  <2>1. WaitInv' /\ ConnectionsInv' /\ StartupTypeInv'
    BY WaitStep, ConnectionsStep, StartupTypesStep, ProcessAssumption
  <2>2. ServerTypeOK' /\ idle' <= MaxIdle /\ listings' <= MaxListings
    BY <2>1, ServerTypesStep, ConnectionsTypesStep
  <2> QED BY <2>1, <2>2
<1>3. Inv => ProcessTypeOK
  <2> SUFFICES ASSUME Inv PROVE ProcessTypeOK
    OBVIOUS
  <2>1. Cardinality(Listing) \in Nat
    BY HandlersFinite DEF Listing
  <2>2. ConnectionsTypeOK
    BY <2>1, ConnectionsAssumption DEF ConnectionsInv, ConnectionsTypeOK
  <2> QED BY <2>2 DEF ProcessTypeOK, StartupTypeInv
<1> QED BY <1>1, <1>2, <1>3, PTL DEF Spec
=============================================================================
