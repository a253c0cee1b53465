------------------------------ MODULE Startup -------------------------------
(***************************************************************************)
(* main.go up to the server it starts: the configuration file, the plans,  *)
(* and the store that NewMySQLStore or NewStardogStore makes ready.  Each  *)
(* statement sent to MySQL and each request to Stardog is one step.  What  *)
(* the servers keep (schema, databases) outlives the process; a process    *)
(* that exits is started again, perhaps with other services bound to it.   *)
(***************************************************************************)
EXTENDS Stardog, Functions

CONSTANTS
  Configurations,   \* configuration files, with the MYSQL_* variables of the deployment
  VcapServices,     \* what VCAP_SERVICES may be when a process starts
  BrokerDb,         \* "metadata<BrokerID>", the database of the Stardog store
  Unset             \* a parameter, variable or service that is not there

VARIABLES
  conf,       \* the configuration file; Unset in a program that embeds the server
  vcap,       \* VCAP_SERVICES
  stage,      \* what main does next
  target,     \* history: the MySQL server chosen last
  schema,     \* <<server, object>>: what the MySQL servers have
  selected    \* the session of createMetaDatabase has a database in use

startupVars == <<conf, vcap, stage, target, schema, selected>>

Stages == {"load", "store", "createDatabase", "useDatabase", "createServiceTable",
           "createBindTable", "findDatabase", "makeDatabase", "server", "serving", "exited"}

Objects == {"database", "service_instance", "bindings"}

(* Every way out of main but a success. *)
Abort == stage' = "exited" /\ selected' = FALSE

Proceed(next) == stage' = next /\ UNCHANGED selected

-----------------------------------------------------------------------------
(* The configuration. *)

(* A plan of the configuration file: parses, when its parameters fit its factory. *)
PlanConfig(name, parses) == [name |-> name, parses |-> parses]

(* A bound service.  server stands for the address and the database that its
   credentials give, when they are complete.                                 *)
VCAPService(name, plan, server, complete) ==
  [name |-> name, plan |-> plan, server |-> server, complete |-> complete]

(* NewSdLogger *)
NewSdLogger(level) == level \in {"DEBUG", "INFO", "WARN", "ERROR"}

handlePlugins(plans) ==
  \A p \in plans : p.name \in {"shared_database_plan", "perinstance"} /\ p.parses

(* An environment variable wins over a parameter, a parameter over the default. *)
getValueSearchPath(default, parameter, variable) ==
  IF variable # Unset THEN variable ELSE IF parameter # Unset THEN parameter ELSE default

\* Mutant of Wanted: the name or the plan is enough.
WantedByEither(service, name, plan) ==
  \/ name = Unset /\ plan = Unset
  \/ service.name = name
  \/ service.plan = plan

(* "If no specific name or plan is used we pick the first one" *)
Wanted(service, name, plan) ==
  /\ name \in {Unset, service.name}
  /\ plan \in {Unset, service.plan}

(* The service name that is looked for, Unset for any. *)
ServiceName(c) == getValueSearchPath(Unset, c.name, c.variables.name)

(* The service at i is wanted and none before it is. *)
First(list, i, name, plan) ==
  /\ Wanted(list[i], name, plan)
  /\ \A j \in 1 .. i - 1 : ~Wanted(list[j], name, plan)

(***************************************************************************)
(* The server of the first service that is wanted, if its credentials are  *)
(* complete.  services maps a service type to its services in order; it    *)
(* maps nothing when VCAP_SERVICES is not set.                             *)
(***************************************************************************)
getVCAPPlan(c, services) ==
  LET type == getValueSearchPath("p-mysql", c.type, c.variables.type)
      plan == getValueSearchPath(Unset, c.plan, c.variables.plan)
      first(i) == First(services[type], i, ServiceName(c), plan)
  IN  IF /\ type \in DOMAIN services
         /\ \E i \in DOMAIN services[type] : first(i) /\ services[type][i].complete
      THEN services[type][CHOOSE i \in DOMAIN services[type] : first(i)].server
      ELSE Unset

(* The server NewMySQLStore turns to. *)
MySQLServer(c, services) == IF c.useVcap THEN getVCAPPlan(c, services) ELSE c.contact

-----------------------------------------------------------------------------
(* main *)

(* LoadJSON, NewSdLogger and handlePlugins *)
LoadConfiguration ==
  /\ stage = "load"
  /\ IF conf.parses /\ NewSdLogger(conf.level) /\ handlePlugins(conf.plans)
     THEN Proceed("store") ELSE Abort
  /\ UNCHANGED <<conf, vcap, target, schema, stardogVars, faults>>

ChooseStore ==
  /\ stage = "store"
  /\ \/ conf.storage = "stardog" /\ Proceed("findDatabase") /\ UNCHANGED target
     \/ /\ conf.storage = "sql"
        /\ conf.driver \in {"mysql", Unset}
        /\ MySQLServer(conf, vcap) # Unset
        /\ target' = MySQLServer(conf, vcap)
        /\ Proceed("createDatabase")
     \/ /\ conf.storage = "sql"
        /\ conf.driver \notin {"mysql", Unset} \/ MySQLServer(conf, vcap) = Unset
        /\ Abort /\ UNCHANGED target
     \/ conf.storage \notin {"stardog", "sql"} /\ Abort /\ UNCHANGED target
  /\ UNCHANGED <<conf, vcap, schema, stardogVars, faults>>

-----------------------------------------------------------------------------
(* NewMySQLStore: createMetaDatabase.  Every statement says IF NOT EXISTS. *)

Made(object) == <<target, object>> \in schema

\* Mutant of Create: a failed statement is not noticed.
CreateBlindly(at, object, possible, next) ==
  /\ stage = at
  /\ \E reply \in BOOLEAN :
       \/ /\ schema' = IF possible THEN schema \cup {<<target, object>>} ELSE schema
          /\ Replied("storeReplyLost", reply, possible)
       \/ CallFails("storeWrite", reply) /\ UNCHANGED schema
  /\ Proceed(next)
  /\ UNCHANGED <<conf, vcap, target, stardogVars>>

Create(at, object, possible, next) ==
  /\ stage = at
  /\ \E reply \in BOOLEAN :
       /\ \/ /\ schema' = IF possible THEN schema \cup {<<target, object>>} ELSE schema
             /\ Replied("storeReplyLost", reply, possible)
          \/ CallFails("storeWrite", reply) /\ UNCHANGED schema
       /\ IF reply THEN Proceed(next) ELSE Abort
  /\ UNCHANGED <<conf, vcap, target, stardogVars>>

CreateMetaDatabase == Create("createDatabase", "database", TRUE, "useDatabase")

\* Mutant of UseDatabase: the session is not the one of the tables.
UseDatabaseElsewhere ==
  /\ stage = "useDatabase"
  /\ \E reply \in BOOLEAN :
       /\ \/ Replied("storeReplyLost", reply, Made("database"))
          \/ CallFails("storeWrite", reply)
       /\ IF reply THEN Proceed("createServiceTable") ELSE Abort
  /\ UNCHANGED <<conf, vcap, target, schema, stardogVars>>

UseDatabase ==
  /\ stage = "useDatabase"
  /\ \E reply \in BOOLEAN :
       /\ \/ Replied("storeReplyLost", reply, Made("database"))
          \/ CallFails("storeWrite", reply)
       /\ IF reply THEN stage' = "createServiceTable" /\ selected' = TRUE ELSE Abort
  /\ UNCHANGED <<conf, vcap, target, schema, stardogVars>>

(* No database is in use in a session the USE was not sent on. *)
CreateServiceTable ==
  Create("createServiceTable", "service_instance", selected, "createBindTable")

(* Its foreign key names the other table. *)
CreateBindTable ==
  Create("createBindTable", "bindings", selected /\ Made("service_instance"), "server")

(* The session of USE breaks between two statements; the pool opens another. *)
LoseSession ==
  /\ stage \in {"createServiceTable", "createBindTable"}
  /\ selected
  /\ Fault("sessionLost")
  /\ selected' = FALSE
  /\ UNCHANGED <<conf, vcap, stage, target, schema, stardogVars>>

-----------------------------------------------------------------------------
(* NewStardogStore *)

(* Any error of GetDatabaseSize passes for a database that is not there. *)
FindDatabase ==
  /\ stage = "findDatabase"
  /\ \E reply \in BOOLEAN :
       /\ GetDatabaseSize(conf.contact, BrokerDb, reply)
       /\ Proceed(IF reply THEN "server" ELSE "makeDatabase")
  /\ UNCHANGED <<conf, vcap, target, schema>>

MakeDatabase ==
  /\ stage = "makeDatabase"
  /\ \E reply \in BOOLEAN :
       /\ CreateDatabase(conf.contact, BrokerDb, reply)
       /\ IF reply THEN Proceed("server") ELSE Abort
  /\ UNCHANGED <<conf, vcap, target, schema>>

(* Another process with the same broker_id and configuration is faster. *)
RivalMakesDatabase ==
  /\ conf # Unset /\ conf.storage = "stardog"
  /\ <<conf.contact, BrokerDb>> \notin databases
  /\ databases' = databases \cup {<<conf.contact, BrokerDb>>}
  /\ UNCHANGED <<startupVars, users, grants, faults>>

-----------------------------------------------------------------------------

PrepareToServe ==
  \/ LoadConfiguration \/ ChooseStore
  \/ CreateMetaDatabase \/ UseDatabase \/ CreateServiceTable \/ CreateBindTable
  \/ FindDatabase \/ MakeDatabase

(* The platform starts a process that exited, with the services bound by now. *)
Relaunch ==
  /\ stage = "exited"
  /\ stage' = "load"
  /\ vcap' \in VcapServices
  /\ UNCHANGED <<conf, target, schema, selected, stardogVars, faults>>
=============================================================================
