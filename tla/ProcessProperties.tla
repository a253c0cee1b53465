------------------------- MODULE ProcessProperties --------------------------
(***************************************************************************)
(* What whoever deploys the broker, or embeds it, can rely on.             *)
(***************************************************************************)
EXTENDS BrokerProcess

(* A name says which service is meant, whatever else is bound: Cloud
   Foundry's names are unique in a space.                              *)
ASSUME VcapAssumption ==
  \A v1, v2 \in VcapServices : \A t \in DOMAIN v1 \cap DOMAIN v2 :
    \A s1 \in Range(v1[t]), s2 \in Range(v2[t]) :
      s1.name = s2.name => s1.server = s2.server

MySQLServers == {s.server : s \in UNION {UNION {Range(v[t]) : t \in DOMAIN v} : v \in VcapServices}}
                  \cup {c.contact : c \in Configurations}

SqlStages == {"createDatabase", "useDatabase", "createServiceTable", "createBindTable"}

StartupTypeOK ==
  /\ conf \in Configurations \cup {Unset}
  /\ vcap \in VcapServices
  /\ stage \in Stages
  /\ target \in MySQLServers \cup {Unset}
  /\ schema \subseteq MySQLServers \X Objects
  /\ selected \in BOOLEAN
  /\ databases \subseteq {c.contact : c \in Configurations} \X {BrokerDb}
  /\ users = {} /\ grants = {}
  /\ faults \in 0 .. MaxFaults

ServerTypeOK ==
  /\ listener \in {"none", "open", "closed"}
  /\ serving \in {"off", "accepting", "sending", "over"}
  /\ thread \in [Threads -> {"out", "receiving", "returned"}]

ConnectionsTypeOK ==
  /\ idle \in 0 .. MaxIdle
  /\ holding \subseteq Goroutines
  /\ calling \in [Goroutines -> Calls]
  /\ abandoned \in 0 .. MaxListings
  /\ listings \in 0 .. MaxListings

(* The type of every variable, and the bounds of those that count. *)
ProcessTypeOK == StartupTypeOK /\ ServerTypeOK /\ ConnectionsTypeOK

(* Why: only main prepares a store, and sends no statement to an unknown server. *)
StartupTypeInv ==
  /\ StartupTypeOK
  /\ Embedded => stage \in {"server", "serving"}
  /\ stage \in SqlStages => target # Unset

-----------------------------------------------------------------------------
(* Start-up. *)

(* The configuration leads to a store, with the services bound now. *)
Usable ==
  /\ ~Embedded
  /\ conf.parses /\ NewSdLogger(conf.level) /\ handlePlugins(conf.plans)
  /\ \/ conf.storage = "stardog"
     \/ /\ conf.storage = "sql" /\ conf.driver \in {"mysql", Unset}
        /\ MySQLServer(conf, vcap) # Unset

(* What the calls of the store need is there. *)
StoreReady ==
  IF conf.storage = "stardog" THEN <<conf.contact, BrokerDb>> \in databases
  ELSE /\ target = MySQLServer(conf, vcap)
       /\ {target} \X Objects \subseteq schema

(***************************************************************************)
(* The process listens only with a usable configuration and a store that   *)
(* is complete on the server it means, whatever statements of an earlier   *)
(* start took effect, were refused or lost their session.                  *)
(***************************************************************************)
ServesOnlyWhenReady == stage = "serving" /\ ~Embedded => Usable /\ StoreReady

(* What main knows at each stage, although the servers are not asked again. *)
ReadyInv ==
  ~Embedded =>
    /\ stage \in Stages
    /\ stage \notin {"load", "exited"} =>
         conf.parses /\ NewSdLogger(conf.level) /\ handlePlugins(conf.plans)
    /\ stage \in {"findDatabase", "makeDatabase"} => conf.storage = "stardog"
    /\ stage \in SqlStages =>
         /\ conf.storage = "sql" /\ conf.driver \in {"mysql", Unset}
         /\ target = MySQLServer(conf, vcap) /\ target # Unset
    /\ stage \in SqlStages \ {"createDatabase"} => Made("database")
    /\ stage = "createBindTable" => Made("service_instance")
    /\ stage \in {"server", "serving"} => Usable /\ StoreReady

(* Either the contact string or a service by name. *)
NamesServer ==
  /\ conf # Unset /\ conf.storage = "sql"
  /\ conf.useVcap => ServiceName(conf) # Unset

(***************************************************************************)
(* A configuration that names its service leads to the same MySQL server   *)
(* in every life of the process, in whatever order VCAP_SERVICES lists the *)
(* services and whatever joins them: the records are where they were.      *)
(***************************************************************************)
MetadataStaysPut ==
  [][NamesServer /\ target # Unset => target' = target]_processVars

(* Why: the target was found under its name, in this life or an earlier one. *)
TargetInv ==
  /\ vcap \in VcapServices
  /\ NamesServer /\ target # Unset =>
       \E v \in VcapServices : target = MySQLServer(conf, v)

-----------------------------------------------------------------------------
(* Serving. *)

Received == {t \in Threads : thread[t] = "returned"}

(***************************************************************************)
(* Whoever returns from Wait or Stop(true) finds Serve over and the port   *)
(* free, however the two are combined.                                     *)
(***************************************************************************)
WaitEndsAfterServe == Received # {} => listener = "closed" /\ serving = "over"

(* Why: the goroutine sends after Serve, and Serve closes the listener. *)
WaitInv ==
  /\ thread \in [Threads -> {"out", "receiving", "returned"}]
  /\ serving \in {"off", "accepting", "sending", "over"}
  /\ stage # "serving" => serving = "off"
  /\ serving \in {"sending", "over"} => listener = "closed"
  /\ serving # "over" => Received = {}

(***************************************************************************)
(* GetAllBindings is the only call that loses connections: a call is       *)
(* refused one only after so many removals that their sessions and those   *)
(* of the other handlers can make up all that MySQL grants.                *)
(***************************************************************************)
RefusedOnlyWhenDrained ==
  \A h \in Goroutines :
    calling[h] = "refused" => listings + Cardinality(Goroutines) > MaxConnections

Listing == {h \in Goroutines : calling[h] = "getAllBindings"}

(* Why: whoever is outside a call, or between two, has given its connection back. *)
ConnectionsInv ==
  /\ idle \in Nat /\ abandoned \in Nat /\ listings \in Nat
  /\ holding \subseteq Goroutines
  /\ calling \in [Goroutines -> Calls]
  /\ \A h \in Goroutines : calling[h] \in {"out", "prepared", "refused"} => h \notin holding
  /\ abandoned + Cardinality(Listing) <= listings
  /\ RefusedOnlyWhenDrained

-----------------------------------------------------------------------------
(* The scheduler runs main and the goroutine of Start, the platform starts
   a process that exited.                                                   *)
ProcessFairSpec ==
  Spec /\ WF_processVars(MainStep) /\ WF_processVars(Listening) /\ WF_processVars(Again)

(***************************************************************************)
(* A usable configuration comes to serve and stays at it once calls cease  *)
(* to fail, whatever an earlier start left half done, and although every   *)
(* error of GetDatabaseSize passes for a missing database and another      *)
(* process may create it first.                                            *)
(***************************************************************************)
GoodConfigurationServes ==
  <>[]Usable => <>[](stage = "serving" /\ serving = "accepting")

(* Once the listener is closed, some goroutine in Wait or Stop(true) returns. *)
StopReleasesOne ==
  (listener = "closed" /\ \E t \in Threads : thread[t] = "receiving")
    ~> (Received # {} \/ listener # "closed")

(***************************************************************************)
(* A goroutine in Wait on a running server gets its answer once Stop has   *)
(* closed the listener, as the comment on Wait says: it blocks until then. *)
(***************************************************************************)
StopEndsWait ==
  \A t \in Threads :
    [](thread[t] = "receiving" /\ listener = "open" =>
         [](listener = "closed" => <>(thread[t] # "receiving")))
=============================================================================
