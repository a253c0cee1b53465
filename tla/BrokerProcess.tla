--------------------------- MODULE BrokerProcess ----------------------------
(***************************************************************************)
(* The life of a process that runs the broker, around the handlers that    *)
(* ServiceBroker models: main starts (Startup), serves (ServerLifecycle)   *)
(* and its handlers use the connections of the store (SqlConnections),     *)
(* until the process ends and the platform starts another.  A program may  *)
(* embed the server instead, with goroutines that call Wait and Stop.      *)
(***************************************************************************)
EXTENDS Startup, ServerLifecycle, SqlConnections

CONSTANTS
  Main,       \* the thread of main
  Embedding   \* TRUE: look at programs that embed the server as well

ASSUME ProcessAssumption ==
  /\ Main \in Threads
  /\ Embedding \in BOOLEAN
  /\ Unset \notin Configurations

processVars == <<startupVars, stardogVars, lifecycleVars, connectionVars, faults>>

Embedded == conf = Unset

Init ==
  /\ conf \in Configurations \cup (IF Embedding THEN {Unset} ELSE {})
  /\ vcap \in VcapServices
  /\ stage = IF Embedded THEN "server" ELSE "load"
  /\ target = Unset
  /\ schema = {}
  /\ selected = FALSE
  /\ databases = {} /\ users = {} /\ grants = {}
  /\ NoServer
  /\ NoConnections
  /\ faults = 0

(* Sockets, goroutines and the pool go with the process. *)
Ends == Abort /\ ForgetServer /\ ForgetConnections

(* What Startup does, while nothing else of the process runs. *)
StartUp == PrepareToServe /\ UNCHANGED <<lifecycleVars, connectionVars>>

Serve ==
  /\ stage = "server"
  /\ Start
  /\ Proceed("serving")
  /\ UNCHANGED <<conf, vcap, target, schema, stardogVars, connectionVars>>

(* main exits; an embedding program may try again. *)
CannotServe ==
  /\ stage = "server"
  /\ CannotListen
  /\ IF Embedded THEN UNCHANGED <<stage, selected>> ELSE Abort
  /\ UNCHANGED <<conf, vcap, target, schema, stardogVars, connectionVars>>

(* The goroutine of Start, and whoever receives from it. *)
Listening ==
  /\ stage = "serving"
  /\ ServeReturns \/ \E t \in Threads : Done(t)
  /\ UNCHANGED <<startupVars, stardogVars, connectionVars>>

Disturb ==
  /\ stage = "serving"
  /\ AcceptFails
  /\ UNCHANGED <<startupVars, stardogVars, connectionVars>>

(* After Start, main waits. *)
MainWaits ==
  /\ stage = "serving" /\ ~Embedded
  /\ Wait(Main)
  /\ UNCHANGED <<startupVars, stardogVars, connectionVars>>

(* Wait always returns an error: main exits, whatever the handlers are doing. *)
MainReturns ==
  /\ stage = "serving" /\ ~Embedded
  /\ thread[Main] = "returned"
  /\ Ends
  /\ UNCHANGED <<conf, vcap, target, schema, stardogVars, faults>>

(* An embedding program waits and stops from any of its goroutines. *)
Program(t) ==
  /\ stage = "serving" /\ Embedded
  /\ Wait(t) \/ \E wait \in BOOLEAN : Stop(t, wait)
  /\ UNCHANGED <<startupVars, stardogVars, connectionVars>>

(* The handlers of main's server; they do not need the listener any more. *)
StoreStep ==
  /\ stage = "serving" /\ ~Embedded
  /\ conf.storage = "sql"
  /\ TimeOutSession \/ \E h \in Goroutines : StoreCall(h)
  /\ UNCHANGED <<startupVars, stardogVars, lifecycleVars, faults>>

Crash ==
  /\ ~Embedded /\ stage # "exited"
  /\ Fault("restart")
  /\ Ends
  /\ UNCHANGED <<conf, vcap, target, schema, stardogVars>>

Elsewhere == RivalMakesDatabase /\ UNCHANGED <<lifecycleVars, connectionVars>>

LosesSession == LoseSession /\ UNCHANGED <<lifecycleVars, connectionVars>>

Again == Relaunch /\ UNCHANGED <<lifecycleVars, connectionVars>>

MainStep == StartUp \/ Serve \/ MainWaits \/ MainReturns

Next ==
  \/ MainStep \/ CannotServe \/ Listening \/ StoreStep
  \/ \E t \in Threads : Program(t)
  \/ Disturb \/ LosesSession \/ Crash \/ Elsewhere \/ Again

Spec == Init /\ [][Next]_processVars
=============================================================================
