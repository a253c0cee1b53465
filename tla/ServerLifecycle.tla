--------------------------- MODULE ServerLifecycle ---------------------------
(***************************************************************************)
(* Start, Wait and Stop of broker/server.go: the listener, the goroutine   *)
(* that runs http.Server.Serve, and the goroutines of the program that     *)
(* wait for it.  doneChannel has no buffer: the goroutine sends the error  *)
(* of Serve, once, to one receiver.                                        *)
(***************************************************************************)
EXTENDS Faults

CONSTANT Threads   \* the goroutines that call Wait and Stop

VARIABLES
  listener,   \* "none", "open" or "closed"
  serving,    \* the goroutine of Start: "off", "accepting", "sending", "over"
  thread      \* a goroutine of the program: "out", "receiving", "returned"

lifecycleVars == <<listener, serving, thread>>

NoServer ==
  /\ listener = "none"
  /\ serving = "off"
  /\ thread = [t \in Threads |-> "out"]

ForgetServer ==
  /\ listener' = "none"
  /\ serving' = "off"
  /\ thread' = [t \in Threads |-> "out"]

\* Mutant of Start: the goroutine sends before it serves.
StartSending ==
  /\ listener' = "open"
  /\ serving' = "sending"
  /\ UNCHANGED <<thread, faults>>

(* net.Listen succeeds; Serve runs in a goroutine of its own. *)
Start ==
  /\ listener' = "open"
  /\ serving' = "accepting"
  /\ UNCHANGED <<thread, faults>>

(* The port is taken. *)
CannotListen == Fault("listen") /\ UNCHANGED lifecycleVars

(* Serve gives up on an error of Accept that is not temporary, and closes the listener. *)
AcceptFails ==
  /\ serving = "accepting" /\ listener = "open"
  /\ Fault("accept")
  /\ listener' = "closed"
  /\ serving' = "sending"
  /\ UNCHANGED thread

\* Mutant of ServeReturns: the error of a listener that was closed is not sent.
ServeReturnsSilently ==
  /\ serving = "accepting" /\ listener = "closed"
  /\ serving' = "over"
  /\ UNCHANGED <<listener, thread, faults>>

(* Serve returns an error whenever it returns, on a closed listener as well. *)
ServeReturns ==
  /\ serving = "accepting" /\ listener = "closed"
  /\ serving' = "sending"
  /\ UNCHANGED <<listener, thread, faults>>

(* <-s.doneChannel *)
Receive(t) == thread' = [thread EXCEPT ![t] = "receiving"]

Wait(t) ==
  /\ thread[t] = "out"
  /\ Receive(t)
  /\ UNCHANGED <<listener, serving, faults>>

(* A listener that is closed already makes Stop return its error at once. *)
Stop(t, wait) ==
  /\ thread[t] = "out"
  /\ listener' = "closed"
  /\ IF wait /\ listener = "open" THEN Receive(t) ELSE UNCHANGED thread
  /\ UNCHANGED <<serving, faults>>

(* The one value of the channel. *)
Done(t) ==
  /\ serving = "sending"
  /\ thread[t] = "receiving"
  /\ serving' = "over"
  /\ thread' = [thread EXCEPT ![t] = "returned"]
  /\ UNCHANGED <<listener, faults>>
=============================================================================
