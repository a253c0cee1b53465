------------------------------- MODULE Faults -------------------------------
(***************************************************************************)
(* What can go wrong with a call the broker makes over the network.  Every *)
(* store operation and every Stardog request is one remote call; the       *)
(* caller sees either success (reply TRUE) or a Go error (reply FALSE).    *)
(* A call may fail before it takes effect, or take effect and have its     *)
(* reply lost: the broker sees the same error in both cases.  The handlers *)
(* themselves decide what an error means.                                  *)
(***************************************************************************)
EXTENDS Naturals

CONSTANTS
  FaultKinds,   \* the kinds of fault a model admits
  MaxFaults     \* bound: how many faults may strike in one behaviour

ASSUME FaultAssumption ==
  /\ FaultKinds \subseteq {"storeRead", "storePartial", "storeBegin", "storeWrite",
                           "storeReplyLost", "sessionLost", "stardogCall",
                           "stardogReplyLost", "listen", "accept", "restart"}
  /\ MaxFaults \in Nat

VARIABLE faults   \* number of faults so far

Fault(kind) ==
  /\ kind \in FaultKinds
  /\ faults < MaxFaults
  /\ faults' = faults + 1

(***************************************************************************)
(* The call reached its server, which answered outcome; the reply reaches  *)
(* the caller or is lost on the way.                                       *)
(***************************************************************************)
Replied(kind, reply, outcome) ==
  \/ reply = outcome /\ UNCHANGED faults
  \/ reply = FALSE /\ Fault(kind)

(* The call never took effect. *)
CallFails(kind, reply) == reply = FALSE /\ Fault(kind)
=============================================================================
