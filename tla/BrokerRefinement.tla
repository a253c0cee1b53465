-------------------------- MODULE BrokerRefinement ---------------------------
(***************************************************************************)
(* The handlers over the SQL store implement AtomicBroker, however they    *)
(* interleave.  The records are the rows of the two tables; a handler has  *)
(* acted once UnBind deleted its binding, the one change that is not the   *)
(* last thing a handler does.                                              *)
(***************************************************************************)
EXTENDS BrokerProperties

PhaseOf(w) ==
  CASE pc[w] = "idle" -> "idle"
    [] pc[w] = "done" -> "answered"
    [] pc[w] \in UnbindLabels /\ req[w].op = "unbind" -> "applied"
    [] OTHER -> "called"

Phase == [w \in Workers |-> PhaseOf(w)]

Atomic == INSTANCE AtomicBroker
            WITH phase <- Phase,
                 Data <- InstanceRecords,
                 Names <- EqualBinding,
                 Matches <- compareService

(***************************************************************************)
(* Every handler acts on the records at most once and answers with the     *)
(* outcome of that step, whatever the other handlers do meanwhile.         *)
(***************************************************************************)
ActsAtomically == Atomic!Spec
=============================================================================
