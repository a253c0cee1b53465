---------------------------- MODULE AtomicBroker -----------------------------
(***************************************************************************)
(* What the broker promises about its records, seen from the platform: a   *)
(* request is called and answered, and in between it acts on the records   *)
(* at most once, in one step that decides the answer.  A success means     *)
(* that step was taken; 404, 410 and 409 tell what it found; any other     *)
(* error promises nothing but that no further change follows it.           *)
(***************************************************************************)
CONSTANTS
  Workers,
  Requests,
  None,
  Names(_, _),     \* Names(c, r): the credentials c are those request r asked for
  Matches(_, _),   \* Matches(data, r): the instance data is what request r asked for
  Data,            \* instance data
  Credentials

VARIABLES
  instanceRows,   \* [guid, data], at most one per guid
  bindingRows,    \* [inst, guid, cred], at most one per guid
  phase,          \* of each worker: "idle", "called", "applied" or "answered"
  req,
  resp

records == <<instanceRows, bindingRows>>

vars == <<records, phase, req, resp>>

HasInstance(g) == \E r \in instanceRows : r.guid = g

HasBinding(b) == \E r \in bindingRows : r.guid = b

Init ==
  /\ instanceRows = {}
  /\ bindingRows = {}
  /\ phase = [w \in Workers |-> "idle"]
  /\ req = [w \in Workers |-> None]
  /\ resp = [w \in Workers |-> [code |-> 0, ok |-> FALSE]]

Call(w, r) ==
  /\ phase[w] = "idle"
  /\ phase' = [phase EXCEPT ![w] = "called"]
  /\ req' = [req EXCEPT ![w] = r]
  /\ UNCHANGED <<records, resp>>

Serving(w, op) == phase[w] = "called" /\ req[w].op = op

Answer(w, code, ok) ==
  /\ phase' = [phase EXCEPT ![w] = "answered"]
  /\ resp' = [resp EXCEPT ![w] = [code |-> code, ok |-> ok]]
  /\ UNCHANGED req

(* A change, answered with success or, when the store's reply is lost, 500. *)
Changed(w, code, lost) == Answer(w, code, TRUE) \/ Answer(w, lost, FALSE)

Provision(w) ==
  /\ Serving(w, "create")
  /\ ~HasInstance(req[w].inst)
  /\ \E data \in Data :
       /\ data.plan = req[w].plan /\ data.meta = req[w].meta
       /\ req[w].db \in {data.db, None}
       /\ instanceRows' = instanceRows \cup {[guid |-> req[w].inst, data |-> data]}
  /\ UNCHANGED bindingRows
  /\ Changed(w, 201, 500)

(* An instance goes with all of its bindings. *)
Deprovision(w) ==
  /\ Serving(w, "remove")
  /\ instanceRows' = {r \in instanceRows : r.guid # req[w].inst}
  /\ bindingRows' = {r \in bindingRows : r.inst # req[w].inst}
  /\ Answer(w, 200, TRUE)

BindApp(w) ==
  /\ Serving(w, "bind")
  /\ HasInstance(req[w].inst) /\ ~HasBinding(req[w].bind)
  /\ \E c \in Credentials :
       /\ req[w].user \in {c.user, None} /\ req[w].pw \in {c.pw, None}
       /\ bindingRows' = bindingRows \cup
            {[inst |-> req[w].inst, guid |-> req[w].bind, cred |-> c]}
  /\ UNCHANGED instanceRows
  /\ Changed(w, 201, 200)

(* The record goes first; how the clean-up of the user ends is not promised. *)
UnbindApp(w) ==
  /\ Serving(w, "unbind")
  /\ HasBinding(req[w].bind)
  /\ bindingRows' = {r \in bindingRows : r.guid # req[w].bind}
  /\ UNCHANGED instanceRows
  /\ \/ phase' = [phase EXCEPT ![w] = "applied"] /\ UNCHANGED <<req, resp>>
     \/ Answer(w, 500, FALSE)

(* A concurrent UnBind or RemoveServiceInstance took the record in between. *)
FinishUnbind(w) ==
  /\ phase[w] = "applied"
  /\ Changed(w, 200, 500)
  /\ UNCHANGED records

-----------------------------------------------------------------------------
(* Answers that tell what the records hold. *)

TellInstance(w) ==
  /\ phase[w] = "called"
  /\ \E r \in instanceRows :
       /\ r.guid = req[w].inst
       /\ \/ Serving(w, "get") /\ Answer(w, 200, TRUE)
          \/ Serving(w, "create") /\ Matches(r.data, req[w]) /\ Answer(w, 200, TRUE)
          \/ Serving(w, "create") /\ ~Matches(r.data, req[w]) /\ Answer(w, 409, FALSE)
  /\ UNCHANGED records

TellBinding(w) ==
  /\ Serving(w, "bind")
  /\ \E r \in bindingRows :
       /\ r.guid = req[w].bind
       /\ IF Names(r.cred, req[w]) THEN Answer(w, 200, TRUE) ELSE Answer(w, 409, FALSE)
  /\ UNCHANGED records

TellNoInstance(w) ==
  /\ phase[w] = "called"
  /\ ~HasInstance(req[w].inst)
  /\ \/ Serving(w, "get") /\ Answer(w, 404, FALSE)
     \/ Serving(w, "remove") /\ Answer(w, 410, FALSE)
     \/ Serving(w, "unbind") /\ Answer(w, 410, FALSE)
  /\ UNCHANGED records

TellNoBinding(w) ==
  /\ Serving(w, "unbind") /\ ~HasBinding(req[w].bind)
  /\ Answer(w, 410, FALSE)
  /\ UNCHANGED records

(* An error of another kind: an unknown plan, a user that exists, a failure. *)
Refuse(w) ==
  /\ phase[w] = "called"
  /\ \/ Answer(w, 500, FALSE)
     \/ Serving(w, "create") /\ Answer(w, 400, FALSE)
     \/ Serving(w, "bind") /\ \E code \in {200, 409} : Answer(w, code, FALSE)
  /\ UNCHANGED records

-----------------------------------------------------------------------------
(* The request ends: its answer is delivered, or it will never be answered. *)

End(w) ==
  /\ phase[w] # "idle"
  /\ phase' = [phase EXCEPT ![w] = "idle"]
  /\ req' = [req EXCEPT ![w] = None]
  /\ resp' = [resp EXCEPT ![w] = [code |-> 0, ok |-> FALSE]]
  /\ UNCHANGED records

Crash ==
  /\ phase' = [w \in Workers |-> "idle"]
  /\ req' = [w \in Workers |-> None]
  /\ resp' = [w \in Workers |-> [code |-> 0, ok |-> FALSE]]
  /\ UNCHANGED records

Next ==
  \/ \E w \in Workers :
       \/ \E r \in Requests : Call(w, r)
       \/ Provision(w) \/ Deprovision(w) \/ BindApp(w) \/ UnbindApp(w) \/ FinishUnbind(w)
       \/ TellInstance(w) \/ TellBinding(w) \/ TellNoInstance(w) \/ TellNoBinding(w)
       \/ Refuse(w) \/ End(w)
  \/ Crash

Spec == Init /\ [][Next]_vars
=============================================================================
