--------------------------- MODULE SqlConnections ---------------------------
(***************************************************************************)
(* store/sql/mysql.go as a user of connections.  sql.Open of Go 1.7 sets   *)
(* no limit on the open connections of the pool and keeps MaxIdle of those *)
(* nobody uses; the server grants the broker's user MaxConnections         *)
(* sessions.  A call of the store that gets no connection fails; a         *)
(* transaction keeps its connection until Commit or Rollback.              *)
(***************************************************************************)
EXTENDS Integers, FiniteSets

CONSTANTS
  Goroutines,       \* the handlers that may call the store at the same time
  MaxIdle,          \* defaultMaxIdleConns of database/sql
  MaxConnections,   \* the sessions MySQL grants
  MaxListings       \* bound: the calls of GetAllBindings in one life of the process

ASSUME ConnectionsAssumption ==
  /\ IsFiniteSet(Goroutines)
  /\ MaxIdle \in Nat
  /\ MaxConnections \in Nat
  /\ MaxListings \in Nat

VARIABLES
  idle,        \* how many connections of the pool nobody uses
  holding,     \* the handlers that have one
  calling,     \* where each handler is in a call of the store
  abandoned,   \* sessions of transactions that nobody is going to end
  listings     \* history: the calls of GetAllBindings so far

connectionVars == <<idle, holding, calling, abandoned, listings>>

Calls == {"out", "preparing", "prepared", "executing", "getInstance", "getBinding",
          "addBinding", "getAllBindings", "refused"}

NoConnections ==
  /\ idle = 0
  /\ holding = {}
  /\ calling = [h \in Goroutines |-> "out"]
  /\ abandoned = 0
  /\ listings = 0

ForgetConnections ==
  /\ idle' = 0
  /\ holding' = {}
  /\ calling' = [h \in Goroutines |-> "out"]
  /\ abandoned' = 0
  /\ listings' = 0

-----------------------------------------------------------------------------
(* The pool and the server. *)

Sessions == idle + Cardinality(holding) + abandoned

At(h, place) == calling' = [calling EXCEPT ![h] = place]

(* An idle connection, a new one, or the error of a server that has no more. *)
Acquire(h, place) ==
  \/ /\ idle > 0
     /\ idle' = idle - 1
     /\ holding' = holding \cup {h}
     /\ At(h, place)
  \/ /\ idle = 0 /\ Sessions < MaxConnections
     /\ holding' = holding \cup {h}
     /\ At(h, place)
     /\ UNCHANGED idle
  \/ /\ idle = 0 /\ Sessions >= MaxConnections
     /\ At(h, "refused")
     /\ UNCHANGED <<idle, holding>>

\* Mutant of Release: the pool keeps every connection.
ReleaseAll(h, place) ==
  /\ holding' = holding \ {h}
  /\ idle' = idle + 1
  /\ At(h, place)
  /\ UNCHANGED <<abandoned, listings>>

(* The pool keeps MaxIdle connections and closes the others. *)
Release(h, place) ==
  /\ holding' = holding \ {h}
  /\ idle' = IF idle < MaxIdle THEN idle + 1 ELSE idle
  /\ At(h, place)
  /\ UNCHANGED <<abandoned, listings>>

(* The connection breaks; the call ends in an error and the pool drops it. *)
Break(h) ==
  /\ h \in holding
  /\ holding' = holding \ {h}
  /\ At(h, "out")
  /\ UNCHANGED <<idle, abandoned, listings>>

(* The server ends a session that was silent for wait_timeout. *)
TimeOutSession ==
  /\ \/ idle > 0 /\ idle' = idle - 1 /\ UNCHANGED abandoned
     \/ abandoned > 0 /\ abandoned' = abandoned - 1 /\ UNCHANGED idle
  /\ UNCHANGED <<holding, calling, listings>>

-----------------------------------------------------------------------------
(* The calls. *)

(* AddInstance, DeleteInstance and DeleteBinding prepare a statement ... *)
Prepare(h) ==
  calling[h] = "out" /\ Acquire(h, "preparing") /\ UNCHANGED <<abandoned, listings>>

Prepared(h) == calling[h] = "preparing" /\ Release(h, "prepared")

(* ... and execute it on a connection of its own. *)
Execute(h) ==
  calling[h] = "prepared" /\ Acquire(h, "executing") /\ UNCHANGED <<abandoned, listings>>

(* Begin of GetInstance, with Commit deferred. *)
GetInstance(h) ==
  calling[h] = "out" /\ Acquire(h, "getInstance") /\ UNCHANGED <<abandoned, listings>>

(* Query of GetBinding, with rows.Close deferred. *)
GetBinding(h) ==
  calling[h] = "out" /\ Acquire(h, "getBinding") /\ UNCHANGED <<abandoned, listings>>

(* Begin of AddBinding. *)
AddBinding(h) ==
  calling[h] = "out" /\ Acquire(h, "addBinding") /\ UNCHANGED <<abandoned, listings>>

(* Begin of GetAllBindings. *)
GetAllBindings(h) ==
  /\ calling[h] = "out"
  /\ listings < MaxListings
  /\ listings' = listings + 1
  /\ Acquire(h, "getAllBindings")
  /\ UNCHANGED abandoned

\* Mutant of Finish: AddBinding returns an error without Rollback.
FinishOrForget(h) ==
  \/ /\ calling[h] \in {"executing", "getInstance", "getBinding", "addBinding"}
     /\ Release(h, "out")
  \/ /\ calling[h] = "addBinding"
     /\ holding' = holding \ {h}
     /\ abandoned' = abandoned + 1
     /\ At(h, "out")
     /\ UNCHANGED <<idle, listings>>

(* Commit, Rollback or Close: on every path of these calls, failed or not. *)
Finish(h) ==
  /\ calling[h] \in {"executing", "getInstance", "getBinding", "addBinding"}
  /\ Release(h, "out")

(* GetAllBindings of an instance that is gone, or with a row it cannot decode. *)
RollBack(h) == calling[h] = "getAllBindings" /\ Release(h, "out")

(* Its other paths, success among them, return without Commit and Rollback. *)
Abandon(h) ==
  /\ calling[h] = "getAllBindings"
  /\ holding' = holding \ {h}
  /\ abandoned' = abandoned + 1
  /\ At(h, "out")
  /\ UNCHANGED <<idle, listings>>

(* The handler reports the error, or panics on the transaction it did not get. *)
GiveUp(h) ==
  calling[h] = "refused" /\ At(h, "out") /\ UNCHANGED <<idle, holding, abandoned, listings>>

StoreCall(h) ==
  \/ Prepare(h) \/ Prepared(h) \/ Execute(h)
  \/ GetInstance(h) \/ GetBinding(h) \/ AddBinding(h) \/ GetAllBindings(h)
  \/ Finish(h) \/ RollBack(h) \/ Abandon(h) \/ GiveUp(h) \/ Break(h)
=============================================================================
