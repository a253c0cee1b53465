--------------------------- MODULE MCServiceBroker ---------------------------
(***************************************************************************)
(* Small instances of ServiceBroker for TLC.  Instances g1 and g2 bind the *)
(* binding GUIDs b1 and b2; plan "shared" is configured for server s1, the *)
(* instances of plan "own" name a server.  Database dx and user ux of s1   *)
(* belong to another application.                                          *)
(***************************************************************************)
EXTENDS BrokerRefinement, TLC

MCPlanName == [p \in PlanIDs |-> IF p = "own" THEN "perinstance" ELSE "shared_database_plan"]

MCInstanceOf == [b \in Bindings |-> IF b = "b1" THEN "g1" ELSE "g2"]

HomeOnS1 == [g \in Instances |-> "s1"]

AllPlans == {{"shared", "own"}}

SomePlans == {{"shared", "own"}, {"own"}}

ForeignDbs == {<<"s1", "dx">>}

ForeignUsers == {<<"s1", "ux">>}

Nothing == {}

EveryFault == {"storeRead", "storePartial", "storeBegin", "storeWrite", "storeReplyLost",
               "stardogCall", "stardogReplyLost", "restart"}

(***************************************************************************)
(* The faults under which answers stay true: a read that fails passes for  *)
(* a missing record, and RemoveServiceInstance drops a failed deletion.    *)
(***************************************************************************)
AtomicFaults == EveryFault \ {"storeRead", "storeWrite"}

WorkerSymmetry == Permutations(Workers)

-----------------------------------------------------------------------------
(* Requests *)

Plain(op, g, b) ==
  [op |-> op, inst |-> g, bind |-> b, plan |-> None, meta |-> None, db |-> None,
   url |-> None, user |-> None, pw |-> None]

Create(g, plan, meta, db, url) ==
  [Plain("create", g, None) EXCEPT !.plan = plan, !.meta = meta, !.db = db, !.url = url]

BindAs(g, b, user, pw) == [Plain("bind", g, b) EXCEPT !.user = user, !.pw = pw]

(* Everything but creation and binding. *)
Others(g, b) == {Plain("get", g, None), Plain("remove", g, None), Plain("unbind", g, b)}

(***************************************************************************)
(* Two instances of the shared plan: g1 with a database and a user of the  *)
(* broker's choice, g2 with names the platform asks for.                   *)
(***************************************************************************)
SharedRequests ==
  Others("g1", "b1") \cup Others("g2", "b2") \cup
  {Create("g1", "shared", "m1", None, None), BindAs("g1", "b1", None, None),
   Create("g2", "shared", "m1", "d1", None), BindAs("g2", "b2", "u1", "k1")}

(***************************************************************************)
(* As SharedRequests, but g2 is perinstance, and created with other        *)
(* metadata or without a URL as well, and g1 in a plan no configuration    *)
(* has.                                                                    *)
(***************************************************************************)
MixedRequests ==
  Others("g1", "b1") \cup Others("g2", "b2") \cup
  {Create("g1", "shared", "m1", None, None), BindAs("g1", "b1", None, None),
   Create("g2", "own", "m1", "d1", "s1"), Create("g2", "own", "m2", "d1", "s1"),
   Create("g2", "own", "m1", "d1", None), Create("g1", "missing", "m1", None, None),
   BindAs("g2", "b2", "u1", "k1")}

(* One instance and one binding. *)
OneInstance ==
  Others("g1", "b1") \cup
  {Create("g1", "shared", "m1", None, None), BindAs("g1", "b1", None, None)}

(* Creations of one instance that contradict each other, and its removal. *)
RivalCreations ==
  {Create("g1", "shared", "m1", "d1", None), Create("g1", "own", "m1", "d2", "s1"),
   Create("g1", "missing", "m1", None, None),
   Plain("get", "g1", None), Plain("remove", "g1", None), BindAs("g1", "b1", "u1", "k1")}

(* Bindings of one GUID that contradict each other, and their removal. *)
RivalBindings ==
  {Create("g1", "shared", "m1", "d1", None), Plain("remove", "g1", None),
   BindAs("g1", "b1", "u1", "k1"), BindAs("g1", "b1", "u2", "k1"),
   Plain("unbind", "g1", "b1")}
=============================================================================
