-------------------------- MODULE MCBrokerProcess ---------------------------
(***************************************************************************)
(* A small instance of BrokerProcess for TLC: two services a and b on the  *)
(* MySQL servers sa and sb, with plans that differ, listed in either order *)
(* or not at all; b has lost a credential once.                            *)
(***************************************************************************)
EXTENDS ProcessProperties

A == VCAPService("a", "small", "sa", TRUE)

B == VCAPService("b", "large", "sb", TRUE)

MCVcapServices ==
  {[t \in {"p-mysql"} |-> <<A, B>>], [t \in {"p-mysql"} |-> <<B, A>>],
   [t \in {"p-mysql"} |-> <<VCAPService("b", "large", "sb", FALSE), A>>],
   [t \in {} |-> <<>>]}

NoVariables == [type |-> Unset, name |-> Unset, plan |-> Unset]

(* A contact string of server sa and no service. *)
OnSql ==
  [parses |-> TRUE, level |-> "INFO", plans |-> {PlanConfig("shared_database_plan", TRUE)},
   storage |-> "sql", driver |-> Unset, useVcap |-> FALSE, contact |-> "sa",
   type |-> Unset, name |-> Unset, plan |-> Unset, variables |-> NoVariables]

OnVcap(name, plan) == [OnSql EXCEPT !.useVcap = TRUE, !.name = name, !.plan = plan]

OnStardog == [OnSql EXCEPT !.storage = "stardog", !.contact = "s1"]

(* Configurations that lead to a server, always or with some services only ... *)
GoodConfigurations ==
  {OnSql, OnStardog, OnVcap("a", Unset), OnVcap("b", "large"), OnVcap(Unset, Unset),
   [OnVcap("b", Unset) EXCEPT !.variables.name = "a", !.driver = "mysql"],
   [OnStardog EXCEPT !.plans = {PlanConfig("shared_database_plan", TRUE), PlanConfig("perinstance", TRUE)}]}

(* ... and those that never do. *)
BadConfigurations ==
  {[OnSql EXCEPT !.parses = FALSE], [OnSql EXCEPT !.level = Unset],
   [OnSql EXCEPT !.plans = {PlanConfig("shared_database_plan", TRUE), PlanConfig("dedicated", TRUE)}],
   [OnStardog EXCEPT !.plans = {PlanConfig("shared_database_plan", FALSE)}],
   [OnSql EXCEPT !.storage = "memory"], [OnSql EXCEPT !.driver = "postgres"],
   OnVcap("a", "large"), [OnVcap("a", Unset) EXCEPT !.type = "mysql"]}

MCConfigurations == GoodConfigurations \cup BadConfigurations
=============================================================================
