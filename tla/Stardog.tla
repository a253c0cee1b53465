------------------------------ MODULE Stardog -------------------------------
(***************************************************************************)
(* The Stardog servers as the requests of broker/stardog_client.go see     *)
(* them: the databases, the users and the permissions of each server.      *)
(* Every operation takes the reply the client returns, TRUE for a nil      *)
(* error.  The client turns every status other than the expected one into  *)
(* an error, so a reply is TRUE exactly when the server did what was asked *)
(* and the answer came back.                                               *)
(***************************************************************************)
EXTENDS Faults

VARIABLES
  databases,   \* set of <<server, database name>>
  users,       \* set of <<server, user name>>
  grants       \* set of <<server, user name, database name, action>>

stardogVars == <<databases, users, grants>>

Actions == {"write", "read"}

\* Mutant of CreateDatabase: a name that is taken is no error.
CreateDatabaseUnchecked(s, d, reply) ==
  /\ databases' = databases \cup {<<s, d>>}
  /\ Replied("stardogReplyLost", reply, TRUE)
  /\ UNCHANGED <<users, grants>>

(* POST /admin/databases: 201 only when the name is free. *)
CreateDatabase(s, d, reply) ==
  /\ \/ /\ databases' = databases \cup {<<s, d>>}
        /\ Replied("stardogReplyLost", reply, <<s, d>> \notin databases)
     \/ /\ CallFails("stardogCall", reply)
        /\ UNCHANGED databases
  /\ UNCHANGED <<users, grants>>

(* GET /d/size: 200 and a number when the database exists. *)
GetDatabaseSize(s, d, reply) ==
  /\ Replied("stardogCall", reply, <<s, d>> \in databases)
  /\ UNCHANGED stardogVars

(* DELETE /admin/databases/d: 200 only when the database exists. *)
DeleteDatabase(s, d, reply) ==
  /\ \/ /\ databases' = databases \ {<<s, d>>}
        /\ Replied("stardogReplyLost", reply, <<s, d>> \in databases)
     \/ /\ CallFails("stardogCall", reply)
        /\ UNCHANGED databases
  /\ UNCHANGED <<users, grants>>

(***************************************************************************)
(* GET /admin/users, searched for the name: the result is <<err, exists>>  *)
(* in the code; reply is the nil error and exists the answer.              *)
(***************************************************************************)
UserExists(s, u, reply, exists) ==
  /\ \/ /\ reply = TRUE
        /\ exists = (<<s, u>> \in users)
        /\ UNCHANGED faults
     \/ /\ CallFails("stardogCall", reply)
        /\ exists = FALSE
  /\ UNCHANGED stardogVars

(* POST /admin/users: 201 only when the name is free. *)
NewUser(s, u, reply) ==
  /\ \/ /\ users' = users \cup {<<s, u>>}
        /\ Replied("stardogReplyLost", reply, <<s, u>> \notin users)
     \/ /\ CallFails("stardogCall", reply)
        /\ UNCHANGED users
  /\ UNCHANGED <<databases, grants>>

(* DELETE /admin/users/u: 200 only when the user exists; drops its permissions. *)
DeleteUser(s, u, reply) ==
  /\ \/ /\ users' = users \ {<<s, u>>}
        /\ grants' = {p \in grants : ~(p[1] = s /\ p[2] = u)}
        /\ Replied("stardogReplyLost", reply, <<s, u>> \in users)
     \/ /\ CallFails("stardogCall", reply)
        /\ UNCHANGED <<users, grants>>
  /\ UNCHANGED databases

(***************************************************************************)
(* One of the two PUTs of GrantUserAccessToDb: refused when the user does  *)
(* not exist.  Whether the server also refuses a database it does not have *)
(* is not in this repository, so both answers are possible there.          *)
(***************************************************************************)
Grant(s, u, d, a, reply) ==
  /\ \/ \E accepted \in {TRUE, <<s, d>> \in databases} :
          /\ grants' = IF <<s, u>> \in users /\ accepted
                       THEN grants \cup {<<s, u, d, a>>} ELSE grants
          /\ Replied("stardogReplyLost", reply, <<s, u>> \in users /\ accepted)
     \/ /\ CallFails("stardogCall", reply)
        /\ UNCHANGED grants
  /\ UNCHANGED <<databases, users>>

(***************************************************************************)
(* One of the two POSTs of RevokeUserAccess: refused when the user does    *)
(* not exist; for a permission the user does not have both answers are     *)
(* possible.                                                               *)
(***************************************************************************)
Revoke(s, u, d, a, reply) ==
  /\ \/ \E accepted \in {TRUE, <<s, u, d, a>> \in grants} :
          /\ grants' = grants \ {<<s, u, d, a>>}
          /\ Replied("stardogReplyLost", reply, <<s, u>> \in users /\ accepted)
     \/ /\ CallFails("stardogCall", reply)
        /\ UNCHANGED grants
  /\ UNCHANGED <<databases, users>>
=============================================================================
