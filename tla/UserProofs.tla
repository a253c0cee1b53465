----------------------------- MODULE UserProofs -----------------------------
(***************************************************************************)
(* Proofs about the Stardog users of a broker on the SQL store, for a      *)
(* platform that has one request at a time outstanding per instance: until *)
(* the first fault every user the broker made belongs to one binding and   *)
(* may do what the platform was told it may.                               *)
(***************************************************************************)
EXTENDS SerialProofs

(* The inductive invariant: users. *)

(* RemoveServiceInstance is past the binding, ... *)
UnboundBy(w, r) ==
  /\ pc[w] \in UnbindLabels \cup {"nextBinding", "deleteDb", "deleteInstance"}
  /\ req[w].op = "remove" /\ req[w].inst = r.inst
  /\ [guid |-> r.guid, cred |-> r.cred] \notin todo[w]
  /\ pc[w] \in UnbindLabels => cred[w] # r.cred

(* ... or is at it, ... *)
UnbindsNow(w, r) ==
  /\ pc[w] \in UnbindLabels /\ req[w].op = "remove"
  /\ r.inst = req[w].inst /\ r.cred = cred[w]

(* ... which it has taken from its list. *)
TakenFromList(w) ==
  pc[w] \in UnbindLabels /\ req[w].op = "remove" =>
    \E r \in bindingRows :
      UnbindsNow(w, r) /\ [guid |-> r.guid, cred |-> r.cred] \notin todo[w]

(* What owns a user: a record, and the record a Bind is about to make or an UnBind deleted. *)
Holder(w) == pc[w] \in BoundLabels \/ (pc[w] \in UnbindLabels /\ req[w].op = "unbind")

UserOwners ==
  {r \in bindingRows : ~BeingUnbound(r)} \cup
  {BindingOf(w) : w \in {v \in Workers : Holder(v)}}

(* Every owner has its user, ... *)
UsersServed == \A r \in UserOwners : UserOf(r.cred) \in users

(* ... to itself, ... *)
UsersDiffer == \A r, q \in UserOwners : UserOf(r.cred) = UserOf(q.cred) => r = q

(* ... also among the records of an instance being removed, ... *)
RowsDiffer ==
  \A r, q \in bindingRows : r.inst = q.inst /\ UserOf(r.cred) = UserOf(q.cred) => r = q

(* ... no user of the broker is without one, ... *)
AllUsersOwned ==
  \A user \in users \ ExistingUsers : \E r \in UserOwners : UserOf(r.cred) = user

(* ... and it has the permissions it has been given and that are not yet revoked. *)
Holding(a) ==
  {"checkInstance", "addBinding", "revokeWrite"} \cup
  IF a = "write" THEN {"grantRead"} ELSE {"revokeRead"}

RevokedBy(w, r) == UnbindsNow(w, r) /\ pc[w] # "revokeWrite"

BeingRevoked(r) == \E w \in Workers : RevokedBy(w, r)

Owed(c, a) ==
  \/ \E r \in bindingRows : r.cred = c /\ ~BeingUnbound(r) /\ ~BeingRevoked(r)
  \/ \E w \in Workers : cred[w] = c /\ pc[w] \in Holding(a)

Permission(c, a) == <<c.url, c.user, c.db, a>>

Granted == \A c \in Credentials, a \in Actions : Owed(c, a) => Permission(c, a) \in grants

UsersKept ==
  /\ \A w \in Workers : TakenFromList(w)
  /\ UsersServed /\ UsersDiffer /\ RowsDiffer /\ AllUsersOwned /\ Granted

UsersInv == BindingsInv /\ (faults = 0 => UsersKept)

-----------------------------------------------------------------------------
(* Calls that do not fail. *)

(* NewUser makes the user, or leaves the one there is. *)
LEMMA NewUserExact ==
  ASSUME SerialSetting, UNCHANGED faults, NEW s, NEW u, NEW reply, NewUser(s, u, reply)
  PROVE  /\ reply = TRUE => <<s, u>> \notin users /\ users' = users \cup {<<s, u>>}
         /\ reply = FALSE => users' = users
         /\ UNCHANGED grants
<1> DEFINE user == <<s, u>>
<1>1. user \in users => users \cup {user} = users
  OBVIOUS
<1>2. /\ \/ users' = users \cup {user} /\ Replied("stardogReplyLost", reply, user \notin users)
         \/ users' = users /\ CallFails("stardogCall", reply)
      /\ UNCHANGED grants /\ "stardogReplyLost" \notin FaultKinds
  BY DEF NewUser, SerialSetting
<1> HIDE DEF user
<1>3. CASE user \in users
  BY <1>1, <1>2, <1>3 DEF Replied, CallFails, Fault, user
<1>4. CASE user \notin users
  BY <1>2, <1>4 DEF Replied, CallFails, Fault, user
<1> QED BY <1>3, <1>4

(* No fault means that no fault was counted. *)
LEMMA FaultFree ==
  ASSUME faults \in Nat, UNCHANGED faults
  PROVE  \A kind : ~Fault(kind)
<1>1. faults' # faults + 1
  OBVIOUS
<1> QED BY <1>1 DEF Fault

(* Grant on a user and a database that are there gives the permission. *)
LEMMA GrantExact ==
  ASSUME faults \in Nat, UNCHANGED faults, NEW s, NEW u, NEW d, NEW a, NEW reply,
         Grant(s, u, d, a, reply), <<s, u>> \in users, <<s, d>> \in databases
  PROVE  reply = TRUE /\ grants' = grants \cup {<<s, u, d, a>>} /\ UNCHANGED users
  BY FaultFree DEF Grant, Replied, CallFails

(* Revoke of a permission that is there takes it away. *)
LEMMA RevokeExact ==
  ASSUME faults \in Nat, UNCHANGED faults, NEW s, NEW u, NEW d, NEW a, NEW reply,
         Revoke(s, u, d, a, reply), <<s, u>> \in users, <<s, u, d, a>> \in grants
  PROVE  reply = TRUE /\ grants' = grants \ {<<s, u, d, a>>} /\ UNCHANGED users
  BY FaultFree DEF Revoke, Replied, CallFails

(* DeleteUser of a user that is there removes it. *)
LEMMA DeleteUserExact ==
  ASSUME faults \in Nat, UNCHANGED faults, NEW s, NEW u, NEW reply,
         DeleteUser(s, u, reply), <<s, u>> \in users
  PROVE  /\ reply = TRUE /\ users' = users \ {<<s, u>>}
         /\ grants' = {p \in grants : ~(p[1] = s /\ p[2] = u)}
  BY FaultFree DEF DeleteUser, Replied, CallFails

-----------------------------------------------------------------------------
(* Owners of users. *)

(* Initially there is none. *)
LEMMA UsersInit == Init => UsersInv
<1> SUFFICES ASSUME Init PROVE UsersInv
  OBVIOUS
<1>1. /\ users = ExistingUsers /\ grants = {} /\ bindingRows = {}
      /\ \A w \in Workers : pc[w] = "idle"
  BY DEF Init
<1>2. UserOwners = {}
  BY <1>1 DEF UserOwners, Holder, BoundLabels, UnbindLabels
<1>3. \A c, a : ~Owed(c, a)
  BY <1>1 DEF Owed, Holding
<1> QED BY <1>1, <1>2, <1>3, BindingsInit
        DEF UsersInv, UsersKept, TakenFromList, UnbindLabels, UsersServed, UsersDiffer,
            RowsDiffer, AllUsersOwned, Granted

(* The facts a step starts from. *)
LEMMA UsersFacts ==
  ASSUME UsersInv, faults = 0
  PROVE  /\ TypeInv /\ BindingsInv /\ OneRequest /\ UsersKept /\ faults \in Nat
         /\ \A w \in Workers : BindingKnown(w) /\ ListedKnown(w) /\ InstanceKnown(w)
         /\ \A w \in Workers : TakenFromList(w)
  BY BindingsFacts DEF UsersInv, BindingsInv, UsersKept

(* RemoveServiceInstance has its instance to itself. *)
LEMMA UnboundAlone ==
  ASSUME OneRequest, NEW w \in Workers, pc[w] # "idle", NEW r, r.inst = req[w].inst
  PROVE  /\ BeingUnbound(r) <=> UnboundBy(w, r)
         /\ BeingRevoked(r) <=> RevokedBy(w, r)
<1>1. ASSUME NEW v \in Workers, UnboundBy(v, r) \/ RevokedBy(v, r) PROVE v = w
  <2>1. pc[v] # "idle" /\ req[v].inst = r.inst
    BY <1>1 DEF UnboundBy, RevokedBy, UnbindsNow, UnbindLabels
  <2> QED BY <2>1 DEF OneRequest
<1>2. BeingUnbound(r) <=> \E v \in Workers : UnboundBy(v, r)
  BY DEF BeingUnbound, UnboundBy
<1> QED BY <1>1, <1>2 DEF BeingRevoked

(* What the other workers are at stays. *)
LEMMA OthersUnbind ==
  ASSUME TypeInv, NEW w \in Workers, Moves(w), NEW v \in Workers, v # w, NEW r
  PROVE  /\ UnboundBy(v, r)' <=> UnboundBy(v, r)
         /\ RevokedBy(v, r)' <=> RevokedBy(v, r)
         /\ UnbindsNow(v, r)' <=> UnbindsNow(v, r)
         /\ Holder(v)' <=> Holder(v)
         /\ BindingOf(v)' = BindingOf(v)
<1>1. /\ pc'[v] = pc[v] /\ req'[v] = req[v] /\ cred'[v] = cred[v] /\ todo'[v] = todo[v]
  BY OthersStay
<1> QED BY <1>1 DEF UnboundBy, RevokedBy, UnbindsNow, Holder, BindingOf

(* So it is w that decides what becomes of a record. *)
LEMMA UnboundStep ==
  ASSUME TypeInv, NEW w \in Workers, Moves(w), NEW r
  PROVE  /\ (UnboundBy(w, r)' <=> UnboundBy(w, r)) => (BeingUnbound(r)' <=> BeingUnbound(r))
         /\ (RevokedBy(w, r)' <=> RevokedBy(w, r)) => (BeingRevoked(r)' <=> BeingRevoked(r))
<1>1. BeingUnbound(r) <=> \E v \in Workers : UnboundBy(v, r)
  BY DEF BeingUnbound, UnboundBy
<1>2. BeingUnbound(r)' <=> \E v \in Workers : UnboundBy(v, r)'
  BY DEF BeingUnbound, UnboundBy
<1>3. BeingRevoked(r)' <=> \E v \in Workers : RevokedBy(v, r)'
  BY DEF BeingRevoked
<1>4. ASSUME NEW v \in Workers, v # w
      PROVE  (UnboundBy(v, r)' <=> UnboundBy(v, r)) /\ (RevokedBy(v, r)' <=> RevokedBy(v, r))
  BY <1>4, OthersUnbind
<1>5. ASSUME UnboundBy(w, r)' <=> UnboundBy(w, r)
      PROVE  BeingUnbound(r)' <=> BeingUnbound(r)
  <2>1. \A v \in Workers : UnboundBy(v, r)' <=> UnboundBy(v, r)
    BY <1>4, <1>5
  <2> QED BY <1>1, <1>2, <2>1
<1>6. ASSUME RevokedBy(w, r)' <=> RevokedBy(w, r)
      PROVE  BeingRevoked(r)' <=> BeingRevoked(r)
  <2>1. \A v \in Workers : RevokedBy(v, r)' <=> RevokedBy(v, r)
    BY <1>4, <1>6
  <2> QED BY <1>3, <2>1 DEF BeingRevoked
<1> QED BY <1>5, <1>6

-----------------------------------------------------------------------------
(* Faults *)

(* A handler counts at most one fault in a step. *)
LEMMA HandlerFaults ==
  ASSUME TypeInv, NEW w \in Workers, Handle(w)
  PROVE  MayFault
<1>1. CASE CreateUnknownPlan(w)
  BY <1>1 DEF CreateUnknownPlan, MayFault
<1>2. CASE CreateExisting(w)
  BY <1>2, LookupEffect DEF CreateExisting
<1>3. CASE CreateNew(w)
  BY <1>3, LookupEffect DEF CreateNew
<1>4. CASE CreateDb(w)
  BY <1>4, CreateDatabaseEffect DEF CreateDb
<1>5. CASE StoreInstance(w)
  BY <1>5, AddInstanceEffect DEF StoreInstance
<1>6. CASE Get(w)
  BY <1>6, LookupEffect DEF Get
<1>7. CASE Remove(w)
  BY <1>7, LookupEffect DEF Remove
<1>8. CASE ListBindings(w)
  BY <1>8, ReadEffect DEF ListBindings
<1>9. CASE ListSomeBindings(w)
  BY <1>9, FaultCounts DEF ListSomeBindings
<1>10. CASE NextBinding(w)
  BY <1>10 DEF NextBinding, MayFault
<1>11. CASE DeleteDb(w)
  BY <1>11, DeleteDatabaseEffect DEF DeleteDb
<1>12. CASE EraseInstance(w)
  BY <1>12, DeleteInstanceEffect DEF EraseInstance
<1>13. CASE Bind(w)
  BY <1>13, LookupEffect DEF Bind
<1>14. CASE FindBinding(w)
  BY <1>14, ReadEffect DEF FindBinding
<1>15. CASE CheckUser(w)
  BY <1>15, UserExistsEffect DEF CheckUser
<1>16. CASE MakeUser(w)
  BY <1>16, NewUserEffect DEF MakeUser
<1>17. CASE GrantWrite(w) \/ GrantRead(w)
  BY <1>17, GrantEffect DEF GrantWrite, GrantRead, GrantStep
<1>18. CASE CheckInstance(w)
  BY <1>18, ReadEffect DEF CheckInstance
<1>19. CASE StoreBinding(w)
  BY <1>19, AddBindingEffect DEF StoreBinding
<1>20. CASE Unbind(w)
  BY <1>20, LookupEffect DEF Unbind
<1>21. CASE UnbindGet(w)
  BY <1>21, ReadEffect DEF UnbindGet
<1>22. CASE EraseBinding(w)
  BY <1>22, DeleteBindingEffect DEF EraseBinding
<1>23. CASE RevokeWrite(w) \/ RevokeRead(w)
  BY <1>23, RevokeEffect DEF RevokeWrite, RevokeRead, RevokeStep
<1>24. CASE RemoveUser(w)
  BY <1>24, DeleteUserEffect DEF RemoveUser
<1> QED BY <1>1, <1>2, <1>3, <1>4, <1>5, <1>6, <1>7, <1>8, <1>9, <1>10, <1>11, <1>12,
           <1>13, <1>14, <1>15, <1>16, <1>17, <1>18, <1>19, <1>20, <1>21, <1>22, <1>23,
           <1>24 DEF Handle

(* Until the first fault there has been none. *)
LEMMA NoneYet ==
  ASSUME faults \in Nat, MayFault, faults' = 0
  PROVE  faults = 0 /\ UNCHANGED faults
  BY DEF MayFault

-----------------------------------------------------------------------------
(* Steps that keep the owners. *)

(* Nothing becomes of the records when w does not unbind. *)
LEMMA RowsAlone ==
  ASSUME TypeInv, NEW w \in Workers, Moves(w), NEW r,
         {pc[w], pc'[w]} \cap
           (UnbindLabels \cup {"nextBinding", "deleteDb", "deleteInstance"}) = {}
  PROVE  (UnboundBy(w, r)' <=> UnboundBy(w, r)) /\ (RevokedBy(w, r)' <=> RevokedBy(w, r))
  BY DEF UnboundBy, RevokedBy, UnbindsNow

(* When nothing becomes of the records, they own what they owned; *)
LEMMA RecordsOwn ==
  ASSUME TypeInv, NEW w \in Workers, Moves(w), UNCHANGED bindingRows,
         \A r \in bindingRows : UnboundBy(w, r)' <=> UnboundBy(w, r)
  PROVE  {r \in bindingRows : ~BeingUnbound(r)}' = {r \in bindingRows : ~BeingUnbound(r)}
<1>1. ASSUME NEW r \in bindingRows PROVE BeingUnbound(r)' <=> BeingUnbound(r)
  BY <1>1, UnboundStep
<1> QED BY <1>1

(* ... so the owners stay when the worker holds what it held, ... *)
LEMMA UserOwnersStay ==
  ASSUME TypeInv, NEW w \in Workers, Moves(w), UNCHANGED bindingRows,
         \A r \in bindingRows : UnboundBy(w, r)' <=> UnboundBy(w, r),
         Holder(w)' <=> Holder(w), Holder(w) => BindingOf(w)' = BindingOf(w)
  PROVE  UserOwners' = UserOwners
<1>1. ASSUME NEW v \in Workers
      PROVE  (Holder(v)' <=> Holder(v)) /\ (Holder(v) => BindingOf(v)' = BindingOf(v))
  BY <1>1, OthersUnbind
<1>2. {BindingOf(v) : v \in {u \in Workers : Holder(u)}}' =
        {BindingOf(v) : v \in {u \in Workers : Holder(u)}}
  BY <1>1
<1> QED BY <1>2, RecordsOwn DEF UserOwners

(* ... and what is owed is owed to them or to the worker. *)
LEMMA OwedStill ==
  ASSUME TypeInv, NEW w \in Workers, Moves(w), UNCHANGED bindingRows,
         \A r \in bindingRows : /\ UnboundBy(w, r)' <=> UnboundBy(w, r)
                                /\ RevokedBy(w, r)' <=> RevokedBy(w, r),
         NEW c, NEW a, Owed(c, a)'
  PROVE  Owed(c, a) \/ (cred'[w] = c /\ pc'[w] \in Holding(a))
<1>1. CASE \E r \in bindingRows : r.cred = c /\ ~BeingUnbound(r)' /\ ~BeingRevoked(r)'
  <2>1. PICK r \in bindingRows : r.cred = c /\ ~BeingUnbound(r)' /\ ~BeingRevoked(r)'
    BY <1>1
  <2>2. ~BeingUnbound(r) /\ ~BeingRevoked(r)
    BY <2>1, UnboundStep
  <2> QED BY <2>1, <2>2 DEF Owed
<1>2. ASSUME NEW v \in Workers, v # w, cred'[v] = c, pc'[v] \in Holding(a)
      PROVE  Owed(c, a)
  <2>1. cred[v] = c /\ pc[v] \in Holding(a)
    BY <1>2, OthersStay
  <2> QED BY <2>1 DEF Owed
<1> QED BY <1>1, <1>2 DEF Owed, Holding

(* A binding another removal is at stays as it is. *)
LEMMA OthersTaken ==
  ASSUME TypeInv, NEW w \in Workers, Moves(w), NEW v \in Workers, v # w, TakenFromList(v),
         UNCHANGED bindingRows \/ (OneRequest /\ pc[w] # "idle" /\ OwnBindings(w))
  PROVE  TakenFromList(v)'
<1>1. /\ pc'[v] = pc[v] /\ req'[v] = req[v] /\ cred'[v] = cred[v] /\ todo'[v] = todo[v]
  BY OthersStay
<1>2. CASE pc[v] \in UnbindLabels /\ req[v].op = "remove"
  <2>1. PICK r \in bindingRows :
          UnbindsNow(v, r) /\ [guid |-> r.guid, cred |-> r.cred] \notin todo[v]
    BY <1>2 DEF TakenFromList
  <2>2. UnbindsNow(v, r)' /\ r.inst = req[v].inst
    BY <1>1, <2>1 DEF UnbindsNow
  <2>3. r \in bindingRows'
    <3>1. ASSUME OneRequest, pc[w] # "idle", OwnBindings(w) PROVE r.inst # req[w].inst
      BY <1>2, <2>2, <3>1 DEF OneRequest, UnbindLabels
    <3> QED BY <3>1 DEF OwnBindings
  <2> QED BY <1>1, <2>1, <2>2, <2>3 DEF TakenFromList
<1>3. CASE ~(pc[v] \in UnbindLabels /\ req[v].op = "remove")
  BY <1>1, <1>3 DEF TakenFromList
<1> QED BY <1>2, <1>3

(* Owners that stay are served, apart and all there are, like the users that stay. *)
LEMMA UsersStay ==
  ASSUME UsersKept, UserOwners' = UserOwners, UNCHANGED users
  PROVE  UsersServed' /\ UsersDiffer' /\ AllUsersOwned'
  BY DEF UsersKept, UsersServed, UsersDiffer, AllUsersOwned, UserOf

(* Records that stay are apart. *)
LEMMA RowsStay ==
  ASSUME UsersKept, bindingRows' \subseteq bindingRows
  PROVE  RowsDiffer'
  BY DEF UsersKept, RowsDiffer, UserOf

(* A step of a handler that is not about users. *)
LEMMA UsersQuiet ==
  ASSUME TypeInv, UsersKept, NEW w \in Workers, Moves(w),
         UNCHANGED <<bindingRows, users, grants>>,
         {pc[w], pc'[w]} \cap (BoundLabels \cup UnbindLabels \cup
            {"nextBinding", "deleteDb", "deleteInstance"}) = {}
  PROVE  UsersKept'
<1>1. \A r : (UnboundBy(w, r)' <=> UnboundBy(w, r)) /\ (RevokedBy(w, r)' <=> RevokedBy(w, r))
  BY RowsAlone
<1>2. ~Holder(w)' /\ ~Holder(w)
  BY DEF Holder
<1>3. UserOwners' = UserOwners
  BY <1>1, <1>2, UserOwnersStay
<1>4. ASSUME NEW v \in Workers PROVE TakenFromList(v)'
  <2>1. CASE v = w
    BY <2>1 DEF TakenFromList
  <2> QED BY <2>1, OthersTaken DEF UsersKept
<1>5. ASSUME NEW c \in Credentials, NEW a \in Actions, Owed(c, a)'
      PROVE  Permission(c, a) \in grants
  <2>1. pc'[w] \notin Holding(a)
    BY DEF Holding, BoundLabels, UnbindLabels
  <2>2. Owed(c, a)
    BY <1>1, <1>5, <2>1, OwedStill
  <2> QED BY <2>2 DEF UsersKept, Granted
<1>6. Granted'
  BY <1>5 DEF Granted, Permission
<1> QED BY <1>3, <1>4, <1>6, UsersStay, RowsStay DEF UsersKept

-----------------------------------------------------------------------------
(* What a handler that has a user can count on. *)

(* The owner it works for. *)
LEMMA HoldsFor ==
  ASSUME UsersInv, faults = 0, NEW w \in Workers, pc[w] \in BoundLabels \cup UnbindLabels
  PROVE  \E o \in UserOwners :
           /\ o.inst = req[w].inst /\ o.cred = cred[w]
           /\ \/ Holder(w) /\ o = BindingOf(w)
              \/ /\ ~Holder(w) /\ req[w].op = "remove" /\ o \in bindingRows
                 /\ [guid |-> o.guid, cred |-> o.cred] \notin todo[w]
<1>a. TypeInv /\ OneRequest /\ TakenFromList(w)
  BY UsersFacts
<1>1. CASE Holder(w)
  <2>1. BindingOf(w).inst = req[w].inst /\ BindingOf(w).cred = cred[w]
    BY DEF BindingOf
  <2>2. BindingOf(w) \in UserOwners
    BY <1>1 DEF UserOwners
  <2> QED BY <1>1, <2>1, <2>2
<1>2. CASE ~Holder(w)
  <2>1. pc[w] \in UnbindLabels /\ req[w].op = "remove" /\ pc[w] # "idle"
    BY <1>a, <1>2, OpAt DEF Holder, UnbindLabels
  <2>2. PICK r \in bindingRows :
          UnbindsNow(w, r) /\ [guid |-> r.guid, cred |-> r.cred] \notin todo[w]
    BY <1>a, <2>1 DEF TakenFromList
  <2>3. r.inst = req[w].inst /\ r.cred = cred[w]
    BY <2>2 DEF UnbindsNow
  <2>4. ~UnboundBy(w, r)
    BY <2>1, <2>3 DEF UnboundBy
  <2>5. ~BeingUnbound(r)
    BY <1>a, <2>1, <2>3, <2>4, UnboundAlone
  <2> QED BY <1>2, <2>1, <2>2, <2>3, <2>5 DEF UserOwners
<1> QED BY <1>1, <1>2

(* Two handlers do not have the same user. *)
LEMMA HoldsApart ==
  ASSUME UsersInv, faults = 0, NEW v \in Workers, NEW w \in Workers,
         pc[v] \in BoundLabels \cup UnbindLabels, pc[w] \in BoundLabels \cup UnbindLabels,
         UserOf(cred[v]) = UserOf(cred[w])
  PROVE  v = w
<1>1. PICK o \in UserOwners : o.inst = req[v].inst /\ o.cred = cred[v]
  BY HoldsFor
<1>2. PICK p \in UserOwners : p.inst = req[w].inst /\ p.cred = cred[w]
  BY HoldsFor
<1>3. o = p
  BY <1>1, <1>2, UsersFacts DEF UsersKept, UsersDiffer
<1>4. pc[v] # "idle" /\ pc[w] # "idle"
  BY DEF BoundLabels, UnbindLabels
<1> QED BY <1>1, <1>2, <1>3, <1>4, UsersFacts DEF OneRequest

(* Its user, *)
LEMMA HasUser ==
  ASSUME UsersInv, faults = 0, NEW w \in Workers, pc[w] \in BoundLabels \cup UnbindLabels
  PROVE  UserOf(cred[w]) \in users
  BY HoldsFor, UsersFacts DEF UsersKept, UsersServed

(* the database of the instance, *)
LEMMA HasDatabase ==
  ASSUME BindingsInv, NEW w \in Workers,
         pc[w] \in InstLabels \ {"createDb", "addInstance", "deleteInstance"}
  PROVE  /\ DatabaseOf(inst[w]) \in databases
         /\ pc[w] \in NewUserLabels \cup BoundLabels \cup UnbindLabels =>
              <<cred[w].url, cred[w].db>> \in databases /\ ServerOf(inst[w]) = cred[w].url
<1>a. OneRequest /\ InstanceKnown(w) /\ BindingKnown(w) /\ OwnersServed
  BY BindingsFacts DEF BindingsInv, DatabasesInv
<1>1. /\ RecordOf(w) \in instanceRows /\ RecordOf(w).guid = req[w].inst
      /\ RecordOf(w).data = inst[w]
  BY <1>a, LabelFacts DEF InstanceKnown, RecordOf
<1>2. ~BeingErased(RecordOf(w))
  BY <1>a, <1>1, LabelFacts DEF BeingErased, OneRequest
<1>3. DatabaseOf(inst[w]) \in databases
  BY <1>a, <1>1, <1>2 DEF OwnersServed, Owners
<1>4. pc[w] \in NewUserLabels \cup BoundLabels \cup UnbindLabels =>
        PlaceOf(cred[w]) = DatabaseOf(inst[w])
  BY <1>a DEF BindingKnown
<1> QED BY <1>3, <1>4 DEF PlaceOf, DatabaseOf

(* and the permissions that are owed. *)
LEMMA HasPermission ==
  ASSUME UsersInv, faults = 0, NEW w \in Workers, NEW a \in Actions, pc[w] \in Holding(a)
  PROVE  Permission(cred[w], a) \in grants
<1>1. pc[w] \in CredLabels
  BY LabelFacts DEF Holding
<1>2. cred[w] \in Credentials
  BY <1>1, CredSet, UsersFacts
<1>3. Owed(cred[w], a)
  BY DEF Owed
<1> QED BY <1>2, <1>3, UsersFacts DEF UsersKept, Granted

-----------------------------------------------------------------------------
(* Owners that come and go with their users. *)

(* A user nobody had belongs to the owner it is made for. *)
LEMMA OwnerComes ==
  ASSUME UsersKept, NEW o, UserOf(o.cred) \notin users,
         UserOwners' = UserOwners \cup {o}, users' = users \cup {UserOf(o.cred)}
  PROVE  UsersServed' /\ UsersDiffer' /\ AllUsersOwned'
<1>1. \A r \in UserOwners : UserOf(r.cred) # UserOf(o.cred)
  BY DEF UsersKept, UsersServed
<1>2. UsersServed'
  BY DEF UsersKept, UsersServed, UserOf
<1>3. UsersDiffer'
  BY <1>1 DEF UsersKept, UsersDiffer, UserOf
<1>4. AllUsersOwned'
  BY DEF UsersKept, AllUsersOwned, UserOf
<1> QED BY <1>2, <1>3, <1>4

(* An owner that goes with its user leaves the others theirs. *)
LEMMA OwnerGoes ==
  ASSUME UsersKept, NEW o \in UserOwners,
         UserOwners' = UserOwners \ {o}, users' = users \ {UserOf(o.cred)}
  PROVE  UsersServed' /\ UsersDiffer' /\ AllUsersOwned'
<1>1. \A r \in UserOwners' : r \in UserOwners /\ UserOf(r.cred) # UserOf(o.cred)
  BY DEF UsersKept, UsersDiffer
<1>2. UsersServed'
  BY <1>1 DEF UsersKept, UsersServed, UserOf
<1>3. UsersDiffer'
  BY <1>1 DEF UsersKept, UsersDiffer, UserOf
<1>4. AllUsersOwned'
  BY DEF UsersKept, AllUsersOwned, UserOf
<1> QED BY <1>2, <1>3, <1>4

(* Permissions that are owed and kept are there. *)
LEMMA GrantedStep ==
  ASSUME UsersKept,
         \A c \in Credentials, a \in Actions :
           Owed(c, a)' => \/ Owed(c, a) /\ (Permission(c, a) \in grants => Permission(c, a) \in grants')
                          \/ Permission(c, a) \in grants'
  PROVE  Granted'
  BY DEF UsersKept, Granted, Permission

-----------------------------------------------------------------------------
(* Bind *)

(* MakeUser makes an owner with its user, or none. *)
LEMMA MakeUserKeeps ==
  ASSUME SqlSetting, UsersInv, faults = 0, UNCHANGED faults, NEW w \in Workers, MakeUser(w)
  PROVE  UsersKept'
<1>a. TypeInv /\ UsersKept
  BY UsersFacts
<1>1. UNCHANGED bindingRows /\ pc[w] = "newUser" /\ Same(w)
  BY <1>a, MakeUserStep DEF storeVars
<1>2. \/ NewUser(cred[w].url, cred[w].user, TRUE) /\ GoesTo(w, "grantWrite")
      \/ NewUser(cred[w].url, cred[w].user, FALSE) /\ Ends(w, 500, FALSE)
  BY <1>a, MakeUserStep, Zenon
<1>3. CASE NewUser(cred[w].url, cred[w].user, FALSE) /\ Ends(w, 500, FALSE)
  <2>1. UNCHANGED <<users, grants>>
    BY <1>3, NewUserExact DEF SqlSetting
  <2>2. Moves(w) /\ pc'[w] = "done"
    BY <1>3 DEF Ends
  <2> QED BY <1>a, <1>1, <2>1, <2>2, UsersQuiet DEF BoundLabels, UnbindLabels
<1>4. CASE NewUser(cred[w].url, cred[w].user, TRUE) /\ GoesTo(w, "grantWrite")
  <2>1. /\ UserOf(cred[w]) \notin users /\ users' = users \cup {UserOf(cred[w])}
        /\ UNCHANGED grants
    BY <1>4, NewUserExact DEF SqlSetting, UserOf
  <2>2. Moves(w) /\ pc'[w] = "grantWrite" /\ req'[w] = req[w]
    BY <1>4 DEF GoesTo
  <2>3. \A r : (UnboundBy(w, r)' <=> UnboundBy(w, r)) /\ (RevokedBy(w, r)' <=> RevokedBy(w, r))
    BY <1>a, <1>1, <2>2, RowsAlone DEF UnbindLabels
  <2>4. Holder(w)' /\ ~Holder(w) /\ BindingOf(w)' = BindingOf(w) /\ BindingOf(w).cred = cred[w]
    BY <1>1, <2>2 DEF Holder, BindingOf, BoundLabels, UnbindLabels, Same
  <2>5. ASSUME NEW v \in Workers, v # w
        PROVE  (Holder(v)' <=> Holder(v)) /\ BindingOf(v)' = BindingOf(v)
    BY <1>a, <2>2, <2>5, OthersUnbind
  <2>6. {BindingOf(v) : v \in {u \in Workers : Holder(u)}}' =
          {BindingOf(v) : v \in {u \in Workers : Holder(u)}} \cup {BindingOf(w)}
    BY <2>4, <2>5
  <2>7. UserOwners' = UserOwners \cup {BindingOf(w)}
    BY <1>a, <1>1, <2>2, <2>3, <2>6, RecordsOwn DEF UserOwners
  <2>8. UsersServed' /\ UsersDiffer' /\ AllUsersOwned'
    BY <1>a, <2>1, <2>4, <2>7, OwnerComes
  <2>9. ASSUME NEW v \in Workers PROVE TakenFromList(v)'
    <3>1. CASE v = w
      BY <2>2, <3>1 DEF TakenFromList, UnbindLabels
    <3> QED BY <1>a, <1>1, <2>2, <3>1, OthersTaken DEF UsersKept
  <2>10. ASSUME NEW c, NEW a, Owed(c, a)' PROVE Owed(c, a)
    <3>1. pc'[w] \notin Holding(a)
      BY <2>2 DEF Holding
    <3> QED BY <1>a, <1>1, <2>2, <2>3, <2>10, <3>1, OwedStill
  <2>11. Granted'
    BY <1>a, <2>1, <2>10, GrantedStep
  <2> QED BY <1>a, <1>1, <2>8, <2>9, <2>11, RowsStay DEF UsersKept
<1> QED BY <1>2, <1>3, <1>4

(* A handler that goes on with the user it is making, and gives it what it is owed. *)
LEMMA UserInMaking ==
  ASSUME UsersInv, faults = 0, NEW w \in Workers, Moves(w), Same(w), req'[w] = req[w],
         UNCHANGED <<bindingRows, users>>,
         {pc[w], pc'[w]} \subseteq BoundLabels,
         grants \subseteq grants',
         \A a \in Actions : pc'[w] \in Holding(a) /\ pc[w] \notin Holding(a) =>
           Permission(cred[w], a) \in grants'
  PROVE  UsersKept'
<1>a. TypeInv /\ UsersKept
  BY UsersFacts
<1>1. \A r : (UnboundBy(w, r)' <=> UnboundBy(w, r)) /\ (RevokedBy(w, r)' <=> RevokedBy(w, r))
  BY <1>a, RowsAlone DEF BoundLabels, UnbindLabels
<1>2. Holder(w)' /\ Holder(w) /\ BindingOf(w)' = BindingOf(w)
  BY DEF Holder, BindingOf, Same
<1>3. UserOwners' = UserOwners
  BY <1>a, <1>1, <1>2, UserOwnersStay
<1>4. ASSUME NEW v \in Workers PROVE TakenFromList(v)'
  <2>1. CASE v = w
    BY <2>1 DEF TakenFromList, BoundLabels, UnbindLabels
  <2> QED BY <1>a, <2>1, OthersTaken DEF UsersKept
<1>5. ASSUME NEW c \in Credentials, NEW a \in Actions, Owed(c, a)'
      PROVE  \/ Owed(c, a) /\ (Permission(c, a) \in grants => Permission(c, a) \in grants')
             \/ Permission(c, a) \in grants'
  <2>1. Owed(c, a) \/ (cred'[w] = c /\ pc'[w] \in Holding(a))
    BY <1>a, <1>1, <1>5, OwedStill
  <2>2. CASE cred[w] = c /\ pc[w] \in Holding(a)
    BY <2>2 DEF Owed
  <2> QED BY <2>1, <2>2 DEF Same
<1>6. Granted'
  BY <1>a, <1>5, GrantedStep
<1> QED BY <1>a, <1>3, <1>4, <1>6, UsersStay, RowsStay DEF UsersKept

(* GrantWrite gives the first permission. *)
LEMMA GrantWriteKeeps ==
  ASSUME UsersInv, faults = 0, UNCHANGED faults, NEW w \in Workers, GrantWrite(w)
  PROVE  UsersKept'
<1>a. TypeInv /\ UsersKept /\ BindingsInv
  BY UsersFacts
<1>1. UNCHANGED bindingRows /\ pc[w] = "grantWrite" /\ Same(w)
  BY <1>a, GrantWriteStep DEF storeVars
<1>2. \/ Grant(cred[w].url, cred[w].user, cred[w].db, "write", TRUE) /\ GoesTo(w, "grantRead")
      \/ Grant(cred[w].url, cred[w].user, cred[w].db, "write", FALSE) /\ Ends(w, 500, FALSE)
  BY <1>a, GrantWriteStep, Zenon
<1>3. <<cred[w].url, cred[w].user>> \in users /\ <<cred[w].url, cred[w].db>> \in databases
  BY <1>a, <1>1, HasUser, HasDatabase, LabelFacts DEF UserOf, BoundLabels
<1>4. ASSUME NEW reply, Grant(cred[w].url, cred[w].user, cred[w].db, "write", reply)
      PROVE  /\ reply = TRUE /\ UNCHANGED users
             /\ grants' = grants \cup {Permission(cred[w], "write")}
  <2>1. faults \in Nat
    BY UsersFacts
  <2>2. /\ reply = TRUE /\ UNCHANGED users
        /\ grants' = grants \cup {<<cred[w].url, cred[w].user, cred[w].db, "write">>}
    BY <1>3, <1>4, <2>1, FaultFree DEF Grant, Replied, CallFails
  <2> QED BY <2>2 DEF Permission
<1>5. GoesTo(w, "grantRead")
  BY <1>2, <1>4
<1>6. UNCHANGED users /\ grants' = grants \cup {Permission(cred[w], "write")}
  BY <1>2, <1>4
<1>7. Moves(w) /\ req'[w] = req[w] /\ pc'[w] = "grantRead"
  BY <1>5 DEF GoesTo
<1>8. \A a \in Actions : pc'[w] \in Holding(a) => a = "write"
  BY <1>7 DEF Holding, Actions
<1> QED BY <1>1, <1>6, <1>7, <1>8, UserInMaking DEF BoundLabels

(* GrantRead gives the second. *)
LEMMA GrantReadKeeps ==
  ASSUME UsersInv, faults = 0, UNCHANGED faults, NEW w \in Workers, GrantRead(w)
  PROVE  UsersKept'
<1>a. TypeInv /\ UsersKept /\ BindingsInv
  BY UsersFacts
<1>1. UNCHANGED bindingRows /\ pc[w] = "grantRead" /\ Same(w)
  BY <1>a, GrantReadStep DEF storeVars
<1>2. \/ /\ Grant(cred[w].url, cred[w].user, cred[w].db, "read", TRUE)
         /\ GoesTo(w, IF OnSql THEN "addBinding" ELSE "checkInstance")
      \/ Grant(cred[w].url, cred[w].user, cred[w].db, "read", FALSE) /\ Ends(w, 500, FALSE)
  BY <1>a, GrantReadStep, Zenon
<1>3. <<cred[w].url, cred[w].user>> \in users /\ <<cred[w].url, cred[w].db>> \in databases
  BY <1>a, <1>1, HasUser, HasDatabase, LabelFacts DEF UserOf, BoundLabels
<1>4. ASSUME NEW reply, Grant(cred[w].url, cred[w].user, cred[w].db, "read", reply)
      PROVE  /\ reply = TRUE /\ UNCHANGED users
             /\ grants' = grants \cup {Permission(cred[w], "read")}
  <2>1. faults \in Nat
    BY UsersFacts
  <2>2. /\ reply = TRUE /\ UNCHANGED users
        /\ grants' = grants \cup {<<cred[w].url, cred[w].user, cred[w].db, "read">>}
    BY <1>3, <1>4, <2>1, FaultFree DEF Grant, Replied, CallFails
  <2> QED BY <2>2 DEF Permission
<1>5. GoesTo(w, IF OnSql THEN "addBinding" ELSE "checkInstance")
  BY <1>2, <1>4
<1>6. UNCHANGED users /\ grants' = grants \cup {Permission(cred[w], "read")}
  BY <1>2, <1>4
<1>7. Moves(w) /\ req'[w] = req[w] /\ pc'[w] \in {"addBinding", "checkInstance"}
  BY <1>5 DEF GoesTo
<1>8. \A a \in Actions : pc[w] \notin Holding(a) => a = "read"
  BY <1>1 DEF Holding, Actions
<1> QED BY <1>1, <1>6, <1>7, <1>8, UserInMaking DEF BoundLabels

(* CheckInstance finds the instance. *)
LEMMA CheckInstanceKeeps ==
  ASSUME SqlSetting, UsersInv, faults = 0, NEW w \in Workers, CheckInstance(w)
  PROVE  UsersKept'
<1>a. TypeInv /\ BindingsInv
  BY UsersFacts
<1>1. /\ pc[w] = "checkInstance" /\ Same(w) /\ GoesTo(w, "addBinding")
      /\ UNCHANGED storeVars
  BY <1>a, CheckInstanceFinds
<1>2. UNCHANGED <<users, grants>>
  BY <1>a, CheckInstanceStep DEF stardogVars
<1>3. Moves(w) /\ req'[w] = req[w] /\ pc'[w] = "addBinding"
  BY <1>1 DEF GoesTo
<1>4. \A a \in Actions : pc[w] \in Holding(a)
  BY <1>1 DEF Holding
<1> QED BY <1>1, <1>2, <1>3, <1>4, UserInMaking DEF BoundLabels, storeVars

(* StoreBinding turns the owner into the record it was about to be. *)
LEMMA StoreBindingKeeps ==
  ASSUME SqlSetting, UsersInv, DatabasesInv', faults = 0, NEW w \in Workers, StoreBinding(w)
  PROVE  UsersKept'
<1>a. TypeInv /\ UsersKept /\ BindingsInv /\ OneRequest
  BY UsersFacts
<1>1. bindingRows' = bindingRows \cup {BindingOf(w)}
  BY <1>a, StoreBindingBound
<1>2. pc[w] = "addBinding" /\ UNCHANGED <<users, grants>>
  BY <1>a, StoreBindingStep DEF stardogVars
<1>3. PICK reply \in BOOLEAN : Ends(w, 201, TRUE) \/ Ends(w, 200, FALSE)
  BY <1>a, StoreBindingStep
<1>4. Moves(w) /\ pc'[w] = "done"
  BY <1>3 DEF Ends
<1>5. BindingOf(w).inst = req[w].inst /\ BindingOf(w).cred = cred[w]
  BY DEF BindingOf
<1>6. \A r : (UnboundBy(w, r)' <=> UnboundBy(w, r)) /\ (RevokedBy(w, r)' <=> RevokedBy(w, r))
  BY <1>a, <1>2, <1>4, RowsAlone DEF UnbindLabels
<1>7. \A r : (BeingUnbound(r)' <=> BeingUnbound(r)) /\ (BeingRevoked(r)' <=> BeingRevoked(r))
  BY <1>a, <1>4, <1>6, UnboundStep
<1>8. ASSUME NEW r, r.inst = req[w].inst PROVE ~BeingUnbound(r) /\ ~BeingRevoked(r)
  <2>1. ~UnboundBy(w, r) /\ ~RevokedBy(w, r)
    BY <1>2 DEF UnboundBy, RevokedBy, UnbindsNow, UnbindLabels
  <2> QED BY <1>a, <1>2, <1>8, <2>1, UnboundAlone
<1>9. Holder(w) /\ ~Holder(w)'
  BY <1>2, <1>4 DEF Holder, BoundLabels, UnbindLabels
<1>10. ASSUME NEW v \in Workers, v # w
       PROVE  (Holder(v)' <=> Holder(v)) /\ BindingOf(v)' = BindingOf(v)
  BY <1>a, <1>4, <1>10, OthersUnbind
<1>11. {BindingOf(v) : v \in {u \in Workers : Holder(u)}}' \cup {BindingOf(w)} =
         {BindingOf(v) : v \in {u \in Workers : Holder(u)}}
  BY <1>9, <1>10
<1>12. {r \in bindingRows : ~BeingUnbound(r)}' =
         {r \in bindingRows : ~BeingUnbound(r)} \cup {BindingOf(w)}
  BY <1>1, <1>5, <1>7, <1>8
<1>13. UserOwners' = UserOwners
  BY <1>11, <1>12 DEF UserOwners
<1>14. RowsDiffer'
  <2>1. ASSUME NEW r \in bindingRows, r.inst = req[w].inst, UserOf(r.cred) = UserOf(cred[w])
        PROVE  r = BindingOf(w)
    <3>1. r \in UserOwners /\ BindingOf(w) \in UserOwners
      BY <1>8, <1>9, <2>1 DEF UserOwners
    <3> QED BY <1>a, <1>5, <2>1, <3>1 DEF UsersKept, UsersDiffer
  <2> QED BY <1>a, <1>1, <1>5, <2>1 DEF UsersKept, RowsDiffer, UserOf
<1>15. ASSUME NEW v \in Workers PROVE TakenFromList(v)'
  <2>1. CASE v = w
    BY <1>4, <2>1 DEF TakenFromList, UnbindLabels
  <2>2. OwnBindings(w)
    BY <1>1, <1>5 DEF OwnBindings
  <2> QED BY <1>a, <1>2, <1>4, <2>1, <2>2, OthersTaken DEF UsersKept
<1>16. ASSUME NEW c, NEW a, Owed(c, a)' PROVE Owed(c, a)
  <2>1. CASE \E r \in bindingRows' : r.cred = c /\ ~BeingUnbound(r)' /\ ~BeingRevoked(r)'
    <3>1. PICK r \in bindingRows' : r.cred = c /\ ~BeingUnbound(r)' /\ ~BeingRevoked(r)'
      BY <2>1
    <3>2. CASE r = BindingOf(w)
      BY <1>2, <1>5, <3>1, <3>2 DEF Owed, Holding
    <3>3. CASE r \in bindingRows
      BY <1>7, <3>1, <3>3 DEF Owed
    <3> QED BY <1>1, <3>2, <3>3
  <2>2. ASSUME NEW v \in Workers, cred'[v] = c, pc'[v] \in Holding(a) PROVE Owed(c, a)
    <3>1. v # w
      BY <1>4, <2>2 DEF Holding
    <3>2. cred[v] = c /\ pc[v] \in Holding(a)
      BY <1>a, <1>4, <2>2, <3>1, OthersStay
    <3> QED BY <3>2 DEF Owed
  <2> QED BY <1>16, <2>1, <2>2 DEF Owed, Holding
<1>17. Granted'
  BY <1>a, <1>2, <1>16, GrantedStep
<1> QED BY <1>a, <1>2, <1>13, <1>14, <1>15, <1>17, UsersStay DEF UsersKept

-----------------------------------------------------------------------------
(* RemoveServiceInstance and UnBind *)

(* ListBindings lists every binding of the instance, so none is past yet. *)
LEMMA ListBindingsKeeps ==
  ASSUME SqlSetting, UsersInv, faults = 0, NEW w \in Workers, ListBindings(w)
  PROVE  UsersKept'
<1>a. TypeInv /\ UsersKept /\ BindingsInv /\ InstanceKnown(w)
  BY UsersFacts
<1>1. PICK answer \in GetAllBindings(req[w].inst) \cup {None} :
        /\ Read(GetAllBindings(req[w].inst), answer)
        /\ \/ answer # None /\ todo'[w] = answer /\ GoesTo(w, "nextBinding")
           \/ answer = None /\ todo'[w] = todo[w] /\ Ends(w, 500, FALSE)
  BY <1>a, ListBindingsStep
<1>2. /\ pc[w] = "listBindings" /\ UNCHANGED <<users, grants>>
      /\ inst'[w] = inst[w] /\ cred'[w] = cred[w]
  BY <1>a, ListBindingsStep DEF stardogVars
<1>3. answer \in GetAllBindings(req[w].inst) /\ UNCHANGED bindingRows
  BY <1>1, ReadExact DEF SqlSetting, SerialSetting, storeVars
<1>4. CASE Ends(w, 500, FALSE)
  <2>1. Moves(w) /\ pc'[w] = "done"
    BY <1>4 DEF Ends
  <2> QED BY <1>a, <1>2, <1>3, <2>1, UsersQuiet DEF BoundLabels, UnbindLabels
<1>5. CASE todo'[w] = answer /\ GoesTo(w, "nextBinding")
  <2>1. Moves(w) /\ pc'[w] = "nextBinding" /\ req'[w] = req[w]
    BY <1>5 DEF GoesTo
  <2>2. RecordOf(w) \in instanceRows /\ RecordOf(w).guid = req[w].inst
    BY <1>a, <1>2, LabelFacts DEF InstanceKnown, RecordOf
  <2>3. answer = {[guid |-> r.guid, cred |-> r.cred] :
                    r \in {i \in bindingRows : i.inst = req[w].inst}}
    BY <1>3, <2>2, GetAllBindingsExact DEF Unrecorded, SqlSetting
  <2>4. ASSUME NEW r \in bindingRows
        PROVE  (UnboundBy(w, r)' <=> UnboundBy(w, r)) /\ (RevokedBy(w, r)' <=> RevokedBy(w, r))
    <3>1. ~UnboundBy(w, r) /\ ~RevokedBy(w, r) /\ ~RevokedBy(w, r)'
      BY <1>2, <2>1 DEF UnboundBy, RevokedBy, UnbindsNow, UnbindLabels
    <3>2. r.inst = req[w].inst => [guid |-> r.guid, cred |-> r.cred] \in todo'[w]
      BY <1>5, <2>3, <2>4
    <3>3. ~UnboundBy(w, r)'
      BY <2>1, <3>2 DEF UnboundBy
    <3> QED BY <3>1, <3>3
  <2>5. ~Holder(w) /\ ~Holder(w)'
    BY <1>2, <2>1 DEF Holder, BoundLabels, UnbindLabels
  <2>6. UserOwners' = UserOwners
    BY <1>a, <1>3, <2>1, <2>4, <2>5, UserOwnersStay
  <2>7. ASSUME NEW v \in Workers PROVE TakenFromList(v)'
    <3>1. CASE v = w
      BY <2>1, <3>1 DEF TakenFromList, UnbindLabels
    <3> QED BY <1>a, <1>3, <2>1, <3>1, OthersTaken DEF UsersKept
  <2>8. ASSUME NEW c, NEW a, Owed(c, a)' PROVE Owed(c, a)
    <3>1. pc'[w] \notin Holding(a)
      BY <2>1 DEF Holding
    <3> QED BY <1>a, <1>3, <2>1, <2>4, <2>8, <3>1, OwedStill
  <2>9. Granted'
    BY <1>a, <1>2, <2>8, GrantedStep
  <2> QED BY <1>a, <1>2, <1>3, <2>6, <2>7, <2>9, UsersStay, RowsStay DEF UsersKept
<1> QED BY <1>1, <1>4, <1>5

(* NextBinding takes over what the binding is owed. *)
LEMMA NextBindingKeeps ==
  ASSUME UsersInv, faults = 0, NEW w \in Workers, NextBinding(w)
  PROVE  UsersKept'
<1>a. TypeInv /\ UsersKept /\ BindingsInv /\ ListedKnown(w) /\ OneRequest
  BY UsersFacts
<1>1. /\ pc[w] = "nextBinding" /\ req[w].op = "remove"
      /\ UNCHANGED <<users, grants, bindingRows>>
      /\ \/ /\ todo[w] = {} /\ GoesTo(w, "deleteDb")
            /\ cred'[w] = cred[w] /\ todo'[w] = todo[w]
         \/ /\ GoesTo(w, "revokeWrite")
            /\ \E b \in todo[w] : cred'[w] = b.cred /\ todo'[w] = todo[w] \ {b}
  BY <1>a, NextBindingStep DEF stardogVars, storeVars
<1>2. Moves(w) /\ req'[w] = req[w]
  BY <1>1 DEF GoesTo
<1>3. CASE GoesTo(w, "deleteDb") /\ cred'[w] = cred[w] /\ todo'[w] = todo[w]
  <2>1. pc'[w] = "deleteDb"
    BY <1>3 DEF GoesTo
  <2>2. \A r : (UnboundBy(w, r)' <=> UnboundBy(w, r)) /\ (RevokedBy(w, r)' <=> RevokedBy(w, r))
    BY <1>1, <1>2, <1>3, <2>1 DEF UnboundBy, RevokedBy, UnbindsNow, UnbindLabels
  <2>3. ~Holder(w) /\ ~Holder(w)'
    BY <1>1, <2>1 DEF Holder, BoundLabels, UnbindLabels
  <2>4. UserOwners' = UserOwners
    BY <1>a, <1>1, <1>2, <2>2, <2>3, UserOwnersStay
  <2>5. ASSUME NEW v \in Workers PROVE TakenFromList(v)'
    <3>1. CASE v = w
      BY <2>1, <3>1 DEF TakenFromList, UnbindLabels
    <3> QED BY <1>a, <1>1, <1>2, <3>1, OthersTaken DEF UsersKept
  <2>6. ASSUME NEW c, NEW a, Owed(c, a)' PROVE Owed(c, a)
    <3>1. pc'[w] \notin Holding(a)
      BY <2>1 DEF Holding
    <3> QED BY <1>a, <1>1, <1>2, <2>2, <2>6, <3>1, OwedStill
  <2>7. Granted'
    BY <1>a, <1>1, <2>6, GrantedStep
  <2> QED BY <1>a, <1>1, <2>4, <2>5, <2>7, UsersStay, RowsStay DEF UsersKept
<1>4. CASE /\ GoesTo(w, "revokeWrite")
           /\ \E b \in todo[w] : cred'[w] = b.cred /\ todo'[w] = todo[w] \ {b}
  <2>1. PICK b \in todo[w] : cred'[w] = b.cred /\ todo'[w] = todo[w] \ {b}
    BY <1>4
  <2>2. pc'[w] = "revokeWrite"
    BY <1>4 DEF GoesTo
  <2>3. [inst |-> req[w].inst, guid |-> b.guid, cred |-> b.cred] \in bindingRows
    BY <1>a DEF ListedKnown
  <2>4. PICK q \in bindingRows :
          q.inst = req[w].inst /\ q.cred = b.cred /\ [guid |-> q.guid, cred |-> q.cred] = b
    <3>1. b = [guid |-> b.guid, cred |-> b.cred]
      BY <1>a DEF TypeInv, TypeOK, Todos
    <3> QED BY <2>3, <3>1
  <2>5. ASSUME NEW r \in bindingRows, r.inst = req[w].inst, r.cred = b.cred PROVE r = q
    BY <1>a, <2>3, <2>4, <2>5 DEF UsersKept, RowsDiffer
  <2>6. ASSUME NEW r \in bindingRows
        PROVE  (UnboundBy(w, r)' <=> UnboundBy(w, r)) /\ (RevokedBy(w, r)' <=> RevokedBy(w, r))
    <3> DEFINE t == [guid |-> r.guid, cred |-> r.cred]
    <3>1. t.cred = r.cred
      OBVIOUS
    <3>2. RevokedBy(w, r)' <=> RevokedBy(w, r)
      BY <1>1, <2>2 DEF RevokedBy, UnbindsNow, UnbindLabels
    <3>3. UnboundBy(w, r) <=> r.inst = req[w].inst /\ t \notin todo[w]
      BY <1>1 DEF UnboundBy, UnbindLabels
    <3>4. UnboundBy(w, r)' <=> r.inst = req[w].inst /\ t \notin todo[w] \ {b} /\ b.cred # r.cred
      BY <1>1, <1>2, <2>1, <2>2 DEF UnboundBy, UnbindLabels
    <3> HIDE DEF t
    <3>5. r.inst = req[w].inst /\ t \notin todo[w] => b.cred # r.cred
      BY <2>4, <2>5, <2>6 DEF t
    <3> QED BY <3>1, <3>2, <3>3, <3>4, <3>5
  <2>7. ~Holder(w) /\ ~Holder(w)'
    BY <1>1, <1>2, <2>2 DEF Holder, BoundLabels, UnbindLabels
  <2>8. UserOwners' = UserOwners
    BY <1>a, <1>1, <1>2, <2>6, <2>7, UserOwnersStay
  <2>9. ASSUME NEW v \in Workers PROVE TakenFromList(v)'
    <3>1. CASE v = w
      <4>1. UnbindsNow(w, q)' /\ [guid |-> q.guid, cred |-> q.cred] \notin todo'[w]
        BY <1>1, <1>2, <2>1, <2>2, <2>4 DEF UnbindsNow, UnbindLabels
      <4> QED BY <1>1, <2>4, <3>1, <4>1 DEF TakenFromList
    <3> QED BY <1>a, <1>1, <1>2, <3>1, OthersTaken DEF UsersKept
  <2>10. ASSUME NEW c, NEW a, Owed(c, a)' PROVE Owed(c, a)
    <3>1. CASE c = b.cred
      <4>1. ~UnboundBy(w, q) /\ ~RevokedBy(w, q)
        BY <1>1, <2>4 DEF UnboundBy, RevokedBy, UnbindsNow, UnbindLabels
      <4>2. ~BeingUnbound(q) /\ ~BeingRevoked(q)
        BY <1>a, <1>1, <2>4, <4>1, UnboundAlone
      <4> QED BY <2>3, <2>4, <3>1, <4>2 DEF Owed
    <3>2. CASE c # b.cred
      BY <1>a, <1>1, <1>2, <2>1, <2>6, <2>10, <3>2, OwedStill
    <3> QED BY <3>1, <3>2
  <2>11. Granted'
    BY <1>a, <1>1, <2>10, GrantedStep
  <2> QED BY <1>a, <1>1, <2>8, <2>9, <2>11, UsersStay, RowsStay DEF UsersKept
<1> QED BY <1>1, <1>3, <1>4

(* DeleteDb finds the database, and its users are gone. *)
LEMMA DeleteDbKeeps ==
  ASSUME UsersInv, faults = 0, UNCHANGED faults, NEW w \in Workers, DeleteDb(w)
  PROVE  UsersKept'
<1>a. TypeInv /\ UsersKept /\ BindingsInv /\ faults \in Nat
  BY UsersFacts
<1>1. UNCHANGED bindingRows /\ pc[w] = "deleteDb" /\ Same(w)
  BY <1>a, DeleteDbStep DEF storeVars
<1>2. \/ DeleteDatabase(ServerOf(inst[w]), inst[w].db, TRUE) /\ GoesTo(w, "deleteInstance")
      \/ DeleteDatabase(ServerOf(inst[w]), inst[w].db, FALSE) /\ Ends(w, 500, FALSE)
  BY <1>a, DeleteDbStep, Zenon
<1>3. <<ServerOf(inst[w]), inst[w].db>> \in databases
  BY <1>a, <1>1, HasDatabase, LabelFacts DEF DatabaseOf
<1>4. ~DeleteDatabase(ServerOf(inst[w]), inst[w].db, FALSE)
  BY <1>a, <1>3, FaultFree DEF DeleteDatabase, Replied, CallFails
<1>5. DeleteDatabase(ServerOf(inst[w]), inst[w].db, TRUE) /\ GoesTo(w, "deleteInstance")
  BY <1>2, <1>4, Zenon
<1>6. UNCHANGED <<users, grants>>
  BY <1>5, DeleteDatabaseEffect
<1>7. Moves(w) /\ req'[w] = req[w] /\ pc'[w] = "deleteInstance"
  BY <1>5 DEF GoesTo
<1>8. \A r : (UnboundBy(w, r)' <=> UnboundBy(w, r)) /\ (RevokedBy(w, r)' <=> RevokedBy(w, r))
  BY <1>1, <1>7 DEF UnboundBy, RevokedBy, UnbindsNow, UnbindLabels, Same
<1>9. ~Holder(w) /\ ~Holder(w)'
  BY <1>1, <1>7 DEF Holder, BoundLabels, UnbindLabels
<1>10. UserOwners' = UserOwners
  BY <1>a, <1>1, <1>7, <1>8, <1>9, UserOwnersStay
<1>11. ASSUME NEW v \in Workers PROVE TakenFromList(v)'
  <2>1. CASE v = w
    BY <1>7, <2>1 DEF TakenFromList, UnbindLabels
  <2> QED BY <1>a, <1>1, <1>7, <2>1, OthersTaken DEF UsersKept
<1>12. ASSUME NEW c, NEW a, Owed(c, a)' PROVE Owed(c, a)
  <2>1. pc'[w] \notin Holding(a)
    BY <1>7 DEF Holding
  <2> QED BY <1>a, <1>1, <1>7, <1>8, <1>12, <2>1, OwedStill
<1>13. Granted'
  BY <1>a, <1>6, <1>12, GrantedStep
<1> QED BY <1>a, <1>1, <1>6, <1>10, <1>11, <1>13, UsersStay, RowsStay DEF UsersKept

(* EraseInstance drops the records of bindings that owned nothing any more. *)
LEMMA EraseInstanceKeeps ==
  ASSUME SqlSetting, UsersInv, faults = 0, NEW w \in Workers, EraseInstance(w)
  PROVE  UsersKept'
<1>a. TypeInv /\ UsersKept /\ OneRequest /\ ListedKnown(w)
  BY UsersFacts
<1>1. /\ pc[w] = "deleteInstance" /\ req[w].op = "remove" /\ UNCHANGED <<users, grants>>
      /\ Ends(w, 200, TRUE) /\ \E reply \in BOOLEAN : DeleteInstance(req[w].inst, reply)
  BY <1>a, EraseInstanceStep DEF stardogVars
<1>2. bindingRows' = {r \in bindingRows : r.inst # req[w].inst}
  BY <1>1, DeleteInstanceSerial DEF SqlSetting
<1>3. Moves(w) /\ pc'[w] = "done"
  BY <1>1 DEF Ends
<1>4. ASSUME NEW r, r.inst # req[w].inst
      PROVE  (BeingUnbound(r)' <=> BeingUnbound(r)) /\ (BeingRevoked(r)' <=> BeingRevoked(r))
  <2>1. (UnboundBy(w, r)' <=> UnboundBy(w, r)) /\ (RevokedBy(w, r)' <=> RevokedBy(w, r))
    BY <1>1, <1>3, <1>4 DEF UnboundBy, RevokedBy, UnbindsNow, UnbindLabels
  <2> QED BY <1>a, <1>3, <2>1, UnboundStep
<1>5. ASSUME NEW r, r.inst = req[w].inst PROVE BeingUnbound(r)
  <2>1. todo[w] = {}
    BY <1>a, <1>1 DEF ListedKnown, UnbindLabels
  <2>2. UnboundBy(w, r)
    BY <1>1, <1>5, <2>1 DEF UnboundBy, UnbindLabels
  <2> QED BY <1>a, <1>1, <1>5, <2>2, UnboundAlone
<1>6. ~Holder(w) /\ ~Holder(w)'
  BY <1>1, <1>3 DEF Holder, BoundLabels, UnbindLabels
<1>7. ASSUME NEW v \in Workers
      PROVE  (Holder(v)' <=> Holder(v)) /\ (Holder(v) => BindingOf(v)' = BindingOf(v))
  BY <1>a, <1>3, <1>6, OthersUnbind
<1>8. {BindingOf(v) : v \in {u \in Workers : Holder(u)}}' =
        {BindingOf(v) : v \in {u \in Workers : Holder(u)}}
  BY <1>7
<1>9. UserOwners' = UserOwners
  BY <1>2, <1>4, <1>5, <1>8 DEF UserOwners
<1>10. ASSUME NEW v \in Workers PROVE TakenFromList(v)'
  <2>1. CASE v = w
    BY <1>3, <2>1 DEF TakenFromList, UnbindLabels
  <2>2. OwnBindings(w)
    BY <1>2 DEF OwnBindings
  <2> QED BY <1>a, <1>1, <1>3, <2>1, <2>2, OthersTaken DEF UsersKept
<1>11. ASSUME NEW c, NEW a, Owed(c, a)' PROVE Owed(c, a)
  <2>1. CASE \E r \in bindingRows' : r.cred = c /\ ~BeingUnbound(r)' /\ ~BeingRevoked(r)'
    BY <1>2, <1>4, <2>1 DEF Owed
  <2>2. ASSUME NEW v \in Workers, cred'[v] = c, pc'[v] \in Holding(a) PROVE Owed(c, a)
    <3>1. v # w
      BY <1>3, <2>2 DEF Holding
    <3>2. cred[v] = c /\ pc[v] \in Holding(a)
      BY <1>a, <1>3, <2>2, <3>1, OthersStay
    <3> QED BY <3>2 DEF Owed
  <2> QED BY <1>11, <2>1, <2>2 DEF Owed, Holding
<1>12. Granted'
  BY <1>a, <1>1, <1>11, GrantedStep
<1> QED BY <1>a, <1>1, <1>2, <1>9, <1>10, <1>12, UsersStay, RowsStay DEF UsersKept

(* EraseBinding takes over what the record owned. *)
LEMMA EraseBindingKeeps ==
  ASSUME SqlSetting, UsersInv, DatabasesInv', faults = 0, NEW w \in Workers, EraseBinding(w)
  PROVE  UsersKept'
<1>a. TypeInv /\ UsersKept /\ BindingsInv /\ OneRequest /\ BindingKnown(w)
  BY UsersFacts
<1>1. bindingRows' = bindingRows \ {BindingOf(w)} /\ pc'[w] = "revokeWrite"
  BY <1>a, EraseBindingBound
<1>2. /\ pc[w] = "deleteBinding" /\ req[w].op = "unbind" /\ UNCHANGED <<users, grants>>
      /\ Same(w)
  BY <1>a, EraseBindingStep DEF stardogVars
<1>3. Moves(w) /\ req'[w] = req[w]
  BY <1>a, EraseBindingLeads DEF GoesTo, Ends
<1>4. /\ BindingOf(w).inst = req[w].inst /\ BindingOf(w).cred = cred[w]
      /\ BindingOf(w) \in bindingRows /\ BindingOf(w)' = BindingOf(w)
  BY <1>a, <1>2, <1>3 DEF BindingOf, BindingKnown, Same
<1>5. \A r : /\ ~UnboundBy(w, r)' /\ ~UnboundBy(w, r)
             /\ ~RevokedBy(w, r)' /\ ~RevokedBy(w, r)
  BY <1>2, <1>3 DEF UnboundBy, RevokedBy, UnbindsNow
<1>6. \A r : (BeingUnbound(r)' <=> BeingUnbound(r)) /\ (BeingRevoked(r)' <=> BeingRevoked(r))
  BY <1>a, <1>3, <1>5, UnboundStep
<1>7. ~BeingUnbound(BindingOf(w)) /\ ~BeingRevoked(BindingOf(w))
  BY <1>a, <1>2, <1>4, <1>5, UnboundAlone
<1>8. Holder(w)' /\ ~Holder(w)
  BY <1>1, <1>2, <1>3 DEF Holder, BoundLabels, UnbindLabels
<1>9. ASSUME NEW v \in Workers, v # w
      PROVE  (Holder(v)' <=> Holder(v)) /\ BindingOf(v)' = BindingOf(v)
  BY <1>a, <1>3, <1>9, OthersUnbind
<1>10. {BindingOf(v) : v \in {u \in Workers : Holder(u)}}' =
         {BindingOf(v) : v \in {u \in Workers : Holder(u)}} \cup {BindingOf(w)}
  BY <1>4, <1>8, <1>9
<1>11. {r \in bindingRows : ~BeingUnbound(r)}' \cup {BindingOf(w)} =
         {r \in bindingRows : ~BeingUnbound(r)}
  BY <1>1, <1>4, <1>6, <1>7
<1>12. UserOwners' = UserOwners
  BY <1>10, <1>11 DEF UserOwners
<1>13. ASSUME NEW v \in Workers PROVE TakenFromList(v)'
  <2>1. CASE v = w
    BY <1>2, <1>3, <2>1 DEF TakenFromList
  <2>2. OwnBindings(w)
    BY <1>1, <1>4 DEF OwnBindings
  <2> QED BY <1>a, <1>2, <1>3, <2>1, <2>2, OthersTaken DEF UsersKept
<1>14. ASSUME NEW c, NEW a, Owed(c, a)' PROVE Owed(c, a)
  <2>1. CASE \E r \in bindingRows' : r.cred = c /\ ~BeingUnbound(r)' /\ ~BeingRevoked(r)'
    BY <1>1, <1>6, <2>1 DEF Owed
  <2>2. CASE c = cred[w]
    BY <1>4, <1>7, <2>2 DEF Owed
  <2>3. ASSUME NEW v \in Workers, v # w, cred'[v] = c, pc'[v] \in Holding(a) PROVE Owed(c, a)
    <3>1. cred[v] = c /\ pc[v] \in Holding(a)
      BY <1>a, <1>3, <2>3, OthersStay
    <3> QED BY <3>1 DEF Owed
  <2>4. CASE cred'[w] = c
    BY <1>2, <2>2, <2>4 DEF Same
  <2> QED BY <1>14, <2>1, <2>3, <2>4 DEF Owed, Holding
<1>15. Granted'
  BY <1>a, <1>2, <1>14, GrantedStep
<1> QED BY <1>a, <1>1, <1>2, <1>12, <1>13, <1>15, UsersStay, RowsStay DEF UsersKept

-----------------------------------------------------------------------------
(* Plan.UnBind *)

(* It goes on, or is through. *)
UnbindMoves(w) ==
  /\ Moves(w) /\ Same(w) /\ req'[w] = req[w]
  /\ pc[w] \in UnbindLabels
  /\ \/ pc[w] = "revokeWrite" /\ pc'[w] = "revokeRead"
     \/ pc'[w] = "deleteUser"
     \/ req[w].op = "remove" /\ pc'[w] = "nextBinding"
     \/ req[w].op = "unbind" /\ pc'[w] = "done"
  /\ UNCHANGED bindingRows

(* What it leaves owed of its user is what it is about to revoke; *)
LEMMA OwedApart ==
  ASSUME UsersInv, faults = 0, NEW w \in Workers, UnbindMoves(w),
         NEW c, NEW a, Owed(c, a)'
  PROVE  /\ Owed(c, a)
         /\ \/ UserOf(c) # UserOf(cred[w])
            \/ c = cred[w] /\ pc'[w] \in Holding(a)
<1>a. /\ TypeInv /\ UsersKept /\ BindingsInv /\ OneRequest /\ BindingKnown(w)
      /\ UsersDiffer /\ RowsDiffer
  BY UsersFacts DEF UsersKept
<1>1. /\ Moves(w) /\ req'[w] = req[w] /\ UNCHANGED bindingRows /\ pc[w] \in UnbindLabels
      /\ cred'[w] = cred[w] /\ todo'[w] = todo[w] /\ pc[w] # "idle"
  BY DEF UnbindMoves, Same, UnbindLabels
<1>2. PICK o \in UserOwners :
        /\ o.inst = req[w].inst /\ o.cred = cred[w]
        /\ \/ Holder(w) /\ o = BindingOf(w)
           \/ /\ ~Holder(w) /\ req[w].op = "remove" /\ o \in bindingRows
              /\ [guid |-> o.guid, cred |-> o.cred] \notin todo[w]
  BY <1>1, HoldsFor
<1>3. ASSUME NEW r \in bindingRows, r.cred = c, ~BeingUnbound(r)', ~BeingRevoked(r)'
      PROVE  Owed(c, a) /\ UserOf(c) # UserOf(cred[w])
  <2>1. ~UnboundBy(w, r)' /\ ~RevokedBy(w, r)'
    BY <1>3 DEF BeingUnbound, UnboundBy, BeingRevoked
  <2>2. (UnboundBy(w, r)' <=> UnboundBy(w, r)) => ~BeingUnbound(r)
    BY <1>a, <1>1, <1>3, UnboundStep
  <2>3. (RevokedBy(w, r)' <=> RevokedBy(w, r)) => ~BeingRevoked(r)
    BY <1>a, <1>1, <1>3, UnboundStep
  <2>4. ASSUME ~UnboundBy(w, r), ~RevokedBy(w, r) PROVE Owed(c, a) /\ r \in UserOwners
    BY <1>3, <2>1, <2>2, <2>3, <2>4 DEF Owed, UserOwners
  <2>5. CASE r.inst # req[w].inst
    <3>1. ~UnboundBy(w, r) /\ ~RevokedBy(w, r)
      BY <2>5 DEF UnboundBy, RevokedBy, UnbindsNow
    <3> QED BY <1>a, <1>2, <1>3, <2>4, <2>5, <3>1 DEF UsersDiffer
  <2>6. CASE r.inst = req[w].inst /\ req[w].op = "unbind"
    <3>1. ~UnboundBy(w, r) /\ ~RevokedBy(w, r)
      BY <2>6 DEF UnboundBy, RevokedBy, UnbindsNow
    <3>2. o = BindingOf(w) /\ Unbound(req[w].bind)
      BY <1>a, <1>1, <1>2, <2>6 DEF BindingKnown
    <3>3. r # o
      BY <1>3, <3>2 DEF BindingOf, Unbound
    <3> QED BY <1>a, <1>2, <1>3, <2>4, <3>1, <3>3 DEF UsersDiffer
  <2>7. CASE r.inst = req[w].inst /\ req[w].op = "remove"
    <3>1. pc'[w] \in {"revokeRead", "deleteUser", "nextBinding"}
      BY <2>7 DEF UnbindMoves
    <3>2. o \in bindingRows /\ [guid |-> o.guid, cred |-> o.cred] \notin todo[w]
      BY <1>2, <2>7 DEF Holder, BoundLabels, UnbindLabels, UnbindMoves
    <3>3. [guid |-> r.guid, cred |-> r.cred] \in todo[w]
      <4>1. CASE pc'[w] \in UnbindLabels /\ r.cred = cred[w]
        BY <1>1, <2>1, <2>7, <3>1, <4>1 DEF RevokedBy, UnbindsNow, UnbindLabels
      <4>2. CASE ~(pc'[w] \in UnbindLabels /\ r.cred = cred[w])
        BY <1>1, <2>1, <2>7, <3>1, <4>2 DEF UnboundBy, UnbindLabels
      <4> QED BY <4>1, <4>2
    <3>4. UserOf(r.cred) # UserOf(o.cred)
      BY <1>a, <1>2, <1>3, <2>7, <3>2, <3>3 DEF RowsDiffer
    <3>5. r.cred # cred[w]
      BY <1>2, <3>4
    <3>6. ~UnboundBy(w, r) /\ ~RevokedBy(w, r)
      BY <3>3, <3>5 DEF UnboundBy, RevokedBy, UnbindsNow
    <3> QED BY <1>2, <1>3, <2>4, <3>4, <3>6
  <2>8. req[w].op \in {"remove", "unbind"}
    BY <1>a, <1>1, OpAt DEF UnbindLabels
  <2> QED BY <2>5, <2>6, <2>7, <2>8
<1>4. ASSUME NEW v \in Workers, v # w, cred'[v] = c, pc'[v] \in Holding(a)
      PROVE  Owed(c, a) /\ UserOf(c) # UserOf(cred[w])
  <2>1. cred[v] = c /\ pc[v] \in Holding(a)
    BY <1>a, <1>1, <1>4, OthersStay
  <2>2. pc[v] \in BoundLabels \cup UnbindLabels
    BY <2>1 DEF Holding, BoundLabels, UnbindLabels
  <2>3. UserOf(cred[v]) # UserOf(cred[w])
    BY <1>1, <1>4, <2>2, HoldsApart
  <2> QED BY <2>1, <2>3 DEF Owed
<1>5. ASSUME cred'[w] = c, pc'[w] \in Holding(a)
      PROVE  Owed(c, a) /\ c = cred[w]
  <2>1. pc[w] = "revokeWrite" /\ pc'[w] = "revokeRead"
    BY <1>5 DEF UnbindMoves, Holding
  <2>2. pc[w] \in Holding(a)
    BY <2>1 DEF Holding
  <2> QED BY <1>1, <1>5, <2>2 DEF Owed
<1>6. CASE \E r \in bindingRows : r.cred = c /\ ~BeingUnbound(r)' /\ ~BeingRevoked(r)'
  BY <1>3, <1>6
<1>7. CASE \E v \in Workers : cred'[v] = c /\ pc'[v] \in Holding(a)
  <2>1. PICK v \in Workers : cred'[v] = c /\ pc'[v] \in Holding(a)
    BY <1>7
  <2>2. CASE v = w
    BY <1>5, <2>1, <2>2
  <2>3. CASE v # w
    BY <1>4, <2>1, <2>3
  <2> QED BY <2>2, <2>3
<1> QED BY <1>1, <1>6, <1>7 DEF Owed, Holding

(* ... so it can revoke the permission of the step. *)
LEMMA RevokeKeeps ==
  ASSUME UsersInv, faults = 0, NEW w \in Workers, UnbindMoves(w), pc'[w] \in UnbindLabels,
         UNCHANGED users, NEW a \in Actions, pc'[w] \notin Holding(a),
         grants' = grants \ {Permission(cred[w], a)}
  PROVE  UsersKept'
<1>a. TypeInv /\ UsersKept
  BY UsersFacts
<1>1. /\ Moves(w) /\ req'[w] = req[w] /\ UNCHANGED bindingRows /\ pc[w] \in UnbindLabels
      /\ cred'[w] = cred[w] /\ todo'[w] = todo[w]
  BY DEF UnbindMoves, Same
<1>2. \A r : UnboundBy(w, r)' <=> UnboundBy(w, r)
  BY <1>1 DEF UnboundBy
<1>3. (Holder(w)' <=> Holder(w)) /\ BindingOf(w)' = BindingOf(w)
  BY <1>1 DEF Holder, BindingOf, BoundLabels, UnbindLabels
<1>4. UserOwners' = UserOwners
  BY <1>a, <1>1, <1>2, <1>3, UserOwnersStay
<1>5. TakenFromList(w)'
  <2> SUFFICES ASSUME req[w].op = "remove"
               PROVE  \E r \in bindingRows :
                        /\ UnbindsNow(w, r)'
                        /\ [guid |-> r.guid, cred |-> r.cred] \notin todo'[w]
    BY <1>1 DEF TakenFromList
  <2>1. PICK r \in bindingRows :
          UnbindsNow(w, r) /\ [guid |-> r.guid, cred |-> r.cred] \notin todo[w]
    BY <1>a, <1>1 DEF UsersKept, TakenFromList
  <2>2. UnbindsNow(w, r)'
    BY <1>1, <2>1 DEF UnbindsNow
  <2> QED BY <1>1, <2>1, <2>2
<1>6. ASSUME NEW v \in Workers PROVE TakenFromList(v)'
  BY <1>a, <1>1, <1>5, OthersTaken DEF UsersKept
<1>7. ASSUME NEW c \in Credentials, NEW b \in Actions, Owed(c, b)'
      PROVE  Owed(c, b) /\ (Permission(c, b) \in grants => Permission(c, b) \in grants')
  <2>1. /\ Owed(c, b)
        /\ \/ UserOf(c) # UserOf(cred[w])
           \/ c = cred[w] /\ pc'[w] \in Holding(b)
    BY <1>7, OwedApart
  <2>2. Permission(c, b) # Permission(cred[w], a)
    BY <2>1 DEF Permission, UserOf
  <2> QED BY <2>1, <2>2
<1>8. Granted'
  BY <1>a, <1>7, GrantedStep
<1> QED BY <1>a, <1>1, <1>4, <1>6, <1>8, UsersStay, RowsStay DEF UsersKept

(* RevokeWrite finds its permission and revokes it. *)
LEMMA RevokeWriteKeeps ==
  ASSUME UsersInv, faults = 0, UNCHANGED faults, NEW w \in Workers, RevokeWrite(w)
  PROVE  UsersKept'
<1>a. TypeInv /\ BindingsInv /\ faults \in Nat
  BY UsersFacts
<1>1. pc[w] = "revokeWrite" /\ Same(w) /\ UNCHANGED storeVars
  BY <1>a, RevokeWriteStep
<1>2. \/ /\ Revoke(ServerOf(inst[w]), cred[w].user, cred[w].db, "write", TRUE)
         /\ GoesTo(w, "revokeRead")
      \/ /\ Revoke(ServerOf(inst[w]), cred[w].user, cred[w].db, "write", FALSE)
         /\ UnbindFailed(w)
  BY <1>a, RevokeWriteStep, Zenon
<1>3. ServerOf(inst[w]) = cred[w].url
  BY <1>a, <1>1, HasDatabase, LabelFacts DEF UnbindLabels
<1>4. <<cred[w].url, cred[w].user>> \in users
  BY <1>1, HasUser DEF UserOf, UnbindLabels
<1>5. <<cred[w].url, cred[w].user, cred[w].db, "write">> \in grants
  BY <1>1, HasPermission DEF Permission, Holding, Actions
<1>6. ASSUME NEW reply, Revoke(ServerOf(inst[w]), cred[w].user, cred[w].db, "write", reply)
      PROVE  /\ reply = TRUE /\ UNCHANGED users
             /\ grants' = grants \ {Permission(cred[w], "write")}
  <2>1. /\ reply = TRUE /\ UNCHANGED users
        /\ grants' = grants \ {<<cred[w].url, cred[w].user, cred[w].db, "write">>}
    BY <1>a, <1>3, <1>4, <1>5, <1>6, FaultFree DEF Revoke, Replied, CallFails
  <2> QED BY <2>1 DEF Permission
<1>7. GoesTo(w, "revokeRead")
  BY <1>2, <1>6
<1>8. UNCHANGED users /\ grants' = grants \ {Permission(cred[w], "write")}
  BY <1>2, <1>6
<1>9. UnbindMoves(w) /\ pc'[w] = "revokeRead"
  BY <1>1, <1>7 DEF UnbindMoves, GoesTo, UnbindLabels, storeVars
<1> QED BY <1>8, <1>9, RevokeKeeps DEF Holding, UnbindLabels, Actions

(* RevokeRead likewise. *)
LEMMA RevokeReadKeeps ==
  ASSUME UsersInv, faults = 0, UNCHANGED faults, NEW w \in Workers, RevokeRead(w)
  PROVE  UsersKept'
<1>a. TypeInv /\ BindingsInv /\ faults \in Nat
  BY UsersFacts
<1>1. pc[w] = "revokeRead" /\ Same(w) /\ UNCHANGED storeVars
  BY <1>a, RevokeReadStep
<1>2. \/ /\ Revoke(ServerOf(inst[w]), cred[w].user, cred[w].db, "read", TRUE)
         /\ GoesTo(w, "deleteUser")
      \/ /\ Revoke(ServerOf(inst[w]), cred[w].user, cred[w].db, "read", FALSE)
         /\ UnbindFailed(w)
  BY <1>a, RevokeReadStep, Zenon
<1>3. ServerOf(inst[w]) = cred[w].url
  BY <1>a, <1>1, HasDatabase, LabelFacts DEF UnbindLabels
<1>4. <<cred[w].url, cred[w].user>> \in users
  BY <1>1, HasUser DEF UserOf, UnbindLabels
<1>5. <<cred[w].url, cred[w].user, cred[w].db, "read">> \in grants
  BY <1>1, HasPermission DEF Permission, Holding, Actions
<1>6. ASSUME NEW reply, Revoke(ServerOf(inst[w]), cred[w].user, cred[w].db, "read", reply)
      PROVE  /\ reply = TRUE /\ UNCHANGED users
             /\ grants' = grants \ {Permission(cred[w], "read")}
  <2>1. /\ reply = TRUE /\ UNCHANGED users
        /\ grants' = grants \ {<<cred[w].url, cred[w].user, cred[w].db, "read">>}
    BY <1>a, <1>3, <1>4, <1>5, <1>6, FaultFree DEF Revoke, Replied, CallFails
  <2> QED BY <2>1 DEF Permission
<1>7. GoesTo(w, "deleteUser")
  BY <1>2, <1>6
<1>8. UNCHANGED users /\ grants' = grants \ {Permission(cred[w], "read")}
  BY <1>2, <1>6
<1>9. UnbindMoves(w) /\ pc'[w] = "deleteUser"
  BY <1>1, <1>7 DEF UnbindMoves, GoesTo, UnbindLabels, storeVars
<1> QED BY <1>8, <1>9, RevokeKeeps DEF Holding, UnbindLabels, Actions

(* RemoveUser ends an owner and its user together. *)
LEMMA RemoveUserKeeps ==
  ASSUME UsersInv, faults = 0, UNCHANGED faults, NEW w \in Workers, RemoveUser(w)
  PROVE  UsersKept'
<1>a. /\ TypeInv /\ BindingsInv /\ UsersKept /\ OneRequest /\ BindingKnown(w)
      /\ RowsDiffer /\ faults \in Nat
  BY UsersFacts DEF UsersKept
<1>1. /\ pc[w] = "deleteUser" /\ Same(w) /\ UNCHANGED storeVars
      /\ req[w].op \in {"remove", "unbind"}
  BY <1>a, RemoveUserStep
<1>2. \/ DeleteUser(ServerOf(inst[w]), cred[w].user, TRUE) /\ UnbindDone(w)
      \/ DeleteUser(ServerOf(inst[w]), cred[w].user, FALSE) /\ UnbindFailed(w)
  BY <1>a, RemoveUserStep, Zenon
<1>3. ServerOf(inst[w]) = cred[w].url
  BY <1>a, <1>1, HasDatabase, LabelFacts DEF UnbindLabels
<1>4. <<cred[w].url, cred[w].user>> \in users
  BY <1>1, HasUser DEF UserOf, UnbindLabels
<1>5. ASSUME NEW reply, DeleteUser(ServerOf(inst[w]), cred[w].user, reply)
      PROVE  /\ reply = TRUE /\ users' = users \ {<<cred[w].url, cred[w].user>>}
             /\ grants' = {p \in grants : ~(p[1] = cred[w].url /\ p[2] = cred[w].user)}
  BY <1>a, <1>3, <1>4, <1>5, FaultFree DEF DeleteUser, Replied, CallFails
<1>6. UnbindDone(w)
  BY <1>2, <1>5
<1>7. /\ users' = users \ {UserOf(cred[w])}
      /\ grants' = {p \in grants : ~(p[1] = cred[w].url /\ p[2] = cred[w].user)}
  BY <1>2, <1>5 DEF UserOf
<1>8. /\ Moves(w) /\ req'[w] = req[w] /\ UNCHANGED bindingRows
      /\ cred'[w] = cred[w] /\ todo'[w] = todo[w]
      /\ \/ req[w].op = "remove" /\ pc'[w] = "nextBinding"
         \/ req[w].op = "unbind" /\ pc'[w] = "done"
  BY <1>1, <1>6 DEF UnbindDone, GoesTo, Ends, Same, storeVars
<1>9. UnbindMoves(w) /\ pc'[w] \notin UnbindLabels
  BY <1>1, <1>8 DEF UnbindMoves, UnbindLabels
<1>10. PICK o \in UserOwners :
         /\ o.inst = req[w].inst /\ o.cred = cred[w]
         /\ \/ Holder(w) /\ o = BindingOf(w)
            \/ /\ ~Holder(w) /\ req[w].op = "remove" /\ o \in bindingRows
               /\ [guid |-> o.guid, cred |-> o.cred] \notin todo[w]
  BY <1>1, HoldsFor DEF UnbindLabels
<1>11. ASSUME NEW v \in Workers, v # w
       PROVE  /\ (Holder(v)' <=> Holder(v)) /\ BindingOf(v)' = BindingOf(v)
              /\ Holder(v) => BindingOf(v) # o
  <2>1. (Holder(v)' <=> Holder(v)) /\ BindingOf(v)' = BindingOf(v)
    BY <1>a, <1>8, <1>11, OthersUnbind
  <2>2. Holder(v) => pc[v] # "idle" /\ BindingOf(v).inst = req[v].inst
    BY DEF Holder, BindingOf, BoundLabels, UnbindLabels
  <2>3. Holder(v) => req[v].inst # req[w].inst
    BY <1>a, <1>1, <1>11, <2>2 DEF OneRequest
  <2> QED BY <1>10, <2>1, <2>2, <2>3
<1>12. ~Holder(w)'
  BY <1>8 DEF Holder, BoundLabels, UnbindLabels
<1>13. UserOwners' = UserOwners \ {o}
  <2>1. CASE req[w].op = "unbind"
    <3>1. Holder(w) /\ o = BindingOf(w) /\ Unbound(req[w].bind)
      BY <1>a, <1>1, <1>10, <2>1 DEF BindingKnown, UnbindLabels
    <3>2. o \notin bindingRows
      BY <3>1 DEF BindingOf, Unbound
    <3>3. {BindingOf(v) : v \in {u \in Workers : Holder(u)}}' =
            {BindingOf(v) : v \in {u \in Workers : Holder(u)}} \ {o}
      BY <1>11, <1>12, <3>1
    <3>4. \A r : UnboundBy(w, r)' <=> UnboundBy(w, r)
      BY <1>8, <2>1 DEF UnboundBy
    <3>5. {r \in bindingRows : ~BeingUnbound(r)}' = {r \in bindingRows : ~BeingUnbound(r)}
      BY <1>a, <1>8, <3>4, RecordsOwn
    <3> QED BY <3>2, <3>3, <3>5 DEF UserOwners
  <2>2. CASE req[w].op = "remove"
    <3>1. ~Holder(w)
      BY <1>1, <2>2 DEF Holder, BoundLabels
    <3>2. o \in bindingRows /\ [guid |-> o.guid, cred |-> o.cred] \notin todo[w]
      BY <1>10, <3>1
    <3>3. {BindingOf(v) : v \in {u \in Workers : Holder(u)}}' =
            {BindingOf(v) : v \in {u \in Workers : Holder(u)}} \ {o}
      BY <1>11, <1>12, <3>1
    <3>4. ASSUME NEW r \in bindingRows PROVE BeingUnbound(r)' <=> BeingUnbound(r) \/ r = o
      <4>1. CASE r = o
        <5>1. UnboundBy(w, o)'
          BY <1>8, <1>10, <2>2, <3>2 DEF UnboundBy, UnbindLabels
        <5> QED BY <4>1, <5>1 DEF BeingUnbound, UnboundBy
      <4>2. CASE r # o
        <5>1. r.inst = req[w].inst => r.cred # cred[w]
          BY <1>a, <1>10, <3>2, <3>4, <4>2 DEF RowsDiffer
        <5>2. UnboundBy(w, r)' <=> UnboundBy(w, r)
          BY <1>1, <1>8, <2>2, <5>1 DEF UnboundBy, UnbindLabels
        <5> QED BY <1>a, <1>8, <4>2, <5>2, UnboundStep
      <4> QED BY <4>1, <4>2
    <3>5. {r \in bindingRows : ~BeingUnbound(r)}' =
            {r \in bindingRows : ~BeingUnbound(r)} \ {o}
      BY <1>8, <3>4
    <3> QED BY <3>3, <3>5 DEF UserOwners
  <2> QED BY <1>1, <2>1, <2>2
<1>14. UsersServed' /\ UsersDiffer' /\ AllUsersOwned'
  BY <1>a, <1>7, <1>10, <1>13, OwnerGoes
<1>15. ASSUME NEW v \in Workers PROVE TakenFromList(v)'
  <2>1. CASE v = w
    BY <1>9, <2>1 DEF TakenFromList
  <2> QED BY <1>a, <1>8, <2>1, OthersTaken DEF UsersKept
<1>16. ASSUME NEW c \in Credentials, NEW a \in Actions, Owed(c, a)'
       PROVE  Owed(c, a) /\ (Permission(c, a) \in grants => Permission(c, a) \in grants')
  <2>1. pc'[w] \notin Holding(a)
    BY <1>8 DEF Holding
  <2>2. Owed(c, a) /\ UserOf(c) # UserOf(cred[w])
    BY <1>9, <1>16, <2>1, OwedApart
  <2>3. ~(c.url = cred[w].url /\ c.user = cred[w].user)
    BY <2>2 DEF UserOf
  <2>4. Permission(c, a)[1] = c.url /\ Permission(c, a)[2] = c.user
    BY DEF Permission
  <2> QED BY <1>7, <2>2, <2>3, <2>4
<1>17. Granted'
  BY <1>a, <1>16, GrantedStep
<1> QED BY <1>a, <1>8, <1>14, <1>15, <1>17, RowsStay DEF UsersKept

-----------------------------------------------------------------------------
(* UsersInv is an invariant. *)

(* Every step of a handler that does not fail keeps the users. *)
LEMMA UsersHandle ==
  ASSUME SqlSetting, UsersInv, DatabasesInv', faults = 0, UNCHANGED faults,
         NEW w \in Workers, Handle(w)
  PROVE  UsersKept'
<1> USE DEF storeVars, stardogVars
<1>a. TypeInv /\ UsersKept /\ faults \in Nat
  BY UsersFacts
<1>1. CASE CreateUnknownPlan(w)
  <2>1. Moves(w) /\ pc'[w] = "done" /\ pc[w] = "create"
    BY <1>a, <1>1, CreateUnknownPlanStep DEF Ends
  <2> QED BY <1>a, <1>1, <2>1, CreateUnknownPlanStep, UsersQuiet DEF BoundLabels, UnbindLabels
<1>2. CASE CreateExisting(w)
  <2>1. Moves(w) /\ pc'[w] = "done" /\ pc[w] = "create" /\ UNCHANGED <<users, grants>>
    BY <1>a, <1>2, CreateExistingStep DEF Ends
  <2>2. UNCHANGED bindingRows
    BY <1>a, <1>2, CreateExistingStep, LookupEffect
  <2> QED BY <1>a, <2>1, <2>2, UsersQuiet DEF BoundLabels, UnbindLabels
<1>3. CASE CreateNew(w)
  <2>1. /\ Moves(w) /\ pc'[w] \in {"createDb", "done"} /\ pc[w] = "create"
        /\ UNCHANGED <<users, grants>>
    BY <1>a, <1>3, CreateNewStep DEF Ends, GoesTo
  <2>2. UNCHANGED bindingRows
    BY <1>a, <1>3, CreateNewStep, LookupEffect
  <2> QED BY <1>a, <2>1, <2>2, UsersQuiet DEF BoundLabels, UnbindLabels
<1>4. CASE CreateDb(w)
  <2>1. Moves(w) /\ pc'[w] \in {"addInstance", "done"}
    BY <1>a, <1>4, CreateDbLeads DEF Ends, GoesTo
  <2>2. UNCHANGED bindingRows /\ pc[w] = "createDb"
    BY <1>a, <1>4, CreateDbStep
  <2>3. UNCHANGED <<users, grants>>
    BY <1>4, CreateDatabaseEffect DEF CreateDb
  <2> QED BY <1>a, <2>1, <2>2, <2>3, UsersQuiet DEF BoundLabels, UnbindLabels
<1>5. CASE StoreInstance(w)
  <2>1. /\ \E reply \in BOOLEAN : AddInstance(req[w].inst, inst[w], reply)
        /\ \E ok, code : Ends(w, code, ok)
    BY <1>a, <1>5, StoreInstanceStep, ZenonT(60)
  <2>2. Moves(w) /\ pc'[w] = "done"
    BY <2>1 DEF Ends
  <2>3. UNCHANGED bindingRows
    BY <2>1, AddInstanceEffect
  <2>4. pc[w] = "addInstance" /\ UNCHANGED <<users, grants>>
    BY <1>a, <1>5, StoreInstanceStep
  <2> QED BY <1>a, <2>2, <2>3, <2>4, UsersQuiet DEF BoundLabels, UnbindLabels
<1>6. CASE Get(w)
  <2>1. Moves(w) /\ pc'[w] = "done" /\ pc[w] = "get" /\ UNCHANGED <<users, grants>>
    BY <1>a, <1>6, GetStep DEF Ends
  <2>2. UNCHANGED bindingRows
    BY <1>a, <1>6, GetStep, LookupEffect
  <2> QED BY <1>a, <2>1, <2>2, UsersQuiet DEF BoundLabels, UnbindLabels
<1>7. CASE Remove(w)
  <2>1. /\ Moves(w) /\ pc'[w] \in {"listBindings", "done"} /\ pc[w] = "remove"
        /\ UNCHANGED <<users, grants>>
    BY <1>a, <1>7, RemoveStep DEF Ends, GoesTo
  <2>2. UNCHANGED bindingRows
    BY <1>a, <1>7, RemoveStep, LookupEffect
  <2> QED BY <1>a, <2>1, <2>2, UsersQuiet DEF BoundLabels, UnbindLabels
<1>8. CASE ListBindings(w)
  BY <1>8, ListBindingsKeeps
<1>9. CASE ListSomeBindings(w)
  BY <1>a, <1>9, ListSomeBindingsStep, FaultFree
<1>10. CASE NextBinding(w)
  BY <1>10, NextBindingKeeps
<1>11. CASE DeleteDb(w)
  BY <1>11, DeleteDbKeeps
<1>12. CASE EraseInstance(w)
  BY <1>12, EraseInstanceKeeps
<1>13. CASE Bind(w)
  <2>1. /\ Moves(w) /\ pc'[w] \in {"getBinding", "done"} /\ pc[w] = "bind"
        /\ UNCHANGED <<users, grants>>
    BY <1>a, <1>13, BindFirstStep DEF Ends, GoesTo
  <2>2. UNCHANGED bindingRows
    BY <1>a, <1>13, BindFirstStep, LookupEffect
  <2> QED BY <1>a, <2>1, <2>2, UsersQuiet DEF BoundLabels, UnbindLabels
<1>14. CASE FindBinding(w)
  <2>1. /\ Moves(w) /\ pc'[w] \in {"userExists", "done"} /\ pc[w] = "getBinding"
        /\ UNCHANGED <<users, grants>>
    BY <1>a, <1>14, FindBindingStep DEF Ends, GoesTo
  <2>2. UNCHANGED bindingRows
    BY <1>a, <1>14, FindBindingStep, ReadEffect
  <2> QED BY <1>a, <2>1, <2>2, UsersQuiet DEF BoundLabels, UnbindLabels
<1>15. CASE CheckUser(w)
  <2>1. Moves(w) /\ pc'[w] \in {"newUser", "done"}
    BY <1>a, <1>15, CheckUserLeads DEF Ends, GoesTo
  <2>2. pc[w] = "userExists" /\ UNCHANGED <<users, grants, bindingRows>>
    BY <1>a, <1>15, CheckUserStep
  <2> QED BY <1>a, <2>1, <2>2, UsersQuiet DEF BoundLabels, UnbindLabels
<1>16. CASE MakeUser(w)
  BY <1>16, MakeUserKeeps
<1>17. CASE GrantWrite(w)
  BY <1>17, GrantWriteKeeps
<1>18. CASE GrantRead(w)
  BY <1>18, GrantReadKeeps
<1>19. CASE CheckInstance(w)
  BY <1>19, CheckInstanceKeeps
<1>20. CASE StoreBinding(w)
  BY <1>20, StoreBindingKeeps
<1>21. CASE Unbind(w)
  <2>1. /\ Moves(w) /\ pc'[w] \in {"unbindGet", "done"} /\ pc[w] = "unbind"
        /\ UNCHANGED <<users, grants>>
    BY <1>a, <1>21, UnbindFirstStep DEF Ends, GoesTo
  <2>2. UNCHANGED bindingRows
    BY <1>a, <1>21, UnbindFirstStep, LookupEffect
  <2> QED BY <1>a, <2>1, <2>2, UsersQuiet DEF BoundLabels, UnbindLabels
<1>22. CASE UnbindGet(w)
  <2>1. /\ Moves(w) /\ pc'[w] \in {"deleteBinding", "done"} /\ pc[w] = "unbindGet"
        /\ UNCHANGED <<users, grants>>
    BY <1>a, <1>22, UnbindGetStep DEF Ends, GoesTo
  <2>2. UNCHANGED bindingRows
    BY <1>a, <1>22, UnbindGetStep, ReadEffect
  <2> QED BY <1>a, <2>1, <2>2, UsersQuiet DEF BoundLabels, UnbindLabels
<1>23. CASE EraseBinding(w)
  BY <1>23, EraseBindingKeeps
<1>24. CASE RevokeWrite(w)
  BY <1>24, RevokeWriteKeeps
<1>25. CASE RevokeRead(w)
  BY <1>25, RevokeReadKeeps
<1>26. CASE RemoveUser(w)
  BY <1>26, RemoveUserKeeps
<1> QED BY <1>1, <1>2, <1>3, <1>4, <1>5, <1>6, <1>7, <1>8, <1>9, <1>10, <1>11, <1>12,
           <1>13, <1>14, <1>15, <1>16, <1>17, <1>18, <1>19, <1>20, <1>21, <1>22, <1>23,
           <1>24, <1>25, <1>26 DEF Handle

(* So every step does. *)
LEMMA UsersNext ==
  ASSUME SqlSetting, UsersInv, [Next]_vars
  PROVE  UsersInv'
<1> USE DEF storeVars, stardogVars
<1>a. BindingsInv' /\ DatabasesInv' /\ TypeInv /\ faults \in Nat
  <2>1. BindingsInv' /\ TypeInv
    BY BindingsNext, BindingsFacts DEF UsersInv
  <2> QED BY <2>1, FaultAssumption DEF BindingsInv, TypeInv, TypeOK
<1> SUFFICES ASSUME faults' = 0 PROVE UsersKept'
  BY <1>a DEF UsersInv
<1>1. ASSUME NEW w \in Workers, Handle(w) PROVE UsersKept'
  <2>1. faults = 0 /\ UNCHANGED faults
    BY <1>a, <1>1, HandlerFaults, NoneYet
  <2> QED BY <1>a, <1>1, <2>1, UsersHandle
<1>2. ASSUME NEW w \in Workers, Panic(w) \/ Return(w) PROVE UsersKept'
  <2>1. /\ pc[w] \in Ops \cup {"listBindings", "addBinding", "done"} /\ Exit(w)
        /\ \/ Fault("storeBegin")
           \/ pc[w] = "done" /\ UNCHANGED faults
    BY <1>a, <1>2, EndStep
  <2>2. pc[w] = "done" /\ UNCHANGED faults /\ faults = 0
    BY <1>a, <2>1 DEF Fault
  <2>3. UNCHANGED <<users, grants, bindingRows>> /\ Moves(w) /\ pc'[w] = "idle"
    BY <1>a, <2>1, ExitStep
  <2> QED BY <2>2, <2>3, UsersFacts, UsersQuiet DEF BoundLabels, UnbindLabels
<1>3. ASSUME NEW w \in Workers, NEW r \in Requests, Receive(w, r) PROVE UsersKept'
  <2>1. /\ UNCHANGED <<users, grants, bindingRows, faults>> /\ Moves(w)
        /\ pc[w] = "idle" /\ pc'[w] \in Ops
    BY <1>a, <1>3, ReceiveStep
  <2> QED BY <2>1, UsersFacts, UsersQuiet DEF BoundLabels, UnbindLabels, Ops
<1>4. CASE Restart
  BY <1>a, <1>4 DEF Restart, Fault
<1>5. CASE UNCHANGED vars
  <2>1. UsersKept
    BY <1>5 DEF UsersInv, vars
  <2>2. /\ pc' = pc /\ req' = req /\ cred' = cred /\ todo' = todo /\ users' = users
        /\ bindingRows' = bindingRows /\ grants' = grants
    BY <1>5 DEF vars, locals
  <2>3. UserOwners' = UserOwners
    BY <2>2 DEF UserOwners, BeingUnbound, Holder, BindingOf
  <2>4. \A c, a : Owed(c, a)' <=> Owed(c, a)
    BY <2>2 DEF Owed, BeingUnbound, BeingRevoked, RevokedBy, UnbindsNow
  <2>5. \A w \in Workers : TakenFromList(w)'
    BY <2>1, <2>2 DEF UsersKept, TakenFromList, UnbindsNow
  <2>6. Granted'
    BY <2>1, <2>2, <2>4, GrantedStep
  <2> QED BY <2>1, <2>2, <2>3, <2>5, <2>6, UsersStay, RowsStay DEF UsersKept
<1> QED BY <1>1, <1>2, <1>3, <1>4, <1>5 DEF Next

-----------------------------------------------------------------------------
(* What the invariant says. *)

(* A handler holds a user of the broker. *)
LEMMA HeldOurs ==
  ASSUME BindingsInv, NEW w \in Workers, pc[w] \in BoundLabels \cup UnbindLabels
  PROVE  UserOf(cred[w]) \notin ExistingUsers
<1>a. HandlerOurs(w)
  BY DEF BindingsInv, DatabasesInv, RecordsInv, ForeignInv
<1>1. ServerOf(inst[w]) = Home[req[w].inst] /\ ServerOf(inst[w]) = cred[w].url
  BY <1>a, HasDatabase, LabelFacts DEF HandlerOurs, BoundLabels, UnbindLabels
<1>2. OwnUser(w, cred[w])
  BY <1>a, LabelFacts DEF HandlerOurs, BoundLabels, UnbindLabels, NewUserLabels
<1> QED BY <1>1, <1>2 DEF OwnUser, UserOf

(* Exactly one owner, or none, of every user. *)
LEMMA OneUserOwner ==
  ASSUME UsersInv
  PROVE  UserOwnership
<1> SUFFICES ASSUME faults = 0, NEW user \in Servers \X UserNames
             PROVE  Cardinality(BindingsOf(user)) + Cardinality(BindersOf(user))
                      + Cardinality(UnbindersOf(user)) =
                      IF user \in users \ ExistingUsers THEN 1 ELSE 0
  BY DEF UserOwnership
<1>a. /\ BindingsInv /\ UsersKept /\ RecordsOurs /\ \A w \in Workers : BindingKnown(w)
      /\ Cardinality({}) = 0 /\ \A x : Cardinality({x}) = 1
  BY UsersFacts, BindingsFacts, FS_EmptySet, FS_Singleton
<1>1. \A r \in BindingsOf(user) :
        r \in UserOwners /\ r \in bindingRows /\ UserOf(r.cred) = user
  BY DEF BindingsOf, UserOwners
<1>2. ASSUME NEW w \in BindersOf(user) \cup UnbindersOf(user)
      PROVE  /\ w \in Workers /\ pc[w] \in BoundLabels \cup UnbindLabels /\ Holder(w)
             /\ UserOf(cred[w]) = user
             /\ BindingOf(w) \in UserOwners /\ UserOf(BindingOf(w).cred) = user
             /\ BindingOf(w) \notin bindingRows
  <2>1. w \in Workers /\ Holder(w) /\ UserOf(cred[w]) = user
    BY DEF BindersOf, UnbindersOf, Holder
  <2>2. Unbound(req[w].bind)
    BY <1>a, <2>1 DEF BindingKnown, Holder
  <2>3. BindingOf(w) \notin bindingRows /\ BindingOf(w).cred = cred[w]
    BY <2>2 DEF BindingOf, Unbound
  <2> QED BY <2>1, <2>3 DEF UserOwners, Holder
<1>3. BindersOf(user) \cap UnbindersOf(user) = {}
  BY DEF BindersOf, UnbindersOf, BoundLabels, UnbindLabels
<1>4. CASE user \in users \ ExistingUsers
  <2>1. PICK o \in UserOwners : UserOf(o.cred) = user
    BY <1>a, <1>4 DEF UsersKept, AllUsersOwned
  <2>2. \A q \in UserOwners : UserOf(q.cred) = user => q = o
    BY <1>a, <2>1 DEF UsersKept, UsersDiffer
  <2>3. CASE o \in bindingRows /\ ~BeingUnbound(o)
    <3>1. BindingsOf(user) = {o}
      BY <1>1, <2>1, <2>2, <2>3 DEF BindingsOf
    <3>2. BindersOf(user) = {} /\ UnbindersOf(user) = {}
      BY <1>2, <2>2, <2>3
    <3>3. /\ Cardinality(BindingsOf(user)) = 1
          /\ Cardinality(BindersOf(user)) = 0
          /\ Cardinality(UnbindersOf(user)) = 0
      BY <1>a, <3>1, <3>2
    <3> QED BY <1>4, <3>3
  <2>4. ASSUME NEW w \in Workers, Holder(w), o = BindingOf(w)
        PROVE  Cardinality(BindingsOf(user)) + Cardinality(BindersOf(user))
                 + Cardinality(UnbindersOf(user)) = 1
    <3>1. UserOf(cred[w]) = user
      BY <2>1, <2>4 DEF BindingOf
    <3>2. w \in BindersOf(user) \/ w \in UnbindersOf(user)
      BY <2>4, <3>1 DEF Holder, BindersOf, UnbindersOf
    <3>3. BindingsOf(user) = {}
      BY <1>1, <1>2, <2>2, <2>4, <3>2
    <3>4. \A v \in BindersOf(user) \cup UnbindersOf(user) : v = w
      BY <1>2, <3>2, HoldsApart
    <3>5. CASE w \in BindersOf(user)
      <4>1. BindersOf(user) = {w} /\ UnbindersOf(user) = {}
        BY <1>3, <3>4, <3>5
      <4>2. /\ Cardinality(BindingsOf(user)) = 0
            /\ Cardinality(BindersOf(user)) = 1
            /\ Cardinality(UnbindersOf(user)) = 0
        BY <1>a, <3>3, <4>1
      <4> QED BY <4>2
    <3>6. CASE w \in UnbindersOf(user)
      <4>1. BindersOf(user) = {} /\ UnbindersOf(user) = {w}
        BY <1>3, <3>4, <3>6
      <4>2. /\ Cardinality(BindingsOf(user)) = 0
            /\ Cardinality(BindersOf(user)) = 0
            /\ Cardinality(UnbindersOf(user)) = 1
        BY <1>a, <3>3, <4>1
      <4> QED BY <4>2
    <3> QED BY <3>2, <3>5, <3>6
  <2> QED BY <1>4, <2>1, <2>3, <2>4 DEF UserOwners
<1>5. CASE user \notin users
  <2>1. \A q \in UserOwners : UserOf(q.cred) # user
    BY <1>a, <1>5 DEF UsersKept, UsersServed
  <2>2. BindingsOf(user) = {} /\ BindersOf(user) = {} /\ UnbindersOf(user) = {}
    BY <1>1, <1>2, <2>1
  <2> QED BY <1>a, <1>5, <2>2
<1>6. CASE user \in ExistingUsers
  <2>1. BindingsOf(user) = {}
    BY <1>a, <1>1, <1>6 DEF RecordsOurs
  <2>2. BindersOf(user) = {} /\ UnbindersOf(user) = {}
    BY <1>a, <1>2, <1>6, HeldOurs
  <2> QED BY <1>a, <1>6, <2>1, <2>2
<1> QED BY <1>4, <1>5, <1>6

(* The credentials of an answered Bind open the database. *)
LEMMA AccessGiven ==
  ASSUME UsersInv, faults = 0
  PROVE  BindGivesAccess
<1> SUFFICES ASSUME NEW w \in Workers, Answered(w, "bind", {200, 201}),
                    NEW c \in RecordedBindings(req[w].inst, req[w].bind), NEW a \in Actions
             PROVE  <<c.url, c.db>> \in databases /\ <<c.url, c.user, c.db, a>> \in grants
  BY DEF BindGivesAccess
<1>a. /\ TypeInv /\ OneRequest /\ UsersKept /\ ForeignKey /\ BindingsFit /\ OwnersServed
      /\ pc[w] = "done"
  BY UsersFacts DEF BindingsInv, DatabasesInv, Answered
<1>1. PICK r \in bindingRows : r.inst = req[w].inst /\ r.cred = c
  BY DEF RecordedBindings
<1>2. PICK i \in instanceRows : i.guid = r.inst
  BY <1>a DEF ForeignKey, Unrecorded
<1>3. PlaceOf(c) = DatabaseOf(i.data)
  BY <1>a, <1>1, <1>2 DEF BindingsFit
<1>4. ~BeingErased(i)
  BY <1>a, <1>1, <1>2 DEF BeingErased, OneRequest
<1>5. PlaceOf(c) \in databases
  BY <1>a, <1>3, <1>4 DEF OwnersServed, Owners
<1>6. ~UnboundBy(w, r) /\ ~RevokedBy(w, r)
  BY <1>a DEF UnboundBy, RevokedBy, UnbindsNow, UnbindLabels
<1>7. ~BeingUnbound(r) /\ ~BeingRevoked(r)
  BY <1>a, <1>1, <1>6, UnboundAlone
<1>8. Owed(c, a)
  BY <1>1, <1>7 DEF Owed
<1>9. c \in Credentials
  BY <1>a, <1>1 DEF TypeInv, TypeOK, StoreOK
<1>10. Permission(c, a) \in grants
  BY <1>a, <1>8, <1>9 DEF UsersKept, Granted
<1> QED BY <1>5, <1>10 DEF PlaceOf, Permission

-----------------------------------------------------------------------------
(***************************************************************************)
(* On the SQL store, with one request at a time per instance and calls     *)
(* that have no effect when they fail: until the first fault every user    *)
(* the broker made on a Stardog server belongs to exactly one binding      *)
(* record, one Bind about to record it or one UnBind about to delete it,   *)
(* and each of these has its user.  Bind of the plans makes the user       *)
(* before the controller records the binding, UnBind of the controller     *)
(* drops the record before the plan deletes the user.                      *)
(***************************************************************************)
THEOREM UsersOwned == SqlSetting => (Spec => []UserOwnership)
<1> SUFFICES ASSUME SqlSetting PROVE Spec => []UserOwnership
  OBVIOUS
<1>1. Init => UsersInv
  BY UsersInit
<1>2. UsersInv /\ [Next]_vars => UsersInv'
  BY UsersNext
<1>3. UsersInv => UserOwnership
  BY OneUserOwner
<1> QED BY <1>1, <1>2, <1>3, PTL DEF Spec

(***************************************************************************)
(* In the same setting every answer of a handler is true of the records    *)
(* while the platform has not sent another request for the instance, and,  *)
(* until the first fault, the credentials of a Bind answered 200 or 201    *)
(* open the database of its instance.                                      *)
(***************************************************************************)
THEOREM AnswersAreTrue == SqlSetting => (Spec => []AnswersTrue)
<1> SUFFICES ASSUME SqlSetting PROVE Spec => []AnswersTrue
  OBVIOUS
<1>1. Init => UsersInv
  BY UsersInit
<1>2. UsersInv /\ [Next]_vars => UsersInv'
  BY UsersNext
<1>3. UsersInv => AnswersTrue
  BY RecordsAnswered, AccessGiven DEF UsersInv, AnswersTrue
<1> QED BY <1>1, <1>2, <1>3, PTL DEF Spec
=============================================================================
