------------------------------ MODULE LeakProofs ------------------------------
(***************************************************************************)
(* Proof that a call that fails leaves at most one database or user behind *)
(* with no record of it, for a broker on the SQL store and a platform that *)
(* has one request at a time outstanding per instance and one binding per  *)
(* instance, however many calls fail and however often requests repeat.    *)
(***************************************************************************)
EXTENDS UserProofs

(* One binding GUID per instance: a removal that breaks off strands one user at most. *)
LeakSetting ==
  /\ SqlSetting
  /\ \A b, c \in Bindings : InstanceOf[b] = InstanceOf[c] => b = c

-----------------------------------------------------------------------------
(* The inductive invariant. *)

(* RemoveServiceInstance has the binding behind it or in hand. *)
PastBy(w, r) ==
  /\ pc[w] \in UnbindLabels \cup {"nextBinding", "deleteDb", "deleteInstance"}
  /\ req[w].op = "remove" /\ req[w].inst = r.inst
  /\ [guid |-> r.guid, cred |-> r.cred] \notin todo[w]

(* A record from which Plan.UnBind will get to the user if no call fails, ... *)
RowKeeps(r) ==
  /\ \A w \in Workers : ~PastBy(w, r)
  /\ \A a \in Actions : Permission(r.cred, a) \in grants

(* ... and a handler that will get to it, or record it. *)
WorkerKeeps(w) ==
  /\ pc[w] \in BoundLabels \cup UnbindLabels
  /\ \A a \in Actions : pc[w] \in Holding(a) => Permission(cred[w], a) \in grants

KeptFor(g, c) ==
  \/ \E r \in bindingRows : r.inst = g /\ r.cred = c /\ RowKeeps(r)
  \/ \E w \in Workers : WorkerKeeps(w) /\ req[w].inst = g /\ cred[w] = c

(***************************************************************************)
(* The users that are lost or will be without a further fault.  A fault    *)
(* adds one: at the fault itself, which may be long before the user loses  *)
(* its record.  That is why LeaksBounded alone is not inductive.           *)
(***************************************************************************)
Forsaken ==
  {user \in users \ ExistingUsers :
     \A g \in Instances, c \in Credentials : KeptFor(g, c) => UserOf(c) # user}

LeaksInv ==
  /\ BindingsInv
  /\ \A w \in Workers : TakenFromList(w)
  /\ IsFiniteSet(Forsaken) /\ Cardinality(Forsaken) <= faults

-----------------------------------------------------------------------------
(* Counting *)

(* Initially there is no user of the broker. *)
LEMMA LeaksInit == Init => LeaksInv
<1> SUFFICES ASSUME Init PROVE LeaksInv
  OBVIOUS
<1>1. users = ExistingUsers /\ faults = 0 /\ \A w \in Workers : pc[w] = "idle"
  BY DEF Init
<1>2. Forsaken = {}
  BY <1>1 DEF Forsaken
<1>3. IsFiniteSet(Forsaken) /\ Cardinality(Forsaken) = 0
  BY <1>2, FS_EmptySet
<1> QED BY <1>1, <1>3, BindingsInit DEF LeaksInv, TakenFromList, UnbindLabels

(* The facts a step starts from. *)
LEMMA LeaksFacts ==
  ASSUME LeaksInv
  PROVE  /\ TypeInv /\ BindingsInv /\ OneRequest /\ RecordsOurs /\ OneBinding
         /\ faults \in Nat
         /\ \A w \in Workers : BindingKnown(w) /\ ListedKnown(w) /\ InstanceKnown(w)
         /\ \A w \in Workers : TakenFromList(w)
<1>1. TypeInv /\ faults \in Nat
  BY BindingsFacts, FaultAssumption DEF LeaksInv, TypeInv, TypeOK
<1> QED BY <1>1, BindingsFacts DEF LeaksInv, BindingsInv

(* A step that adds nothing without a fault and one user at most keeps the count. *)
LEMMA Counted ==
  ASSUME IsFiniteSet(Forsaken), Cardinality(Forsaken) <= faults, faults \in Nat, MayFault,
         UNCHANGED faults => Forsaken' \subseteq Forsaken,
         \E u : Forsaken' \subseteq Forsaken \cup {u}
  PROVE  IsFiniteSet(Forsaken') /\ Cardinality(Forsaken') <= faults'
<1>1. PICK u : Forsaken' \subseteq Forsaken \cup {u}
  OBVIOUS
<1>2. Cardinality(Forsaken) \in Nat
  BY FS_CardinalityType
<1>3. /\ IsFiniteSet(Forsaken \cup {u})
      /\ Cardinality(Forsaken \cup {u}) \in Nat
      /\ Cardinality(Forsaken \cup {u}) <= Cardinality(Forsaken) + 1
  <2>1. /\ IsFiniteSet(Forsaken \cup {u})
        /\ \/ Cardinality(Forsaken \cup {u}) = Cardinality(Forsaken)
           \/ Cardinality(Forsaken \cup {u}) = Cardinality(Forsaken) + 1
    BY FS_AddElement
  <2> QED BY <1>2, <2>1
<1>4. /\ IsFiniteSet(Forsaken') /\ Cardinality(Forsaken') \in Nat
      /\ Cardinality(Forsaken') <= Cardinality(Forsaken \cup {u})
  BY <1>1, <1>3, FS_Subset, FS_CardinalityType
<1>5. CASE UNCHANGED faults
  <2>1. Cardinality(Forsaken') <= Cardinality(Forsaken)
    BY <1>5, FS_Subset
  <2> QED BY <1>2, <1>4, <1>5, <2>1
<1>6. CASE faults' = faults + 1
  BY <1>2, <1>3, <1>4, <1>6
<1> QED BY <1>5, <1>6 DEF MayFault

-----------------------------------------------------------------------------
(* Who keeps a user. *)

(* What is kept for the instance of a request is kept by its handler or a record. *)
LEMMA OwnKept ==
  ASSUME OneRequest, NEW w \in Workers, pc[w] # "idle", NEW c, KeptFor(req[w].inst, c)
  PROVE  \/ \E r \in bindingRows :
              /\ r.inst = req[w].inst /\ r.cred = c /\ ~PastBy(w, r)
              /\ \A a \in Actions : Permission(c, a) \in grants
         \/ WorkerKeeps(w) /\ cred[w] = c
<1>1. ASSUME NEW v \in Workers, WorkerKeeps(v), req[v].inst = req[w].inst PROVE v = w
  <2>1. pc[v] # "idle"
    BY <1>1 DEF WorkerKeeps, BoundLabels, UnbindLabels
  <2> QED BY <1>1, <2>1 DEF OneRequest
<1>2. CASE \E r \in bindingRows : r.inst = req[w].inst /\ r.cred = c /\ RowKeeps(r)
  BY <1>2 DEF RowKeeps
<1> QED BY <1>1, <1>2 DEF KeptFor

(* Its rows are kept after a step when its handler is not past them. *)
LEMMA OwnRowKept ==
  ASSUME TypeInv, OneRequest, NEW w \in Workers, pc[w] # "idle", Moves(w), req'[w] = req[w],
         NEW r \in bindingRows', r.inst = req[w].inst, ~PastBy(w, r)',
         \A a \in Actions : Permission(r.cred, a) \in grants'
  PROVE  KeptFor(req[w].inst, r.cred)'
<1>1. ASSUME NEW v \in Workers, PastBy(v, r)' PROVE v = w
  <2>1. CASE v # w
    <3>1. pc[v] # "idle" /\ req[v].inst = r.inst
      BY <1>1, <2>1, OthersStay DEF PastBy, UnbindLabels
    <3> QED BY <3>1 DEF OneRequest
  <2> QED BY <2>1
<1>2. RowKeeps(r)'
  BY <1>1 DEF RowKeeps, Permission
<1>3. req'[w].inst = req[w].inst
  OBVIOUS
<1> QED BY <1>2, <1>3 DEF KeptFor

(* It has one record in the setting, ... *)
LEMMA OneRow ==
  ASSUME LeakSetting, LeaksInv, NEW r \in bindingRows, NEW q \in bindingRows, r.inst = q.inst
  PROVE  r = q
<1>a. TypeInv /\ RecordsOurs /\ OneBinding
  BY LeaksFacts
<1>1. r.guid \in Bindings /\ q.guid \in Bindings
  BY <1>a DEF TypeInv, TypeOK, StoreOK
<1>2. InstanceOf[r.guid] = InstanceOf[q.guid]
  BY <1>a DEF RecordsOurs
<1> QED BY <1>a, <1>1, <1>2 DEF LeakSetting, OneBinding

(* ... which a handler that has a user is past, ... *)
LEMMA RowsPast ==
  ASSUME LeakSetting, LeaksInv, NEW w \in Workers, pc[w] \in BoundLabels \cup UnbindLabels,
         NEW r \in bindingRows, r.inst = req[w].inst
  PROVE  PastBy(w, r)
<1>a. TypeInv /\ RecordsOurs /\ BindingKnown(w) /\ TakenFromList(w)
  BY LeaksFacts
<1>1. CASE req[w].op \in {"bind", "unbind"}
  <2>1. Unbound(req[w].bind)
    BY <1>a, <1>1, OpAt DEF BindingKnown, BoundLabels, UnbindLabels
  <2>2. req[w].inst = InstanceOf[req[w].bind] /\ req[w].bind \in Bindings
    BY <1>a, <1>1, RequestOf, Serving, BrokerAssumption
       DEF WellFormed, Request, BoundLabels, UnbindLabels
  <2>3. r.guid \in Bindings /\ InstanceOf[r.guid] = r.inst
    BY <1>a DEF TypeInv, TypeOK, StoreOK, RecordsOurs
  <2> QED BY <2>1, <2>2, <2>3 DEF Unbound, LeakSetting
<1>2. CASE pc[w] \in UnbindLabels /\ req[w].op = "remove"
  <2>1. PICK q \in bindingRows :
          UnbindsNow(w, q) /\ [guid |-> q.guid, cred |-> q.cred] \notin todo[w]
    BY <1>a, <1>2 DEF TakenFromList
  <2>2. q = r
    BY <2>1, OneRow DEF UnbindsNow
  <2> QED BY <1>2, <2>1, <2>2 DEF PastBy
<1>3. req[w].op \in {"bind", "unbind"} \/ (pc[w] \in UnbindLabels /\ req[w].op = "remove")
  BY <1>a, OpAt DEF BoundLabels, UnbindLabels
<1> QED BY <1>1, <1>2, <1>3

(* ... so that one user is kept. *)
LEMMA OneKept ==
  ASSUME LeakSetting, LeaksInv, NEW w \in Workers, pc[w] # "idle",
         NEW c, KeptFor(req[w].inst, c), NEW d, KeptFor(req[w].inst, d)
  PROVE  c = d
<1>1. \/ \E r \in bindingRows : r.inst = req[w].inst /\ r.cred = c /\ ~PastBy(w, r)
      \/ WorkerKeeps(w) /\ cred[w] = c
  BY LeaksFacts, OwnKept
<1>2. \/ \E r \in bindingRows : r.inst = req[w].inst /\ r.cred = d /\ ~PastBy(w, r)
      \/ WorkerKeeps(w) /\ cred[w] = d
  BY LeaksFacts, OwnKept
<1>3. WorkerKeeps(w) => \A r \in bindingRows : r.inst = req[w].inst => PastBy(w, r)
  BY RowsPast DEF WorkerKeeps
<1> QED BY <1>1, <1>2, <1>3, OneRow

(* Another instance keeps what it keeps, when its permissions stay. *)
LEMMA OthersKept ==
  ASSUME TypeInv, OneRequest, NEW w \in Workers, pc[w] # "idle", Moves(w), req'[w] = req[w],
         OwnBindings(w), NEW g, g # req[w].inst, NEW c, KeptFor(g, c),
         \A a \in Actions : Permission(c, a) \in grants => Permission(c, a) \in grants'
  PROVE  KeptFor(g, c)'
<1>1. CASE \E r \in bindingRows : r.inst = g /\ r.cred = c /\ RowKeeps(r)
  <2>1. PICK r \in bindingRows : r.inst = g /\ r.cred = c /\ RowKeeps(r)
    BY <1>1
  <2>2. r \in bindingRows'
    BY <2>1 DEF OwnBindings
  <2>3. ASSUME NEW v \in Workers PROVE ~PastBy(v, r)'
    <3>1. CASE v = w
      BY <2>1, <3>1 DEF PastBy
    <3>2. CASE v # w
      BY <2>1, <3>2, OthersStay DEF PastBy, RowKeeps
    <3> QED BY <3>1, <3>2
  <2>4. RowKeeps(r)'
    BY <2>1, <2>3 DEF RowKeeps, Permission
  <2> QED BY <2>1, <2>2, <2>4 DEF KeptFor
<1>2. CASE \E v \in Workers : WorkerKeeps(v) /\ req[v].inst = g /\ cred[v] = c
  <2>1. PICK v \in Workers : WorkerKeeps(v) /\ req[v].inst = g /\ cred[v] = c
    BY <1>2
  <2>2. pc'[v] = pc[v] /\ req'[v] = req[v] /\ cred'[v] = cred[v]
    BY <2>1, OthersStay
  <2>3. WorkerKeeps(v)'
    BY <2>1, <2>2 DEF WorkerKeeps, Permission
  <2> QED BY <2>1, <2>2, <2>3 DEF KeptFor
<1> QED BY <1>1, <1>2 DEF KeptFor

(* It keeps users of another database than the one a handler takes permissions on. *)
LEMMA PlacesApart ==
  ASSUME BindingsInv, NEW w \in Workers, pc[w] \in UnbindLabels,
         NEW g, g # req[w].inst, NEW c, KeptFor(g, c)
  PROVE  PlaceOf(c) # PlaceOf(cred[w])
<1>a. /\ TypeInv /\ OneRequest /\ OwnersDiffer
      /\ \A v \in Workers : InstanceKnown(v) /\ BindingKnown(v) /\ ListedKnown(v)
      /\ ForeignKey /\ BindingsFit
  BY BindingsFacts DEF BindingsInv, DatabasesInv
<1>1. ASSUME NEW v \in Workers, pc[v] \in BoundLabels \cup UnbindLabels
      PROVE  /\ RecordOf(v) \in Owners /\ RecordOf(v).guid = req[v].inst
             /\ DatabaseOf(RecordOf(v).data) = PlaceOf(cred[v])
  <2>1. /\ RecordOf(v) \in instanceRows /\ RecordOf(v).guid = req[v].inst
        /\ RecordOf(v).data = inst[v]
    BY <1>a, <1>1, LabelFacts DEF InstanceKnown, RecordOf, BoundLabels, UnbindLabels
  <2>2. ~BeingErased(RecordOf(v))
    BY <1>a, <1>1, <2>1 DEF BeingErased, OneRequest, BoundLabels, UnbindLabels
  <2>3. PlaceOf(cred[v]) = DatabaseOf(inst[v])
    BY <1>a, <1>1 DEF BindingKnown
  <2> QED BY <2>1, <2>2, <2>3 DEF Owners
<1>2. \E o \in Owners : o.guid = g /\ DatabaseOf(o.data) = PlaceOf(c)
  <2>1. CASE \E r \in bindingRows : r.inst = g /\ r.cred = c /\ RowKeeps(r)
    <3>1. PICK r \in bindingRows : r.inst = g /\ r.cred = c /\ RowKeeps(r)
      BY <2>1
    <3>2. PICK i \in instanceRows : i.guid = g
      BY <1>a, <3>1 DEF ForeignKey, Unrecorded
    <3>3. DatabaseOf(i.data) = PlaceOf(c)
      BY <1>a, <3>1, <3>2 DEF BindingsFit
    <3>4. ASSUME NEW v \in Workers, pc[v] = "deleteInstance", req[v].inst = g PROVE FALSE
      <4>1. req[v].op = "remove" /\ todo[v] = {}
        BY <1>a, <3>4, OpAt DEF ListedKnown, UnbindLabels
      <4> QED BY <3>1, <3>4, <4>1 DEF RowKeeps, PastBy
    <3>5. ~BeingErased(i)
      BY <3>2, <3>4 DEF BeingErased
    <3> QED BY <3>2, <3>3, <3>5 DEF Owners
  <2>2. CASE \E v \in Workers : WorkerKeeps(v) /\ req[v].inst = g /\ cred[v] = c
    BY <1>1, <2>2 DEF WorkerKeeps
  <2> QED BY <2>1, <2>2 DEF KeptFor
<1>3. PICK o \in Owners : o.guid = g /\ DatabaseOf(o.data) = PlaceOf(c)
  BY <1>2
<1> QED BY <1>a, <1>1, <1>3 DEF OwnersDiffer

-----------------------------------------------------------------------------
(* What a step may cost. *)

(* Nothing without a fault, one user with one, and nobody's place in a list. *)
Spares(w) ==
  /\ UNCHANGED faults => Forsaken' \subseteq Forsaken
  /\ \E u : Forsaken' \subseteq Forsaken \cup {u}
  /\ \A v \in Workers : TakenFromList(v)'

(* Whoever is kept as long as there is the user is not forsaken. *)
LEMMA ForsakenStill ==
  ASSUME users' \subseteq users,
         \A g \in Instances, c \in Credentials :
           KeptFor(g, c) /\ UserOf(c) \in users' => KeptFor(g, c)'
  PROVE  Forsaken' \subseteq Forsaken
<1>1. \A c : UserOf(c)' = UserOf(c)
  BY DEF UserOf
<1> QED BY <1>1 DEF Forsaken

(* A handler that has unbound nothing gives up what it keeps itself at most. *)
LEMMA LeavesKept ==
  ASSUME TypeInv, NEW w \in Workers, Moves(w), UNCHANGED <<bindingRows, grants>>,
         pc'[w] \notin UnbindLabels \cup {"nextBinding", "deleteDb", "deleteInstance"},
         NEW g, NEW c, KeptFor(g, c)
  PROVE  KeptFor(g, c)' \/ (WorkerKeeps(w) /\ cred[w] = c)
<1>1. ASSUME NEW v \in Workers, NEW r, PastBy(v, r)' PROVE PastBy(v, r)
  <2>1. CASE v = w
    BY <1>1, <2>1 DEF PastBy
  <2>2. CASE v # w
    BY <1>1, <2>2, OthersStay DEF PastBy
  <2> QED BY <2>1, <2>2
<1>2. CASE \E r \in bindingRows : r.inst = g /\ r.cred = c /\ RowKeeps(r)
  <2>1. PICK r \in bindingRows : r.inst = g /\ r.cred = c /\ RowKeeps(r)
    BY <1>2
  <2>2. RowKeeps(r)'
    BY <1>1, <2>1 DEF RowKeeps, Permission
  <2> QED BY <2>1, <2>2 DEF KeptFor
<1>3. CASE \E v \in Workers : WorkerKeeps(v) /\ req[v].inst = g /\ cred[v] = c
  <2>1. PICK v \in Workers : WorkerKeeps(v) /\ req[v].inst = g /\ cred[v] = c
    BY <1>3
  <2>2. CASE v # w
    <3>1. pc'[v] = pc[v] /\ req'[v] = req[v] /\ cred'[v] = cred[v]
      BY <2>2, OthersStay
    <3>2. WorkerKeeps(v)'
      BY <2>1, <3>1 DEF WorkerKeeps, Permission
    <3> QED BY <2>1, <3>1, <3>2 DEF KeptFor
  <2> QED BY <2>1, <2>2
<1> QED BY <1>2, <1>3 DEF KeptFor

(* Nobody's place in a list changes when no record does. *)
LEMMA TakenStill ==
  ASSUME LeaksInv, NEW w \in Workers, Moves(w), UNCHANGED bindingRows, TakenFromList(w)'
  PROVE  \A v \in Workers : TakenFromList(v)'
<1>1. ASSUME NEW v \in Workers, v # w PROVE TakenFromList(v)'
  BY <1>1, OthersTaken, LeaksFacts
<1> QED BY <1>1

(* A step that is not about users costs nothing. *)
LEMMA QuietSpares ==
  ASSUME LeaksInv, NEW w \in Workers, Moves(w), UNCHANGED <<bindingRows, users, grants>>,
         {pc[w], pc'[w]} \cap (BoundLabels \cup UnbindLabels \cup
            {"nextBinding", "deleteDb", "deleteInstance"}) = {}
  PROVE  Spares(w)
<1>1. ASSUME NEW g, NEW c, KeptFor(g, c) PROVE KeptFor(g, c)'
  <2>1. ~WorkerKeeps(w)
    BY DEF WorkerKeeps
  <2> QED BY <1>1, <2>1, LeavesKept, LeaksFacts
<1>2. Forsaken' \subseteq Forsaken
  BY <1>1, ForsakenStill
<1>3. TakenFromList(w)'
  BY DEF TakenFromList
<1> QED BY <1>2, <1>3, TakenStill DEF Spares

(* A step of a handler costs nothing when the instance keeps what it kept, ... *)
LEMMA StepSpares ==
  ASSUME LeakSetting, LeaksInv, NEW w \in Workers, pc[w] # "idle", Moves(w),
         req'[w] = req[w], OwnBindings(w), users' \subseteq users,
         \A c, a : /\ Permission(c, a) \in grants /\ UserOf(c) \in users'
                   /\ PlaceOf(c) # PlaceOf(cred[w]) \/ pc[w] \notin UnbindLabels
                   => Permission(c, a) \in grants',
         \A c : UNCHANGED faults /\ KeptFor(req[w].inst, c) /\ UserOf(c) \in users'
                  => KeptFor(req[w].inst, c)',
         TakenFromList(w)'
  PROVE  Spares(w)
<1>a. TypeInv /\ OneRequest /\ BindingsInv
  BY LeaksFacts
<1>1. ASSUME NEW g, NEW c, g # req[w].inst, KeptFor(g, c), UserOf(c) \in users'
      PROVE  KeptFor(g, c)'
  <2>1. PlaceOf(c) # PlaceOf(cred[w]) \/ pc[w] \notin UnbindLabels
    BY <1>a, <1>1, PlacesApart
  <2>2. \A a \in Actions : Permission(c, a) \in grants => Permission(c, a) \in grants'
    BY <1>1, <2>1
  <2> QED BY <1>a, <1>1, <2>2, OthersKept
<1>2. ASSUME UNCHANGED faults PROVE Forsaken' \subseteq Forsaken
  BY <1>1, <1>2, ForsakenStill
<1>3. \E u : Forsaken' \subseteq Forsaken \cup {u}
  <2>1. \A c : UserOf(c)' = UserOf(c)
    BY DEF UserOf
  <2>2. CASE \E c : KeptFor(req[w].inst, c)
    <3>1. PICK d : KeptFor(req[w].inst, d)
      BY <2>2
    <3>2. \A c : KeptFor(req[w].inst, c) => c = d
      BY <3>1, OneKept
    <3>3. ASSUME NEW user \in Forsaken', user # UserOf(d) PROVE user \in Forsaken
      <4>1. user \in users' /\ user \in users \ ExistingUsers
        BY <3>3 DEF Forsaken
      <4>2. ASSUME NEW g \in Instances, NEW c \in Credentials, KeptFor(g, c), UserOf(c) = user
            PROVE  FALSE
        <5>1. g # req[w].inst
          BY <3>2, <3>3, <4>2
        <5>2. KeptFor(g, c)'
          BY <1>1, <4>1, <4>2, <5>1
        <5> QED BY <2>1, <3>3, <4>2, <5>2 DEF Forsaken
      <4> QED BY <4>1, <4>2 DEF Forsaken
    <3> QED BY <3>3
  <2>3. CASE \A c : ~KeptFor(req[w].inst, c)
    <3>1. ASSUME NEW g \in Instances, NEW c \in Credentials, KeptFor(g, c), UserOf(c) \in users'
          PROVE  KeptFor(g, c)'
      BY <1>1, <2>3, <3>1
    <3>2. Forsaken' \subseteq Forsaken
      BY <3>1, ForsakenStill
    <3> QED BY <3>2
  <2> QED BY <2>2, <2>3
<1>4. ASSUME NEW v \in Workers PROVE TakenFromList(v)'
  <2>1. CASE v = w
    BY <2>1
  <2> QED BY <1>a, <2>1, OthersTaken, LeaksFacts
<1> QED BY <1>2, <1>3, <1>4 DEF Spares

(* ... in particular when its handler, which has the user, keeps it. *)
LEMMA HeldSpares ==
  ASSUME LeakSetting, LeaksInv, NEW w \in Workers, pc[w] \in BoundLabels \cup UnbindLabels,
         Moves(w), Same(w), req'[w] = req[w], UNCHANGED bindingRows, users' \subseteq users,
         pc[w] \in BoundLabels => pc'[w] \notin UnbindLabels,
         \A c, a : /\ Permission(c, a) \in grants /\ UserOf(c) \in users'
                   /\ PlaceOf(c) # PlaceOf(cred[w]) \/ pc[w] \notin UnbindLabels
                   => Permission(c, a) \in grants',
         UNCHANGED faults /\ UserOf(cred[w]) \in users' /\ WorkerKeeps(w) => WorkerKeeps(w)'
  PROVE  Spares(w)
<1>a. TypeInv /\ OneRequest /\ TakenFromList(w) /\ pc[w] # "idle"
  BY LeaksFacts DEF BoundLabels, UnbindLabels
<1>1. ASSUME UNCHANGED faults, NEW c, KeptFor(req[w].inst, c), UserOf(c) \in users'
      PROVE  KeptFor(req[w].inst, c)'
  <2>1. WorkerKeeps(w) /\ cred[w] = c
    BY <1>a, <1>1, OwnKept, RowsPast
  <2>2. WorkerKeeps(w)' /\ cred'[w] = c
    BY <1>1, <2>1 DEF Same
  <2> QED BY <2>2 DEF KeptFor
<1>2. TakenFromList(w)'
  <2> SUFFICES ASSUME pc'[w] \in UnbindLabels, req[w].op = "remove"
               PROVE  TakenFromList(w)'
    BY DEF TakenFromList
  <2>1. pc[w] \in UnbindLabels
    OBVIOUS
  <2>2. PICK r \in bindingRows :
          UnbindsNow(w, r) /\ [guid |-> r.guid, cred |-> r.cred] \notin todo[w]
    BY <1>a, <2>1 DEF TakenFromList
  <2>3. UnbindsNow(w, r)' /\ [guid |-> r.guid, cred |-> r.cred] \notin todo'[w]
    BY <2>2 DEF UnbindsNow, Same
  <2> QED BY <2>3 DEF TakenFromList
<1>3. OwnBindings(w)
  BY DEF OwnBindings
<1> QED BY <1>a, <1>1, <1>2, <1>3, StepSpares

-----------------------------------------------------------------------------
(* Bind *)

(* MakeUser keeps the user it makes. *)
LEMMA MakeUserSpares ==
  ASSUME LeakSetting, LeaksInv, NEW w \in Workers, MakeUser(w)
  PROVE  Spares(w)
<1>a. TypeInv /\ faults \in Nat
  BY LeaksFacts
<1>1. UNCHANGED bindingRows /\ pc[w] = "newUser" /\ Same(w)
  BY <1>a, MakeUserStep DEF storeVars
<1>2. \/ NewUser(cred[w].url, cred[w].user, TRUE) /\ GoesTo(w, "grantWrite")
      \/ NewUser(cred[w].url, cred[w].user, FALSE) /\ Ends(w, 500, FALSE)
  BY <1>a, MakeUserStep, Zenon
<1>3. "stardogReplyLost" \notin FaultKinds
  BY DEF LeakSetting, SqlSetting, SerialSetting
<1>4. CASE NewUser(cred[w].url, cred[w].user, FALSE) /\ Ends(w, 500, FALSE)
  <2>1. UNCHANGED <<users, grants>>
    BY <1>3, <1>4 DEF NewUser, Replied, CallFails, Fault
  <2>2. Moves(w) /\ pc'[w] = "done"
    BY <1>4 DEF Ends
  <2> QED BY <1>1, <2>1, <2>2, QuietSpares DEF BoundLabels, UnbindLabels
<1>5. CASE NewUser(cred[w].url, cred[w].user, TRUE) /\ GoesTo(w, "grantWrite")
  <2>1. users' = users \cup {UserOf(cred[w])} /\ UNCHANGED grants
    BY <1>3, <1>5 DEF NewUser, Replied, CallFails, Fault, UserOf
  <2>2. Moves(w) /\ pc'[w] = "grantWrite" /\ req'[w] = req[w] /\ cred'[w] = cred[w]
    BY <1>1, <1>5 DEF GoesTo, Same
  <2>3. WorkerKeeps(w)' /\ ~WorkerKeeps(w)
    BY <1>1, <2>2 DEF WorkerKeeps, Holding, BoundLabels, UnbindLabels
  <2>4. PICK d : d = cred[w] /\ KeptFor(req[w].inst, d)'
    BY <2>2, <2>3 DEF KeptFor
  <2>5. cred[w] \in Credentials /\ req[w].inst \in Instances
    BY <1>a, <1>1, CredSet, LabelFacts, Serving
  <2>6. ASSUME NEW g, NEW c, KeptFor(g, c) PROVE KeptFor(g, c)'
    BY <1>a, <1>1, <2>1, <2>2, <2>3, <2>6, LeavesKept DEF UnbindLabels
  <2>7. \A c : UserOf(c)' = UserOf(c)
    BY DEF UserOf
  <2>8. ASSUME NEW user \in Forsaken' PROVE user \in Forsaken
    <3>1. user # UserOf(cred[w])
      BY <2>2, <2>4, <2>5, <2>7, <2>8 DEF Forsaken
    <3> QED BY <2>1, <2>6, <2>7, <2>8, <3>1 DEF Forsaken
  <2>9. TakenFromList(w)'
    BY <2>2 DEF TakenFromList, UnbindLabels
  <2> QED BY <1>1, <2>2, <2>8, <2>9, TakenStill DEF Spares
<1> QED BY <1>2, <1>4, <1>5

(* Grant takes nothing away, and on a user and a database that are there it succeeds. *)
LEMMA GrantSpares ==
  ASSUME LeakSetting, LeaksInv, NEW w \in Workers, pc[w] \in {"grantWrite", "grantRead"},
         Same(w), UNCHANGED bindingRows, NEW a, NEW next, next \in BoundLabels,
         \/ Grant(cred[w].url, cred[w].user, cred[w].db, a, TRUE) /\ GoesTo(w, next)
         \/ Grant(cred[w].url, cred[w].user, cred[w].db, a, FALSE) /\ Ends(w, 500, FALSE),
         \A b \in Actions : next \in Holding(b) => b = a \/ pc[w] \in Holding(b)
  PROVE  Spares(w)
<1>a. TypeInv /\ BindingsInv /\ faults \in Nat
  BY LeaksFacts
<1>1. <<cred[w].url, cred[w].db>> \in databases
  BY <1>a, HasDatabase, LabelFacts DEF BoundLabels
<1>2. PICK reply : /\ Grant(cred[w].url, cred[w].user, cred[w].db, a, reply)
                   /\ \/ reply = TRUE /\ GoesTo(w, next)
                      \/ reply = FALSE /\ Ends(w, 500, FALSE)
  BY Zenon
<1>3. UNCHANGED users /\ grants \subseteq grants'
  BY <1>2 DEF Grant
<1>4. Moves(w) /\ req'[w] = req[w] /\ pc'[w] \in {next, "done"}
  BY <1>2 DEF GoesTo, Ends
<1>5. pc'[w] \notin UnbindLabels /\ pc[w] \in BoundLabels
  BY <1>4 DEF BoundLabels, UnbindLabels
<1>6. ASSUME UNCHANGED faults, UserOf(cred[w]) \in users, WorkerKeeps(w)
      PROVE  WorkerKeeps(w)'
  <2>1. reply = TRUE /\ grants' = grants \cup {<<cred[w].url, cred[w].user, cred[w].db, a>>}
    BY <1>a, <1>1, <1>2, <1>6, FaultFree DEF Grant, Replied, CallFails, UserOf
  <2>2. pc'[w] = next /\ cred'[w] = cred[w]
    BY <1>2, <2>1 DEF GoesTo, Same
  <2>3. ASSUME NEW b \in Actions, next \in Holding(b) PROVE Permission(cred[w], b) \in grants'
    <3>1. CASE b = a
      BY <2>1, <3>1 DEF Permission
    <3>2. CASE pc[w] \in Holding(b)
      BY <1>3, <1>6, <3>2 DEF WorkerKeeps
    <3> QED BY <2>3, <3>1, <3>2
  <2> QED BY <2>2, <2>3 DEF WorkerKeeps, Permission
<1> QED BY <1>3, <1>4, <1>5, <1>6, HeldSpares

(* GrantWrite and GrantRead cost nothing, ... *)
LEMMA GrantWriteSpares ==
  ASSUME LeakSetting, LeaksInv, NEW w \in Workers, GrantWrite(w)
  PROVE  Spares(w)
<1>1. TypeInv
  BY LeaksFacts
<1>2. UNCHANGED bindingRows /\ pc[w] = "grantWrite" /\ Same(w)
  BY <1>1, GrantWriteStep DEF storeVars
<1>3. \/ Grant(cred[w].url, cred[w].user, cred[w].db, "write", TRUE) /\ GoesTo(w, "grantRead")
      \/ Grant(cred[w].url, cred[w].user, cred[w].db, "write", FALSE) /\ Ends(w, 500, FALSE)
  BY <1>1, GrantWriteStep, Zenon
<1>4. "grantRead" \in BoundLabels /\ \A b \in Actions : "grantRead" \in Holding(b) => b = "write"
  BY DEF Holding, Actions, BoundLabels
<1> QED BY <1>2, <1>3, <1>4, GrantSpares

(* ... on either store. *)
LEMMA GrantReadSpares ==
  ASSUME LeakSetting, LeaksInv, NEW w \in Workers, GrantRead(w)
  PROVE  Spares(w)
<1>1. TypeInv
  BY LeaksFacts
<1>2. UNCHANGED bindingRows /\ pc[w] = "grantRead" /\ Same(w)
  BY <1>1, GrantReadStep DEF storeVars
<1>3. OnSql
  BY DEF LeakSetting, SqlSetting
<1>4. \/ Grant(cred[w].url, cred[w].user, cred[w].db, "read", TRUE) /\ GoesTo(w, "addBinding")
      \/ Grant(cred[w].url, cred[w].user, cred[w].db, "read", FALSE) /\ Ends(w, 500, FALSE)
  BY <1>1, <1>3, GrantReadStep
<1>5. /\ "addBinding" \in BoundLabels
      /\ \A b \in Actions : b = "read" \/ pc[w] \in Holding(b)
  BY <1>2 DEF Holding, Actions, BoundLabels
<1> QED BY <1>2, <1>4, <1>5, GrantSpares

(* CheckInstance finds the instance, so the user is not given up. *)
LEMMA CheckInstanceSpares ==
  ASSUME LeakSetting, LeaksInv, NEW w \in Workers, CheckInstance(w)
  PROVE  Spares(w)
<1>a. TypeInv /\ BindingsInv
  BY LeaksFacts
<1>1. /\ pc[w] = "checkInstance" /\ Same(w) /\ GoesTo(w, "addBinding")
      /\ UNCHANGED storeVars
  BY <1>a, CheckInstanceFinds DEF LeakSetting
<1>2. UNCHANGED <<users, grants>>
  BY <1>a, CheckInstanceStep DEF stardogVars
<1>3. Moves(w) /\ req'[w] = req[w] /\ pc'[w] = "addBinding" /\ cred'[w] = cred[w]
  BY <1>1 DEF GoesTo, Same
<1>4. WorkerKeeps(w) => WorkerKeeps(w)'
  BY <1>1, <1>2, <1>3 DEF WorkerKeeps, Holding, BoundLabels, UnbindLabels, Permission
<1> QED BY <1>1, <1>2, <1>3, <1>4, HeldSpares DEF BoundLabels, UnbindLabels, storeVars

(* StoreBinding leaves the user to the record. *)
LEMMA StoreBindingSpares ==
  ASSUME LeakSetting, LeaksInv, DatabasesInv', NEW w \in Workers, StoreBinding(w)
  PROVE  Spares(w)
<1>a. TypeInv /\ BindingsInv /\ OneRequest
  BY LeaksFacts
<1>1. bindingRows' = bindingRows \cup {BindingOf(w)}
  BY <1>a, StoreBindingBound DEF LeakSetting
<1>2. pc[w] = "addBinding" /\ UNCHANGED <<users, grants>>
  BY <1>a, StoreBindingStep DEF stardogVars
<1>3. Moves(w) /\ pc'[w] = "done" /\ req'[w] = req[w]
  BY <1>a, StoreBindingStep DEF Ends
<1>4. BindingOf(w).inst = req[w].inst /\ BindingOf(w).cred = cred[w]
  BY DEF BindingOf
<1>5. ASSUME NEW c, KeptFor(req[w].inst, c) PROVE KeptFor(req[w].inst, c)'
  <2>1. \E r \in bindingRows' : /\ r.inst = req[w].inst /\ r.cred = c
                                /\ \A a \in Actions : Permission(c, a) \in grants
    <3>1. CASE WorkerKeeps(w) /\ cred[w] = c
      <4>1. \A a \in Actions : Permission(c, a) \in grants
        BY <1>2, <3>1 DEF WorkerKeeps, Holding
      <4> QED BY <1>1, <1>4, <3>1, <4>1
    <3> QED BY <1>a, <1>1, <1>2, <1>5, <3>1, OwnKept
  <2>2. PICK r \in bindingRows' : /\ r.inst = req[w].inst /\ r.cred = c
                                  /\ \A a \in Actions : Permission(c, a) \in grants
    BY <2>1
  <2>3. ~PastBy(w, r)'
    BY <1>3 DEF PastBy, UnbindLabels
  <2> QED BY <1>a, <1>2, <1>3, <2>2, <2>3, OwnRowKept
<1>6. OwnBindings(w) /\ TakenFromList(w)'
  BY <1>1, <1>3, <1>4 DEF OwnBindings, TakenFromList, UnbindLabels
<1> QED BY <1>2, <1>3, <1>5, <1>6, StepSpares

-----------------------------------------------------------------------------
(* UnBind and Plan.UnBind *)

(* EraseBinding takes the user from the record. *)
LEMMA EraseBindingSpares ==
  ASSUME LeakSetting, LeaksInv, DatabasesInv', NEW w \in Workers, EraseBinding(w)
  PROVE  Spares(w)
<1>a. TypeInv /\ BindingsInv /\ OneRequest /\ BindingKnown(w)
  BY LeaksFacts
<1>1. bindingRows' = bindingRows \ {BindingOf(w)} /\ pc'[w] = "revokeWrite"
  BY <1>a, EraseBindingBound DEF LeakSetting
<1>2. /\ pc[w] = "deleteBinding" /\ req[w].op = "unbind" /\ UNCHANGED <<users, grants>>
      /\ Same(w)
  BY <1>a, EraseBindingStep DEF stardogVars
<1>3. Moves(w) /\ req'[w] = req[w] /\ cred'[w] = cred[w]
  BY <1>a, <1>2, EraseBindingLeads DEF GoesTo, Ends, Same
<1>4. BindingOf(w).inst = req[w].inst /\ BindingOf(w).cred = cred[w]
  BY DEF BindingOf
<1>5. ASSUME NEW c, KeptFor(req[w].inst, c) PROVE KeptFor(req[w].inst, c)'
  <2>1. PICK r \in bindingRows : /\ r.inst = req[w].inst /\ r.cred = c
                                 /\ \A a \in Actions : Permission(c, a) \in grants
    BY <1>a, <1>2, <1>5, OwnKept DEF WorkerKeeps, BoundLabels, UnbindLabels
  <2>2. CASE r = BindingOf(w)
    <3>1. cred[w] = c /\ \A a \in Actions : Permission(cred[w], a) \in grants
      BY <1>4, <2>1, <2>2
    <3>2. WorkerKeeps(w)'
      BY <1>1, <1>2, <1>3, <3>1 DEF WorkerKeeps, UnbindLabels, Permission
    <3> QED BY <1>3, <3>1, <3>2 DEF KeptFor
  <2>3. CASE r # BindingOf(w)
    <3>1. ~PastBy(w, r)' /\ r \in bindingRows'
      BY <1>1, <1>2, <1>3, <2>1, <2>3 DEF PastBy
    <3> QED BY <1>a, <1>2, <1>3, <2>1, <3>1, OwnRowKept
  <2> QED BY <2>2, <2>3
<1>6. OwnBindings(w) /\ TakenFromList(w)'
  BY <1>1, <1>2, <1>3, <1>4 DEF OwnBindings, TakenFromList
<1> QED BY <1>2, <1>3, <1>5, <1>6, StepSpares DEF UnbindLabels

(* Revoke touches one database, and a permission that is there is taken away. *)
LEMMA RevokeSpares ==
  ASSUME LeakSetting, LeaksInv, NEW w \in Workers, pc[w] \in {"revokeWrite", "revokeRead"},
         Same(w), UNCHANGED bindingRows, NEW a \in Actions, pc[w] \in Holding(a),
         NEW next, next \in UnbindLabels,
         \/ Revoke(ServerOf(inst[w]), cred[w].user, cred[w].db, a, TRUE) /\ GoesTo(w, next)
         \/ Revoke(ServerOf(inst[w]), cred[w].user, cred[w].db, a, FALSE) /\ UnbindFailed(w),
         \A b \in Actions : next \in Holding(b) => b # a /\ pc[w] \in Holding(b)
  PROVE  Spares(w)
<1>a. TypeInv /\ BindingsInv /\ faults \in Nat /\ pc[w] \in UnbindLabels
  BY LeaksFacts DEF UnbindLabels
<1>1. ServerOf(inst[w]) = cred[w].url
  BY <1>a, HasDatabase, LabelFacts DEF UnbindLabels
<1>2. PICK reply : /\ Revoke(cred[w].url, cred[w].user, cred[w].db, a, reply)
                   /\ \/ reply = TRUE /\ GoesTo(w, next)
                      \/ reply = FALSE /\ UnbindFailed(w)
  BY <1>1, Zenon
<1>3. UNCHANGED users /\ grants \ {Permission(cred[w], a)} \subseteq grants'
  BY <1>2 DEF Revoke, Permission
<1>4. Moves(w) /\ req'[w] = req[w]
  BY <1>2 DEF GoesTo, Ends, UnbindFailed
<1>5. ASSUME UNCHANGED faults, UserOf(cred[w]) \in users, WorkerKeeps(w)
      PROVE  WorkerKeeps(w)'
  <2>1. <<cred[w].url, cred[w].user, cred[w].db, a>> \in grants
    BY <1>5 DEF WorkerKeeps, Permission
  <2>2. reply = TRUE
    BY <1>a, <1>2, <1>5, <2>1, FaultFree DEF Revoke, Replied, CallFails, UserOf
  <2>3. pc'[w] = next /\ cred'[w] = cred[w]
    BY <1>2, <2>2 DEF GoesTo, Same
  <2>4. ASSUME NEW b \in Actions, next \in Holding(b) PROVE Permission(cred[w], b) \in grants'
    <3>1. Permission(cred[w], b) \in grants
      BY <1>5, <2>4 DEF WorkerKeeps
    <3>2. Permission(cred[w], b) # Permission(cred[w], a)
      BY <2>4 DEF Permission
    <3> QED BY <1>3, <3>1, <3>2
  <2> QED BY <2>3, <2>4 DEF WorkerKeeps, Permission
<1>6. ASSUME NEW c, NEW b, Permission(c, b) \in grants, PlaceOf(c) # PlaceOf(cred[w])
      PROVE  Permission(c, b) \in grants'
  <2>1. Permission(c, b) # Permission(cred[w], a)
    BY <1>6 DEF Permission, PlaceOf
  <2> QED BY <1>3, <1>6, <2>1
<1>7. pc[w] \notin BoundLabels
  BY DEF BoundLabels
<1> QED BY <1>a, <1>3, <1>4, <1>5, <1>6, <1>7, HeldSpares

(* RevokeWrite and RevokeRead cost nothing, ... *)
LEMMA RevokeWriteSpares ==
  ASSUME LeakSetting, LeaksInv, NEW w \in Workers, RevokeWrite(w)
  PROVE  Spares(w)
<1>1. TypeInv
  BY LeaksFacts
<1>2. UNCHANGED bindingRows /\ pc[w] = "revokeWrite" /\ Same(w)
  BY <1>1, RevokeWriteStep DEF storeVars
<1>3. \/ /\ Revoke(ServerOf(inst[w]), cred[w].user, cred[w].db, "write", TRUE)
         /\ GoesTo(w, "revokeRead")
      \/ /\ Revoke(ServerOf(inst[w]), cred[w].user, cred[w].db, "write", FALSE)
         /\ UnbindFailed(w)
  BY <1>1, RevokeWriteStep, Zenon
<1>4. /\ "revokeRead" \in UnbindLabels /\ "write" \in Actions
      /\ \A b \in Actions : pc[w] \in Holding(b) /\ ("revokeRead" \in Holding(b) => b # "write")
  BY <1>2 DEF Holding, Actions, UnbindLabels
<1> QED BY <1>2, <1>3, <1>4, RevokeSpares

(* ... one after the other. *)
LEMMA RevokeReadSpares ==
  ASSUME LeakSetting, LeaksInv, NEW w \in Workers, RevokeRead(w)
  PROVE  Spares(w)
<1>1. TypeInv
  BY LeaksFacts
<1>2. UNCHANGED bindingRows /\ pc[w] = "revokeRead" /\ Same(w)
  BY <1>1, RevokeReadStep DEF storeVars
<1>3. \/ /\ Revoke(ServerOf(inst[w]), cred[w].user, cred[w].db, "read", TRUE)
         /\ GoesTo(w, "deleteUser")
      \/ /\ Revoke(ServerOf(inst[w]), cred[w].user, cred[w].db, "read", FALSE)
         /\ UnbindFailed(w)
  BY <1>1, RevokeReadStep, Zenon
<1>4. /\ "deleteUser" \in UnbindLabels /\ "read" \in Actions /\ pc[w] \in Holding("read")
      /\ \A b \in Actions : "deleteUser" \notin Holding(b)
  BY <1>2 DEF Holding, Actions, UnbindLabels
<1> QED BY <1>2, <1>3, <1>4, RevokeSpares

(* RemoveUser takes one user, with its permissions. *)
LEMMA RemoveUserSpares ==
  ASSUME LeakSetting, LeaksInv, NEW w \in Workers, RemoveUser(w)
  PROVE  Spares(w)
<1>a. TypeInv /\ BindingsInv /\ faults \in Nat
  BY LeaksFacts
<1>1. UNCHANGED bindingRows /\ pc[w] = "deleteUser" /\ Same(w)
  BY <1>a, RemoveUserStep DEF storeVars
<1>2. PICK reply : /\ DeleteUser(ServerOf(inst[w]), cred[w].user, reply)
                   /\ UnbindDone(w) \/ UnbindFailed(w)
  BY <1>a, RemoveUserStep, Zenon
<1>3. ServerOf(inst[w]) = cred[w].url
  BY <1>a, <1>1, HasDatabase, LabelFacts DEF UnbindLabels
<1>4. \/ /\ users' = users \ {UserOf(cred[w])}
         /\ grants' = {p \in grants : ~(p[1] = cred[w].url /\ p[2] = cred[w].user)}
      \/ UNCHANGED <<users, grants>> /\ Fault("stardogCall")
  BY <1>2, <1>3 DEF DeleteUser, CallFails, UserOf
<1>5. Moves(w) /\ req'[w] = req[w]
  BY <1>2 DEF GoesTo, Ends, UnbindDone, UnbindFailed
<1>6. users' \subseteq users /\ ~(UNCHANGED faults /\ UserOf(cred[w]) \in users')
  BY <1>a, <1>4, FaultFree
<1>7. ASSUME NEW c, NEW a, Permission(c, a) \in grants, UserOf(c) \in users'
      PROVE  Permission(c, a) \in grants'
  <2>1. CASE UserOf(c) # UserOf(cred[w])
    <3>1. ~(c.url = cred[w].url /\ c.user = cred[w].user)
      BY <2>1 DEF UserOf
    <3>2. Permission(c, a)[1] = c.url /\ Permission(c, a)[2] = c.user
      BY DEF Permission
    <3> QED BY <1>4, <1>7, <3>1, <3>2
  <2>2. CASE UserOf(c) = UserOf(cred[w])
    BY <1>4, <1>7, <2>2
  <2> QED BY <2>1, <2>2
<1>8. pc[w] \in UnbindLabels /\ pc[w] \notin BoundLabels
  BY <1>1 DEF BoundLabels, UnbindLabels
<1> QED BY <1>1, <1>5, <1>6, <1>7, <1>8, HeldSpares

-----------------------------------------------------------------------------
(* RemoveServiceInstance *)

(* ListBindings leaves nothing out when it does not fail. *)
LEMMA ListBindingsSpares ==
  ASSUME LeakSetting, LeaksInv, NEW w \in Workers, ListBindings(w) \/ ListSomeBindings(w)
  PROVE  Spares(w)
<1>a. TypeInv /\ BindingsInv /\ OneRequest /\ InstanceKnown(w) /\ faults \in Nat
  BY LeaksFacts
<1>b. OnSql /\ "storeRead" \notin FaultKinds
  BY DEF LeakSetting, SqlSetting, SerialSetting
<1>1. /\ pc[w] = "listBindings" /\ UNCHANGED <<users, grants, bindingRows>>
      /\ Moves(w) /\ req'[w] = req[w] /\ pc'[w] \in {"nextBinding", "done"}
  BY <1>a, ListBindingsStep, ListSomeBindingsStep, ReadEffect
     DEF GoesTo, Ends, stardogVars, storeVars
<1>2. UNCHANGED faults /\ pc'[w] = "nextBinding" => todo'[w] \in GetAllBindings(req[w].inst)
  <2>1. ASSUME ListSomeBindings(w), UNCHANGED faults PROVE FALSE
    BY <1>a, <2>1, ListSomeBindingsStep, FaultFree
  <2>2. ASSUME ListBindings(w), pc'[w] = "nextBinding"
        PROVE  todo'[w] \in GetAllBindings(req[w].inst)
    BY <1>a, <1>b, <2>2, ListBindingsStep, ReadExact DEF GoesTo, Ends
  <2> QED BY <2>1, <2>2
<1>3. ASSUME UNCHANGED faults, NEW c, KeptFor(req[w].inst, c)
      PROVE  KeptFor(req[w].inst, c)'
  <2>1. PICK r \in bindingRows : /\ r.inst = req[w].inst /\ r.cred = c
                                 /\ \A a \in Actions : Permission(c, a) \in grants
    BY <1>a, <1>1, <1>3, OwnKept DEF WorkerKeeps, BoundLabels, UnbindLabels
  <2>2. ~Unrecorded(req[w].inst)
    <3>1. RecordOf(w) \in instanceRows /\ RecordOf(w).guid = req[w].inst
      BY <1>a, <1>1, LabelFacts DEF InstanceKnown, RecordOf
    <3> QED BY <3>1 DEF Unrecorded
  <2>3. pc'[w] = "nextBinding" => [guid |-> r.guid, cred |-> r.cred] \in todo'[w]
    BY <1>b, <1>2, <1>3, <2>1, <2>2, GetAllBindingsExact
  <2>4. ~PastBy(w, r)'
    BY <1>1, <2>3 DEF PastBy, UnbindLabels
  <2> QED BY <1>a, <1>1, <2>1, <2>4, OwnRowKept
<1>4. OwnBindings(w) /\ TakenFromList(w)'
  BY <1>1 DEF OwnBindings, TakenFromList, UnbindLabels
<1> QED BY <1>1, <1>3, <1>4, StepSpares DEF UnbindLabels

(* NextBinding takes a binding in hand. *)
LEMMA NextBindingSpares ==
  ASSUME LeakSetting, LeaksInv, NEW w \in Workers, NextBinding(w)
  PROVE  Spares(w)
<1>a. TypeInv /\ BindingsInv /\ OneRequest /\ ListedKnown(w)
  BY LeaksFacts
<1>1. /\ pc[w] = "nextBinding" /\ req[w].op = "remove"
      /\ UNCHANGED <<users, grants, bindingRows>>
      /\ \/ /\ todo[w] = {} /\ GoesTo(w, "deleteDb")
            /\ cred'[w] = cred[w] /\ todo'[w] = todo[w]
         \/ /\ GoesTo(w, "revokeWrite")
            /\ \E b \in todo[w] : cred'[w] = b.cred /\ todo'[w] = todo[w] \ {b}
  BY <1>a, NextBindingStep DEF stardogVars, storeVars
<1>2. Moves(w) /\ req'[w] = req[w]
  BY <1>1 DEF GoesTo
<1>3. ASSUME NEW c, KeptFor(req[w].inst, c)
      PROVE  \E r \in bindingRows : /\ r.inst = req[w].inst /\ r.cred = c
                                    /\ [guid |-> r.guid, cred |-> r.cred] \in todo[w]
                                    /\ \A a \in Actions : Permission(c, a) \in grants
  BY <1>a, <1>1, <1>3, OwnKept, ZenonT(60) DEF PastBy, WorkerKeeps, BoundLabels, UnbindLabels
<1>4. OwnBindings(w)
  BY <1>1 DEF OwnBindings
<1>5. CASE todo[w] = {} /\ GoesTo(w, "deleteDb")
  <2>1. \A c : ~KeptFor(req[w].inst, c)
    BY <1>3, <1>5
  <2>2. TakenFromList(w)'
    BY <1>5 DEF TakenFromList, UnbindLabels, GoesTo
  <2> QED BY <1>1, <1>2, <1>4, <2>1, <2>2, StepSpares
<1>6. CASE /\ GoesTo(w, "revokeWrite")
           /\ \E b \in todo[w] : cred'[w] = b.cred /\ todo'[w] = todo[w] \ {b}
  <2>1. PICK b \in todo[w] : cred'[w] = b.cred /\ todo'[w] = todo[w] \ {b}
    BY <1>6
  <2>2. pc'[w] = "revokeWrite"
    BY <1>6 DEF GoesTo
  <2>3. PICK q \in bindingRows :
          q.inst = req[w].inst /\ q.cred = b.cred /\ [guid |-> q.guid, cred |-> q.cred] = b
    <3>1. [inst |-> req[w].inst, guid |-> b.guid, cred |-> b.cred] \in bindingRows
      BY <1>a DEF ListedKnown
    <3>2. b = [guid |-> b.guid, cred |-> b.cred]
      BY <1>a DEF TypeInv, TypeOK, Todos
    <3> QED BY <3>1, <3>2
  <2>4. ASSUME NEW c, KeptFor(req[w].inst, c) PROVE KeptFor(req[w].inst, c)'
    <3>1. PICK r \in bindingRows : /\ r.inst = req[w].inst /\ r.cred = c
                                   /\ \A a \in Actions : Permission(c, a) \in grants
      BY <1>3, <2>4
    <3>2. r = q
      BY <2>3, <3>1, OneRow
    <3>3. cred'[w] = c /\ \A a \in Actions : Permission(c, a) \in grants'
      BY <1>1, <2>1, <2>3, <3>1, <3>2
    <3>4. WorkerKeeps(w)'
      BY <2>2, <3>3 DEF WorkerKeeps, UnbindLabels, Permission
    <3> QED BY <1>2, <3>3, <3>4 DEF KeptFor
  <2>5. TakenFromList(w)'
    <3>1. UnbindsNow(w, q)' /\ [guid |-> q.guid, cred |-> q.cred] \notin todo'[w]
      BY <1>1, <1>2, <2>1, <2>2, <2>3 DEF UnbindsNow, UnbindLabels
    <3> QED BY <1>1, <2>3, <3>1 DEF TakenFromList
  <2> QED BY <1>1, <1>2, <1>4, <2>4, <2>5, StepSpares
<1> QED BY <1>1, <1>5, <1>6

(* DeleteDb comes when no binding is left. *)
LEMMA DeleteDbSpares ==
  ASSUME LeakSetting, LeaksInv, NEW w \in Workers, DeleteDb(w)
  PROVE  Spares(w)
<1>a. TypeInv /\ BindingsInv /\ OneRequest /\ ListedKnown(w)
  BY LeaksFacts
<1>1. pc[w] = "deleteDb" /\ req[w].op = "remove" /\ UNCHANGED bindingRows
  BY <1>a, DeleteDbStep DEF storeVars
<1>2. Moves(w) /\ req'[w] = req[w] /\ pc'[w] \in {"deleteInstance", "done"}
  BY <1>a, DeleteDbStep, ZenonT(60) DEF GoesTo, Ends
<1>3. UNCHANGED <<users, grants>>
  BY DeleteDatabaseEffect DEF DeleteDb
<1>4. todo[w] = {}
  BY <1>a, <1>1 DEF ListedKnown, UnbindLabels
<1>5. \A c : ~KeptFor(req[w].inst, c)
  BY <1>a, <1>1, <1>4, OwnKept DEF PastBy, WorkerKeeps, BoundLabels, UnbindLabels
<1>6. OwnBindings(w) /\ TakenFromList(w)'
  BY <1>1, <1>2 DEF OwnBindings, TakenFromList, UnbindLabels
<1> QED BY <1>1, <1>2, <1>3, <1>5, <1>6, StepSpares

(* EraseInstance drops the records of bindings that kept nothing any more. *)
LEMMA EraseInstanceSpares ==
  ASSUME LeakSetting, LeaksInv, NEW w \in Workers, EraseInstance(w)
  PROVE  Spares(w)
<1>a. TypeInv /\ BindingsInv /\ OneRequest /\ ListedKnown(w)
  BY LeaksFacts
<1>b. SerialSetting /\ OnSql
  BY DEF LeakSetting, SqlSetting
<1>1. /\ pc[w] = "deleteInstance" /\ req[w].op = "remove" /\ UNCHANGED <<users, grants>>
      /\ Ends(w, 200, TRUE) /\ \E reply \in BOOLEAN : DeleteInstance(req[w].inst, reply)
  BY <1>a, EraseInstanceStep DEF stardogVars
<1>2. bindingRows' = {r \in bindingRows : r.inst # req[w].inst}
  BY <1>b, <1>1, DeleteInstanceSerial
<1>3. Moves(w) /\ req'[w] = req[w] /\ pc'[w] = "done"
  BY <1>1 DEF Ends
<1>4. todo[w] = {}
  BY <1>a, <1>1 DEF ListedKnown, UnbindLabels
<1>5. \A c : ~KeptFor(req[w].inst, c)
  BY <1>a, <1>1, <1>4, OwnKept DEF PastBy, WorkerKeeps, BoundLabels, UnbindLabels
<1>6. OwnBindings(w) /\ TakenFromList(w)'
  BY <1>2, <1>3 DEF OwnBindings, TakenFromList, UnbindLabels
<1> QED BY <1>1, <1>3, <1>5, <1>6, StepSpares

-----------------------------------------------------------------------------
(* LeaksInv is an invariant. *)

(* A handler that panics, which is a fault, or returns forsakes one user at most. *)
LEMMA EndSpares ==
  ASSUME LeakSetting, LeaksInv, NEW w \in Workers, Panic(w) \/ Return(w)
  PROVE  Spares(w)
<1> USE DEF storeVars, stardogVars
<1>a. TypeInv /\ faults \in Nat
  BY LeaksFacts
<1>1. /\ pc[w] \in Ops \cup {"listBindings", "addBinding", "done"} /\ Exit(w)
      /\ \/ Fault("storeBegin")
         \/ pc[w] = "done" /\ UNCHANGED faults
  BY <1>a, EndStep
<1>2. UNCHANGED <<users, grants, bindingRows>> /\ Moves(w) /\ pc'[w] = "idle"
  BY <1>a, <1>1, ExitStep
<1>3. CASE pc[w] # "addBinding"
  BY <1>1, <1>2, <1>3, QuietSpares DEF BoundLabels, UnbindLabels, Ops
<1>4. CASE pc[w] = "addBinding"
  <2>1. ~UNCHANGED faults
    BY <1>a, <1>1, <1>4, FaultFree
  <2>2. ASSUME NEW g, NEW c, KeptFor(g, c), c # cred[w] PROVE KeptFor(g, c)'
    BY <1>a, <1>2, <2>2, LeavesKept DEF UnbindLabels
  <2>3. \A c : UserOf(c)' = UserOf(c)
    BY DEF UserOf
  <2>4. Forsaken' \subseteq Forsaken \cup {UserOf(cred[w])}
    BY <1>2, <2>2, <2>3 DEF Forsaken
  <2>5. TakenFromList(w)'
    BY <1>2 DEF TakenFromList, UnbindLabels
  <2> QED BY <1>2, <2>1, <2>4, <2>5, TakenStill DEF Spares
<1> QED BY <1>3, <1>4

(* No step of a handler costs more. *)
LEMMA LeaksHandle ==
  ASSUME LeakSetting, LeaksInv, DatabasesInv', NEW w \in Workers, Handle(w)
  PROVE  Spares(w)
<1> USE DEF storeVars, stardogVars
<1>a. TypeInv
  BY LeaksFacts
<1>1. CASE CreateUnknownPlan(w)
  <2>1. Moves(w) /\ pc'[w] = "done" /\ pc[w] = "create"
    BY <1>a, <1>1, CreateUnknownPlanStep DEF Ends
  <2> QED BY <1>a, <1>1, <2>1, CreateUnknownPlanStep, QuietSpares DEF BoundLabels, UnbindLabels
<1>2. CASE CreateExisting(w)
  <2>1. Moves(w) /\ pc'[w] = "done" /\ pc[w] = "create" /\ UNCHANGED <<users, grants>>
    BY <1>a, <1>2, CreateExistingStep DEF Ends
  <2>2. UNCHANGED bindingRows
    BY <1>a, <1>2, CreateExistingStep, LookupEffect
  <2> QED BY <1>a, <2>1, <2>2, QuietSpares DEF BoundLabels, UnbindLabels
<1>3. CASE CreateNew(w)
  <2>1. /\ Moves(w) /\ pc'[w] \in {"createDb", "done"} /\ pc[w] = "create"
        /\ UNCHANGED <<users, grants>>
    BY <1>a, <1>3, CreateNewStep DEF Ends, GoesTo
  <2>2. UNCHANGED bindingRows
    BY <1>a, <1>3, CreateNewStep, LookupEffect
  <2> QED BY <1>a, <2>1, <2>2, QuietSpares DEF BoundLabels, UnbindLabels
<1>4. CASE CreateDb(w)
  <2>1. Moves(w) /\ pc'[w] \in {"addInstance", "done"}
    BY <1>a, <1>4, CreateDbLeads DEF Ends, GoesTo
  <2>2. UNCHANGED bindingRows /\ pc[w] = "createDb"
    BY <1>a, <1>4, CreateDbStep
  <2>3. UNCHANGED <<users, grants>>
    BY <1>4, CreateDatabaseEffect DEF CreateDb
  <2> QED BY <1>a, <2>1, <2>2, <2>3, QuietSpares DEF BoundLabels, UnbindLabels
<1>5. CASE StoreInstance(w)
  <2>1. /\ \E reply \in BOOLEAN : AddInstance(req[w].inst, inst[w], reply)
        /\ \E ok, code : Ends(w, code, ok)
    BY <1>a, <1>5, StoreInstanceStep, Zenon
  <2>2. Moves(w) /\ pc'[w] = "done"
    BY <2>1 DEF Ends
  <2>3. UNCHANGED bindingRows
    BY <2>1, AddInstanceEffect
  <2>4. pc[w] = "addInstance" /\ UNCHANGED <<users, grants>>
    BY <1>a, <1>5, StoreInstanceStep
  <2> QED BY <1>a, <2>2, <2>3, <2>4, QuietSpares DEF BoundLabels, UnbindLabels
<1>6. CASE Get(w)
  <2>1. Moves(w) /\ pc'[w] = "done" /\ pc[w] = "get" /\ UNCHANGED <<users, grants>>
    BY <1>a, <1>6, GetStep DEF Ends
  <2>2. UNCHANGED bindingRows
    BY <1>a, <1>6, GetStep, LookupEffect
  <2> QED BY <1>a, <2>1, <2>2, QuietSpares DEF BoundLabels, UnbindLabels
<1>7. CASE Remove(w)
  <2>1. /\ Moves(w) /\ pc'[w] \in {"listBindings", "done"} /\ pc[w] = "remove"
        /\ UNCHANGED <<users, grants>>
    BY <1>a, <1>7, RemoveStep DEF Ends, GoesTo
  <2>2. UNCHANGED bindingRows
    BY <1>a, <1>7, RemoveStep, LookupEffect
  <2> QED BY <1>a, <2>1, <2>2, QuietSpares DEF BoundLabels, UnbindLabels
<1>8. CASE ListBindings(w)
  BY <1>8, ListBindingsSpares
<1>9. CASE ListSomeBindings(w)
  BY <1>9, ListBindingsSpares
<1>10. CASE NextBinding(w)
  BY <1>10, NextBindingSpares
<1>11. CASE DeleteDb(w)
  BY <1>11, DeleteDbSpares
<1>12. CASE EraseInstance(w)
  BY <1>12, EraseInstanceSpares
<1>13. CASE Bind(w)
  <2>1. /\ Moves(w) /\ pc'[w] \in {"getBinding", "done"} /\ pc[w] = "bind"
        /\ UNCHANGED <<users, grants>>
    BY <1>a, <1>13, BindFirstStep DEF Ends, GoesTo
  <2>2. UNCHANGED bindingRows
    BY <1>a, <1>13, BindFirstStep, LookupEffect
  <2> QED BY <1>a, <2>1, <2>2, QuietSpares DEF BoundLabels, UnbindLabels
<1>14. CASE FindBinding(w)
  <2>1. /\ Moves(w) /\ pc'[w] \in {"userExists", "done"} /\ pc[w] = "getBinding"
        /\ UNCHANGED <<users, grants>>
    BY <1>a, <1>14, FindBindingStep DEF Ends, GoesTo
  <2>2. UNCHANGED bindingRows
    BY <1>a, <1>14, FindBindingStep, ReadEffect
  <2> QED BY <1>a, <2>1, <2>2, QuietSpares DEF BoundLabels, UnbindLabels
<1>15. CASE CheckUser(w)
  <2>1. Moves(w) /\ pc'[w] \in {"newUser", "done"}
    BY <1>a, <1>15, CheckUserLeads DEF Ends, GoesTo
  <2>2. pc[w] = "userExists" /\ UNCHANGED <<users, grants, bindingRows>>
    BY <1>a, <1>15, CheckUserStep
  <2> QED BY <1>a, <2>1, <2>2, QuietSpares DEF BoundLabels, UnbindLabels
<1>16. CASE MakeUser(w)
  BY <1>16, MakeUserSpares
<1>17. CASE GrantWrite(w)
  BY <1>17, GrantWriteSpares
<1>18. CASE GrantRead(w)
  BY <1>18, GrantReadSpares
<1>19. CASE CheckInstance(w)
  BY <1>19, CheckInstanceSpares
<1>20. CASE StoreBinding(w)
  BY <1>20, StoreBindingSpares
<1>21. CASE Unbind(w)
  <2>1. /\ Moves(w) /\ pc'[w] \in {"unbindGet", "done"} /\ pc[w] = "unbind"
        /\ UNCHANGED <<users, grants>>
    BY <1>a, <1>21, UnbindFirstStep DEF Ends, GoesTo
  <2>2. UNCHANGED bindingRows
    BY <1>a, <1>21, UnbindFirstStep, LookupEffect
  <2> QED BY <1>a, <2>1, <2>2, QuietSpares DEF BoundLabels, UnbindLabels
<1>22. CASE UnbindGet(w)
  <2>1. /\ Moves(w) /\ pc'[w] \in {"deleteBinding", "done"} /\ pc[w] = "unbindGet"
        /\ UNCHANGED <<users, grants>>
    BY <1>a, <1>22, UnbindGetStep DEF Ends, GoesTo
  <2>2. UNCHANGED bindingRows
    BY <1>a, <1>22, UnbindGetStep, ReadEffect
  <2> QED BY <1>a, <2>1, <2>2, QuietSpares DEF BoundLabels, UnbindLabels
<1>23. CASE EraseBinding(w)
  BY <1>23, EraseBindingSpares
<1>24. CASE RevokeWrite(w)
  BY <1>24, RevokeWriteSpares
<1>25. CASE RevokeRead(w)
  BY <1>25, RevokeReadSpares
<1>26. CASE RemoveUser(w)
  BY <1>26, RemoveUserSpares
<1> QED BY <1>1, <1>2, <1>3, <1>4, <1>5, <1>6, <1>7, <1>8, <1>9, <1>10, <1>11, <1>12,
           <1>13, <1>14, <1>15, <1>16, <1>17, <1>18, <1>19, <1>20, <1>21, <1>22, <1>23,
           <1>24, <1>25, <1>26 DEF Handle

(* So nothing is forsaken without a fault. *)
LEMMA LeaksNext ==
  ASSUME LeakSetting, LeaksInv, [Next]_vars
  PROVE  LeaksInv'
<1> USE DEF storeVars, stardogVars
<1>a. /\ TypeInv /\ faults \in Nat /\ BindingsInv' /\ DatabasesInv'
      /\ IsFiniteSet(Forsaken) /\ Cardinality(Forsaken) <= faults
  <2>1. BindingsInv'
    BY BindingsNext DEF LeaksInv, LeakSetting
  <2> QED BY <2>1, LeaksFacts DEF BindingsInv, LeaksInv
<1>1. ASSUME NEW w \in Workers, Spares(w), MayFault PROVE LeaksInv'
  <2>1. IsFiniteSet(Forsaken') /\ Cardinality(Forsaken') <= faults'
    BY <1>a, <1>1, Counted DEF Spares
  <2> QED BY <1>a, <1>1, <2>1 DEF LeaksInv, Spares
<1>2. ASSUME NEW w \in Workers, Handle(w) PROVE LeaksInv'
  BY <1>a, <1>1, <1>2, LeaksHandle, HandlerFaults
<1>3. ASSUME NEW w \in Workers, Panic(w) \/ Return(w) PROVE LeaksInv'
  <2>1. MayFault
    BY <1>a, <1>3, EndStep DEF Fault, MayFault
  <2> QED BY <1>1, <1>3, <2>1, EndSpares
<1>4. ASSUME NEW w \in Workers, NEW r \in Requests, Receive(w, r) PROVE LeaksInv'
  <2>1. /\ UNCHANGED <<users, grants, bindingRows, faults>> /\ Moves(w)
        /\ pc[w] = "idle" /\ pc'[w] \in Ops
    BY <1>a, <1>4, ReceiveStep
  <2>2. Spares(w)
    BY <2>1, QuietSpares DEF BoundLabels, UnbindLabels, Ops
  <2> QED BY <1>1, <2>1, <2>2 DEF MayFault
<1>5. CASE Restart
  BY <1>5 DEF Restart, Fault, LeakSetting, SqlSetting, SerialSetting
<1>6. CASE UNCHANGED vars
  <2>1. /\ pc' = pc /\ req' = req /\ cred' = cred /\ todo' = todo /\ users' = users
        /\ bindingRows' = bindingRows /\ grants' = grants /\ faults' = faults
    BY <1>6 DEF vars, locals
  <2>2. \A w \in Workers : TakenFromList(w)'
    BY <2>1 DEF LeaksInv, TakenFromList, UnbindsNow
  <2>3. \A g, c : KeptFor(g, c)' <=> KeptFor(g, c)
    BY <2>1 DEF KeptFor, RowKeeps, PastBy, WorkerKeeps, Permission
  <2>4. \A c : UserOf(c)' = UserOf(c)
    BY DEF UserOf
  <2>5. Forsaken' = Forsaken
    BY <2>1, <2>3, <2>4 DEF Forsaken
  <2> QED BY <1>a, <2>1, <2>2, <2>5 DEF LeaksInv
<1> QED BY <1>2, <1>3, <1>4, <1>5, <1>6 DEF Next

(* Every database has an owner, and every user that is lost is forsaken. *)
LEMMA LostCounted ==
  ASSUME LeaksInv
  PROVE  LeaksBounded
<1>a. /\ TypeInv /\ BindingsInv /\ faults \in Nat
      /\ \A w \in Workers : TakenFromList(w)
      /\ IsFiniteSet(Forsaken) /\ Cardinality(Forsaken) <= faults
  BY LeaksFacts DEF LeaksInv
<1>1. LostDatabases = {}
  <2> SUFFICES ASSUME NEW db \in LostDatabases PROVE FALSE
    OBVIOUS
  <2>1. PICK o \in Owners : DatabaseOf(o.data) = db
    BY <1>a DEF LostDatabases, BindingsInv, DatabasesInv, AllOwned
  <2>2. PICK w \in Workers : pc[w] = "addInstance" /\ o = RecordOf(w)
    BY <2>1 DEF LostDatabases, Owners
  <2>3. w \in CreatorsOf(db)
    BY <2>1, <2>2 DEF CreatorsOf, RecordOf
  <2> QED BY <2>3 DEF LostDatabases
<1>2. ASSUME NEW user \in LostUsers, NEW g, NEW c, KeptFor(g, c), UserOf(c) = user
      PROVE  FALSE
  <2>1. PICK w \in Workers : WorkerKeeps(w) /\ cred[w] = c
    BY <1>2 DEF KeptFor, LostUsers
  <2>2. pc[w] \notin BoundLabels
    BY <1>2, <2>1 DEF LostUsers, BindersOf
  <2>3. pc[w] \in UnbindLabels /\ req[w].op # "unbind"
    BY <1>2, <2>1, <2>2 DEF LostUsers, UnbindersOf, WorkerKeeps
  <2>4. req[w].op = "remove"
    BY <1>a, <2>3, OpAt DEF UnbindLabels
  <2>5. \E r \in bindingRows : r.cred = c
    BY <1>a, <2>1, <2>3, <2>4 DEF TakenFromList, UnbindsNow
  <2> QED BY <1>2, <2>5 DEF LostUsers
<1>3. LostUsers \subseteq Forsaken
  BY <1>2 DEF LostUsers, Forsaken
<1>4. Cardinality(LostUsers) \in Nat /\ Cardinality(LostUsers) <= Cardinality(Forsaken)
  BY <1>a, <1>3, FS_Subset, FS_CardinalityType
<1>5. Cardinality(Forsaken) \in Nat /\ Cardinality(LostDatabases) = 0
  BY <1>a, <1>1, FS_CardinalityType, FS_EmptySet
<1> QED BY <1>a, <1>4, <1>5 DEF LeaksBounded

-----------------------------------------------------------------------------
(***************************************************************************)
(* On the SQL store, with one request at a time and one binding per        *)
(* instance, a call of the store or of Stardog that fails without effect   *)
(* leaves at most one user behind with no record of it, wherever it        *)
(* strikes: in Bind after the user is made, in UnBind after the record is  *)
(* gone, in the loop of RemoveServiceInstance or in the list it works on.  *)
(* No database is left behind, and nothing is without a failure, however   *)
(* often requests repeat.                                                  *)
(***************************************************************************)
THEOREM LeaksAreBounded == LeakSetting => (Spec => []LeaksBounded)
<1> SUFFICES ASSUME LeakSetting PROVE Spec => []LeaksBounded
  OBVIOUS
<1>1. Init => LeaksInv
  BY LeaksInit
<1>2. LeaksInv /\ [Next]_vars => LeaksInv'
  BY LeaksNext
<1>3. LeaksInv => LeaksBounded
  BY LostCounted
<1> QED BY <1>1, <1>2, <1>3, PTL DEF Spec
=============================================================================
