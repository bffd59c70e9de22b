--------------------------- MODULE AccountsProofs ---------------------------
(***************************************************************************)
(* Proofs about Accounts for any number of users, requests and calls.      *)
(* Every variable keeps its type, and every copy of a user that a call may *)
(* write is complete. Such a copy sets the fields its request asked for,   *)
(* and has in the others what the last answered request said, or the field *)
(* is lost. A registration that was compared with the stored users clashes *)
(* with none of them until it is stored. Hence users are as told, keys are *)
(* apart, and who was told he has an account can sign in.                  *)
(***************************************************************************)
EXTENDS Accounts, CallsProofs, FiniteProofs

-----------------------------------------------------------------------------
(* Users as records and as functions of their fields.                      *)

\* A user is a record with a value of its type in each field.
LEMMA UserFields ==
  ASSUME NEW u
  PROVE  u \in User <=>
    /\ u = [f \in {"id"} \cup Fields |-> u[f]]
    /\ u["id"] \in Ids /\ u["name"] \in Names /\ u["slug"] \in Slug
    /\ u["email"] \in Email /\ u["password"] \in Hash \cup {None}
    /\ u["role"] \in Roles /\ u["requested"] \in Roles \cup {None}
    /\ u["document"] \in Documents \cup {None} /\ u["active"] \in BOOLEAN
BY DEF User, Fields

\* What a write asks of a user it can ask of any.
LEMMA SpreadType ==
  ASSUME NEW u \in User, NEW v \in User, NEW asks, DOMAIN asks \subseteq Fields,
         Spread(u, asks) \in User
  PROVE  Spread(v, asks) \in User
BY UserFields DEF Spread, Fields

-----------------------------------------------------------------------------
(* The inductive invariant: not only the stored users are complete, but     *)
(* also every copy of a user that a call under way is going to write,       *)
(* unless an update has emptied his document or made him a professor.       *)

Complete(u) ==
  <<u.id, "document">> \notin excused =>
    /\ u.requested = "professor" => u.document \notin Missing
    /\ u.role = "professor" /\ <<u.id, "role">> \notin excused => u.document \notin Missing

Fit(c) ==
  /\ c.op \in {"slugs", "duplicate", "insert"} => c.user.role \in Roles
  /\ c.op \in {"duplicate", "insert"} => IsComplete(c.user)
  /\ c.op = "replace" => Complete(c.user) /\ told[c.user.id] # None

Typed(c) == IsWrite(c) \/ c \in Call

IInv ==
  /\ TypeOK
  /\ IsFiniteSet(users)
  /\ \A u \in users : Complete(u) /\ told[u.id] # None
  /\ \A c \in BagToSet(pending) : Fit(c)

\* Typed calls, by their op.
LEMMA CallTypes ==
  ASSUME NEW c, Typed(c)
  PROVE  /\ c.op = "replace" => IsWrite(c)
         /\ c.op \in {"slugs", "duplicate", "insert"} => c \in Registrations
         /\ c.op = "status" => c \in Statuses
         /\ c.op = "reset" => c \in Resets
         /\ c.op = "token" => c \in TokenWrites
BY DEF Typed, IsWrite, Call, Registrations, Statuses, Resets, TokenWrites

LEMMA PendingCalls ==
  ASSUME IInv
  PROVE  IsABag(pending) /\ \A c \in BagToSet(pending) : Typed(c) /\ Fit(c)
BY DEF IInv, TypeOK, Typed

\* A step that stores no user and takes back no excuse keeps the invariant if
\* the calls it adds are fit.
LEMMA KeepUsers ==
  ASSUME IInv, NEW new,
         IsABag(pending'), BagToSet(pending') \subseteq BagToSet(pending) \cup new,
         \A c \in new : Typed(c) /\ Fit(c)',
         UNCHANGED <<users, told, lost>>,
         excused \subseteq excused', excused' \subseteq Ids \X {"email", "slug", "role", "document"},
         tokens' \subseteq [token : Tokens, id : Ids, expired : BOOLEAN],
         otp' \in [Codes -> Email \cup {None}], aged' \subseteq Codes
  PROVE  IInv'
<1>1. \A c : Fit(c) => Fit(c)'
  BY DEF Fit, Complete
<1>2. \A c \in BagToSet(pending') : Typed(c) /\ Fit(c)'
  BY <1>1, PendingCalls
<1>3. TypeOK'
  BY <1>2 DEF IInv, TypeOK, Typed
<1>4. \A u \in users' : Complete(u)' /\ told'[u.id] # None
  BY DEF IInv, Complete
<1>5. IsFiniteSet(users)'
  BY DEF IInv
<1> QED
  BY <1>2, <1>3, <1>4, <1>5 DEF IInv

\* Nor does a step that only answers calls, or none.
LEMMA KeepAll ==
  ASSUME IInv, IsABag(pending'), BagToSet(pending') \subseteq BagToSet(pending),
         UNCHANGED <<users, told, lost, excused>>,
         tokens' \subseteq [token : Tokens, id : Ids, expired : BOOLEAN],
         otp' \in [Codes -> Email \cup {None}], aged' \subseteq Codes
  PROVE  IInv'
<1> PICK none : none = {}
  OBVIOUS
<1>1. BagToSet(pending') \subseteq BagToSet(pending) \cup none
  OBVIOUS
<1>2. excused \subseteq excused' /\ excused' \subseteq Ids \X {"email", "slug", "role", "document"}
  BY DEF IInv, TypeOK
<1>3. \A c \in none : Typed(c) /\ Fit(c)'
  OBVIOUS
<1> HIDE DEF IInv, Typed, Fit
<1> QED
  BY <1>1, <1>2, <1>3, KeepUsers

\* Such a step that sends calls or answers one.
LEMMA SendStep ==
  ASSUME IInv, NEW new,
         \/ Start(new)
         \/ \E c \in BagToSet(pending) : Continue(c, new),
         \A c \in new : Typed(c) /\ Fit(c)',
         UNCHANGED <<users, otp, told, lost, aged>>,
         tokens' \subseteq [token : Tokens, id : Ids, expired : BOOLEAN],
         excused \subseteq excused', excused' \subseteq Ids \X {"email", "slug", "role", "document"}
  PROVE  IInv'
<1>1. IsABag(pending') /\ BagToSet(pending') \subseteq BagToSet(pending) \cup new
  BY PendingCalls, StartCalls, ContinueCalls
<1>2. otp' \in [Codes -> Email \cup {None}] /\ aged' \subseteq Codes
  BY DEF IInv, TypeOK
<1> QED
  BY <1>1, <1>2, KeepUsers

\* The parts of the type invariant every step needs.
LEMMA ExcusesAndTokens ==
  ASSUME IInv
  PROVE  /\ excused \subseteq Ids \X {"email", "slug", "role", "document"}
         /\ tokens \subseteq [token : Tokens, id : Ids, expired : BOOLEAN]
BY DEF IInv, TypeOK

\* A call is answered, and one that is fit is sent.
LEMMA AnswerStep ==
  ASSUME IInv, NEW c \in BagToSet(pending), NEW new, Continue(c, {new}),
         Typed(new), Fit(new),
         UNCHANGED <<users, tokens, otp, told, lost, excused, aged>>
  PROVE  IInv'
<1>1. \A d \in {new} : Typed(d) /\ Fit(d)'
  BY DEF Fit, Complete
<1>2. tokens' \subseteq [token : Tokens, id : Ids, expired : BOOLEAN]
  BY ExcusesAndTokens
<1>3. excused \subseteq excused' /\ excused' \subseteq Ids \X {"email", "slug", "role", "document"}
  BY ExcusesAndTokens
<1>4. \/ Start({new})
      \/ \E d \in BagToSet(pending) : Continue(d, {new})
  OBVIOUS
<1> HIDE DEF IInv, Typed, Fit, Continue, Start
<1> QED
  BY <1>1, <1>2, <1>3, <1>4, SendStep

\* A call is answered that stores the user u, in place of another or not.
LEMMA StoreStep ==
  ASSUME IInv, NEW c \in BagToSet(pending), Continue(c, {}),
         NEW u \in User, NEW v \in User, NEW others \in SUBSET users,
         users' = others \cup {u}, told' = [told EXCEPT ![u.id] = v],
         Complete(u)',
         excused \subseteq excused', excused' \subseteq Ids \X {"email", "slug", "role", "document"},
         lost' \subseteq Ids \X Fields,
         UNCHANGED <<tokens, otp, aged>>
  PROVE  IInv'
<1>1. u.id \in Ids /\ v # None
  BY AccountsAssumption DEF User
<1>2. told' \in [Ids -> User \cup {None}]
  BY <1>1 DEF IInv, TypeOK
<1>3. \A id \in Ids : told[id] # None => told'[id] # None
  BY <1>1 DEF IInv, TypeOK
<1>4. told'[u.id] # None
  BY <1>1 DEF IInv, TypeOK
<1>5. IsABag(pending') /\ BagToSet(pending') \subseteq BagToSet(pending)
  BY PendingCalls, ContinueCalls
<1>6. TypeOK'
  <2>1. users' \subseteq User
    BY DEF IInv, TypeOK
  <2>2. \A d \in BagToSet(pending') : IsWrite(d) \/ d \in Call
    BY <1>5 DEF IInv, TypeOK
  <2> QED
    BY <1>2, <1>5, <2>1, <2>2 DEF IInv, TypeOK
<1>7. \A w \in users' : Complete(w)' /\ told'[w.id] # None
  <2>1. \A w \in users : w.id \in Ids /\ Complete(w) /\ told[w.id] # None
    BY DEF IInv, TypeOK, User
  <2>2. \A w \in users : Complete(w)' /\ told'[w.id] # None
    BY <1>3, <2>1 DEF Complete
  <2> QED
    BY <1>4, <2>2
<1>8. \A d \in BagToSet(pending') : Fit(d)'
  <2> SUFFICES ASSUME NEW d \in BagToSet(pending')
               PROVE  Fit(d)'
    OBVIOUS
  <2>1. Typed(d) /\ Fit(d)
    BY <1>5, PendingCalls
  <2>2. d.op = "replace" => d.user.id \in Ids
    BY <2>1, CallTypes DEF IsWrite, User
  <2> QED
    BY <1>3, <2>1, <2>2 DEF Fit, Complete
<1>9. IsFiniteSet(users)'
  <2>1. IsFiniteSet(others)
    BY FS_Subset DEF IInv
  <2> QED
    BY <2>1, FS_AddElement
<1> QED
  BY <1>6, <1>7, <1>8, <1>9 DEF IInv

\* A write of a user is typed if what it asks keeps him a user.
LEMMA WriteTyped ==
  ASSUME NEW u \in User, NEW asks, NEW w,
         DOMAIN asks \subseteq Fields, Spread(u, asks) \in User,
         w = Write(u, asks) \/ w = [Write(u, asks) EXCEPT !.awaited = FALSE]
  PROVE  Typed(w) /\ w.op = "replace" /\ w.user = u
<1>1. PICK b \in BOOLEAN :
        w = [op |-> "replace", user |-> u, asks |-> asks, awaited |-> b]
  BY DEF Write
<1> QED
  BY <1>1 DEF Typed, IsWrite

\* getSlugs and generateUniqueSlug answer a slug of the name.
LEMMA FreeNumberType ==
  ASSUME IInv, NEW name
  PROVE  FreeNumber(name) \in Nat
<1> DEFINE f == [u \in users |-> u.slug]
<1>1. f \in Surjection(users, Slugs)
  BY DEF Slugs, Surjection
<1> HIDE DEF f
<1>2. IsFiniteSet(Slugs)
  BY <1>1, FS_Surjection DEF IInv
<1>3. Cardinality(Slugs) \in Nat
  BY <1>2, FS_CardinalityType
<1>4. FreeNumber(name) \in 1..Cardinality(Slugs) + 1
  BY <1>2, UniqueSlugIsNew DEF FreeNumber
<1> QED
  BY <1>3, <1>4

-----------------------------------------------------------------------------
(* Registration. *)

\* register and create: a user is stored only after IsComplete.
LEMMA RegistrationStep ==
  ASSUME IInv,
         \/ \E dto \in NewUsers : Create(dto) \/ \E code \in Codes : Register(dto, code)
         \/ \E c \in BagToSet(pending) : ChooseSlug(c) \/ FindDuplicate(c) \/ Insert(c)
  PROVE  IInv'
<1>1. ASSUME NEW dto \in NewUsers,
             Create(dto) \/ \E code \in Codes : Register(dto, code)
      PROVE  IInv'
  <2>1. PICK new \in NewUser : /\ Start({Registration(new)}) /\ new.role \in Roles
                              /\ UNCHANGED <<users, tokens, otp, told, lost, excused, aged>>
    BY <1>1, AccountsAssumption DEF Create, Register, NewUser
  <2>2. Typed(Registration(new)) /\ Fit(Registration(new))'
    BY <2>1 DEF Typed, Call, Registrations, Registration, Fit, NewUser, Normal, Email
  <2> QED
    BY <2>1, <2>2, SendStep DEF IInv, TypeOK
<1>2. ASSUME NEW c \in BagToSet(pending), ChooseSlug(c)
      PROVE  IInv'
  <2>1. Typed(c) /\ Fit(c) /\ c \in Registrations
    BY <1>2, PendingCalls, CallTypes DEF ChooseSlug
  <2>2. PICK n \in Nat, ex \in SUBSET {"email", "slug"} :
           Continue(c, {[c EXCEPT !.op = "duplicate", !.number = n, !.excuses = ex]})
    BY <1>2, <2>1, FreeNumberType DEF ChooseSlug, Registrations
  <2> DEFINE new == [c EXCEPT !.op = "duplicate", !.number = n, !.excuses = ex]
  <2>3. new \in Registrations /\ new.op = "duplicate" /\ new.user = c.user
    BY <2>1 DEF Registrations
  <2> HIDE DEF new
  <2>4. Typed(new) /\ Fit(new)
    BY <1>2, <2>1, <2>3 DEF Typed, Call, Fit, ChooseSlug
  <2>5. UNCHANGED <<users, tokens, otp, told, lost, excused, aged>> /\ Continue(c, {new})
    BY <1>2, <2>2 DEF ChooseSlug, new
  <2> QED
    BY <2>4, <2>5, AnswerStep
<1>3. ASSUME NEW c \in BagToSet(pending), FindDuplicate(c)
      PROVE  IInv'
  <2>1. Typed(c) /\ Fit(c) /\ c \in Registrations
    BY <1>3, PendingCalls, CallTypes DEF FindDuplicate
  <2>2. PICK ex \in SUBSET {"email", "slug"} :
           Continue(c, {[c EXCEPT !.op = "insert", !.excuses = ex]})
    BY <1>3, <2>1 DEF FindDuplicate, Registrations
  <2> DEFINE new == [c EXCEPT !.op = "insert", !.excuses = ex]
  <2>3. new \in Registrations /\ new.op = "insert" /\ new.user = c.user
    BY <2>1 DEF Registrations
  <2> HIDE DEF new
  <2>4. Typed(new) /\ Fit(new)
    BY <1>3, <2>1, <2>3 DEF Typed, Call, Fit, FindDuplicate
  <2>5. UNCHANGED <<users, tokens, otp, told, lost, excused, aged>> /\ Continue(c, {new})
    BY <1>3, <2>2 DEF FindDuplicate, new
  <2> QED
    BY <2>4, <2>5, AnswerStep
<1>4. ASSUME NEW c \in BagToSet(pending), Insert(c)
      PROVE  IInv'
  <2>1. Typed(c) /\ Fit(c) /\ c \in Registrations
    BY <1>4, PendingCalls, CallTypes DEF Insert
  <2>2. PICK id, new :
           /\ id \in Ids
           /\ new = [id |-> id, name |-> c.user.name, slug |-> <<c.user.name, c.number>>,
                email |-> c.user.email, password |-> Hashed(c.user.password),
                role |-> c.user.role, requested |-> c.user.requested,
                document |-> c.user.document, active |-> TRUE]
           /\ users' = users \cup {new} /\ told' = [told EXCEPT ![id] = new]
           /\ excused' = excused \cup {id} \X c.excuses
    BY <1>4 DEF Insert
  <2>3. new \in User /\ new.id = id
    BY <1>4, <2>1, <2>2 DEF Insert, Fit, Registrations, NewUser, User, Slug, Hash
  <2>4. Complete(new)'
    BY <1>4, <2>1, <2>2 DEF Insert, Fit, IsComplete, Complete
  <2>5. excused \subseteq excused' /\ excused' \subseteq Ids \X {"email", "slug", "role", "document"}
    BY <2>1, <2>2 DEF Registrations, IInv, TypeOK
  <2> QED
    BY <1>4, <2>2, <2>3, <2>4, <2>5, StoreStep DEF Insert, IInv, TypeOK
<1> QED
  BY <1>1, <1>2, <1>3, <1>4

-----------------------------------------------------------------------------
(* The changes of a user. *)

\* update, toggleActiveState, acceptChangeRoleRequest.
LEMMA ChangeStep ==
  ASSUME IInv,
         \E user \in users :
           \/ \E change \in Changes : Update(user, change)
           \/ ToggleActiveState(user)
           \/ \E accept \in BOOLEAN : AcceptChangeRoleRequest(user, accept)
  PROVE  IInv'
<1> PICK user \in users :
      \/ \E change \in Changes : Update(user, change)
      \/ ToggleActiveState(user)
      \/ \E accept \in BOOLEAN : AcceptChangeRoleRequest(user, accept)
  OBVIOUS
<1>1. user \in User /\ Complete(user) /\ told[user.id] # None
  BY DEF IInv, TypeOK
<1>2. ASSUME NEW change \in Changes, Update(user, change)
      PROVE  IInv'
  <2> DEFINE asks == [f \in DOMAIN change \ {"requested"} |->
                        IF f = "password" THEN Hashed(change[f]) ELSE change[f]]
             new == Spread(user, asks)
             w == Write(new, asks)
  <2>1. /\ Start({w})
        /\ excused \subseteq excused'
        /\ "role" \in DOMAIN asks => <<user.id, "role">> \in excused'
        /\ "document" \in DOMAIN asks /\ asks["document"] \in Missing =>
             <<user.id, "document">> \in excused'
        /\ excused' \subseteq excused \cup {user.id} \X {"email", "role", "document"}
        /\ UNCHANGED <<users, tokens, otp, told, lost, aged>>
    BY <1>2 DEF Update
  <2>2. /\ DOMAIN asks \subseteq Fields
        /\ "name" \in DOMAIN asks => asks["name"] \in Names
        /\ "email" \in DOMAIN asks => asks["email"] \in Email
        /\ "password" \in DOMAIN asks => asks["password"] \in Hash
        /\ "role" \in DOMAIN asks => asks["role"] \in Roles
        /\ "document" \in DOMAIN asks => asks["document"] \in Documents
        /\ DOMAIN asks \cap {"id", "slug", "active", "requested"} = {}
    BY AccountsAssumption DEF Fields, Hash
  <2> HIDE DEF asks
  <2>3. new \in User /\ new.id = user.id
    BY <1>1, <2>2, UserFields DEF Spread, Fields
  <2>4. Complete(new)'
    BY <1>1, <2>1, <2>2, AccountsAssumption DEF Complete, Spread, User
  <2>5. Typed(w) /\ w.op = "replace" /\ w.user = new
    <3>1. Spread(new, asks) = new
      BY DEF Spread
    <3> HIDE DEF new
    <3> QED
      BY <2>2, <2>3, <3>1, WriteTyped
  <2>6. Fit(w)'
    BY <1>1, <2>1, <2>3, <2>4, <2>5 DEF Fit
  <2> HIDE DEF w
  <2>7. excused' \subseteq Ids \X {"email", "slug", "role", "document"}
    BY <1>1, <2>1, ExcusesAndTokens DEF User
  <2>8. \A d \in {w} : Typed(d) /\ Fit(d)'
    BY <2>5, <2>6
  <2> QED
    BY <2>1, <2>7, <2>8, SendStep, ExcusesAndTokens
<1>3. ASSUME ToggleActiveState(user)
      PROVE  IInv'
  <2> DEFINE w == [op |-> "status", id |-> user.id, active |-> ~user.active]
  <2>1. Start({w}) /\ UNCHANGED <<users, tokens, otp, told, lost, excused, aged>>
    BY <1>3 DEF ToggleActiveState
  <2>2. Typed(w) /\ Fit(w)'
    BY <1>1 DEF Typed, Call, Statuses, Fit, User
  <2> HIDE DEF w
  <2>3. \A d \in {w} : Typed(d) /\ Fit(d)'
    BY <2>2
  <2> QED
    BY <2>1, <2>3, SendStep, ExcusesAndTokens
<1>4. ASSUME NEW accept \in BOOLEAN, AcceptChangeRoleRequest(user, accept)
      PROVE  IInv'
  <2> DEFINE new == Decided(user, accept)
             asks == IF accept THEN [role |-> user.requested, requested |-> None]
                     ELSE [requested |-> None]
             w == Write(new, asks)
  <2>1. Start({w}) /\ UNCHANGED <<users, tokens, otp, told, lost, excused, aged>>
    BY <1>4 DEF AcceptChangeRoleRequest
  <2>2. accept => user.requested \in Roles
    BY <1>4, AccountsAssumption DEF AcceptChangeRoleRequest, MayAccept
  <2>3. new \in User /\ new.id = user.id
    BY <1>1, <2>2 DEF Decided, User
  <2>4. Complete(new)'
    BY <1>1, <2>1, AccountsAssumption DEF Decided, Complete, User
  <2>5. DOMAIN asks \subseteq Fields /\ Spread(new, asks) = new
    <3>1. DOMAIN asks \subseteq Fields
      BY DEF Fields
    <3>2. \A f \in DOMAIN asks : asks[f] = new[f]
      <4>1. CASE accept
        <5>1. asks = [role |-> user.requested, requested |-> None]
          BY <4>1
        <5>2. new.role = user.requested /\ new.requested = None
          BY <1>1, <4>1 DEF Decided, User
        <5> QED
          BY <5>1, <5>2
      <4>2. CASE ~accept
        <5>1. asks = [requested |-> None]
          BY <4>2
        <5>2. new.requested = None
          BY <1>1, <4>2 DEF Decided, User
        <5> QED
          BY <5>1, <5>2
      <4> QED
        BY <4>1, <4>2
    <3>3. new = [f \in DOMAIN new |-> new[f]]
      BY <2>3, UserFields DEF Fields
    <3> HIDE DEF asks, new
    <3> QED
      BY <3>1, <3>2, <3>3 DEF Spread
  <2>6. Typed(w) /\ w.op = "replace" /\ w.user = new
    <3> HIDE DEF new, asks
    <3> QED
      BY <2>3, <2>5, WriteTyped
  <2>7. Fit(w)'
    BY <1>1, <2>1, <2>3, <2>4, <2>6 DEF Fit
  <2> HIDE DEF w
  <2>8. \A d \in {w} : Typed(d) /\ Fit(d)'
    BY <2>6, <2>7
  <2> QED
    BY <2>1, <2>8, SendStep, ExcusesAndTokens
<1> QED
  BY <1>2, <1>3, <1>4

-----------------------------------------------------------------------------
(* Active states, passwords and slugs: what is read and written later.      *)

\* updateStatus and resetPassword read the user when they write him.
LEMMA StatusAndResetStep ==
  ASSUME IInv, NEW c \in BagToSet(pending), UpdateStatus(c) \/ Reset(c)
  PROVE  IInv'
<1>1. Typed(c) /\ (c.op = "status" => c \in Statuses) /\ (c.op = "reset" => c \in Resets)
  BY PendingCalls, CallTypes
<1>2. ASSUME NEW user \in users, NEW asks, NEW new,
             Continue(c, {Write(new, asks)}),
             UNCHANGED <<users, tokens, otp, told, lost, excused, aged>>,
             new \in User, DOMAIN asks \subseteq Fields, Spread(new, asks) \in User,
             new.id = user.id, new.role = user.role, new.requested = user.requested,
             new.document = user.document
      PROVE  IInv'
  <2>1. Complete(user) /\ told[user.id] # None
    BY DEF IInv
  <2>2. /\ Typed(Write(new, asks)) /\ Write(new, asks).op = "replace"
        /\ Write(new, asks).user = new
    BY <1>2, WriteTyped
  <2>3. Fit(Write(new, asks))
    BY <1>2, <2>1, <2>2 DEF Fit, Complete
  <2> QED
    BY <1>2, <2>2, <2>3, AnswerStep
<1>3. ASSUME UpdateStatus(c)
      PROVE  IInv'
  <2>1. c \in Statuses
    BY <1>1, <1>3 DEF UpdateStatus
  <2>2. PICK user \in users :
          Continue(c, {Write([ToJson(user) EXCEPT !.active = c.active], [active |-> c.active])})
    BY <1>3 DEF UpdateStatus
  <2> DEFINE new == [ToJson(user) EXCEPT !.active = c.active]
             asks == [active |-> c.active]
  <2>3. user \in User
    BY DEF IInv, TypeOK
  <2>4. /\ new \in User /\ new.id = user.id /\ new.role = user.role
        /\ new.requested = user.requested /\ new.document = user.document
        /\ new.active = asks.active
    BY <2>1, <2>3 DEF ToJson, User, Statuses
  <2>5. DOMAIN asks = {"active"} /\ {"active"} \subseteq Fields
    BY DEF Fields
  <2> HIDE DEF new, asks
  <2>6. Spread(new, asks) = new
    BY <2>4, <2>5, UserFields DEF Spread
  <2> QED
    <3>1. Continue(c, {Write(new, asks)})
      BY <2>2 DEF new, asks
    <3>2. UNCHANGED <<users, tokens, otp, told, lost, excused, aged>>
      BY <1>3 DEF UpdateStatus
    <3> QED
      BY <1>2, <2>4, <2>5, <2>6, <3>1, <3>2
<1>4. ASSUME Reset(c)
      PROVE  IInv'
  <2>1. c \in Resets
    BY <1>1, <1>4 DEF Reset
  <2>2. PICK user \in users :
          Continue(c, {Write([user EXCEPT !.password = Hashed(c.password)],
                             [password |-> Hashed(c.password)])})
    BY <1>4 DEF Reset
  <2> DEFINE new == [user EXCEPT !.password = Hashed(c.password)]
             asks == [password |-> Hashed(c.password)]
  <2>3. user \in User
    BY DEF IInv, TypeOK
  <2>4. /\ new \in User /\ new.id = user.id /\ new.role = user.role
        /\ new.requested = user.requested /\ new.document = user.document
        /\ new.password = asks.password
    BY <2>1, <2>3 DEF User, Resets, Hash
  <2>5. DOMAIN asks = {"password"} /\ {"password"} \subseteq Fields
    BY DEF Fields
  <2> HIDE DEF new, asks
  <2>6. Spread(new, asks) = new
    BY <2>4, <2>5, UserFields DEF Spread
  <2> QED
    <3>1. Continue(c, {Write(new, asks)})
      BY <2>2 DEF new, asks
    <3>2. UNCHANGED <<users, tokens, otp, told, lost, excused, aged>>
      BY <1>4 DEF Reset
    <3> QED
      BY <1>2, <2>4, <2>5, <2>6, <3>1, <3>2
<1> QED
  BY <1>3, <1>4

\* updateSlugs writes each user with another slug.
LEMMA SlugStep ==
  ASSUME IInv, UpdateSlugs
  PROVE  IInv'
<1>1. PICK new :
        /\ Start(new)
        /\ \A d \in new : \E u \in users, slug \in Slug :
             d = [Write([u EXCEPT !.slug = slug], [slug |-> slug]) EXCEPT !.awaited = FALSE]
  <2> DEFINE slug(u) == <<u.name, FreeNumber(u.name)>>
             w(u) == [Write([u EXCEPT !.slug = slug(u)], [slug |-> slug(u)])
                        EXCEPT !.awaited = FALSE]
             sent == {w(u) : u \in users}
  <2>1. \A u \in users : slug(u) \in Slug
    BY FreeNumberType DEF IInv, TypeOK, User, Slug
  <2>2. Start(sent)
    BY DEF UpdateSlugs
  <2> HIDE DEF slug
  <2>3. \A d \in sent : \E u \in users, s \in Slug :
          d = [Write([u EXCEPT !.slug = s], [slug |-> s]) EXCEPT !.awaited = FALSE]
    BY <2>1
  <2> HIDE DEF sent
  <2> QED
    BY <2>2, <2>3
<1>2. /\ excused' = excused \cup {<<u.id, "slug">> : u \in users}
      /\ UNCHANGED <<users, tokens, otp, told, lost, aged>>
  BY DEF UpdateSlugs
<1>3. ASSUME NEW d \in new
      PROVE  Typed(d) /\ Fit(d)'
  <2>1. PICK u \in users, slug \in Slug :
          d = [Write([u EXCEPT !.slug = slug], [slug |-> slug]) EXCEPT !.awaited = FALSE]
    BY <1>1
  <2>2. u \in User /\ Complete(u) /\ told[u.id] # None
    BY DEF IInv, TypeOK
  <2> DEFINE v == [u EXCEPT !.slug = slug]
             asks == [slug |-> slug]
  <2>3. /\ v \in User /\ v.id = u.id /\ v.role = u.role
        /\ v.requested = u.requested /\ v.document = u.document
        /\ v.slug = asks.slug
    BY <2>1, <2>2 DEF User
  <2>4. DOMAIN asks = {"slug"} /\ {"slug"} \subseteq Fields
    BY DEF Fields
  <2>5. d = [Write(v, asks) EXCEPT !.awaited = FALSE]
    BY <2>1
  <2> HIDE DEF v, asks
  <2>6. Spread(v, asks) = v
    BY <2>3, <2>4, UserFields DEF Spread
  <2>7. Typed(d) /\ d.op = "replace" /\ d.user = v
    BY <2>3, <2>4, <2>5, <2>6, WriteTyped
  <2> QED
    BY <1>2, <2>2, <2>3, <2>7 DEF Fit, Complete
<1>4. excused' \subseteq Ids \X {"email", "slug", "role", "document"}
  BY <1>2, ExcusesAndTokens DEF IInv, TypeOK, User
<1> QED
  BY <1>1, <1>2, <1>3, <1>4, SendStep, ExcusesAndTokens

-----------------------------------------------------------------------------
(* The writes, the tokens and the environment. *)

\* The user that was read earlier and changed replaces the stored one.
LEMMA ReplaceStep ==
  ASSUME IInv, NEW c \in BagToSet(pending), Replace(c)
  PROVE  IInv'
<1>1. /\ IsWrite(c) /\ Complete(c.user) /\ told[c.user.id] # None
  BY PendingCalls, CallTypes DEF Replace, Fit
<1>2. c.user \in User /\ c.user.id \in Ids /\ DOMAIN c.asks \subseteq Fields
  BY <1>1 DEF IsWrite, User
<1>3. told[c.user.id] \in User
  BY <1>1, <1>2 DEF IInv, TypeOK
<1>4. Spread(told[c.user.id], c.asks) \in User
  BY <1>1, <1>2, <1>3, SpreadType DEF IsWrite
<1>5. \A o \in Others(c) : o.op = "replace" => DOMAIN o.asks \subseteq Fields
  BY PendingCalls, CallTypes DEF Others, IsWrite, (-), SetToBag, BagToSet
<1>6. Overwritten(c) \subseteq Fields
  BY <1>2 DEF Overwritten
<1>7. lost' \subseteq Ids \X Fields
  BY <1>2, <1>6 DEF Replace, IInv, TypeOK, Fields
<1>8. Complete(c.user)'
  BY <1>1 DEF Complete, Replace
<1>9. {u \in users : u.id # c.user.id} \in SUBSET users
  OBVIOUS
<1>10. /\ Continue(c, {}) /\ UNCHANGED <<tokens, otp, excused, aged>>
       /\ users' = {u \in users : u.id # c.user.id} \cup {c.user}
       /\ told' = [told EXCEPT ![c.user.id] = Spread(told[c.user.id], c.asks)]
  BY DEF Replace
<1> QED
  BY <1>2, <1>4, <1>7, <1>8, <1>9, <1>10, StoreStep, ExcusesAndTokens

\* The steps of a password reset before the user is read.
LEMMA TokenStep ==
  ASSUME IInv,
         \/ \E email \in Email, token \in Tokens : SendResetPasswordOtp(email, token)
         \/ \E token \in tokens, password \in Passwords : ResetPassword(token, password)
         \/ \E c \in BagToSet(pending) : StoreToken(c)
         \/ \E t \in tokens : ExpireToken(t)
  PROVE  IInv'
<1>1. ASSUME NEW email \in Email, NEW token \in Tokens, SendResetPasswordOtp(email, token)
      PROVE  IInv'
  <2>1. PICK user \in users : Start({[op |-> "token", id |-> user.id, token |-> token]})
    BY <1>1 DEF SendResetPasswordOtp, FindByEmail
  <2>2. \A d \in {[op |-> "token", id |-> user.id, token |-> token]} : Typed(d) /\ Fit(d)'
    BY DEF IInv, TypeOK, User, Typed, Call, TokenWrites, Fit
  <2>3. UNCHANGED <<users, tokens, otp, told, lost, excused, aged>>
    BY <1>1 DEF SendResetPasswordOtp
  <2> QED
    BY <2>1, <2>2, <2>3, SendStep, ExcusesAndTokens
<1>2. ASSUME NEW token \in tokens, NEW password \in Passwords, ResetPassword(token, password)
      PROVE  IInv'
  <2> DEFINE w == [op |-> "reset", id |-> token.id, password |-> password]
  <2>1. Start({w}) /\ UNCHANGED <<users, tokens, otp, told, lost, excused, aged>>
    BY <1>2 DEF ResetPassword
  <2>2. token.id \in Ids
    BY ExcusesAndTokens
  <2>3. \A d \in {w} : Typed(d) /\ Fit(d)'
    BY <2>2 DEF Typed, Call, Resets, Fit
  <2> HIDE DEF w
  <2> QED
    BY <2>1, <2>3, SendStep, ExcusesAndTokens
<1>3. ASSUME NEW c \in BagToSet(pending), StoreToken(c)
      PROVE  IInv'
  <2>1. c \in TokenWrites
    BY <1>3, PendingCalls, CallTypes DEF StoreToken
  <2>2. tokens' \subseteq [token : Tokens, id : Ids, expired : BOOLEAN]
    <3>1. [token |-> c.token, id |-> c.id, expired |-> FALSE]
            \in [token : Tokens, id : Ids, expired : BOOLEAN]
      BY <2>1 DEF TokenWrites
    <3> QED
      BY <1>3, <3>1, ExcusesAndTokens DEF StoreToken
  <2> DEFINE new == {}
  <2>3. Continue(c, new) /\ UNCHANGED <<users, otp, told, lost, excused, aged>>
    BY <1>3 DEF StoreToken
  <2>4. \A d \in new : Typed(d) /\ Fit(d)'
    OBVIOUS
  <2>5. excused \subseteq excused' /\ excused' \subseteq Ids \X {"email", "slug", "role", "document"}
    BY <2>3, ExcusesAndTokens
  <2> HIDE DEF new
  <2> QED
    BY <2>2, <2>3, <2>4, <2>5, SendStep
<1>4. ASSUME NEW t \in tokens, ExpireToken(t)
      PROVE  IInv'
  <2>1. tokens' \subseteq [token : Tokens, id : Ids, expired : BOOLEAN]
    BY <1>4, ExcusesAndTokens DEF ExpireToken
  <2>2. UNCHANGED <<users, otp, pending, told, lost, excused, aged>>
    BY <1>4 DEF ExpireToken
  <2>3. otp' \in [Codes -> Email \cup {None}] /\ aged' \subseteq Codes
    BY <2>2 DEF IInv, TypeOK
  <2>4. IsABag(pending') /\ BagToSet(pending') \subseteq BagToSet(pending)
    BY <2>2, PendingCalls
  <2> QED
    BY <2>1, <2>2, <2>3, <2>4, KeepAll, ExcusesAndTokens
<1> QED
  BY <1>1, <1>2, <1>3, <1>4

\* Codes, failures and restarts store no user.
LEMMA EnvironmentStep ==
  ASSUME IInv,
         \/ \E code \in Codes, email \in Email : SendOtp(code, email)
         \/ \E code \in Codes : Age(code)
         \/ \E c \in BagToSet(pending) : Fail(c)
         \/ Restart
  PROVE  IInv'
<1>1. UNCHANGED <<users, tokens, told, lost, excused>>
  BY DEF SendOtp, Age, Fail, Restart
<1>2. IsABag(pending') /\ BagToSet(pending') \subseteq BagToSet(pending)
  BY PendingCalls, ContinueCalls, NoCalls DEF SendOtp, Age, Fail, Restart
<1>3. otp' \in [Codes -> Email \cup {None}] /\ aged' \subseteq Codes
  BY DEF IInv, TypeOK, SendOtp, Age, Fail, Restart
<1> QED
  BY <1>1, <1>2, <1>3, KeepAll, ExcusesAndTokens

-----------------------------------------------------------------------------
(* The theorems. *)

\* No user, no call.
LEMMA Initially == Init => IInv
BY NoCalls, FS_EmptySet DEF Init, IInv, TypeOK

\* Every step keeps the invariant.
LEMMA Inductive == IInv /\ [Next]_vars => IInv'
<1> SUFFICES ASSUME IInv, [Next]_vars
             PROVE  IInv'
  OBVIOUS
<1>1. CASE Request
  BY <1>1, RegistrationStep, ChangeStep, TokenStep, SlugStep, EnvironmentStep DEF Request
<1>2. ASSUME NEW c \in BagToSet(pending), Answer(c) \/ Fail(c)
      PROVE  IInv'
  BY <1>2, RegistrationStep, StatusAndResetStep, TokenStep, ReplaceStep, EnvironmentStep
     DEF Answer
<1>3. CASE \E t \in tokens : ExpireToken(t)
  BY <1>3, TokenStep
<1>4. CASE (\E code \in Codes : Age(code)) \/ Restart
  BY <1>4, EnvironmentStep
<1>5. CASE UNCHANGED vars
  <2>1. IsABag(pending') /\ BagToSet(pending') \subseteq BagToSet(pending)
    BY <1>5, PendingCalls DEF vars
  <2>2. otp' \in [Codes -> Email \cup {None}] /\ aged' \subseteq Codes
    BY <1>5 DEF vars, IInv, TypeOK
  <2> QED
    BY <1>5, <2>1, <2>2, KeepAll, ExcusesAndTokens DEF vars
<1> QED
  BY <1>1, <1>2, <1>3, <1>4, <1>5 DEF Next

\* In every reachable state the stored users are complete, and so is every
\* copy of a user that a call under way may still write, unless an update set
\* the role or emptied the document (users.service.ts, update).
THEOREM CopiesStayComplete == Spec => []IInv
BY Initially, Inductive, PTL DEF Spec

\* Users, tokens, codes and calls under way keep their types.
THEOREM AccountsTypeCorrect == Spec => []TypeOK
<1>1. IInv => TypeOK
  BY DEF IInv
<1> QED
  BY <1>1, CopiesStayComplete, PTL

\* However the requests interleave, a user is a professor, or asks to be one,
\* only with a document that is not empty, unless an update set his role or
\* emptied his document.
THEOREM ProfessorsKeepTheirDocument == Spec => []ProfessorsAreComplete
<1>1. IInv => ProfessorsAreComplete
  BY DEF IInv, Complete, ProfessorsAreComplete
<1> QED
  BY <1>1, CopiesStayComplete, PTL
-----------------------------------------------------------------------------
(* What clients were told.  Every write under way sets the fields it was     *)
(* asked to set, and its other fields are as the last answered request made  *)
(* them, unless they are lost.                                               *)

OneEach ==
  /\ \A u, v \in users : u.id = v.id => u = v
  /\ \A id \in Ids : told[id] # None => \E u \in users : u.id = id

Asked(c) ==
  c.op = "replace" =>
    /\ \A f \in DOMAIN c.asks : c.user[f] = c.asks[f]
    /\ "password" \in DOMAIN c.asks => c.user["password"] # None
    /\ \A f \in Fields \ DOMAIN c.asks : <<c.user.id, f>> \notin lost =>
         \/ c.user[f] = told[c.user.id][f]
         \/ f = "password" /\ c.user[f] = None

AsToldInv ==
  /\ UserAsTold
  /\ \A c \in BagToSet(pending) : Asked(c)
  /\ \A id \in Ids : told[id] # None => told[id]["password"] # None

-----------------------------------------------------------------------------
(* What must be different in two users, under two keys: their slugs, and     *)
(* their addresses and documents.  A user is sure of a key if nothing        *)
(* excuses him; a registration is cleared once it was compared with the      *)
(* stored users while no other was between that and its insertion.           *)

Keys == {"slug", "email"}

KeyFields(k) == IF k = "slug" THEN {"slug"} ELSE {"email", "document"}

Checked(k) == IF k = "slug" THEN {"duplicate", "insert"} ELSE {"insert"}

Clash(k, a, b) ==
  IF k = "slug" THEN a["slug"] = b["slug"]
  ELSE \/ a["email"] = b["email"]
       \/ a["document"] # None /\ a["document"] = b["document"]

Offer(c) ==
  [slug |-> <<c.user.name, c.number>>, email |-> c.user.email, document |-> c.user.document]

Sure(id, k) == told[id] # None /\ <<id, k>> \notin excused

Cleared(k) == {c \in BagToSet(pending) : c.op \in Checked(k) /\ k \notin c.excuses}

KeyInv(k) ==
  /\ \A u \in users : Sure(u.id, k) => \A f \in KeyFields(k) : u[f] = told[u.id][f]
  /\ \A c \in BagToSet(pending) : c.op = "replace" /\ Sure(c.user.id, k) =>
       \A f \in KeyFields(k) : f \notin DOMAIN c.asks /\ c.user[f] = told[c.user.id][f]
  /\ \A i, j \in Ids : i # j /\ Sure(i, k) /\ Sure(j, k) => ~Clash(k, told[i], told[j])
  /\ \A c \in Cleared(k) :
       /\ pending[c] = 1 /\ \A d \in Cleared(k) : d = c
       /\ \A i \in Ids : Sure(i, k) => ~Clash(k, told[i], Offer(c))

\* The addresses of registrations are in lower case.
NormalInv ==
  /\ \A id \in Ids : Sure(id, "email") => told[id]["email"][2] = TRUE
  /\ \A c \in BagToSet(pending) :
       c.op \in {"slugs", "duplicate", "insert"} => c.user["email"][2] = TRUE

ToldInv == OneEach /\ AsToldInv /\ NormalInv /\ \A k \in Keys : KeyInv(k)

\* A call that tells nothing but what is stored and what it is asked.
Honest(d) ==
  /\ d.op \notin {"duplicate", "insert"}
  /\ d.op = "slugs" => d.user["email"][2] = TRUE
  /\ Asked(d)
  /\ \A k \in Keys : d.op = "replace" /\ <<d.user.id, k>> \notin excused' =>
       \A f \in KeyFields(k) : f \notin DOMAIN d.asks /\ d.user[f] = told[d.user.id][f]

\* A step that stores no user, and sends honest calls.
LEMMA KeepTold ==
  ASSUME IInv, ToldInv, NEW new,
         BagToSet(pending') \subseteq BagToSet(pending) \cup new,
         \A d \in BagToSet(pending) \cap BagToSet(pending') :
           d.op \in {"duplicate", "insert"} /\ pending[d] = 1 => pending'[d] = 1,
         \A d \in new : Honest(d),
         UNCHANGED <<users, told, lost>>, excused \subseteq excused'
  PROVE  ToldInv'
<1>1. OneEach'
  BY DEF ToldInv, OneEach
<1>2. AsToldInv'
  <2>1. \A d : Asked(d) => Asked(d)'
    BY DEF Asked
  <2>2. \A d \in BagToSet(pending') : Asked(d)'
    BY <2>1 DEF ToldInv, AsToldInv, Honest
  <2> QED
    BY <2>2 DEF ToldInv, AsToldInv, UserAsTold
<1>3. NormalInv'
  BY DEF ToldInv, NormalInv, Honest, Sure
<1>4. ASSUME NEW k \in Keys
      PROVE  KeyInv(k)'
  <2>1. KeyInv(k) /\ \A i : Sure(i, k)' => Sure(i, k) /\ <<i, k>> \notin excused'
    BY DEF ToldInv, Sure
  <2>2. \A u \in users' : Sure(u.id, k)' => \A f \in KeyFields(k) : u[f] = told'[u.id][f]
    BY <2>1 DEF KeyInv
  <2>3. ASSUME NEW c \in BagToSet(pending'), c.op = "replace", Sure(c.user.id, k)'
        PROVE  \A f \in KeyFields(k) : f \notin DOMAIN c.asks /\ c.user[f] = told'[c.user.id][f]
    <3>1. CASE c \in BagToSet(pending)
      BY <2>1, <2>3, <3>1 DEF KeyInv
    <3>2. CASE c \in new
      BY <2>1, <2>3, <3>2 DEF Honest
    <3> QED
      BY <3>1, <3>2
  <2>4. \A i, j \in Ids : i # j /\ Sure(i, k)' /\ Sure(j, k)' => ~Clash(k, told'[i], told'[j])
    BY <2>1 DEF KeyInv
  <2>5. ASSUME NEW c \in Cleared(k)'
        PROVE  c \in Cleared(k) /\ pending'[c] = 1
    <3>1. c \in BagToSet(pending) /\ c.op \in {"duplicate", "insert"}
      BY DEF Cleared, Checked, Honest
    <3>2. c \in Cleared(k)
      BY <3>1 DEF Cleared
    <3> QED
      BY <2>1, <3>1, <3>2 DEF Cleared, KeyInv
  <2> QED
    BY <2>1, <2>2, <2>3, <2>4, <2>5 DEF KeyInv
<1> QED
  BY <1>1, <1>2, <1>3, <1>4 DEF ToldInv

\* Such a step that sends calls or answers one.
LEMMA SendKeeps ==
  ASSUME IInv, ToldInv, NEW new,
         \/ Start(new)
         \/ \E c \in BagToSet(pending) : Continue(c, new),
         \A d \in new : Honest(d),
         UNCHANGED <<users, told, lost>>, excused \subseteq excused'
  PROVE  ToldInv'
<1>1. BagToSet(pending') \subseteq BagToSet(pending) \cup new
  BY PendingCalls, StartCalls, ContinueCalls
<1>2. ASSUME NEW d \in BagToSet(pending) \cap BagToSet(pending'),
             d.op \in {"duplicate", "insert"}, pending[d] = 1
      PROVE  pending'[d] = 1
  <2>1. d \notin new
    BY <1>2 DEF Honest
  <2>2. CASE Start(new)
    BY <1>2, <2>1, <2>2, PendingCalls, StartCounts
  <2>3. ASSUME NEW c \in BagToSet(pending), Continue(c, new)
        PROVE  pending'[d] = 1
    BY <1>2, <2>1, <2>3, PendingCalls, ContinueCounts
  <2> QED
    BY <2>2, <2>3
<1> QED
  BY <1>1, <1>2, KeepTold

\* A write of a user as he was read, but for what is asked.
LEMMA HonestWrite ==
  ASSUME IInv, ToldInv, excused \subseteq excused', NEW u \in users, NEW v, NEW asks, NEW w,
         w = Write(v, asks) \/ w = [Write(v, asks) EXCEPT !.awaited = FALSE],
         v.id = u.id,
         \A f \in DOMAIN asks : v[f] = asks[f],
         "password" \in DOMAIN asks => v["password"] # None,
         \A f \in Fields \ DOMAIN asks : v[f] = u[f] \/ (f = "password" /\ v[f] = None),
         \A k \in Keys : KeyFields(k) \cap DOMAIN asks # {} => <<u.id, k>> \in excused'
  PROVE  Honest(w)
<1>1. w.op = "replace" /\ w.user = v /\ w.asks = asks
  BY DEF Write
<1>2. told[u.id] # None
  BY DEF IInv
<1>3. Asked(w)
  BY <1>1 DEF Asked, ToldInv, AsToldInv, UserAsTold
<1>4. ASSUME NEW k \in Keys, <<u.id, k>> \notin excused', NEW f \in KeyFields(k)
      PROVE  f \notin DOMAIN asks /\ v[f] = told[u.id][f]
  <2>1. f \notin DOMAIN asks /\ f \in Fields /\ f # "password"
    BY <1>4 DEF KeyFields, Fields
  <2>2. u[f] = told[u.id][f]
    BY <1>2, <1>4 DEF ToldInv, KeyInv, Sure
  <2> QED
    BY <2>1, <2>2
<1> QED
  BY <1>1, <1>3, <1>4 DEF Honest
\* A registration goes on: under each key it is excused, or cleared as before,
\* or now, when no other is between its own check and its insertion.
LEMMA AdvanceTold ==
  ASSUME IInv, ToldInv, NEW c \in BagToSet(pending), NEW new, Continue(c, {new}),
         c.op # new.op, new.op \in {"duplicate", "insert"},
         new.user["email"][2] = TRUE,
         \A k \in Keys :
           \/ new.op \notin Checked(k) \/ k \in new.excuses
           \/ c \in Cleared(k) /\ \A x : Clash(k, x, Offer(new)) => Clash(k, x, Offer(c))
           \/ /\ c.op \notin Checked(k) /\ \A o \in Others(c) : o.op \notin Checked(k)
              /\ \A u \in users : ~Clash(k, u, Offer(new)),
         UNCHANGED <<users, told, lost, excused>>
  PROVE  ToldInv'
<1>1. /\ IsABag(pending) /\ BagToSet(pending') \subseteq BagToSet(pending) \cup {new}
      /\ \A d \in BagToSet(pending) \ {c, new} : pending'[d] = pending[d]
      /\ new \notin BagToSet(pending) => pending'[new] = 1
      /\ pending[c] = 1 => c \notin BagToSet(pending')
  <2>1. \A d \in {new} : d \notin BagToSet(pending) => pending'[d] = 1
    BY PendingCalls, ContinueCounts
  <2> QED
    BY <2>1, PendingCalls, ContinueCalls, ContinueCounts
<1>2. OneEach'
  BY DEF ToldInv, OneEach
<1>3. AsToldInv'
  <2>1. \A d \in BagToSet(pending') : Asked(d)'
    BY <1>1 DEF ToldInv, AsToldInv, Asked
  <2> QED
    BY <2>1 DEF ToldInv, AsToldInv, UserAsTold
<1>4. NormalInv'
  BY <1>1 DEF ToldInv, NormalInv, Sure
<1>5. ASSUME NEW k \in Keys
      PROVE  KeyInv(k)'
  <2>1. KeyInv(k) /\ \A i : Sure(i, k)' <=> Sure(i, k)
    BY DEF ToldInv, Sure
  <2>2. \A u \in users' : Sure(u.id, k)' => \A f \in KeyFields(k) : u[f] = told'[u.id][f]
    BY <2>1 DEF KeyInv
  <2>3. \A d \in BagToSet(pending') : d.op = "replace" /\ Sure(d.user.id, k)' =>
          \A f \in KeyFields(k) : f \notin DOMAIN d.asks /\ d.user[f] = told'[d.user.id][f]
    BY <1>1, <2>1 DEF KeyInv
  <2>4. \A i, j \in Ids : i # j /\ Sure(i, k)' /\ Sure(j, k)' => ~Clash(k, told'[i], told'[j])
    BY <2>1 DEF KeyInv
  <2>5. ASSUME NEW d \in Cleared(k)'
        PROVE  /\ pending'[d] = 1 /\ \A e \in Cleared(k)' : e = d
               /\ \A i \in Ids : Sure(i, k) => ~Clash(k, told[i], Offer(d))
    <3>1. \A e \in Cleared(k)' : e = new \/ e \in Cleared(k)
      BY <1>1 DEF Cleared
    <3>2. CASE new.op \notin Checked(k) \/ k \in new.excuses
      <4>1. \A e \in Cleared(k)' : e # new /\ e \in Cleared(k)
        BY <3>1, <3>2 DEF Cleared
      <4>2. pending[d] = 1 /\ d # c
        BY <1>1, <2>1, <4>1 DEF KeyInv, Cleared
      <4> QED
        BY <1>1, <2>1, <4>1, <4>2 DEF KeyInv, Cleared
    <3>3. CASE c \in Cleared(k) /\ \A x : Clash(k, x, Offer(new)) => Clash(k, x, Offer(c))
      <4>1. pending[c] = 1 /\ \A e \in Cleared(k) : e = c
        BY <2>1, <3>3 DEF KeyInv
      <4>2. \A e \in Cleared(k)' : e = new
        BY <1>1, <3>1, <4>1 DEF Cleared
      <4>3. new \notin BagToSet(pending)
        BY <3>3, <4>1, <4>2 DEF Cleared
      <4> QED
        BY <1>1, <2>1, <3>3, <4>2, <4>3 DEF KeyInv
    <3>4. CASE /\ c.op \notin Checked(k) /\ \A o \in Others(c) : o.op \notin Checked(k)
               /\ \A u \in users : ~Clash(k, u, Offer(new))
      <4>0. \A e \in BagToSet(pending) : e # c => e \in Others(c)
        <5>1. IsABag(pending)
          BY <1>1
        <5>2. Others(c) = {d1 \in BagToSet(pending) : d1 # c \/ pending[d1] > 1}
          BY <5>1, OthersAre, Zenon DEF Others
        <5> QED
          BY <5>2
      <4>1. \A e \in BagToSet(pending) : e.op \notin Checked(k)
        BY <3>4, <4>0
      <4>2. \A e \in Cleared(k)' : e = new
        BY <3>1, <4>1 DEF Cleared
      <4>3. new \notin BagToSet(pending)
        BY <4>1, <4>2 DEF Cleared
      <4>4. ASSUME NEW i \in Ids, Sure(i, k)
            PROVE  ~Clash(k, told[i], Offer(new))
        <5>1. PICK u \in users : u.id = i
          BY <4>4 DEF ToldInv, OneEach, Sure
        <5>2. \A f \in KeyFields(k) : u[f] = told[i][f]
          BY <2>1, <4>4, <5>1 DEF KeyInv
        <5> QED
          BY <3>4, <5>2 DEF Clash, KeyFields, Keys
      <4> QED
        BY <1>1, <4>2, <4>3, <4>4
    <3> QED
      BY <3>2, <3>3, <3>4
  <2> QED
    BY <2>1, <2>2, <2>3, <2>4, <2>5 DEF KeyInv
<1> QED
  BY <1>2, <1>3, <1>4, <1>5 DEF ToldInv

\* getSlugs is answered: the slug is none of a stored user.
LEMMA ChooseSlugTold ==
  ASSUME IInv, ToldInv, NEW c \in BagToSet(pending), ChooseSlug(c)
  PROVE  ToldInv'
<1> DEFINE n == FreeNumber(c.user.name)
           ex == IF \E o \in Others(c) : o.op \in {"duplicate", "insert"}
                 THEN c.excuses \cup {"slug"} ELSE c.excuses
           new == [c EXCEPT !.op = "duplicate", !.number = n, !.excuses = ex]
<1>1. c.op = "slugs" /\ c \in Registrations
  BY PendingCalls, CallTypes DEF ChooseSlug
<1>2. Continue(c, {new}) /\ UNCHANGED <<users, told, lost, excused>>
  BY <1>1 DEF ChooseSlug, Registrations
<1>3. new.op = "duplicate" /\ new.user = c.user /\ new.excuses = ex /\ new.number = n
  BY <1>1 DEF Registrations
<1>4. <<c.user.name, n>> \notin Slugs
  <2>1. IsFiniteSet(Slugs)
    <3> DEFINE f == [u \in users |-> u.slug]
    <3>1. f \in Surjection(users, Slugs)
      BY DEF Slugs, Surjection
    <3> HIDE DEF f
    <3> QED
      BY <3>1, FS_Surjection DEF IInv
  <2> QED
    BY <2>1, UniqueSlugIsNew DEF FreeNumber
<1> HIDE DEF n
<1>5. Offer(new)["slug"] = <<c.user.name, n>>
  BY <1>3 DEF Offer
<1>6. \A u \in users : ~Clash("slug", u, Offer(new))
  BY <1>4, <1>5 DEF Clash, Slugs
<1>7. new.user["email"][2] = TRUE
  BY <1>1, <1>3 DEF ToldInv, NormalInv
<1>8. "slug" \notin ex => \A o \in Others(c) : o.op \notin {"duplicate", "insert"}
  OBVIOUS
<1> HIDE DEF new, ex
<1>9. \A k \in Keys :
        \/ new.op \notin Checked(k) \/ k \in new.excuses
        \/ /\ c.op \notin Checked(k) /\ \A o \in Others(c) : o.op \notin Checked(k)
           /\ \A u \in users : ~Clash(k, u, Offer(new))
  BY <1>1, <1>3, <1>6, <1>8 DEF Keys, Checked
<1> QED
  BY <1>1, <1>2, <1>3, <1>7, <1>9, AdvanceTold

\* getDuplicatedUser is answered: no stored user has the address or document.
LEMMA FindDuplicateTold ==
  ASSUME IInv, ToldInv, NEW c \in BagToSet(pending), FindDuplicate(c)
  PROVE  ToldInv'
<1> DEFINE ex == IF \E o \in Others(c) : o.op = "insert"
                 THEN c.excuses \cup {"email"} ELSE c.excuses
           new == [c EXCEPT !.op = "insert", !.excuses = ex]
<1>1. c.op = "duplicate" /\ c \in Registrations
  BY PendingCalls, CallTypes DEF FindDuplicate
<1>2. Continue(c, {new}) /\ UNCHANGED <<users, told, lost, excused>>
  BY <1>1 DEF FindDuplicate, Registrations
<1>3. /\ new.op = "insert" /\ new.user = c.user /\ new.excuses = ex
      /\ new.number = c.number
  BY <1>1 DEF Registrations
<1>4. new.user["email"][2] = TRUE
  BY <1>1, <1>3 DEF ToldInv, NormalInv
<1>5. "email" \notin ex => \A o \in Others(c) : o.op # "insert"
  OBVIOUS
<1>6. "slug" \notin ex => "slug" \notin c.excuses
  OBVIOUS
<1> HIDE DEF new, ex
<1>7. Offer(new) = Offer(c)
  BY <1>3 DEF Offer
<1>8. \A u \in users : ~Clash("email", u, Offer(new))
  BY <1>3 DEF FindDuplicate, Duplicates, Clash, Offer
<1>9. \A k \in Keys :
        \/ new.op \notin Checked(k) \/ k \in new.excuses
        \/ c \in Cleared(k) /\ \A x : Clash(k, x, Offer(new)) => Clash(k, x, Offer(c))
        \/ /\ c.op \notin Checked(k) /\ \A o \in Others(c) : o.op \notin Checked(k)
           /\ \A u \in users : ~Clash(k, u, Offer(new))
  <2>1. CASE "slug" \notin ex
    BY <1>1, <1>3, <1>5, <1>6, <1>7, <1>8, <2>1 DEF Keys, Checked, Cleared
  <2>2. CASE "slug" \in ex
    BY <1>1, <1>3, <1>5, <1>8, <2>2 DEF Keys, Checked
  <2> QED
    BY <2>1, <2>2
<1> QED
  BY <1>1, <1>2, <1>3, <1>4, <1>9, AdvanceTold
\* The user is stored: a key under which his registration is cleared clashes
\* with nobody's, and under the others he is excused.
LEMMA InsertTold ==
  ASSUME IInv, ToldInv, NEW c \in BagToSet(pending), Insert(c)
  PROVE  ToldInv'
<1>1. c.op = "insert" /\ c \in Registrations /\ Continue(c, {}) /\ UNCHANGED lost
  BY PendingCalls, CallTypes DEF Insert
<1>2. PICK id, new :
        /\ id \in Ids
        /\ new = [id |-> id, name |-> c.user.name, slug |-> <<c.user.name, c.number>>,
             email |-> c.user.email, password |-> Hashed(c.user.password),
             role |-> c.user.role, requested |-> c.user.requested,
             document |-> c.user.document, active |-> TRUE]
        /\ told[id] = None
        /\ users' = users \cup {new} /\ told' = [told EXCEPT ![id] = new]
        /\ excused' = excused \cup {id} \X c.excuses
  BY DEF Insert
<1>3. /\ new.id = id /\ new["email"] = c.user["email"]
      /\ \A k \in Keys : \A x : Clash(k, x, new) <=> Clash(k, x, Offer(c))
  BY <1>2 DEF Keys, Clash, Offer
<1>4. new["password"] # None /\ new # None
  <2>1. new["password"] \in Hash /\ new.password = new["password"]
    BY <1>1, <1>2 DEF Registrations, NewUser, Hash
  <2>2. new \in User
    BY <1>1, <1>2, PendingCalls DEF Fit, Registrations, NewUser, User, Slug, Hash
  <2> QED
    BY <2>1, <2>2, AccountsAssumption
<1>5. /\ BagToSet(pending') \subseteq BagToSet(pending)
      /\ pending[c] = 1 => c \notin BagToSet(pending')
      /\ \A d \in BagToSet(pending) \ {c} : pending'[d] = pending[d]
  <2> PICK none : none = {}
    OBVIOUS
  <2>1. Continue(c, none)
    BY <1>1
  <2> QED
    BY <2>1, PendingCalls, ContinueCalls, ContinueCounts
<1>6. told'[id] = new /\ \A i \in Ids \ {id} : told'[i] = told[i]
  BY <1>2 DEF IInv, TypeOK
<1>7. /\ \A u \in users : u.id \in Ids /\ u.id # id
      /\ \A d \in BagToSet(pending) : d.op = "replace" => d.user.id \in Ids /\ d.user.id # id
  <2>1. ASSUME NEW d \in BagToSet(pending), d.op = "replace"
        PROVE  d.user.id \in Ids /\ d.user.id # id
    BY <1>2, <2>1, PendingCalls, CallTypes DEF Fit, IsWrite, User
  <2> QED
    BY <1>2, <2>1 DEF IInv, TypeOK, User
<1> HIDE DEF IInv
<1>8. users' = users \cup {new} /\ new.id = id
  BY <1>2, <1>3
<1>9. OneEach'
  BY <1>6, <1>7, <1>8 DEF ToldInv, OneEach
<1>10. AsToldInv'
  <2>1. UserAsTold'
    BY <1>1, <1>6, <1>7, <1>8 DEF ToldInv, AsToldInv, UserAsTold
  <2>2. \A d \in BagToSet(pending') : Asked(d)'
    BY <1>1, <1>5, <1>6, <1>7 DEF ToldInv, AsToldInv, Asked
  <2>3. \A i \in Ids : told'[i] # None => told'[i]["password"] # None
    BY <1>4, <1>6 DEF ToldInv, AsToldInv
  <2> QED
    BY <2>1, <2>2, <2>3 DEF AsToldInv
<1>11. NormalInv'
  <2>1. c.user["email"][2] = TRUE
    BY <1>1 DEF ToldInv, NormalInv
  <2> QED
    BY <1>2, <1>3, <1>5, <1>6, <2>1 DEF ToldInv, NormalInv, Sure
<1>12. ASSUME NEW k \in Keys
       PROVE  KeyInv(k)'
  <2>1. KeyInv(k)
    BY DEF ToldInv
  <2>2. \A i \in Ids \ {id} : Sure(i, k)' => Sure(i, k)
    BY <1>2, <1>6 DEF Sure
  <2>3. \A u \in users' : Sure(u.id, k)' => \A f \in KeyFields(k) : u[f] = told'[u.id][f]
    BY <1>6, <1>7, <1>8, <2>1, <2>2 DEF KeyInv
  <2>4. \A d \in BagToSet(pending') : d.op = "replace" /\ Sure(d.user.id, k)' =>
          \A f \in KeyFields(k) : f \notin DOMAIN d.asks /\ d.user[f] = told'[d.user.id][f]
    BY <1>5, <1>6, <1>7, <2>1, <2>2 DEF KeyInv
  <2>5. ASSUME Sure(id, k)'
        PROVE  c \in Cleared(k)
    <3>1. k \notin c.excuses
      BY <1>2, <2>5 DEF Sure
    <3> QED
      BY <1>1, <3>1 DEF Cleared, Checked
  <2>6. ASSUME NEW i \in Ids \ {id}, Sure(i, k)', Sure(id, k)'
        PROVE  ~Clash(k, told'[i], told'[id]) /\ ~Clash(k, told'[id], told'[i])
    <3>1. ~Clash(k, told[i], Offer(c))
      BY <2>1, <2>2, <2>5, <2>6 DEF KeyInv
    <3> QED
      BY <1>3, <1>6, <3>1 DEF Clash
  <2>7. \A i, j \in Ids : i # j /\ Sure(i, k)' /\ Sure(j, k)' => ~Clash(k, told'[i], told'[j])
    BY <1>6, <2>1, <2>2, <2>6 DEF KeyInv
  <2>8. ASSUME NEW d \in Cleared(k)'
        PROVE  /\ d \in Cleared(k) /\ d # c /\ pending'[d] = 1 /\ ~Sure(id, k)'
               /\ \A e \in Cleared(k)' : e = d
               /\ \A i \in Ids : Sure(i, k)' => ~Clash(k, told'[i], Offer(d))
    <3>1. \A e \in Cleared(k)' : e \in Cleared(k)
      BY <1>5 DEF Cleared
    <3>2. d # c
      BY <1>5, <2>1, <3>1 DEF KeyInv, Cleared
    <3>3. d \in Cleared(k) /\ ~Sure(id, k)'
      BY <2>1, <2>5, <3>1, <3>2 DEF KeyInv
    <3>4. d \in BagToSet(pending)
      BY <3>3 DEF Cleared
    <3> QED
      BY <1>5, <1>6, <2>1, <2>2, <3>1, <3>2, <3>3, <3>4 DEF KeyInv
  <2> QED
    BY <2>3, <2>4, <2>7, <2>8 DEF KeyInv
<1> QED
  BY <1>9, <1>10, <1>11, <1>12 DEF ToldInv

\* A write arrives: the fields it was asked to set become what was told, and
\* those that another write under way does not set are lost.
LEMMA ReplaceTold ==
  ASSUME IInv, ToldInv, NEW c \in BagToSet(pending), Replace(c)
  PROVE  ToldInv'
<1> DEFINE id == c.user.id
<1>1. /\ c.op = "replace" /\ IsWrite(c) /\ told[id] # None /\ Continue(c, {})
      /\ UNCHANGED excused
  BY PendingCalls, CallTypes DEF Replace, Fit
<1>2. id \in Ids /\ DOMAIN c.asks \subseteq Fields
  BY <1>1 DEF IsWrite, User
<1>3. told[id] \in User /\ DOMAIN told[id] = {"id"} \cup Fields
  <2>1. told[id] \in User
    BY <1>1, <1>2 DEF IInv, TypeOK
  <2> QED
    BY <2>1, UserFields
<1>4. /\ \A i \in Ids \ {id} : told'[i] = told[i]
      /\ \A f \in DOMAIN c.asks : told'[id][f] = c.asks[f]
      /\ \A f \in Fields \ DOMAIN c.asks : told'[id][f] = told[id][f]
      /\ told'[id] # None
  <2>1. told' = [told EXCEPT ![id] = Spread(told[id], c.asks)]
    BY DEF Replace
  <2>2. told'[id] = Spread(told[id], c.asks) /\ \A i \in Ids \ {id} : told'[i] = told[i]
    BY <1>2, <2>1 DEF IInv, TypeOK
  <2>3. Spread(told[id], c.asks) \in User
    BY <1>1, <1>3, SpreadType DEF IsWrite
  <2> QED
    BY <1>2, <1>3, <2>2, <2>3, AccountsAssumption DEF Spread
<1>5. users' = {u \in users : u.id # id} \cup {c.user}
  BY DEF Replace
<1>6. /\ BagToSet(pending') = Others(c)
      /\ BagToSet(pending') \subseteq BagToSet(pending)
      /\ \A d \in BagToSet(pending) \ {c} : pending'[d] = pending[d]
  <2> PICK none : none = {}
    OBVIOUS
  <2>1. Continue(c, none)
    BY <1>1
  <2> QED
    BY <1>1, <2>1, PendingCalls, AnswerLeaves, ContinueCalls, ContinueCounts
<1>7. /\ \A i \in Ids \ {id} : \A f \in Fields : <<i, f>> \in lost' <=> <<i, f>> \in lost
      /\ \A f \in Fields \ DOMAIN c.asks : <<id, f>> \notin lost' =>
           <<id, f>> \notin lost /\ (f = "password" => c.user["password"] # None)
      /\ \A f \in DOMAIN c.asks : <<id, f>> \notin lost' =>
           f \notin Overwritten(c)
  BY <1>2 DEF Replace
<1>8. \A d \in BagToSet(pending) : d.op = "replace" => d.user.id \in Ids
  BY PendingCalls, CallTypes DEF IsWrite, User
<1>9. \A u \in users : u.id \in Ids
  BY DEF IInv, TypeOK, User
<1> HIDE DEF IInv
<1>10. OneEach'
  BY <1>1, <1>4, <1>5, <1>9 DEF ToldInv, OneEach
<1>11. Asked(c)
  BY DEF ToldInv, AsToldInv
<1>12. UserAsTold'
  <2>1. ASSUME NEW f \in Fields, <<id, f>> \notin lost'
        PROVE  c.user[f] = told'[id][f]
    <3>1. CASE f \in DOMAIN c.asks
      BY <1>1, <1>4, <1>11, <3>1 DEF Asked
    <3>2. CASE f \notin DOMAIN c.asks
      BY <1>1, <1>4, <1>7, <1>11, <2>1, <3>2 DEF Asked
    <3> QED
      BY <3>1, <3>2
  <2>2. ASSUME NEW u \in users, u.id # id, NEW f \in Fields, <<u.id, f>> \notin lost'
        PROVE  u[f] = told'[u.id][f]
    BY <1>4, <1>7, <1>9, <2>2 DEF ToldInv, AsToldInv, UserAsTold
  <2> QED
    BY <1>5, <2>1, <2>2 DEF UserAsTold
<1>13. ASSUME NEW d \in BagToSet(pending'), d.op = "replace"
       PROVE  Asked(d)'
  <2>1. Asked(d) /\ d.user.id \in Ids
    BY <1>6, <1>8, <1>13 DEF ToldInv, AsToldInv
  <2>2. ASSUME NEW f \in Fields \ DOMAIN d.asks, <<d.user.id, f>> \notin lost'
        PROVE  \/ d.user[f] = told'[d.user.id][f]
               \/ f = "password" /\ d.user[f] = None
    <3>1. CASE d.user.id # id
      BY <1>4, <1>7, <1>13, <2>1, <2>2, <3>1 DEF Asked
    <3>2. CASE d.user.id = id
      <4>1. f \notin DOMAIN c.asks
        <5> SUFFICES ASSUME f \in DOMAIN c.asks
                     PROVE  f \in Overwritten(c)
          BY <1>7, <2>2, <3>2
        <5>1. d \in Others(c)
          BY <1>6
        <5>2. d \in {o \in Others(c) : o.op = "replace" /\ o.user.id = c.user.id}
          BY <1>13, <3>2, <5>1
        <5> QED
          BY <5>2 DEF Overwritten
      <4> QED
        BY <1>4, <1>7, <1>13, <2>1, <2>2, <3>2, <4>1 DEF Asked
    <3> QED
      BY <3>1, <3>2
  <2> QED
    BY <2>1, <2>2 DEF Asked
<1>14. AsToldInv'
  <2>1. \A i \in Ids : told'[i] # None => told'[i]["password"] # None
    <3>1. told'[id]["password"] # None
      <4>1. "password" \in Fields
        BY DEF Fields
      <4> QED
        BY <1>1, <1>2, <1>4, <1>11, <4>1 DEF ToldInv, AsToldInv, Asked
    <3> QED
      BY <1>4, <3>1 DEF ToldInv, AsToldInv
  <2>2. \A d \in BagToSet(pending') : Asked(d)'
    BY <1>13 DEF Asked
  <2> QED
    BY <1>12, <2>1, <2>2 DEF AsToldInv
<1>15. ASSUME NEW k \in Keys
       PROVE  /\ \A i \in Ids : Sure(i, k)' =>
                   Sure(i, k) /\ \A f \in KeyFields(k) : told'[i][f] = told[i][f]
              /\ Sure(id, k) => \A f \in KeyFields(k) : c.user[f] = told[id][f]
  <2>1. KeyFields(k) \subseteq Fields
    BY DEF KeyFields, Fields
  <2>2. Sure(id, k) => \A f \in KeyFields(k) : f \notin DOMAIN c.asks /\ c.user[f] = told[id][f]
    BY <1>1 DEF ToldInv, KeyInv
  <2> QED
    BY <1>1, <1>4, <2>1, <2>2 DEF Sure
<1>16. NormalInv'
  BY <1>6, <1>15 DEF ToldInv, NormalInv, Sure, Keys, KeyFields
<1>17. ASSUME NEW k \in Keys
       PROVE  KeyInv(k)'
  <2>1. KeyInv(k)
    BY DEF ToldInv
  <2>2. \A u \in users' : Sure(u.id, k)' => \A f \in KeyFields(k) : u[f] = told'[u.id][f]
    BY <1>2, <1>5, <1>9, <1>15, <2>1 DEF KeyInv
  <2>3. \A d \in BagToSet(pending') : d.op = "replace" /\ Sure(d.user.id, k)' =>
          \A f \in KeyFields(k) : f \notin DOMAIN d.asks /\ d.user[f] = told'[d.user.id][f]
    BY <1>6, <1>8, <1>15, <2>1 DEF KeyInv
  <2>4. \A i \in Ids : Sure(i, k)' => \A x : Clash(k, told'[i], x) => Clash(k, told[i], x)
    BY <1>15 DEF KeyFields, Clash
  <2>5. \A i, j \in Ids : i # j /\ Sure(i, k)' /\ Sure(j, k)' => ~Clash(k, told'[i], told'[j])
    BY <1>15, <2>1 DEF KeyInv, KeyFields, Clash
  <2>6. \A d \in Cleared(k)' : d \in Cleared(k) /\ d \in BagToSet(pending) /\ d # c
    BY <1>1, <1>6 DEF Cleared, Checked
  <2> QED
    BY <1>6, <1>15, <2>1, <2>2, <2>3, <2>4, <2>5, <2>6 DEF KeyInv
<1> QED
  BY <1>10, <1>14, <1>16, <1>17 DEF ToldInv
\* register and create.
LEMMA RegisterTold ==
  ASSUME IInv, ToldInv, NEW dto \in NewUsers,
         Create(dto) \/ \E code \in Codes : Register(dto, code)
  PROVE  ToldInv'
<1>1. PICK new \in NewUser : /\ Start({Registration(new)})
                            /\ UNCHANGED <<users, told, lost, excused>>
  BY AccountsAssumption DEF Create, Register, NewUser
<1>2. Honest(Registration(new))
  BY DEF Honest, Asked, Registration, NewUser, Normal
<1>3. \A d \in {Registration(new)} : Honest(d)
  BY <1>2
<1> QED
  BY <1>1, <1>3, SendKeeps

\* A user is read and a write is sent.
LEMMA WriteTold ==
  ASSUME IInv, ToldInv, excused \subseteq excused', NEW u \in users, NEW v, NEW asks,
         \/ Start({Write(v, asks)})
         \/ \E c \in BagToSet(pending) : Continue(c, {Write(v, asks)}),
         v.id = u.id,
         \A f \in DOMAIN asks : v[f] = asks[f],
         "password" \in DOMAIN asks => v["password"] # None,
         \A f \in Fields \ DOMAIN asks : v[f] = u[f] \/ (f = "password" /\ v[f] = None),
         \A k \in Keys : KeyFields(k) \cap DOMAIN asks # {} => <<u.id, k>> \in excused',
         UNCHANGED <<users, told, lost>>
  PROVE  ToldInv'
<1> DEFINE new == {Write(v, asks)}
<1>1. \A d \in new : Honest(d)
  BY HonestWrite
<1>2. \/ Start(new)
      \/ \E c \in BagToSet(pending) : Continue(c, new)
  OBVIOUS
<1> HIDE DEF new
<1> QED
  BY <1>1, <1>2, SendKeeps

\* update
LEMMA UpdateTold ==
  ASSUME IInv, ToldInv, NEW u \in users, NEW change \in Changes, Update(u, change)
  PROVE  ToldInv'
<1> DEFINE asks == [f \in DOMAIN change \ {"requested"} |->
                      IF f = "password" THEN Hashed(change[f]) ELSE change[f]]
           v == Spread(u, asks)
<1>1. /\ Start({Write(v, asks)}) /\ UNCHANGED <<users, told, lost>>
      /\ excused \subseteq excused'
      /\ DOMAIN asks \cap {"email", "document"} # {} => <<u.id, "email">> \in excused'
  BY DEF Update
<1>2. /\ DOMAIN asks \subseteq Fields \ {"slug", "active", "requested"}
      /\ "password" \in DOMAIN asks => asks["password"] \in Hash
  BY AccountsAssumption DEF Fields, Hash
<1> HIDE DEF asks
<1>3. u = [f \in {"id"} \cup Fields |-> u[f]] /\ "id" \notin Fields
  BY UserFields DEF IInv, TypeOK, Fields
<1>4. /\ \A f \in DOMAIN asks : v[f] = asks[f]
      /\ \A f \in Fields \ DOMAIN asks : v[f] = u[f]
      /\ v.id = u.id
  BY <1>2, <1>3 DEF Spread
<1>5. "password" \in DOMAIN asks => v["password"] # None
  BY <1>2, <1>4, AccountsAssumption
<1>6. \A k \in Keys : KeyFields(k) \cap DOMAIN asks # {} => <<u.id, k>> \in excused'
  BY <1>1, <1>2 DEF Keys, KeyFields
<1>7. \A f \in Fields \ DOMAIN asks : v[f] = u[f] \/ (f = "password" /\ v[f] = None)
  BY <1>4
<1>8. Start({Write(v, asks)}) /\ UNCHANGED <<users, told, lost>> /\ excused \subseteq excused'
  BY <1>1
<1> HIDE DEF v
<1> QED
  BY <1>4, <1>5, <1>6, <1>7, <1>8, WriteTold

\* acceptChangeRoleRequest
LEMMA AcceptTold ==
  ASSUME IInv, ToldInv, NEW u \in users, NEW accept \in BOOLEAN,
         AcceptChangeRoleRequest(u, accept)
  PROVE  ToldInv'
<1> DEFINE v == Decided(u, accept)
           asks == IF accept THEN [role |-> u.requested, requested |-> None]
                   ELSE [requested |-> None]
<1>1. Start({Write(v, asks)}) /\ UNCHANGED <<users, told, lost, excused>>
  BY DEF AcceptChangeRoleRequest
<1>2. u \in User
  BY DEF IInv, TypeOK
<1>3. DOMAIN asks = IF accept THEN {"role", "requested"} ELSE {"requested"}
  OBVIOUS
<1>4. \A f \in DOMAIN asks : v[f] = asks[f]
  <2>1. CASE accept
    <3>1. asks = [role |-> u.requested, requested |-> None]
      BY <2>1
    <3>2. v.role = u.requested /\ v.requested = None
      BY <1>2, <2>1 DEF Decided, User
    <3> QED
      BY <3>1, <3>2
  <2>2. CASE ~accept
    <3>1. asks = [requested |-> None]
      BY <2>2
    <3>2. v.requested = None
      BY <1>2, <2>2 DEF Decided, User
    <3> QED
      BY <3>1, <3>2
  <2> QED
    BY <2>1, <2>2
<1>5. v.id = u.id /\ \A f \in Fields \ DOMAIN asks : v[f] = u[f]
  <2>1. u = [f \in {"id"} \cup Fields |-> u[f]]
    BY <1>2, UserFields
  <2>2. \A f \in {"id"} \cup Fields : f \notin {"role", "requested"} => v[f] = u[f]
    BY <1>2, <2>1 DEF Decided, User
  <2>3. ~accept => v.role = u.role
    BY <1>2 DEF Decided, User
  <2> QED
    BY <1>3, <2>2, <2>3 DEF Fields
<1>6. \A k \in Keys : KeyFields(k) \cap DOMAIN asks = {}
  BY <1>3 DEF Keys, KeyFields
<1>7. "password" \notin DOMAIN asks
  BY <1>3
<1> HIDE DEF v, asks
<1> QED
  BY <1>1, <1>4, <1>5, <1>6, <1>7, WriteTold

\* updateStatus writes no password, resetPassword a new one.
LEMMA StatusAndResetTold ==
  ASSUME IInv, ToldInv, NEW c \in BagToSet(pending), UpdateStatus(c) \/ Reset(c)
  PROVE  ToldInv'
<1>1. ASSUME UpdateStatus(c)
      PROVE  ToldInv'
  <2>1. PICK u \in users :
          Continue(c, {Write([ToJson(u) EXCEPT !.active = c.active], [active |-> c.active])})
    BY <1>1 DEF UpdateStatus
  <2> DEFINE v == [ToJson(u) EXCEPT !.active = c.active]
             asks == [active |-> c.active]
  <2>2. u \in User /\ u = [f \in {"id"} \cup Fields |-> u[f]]
    BY UserFields DEF IInv, TypeOK
  <2>3. /\ v.id = u.id /\ v.active = asks.active
        /\ \A f \in Fields \ {"active"} : v[f] = u[f] \/ (f = "password" /\ v[f] = None)
    BY <2>2 DEF ToJson, User, Fields
  <2>4. DOMAIN asks = {"active"} /\ \A f \in DOMAIN asks : v[f] = asks[f]
    <3>1. DOMAIN asks = {"active"}
      OBVIOUS
    <3> HIDE DEF v, asks
    <3> QED
      BY <2>3, <3>1
  <2>5. \A k \in Keys : KeyFields(k) \cap DOMAIN asks = {}
    BY <2>4 DEF Keys, KeyFields
  <2>6. Continue(c, {Write(v, asks)}) /\ UNCHANGED <<users, told, lost, excused>>
    BY <1>1, <2>1 DEF UpdateStatus
  <2> HIDE DEF v, asks
  <2> QED
    BY <2>3, <2>4, <2>5, <2>6, WriteTold
<1>2. ASSUME Reset(c)
      PROVE  ToldInv'
  <2>1. PICK u \in users :
          Continue(c, {Write([u EXCEPT !.password = Hashed(c.password)],
                             [password |-> Hashed(c.password)])})
    BY <1>2 DEF Reset
  <2> DEFINE v == [u EXCEPT !.password = Hashed(c.password)]
             asks == [password |-> Hashed(c.password)]
  <2>2. u \in User /\ u = [f \in {"id"} \cup Fields |-> u[f]]
    BY UserFields DEF IInv, TypeOK
  <2>3. /\ v.id = u.id /\ v.password = asks.password
        /\ \A f \in Fields \ {"password"} : v[f] = u[f]
    BY <2>2 DEF User, Fields
  <2>4. DOMAIN asks = {"password"} /\ \A f \in DOMAIN asks : v[f] = asks[f]
    <3>1. DOMAIN asks = {"password"}
      OBVIOUS
    <3> HIDE DEF v, asks
    <3> QED
      BY <2>3, <3>1
  <2>5. \A k \in Keys : KeyFields(k) \cap DOMAIN asks = {}
    BY <2>4 DEF Keys, KeyFields
  <2>6. v["password"] # None
    <3>1. c.op = "reset" /\ c \in Resets
      BY <1>2, PendingCalls, CallTypes DEF Reset
    <3>2. asks.password \in Hash
      BY <3>1 DEF Resets, Hash
    <3> HIDE DEF v, asks
    <3> QED
      BY <2>3, <3>2, AccountsAssumption
  <2>7. Continue(c, {Write(v, asks)}) /\ UNCHANGED <<users, told, lost, excused>>
    BY <1>2, <2>1 DEF Reset
  <2> HIDE DEF v, asks
  <2> QED
    BY <2>3, <2>4, <2>5, <2>6, <2>7, WriteTold
<1> QED
  BY <1>1, <1>2

\* updateSlugs excuses the slugs of all users that it writes.
LEMMA SlugsTold ==
  ASSUME IInv, ToldInv, UpdateSlugs
  PROVE  ToldInv'
<1>1. PICK new :
        /\ Start(new)
        /\ \A d \in new : \E u \in users : \E slug :
             d = [Write([u EXCEPT !.slug = slug], [slug |-> slug]) EXCEPT !.awaited = FALSE]
  <2> DEFINE slug(u) == <<u.name, FreeNumber(u.name)>>
             w(u) == [Write([u EXCEPT !.slug = slug(u)], [slug |-> slug(u)])
                        EXCEPT !.awaited = FALSE]
             sent == {w(u) : u \in users}
  <2>1. Start(sent)
    BY DEF UpdateSlugs
  <2> HIDE DEF slug
  <2>2. \A d \in sent : \E u \in users : \E s :
          d = [Write([u EXCEPT !.slug = s], [slug |-> s]) EXCEPT !.awaited = FALSE]
    OBVIOUS
  <2> HIDE DEF sent
  <2> QED
    BY <2>1, <2>2
<1>2. /\ excused \subseteq excused' /\ \A u \in users : <<u.id, "slug">> \in excused'
      /\ UNCHANGED <<users, told, lost>>
  BY DEF UpdateSlugs
<1>3. ASSUME NEW d \in new
      PROVE  Honest(d)
  <2>1. PICK u \in users : \E slug :
          d = [Write([u EXCEPT !.slug = slug], [slug |-> slug]) EXCEPT !.awaited = FALSE]
    BY <1>1
  <2>2. PICK slug :
          d = [Write([u EXCEPT !.slug = slug], [slug |-> slug]) EXCEPT !.awaited = FALSE]
    BY <2>1
  <2> DEFINE v == [u EXCEPT !.slug = slug]
             asks == [slug |-> slug]
  <2>3. u \in User /\ u = [f \in {"id"} \cup Fields |-> u[f]]
    BY UserFields DEF IInv, TypeOK
  <2>4. /\ v.id = u.id /\ v.slug = asks.slug
        /\ \A f \in Fields \ {"slug"} : v[f] = u[f]
    BY <2>3 DEF User, Fields
  <2>5. DOMAIN asks = {"slug"} /\ \A f \in DOMAIN asks : v[f] = asks[f]
    <3>1. DOMAIN asks = {"slug"}
      OBVIOUS
    <3> HIDE DEF v, asks
    <3> QED
      BY <2>4, <3>1
  <2>6. \A k \in Keys : KeyFields(k) \cap DOMAIN asks # {} => <<u.id, k>> \in excused'
    BY <1>2, <2>5 DEF Keys, KeyFields
  <2>7. d = [Write(v, asks) EXCEPT !.awaited = FALSE]
    BY <2>2
  <2> HIDE DEF v, asks
  <2> QED
    BY <1>2, <2>4, <2>5, <2>6, <2>7, HonestWrite
<1> QED
  BY <1>1, <1>2, <1>3, SendKeeps

\* Calls that write no user, and answers after which nothing is sent.
LEMMA OtherCallsTold ==
  ASSUME IInv, ToldInv,
         \/ \E user \in users : ToggleActiveState(user)
         \/ \E email \in Email, token \in Tokens : SendResetPasswordOtp(email, token)
         \/ \E token \in tokens, password \in Passwords : ResetPassword(token, password)
         \/ \E c \in BagToSet(pending) : StoreToken(c) \/ Fail(c)
  PROVE  ToldInv'
<1>1. UNCHANGED <<users, told, lost, excused>>
  BY DEF ToggleActiveState, SendResetPasswordOtp, ResetPassword, StoreToken, Fail
<1>2. PICK new : /\ \/ Start(new)
                    \/ \E c \in BagToSet(pending) : Continue(c, new)
                 /\ \A d \in new : d.op \in {"status", "token", "reset"}
  <2>1. ASSUME NEW d, d.op \in {"status", "token", "reset"}, Start({d})
        PROVE  \E new : Start(new) /\ \A e \in new : e.op \in {"status", "token", "reset"}
    BY <2>1
  <2>2. CASE \E user \in users : ToggleActiveState(user)
    BY <2>1, <2>2 DEF ToggleActiveState
  <2>3. CASE \E email \in Email, token \in Tokens : SendResetPasswordOtp(email, token)
    BY <2>1, <2>3 DEF SendResetPasswordOtp
  <2>4. CASE \E token \in tokens, password \in Passwords : ResetPassword(token, password)
    BY <2>1, <2>4 DEF ResetPassword
  <2>5. CASE \E c \in BagToSet(pending) : StoreToken(c) \/ Fail(c)
    <3>1. \E c \in BagToSet(pending) : Continue(c, {})
      BY <2>5 DEF StoreToken, Fail
    <3> QED
      BY <3>1
  <2> QED
    BY <2>2, <2>3, <2>4, <2>5
<1>3. \A d \in new : Honest(d)
  BY <1>2 DEF Honest, Asked
<1> QED
  BY <1>1, <1>2, <1>3, SendKeeps

\* Steps that send nothing and answer nothing.
LEMMA QuietTold ==
  ASSUME IInv, ToldInv, UNCHANGED <<users, told, lost, excused>>,
         UNCHANGED pending \/ BagToSet(pending') = {}
  PROVE  ToldInv'
<1> PICK new : new = {}
  OBVIOUS
<1>1. /\ BagToSet(pending') \subseteq BagToSet(pending) \cup new
      /\ \A d \in BagToSet(pending) \cap BagToSet(pending') :
           d.op \in {"duplicate", "insert"} /\ pending[d] = 1 => pending'[d] = 1
      /\ \A d \in new : Honest(d)
  OBVIOUS
<1> QED
  BY <1>1, KeepTold

LEMMA ToldInductive == IInv /\ ToldInv /\ [Next]_vars => ToldInv'
<1> SUFFICES ASSUME IInv, ToldInv, [Next]_vars
             PROVE  ToldInv'
  OBVIOUS
<1>1. CASE Request
  <2>1. CASE \E code \in Codes, email \in Email : SendOtp(code, email)
    BY <2>1, QuietTold DEF SendOtp
  <2> QED
    BY <1>1, <2>1, RegisterTold, UpdateTold, AcceptTold, SlugsTold, OtherCallsTold DEF Request
<1>2. ASSUME NEW c \in BagToSet(pending), Answer(c) \/ Fail(c)
      PROVE  ToldInv'
  BY <1>2, ChooseSlugTold, FindDuplicateTold, InsertTold, ReplaceTold, StatusAndResetTold,
     OtherCallsTold DEF Answer
<1>3. CASE (\E t \in tokens : ExpireToken(t)) \/ (\E code \in Codes : Age(code))
  BY <1>3, QuietTold DEF ExpireToken, Age
<1>4. CASE Restart
  BY <1>4, QuietTold, NoCalls DEF Restart
<1>5. CASE UNCHANGED vars
  BY <1>5, QuietTold DEF vars
<1> QED
  BY <1>1, <1>2, <1>3, <1>4, <1>5 DEF Next

\* Whatever is stored or about to be written is what answered requests asked
\* for, but for the fields that are known to be lost; and keys clash only for
\* users that are excused.
THEOREM AnswersAreKept == Spec => []ToldInv
<1>1. Init => ToldInv
  <2> SUFFICES ASSUME Init
               PROVE  ToldInv
    OBVIOUS
  <2>1. users = {} /\ BagToSet(pending) = {} /\ \A id \in Ids : told[id] = None
    BY NoCalls DEF Init
  <2> QED
    BY <2>1 DEF ToldInv, OneEach, AsToldInv, UserAsTold, NormalInv, KeyInv, Cleared, Sure
<1> QED
  BY <1>1, ToldInductive, CopiesStayComplete, PTL DEF Spec

\* Each field of a user is as the last answered request that set it made it,
\* unless a request that had read an older value wrote that back (create,
\* update, updateStatus, resetPassword, acceptChangeRoleRequest, updateSlugs).
THEOREM UsersAreAsTold == Spec => []UserAsTold
<1>1. ToldInv => UserAsTold
  BY DEF ToldInv, AsToldInv
<1> QED
  BY <1>1, AnswersAreKept, PTL

\* Two users share an address or a document only if they were created at the
\* same time or an update set one of the two (getDuplicatedUser in create).
THEOREM DuplicatesAreExcused == Spec => []NoDuplicatesUnlessRaced
<1>1. ASSUME IInv, ToldInv
      PROVE  NoDuplicatesUnlessRaced
  <2> SUFFICES ASSUME NEW u \in users, NEW v \in users, u # v,
                      {<<u.id, "email">>, <<v.id, "email">>} \cap excused = {}
               PROVE  /\ u.email # v.email
                      /\ u.document # None => u.document # v.document
    BY DEF NoDuplicatesUnlessRaced
  <2>1. /\ u.id \in Ids /\ v.id \in Ids /\ u.id # v.id
        /\ Sure(u.id, "email") /\ Sure(v.id, "email")
    BY <1>1 DEF IInv, TypeOK, User, ToldInv, OneEach, Sure
  <2>2. ~Clash("email", told[u.id], told[v.id])
    BY <1>1, <2>1 DEF ToldInv, KeyInv, Keys
  <2>3. \A f \in {"email", "document"} : u[f] = told[u.id][f] /\ v[f] = told[v.id][f]
    BY <1>1, <2>1 DEF ToldInv, KeyInv, Keys, KeyFields
  <2> QED
    BY <2>2, <2>3 DEF Clash
<1> QED
  BY <1>1, AnswersAreKept, CopiesStayComplete, PTL

\* Two users share a slug only if one was chosen while another was about to be
\* stored, or updateSlugs has run (getSlugs in create).
THEOREM SharedSlugsAreExcused == Spec => []SlugsUnlessRaced
<1>1. ASSUME IInv, ToldInv
      PROVE  SlugsUnlessRaced
  <2> SUFFICES ASSUME NEW u \in users, NEW v \in users, u # v,
                      {<<u.id, "slug">>, <<v.id, "slug">>} \cap excused = {}
               PROVE  u.slug # v.slug
    BY DEF SlugsUnlessRaced
  <2>1. /\ u.id \in Ids /\ v.id \in Ids /\ u.id # v.id
        /\ Sure(u.id, "slug") /\ Sure(v.id, "slug")
    BY <1>1 DEF IInv, TypeOK, User, ToldInv, OneEach, Sure
  <2>2. ~Clash("slug", told[u.id], told[v.id])
    BY <1>1, <2>1 DEF ToldInv, KeyInv, Keys
  <2>3. u["slug"] = told[u.id]["slug"] /\ v["slug"] = told[v.id]["slug"]
    BY <1>1, <2>1 DEF ToldInv, KeyInv, Keys, KeyFields
  <2> QED
    BY <2>2, <2>3 DEF Clash
<1> QED
  BY <1>1, AnswersAreKept, CopiesStayComplete, PTL

\* A user who was told he is active signs in with the address and the password
\* he was told, in whatever case he types the address, and only as himself,
\* unless two users may share an address or a field of his was overwritten.
THEOREM UsersSignIn == Spec => []SignInAsTold
<1>1. ASSUME IInv, ToldInv
      PROVE  SignInAsTold
  <2> SUFFICES ASSUME NEW u \in users,
                      {u.id} \X {"email", "password", "active"} \cap lost = {},
                      told[u.id].active,
                      \A q \in users : <<q.id, "email">> \notin excused,
                      NEW e \in Email, e[1] = told[u.id].email[1]
               PROVE  SignIn(e, told[u.id].password[2]) = {u.id}
    BY DEF SignInAsTold
  <2>1. users \subseteq User /\ u.id \in Ids /\ told[u.id] \in User
    BY <1>1 DEF IInv, TypeOK, User
  <2>2. /\ u.email = told[u.id].email /\ u.password = told[u.id].password
        /\ u.active = told[u.id].active /\ u.password # None
    <3>1. \A f \in {"email", "password", "active"} : u[f] = told[u.id][f]
      <4>1. UserAsTold
        BY <1>1 DEF ToldInv, AsToldInv
      <4>2. \A f \in {"email", "password", "active"} : f \in Fields /\ <<u.id, f>> \notin lost
        BY DEF Fields
      <4> QED
        BY <4>1, <4>2 DEF UserAsTold
    <3>2. told[u.id]["password"] # None
      BY <1>1, <2>1 DEF IInv, ToldInv, AsToldInv
    <3> QED
      BY <3>1, <3>2
  <2>3. ASSUME NEW v \in users, v.email[1] = e[1]
        PROVE  v = u
    <3> SUFFICES ASSUME v # u
                 PROVE  FALSE
      OBVIOUS
    <3>1. /\ v.id \in Ids /\ u.id # v.id /\ v \in User /\ u \in User
          /\ Sure(u.id, "email") /\ Sure(v.id, "email")
      BY <1>1 DEF IInv, TypeOK, User, ToldInv, OneEach, Sure
    <3>2. ~Clash("email", told[u.id], told[v.id])
      BY <1>1, <2>1, <3>1 DEF ToldInv, KeyInv, Keys
    <3>3. \A f \in {"email"} : u[f] = told[u.id][f] /\ v[f] = told[v.id][f]
      BY <1>1, <3>1 DEF ToldInv, KeyInv, Keys, KeyFields
    <3>4. told[u.id]["email"][2] = TRUE /\ told[v.id]["email"][2] = TRUE
      BY <1>1, <2>1, <3>1 DEF ToldInv, NormalInv
    <3>5. u.email \in Addresses \X BOOLEAN /\ v.email \in Addresses \X BOOLEAN
      BY <3>1 DEF User, Email
    <3>6. u.email[1] = v.email[1] /\ u.email[2] = v.email[2]
      BY <2>2, <2>3, <3>3, <3>4
    <3>7. u.email = v.email
      BY <3>5, <3>6
    <3> QED
      BY <3>2, <3>3, <3>7 DEF Clash
  <2>4. FindByEmail(e) = {u}
    BY <2>2, <2>3 DEF FindByEmail
  <2>5. u.password = Hashed(told[u.id].password[2])
    BY <2>1, <2>2 DEF User, Hash, Hashed
  <2> QED
    BY <2>2, <2>4, <2>5 DEF SignIn
<1> QED
  BY <1>1, AnswersAreKept, CopiesStayComplete, PTL
=============================================================================
