------------------------------ MODULE Accounts ------------------------------
(***************************************************************************)
(* The users of src/users, their registration, sign-in, roles and password *)
(* resets (src/auth, UsersRepository, OtpService).                         *)
(*                                                                         *)
(* Every change of a user reads his whole document, waits, and writes it   *)
(* whole.  `pending` (Calls) holds what is under way; each element waits   *)
(* for one call, and any of them may be answered next.  Nobody waits for   *)
(* the writes of updateSlugs.                                              *)
(*                                                                         *)
(* Not in the model: who may call what, fields that are only copied, mail. *)
(* Users are deleted only by the migration, which is not part of this      *)
(* module.                                                                 *)
(***************************************************************************)
EXTENDS Naturals, FiniteSets, Calls, UniqueSlug

CONSTANTS
  Ids,            \* the ids the database gives to users
  Names, Addresses, Passwords, Documents, Roles,
  Blank,          \* the document that is the empty string, or null
  RequestableRoles,
  Codes,          \* verification codes sent by mail
  Tokens,         \* tokens to reset a password
  OtpIsActive,    \* OTP_VERIFICATION_IS_ACTIVE
  NewUsers,       \* what clients register,
  Changes,        \*   and what they change of a user
  None

\* An address as it was typed: <<address, whether it is in lower case>>.
Email == Addresses \X BOOLEAN

\* <<name, n>> is the slug of the name, with the suffix -n if n > 1.
Slug == Names \X Nat

Hashed(password) == <<"bcrypt", password>>

Hash == {Hashed(p) : p \in Passwords}

User ==
  [id : Ids, name : Names, slug : Slug, email : Email, password : Hash \cup {None},
   role : Roles, requested : Roles \cup {None}, document : Documents \cup {None},
   active : BOOLEAN]

Fields == {"name", "slug", "email", "password", "role", "requested", "document", "active"}

NewUser ==
  [name : Names, email : Email, password : Passwords, role : Roles \cup {None},
   requested : Roles \cup {None}, document : Documents \cup {None}]

ASSUME AccountsAssumption ==
  /\ {"professor", "user", "author"} \subseteq Roles
  /\ RequestableRoles \subseteq Roles
  /\ Blank \in Documents
  /\ OtpIsActive \in BOOLEAN
  /\ NewUsers \subseteq NewUser
  /\ \A dto \in Changes :
       /\ DOMAIN dto \subseteq {"name", "email", "password", "role", "requested", "document"}
       /\ "name" \in DOMAIN dto => dto.name \in Names
       /\ "email" \in DOMAIN dto => dto.email \in Email
       /\ "password" \in DOMAIN dto => dto.password \in Passwords
       /\ "role" \in DOMAIN dto => dto.role \in Roles
       /\ "requested" \in DOMAIN dto => dto.requested \in Roles
       /\ "document" \in DOMAIN dto => dto.document \in Documents
  /\ None \notin Hash /\ None \notin Documents /\ None \notin Roles
  /\ None \notin User /\ None \notin Email

VARIABLES
  users,    \* the container of users
  tokens,   \* the container of reset tokens
  otp,      \* OTP_CACHE: the address each code was sent to
  \* What callers have been told, and what befell the users:
  told,     \* each user as the answered requests made him
  lost,     \* fields of a user overwritten by a request that did not set them
  excused,  \* users whose email or slug may not be their own, or whose role
            \*   an update set, or whose document it emptied
  aged      \* codes sent more than OTP_EXPIRATION_TIME ago

vars == <<users, tokens, otp, pending, told, lost, excused, aged>>

-----------------------------------------------------------------------------
(* What is under way. *)

Registrations ==
  [op : {"slugs", "duplicate", "insert"}, user : NewUser, number : Nat,
   excuses : SUBSET {"email", "slug"}]

Statuses == [op : {"status"}, id : Ids, active : BOOLEAN]

Resets == [op : {"reset"}, id : Ids, password : Passwords]

TokenWrites == [op : {"token"}, id : Ids, token : Tokens]

Call == Registrations \cup Statuses \cup Resets \cup TokenWrites

\* What a write asks of the user: the fields it sets, and their values.
Spread(user, asks) ==
  [f \in DOMAIN user |-> IF f \in DOMAIN asks THEN asks[f] ELSE user[f]]

IsWrite(c) ==
  /\ DOMAIN c = {"op", "user", "asks", "awaited"}
  /\ c.op = "replace"
  /\ c.user \in User
  /\ DOMAIN c.asks \subseteq Fields
  /\ Spread(c.user, c.asks) \in User
  /\ c.awaited \in BOOLEAN

TypeOK ==
  /\ users \subseteq User
  /\ tokens \subseteq [token : Tokens, id : Ids, expired : BOOLEAN]
  /\ otp \in [Codes -> Email \cup {None}]
  /\ IsABag(pending) /\ \A c \in BagToSet(pending) : IsWrite(c) \/ c \in Call
  /\ told \in [Ids -> User \cup {None}]
  /\ lost \subseteq Ids \X Fields
  /\ excused \subseteq Ids \X {"email", "slug", "role", "document"}
  /\ aged \subseteq Codes

Init ==
  /\ users = {} /\ tokens = {}
  /\ otp = [code \in Codes |-> None]
  /\ pending = EmptyBag
  /\ told = [id \in Ids |-> None]
  /\ lost = {} /\ excused = {} /\ aged = {}

-----------------------------------------------------------------------------
(* Faults of the kind this code could have, which the runs must detect; no *)
(* definition uses them.                                                   *)
WithoutRequest(user) == [user EXCEPT !.password = None, !.requested = None]
SameEmail(email, document) == {u \in users : u.email = email}
FirstNumber(name) == 1
AnyRequest(user) == TRUE
AnyProfessor(dto) == TRUE
FindExactly(email) == {u \in users : u.email = email}

-----------------------------------------------------------------------------
(* The queries. *)

Slugs == {u.slug : u \in users}

FreeNumber(name) == UniqueNumber(name, Slugs)

\* An undefined document equals none.
Duplicates(email, document) ==
  {u \in users : u.email = email \/ (document # None /\ u.document = document)}

\* findByEmail compares in lower case.
FindByEmail(email) == {u \in users : u.email[1] = email[1]}

Normal(email) == <<email[1], TRUE>>

-----------------------------------------------------------------------------
(* The writes under way. *)

Write(user, asks) ==
  [op |-> "replace", user |-> user, asks |-> asks, awaited |-> TRUE]

\* The fields of a user that calls under way will write back as they read them.
Overwritten(c) ==
  LET writers == {o \in Others(c) : o.op = "replace" /\ o.user.id = c.user.id}
  IN UNION {DOMAIN c.asks \ DOMAIN o.asks : o \in writers}

-----------------------------------------------------------------------------
(* Registration. *)

SendOtp(code, email) ==
  /\ otp' = [otp EXCEPT ![code] = email]
  /\ aged' = aged \ {code}
  /\ UNCHANGED <<users, tokens, pending, told, lost, excused>>

\* The user as create normalises him.
Registration(dto) ==
  [op |-> "slugs", user |-> [dto EXCEPT !.email = Normal(@)], number |-> 0, excuses |-> {}]

\* The code must have been sent to the address exactly as it is typed now.
\* A user who registers himself asks for his role.
Register(dto, code) ==
  /\ OtpIsActive => otp[code] = dto.email
  /\ Start({Registration([dto EXCEPT
       !.role = "user",
       !.requested = IF dto.role \in RequestableRoles THEN dto.role ELSE @])})
  /\ UNCHANGED <<users, tokens, otp, told, lost, excused, aged>>

\* An administrator creates a user.
Create(dto) ==
  /\ Start({Registration([dto EXCEPT !.role = IF @ = None THEN "author" ELSE @])})
  /\ UNCHANGED <<users, tokens, otp, told, lost, excused, aged>>

\* What the check of the fields of a professor takes for no document.
Missing == {None, Blank}

IsComplete(dto) ==
  "professor" \in {dto.role, dto.requested} => dto.document \notin Missing

\* getSlugs is answered; then the fields of a professor are checked.
ChooseSlug(c) ==
  /\ c.op = "slugs"
  /\ IsComplete(c.user)
  /\ Continue(c, {[c EXCEPT
       !.op = "duplicate",
       !.number = FreeNumber(c.user.name),
       !.excuses = IF \E o \in Others(c) : o.op \in {"duplicate", "insert"}
                   THEN @ \cup {"slug"} ELSE @]})
  /\ UNCHANGED <<users, tokens, otp, told, lost, excused, aged>>

FindDuplicate(c) ==
  /\ c.op = "duplicate"
  /\ Duplicates(c.user.email, c.user.document) = {}
  /\ Continue(c, {[c EXCEPT
       !.op = "insert",
       !.excuses = IF \E o \in Others(c) : o.op = "insert"
                   THEN @ \cup {"email"} ELSE @]})
  /\ UNCHANGED <<users, tokens, otp, told, lost, excused, aged>>

Insert(c) ==
  /\ c.op = "insert"
  /\ \E id \in Ids :
       LET new ==
         [id |-> id, name |-> c.user.name, slug |-> <<c.user.name, c.number>>,
          email |-> c.user.email, password |-> Hashed(c.user.password),
          role |-> c.user.role, requested |-> c.user.requested,
          document |-> c.user.document, active |-> TRUE]
       IN /\ told[id] = None
          /\ users' = users \cup {new}
          /\ told' = [told EXCEPT ![id] = new]
          /\ excused' = excused \cup {id} \X c.excuses
  /\ Continue(c, {})
  /\ UNCHANGED <<tokens, otp, lost, aged>>

-----------------------------------------------------------------------------
(* The changes of a user. *)

\* requestedRole is not for the user to change.  The fields of a professor are
\* not checked here.
Update(user, change) ==
  LET asks == [f \in DOMAIN change \ {"requested"} |->
                 IF f = "password" THEN Hashed(change[f]) ELSE change[f]]
  IN /\ Start({Write(Spread(user, asks), asks)})
     /\ excused' = excused
          \cup (IF DOMAIN asks \cap {"email", "document"} # {}
                THEN {<<user.id, "email">>} ELSE {})
          \cup (IF "role" \in DOMAIN asks THEN {<<user.id, "role">>} ELSE {})
          \cup (IF "document" \in DOMAIN asks /\ asks["document"] \in Missing
                THEN {<<user.id, "document">>} ELSE {})
     /\ UNCHANGED <<users, tokens, otp, told, lost, aged>>

\* toggleActiveState reads the user, and updateStatus reads him again.
ToggleActiveState(user) ==
  /\ Start({[op |-> "status", id |-> user.id, active |-> ~user.active]})
  /\ UNCHANGED <<users, tokens, otp, told, lost, excused, aged>>

\* findOne answers what a client may see of the user.
ToJson(user) == [user EXCEPT !.password = None]

UpdateStatus(c) ==
  /\ c.op = "status"
  /\ \E user \in users :
       /\ user.id = c.id
       /\ Continue(c, {Write([ToJson(user) EXCEPT !.active = c.active], [active |-> c.active])})
  /\ UNCHANGED <<users, tokens, otp, told, lost, excused, aged>>

MayAccept(user) == user.requested \in RequestableRoles

Decided(user, accept) ==
  [user EXCEPT !.role = IF accept THEN user.requested ELSE @, !.requested = None]

AcceptChangeRoleRequest(user, accept) ==
  /\ accept => MayAccept(user)
  /\ Start({Write(Decided(user, accept),
       IF accept THEN [role |-> user.requested, requested |-> None]
       ELSE [requested |-> None])})
  /\ UNCHANGED <<users, tokens, otp, told, lost, excused, aged>>

\* The token is mailed before it is stored.
SendResetPasswordOtp(email, token) ==
  /\ \A t \in tokens : t.token # token
  /\ \A c \in BagToSet(pending) : c.op = "token" => c.token # token
  /\ \E user \in FindByEmail(email) :
       Start({[op |-> "token", id |-> user.id, token |-> token]})
  /\ UNCHANGED <<users, tokens, otp, told, lost, excused, aged>>

StoreToken(c) ==
  /\ c.op = "token"
  /\ tokens' = tokens \cup {[token |-> c.token, id |-> c.id, expired |-> FALSE]}
  /\ Continue(c, {})
  /\ UNCHANGED <<users, otp, told, lost, excused, aged>>

\* validateAndGetUserToken, which leaves the token where it is.
ResetPassword(token, password) ==
  /\ ~token.expired
  /\ Start({[op |-> "reset", id |-> token.id, password |-> password]})
  /\ UNCHANGED <<users, tokens, otp, told, lost, excused, aged>>

Reset(c) ==
  /\ c.op = "reset"
  /\ \E user \in users :
       /\ user.id = c.id
       /\ Continue(c, {Write([user EXCEPT !.password = Hashed(c.password)],
                            [password |-> Hashed(c.password)])})
  /\ UNCHANGED <<users, tokens, otp, told, lost, excused, aged>>

\* The slugs that are checked are those read: not the ones just given.
UpdateSlugs ==
  /\ Start({LET slug == <<u.name, FreeNumber(u.name)>> IN
             [Write([u EXCEPT !.slug = slug], [slug |-> slug]) EXCEPT !.awaited = FALSE]
            : u \in users})
  /\ excused' = excused \cup {<<u.id, "slug">> : u \in users}
  /\ UNCHANGED <<users, tokens, otp, told, lost, aged>>

\* A replace writes all fields, those it did not set as they were read; a
\* status also writes no password.
Replace(c) ==
  /\ c.op = "replace"
  /\ users' = {u \in users : u.id # c.user.id} \cup {c.user}
  /\ told' = [told EXCEPT ![c.user.id] = Spread(@, c.asks)]
  /\ lost' = (lost \ ({c.user.id} \X DOMAIN c.asks))
       \cup {c.user.id} \X Overwritten(c)
       \cup (IF c.user.password = None THEN {<<c.user.id, "password">>} ELSE {})
  /\ Continue(c, {})
  /\ UNCHANGED <<tokens, otp, excused, aged>>

-----------------------------------------------------------------------------
(* The environment. *)

\* EXPIRATION_TIME_IN_SECONDS has passed.
ExpireToken(t) ==
  /\ ~t.expired
  /\ tokens' = (tokens \ {t}) \cup {[t EXCEPT !.expired = TRUE]}
  /\ UNCHANGED <<users, otp, pending, told, lost, excused, aged>>

\* OTP_EXPIRATION_TIME has passed since the code was sent.
Age(code) ==
  /\ otp[code] # None /\ code \notin aged
  /\ aged' = aged \cup {code}
  /\ UNCHANGED <<users, tokens, otp, pending, told, lost, excused>>

\* An awaited call fails or the request is refused.
Fail(c) ==
  /\ c.op = "replace" => c.awaited
  /\ Continue(c, {})
  /\ UNCHANGED <<users, tokens, otp, told, lost, excused, aged>>

\* The process restarts: also what a failed call nobody awaits brings about.
Restart ==
  /\ pending' = EmptyBag
  /\ otp' = [code \in Codes |-> None]
  /\ aged' = {}
  /\ UNCHANGED <<users, tokens, told, lost, excused>>

Request ==
  \/ \E code \in Codes, email \in Email : SendOtp(code, email)
  \/ \E dto \in NewUsers : Create(dto) \/ \E code \in Codes : Register(dto, code)
  \/ \E user \in users :
       \/ \E change \in Changes : Update(user, change)
       \/ ToggleActiveState(user)
       \/ \E accept \in BOOLEAN : AcceptChangeRoleRequest(user, accept)
  \/ \E email \in Email, token \in Tokens : SendResetPasswordOtp(email, token)
  \/ \E token \in tokens, password \in Passwords : ResetPassword(token, password)
  \/ UpdateSlugs

Answer(c) ==
  \/ ChooseSlug(c) \/ FindDuplicate(c) \/ Insert(c) \/ UpdateStatus(c)
  \/ StoreToken(c) \/ Reset(c) \/ Replace(c)

Next ==
  \/ Request
  \/ \E c \in BagToSet(pending) : Answer(c) \/ Fail(c)
  \/ \E t \in tokens : ExpireToken(t)
  \/ \E code \in Codes : Age(code)
  \/ Restart

Spec == Init /\ [][Next]_vars

-----------------------------------------------------------------------------
(* Sign-in. *)

\* What signIn may answer: a user's id, or an error.  Of several users with the
\* address any may be the first.
SignIn(email, password) ==
  IF FindByEmail(email) = {} THEN {"USER_NOT_FOUND"}
  ELSE {IF ~u.active THEN "USER_NOT_FOUND"
        ELSE IF u.password = None THEN "PASSWORD_NOT_SET"
        ELSE IF u.password # Hashed(password) THEN "PASSWORD_INVALID"
        ELSE u.id : u \in FindByEmail(email)}

-----------------------------------------------------------------------------
(* Safety. *)

\* Each field of a user is as the last answered request that set it made it,
\* unless a request that did not set it wrote back an older value; for the
\* password, also unless the active state was toggled.
\* (create, update, updateStatus, resetPassword, acceptChangeRoleRequest,
\* updateSlugs.)
UserAsTold ==
  \A u \in users : \A f \in Fields : <<u.id, f>> \notin lost => u[f] = told[u.id][f]

\* A user who is told he is active, and whose password, email and active state
\* nobody overwrote, signs in with them, whatever the case he types the address
\* in, and only as himself, unless two users may share an address.
\* (signIn, with every request that changes a user.)
SignInAsTold ==
  \A u \in users :
    /\ {u.id} \X {"email", "password", "active"} \cap lost = {}
    /\ told[u.id].active
    /\ \A q \in users : <<q.id, "email">> \notin excused
    => \A e \in Email : e[1] = told[u.id].email[1] =>
         SignIn(e, told[u.id].password[2]) = {u.id}

\* Two users share an email or a document only if they were created at the same
\* time or an update set one of the two.  (getDuplicatedUser in create.)
NoDuplicatesUnlessRaced ==
  \A u, v \in users :
    /\ u # v
    /\ {<<u.id, "email">>, <<v.id, "email">>} \cap excused = {}
    => /\ u.email # v.email
       /\ u.document # None => u.document # v.document

\* Two users share a slug only if one was chosen while another was about to be
\* stored, or updateSlugs has run.  (getSlugs in create.)
SlugsUnlessRaced ==
  \A u, v \in users :
    /\ u # v
    /\ {<<u.id, "slug">>, <<v.id, "slug">>} \cap excused = {}
    => u.slug # v.slug

\* A professor has a document, and so has a user who asks to be one, unless an
\* update made him a professor or emptied his document: in every interleaving,
\* since no request can bring a role back without the document it was checked
\* with.  (create, acceptChangeRoleRequest, update.)
ProfessorsAreComplete ==
  \A u \in users : <<u.id, "document">> \notin excused =>
    /\ u.requested = "professor" => u.document \notin Missing
    /\ u.role = "professor" /\ <<u.id, "role">> \notin excused => u.document \notin Missing

\* Every user has a password (see the finding).
PasswordIsSet == \A u \in users : u.password # None

\* A code is forgotten once its time has passed (see the finding).
CodesExpire == \A code \in aged : otp[code] = None
=============================================================================
