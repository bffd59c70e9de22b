------------------------------ MODULE Registry ------------------------------
(***************************************************************************)
(* The documents that the jobs of the migration and the reports share:     *)
(* users, trainings with their participants, and the catalogues of         *)
(* schools, semesters and competencies.                                    *)
(*                                                                         *)
(* An e-mail address is stored as it was typed: in lower case, with upper  *)
(* case letters, or with spaces around it; or it is the digits of a        *)
(* password.  A user may have no document, no school and no type of        *)
(* employment: only for a professor are they asked, when he is created.    *)
(***************************************************************************)
EXTENDS Naturals, Sequences, SequencesExt, FiniteSets

CONSTANTS
  FirstUsers,    \* the users at the start: a set of records of User
  NewUserIds,    \* the ids of users created later
  Addresses,     \* e-mail addresses,
  Misplaced,     \*   and the text 'Tiempo Completo' in their column
  Documents,     \* the documents of persons: a type and a number
  Names,         \* of schools, semesters and competencies
  EntryIds,      \* their ids
  FirstSchools,  \* the schools at the start: a set of records of Entry
  Codes,         \* codes of trainings
  TrainingIds,
  None

Catalogues == {"semester", "competency", "school"}

\* Names are told apart by their letters, by their case and by spaces around
\* them.
Name == [letters : Names, upper : BOOLEAN, spaced : BOOLEAN]

\* Competencies are marked as deleted, schools are deleted; that semesters are
\* marked too makes no difference here.
Entry == [id : EntryIds, name : Name, deleted : BOOLEAN]

UserIds == {u.id : u \in FirstUsers} \cup NewUserIds

Email == [address : Addresses \cup {Misplaced}, form : {"plain", "upper", "spaced", "digits"}]

User ==
  [id : UserIds, document : Documents \cup {None}, email : Email, password : Nat,
   role : {"professor", "author"}, school : EntryIds \cup {None},
   employment : {"fullTime", "partTime", None}, excluded : BOOLEAN]

Participant == [user : UserIds, attended : BOOLEAN]

Training ==
  [id : TrainingIds, code : Codes, type : {"extra", "scheduled"},
   semester : EntryIds, competency : EntryIds, organizer : EntryIds,
   participants : Seq(Participant)]

ASSUME RegistryAssumption ==
  /\ FirstUsers \subseteq User /\ IsFiniteSet(FirstUsers)
  /\ \A u, v \in FirstUsers : u.id = v.id => u = v
  /\ \A u \in FirstUsers : u.id \notin NewUserIds
  /\ FirstSchools \subseteq Entry /\ IsFiniteSet(FirstSchools)
  /\ \A d, e \in FirstSchools : d.id = e.id => d = e
  /\ None \notin User \cup Training \cup EntryIds \cup Documents \cup {"fullTime", "partTime"}

VARIABLES
  users,      \* the container of users
  trainings,  \* the container of trainings
  catalogue,  \* the containers of schools, semesters and competencies
  removed,    \* ids of schools that were removed
  backup      \* whether users-backup.json is there and readable

registryVars == <<users, trainings, catalogue, removed, backup>>

RegistryTypeOK ==
  /\ users \subseteq User
  /\ \A u, v \in users : u.id = v.id => u = v
  /\ trainings \subseteq Training
  /\ \A t, s \in trainings : t.id = s.id => t = s
  /\ catalogue \in [Catalogues -> SUBSET Entry]
  /\ \A kind \in Catalogues : \A d, e \in catalogue[kind] : d.id = e.id => d = e
  /\ removed \subseteq EntryIds
  /\ backup \in BOOLEAN

RegistryInit ==
  /\ users = FirstUsers
  /\ trainings = {}
  /\ catalogue = [k \in Catalogues |-> IF k = "school" THEN FirstSchools ELSE {}]
  /\ removed = {} /\ backup = FALSE

-----------------------------------------------------------------------------
(* Faults of the kind this code could have, for the runs to detect. *)
Inserted(container, document) == container \cup {document}
Unnamed(kind, name) == {}

\* LOWER in a query, and toLowerCase.
Lowered(email) == [email EXCEPT !.form = IF @ = "upper" THEN "plain" ELSE @]

\* toLowerCase and trim.
Normal(email) == [email EXCEPT !.form = IF @ = "digits" THEN @ ELSE "plain"]

\* findByEmail: the addresses are compared in lower case, spaces included.
WithEmail(email) == {u \in users : Lowered(u.email) = Lowered(email)}

\* getByDocument
WithDocument(document) == {u \in users : u.document = document}

\* getDuplicatedUser: here addresses are compared as they are.
Duplicates(email, document) == {u \in users : u.email = email \/ u.document = document}

\* getById
WithId(id) == {u \in users : u.id = id}

\* getByName: the name as it is written, of entries marked as deleted too.
Called(kind, name) == {e \in catalogue[kind] : e.name = name}

\* getByCode
WithCode(code) == {t \in trainings : t.code = code}

\* A replace of a document that is there.
Replaced(container, document) ==
  {d \in container : d.id # document.id} \cup {document}

\* create: of the three, only semesters are stored in upper case and without
\* spaces around them.
Stored(kind, name) ==
  IF kind = "semester" THEN [name EXCEPT !.upper = TRUE, !.spaced = FALSE] ELSE name

UnusedEntries(kind) == EntryIds \ (removed \cup {e.id : e \in catalogue[kind]})

\* create of one of the three services, with a new id.
AddEntry(kind, id, name) ==
  catalogue' = [catalogue EXCEPT ![kind] =
    @ \cup {[id |-> id, name |-> Stored(kind, name), deleted |-> FALSE]}]

\* SchoolsService.remove does not look for users or trainings of the school.
RemoveSchool ==
  \E e \in catalogue["school"] :
    /\ catalogue' = [catalogue EXCEPT !["school"] = @ \ {e}]
    /\ removed' = removed \cup {e.id}
    /\ UNCHANGED <<users, trainings, backup>>

\* Nor does CompetenciesService.remove look for trainings: it marks.
RemoveCompetency ==
  \E e \in catalogue["competency"] :
    /\ catalogue' = [catalogue EXCEPT !["competency"] =
                       Replaced(@, [e EXCEPT !.deleted = TRUE])]
    /\ UNCHANGED <<users, trainings, removed, backup>>
=============================================================================
