------------------------------ MODULE Training ------------------------------
(***************************************************************************)
(* The training documents of src/training and every request that changes   *)
(* them.                                                                   *)
(*                                                                         *)
(* A training is ONE Cosmos document that embeds its executions (with the  *)
(* attendance of each) and its participants (with the certificates of      *)
(* each).  Every handler reads the whole document, computes a new one from *)
(* what it read and replaces the stored one; nothing compares the two, so  *)
(* the requests interleave between the read and the replace.  A handler is *)
(* therefore an action that reads and computes, followed by the Replace    *)
(* its request is waiting for.  The handlers that check a training's code  *)
(* wait once more, for the query, before that.                             *)
(*                                                                         *)
(* Not in the model: fields that are only copied (name, place, dates, ...), *)
(* the order of the arrays, and the `userId` of AddParticipantDto and the  *)
(* `participantId` of AddAttendanceToExecutionDto.  A request that has one *)
(* of them is always refused: it would have to come from an administrator  *)
(* whose role is EVENT_MANAGER.                                            *)
(***************************************************************************)
EXTENDS Naturals, Sequences

CONSTANTS
  Requests,      \* the requests that can be in flight together
  Trainings,     \* the ids uuid can give to a training,
  Executions,    \*   to an execution
  Participants,  \*   and to a participant
  Users,         \* the users who may be logged in
  Professors,    \* those whose role is PROFESSOR
  Codes,         \* the training codes requests carry
  Roles,         \* TrainingRole
  Organizer,     \* TrainingRole.ORGANIZER
  RoleLists,     \* the `roles` arrays requests carry
  Absent,        \* what reading a missing document gives
  Undefined,     \* a field the document does not have
  None           \* an optional field the request does not have

ASSUME TrainingAssumption ==
  /\ Professors \subseteq Users
  /\ Organizer \in Roles
  /\ RoleLists \subseteq Seq(Roles) \ {<<>>}
  /\ Trainings \cap Executions = {}
  /\ None \notin RoleLists \cup Codes \cup Participants \cup Executions
  /\ Undefined \notin [Participants -> Nat]
  /\ None \notin Trainings \X Users

Status == {"pending", "attended"}

Participant ==
  [id : Participants, foreignId : Users, roles : RoleLists,
   attendanceStatus : Status, certificates : [Roles -> Nat]]

\* attendance[p] is how many entries of the array name participant p.
Execution ==
  [id : Executions, attendance : [Participants -> Nat] \cup {Undefined}]

TrainingDoc ==
  [code : Codes, executions : SUBSET Execution,
   participants : SUBSET Participant]

ASSUME AbsentAssumption == Absent \notin TrainingDoc

VARIABLES
  store,        \* the container: the document of each training id
  request,      \* what each request in flight has read and waits for
  issued,       \* the training and execution ids generated so far
  owner,        \* for whom each participant id was generated
  \* What callers have been told, and what befell the documents:
  added,        \* <<t, p>>: "The participant has been successfully added."
  removed,      \* <<t, p>>: "The participant has been successfully removed."
  attended,     \* <<t, e, p>>: "The assistance has been successfully added."
  rescheduled,  \* trainings whose executions an update has rewritten
  overwritten,  \* trainings replaced by a request that had read another state
  codeRace      \* two requests that choose a code have been in flight together

told == <<added, removed, attended, rescheduled, overwritten>>
vars == <<store, request, issued, owner, told, codeRace>>

Idle == [pc |-> "idle"]

Effect ==
  [kind : {"added", "removed", "edited"}, p : Participants, e : {None}]
    \cup [kind : {"attended"}, p : Participants, e : Executions]
    \cup [kind : {"rescheduled"}, p : {None}, e : {None}]

Request ==
  {Idle}
    \cup [pc : {"checkCode"}, t : Trainings, seen : TrainingDoc,
          code : Codes \cup {None}, kept : SUBSET Executions, grows : BOOLEAN]
    \cup [pc : {"create"}, code : Codes, grows : BOOLEAN]
    \cup [pc : {"replace"}, t : Trainings, seen : TrainingDoc,
          doc : TrainingDoc, effect : Effect]

TypeOK ==
  /\ store \in [Trainings -> TrainingDoc \cup {Absent}]
  /\ request \in [Requests -> Request]
  /\ issued \subseteq Trainings \cup Executions
  /\ owner \in [Participants -> (Trainings \X Users) \cup {None}]
  /\ added \subseteq Trainings \X Participants
  /\ removed \subseteq Trainings \X Participants
  /\ attended \subseteq Trainings \X Executions \X Participants
  /\ rescheduled \subseteq Trainings
  /\ overwritten \subseteq Trainings
  /\ codeRace \in BOOLEAN

Init ==
  /\ store = [t \in Trainings |-> Absent]
  /\ request = [r \in Requests |-> Idle]
  /\ issued = {}
  /\ owner = [p \in Participants |-> None]
  /\ added = {} /\ removed = {} /\ attended = {}
  /\ rescheduled = {} /\ overwritten = {}
  /\ codeRace = FALSE

-----------------------------------------------------------------------------
(* What the handlers ask of the container. *)

Exists(t) == store[t] # Absent

HasCode(t, c) == Exists(t) /\ store[t].code = c

(* Faults of the kind this code could have, which the runs must detect; no *)
(* definition uses them.                                                   *)
EnrolledAndPending(doc, u) ==
  \E x \in doc.participants :
    x.foreignId = u /\ x.attendanceStatus = "pending"
NeverAttended(x, p) == TRUE
UnusedParticipants ==
  {p \in Participants :
     \A t \in Trainings : Exists(t) => \A x \in store[t].participants : x.id # p}
AnyCode(t, c) == TRUE
CreatedOnce(t) == t \in issued
NullAttendance(e) == [id |-> e, attendance |-> None]
FilterUnassigned(doc, p) == doc
FirstAttendance(doc, x, p) ==
  [doc EXCEPT !.executions = (@ \ {x}) \cup
     {[x EXCEPT !.attendance = [q \in Participants |-> IF q = p THEN 1 ELSE 0]]}]

Enrolled(doc, u) == \E x \in doc.participants : x.foreignId = u

HasNotAttended(x, p) == x.attendance[p] = 0

\* What uuidv4 may give to a new participant.
FreshParticipants == {p \in Participants : owner[p] = None}

\* getByCode gives one training with the code: none, or the same one.
MayUseCode(t, c) == (\A s \in Trainings : ~HasCode(s, c)) \/ HasCode(t, c)

\* replace answers 404 when the document is gone.
CanReplace(t) == Exists(t)

-----------------------------------------------------------------------------
(* What the handlers compute from the document they have read. *)

NewParticipant(p, u, roles) ==
  [id |-> p, foreignId |-> u, roles |-> roles,
   attendanceStatus |-> "pending", certificates |-> [r \in Roles |-> 0]]

NewExecution(e) == [id |-> e, attendance |-> [p \in Participants |-> 0]]

\* `execution as Execution` of a request: the request carries no attendance.
KeptExecution(e) == [id |-> e, attendance |-> Undefined]

WithParticipant(doc, x) == [doc EXCEPT !.participants = @ \cup {x}]

ChangeParticipant(doc, x, y) ==
  [doc EXCEPT !.participants = (@ \ {x}) \cup {y}]

WithoutParticipant(doc, p) ==
  [doc EXCEPT !.participants = {x \in @ : x.id # p}]

WithAttendance(doc, x, p) ==
  [doc EXCEPT !.executions =
     (@ \ {x}) \cup {[x EXCEPT !.attendance[p] = @ + 1]}]

Holds(role, roles) == \E i \in DOMAIN roles : roles[i] = role

ValidRoles(roles) == Len(roles) > 1 => Holds(Organizer, roles)

SameRoles(old, new) ==
  Len(old) = Len(new) /\ \A i \in DOMAIN old : Holds(old[i], new)

-----------------------------------------------------------------------------
(* The handlers of ParticipantsService: each reads a training, computes    *)
(* the document it wants and waits for the replace.  A request that fails  *)
(* a check throws before it writes: it changes nothing.                    *)

WaitForReplace(r, t, doc, kind, p, e) ==
  request' = [request EXCEPT ![r] =
    [pc |-> "replace", t |-> t, seen |-> store[t], doc |-> doc,
     effect |-> [kind |-> kind, p |-> p, e |-> e]]]

AddParticipant(r, t, u, roles) ==
  /\ request[r] = Idle /\ Exists(t)
  /\ u \in Professors
  /\ ValidRoles(roles)
  /\ ~Enrolled(store[t], u)
  /\ \E p \in FreshParticipants :
       /\ owner' = [owner EXCEPT ![p] = <<t, u>>]
       /\ WaitForReplace(r, t,
            WithParticipant(store[t], NewParticipant(p, u, roles)),
            "added", p, None)
  /\ UNCHANGED <<store, issued, told, codeRace>>

\* The user is a participant already: his roles change, unless they are the
\* same, when the handler answers without writing.
ChangeRoles(r, t, u, roles) ==
  /\ request[r] = Idle /\ Exists(t)
  /\ u \in Professors
  /\ ValidRoles(roles)
  /\ \E x \in store[t].participants :
       /\ x.foreignId = u
       /\ ~SameRoles(x.roles, roles)
       /\ WaitForReplace(r, t,
            ChangeParticipant(store[t], x, [x EXCEPT !.roles = roles]),
            "added", x.id, None)
  /\ UNCHANGED <<store, issued, owner, told, codeRace>>

\* The training is the one that has the participant, whatever the URL says.
UpdateParticipant(r, p, roles, status) ==
  /\ request[r] = Idle
  /\ roles # None => ValidRoles(roles)
  /\ \E t \in Trainings :
       /\ Exists(t)
       /\ \E x \in store[t].participants :
            /\ x.id = p
            /\ WaitForReplace(r, t,
                 ChangeParticipant(store[t], x,
                   [x EXCEPT
                      !.roles = IF roles = None THEN @ ELSE roles,
                      !.attendanceStatus = IF status = None THEN @ ELSE status]),
                 "edited", p, None)
  /\ UNCHANGED <<store, issued, owner, told, codeRace>>

RemoveParticipant(r, t, p) ==
  /\ request[r] = Idle /\ Exists(t)
  /\ \E x \in store[t].participants : x.id = p
  /\ WaitForReplace(r, t, WithoutParticipant(store[t], p), "removed", p, None)
  /\ UNCHANGED <<store, issued, owner, told, codeRace>>

\* An execution whose attendance is undefined makes the handler throw.
AddAttendanceToExecution(r, t, e, u) ==
  /\ request[r] = Idle /\ Exists(t)
  /\ \E x \in store[t].executions, y \in store[t].participants :
       /\ x.id = e
       /\ y.foreignId = u
       /\ x.attendance # Undefined
       /\ HasNotAttended(x, y.id)
       /\ WaitForReplace(r, t, WithAttendance(store[t], x, y.id),
                         "attended", y.id, e)
  /\ UNCHANGED <<store, issued, owner, told, codeRace>>

\* The check that the training has executions comes after the write.
CompleteTraining(r, p) ==
  /\ request[r] = Idle
  /\ \E t \in Trainings :
       /\ Exists(t)
       /\ \E x \in store[t].participants :
            /\ x.id = p
            /\ WaitForReplace(r, t,
                 ChangeParticipant(store[t], x,
                   [x EXCEPT !.attendanceStatus = "attended"]),
                 "edited", p, None)
  /\ UNCHANGED <<store, issued, owner, told, codeRace>>

\* The certificate of a role is issued once and then only dated again.  The
\* user is read between the two steps of the handler; it writes what it has.
GenerateCertificate(r, p, role) ==
  /\ request[r] = Idle
  /\ \E t \in Trainings :
       /\ Exists(t)
       /\ store[t].executions # {}
       /\ \E x \in store[t].participants :
            /\ x.id = p
            /\ x.attendanceStatus = "attended"
            /\ Holds(role, x.roles)
            /\ WaitForReplace(r, t,
                 ChangeParticipant(store[t], x,
                   [x EXCEPT !.certificates[role] = IF @ = 0 THEN 1 ELSE @]),
                 "edited", p, None)
  /\ UNCHANGED <<store, issued, owner, told, codeRace>>

-----------------------------------------------------------------------------
(* The handlers of TrainingService. *)

ChoosesCode(r) ==
  \/ request[r].pc = "create"
  \/ request[r].pc = "replace" /\ request[r].effect.kind = "rescheduled"

NoteCodeRace(r) ==
  codeRace' = (codeRace \/ \E s \in Requests \ {r} : ChoosesCode(s))

\* getByCode finds nothing; then the organizer and the competency are awaited.
CreateTraining(r, c, grows) ==
  /\ request[r] = Idle
  /\ \A t \in Trainings : ~HasCode(t, c)
  /\ request' = [request EXCEPT ![r] =
                   [pc |-> "create", code |-> c, grows |-> grows]]
  /\ NoteCodeRace(r)
  /\ UNCHANGED <<store, issued, owner, told>>

\* items.create: a new id for the training and for each of its executions.
InsertTraining(r) ==
  /\ request[r].pc = "create"
  /\ \E t \in Trainings \ issued,
        new \in SUBSET (Executions \ issued) :
       /\ request[r].grows <=> new # {}
       /\ store' = [store EXCEPT ![t] =
            [code |-> request[r].code,
             executions |-> {NewExecution(e) : e \in new},
             participants |-> {}]]
       /\ issued' = issued \cup {t} \cup new
  /\ request' = [request EXCEPT ![r] = Idle]
  /\ UNCHANGED <<owner, told, codeRace>>

\* The request keeps some executions by their id and may add others without.
UpdateTraining(r, t, c, kept, grows) ==
  /\ request[r] = Idle /\ Exists(t)
  /\ request' = [request EXCEPT ![r] =
       [pc |-> "checkCode", t |-> t, seen |-> store[t],
        code |-> c, kept |-> kept, grows |-> grows]]
  /\ UNCHANGED <<store, issued, owner, told, codeRace>>

CheckCode(r) ==
  /\ request[r].pc = "checkCode"
  /\ LET q == request[r] IN
       /\ MayUseCode(q.t, q.code)
       /\ \E new \in SUBSET (Executions \ issued) :
            /\ q.grows <=> new # {}
            /\ issued' = issued \cup new
            /\ request' = [request EXCEPT ![r] =
                 [pc |-> "replace", t |-> q.t, seen |-> q.seen,
                  doc |-> [q.seen EXCEPT
                    !.code = IF q.code = None THEN @ ELSE q.code,
                    !.executions = {KeptExecution(e) : e \in q.kept}
                                     \cup {NewExecution(e) : e \in new}],
                  effect |-> [kind |-> "rescheduled", p |-> None, e |-> None]]]
  /\ NoteCodeRace(r)
  /\ UNCHANGED <<store, owner, told>>

RemoveTraining(t) ==
  /\ Exists(t)
  /\ store' = [store EXCEPT ![t] = Absent]
  /\ UNCHANGED <<request, issued, owner, told, codeRace>>

-----------------------------------------------------------------------------
(* item(id, id).replace(doc): the whole document, whatever is stored now.  *)

Tell(t, effect) ==
  /\ added' = added \cup
       {<<t, p>> : p \in IF effect.kind = "added" THEN {effect.p} ELSE {}}
  /\ removed' = removed \cup
       {<<t, p>> : p \in IF effect.kind = "removed" THEN {effect.p} ELSE {}}
  /\ attended' = attended \cup
       {<<t, effect.e, p>> :
          p \in IF effect.kind = "attended" THEN {effect.p} ELSE {}}
  /\ rescheduled' = rescheduled \cup
       (IF effect.kind = "rescheduled" THEN {t} ELSE {})

Replace(r) ==
  /\ request[r].pc = "replace"
  /\ LET q == request[r] IN
       /\ CanReplace(q.t)
       /\ store' = [store EXCEPT ![q.t] = q.doc]
       /\ Tell(q.t, q.effect)
       /\ overwritten' = overwritten \cup
            (IF store[q.t] # q.seen THEN {q.t} ELSE {})
  /\ request' = [request EXCEPT ![r] = Idle]
  /\ UNCHANGED <<issued, owner, codeRace>>

\* A wait fails: the document is gone, the school, the competency or the code
\* is refused, the database answers with an error, the process restarts.
Fail(r) ==
  /\ request[r] # Idle
  /\ request' = [request EXCEPT ![r] = Idle]
  /\ UNCHANGED <<store, issued, owner, told, codeRace>>

HandleParticipant(r) ==
  \/ \E t \in Trainings, u \in Users, roles \in RoleLists :
       AddParticipant(r, t, u, roles) \/ ChangeRoles(r, t, u, roles)
  \/ \E p \in Participants :
       \/ \E roles \in RoleLists \cup {None}, status \in Status \cup {None} :
            UpdateParticipant(r, p, roles, status)
       \/ \E t \in Trainings : RemoveParticipant(r, t, p)
       \/ CompleteTraining(r, p)
       \/ \E role \in Roles : GenerateCertificate(r, p, role)
  \/ \E t \in Trainings, e \in Executions, u \in Users :
       AddAttendanceToExecution(r, t, e, u)

HandleTraining(r) ==
  \/ \E c \in Codes, grows \in BOOLEAN : CreateTraining(r, c, grows)
  \/ InsertTraining(r)
  \/ \E t \in Trainings, c \in Codes \cup {None},
        kept \in SUBSET (Executions \cap issued), grows \in BOOLEAN :
       UpdateTraining(r, t, c, kept, grows)
  \/ CheckCode(r)

Next ==
  \/ \E r \in Requests :
       HandleParticipant(r) \/ HandleTraining(r) \/ Replace(r) \/ Fail(r)
  \/ \E t \in Trainings : RemoveTraining(t)

Spec == Init /\ [][Next]_vars

-----------------------------------------------------------------------------
(* Safety.  The invariants hold although writes are lost: every write is a *)
(* whole document that its own request has checked.                        *)

Consistent(doc) ==
  /\ \A x, y \in doc.participants : x.foreignId = y.foreignId => x = y
  /\ \A x \in doc.participants, role \in Roles : x.certificates[role] <= 1
  /\ \A x \in doc.executions, p \in Participants :
       x.attendance # Undefined => x.attendance[p] <= 1

\* A user is at most once a participant of a training.
\* (addParticipant looks for `foreignId` before it pushes.)
OneParticipantPerUser ==
  \A t \in Trainings : Exists(t) =>
    \A x, y \in store[t].participants : x.foreignId = y.foreignId => x = y

\* A participant has at most one attendance in an execution and at most one
\* certificate for a role, however the requests that add them interleave.
\* (addAttendanceToExecution, generateCertificate.)
NothingTwice ==
  \A t \in Trainings : Exists(t) =>
    /\ \A x \in store[t].participants, role \in Roles :
         x.certificates[role] <= 1
    /\ \A x \in store[t].executions, p \in Participants :
         x.attendance # Undefined => x.attendance[p] <= 1

\* The participant id, which credentials carry as a QR code, names for ever
\* the one user and the one training it was generated for.
\* (verifyParticipant and the handlers that look a training up by it.)
CredentialNamesItsOwner ==
  \A t \in Trainings : Exists(t) =>
    \A x \in store[t].participants : owner[x.id] = <<t, x.foreignId>>

\* A document that was never replaced by a request holding an older state
\* has every participant it was said to have, and none it was said to have
\* lost: the stale replace is the only way to lose one.
\* (addParticipant, removeParticipant and update, which keeps participants.)
ParticipantsAsTold ==
  \A t \in Trainings \ overwritten : Exists(t) =>
    \A p \in Participants :
      /\ <<t, p>> \in removed =>
           \A x \in store[t].participants : x.id # p
      /\ <<t, p>> \in added \ removed =>
           \E x \in store[t].participants : x.id = p

\* Likewise an attendance that was confirmed is there until an update lists
\* the executions again.
\* (addAttendanceToExecution; update keeps no attendance.)
AttendanceAsTold ==
  \A t \in Trainings \ (overwritten \cup rescheduled) : Exists(t) =>
    \A e \in Executions, p \in Participants : <<t, e, p>> \in attended =>
      \E x \in store[t].executions : x.id = e /\ x.attendance[p] = 1

\* Two trainings have the same code only if a request was overtaken: between
\* a code check and its write by another one, or between a read and its
\* replace.
\* (create and update, TRAINING_CODE_ALREADY_EXISTS.)
CodesUnlessRaced ==
  (~codeRace /\ overwritten = {}) =>
    \A s, t \in Trainings :
      Exists(s) /\ Exists(t) /\ store[s].code = store[t].code => s = t

\* A training that was removed never comes back, not even by the replace of
\* a request that had read it before.
\* (remove, and the 404 of a replace.)
RemovedForGood ==
  [][\A t \in Trainings :
       t \in issued /\ store[t] = Absent => store'[t] = Absent]_vars

\* What the container is to a holder of a credential.
Phase ==
  [t \in Trainings |->
     CASE Exists(t) -> "open"
       [] ~Exists(t) /\ t \in issued -> "closed"
       [] OTHER -> "new"]

Roster ==
  [t \in Trainings |->
     IF Exists(t)
     THEN {<<x.foreignId, x.id>> : x \in store[t].participants}
     ELSE {}]

Promise == INSTANCE Enrolment WITH phase <- Phase, roster <- Roster

\* Every request keeps the promise of Enrolment.
\* (The whole of participants.service.ts and training.service.ts.)
KeepsThePromise == Promise!Spec

\* What the documentation of the participants endpoint promises (see the
\* finding): after "The participant has been successfully added." the user is
\* a participant until he is removed.
AddedUserIsThere ==
  \A t \in Trainings, p \in Participants :
    Exists(t) /\ <<t, p>> \in added \ removed =>
      Enrolled(store[t], owner[p][2])

\* What the type of an execution promises (see the finding): its attendance
\* is an array.
AttendanceIsAnArray ==
  \A t \in Trainings : Exists(t) =>
    \A x \in store[t].executions : x.attendance # Undefined
=============================================================================
