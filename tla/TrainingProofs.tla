--------------------------- MODULE TrainingProofs ---------------------------
(***************************************************************************)
(* Proofs about Training for any number of requests, trainings, users and  *)
(* ids.  The inductive invariant says of every copy of a document, the     *)
(* stored one and those that requests in flight hold, that it is           *)
(* consistent and lists every participant under the id generated for that  *)
(* user and that training: whichever copy a replace writes, the stored     *)
(* document stays right.                                                   *)
(***************************************************************************)
EXTENDS Training, TLAPS

\* doc is fit to be the document of training t.
Fit(t, doc, own) ==
  /\ doc \in TrainingDoc
  /\ Consistent(doc)
  /\ \A x \in doc.participants : own[x.id] = <<t, x.foreignId>>

StoreFit ==
  \A t \in Trainings : Exists(t) => t \in issued /\ Fit(t, store[t], owner)

RequestFit(q, own) ==
  /\ q.pc \in {"checkCode", "replace"} => q.t \in issued /\ Fit(q.t, q.seen, own)
  /\ q.pc = "replace" => Fit(q.t, q.doc, own)

IInv ==
  /\ TypeOK
  /\ StoreFit
  /\ \A r \in Requests : RequestFit(request[r], owner)

-----------------------------------------------------------------------------
(* The documents the handlers compute are fit. *)

\* Pushing a participant the document does not have yet.
LEMMA PushFit ==
  ASSUME NEW t \in Trainings, NEW doc, NEW own, NEW p \in Participants,
         NEW u \in Users, NEW roles \in RoleLists,
         Fit(t, doc, own), ~Enrolled(doc, u), own[p] = <<t, u>>
  PROVE  Fit(t, WithParticipant(doc, NewParticipant(p, u, roles)), own)
<1> DEFINE new == NewParticipant(p, u, roles)
           d == WithParticipant(doc, new)
<1>1. new \in Participant /\ new.id = p /\ new.foreignId = u
      /\ \A role \in Roles : new.certificates[role] = 0
  BY DEF NewParticipant, Participant, Status
<1> HIDE DEF new
<1>2. d \in TrainingDoc /\ d.participants = doc.participants \cup {new}
      /\ d.executions = doc.executions
  BY <1>1 DEF Fit, TrainingDoc, WithParticipant
<1> HIDE DEF d
<1>3. Consistent(d)
  <2>1. \A x, y \in d.participants : x.foreignId = y.foreignId => x = y
    BY <1>1, <1>2 DEF Fit, Consistent, Enrolled
  <2>2. \A x \in d.participants, role \in Roles : x.certificates[role] <= 1
    BY <1>1, <1>2 DEF Fit, Consistent
  <2> QED
    BY <1>2, <2>1, <2>2 DEF Fit, Consistent
<1>4. \A x \in d.participants : own[x.id] = <<t, x.foreignId>>
  BY <1>1, <1>2 DEF Fit
<1> QED
  BY <1>2, <1>3, <1>4 DEF Fit, d, new

\* Changing a participant without changing who he is.
LEMMA ChangeFit ==
  ASSUME NEW t \in Trainings, NEW doc, NEW own, NEW x \in doc.participants,
         NEW y \in Participant, Fit(t, doc, own),
         y.id = x.id, y.foreignId = x.foreignId,
         \A role \in Roles : y.certificates[role] <= 1
  PROVE  Fit(t, ChangeParticipant(doc, x, y), own)
<1> DEFINE d == ChangeParticipant(doc, x, y)
<1>1. d \in TrainingDoc
      /\ d.participants = (doc.participants \ {x}) \cup {y}
      /\ d.executions = doc.executions
  BY DEF Fit, TrainingDoc, ChangeParticipant
<1> HIDE DEF d
<1>2. Consistent(d)
  BY <1>1 DEF Fit, Consistent
<1>3. \A z \in d.participants : own[z.id] = <<t, z.foreignId>>
  BY <1>1 DEF Fit
<1> QED
  BY <1>1, <1>2, <1>3 DEF Fit, d

LEMMA RemoveFit ==
  ASSUME NEW t \in Trainings, NEW doc, NEW own, NEW p \in Participants,
         Fit(t, doc, own)
  PROVE  Fit(t, WithoutParticipant(doc, p), own)
BY DEF Fit, TrainingDoc, Consistent, WithoutParticipant

\* Pushing the one attendance of a participant in an execution.
LEMMA AttendFit ==
  ASSUME NEW t \in Trainings, NEW doc, NEW own, NEW p \in Participants,
         NEW x \in doc.executions, Fit(t, doc, own),
         x.attendance # Undefined, HasNotAttended(x, p)
  PROVE  Fit(t, WithAttendance(doc, x, p), own)
<1> DEFINE y == [x EXCEPT !.attendance[p] = @ + 1]
           d == WithAttendance(doc, x, p)
<1>1. x \in Execution /\ x.attendance \in [Participants -> Nat]
  BY DEF Fit, TrainingDoc, Execution
<1>2. y \in Execution /\ \A q \in Participants : y.attendance[q] <= 1
  BY <1>1 DEF Fit, Consistent, Execution, HasNotAttended
<1> HIDE DEF y
<1>3. d \in TrainingDoc /\ d.participants = doc.participants
      /\ d.executions = (doc.executions \ {x}) \cup {y}
  BY <1>2 DEF Fit, TrainingDoc, WithAttendance, y
<1> HIDE DEF d
<1>4. Consistent(d)
  BY <1>2, <1>3 DEF Fit, Consistent
<1> QED
  BY <1>3, <1>4 DEF Fit, d

\* What an update makes of the document it has read.
LEMMA RescheduleFit ==
  ASSUME NEW t \in Trainings, NEW doc, NEW own, NEW c \in Codes \cup {None},
         NEW kept \in SUBSET Executions, NEW new \in SUBSET Executions,
         Fit(t, doc, own)
  PROVE  Fit(t, [doc EXCEPT
                   !.code = IF c = None THEN @ ELSE c,
                   !.executions = {KeptExecution(e) : e \in kept}
                                    \cup {NewExecution(e) : e \in new}], own)
<1> DEFINE d == [doc EXCEPT
                   !.code = IF c = None THEN @ ELSE c,
                   !.executions = {KeptExecution(e) : e \in kept}
                                    \cup {NewExecution(e) : e \in new}]
<1>1. \A e \in kept : KeptExecution(e) \in Execution
                       /\ KeptExecution(e).attendance = Undefined
  BY DEF KeptExecution, Execution
<1>2. \A e \in new : NewExecution(e) \in Execution
        /\ \A p \in Participants : NewExecution(e).attendance[p] <= 1
  BY DEF NewExecution, Execution
<1>3. d \in TrainingDoc /\ d.participants = doc.participants
      /\ d.executions = {KeptExecution(e) : e \in kept}
                           \cup {NewExecution(e) : e \in new}
  BY <1>1, <1>2 DEF Fit, TrainingDoc
<1> HIDE DEF d
<1>4. Consistent(d)
  BY <1>1, <1>2, <1>3 DEF Fit, Consistent
<1> QED
  BY <1>3, <1>4 DEF Fit, d

-----------------------------------------------------------------------------
(* The steps of the requests. *)

\* What the type invariant says of a request, by what it waits for.
LEMMA RequestType ==
  ASSUME TypeOK, NEW r \in Requests
  PROVE  /\ request[r].pc = "checkCode" =>
              /\ request[r].t \in Trainings /\ request[r].seen \in TrainingDoc
              /\ request[r].code \in Codes \cup {None}
              /\ request[r].kept \in SUBSET Executions
         /\ request[r].pc = "create" => request[r].code \in Codes
         /\ request[r].pc = "replace" =>
              /\ request[r].t \in Trainings /\ request[r].doc \in TrainingDoc
              /\ request[r].effect \in Effect
BY DEF TypeOK, Request, Idle

\* Granting a new id leaves every fit document fit: none lists it.
LEMMA GrantFit ==
  ASSUME NEW t \in Trainings, NEW doc, NEW own, NEW own2, Fit(t, doc, own),
         \A q \in Participants : own[q] = None \/ own2[q] = own[q]
  PROVE  Fit(t, doc, own2)
<1> SUFFICES ASSUME NEW x \in doc.participants
             PROVE  own2[x.id] = <<t, x.foreignId>>
  BY DEF Fit
<1>1. x.id \in Participants /\ x.foreignId \in Users
  BY DEF Fit, TrainingDoc, Participant
<1>2. own[x.id] = <<t, x.foreignId>>
  BY DEF Fit
<1>3. own[x.id] # None
  BY <1>1, <1>2, TrainingAssumption
<1> QED
  BY <1>1, <1>2, <1>3

LEMMA GrantRequestFit ==
  ASSUME TypeOK, NEW r \in Requests, NEW own2, RequestFit(request[r], owner),
         \A q \in Participants : owner[q] = None \/ own2[q] = owner[q]
  PROVE  RequestFit(request[r], own2)
<1>1. CASE request[r].pc \in {"checkCode", "replace"}
  BY <1>1, RequestType, GrantFit DEF RequestFit
<1>2. CASE request[r].pc \notin {"checkCode", "replace"}
  BY <1>2 DEF RequestFit
<1> QED
  BY <1>1, <1>2

\* A request that starts to wait with a fit document: the ids generated so
\* far stay what they are, and the container is not touched.
LEMMA WaitStep ==
  ASSUME IInv, NEW r \in Requests, NEW t \in Trainings, NEW doc,
         NEW kind, NEW p, NEW e, [kind |-> kind, p |-> p, e |-> e] \in Effect,
         Exists(t), Fit(t, doc, owner'), WaitForReplace(r, t, doc, kind, p, e),
         owner' \in [Participants -> (Trainings \X Users) \cup {None}],
         \A q \in Participants : owner[q] = None \/ owner'[q] = owner[q],
         UNCHANGED <<store, issued, told, codeRace>>
  PROVE  IInv'
<1>1. \A s \in Trainings : \A d : Fit(s, d, owner) => Fit(s, d, owner')
  BY GrantFit
<1>2. Fit(t, store[t], owner) /\ t \in issued
  BY DEF IInv, StoreFit
<1>3. request' = [request EXCEPT ![r] = request'[r]]
      /\ request'[r] = [pc |-> "replace", t |-> t, seen |-> store[t], doc |-> doc,
                        effect |-> [kind |-> kind, p |-> p, e |-> e]]
  BY DEF WaitForReplace, IInv, TypeOK
<1>4. request'[r] \in Request
  BY <1>2, <1>3 DEF Request, Fit
<1>5. TypeOK'
  BY <1>3, <1>4 DEF IInv, TypeOK, told
<1>6. StoreFit'
  BY <1>1 DEF IInv, StoreFit, Exists
<1>7. RequestFit(request'[r], owner')
  <2>1. request'[r].t = t /\ request'[r].seen = store[t] /\ request'[r].doc = doc
    BY <1>3
  <2> QED BY <2>1, <1>1, <1>2 DEF RequestFit
<1>8. \A s \in Requests \ {r} : RequestFit(request'[s], owner')
  <2> TAKE s \in Requests \ {r}
  <2>1. request'[s] = request[s]
    BY <1>3 DEF IInv, TypeOK
  <2> QED BY <2>1, GrantRequestFit DEF IInv
<1> QED
  BY <1>5, <1>6, <1>7, <1>8 DEF IInv, RequestFit

\* The handlers of ParticipantsService.
LEMMA ParticipantStep ==
  ASSUME IInv, NEW r \in Requests, HandleParticipant(r)
  PROVE  IInv'
<1>1. ASSUME NEW t \in Trainings, NEW u \in Users, NEW roles \in RoleLists,
             AddParticipant(r, t, u, roles)
      PROVE  IInv'
  <2>1. PICK p \in FreshParticipants :
          /\ owner' = [owner EXCEPT ![p] = <<t, u>>]
          /\ WaitForReplace(r, t,
               WithParticipant(store[t], NewParticipant(p, u, roles)),
               "added", p, None)
    BY <1>1 DEF AddParticipant
  <2>2. p \in Participants /\ owner[p] = None
    BY DEF FreshParticipants
  <2>3. owner' \in [Participants -> (Trainings \X Users) \cup {None}]
        /\ owner'[p] = <<t, u>>
        /\ \A q \in Participants : owner[q] = None \/ owner'[q] = owner[q]
    BY <2>1, <2>2 DEF IInv, TypeOK
  <2>4. Fit(t, store[t], owner')
    BY <1>1, <2>3, GrantFit DEF AddParticipant, IInv, StoreFit
  <2>5. Fit(t, WithParticipant(store[t], NewParticipant(p, u, roles)), owner')
    BY <1>1, <2>2, <2>3, <2>4, PushFit DEF AddParticipant
  <2> QED
    BY <1>1, <2>1, <2>2, <2>3, <2>5, WaitStep DEF AddParticipant, Effect
<1>2. ASSUME NEW t \in Trainings, NEW x \in store[t].participants,
             NEW y \in Participant, NEW kind \in {"added", "edited"},
             Exists(t), y.id = x.id, y.foreignId = x.foreignId,
             \A role \in Roles : y.certificates[role] <= 1,
             WaitForReplace(r, t, ChangeParticipant(store[t], x, y),
                            kind, x.id, None),
             UNCHANGED <<store, issued, owner, told, codeRace>>
      PROVE  IInv'
  <2>1. Fit(t, store[t], owner)
    BY <1>2 DEF IInv, StoreFit
  <2>2. x.id \in Participants
    BY <2>1 DEF Fit, TrainingDoc, Participant
  <2>3. Fit(t, ChangeParticipant(store[t], x, y), owner')
    BY <1>2, <2>1, ChangeFit
  <2> QED
    BY <1>2, <2>2, <2>3, WaitStep DEF IInv, TypeOK, Effect
<1>3. ASSUME NEW t \in Trainings, Exists(t), NEW x \in store[t].participants
      PROVE  x \in Participant /\ \A role \in Roles : x.certificates[role] <= 1
  BY <1>3 DEF IInv, StoreFit, Fit, Consistent, TrainingDoc
<1>4. ASSUME NEW t \in Trainings, NEW u \in Users, NEW roles \in RoleLists,
             ChangeRoles(r, t, u, roles)
      PROVE  IInv'
  <2>1. PICK x \in store[t].participants :
          WaitForReplace(r, t,
            ChangeParticipant(store[t], x, [x EXCEPT !.roles = roles]),
            "added", x.id, None)
    BY <1>4 DEF ChangeRoles
  <2> DEFINE y == [x EXCEPT !.roles = roles]
  <2>2. y \in Participant /\ y.id = x.id /\ y.foreignId = x.foreignId
        /\ \A role \in Roles : y.certificates[role] <= 1
    BY <1>3, <1>4 DEF ChangeRoles, Participant
  <2> QED
    BY <1>2, <1>4, <2>1, <2>2 DEF ChangeRoles
<1>5. ASSUME NEW p \in Participants, NEW roles \in RoleLists \cup {None},
             NEW status \in Status \cup {None},
             UpdateParticipant(r, p, roles, status)
      PROVE  IInv'
  <2>1. PICK t \in Trainings : Exists(t) /\ \E x \in store[t].participants :
          /\ x.id = p
          /\ WaitForReplace(r, t,
               ChangeParticipant(store[t], x,
                 [x EXCEPT
                    !.roles = IF roles = None THEN @ ELSE roles,
                    !.attendanceStatus = IF status = None THEN @ ELSE status]),
               "edited", p, None)
    BY <1>5 DEF UpdateParticipant
  <2>2. PICK x \in store[t].participants :
          /\ x.id = p
          /\ WaitForReplace(r, t,
               ChangeParticipant(store[t], x,
                 [x EXCEPT
                    !.roles = IF roles = None THEN @ ELSE roles,
                    !.attendanceStatus = IF status = None THEN @ ELSE status]),
               "edited", p, None)
    BY <2>1
  <2> DEFINE y == [x EXCEPT
                    !.roles = IF roles = None THEN @ ELSE roles,
                    !.attendanceStatus = IF status = None THEN @ ELSE status]
  <2>3. y \in Participant /\ y.id = x.id /\ y.foreignId = x.foreignId
        /\ \A role \in Roles : y.certificates[role] <= 1
    BY <1>3, <2>1 DEF Participant
  <2> QED
    BY <1>2, <1>5, <2>1, <2>2, <2>3 DEF UpdateParticipant
<1>6. ASSUME NEW t \in Trainings, NEW p \in Participants,
             RemoveParticipant(r, t, p)
      PROVE  IInv'
  <2>1. Fit(t, WithoutParticipant(store[t], p), owner')
    BY <1>6, RemoveFit DEF RemoveParticipant, IInv, StoreFit
  <2> QED
    BY <1>6, <2>1, WaitStep DEF RemoveParticipant, IInv, TypeOK, Effect
<1>7. ASSUME NEW p \in Participants, CompleteTraining(r, p)
      PROVE  IInv'
  <2>1. PICK t \in Trainings : Exists(t) /\ \E x \in store[t].participants :
          /\ x.id = p
          /\ WaitForReplace(r, t,
               ChangeParticipant(store[t], x,
                 [x EXCEPT !.attendanceStatus = "attended"]),
               "edited", p, None)
    BY <1>7 DEF CompleteTraining
  <2>2. PICK x \in store[t].participants :
          /\ x.id = p
          /\ WaitForReplace(r, t,
               ChangeParticipant(store[t], x,
                 [x EXCEPT !.attendanceStatus = "attended"]),
               "edited", p, None)
    BY <2>1
  <2> DEFINE y == [x EXCEPT !.attendanceStatus = "attended"]
  <2>3. y \in Participant /\ y.id = x.id /\ y.foreignId = x.foreignId
        /\ \A role \in Roles : y.certificates[role] <= 1
    BY <1>3, <2>1 DEF Participant, Status
  <2> QED
    BY <1>2, <1>7, <2>1, <2>2, <2>3 DEF CompleteTraining
<1>8. ASSUME NEW p \in Participants, NEW role \in Roles,
             GenerateCertificate(r, p, role)
      PROVE  IInv'
  <2>1. PICK t \in Trainings : Exists(t) /\ \E x \in store[t].participants :
          /\ x.id = p
          /\ WaitForReplace(r, t,
               ChangeParticipant(store[t], x,
                 [x EXCEPT !.certificates[role] = IF @ = 0 THEN 1 ELSE @]),
               "edited", p, None)
    BY <1>8 DEF GenerateCertificate
  <2>2. PICK x \in store[t].participants :
          /\ x.id = p
          /\ WaitForReplace(r, t,
               ChangeParticipant(store[t], x,
                 [x EXCEPT !.certificates[role] = IF @ = 0 THEN 1 ELSE @]),
               "edited", p, None)
    BY <2>1
  <2> DEFINE y == [x EXCEPT !.certificates[role] = IF @ = 0 THEN 1 ELSE @]
  <2>3. y \in Participant /\ y.id = x.id /\ y.foreignId = x.foreignId
        /\ \A s \in Roles : y.certificates[s] <= 1
    <3>1. x \in Participant /\ x.certificates \in [Roles -> Nat]
          /\ \A s \in Roles : x.certificates[s] <= 1
      BY <1>3, <2>1 DEF Participant
    <3> QED BY <3>1 DEF Participant
  <2> QED
    BY <1>2, <1>8, <2>1, <2>2, <2>3 DEF GenerateCertificate
<1>9. ASSUME NEW t \in Trainings, NEW e \in Executions, NEW u \in Users,
             AddAttendanceToExecution(r, t, e, u)
      PROVE  IInv'
  <2>1. PICK x \in store[t].executions, y \in store[t].participants :
          /\ x.attendance # Undefined
          /\ HasNotAttended(x, y.id)
          /\ WaitForReplace(r, t, WithAttendance(store[t], x, y.id),
                            "attended", y.id, e)
    BY <1>9 DEF AddAttendanceToExecution
  <2>2. y.id \in Participants
    BY <1>3, <1>9 DEF AddAttendanceToExecution, Participant
  <2>3. Fit(t, WithAttendance(store[t], x, y.id), owner')
    BY <1>9, <2>1, <2>2, AttendFit
    DEF AddAttendanceToExecution, IInv, StoreFit
  <2> QED
    BY <1>9, <2>1, <2>2, <2>3, WaitStep
    DEF AddAttendanceToExecution, IInv, TypeOK, Effect
<1> QED
  BY <1>1, <1>4, <1>5, <1>6, <1>7, <1>8, <1>9 DEF HandleParticipant

\* The handlers of TrainingService that wait for a code check or a write.
LEMMA TrainingStep ==
  ASSUME IInv, NEW r \in Requests, HandleTraining(r)
  PROVE  IInv'
<1> USE RequestType DEF IInv
<1>1. ASSUME NEW c \in Codes, NEW grows \in BOOLEAN, CreateTraining(r, c, grows)
      PROVE  IInv'
  <2>1. [pc |-> "create", code |-> c, grows |-> grows] \in Request
    BY DEF Request
  <2>2. TypeOK'
    BY <1>1, <2>1 DEF CreateTraining, NoteCodeRace, TypeOK, told
  <2>3. StoreFit'
    BY <1>1 DEF CreateTraining, StoreFit, Exists
  <2>4. \A s \in Requests : RequestFit(request[s], owner)'
    BY <1>1 DEF CreateTraining, RequestFit, TypeOK
  <2> QED
    BY <2>2, <2>3, <2>4
<1>2. ASSUME InsertTraining(r)
      PROVE  IInv'
  <2>1. PICK t \in Trainings \ issued,
             new \in SUBSET (Executions \ issued) :
          /\ store' = [store EXCEPT ![t] =
               [code |-> request[r].code,
                executions |-> {NewExecution(e) : e \in new},
                participants |-> {}]]
          /\ issued' = issued \cup {t} \cup new
    BY <1>2 DEF InsertTraining
  <2> DEFINE d == [code |-> request[r].code,
                   executions |-> {NewExecution(e) : e \in new},
                   participants |-> {}]
  <2>2. new \subseteq Executions
    OBVIOUS
  <2>3. \A e \in new : NewExecution(e) \in Execution
          /\ \A p \in Participants : NewExecution(e).attendance[p] <= 1
    BY <2>2 DEF NewExecution, Execution
  <2>4. Fit(t, d, owner)
    <3>1. d \in TrainingDoc
      BY <1>2, <2>3 DEF InsertTraining, TrainingDoc
    <3>2. Consistent(d)
      BY <2>3 DEF Consistent
    <3> QED
      BY <3>1, <3>2 DEF Fit
  <2> HIDE DEF d
  <2>5. TypeOK'
    <3>1. store' \in [Trainings -> TrainingDoc \cup {Absent}]
      BY <2>1, <2>4 DEF TypeOK, Fit, d
    <3>2. issued' \subseteq Trainings \cup Executions
      BY <2>1, <2>2 DEF TypeOK
    <3>3. request' \in [Requests -> Request]
      BY <1>2 DEF InsertTraining, TypeOK, Request, Idle
    <3> QED
      BY <1>2, <3>1, <3>2, <3>3 DEF InsertTraining, TypeOK, told
  <2>6. StoreFit'
    BY <1>2, <2>1, <2>4 DEF InsertTraining, StoreFit, Exists, TypeOK, d
  <2>7. \A s \in Requests : RequestFit(request[s], owner)'
    <3> TAKE s \in Requests
    <3>1. request'[s] = Idle \/ request'[s] = request[s]
      BY <1>2 DEF InsertTraining, TypeOK
    <3>2. owner' = owner /\ issued \subseteq issued'
      BY <1>2, <2>1 DEF InsertTraining
    <3>3. CASE request'[s] = Idle
      BY <3>3 DEF RequestFit, Idle
    <3>4. CASE request'[s] = request[s]
      BY <3>2, <3>4 DEF RequestFit
    <3> QED
      BY <3>1, <3>3, <3>4
  <2> QED
    BY <2>5, <2>6, <2>7
<1>3. ASSUME NEW t \in Trainings, NEW c \in Codes \cup {None},
             NEW kept \in SUBSET (Executions \cap issued),
             NEW grows \in BOOLEAN, UpdateTraining(r, t, c, kept, grows)
      PROVE  IInv'
  <2> DEFINE q == [pc |-> "checkCode", t |-> t, seen |-> store[t],
                   code |-> c, kept |-> kept, grows |-> grows]
  <2>1. Fit(t, store[t], owner) /\ t \in issued
    BY <1>3 DEF UpdateTraining, StoreFit
  <2>2. q \in Request /\ RequestFit(q, owner)
    BY <2>1 DEF Request, Fit, RequestFit
  <2>3. request' = [request EXCEPT ![r] = q]
    BY <1>3 DEF UpdateTraining
  <2> HIDE DEF q
  <2>4. TypeOK'
    BY <1>3, <2>2, <2>3 DEF UpdateTraining, TypeOK, told
  <2>5. StoreFit'
    BY <1>3 DEF UpdateTraining, StoreFit, Exists
  <2>6. \A s \in Requests : RequestFit(request[s], owner)'
    BY <1>3, <2>2, <2>3 DEF UpdateTraining, RequestFit, TypeOK
  <2> QED
    BY <2>4, <2>5, <2>6
<1>4. ASSUME CheckCode(r)
      PROVE  IInv'
  <2> DEFINE q == request[r]
  <2>1. PICK new \in SUBSET (Executions \ issued) :
          /\ issued' = issued \cup new
          /\ request' = [request EXCEPT ![r] =
                 [pc |-> "replace", t |-> q.t, seen |-> q.seen,
                  doc |-> [q.seen EXCEPT
                    !.code = IF q.code = None THEN @ ELSE q.code,
                    !.executions = {KeptExecution(e) : e \in q.kept}
                                     \cup {NewExecution(e) : e \in new}],
                  effect |-> [kind |-> "rescheduled", p |-> None, e |-> None]]]
    BY <1>4 DEF CheckCode
  <2> DEFINE d == [q.seen EXCEPT
                    !.code = IF q.code = None THEN @ ELSE q.code,
                    !.executions = {KeptExecution(e) : e \in q.kept}
                                     \cup {NewExecution(e) : e \in new}]
             q2 == [pc |-> "replace", t |-> q.t, seen |-> q.seen, doc |-> d,
                    effect |-> [kind |-> "rescheduled", p |-> None, e |-> None]]
  <2>2. new \in SUBSET Executions
    OBVIOUS
  <2>3. /\ q.t \in Trainings /\ q.seen \in TrainingDoc
        /\ q.code \in Codes \cup {None} /\ q.kept \in SUBSET Executions
        /\ Fit(q.t, q.seen, owner) /\ q.t \in issued
    BY <1>4 DEF CheckCode, RequestFit
  <2>4. Fit(q.t, d, owner)
    BY <2>2, <2>3, RescheduleFit
  <2>5. request' = [request EXCEPT ![r] = q2]
    BY <2>1
  <2> HIDE DEF d, q
  <2>6. q2 \in Request /\ RequestFit(q2, owner)
    BY <2>3, <2>4 DEF Request, Effect, Fit, RequestFit
  <2> HIDE DEF q2
  <2>7. TypeOK'
    BY <1>4, <2>1, <2>2, <2>5, <2>6
    DEF CheckCode, NoteCodeRace, TypeOK, told
  <2>8. StoreFit'
    BY <1>4, <2>1 DEF CheckCode, StoreFit, Exists
  <2>9. \A s \in Requests : RequestFit(request[s], owner)'
    <3> TAKE s \in Requests
    <3>1. request'[s] = q2 \/ request'[s] = request[s]
      BY <2>5 DEF TypeOK
    <3> QED
      BY <1>4, <2>1, <2>6, <3>1 DEF CheckCode, RequestFit
  <2> QED
    BY <2>7, <2>8, <2>9
<1> QED
  BY <1>1, <1>2, <1>3, <1>4 DEF HandleTraining

\* A request that is answered forgets what it held.
LEMMA AnswerStep ==
  ASSUME IInv, NEW r \in Requests, request' = [request EXCEPT ![r] = Idle],
         UNCHANGED <<issued, owner>>
  PROVE  /\ request' \in [Requests -> Request]
         /\ \A s \in Requests : RequestFit(request[s], owner)'
<1>1. request' \in [Requests -> Request]
  BY DEF IInv, TypeOK, Request
<1>2. ASSUME NEW s \in Requests
      PROVE  RequestFit(request[s], owner)'
  <2>1. request'[s] = Idle \/ request'[s] = request[s]
    BY DEF IInv, TypeOK
  <2> QED
    BY <2>1 DEF IInv, RequestFit, Idle
<1> QED
  BY <1>1, <1>2

\* Whatever it overwrites, a replace stores a fit document.
LEMMA ReplaceStep ==
  ASSUME IInv, NEW r \in Requests, Replace(r)
  PROVE  IInv'
<1> DEFINE t == request[r].t
           effect == request[r].effect
<1>1. /\ t \in Trainings /\ t \in issued /\ Fit(t, request[r].doc, owner)
      /\ effect \in Effect
  BY RequestType DEF Replace, IInv, RequestFit
<1>2. store' = [store EXCEPT ![t] = request[r].doc] /\ Tell(t, effect)
      /\ Exists(t)
      /\ overwritten' = overwritten \cup
           (IF store[t] # request[r].seen THEN {t} ELSE {})
      /\ UNCHANGED <<issued, owner, codeRace>>
  BY DEF Replace, CanReplace
<1>3. StoreFit'
  BY <1>1, <1>2 DEF IInv, StoreFit, Exists, TypeOK
<1>4. request' \in [Requests -> Request]
      /\ \A s \in Requests : RequestFit(request[s], owner)'
  BY <1>2, AnswerStep DEF Replace
<1>5. TypeOK'
  <2>1. /\ effect.kind \in {"added", "removed", "attended"} =>
             effect.p \in Participants
        /\ effect.kind = "attended" => effect.e \in Executions
    BY <1>1 DEF Effect
  <2>2. store' \in [Trainings -> TrainingDoc \cup {Absent}]
    BY <1>1, <1>2 DEF IInv, TypeOK, Fit
  <2>3. overwritten' \subseteq Trainings /\ rescheduled' \subseteq Trainings
    BY <1>1, <1>2 DEF IInv, TypeOK, Tell
  <2>4. /\ added' \subseteq Trainings \X Participants
        /\ removed' \subseteq Trainings \X Participants
        /\ attended' \subseteq Trainings \X Executions \X Participants
    BY <1>1, <1>2, <2>1 DEF IInv, TypeOK, Tell
  <2> QED
    BY <1>2, <1>4, <2>2, <2>3, <2>4 DEF IInv, TypeOK
<1> QED
  BY <1>3, <1>4, <1>5 DEF IInv

LEMMA InitFit == Init => IInv
<1> SUFFICES ASSUME Init
             PROVE  IInv
  OBVIOUS
<1>1. TypeOK
  BY DEF Init, TypeOK, Request
<1>2. StoreFit
  BY DEF Init, StoreFit, Exists
<1>3. \A r \in Requests : RequestFit(request[r], owner)
  BY DEF Init, RequestFit, Idle
<1> QED
  BY <1>1, <1>2, <1>3 DEF IInv

LEMMA NextFit == IInv /\ [Next]_vars => IInv'
<1> SUFFICES ASSUME IInv, [Next]_vars
             PROVE  IInv'
  OBVIOUS
<1>1. ASSUME NEW r \in Requests, Fail(r)
      PROVE  IInv'
  <2>1. request' \in [Requests -> Request]
        /\ \A s \in Requests : RequestFit(request[s], owner)'
    BY <1>1, AnswerStep DEF Fail
  <2>2. TypeOK' /\ StoreFit'
    BY <1>1, <2>1 DEF Fail, IInv, TypeOK, told, StoreFit, Exists
  <2> QED
    BY <2>1, <2>2 DEF IInv
<1>2. ASSUME NEW t \in Trainings, RemoveTraining(t)
      PROVE  IInv'
  BY <1>2 DEF RemoveTraining, IInv, TypeOK, told, StoreFit, Exists, RequestFit
<1>3. CASE UNCHANGED vars
  BY <1>3 DEF vars, told, IInv, TypeOK, StoreFit, Exists, RequestFit
<1> QED
  BY <1>1, <1>2, <1>3, ParticipantStep, TrainingStep, ReplaceStep DEF Next

\* The stored documents and every copy of them stay fit.
THEOREM CopiesStayFit == Spec => []IInv
BY InitFit, NextFit, PTL DEF Spec

\* Every variable keeps its type.
THEOREM TypeCorrect == Spec => []TypeOK
BY CopiesStayFit, PTL DEF IInv

\* However many requests interleave, no user is twice in a training.
THEOREM NoDoubleParticipant == Spec => []OneParticipantPerUser
<1>1. IInv => OneParticipantPerUser
  BY DEF IInv, StoreFit, Fit, Consistent, OneParticipantPerUser
<1> QED
  BY <1>1, CopiesStayFit, PTL

\* No attendance and no certificate is stored twice.
THEOREM NoDoubleEntry == Spec => []NothingTwice
<1>1. IInv => NothingTwice
  BY DEF IInv, StoreFit, Fit, Consistent, NothingTwice
<1> QED
  BY <1>1, CopiesStayFit, PTL

\* A credential names its owner for ever.
THEOREM CredentialsAreStable == Spec => []CredentialNamesItsOwner
<1>1. IInv => CredentialNamesItsOwner
  BY DEF IInv, StoreFit, Fit, CredentialNamesItsOwner
<1> QED
  BY <1>1, CopiesStayFit, PTL

-----------------------------------------------------------------------------
(* Action by action, what a step does to the container and to the ids. *)

LEMMA StepKinds ==
  ASSUME IInv, [Next]_vars
  PROVE  \/ UNCHANGED <<store, issued, owner>>
         \/ /\ UNCHANGED <<store, issued>>
            /\ \E p \in Participants, t \in Trainings, u \in Users :
                 /\ Exists(t) /\ owner[p] = None
                 /\ owner' = [owner EXCEPT ![p] = <<t, u>>]
         \/ /\ UNCHANGED <<store, owner>>
            /\ \E new \in SUBSET Executions : issued' = issued \cup new
         \/ /\ UNCHANGED owner
            /\ \E t \in Trainings \ issued, new \in SUBSET Executions,
                  d \in TrainingDoc :
                 /\ d.participants = {}
                 /\ store' = [store EXCEPT ![t] = d]
                 /\ issued' = issued \cup {t} \cup new
         \/ /\ UNCHANGED <<issued, owner>>
            /\ \E t \in Trainings : \E d : Exists(t) /\ Fit(t, d, owner)
                                        /\ store' = [store EXCEPT ![t] = d]
         \/ /\ UNCHANGED <<issued, owner>>
            /\ \E t \in Trainings : Exists(t)
                 /\ store' = [store EXCEPT ![t] = Absent]
<1>1. ASSUME NEW r \in Requests, HandleParticipant(r)
      PROVE  \/ UNCHANGED <<store, issued, owner>>
             \/ /\ UNCHANGED <<store, issued>>
                /\ \E p \in Participants, t \in Trainings, u \in Users :
                     /\ Exists(t) /\ owner[p] = None
                     /\ owner' = [owner EXCEPT ![p] = <<t, u>>]
  <2>1. CASE \E t \in Trainings, u \in Users, roles \in RoleLists : AddParticipant(r, t, u, roles)
    BY <2>1 DEF AddParticipant, FreshParticipants
  <2>2. CASE ~\E t \in Trainings, u \in Users, roles \in RoleLists : AddParticipant(r, t, u, roles)
    BY <1>1, <2>2 DEF HandleParticipant, ChangeRoles, UpdateParticipant, RemoveParticipant,
       AddAttendanceToExecution, CompleteTraining, GenerateCertificate
  <2> QED
    BY <2>1, <2>2
<1>2. ASSUME NEW r \in Requests, CheckCode(r)
      PROVE  /\ UNCHANGED <<store, owner>>
             /\ \E new \in SUBSET Executions : issued' = issued \cup new
  BY <1>2 DEF CheckCode
<1>3. ASSUME NEW r \in Requests, InsertTraining(r)
      PROVE  /\ UNCHANGED owner
             /\ \E t \in Trainings \ issued, new \in SUBSET Executions,
                   d \in TrainingDoc :
                  /\ d.participants = {}
                  /\ store' = [store EXCEPT ![t] = d]
                  /\ issued' = issued \cup {t} \cup new
  <2>1. PICK t \in Trainings \ issued,
             new \in SUBSET (Executions \ issued) :
          /\ store' = [store EXCEPT ![t] =
               [code |-> request[r].code,
                executions |-> {NewExecution(e) : e \in new},
                participants |-> {}]]
          /\ issued' = issued \cup {t} \cup new
    BY <1>3 DEF InsertTraining
  <2> DEFINE d == [code |-> request[r].code,
                   executions |-> {NewExecution(e) : e \in new},
                   participants |-> {}]
  <2>2. new \in SUBSET Executions
    OBVIOUS
  <2>3. \A e \in new : NewExecution(e) \in Execution
    BY <2>2 DEF NewExecution, Execution
  <2>4. d \in TrainingDoc
    BY <1>3, <2>3, RequestType DEF IInv, InsertTraining, TrainingDoc
  <2> QED
    BY <1>3, <2>1, <2>2, <2>4 DEF InsertTraining
<1>4. ASSUME NEW r \in Requests,
             \/ \E c \in Codes, grows \in BOOLEAN : CreateTraining(r, c, grows)
             \/ \E t \in Trainings, c \in Codes \cup {None},
                   kept \in SUBSET (Executions \cap issued), grows \in BOOLEAN :
                  UpdateTraining(r, t, c, kept, grows)
             \/ Fail(r)
      PROVE  UNCHANGED <<store, issued, owner>>
  BY <1>4 DEF CreateTraining, UpdateTraining, Fail
<1>5. ASSUME NEW r \in Requests, Replace(r)
      PROVE  /\ UNCHANGED <<issued, owner>>
             /\ \E t \in Trainings : \E d : Exists(t) /\ Fit(t, d, owner)
                                         /\ store' = [store EXCEPT ![t] = d]
  <2>1. request[r].t \in Trainings /\ Fit(request[r].t, request[r].doc, owner)
    BY <1>5, RequestType DEF Replace, IInv, RequestFit
  <2> QED
    BY <1>5, <2>1 DEF Replace, CanReplace
<1>6. ASSUME NEW t \in Trainings, RemoveTraining(t)
      PROVE  /\ UNCHANGED <<issued, owner>>
             /\ Exists(t) /\ store' = [store EXCEPT ![t] = Absent]
  BY <1>6 DEF RemoveTraining
<1>7. CASE UNCHANGED vars
  BY <1>7 DEF vars
<1> QED
  BY <1>1, <1>2, <1>3, <1>4, <1>5, <1>6, <1>7 DEF Next, HandleTraining

\* A training that was removed never comes back.
THEOREM RemovalIsFinal == Spec => RemovedForGood
<1>1. IInv /\ [Next]_vars =>
        [\A t \in Trainings :
           t \in issued /\ store[t] = Absent => store'[t] = Absent]_vars
  <2> SUFFICES ASSUME IInv, [Next]_vars, NEW t \in Trainings,
                      t \in issued, store[t] = Absent
               PROVE  store'[t] = Absent
    OBVIOUS
  <2> QED
    BY StepKinds DEF IInv, TypeOK, Exists
<1> QED
  BY <1>1, CopiesStayFit, PTL DEF Spec, RemovedForGood

-----------------------------------------------------------------------------
(* Training implements Enrolment. *)

\* The roster of a fit document is one that Enrolment allows.
LEMMA FitRoster ==
  ASSUME NEW t \in Trainings, NEW doc, Fit(t, doc, owner)
  PROVE  LET entries == {<<x.foreignId, x.id>> : x \in doc.participants}
         IN  /\ entries \in SUBSET Promise!Granted(t)
             /\ \A e, f \in entries : e[1] = f[1] => e = f
<1>1. \A x \in doc.participants : x.id \in Participants /\ x.foreignId \in Users
        /\ owner[x.id] = <<t, x.foreignId>>
  BY DEF Fit, TrainingDoc, Participant
<1>2. \A x, y \in doc.participants : x.foreignId = y.foreignId => x = y
  BY DEF Fit, Consistent
<1> QED
  BY <1>1, <1>2 DEF Promise!Granted

LEMMA InitPromise == Init => Promise!Init
BY DEF Init, Promise!Init, Phase, Roster, Exists

LEMMA NextPromise ==
  IInv /\ [Next]_vars => [Promise!Next]_<<Phase, Roster, owner>>
<1> SUFFICES ASSUME IInv, [Next]_vars
             PROVE  [Promise!Next]_<<Phase, Roster, owner>>
  OBVIOUS
<1>1. CASE UNCHANGED <<store, issued, owner>>
  BY <1>1 DEF Phase, Roster, Exists
<1>2. ASSUME NEW p \in Participants, NEW t \in Trainings, NEW u \in Users,
             Exists(t), owner[p] = None, UNCHANGED <<store, issued>>,
             owner' = [owner EXCEPT ![p] = <<t, u>>]
      PROVE  Promise!Grant(p, t, u)
  BY <1>2 DEF Promise!Grant, Phase, Roster, Exists
<1>3. ASSUME NEW new \in SUBSET Executions, issued' = issued \cup new,
             UNCHANGED <<store, owner>>
      PROVE  UNCHANGED <<Phase, Roster, owner>>
  BY <1>3, TrainingAssumption DEF Phase, Roster, Exists
<1>4. ASSUME NEW t \in Trainings \ issued, NEW new \in SUBSET Executions,
             NEW d \in TrainingDoc, d.participants = {},
             store' = [store EXCEPT ![t] = d],
             issued' = issued \cup {t} \cup new, UNCHANGED owner
      PROVE  Promise!Open(t)
  <2>1. store[t] = Absent /\ store'[t] = d /\ d # Absent
        /\ \A s \in Trainings \ {t} : store'[s] = store[s]
    BY <1>4, AbsentAssumption DEF IInv, StoreFit, Exists, TypeOK
  <2>2. Phase' = [Phase EXCEPT ![t] = "open"] /\ Phase[t] = "new"
    BY <1>4, <2>1, TrainingAssumption DEF Phase, Exists
  <2>3. Roster' = Roster
    BY <1>4, <2>1 DEF Roster, Exists
  <2> QED
    BY <1>4, <2>2, <2>3 DEF Promise!Open
<1>5. ASSUME NEW t \in Trainings, NEW d, Exists(t), Fit(t, d, owner),
             store' = [store EXCEPT ![t] = d], UNCHANGED <<issued, owner>>
      PROVE  Promise!Change(t)
  <2>1. store'[t] = d /\ d # Absent
        /\ \A s \in Trainings \ {t} : store'[s] = store[s]
    BY <1>5, AbsentAssumption DEF IInv, TypeOK, Fit
  <2>2. Phase' = Phase /\ Phase[t] = "open"
    BY <1>5, <2>1 DEF Phase, Exists
  <2> DEFINE entries == {<<x.foreignId, x.id>> : x \in d.participants}
  <2>3. Roster' = [Roster EXCEPT ![t] = entries]
    BY <1>5, <2>1 DEF Roster, Exists
  <2>4. entries \in SUBSET Promise!Granted(t)
        /\ \A e, f \in entries : e[1] = f[1] => e = f
    BY <1>5, FitRoster
  <2> HIDE DEF entries
  <2> QED
    BY <1>5, <2>2, <2>3, <2>4 DEF Promise!Change
<1>6. ASSUME NEW t \in Trainings, Exists(t), UNCHANGED <<issued, owner>>,
             store' = [store EXCEPT ![t] = Absent]
      PROVE  Promise!Close(t)
  <2>1. store'[t] = Absent /\ t \in issued
        /\ \A s \in Trainings \ {t} : store'[s] = store[s]
    BY <1>6 DEF IInv, TypeOK, StoreFit
  <2>2. Phase' = [Phase EXCEPT ![t] = "closed"] /\ Phase[t] = "open"
    BY <1>6, <2>1 DEF Phase, Exists
  <2>3. Roster' = [Roster EXCEPT ![t] = {}]
    BY <1>6, <2>1 DEF Roster, Exists
  <2> QED
    BY <1>6, <2>2, <2>3 DEF Promise!Close
<1> QED
  BY <1>1, <1>2, <1>3, <1>4, <1>5, <1>6, StepKinds DEF Promise!Next

\* Every behaviour of the training handlers keeps the promise of Enrolment.
THEOREM TrainingImplementsEnrolment == Spec => KeepsThePromise
BY InitPromise, NextPromise, CopiesStayFit, PTL
DEF Spec, KeepsThePromise, Promise!Spec

-----------------------------------------------------------------------------
(* What callers are told.  The inductive invariant of this part relates    *)
(* each waiting document to the one its request has read: the difference   *)
(* is what the answer will say, no more.  Of a participant who is only     *)
(* about to be stored nobody else has heard, so nobody can have removed    *)
(* him before.  And as long as no two requests choose a code together and  *)
(* none overwrites a state it has not read, a code that was found free is  *)
(* free until the document with it is written.                             *)

Ids(doc) == {x.id : x \in doc.participants}

Attended(doc, e, p) ==
  \E x \in doc.executions : x.id = e /\ x.attendance[p] = 1

\* Replacing seen by doc is what the answer calls effect.
Does(effect, seen, doc) ==
  /\ effect.kind = "added" => Ids(doc) = Ids(seen) \cup {effect.p}
  /\ effect.kind = "removed" =>
       effect.p \in Ids(seen) /\ Ids(doc) = Ids(seen) \ {effect.p}
  /\ effect.kind \notin {"added", "removed"} => Ids(doc) = Ids(seen)
  /\ effect.kind = "attended" =>
       /\ Attended(doc, effect.e, effect.p)
       /\ \A e \in Executions, p \in Participants :
            Attended(seen, e, p) => Attended(doc, e, p)
  /\ effect.kind \notin {"attended", "rescheduled"} =>
       doc.executions = seen.executions
  /\ effect.kind # "rescheduled" => doc.code = seen.code

\* Request q knows of participant p.
Lists(q, p) ==
  \/ q.pc \in {"checkCode", "replace"} /\ p \in Ids(q.seen)
  \/ q.pc = "replace" /\ p \in Ids(q.doc)

\* Request q is about to store p for the first time.
Brings(q, p) ==
  /\ q.pc = "replace" /\ q.effect.kind = "added"
  /\ q.effect.p = p /\ p \notin Ids(q.seen)

EffectsHold ==
  \A r \in Requests : request[r].pc = "replace" =>
    Does(request[r].effect, request[r].seen, request[r].doc)

NewcomersUnknown ==
  \A r \in Requests, p \in Participants : Brings(request[r], p) =>
    /\ \A t \in Trainings : Exists(t) => p \notin Ids(store[t])
    /\ \A s \in Requests \ {r} : ~Lists(request[s], p)
    /\ \A t \in Trainings : <<t, p>> \notin removed

ToldOfIssued ==
  /\ \A t \in Trainings, p \in Participants :
       <<t, p>> \in added \cup removed => t \in issued /\ owner[p] # None
  /\ \A t \in Trainings, e \in Executions, p \in Participants :
       <<t, e, p>> \in attended => t \in issued

OneCodeChooser ==
  \A r, s \in Requests : ChoosesCode(r) /\ ChoosesCode(s) => r = s

DistinctCodes ==
  \A s, t \in Trainings :
    Exists(s) /\ Exists(t) /\ store[s].code = store[t].code => s = t

\* The code that request q has chosen, if any, is no other training's.
CodeIsFree(q) ==
  /\ q.pc = "create" => \A t \in Trainings : ~HasCode(t, q.code)
  /\ q.pc = "replace" /\ q.effect.kind = "rescheduled" =>
       \/ q.doc.code = q.seen.code
       \/ \A t \in Trainings \ {q.t} : ~HasCode(t, q.doc.code)

CodesChecked ==
  ~codeRace /\ overwritten = {} =>
    OneCodeChooser /\ DistinctCodes /\ \A r \in Requests : CodeIsFree(request[r])

ToldInv ==
  /\ EffectsHold /\ NewcomersUnknown /\ ToldOfIssued /\ CodesChecked
  /\ ParticipantsAsTold /\ AttendanceAsTold

-----------------------------------------------------------------------------
(* What the documents the handlers compute make of the one they have read. *)

\* A pushed participant is the only new one.
LEMMA PushDoes ==
  ASSUME NEW doc \in TrainingDoc, NEW x \in Participant, NEW e
  PROVE  Does([kind |-> "added", p |-> x.id, e |-> e], doc, WithParticipant(doc, x))
<1> DEFINE d == WithParticipant(doc, x)
<1>1. d.participants = doc.participants \cup {x}
      /\ d.executions = doc.executions /\ d.code = doc.code
  BY DEF TrainingDoc, WithParticipant
<1> HIDE DEF d
<1>2. Ids(d) = Ids(doc) \cup {x.id}
  BY <1>1 DEF Ids
<1> QED
  BY <1>1, <1>2 DEF Does, d

\* A changed participant keeps his id.
LEMMA ChangeDoes ==
  ASSUME NEW doc \in TrainingDoc, NEW x \in doc.participants,
         NEW y \in Participant, y.id = x.id,
         NEW kind \in {"added", "edited"}, NEW e
  PROVE  /\ Does([kind |-> kind, p |-> x.id, e |-> e], doc, ChangeParticipant(doc, x, y))
         /\ x.id \in Ids(doc)
<1> DEFINE d == ChangeParticipant(doc, x, y)
<1>1. d.participants = (doc.participants \ {x}) \cup {y}
      /\ d.executions = doc.executions /\ d.code = doc.code
  BY DEF TrainingDoc, ChangeParticipant
<1> HIDE DEF d
<1>2. Ids(d) = Ids(doc) /\ x.id \in Ids(doc)
  BY <1>1 DEF Ids
<1> QED
  BY <1>1, <1>2 DEF Does, d

LEMMA RemoveDoes ==
  ASSUME NEW doc \in TrainingDoc, NEW x \in doc.participants, NEW e
  PROVE  Does([kind |-> "removed", p |-> x.id, e |-> e], doc,
              WithoutParticipant(doc, x.id))
<1> DEFINE d == WithoutParticipant(doc, x.id)
<1>1. d.participants = {y \in doc.participants : y.id # x.id}
      /\ d.executions = doc.executions /\ d.code = doc.code
  BY DEF TrainingDoc, WithoutParticipant
<1> HIDE DEF d
<1>2. Ids(d) = Ids(doc) \ {x.id} /\ x.id \in Ids(doc)
  BY <1>1 DEF Ids
<1> QED
  BY <1>1, <1>2 DEF Does, d

\* A pushed attendance adds one and takes none away.
LEMMA AttendDoes ==
  ASSUME NEW doc \in TrainingDoc, NEW x \in doc.executions,
         NEW p \in Participants, x.attendance # Undefined, HasNotAttended(x, p)
  PROVE  Does([kind |-> "attended", p |-> p, e |-> x.id], doc,
              WithAttendance(doc, x, p))
<1> DEFINE y == [x EXCEPT !.attendance[p] = @ + 1]
           d == WithAttendance(doc, x, p)
<1>1. x \in Execution /\ x.attendance \in [Participants -> Nat]
  BY DEF TrainingDoc, Execution
<1>2. /\ y.id = x.id /\ y.attendance \in [Participants -> Nat]
      /\ y.attendance[p] = 1
      /\ \A q \in Participants \ {p} : y.attendance[q] = x.attendance[q]
  BY <1>1 DEF Execution, HasNotAttended
<1>3. d.participants = doc.participants /\ d.code = doc.code
      /\ d.executions = (doc.executions \ {x}) \cup {y}
  BY DEF TrainingDoc, WithAttendance
<1> HIDE DEF y, d
<1>4. Attended(d, x.id, p)
  BY <1>2, <1>3 DEF Attended
<1>5. ASSUME NEW e \in Executions, NEW q \in Participants, Attended(doc, e, q)
      PROVE  Attended(d, e, q)
  <2>1. PICK z \in doc.executions :
          z.id = e /\ z.attendance[q] = 1
    BY <1>5 DEF Attended
  <2>2. CASE z = x
    <3>1. y.attendance[q] = 1
      BY <1>2, <2>1, <2>2
    <3> QED
      BY <1>2, <1>3, <2>1, <2>2, <3>1 DEF Attended
  <2>3. CASE z # x
    BY <1>3, <2>1, <2>3 DEF Attended
  <2> QED
    BY <2>2, <2>3
<1>6. Ids(d) = Ids(doc)
  BY <1>3 DEF Ids
<1> QED
  BY <1>3, <1>4, <1>5, <1>6 DEF Does, d
-----------------------------------------------------------------------------
(* The steps, by what they do to what is told.                             *)

\* Request r, idle before, waits for doc to replace what is stored as t.
Waits(r, t, doc, effect) ==
  /\ request[r] = Idle /\ Exists(t)
  /\ request' = [request EXCEPT ![r] =
       [pc |-> "replace", t |-> t, seen |-> store[t], doc |-> doc,
        effect |-> effect]]
  /\ effect \in Effect /\ effect.kind # "rescheduled"
  /\ Does(effect, store[t], doc)

\* Every handler of ParticipantsService waits for what it will say; only the
\* one that adds a participant under a new id can bring a new participant.
LEMMA HandlerWaits ==
  ASSUME IInv, NEW r \in Requests, HandleParticipant(r)
  PROVE  /\ UNCHANGED <<store, issued, told, codeRace>>
         /\ \E t \in Trainings : \E doc, effect :
              /\ Waits(r, t, doc, effect)
              /\ \/ owner' = owner /\ effect.p \in Ids(store[t])
                 \/ /\ owner[effect.p] = None
                    /\ \E u \in Users :
                         owner' = [owner EXCEPT ![effect.p] = <<t, u>>]
<1> DEFINE Good(t, doc, effect) ==
             /\ Waits(r, t, doc, effect)
             /\ \/ owner' = owner /\ effect.p \in Ids(store[t])
                \/ /\ owner[effect.p] = None
                   /\ \E u \in Users :
                        owner' = [owner EXCEPT ![effect.p] = <<t, u>>]
           Goal == /\ UNCHANGED <<store, issued, told, codeRace>>
                   /\ \E t \in Trainings : \E doc, effect : Good(t, doc, effect)
<1>1. \A t \in Trainings : Exists(t) => store[t] \in TrainingDoc
  BY DEF IInv, StoreFit, Fit
<1>2. ASSUME NEW t \in Trainings, NEW x \in store[t].participants,
             NEW y \in Participant, NEW kind \in {"added", "edited"},
             Exists(t), request[r] = Idle, y.id = x.id,
             WaitForReplace(r, t, ChangeParticipant(store[t], x, y),
                            kind, x.id, None),
             UNCHANGED <<store, issued, owner, told, codeRace>>
      PROVE  Goal
  <2> DEFINE effect == [kind |-> kind, p |-> x.id, e |-> None]
             doc == ChangeParticipant(store[t], x, y)
  <2>1. Does(effect, store[t], doc) /\ x.id \in Ids(store[t])
    BY <1>1, <1>2, ChangeDoes
  <2>2. effect \in Effect /\ effect.kind # "rescheduled" /\ effect.p = x.id
    BY <1>1, <1>2 DEF Effect, TrainingDoc, Participant
  <2>3. Waits(r, t, doc, effect)
    BY <1>2, <2>1, <2>2 DEF Waits, WaitForReplace
  <2>4. Good(t, doc, effect)
    BY <1>2, <2>1, <2>2, <2>3
  <2> HIDE DEF effect, doc, Good
  <2> QED
    BY <1>2, <2>4
<1>3. ASSUME NEW t \in Trainings, Exists(t), NEW x \in store[t].participants
      PROVE  x \in Participant /\ x.id \in Ids(store[t])
  BY <1>1, <1>3 DEF TrainingDoc, Ids
<1>4. ASSUME NEW t \in Trainings, NEW u \in Users, NEW roles \in RoleLists,
             AddParticipant(r, t, u, roles)
      PROVE  Goal
  <2>1. PICK p \in FreshParticipants :
          /\ owner' = [owner EXCEPT ![p] = <<t, u>>]
          /\ WaitForReplace(r, t,
               WithParticipant(store[t], NewParticipant(p, u, roles)),
               "added", p, None)
    BY <1>4 DEF AddParticipant
  <2> DEFINE x == NewParticipant(p, u, roles)
             effect == [kind |-> "added", p |-> p, e |-> None]
             doc == WithParticipant(store[t], x)
  <2>2. p \in Participants /\ owner[p] = None
    BY DEF FreshParticipants
  <2>3. x \in Participant /\ x.id = p
    BY <2>2 DEF NewParticipant, Participant, Status
  <2>4. effect \in Effect /\ effect.kind # "rescheduled" /\ effect.p = p
    BY <2>2 DEF Effect
  <2>5. Does(effect, store[t], doc)
    <3> HIDE DEF x
    <3> QED BY <1>1, <1>4, <2>3, PushDoes DEF AddParticipant
  <2>6. Waits(r, t, doc, effect)
    BY <1>4, <2>1, <2>4, <2>5 DEF Waits, WaitForReplace, AddParticipant
  <2>7. Good(t, doc, effect)
    BY <2>1, <2>2, <2>4, <2>6
  <2> HIDE DEF effect, doc, Good
  <2> QED
    BY <1>4, <2>7 DEF AddParticipant
<1>5. ASSUME NEW t \in Trainings, NEW u \in Users, NEW roles \in RoleLists,
             ChangeRoles(r, t, u, roles)
      PROVE  Goal
  <2>1. PICK x \in store[t].participants :
          WaitForReplace(r, t,
            ChangeParticipant(store[t], x, [x EXCEPT !.roles = roles]),
            "added", x.id, None)
    BY <1>5 DEF ChangeRoles
  <2> DEFINE y == [x EXCEPT !.roles = roles]
  <2>2. y \in Participant /\ y.id = x.id
    BY <1>3, <1>5 DEF ChangeRoles, Participant
  <2> HIDE DEF Goal
  <2> QED
    BY <1>2, <1>5, <2>1, <2>2 DEF ChangeRoles
<1>6. ASSUME NEW p \in Participants, NEW roles \in RoleLists \cup {None},
             NEW status \in Status \cup {None},
             UpdateParticipant(r, p, roles, status)
      PROVE  Goal
  <2>0. PICK t \in Trainings : Exists(t) /\ \E x \in store[t].participants :
          /\ x.id = p
          /\ WaitForReplace(r, t,
               ChangeParticipant(store[t], x,
                 [x EXCEPT
                    !.roles = IF roles = None THEN @ ELSE roles,
                    !.attendanceStatus = IF status = None THEN @ ELSE status]),
               "edited", p, None)
    BY <1>6 DEF UpdateParticipant
  <2>1. PICK x \in store[t].participants :
          /\ x.id = p
          /\ WaitForReplace(r, t,
               ChangeParticipant(store[t], x,
                 [x EXCEPT
                    !.roles = IF roles = None THEN @ ELSE roles,
                    !.attendanceStatus = IF status = None THEN @ ELSE status]),
               "edited", p, None)
    BY <2>0
  <2> DEFINE y == [x EXCEPT
                    !.roles = IF roles = None THEN @ ELSE roles,
                    !.attendanceStatus = IF status = None THEN @ ELSE status]
  <2>2. y \in Participant /\ y.id = x.id
    BY <1>3, <2>0, <2>1 DEF Participant
  <2> HIDE DEF Goal
  <2> QED
    BY <1>2, <1>6, <2>0, <2>1, <2>2 DEF UpdateParticipant
<1>7. ASSUME NEW t \in Trainings, NEW p \in Participants,
             RemoveParticipant(r, t, p)
      PROVE  Goal
  <2>1. PICK x \in store[t].participants : x.id = p
    BY <1>7 DEF RemoveParticipant
  <2> DEFINE effect == [kind |-> "removed", p |-> p, e |-> None]
             doc == WithoutParticipant(store[t], p)
  <2>2. effect \in Effect /\ effect.kind # "rescheduled" /\ effect.p = p
    BY DEF Effect
  <2>3. Does(effect, store[t], doc) /\ p \in Ids(store[t])
    BY <1>1, <1>3, <1>7, <2>1, RemoveDoes DEF RemoveParticipant
  <2>4. Waits(r, t, doc, effect)
    BY <1>7, <2>2, <2>3 DEF Waits, WaitForReplace, RemoveParticipant
  <2>5. Good(t, doc, effect)
    BY <1>7, <2>2, <2>3, <2>4 DEF RemoveParticipant
  <2> HIDE DEF effect, doc, Good
  <2> QED
    BY <1>7, <2>5 DEF RemoveParticipant
<1>8. ASSUME NEW p \in Participants, CompleteTraining(r, p)
      PROVE  Goal
  <2>0. PICK t \in Trainings : Exists(t) /\ \E x \in store[t].participants :
          /\ x.id = p
          /\ WaitForReplace(r, t,
               ChangeParticipant(store[t], x,
                 [x EXCEPT !.attendanceStatus = "attended"]),
               "edited", p, None)
    BY <1>8 DEF CompleteTraining
  <2>1. PICK x \in store[t].participants :
          /\ x.id = p
          /\ WaitForReplace(r, t,
               ChangeParticipant(store[t], x,
                 [x EXCEPT !.attendanceStatus = "attended"]),
               "edited", p, None)
    BY <2>0
  <2> DEFINE y == [x EXCEPT !.attendanceStatus = "attended"]
  <2>2. y \in Participant /\ y.id = x.id
    BY <1>3, <2>0, <2>1 DEF Participant, Status
  <2> HIDE DEF Goal
  <2> QED
    BY <1>2, <1>8, <2>0, <2>1, <2>2 DEF CompleteTraining
<1>9. ASSUME NEW p \in Participants, NEW role \in Roles,
             GenerateCertificate(r, p, role)
      PROVE  Goal
  <2>0. PICK t \in Trainings : Exists(t) /\ \E x \in store[t].participants :
          /\ x.id = p
          /\ WaitForReplace(r, t,
               ChangeParticipant(store[t], x,
                 [x EXCEPT !.certificates[role] = IF @ = 0 THEN 1 ELSE @]),
               "edited", p, None)
    BY <1>9 DEF GenerateCertificate
  <2>1. PICK x \in store[t].participants :
          /\ x.id = p
          /\ WaitForReplace(r, t,
               ChangeParticipant(store[t], x,
                 [x EXCEPT !.certificates[role] = IF @ = 0 THEN 1 ELSE @]),
               "edited", p, None)
    BY <2>0
  <2> DEFINE y == [x EXCEPT !.certificates[role] = IF @ = 0 THEN 1 ELSE @]
  <2>2. y \in Participant /\ y.id = x.id
    BY <1>3, <2>0, <2>1 DEF Participant
  <2> HIDE DEF Goal
  <2> QED
    BY <1>2, <1>9, <2>0, <2>1, <2>2 DEF GenerateCertificate
<1>10. ASSUME NEW t \in Trainings, NEW e \in Executions, NEW u \in Users,
              AddAttendanceToExecution(r, t, e, u)
       PROVE  Goal
  <2>1. PICK x \in store[t].executions, y \in store[t].participants :
          /\ x.id = e /\ x.attendance # Undefined
          /\ HasNotAttended(x, y.id)
          /\ WaitForReplace(r, t, WithAttendance(store[t], x, y.id),
                            "attended", y.id, e)
    BY <1>10 DEF AddAttendanceToExecution
  <2> DEFINE effect == [kind |-> "attended", p |-> y.id, e |-> e]
             doc == WithAttendance(store[t], x, y.id)
  <2>2. y.id \in Participants /\ y.id \in Ids(store[t])
    BY <1>3, <1>10 DEF AddAttendanceToExecution, Participant
  <2>3. effect \in Effect /\ effect.kind # "rescheduled" /\ effect.p = y.id
    BY <2>2 DEF Effect
  <2>4. Does(effect, store[t], doc)
    BY <1>1, <1>10, <2>1, <2>2, AttendDoes DEF AddAttendanceToExecution
  <2>5. Waits(r, t, doc, effect)
    BY <1>10, <2>1, <2>3, <2>4 DEF Waits, WaitForReplace, AddAttendanceToExecution
  <2>6. Good(t, doc, effect)
    BY <1>10, <2>2, <2>3, <2>5 DEF AddAttendanceToExecution
  <2> HIDE DEF effect, doc, Good
  <2> QED
    BY <1>10, <2>6 DEF AddAttendanceToExecution
<1> HIDE DEF Goal
<1>11. Goal
  BY <1>4, <1>5, <1>6, <1>7, <1>8, <1>9, <1>10 DEF HandleParticipant
<1> QED
  BY <1>11 DEF Goal
Stored(p) == \E t \in Trainings : Exists(t) /\ p \in Ids(store[t])

\* Whoever is listed anywhere has had his id generated.
LEMMA ListedOwned ==
  ASSUME IInv, NEW p
  PROVE  /\ Stored(p) => p \in Participants /\ owner[p] # None
         /\ \A r \in Requests : Lists(request[r], p) =>
              p \in Participants /\ owner[p] # None
<1>1. ASSUME NEW t \in Trainings, NEW doc, Fit(t, doc, owner), p \in Ids(doc)
      PROVE  p \in Participants /\ owner[p] # None
  <2>1. PICK x \in doc.participants : x.id = p
    BY <1>1 DEF Ids
  <2>2. p \in Participants /\ owner[p] = <<t, x.foreignId>> /\ x.foreignId \in Users
    BY <1>1, <2>1 DEF Fit, TrainingDoc, Participant
  <2> QED
    BY <2>2, TrainingAssumption
<1>2. Stored(p) => p \in Participants /\ owner[p] # None
  BY <1>1 DEF Stored, IInv, StoreFit
<1>3. ASSUME NEW r \in Requests, Lists(request[r], p)
      PROVE  p \in Participants /\ owner[p] # None
  <2>1. request[r].t \in Trainings
    BY <1>3, RequestType DEF Lists, IInv
  <2> QED
    BY <1>1, <1>3, <2>1 DEF Lists, IInv, RequestFit
<1> QED
  BY <1>2, <1>3

\* Who is about to be stored stays unknown to the rest, if a step lists,
\* stores and removes only whom its request knows.
LEMMA NewcomersStep ==
  ASSUME IInv, ToldInv, NEW r \in Requests,
         request' = [request EXCEPT ![r] = request'[r]],
         \A p \in Participants : Lists(request'[r], p) =>
           Stored(p) \/ Lists(request[r], p) \/ owner[p] = None,
         \A p \in Participants : Brings(request'[r], p) => owner[p] = None,
         \A t \in Trainings, p \in Participants :
           store'[t] # Absent /\ p \in Ids(store'[t]) =>
             Stored(p) \/ Lists(request[r], p),
         \A t \in Trainings, p \in Participants : <<t, p>> \in removed' =>
           <<t, p>> \in removed \/ Lists(request[r], p)
  PROVE  NewcomersUnknown'
<1> SUFFICES ASSUME NEW s \in Requests, NEW p \in Participants,
                    Brings(request'[s], p)
             PROVE  /\ \A t \in Trainings : store'[t] # Absent => p \notin Ids(store'[t])
                    /\ \A o \in Requests \ {s} : ~Lists(request'[o], p)
                    /\ \A t \in Trainings : <<t, p>> \notin removed'
  BY DEF NewcomersUnknown, Exists
<1>1. \A o \in Requests \ {r} : request'[o] = request[o]
  BY DEF IInv, TypeOK
<1>2. CASE s = r
  <2>1. owner[p] = None
    BY <1>2
  <2>2. ~Stored(p) /\ \A o \in Requests : ~Lists(request[o], p)
    BY <2>1, ListedOwned
  <2>3. \A t \in Trainings : <<t, p>> \notin removed
    BY <2>1 DEF ToldInv, ToldOfIssued
  <2> QED
    BY <1>1, <1>2, <2>2, <2>3
<1>3. CASE s # r
  <2>1. Brings(request[s], p)
    BY <1>1, <1>3
  <2>2. /\ ~Stored(p)
        /\ \A o \in Requests \ {s} : ~Lists(request[o], p)
        /\ \A t \in Trainings : <<t, p>> \notin removed
    BY <2>1 DEF ToldInv, NewcomersUnknown, Stored
  <2>3. Lists(request[s], p)
    <3>1. request[s].pc = "replace" /\ request[s].effect.p = p
          /\ request[s].effect.kind = "added"
      BY <2>1 DEF Brings
    <3>2. Does(request[s].effect, request[s].seen, request[s].doc)
      BY <3>1 DEF ToldInv, EffectsHold
    <3> QED
      BY <3>1, <3>2 DEF Lists, Does
  <2>4. owner[p] # None
    BY <2>3, ListedOwned
  <2> QED
    BY <1>1, <1>3, <2>2, <2>4
<1> QED
  BY <1>2, <1>3

\* Codes stay distinct, if a step keeps the codes of the container.
LEMMA CodesStep ==
  ASSUME IInv, ToldInv, NEW r \in Requests,
         request' = [request EXCEPT ![r] = request'[r]],
         overwritten \subseteq overwritten', codeRace => codeRace',
         ~codeRace' /\ overwritten' = {} =>
           /\ \A t \in Trainings : store'[t] # Absent =>
                Exists(t) /\ store'[t].code = store[t].code
           /\ ChoosesCode(r)' => \A s \in Requests \ {r} : ~ChoosesCode(s)
           /\ CodeIsFree(request'[r])
  PROVE  CodesChecked'
<1> SUFFICES ASSUME ~codeRace', overwritten' = {}
             PROVE  /\ OneCodeChooser' /\ DistinctCodes'
                    /\ \A s \in Requests : CodeIsFree(request[s])'
  BY DEF CodesChecked
<1>1. OneCodeChooser /\ DistinctCodes /\ \A s \in Requests : CodeIsFree(request[s])
  BY DEF ToldInv, CodesChecked
<1>2. \A o \in Requests \ {r} : request'[o] = request[o]
  BY DEF IInv, TypeOK
<1>3. OneCodeChooser'
  BY <1>1, <1>2 DEF OneCodeChooser, ChoosesCode
<1>4. DistinctCodes'
  BY <1>1 DEF DistinctCodes, Exists
<1>5. \A t \in Trainings : \A c : HasCode(t, c)' => HasCode(t, c)
  BY DEF HasCode, Exists
<1>6. \A s \in Requests : CodeIsFree(request[s])'
  <2> TAKE s \in Requests
  <2>1. CodeIsFree(request'[s])
    BY <1>1, <1>2
  <2> QED
    BY <1>5, <2>1 DEF CodeIsFree
<1> QED
  BY <1>3, <1>4, <1>6

\* The parts of ToldInv about single requests and single answers.
LEMMA QuietStep ==
  ASSUME IInv, ToldInv, UNCHANGED <<store, told>>, issued \subseteq issued',
         \A p \in Participants : owner[p] # None => owner'[p] # None
  PROVE  ToldOfIssued' /\ ParticipantsAsTold' /\ AttendanceAsTold'
<1>1. ToldOfIssued'
  BY DEF ToldInv, ToldOfIssued, told
<1>2. ParticipantsAsTold' /\ AttendanceAsTold'
  BY DEF ToldInv, ParticipantsAsTold, AttendanceAsTold, Exists, told
<1> QED
  BY <1>1, <1>2

LEMMA EffectsStep ==
  ASSUME IInv, ToldInv, NEW r \in Requests,
         request' = [request EXCEPT ![r] = request'[r]],
         request'[r].pc = "replace" =>
           Does(request'[r].effect, request'[r].seen, request'[r].doc)
  PROVE  EffectsHold'
<1> SUFFICES ASSUME NEW s \in Requests, request'[s].pc = "replace"
             PROVE  Does(request'[s].effect, request'[s].seen, request'[s].doc)
  BY DEF EffectsHold
<1>1. s = r \/ request'[s] = request[s]
  BY DEF IInv, TypeOK
<1> QED
  BY <1>1 DEF ToldInv, EffectsHold
\* The handlers of ParticipantsService change nothing that was told yet.
LEMMA ToldParticipants ==
  ASSUME IInv, ToldInv, NEW r \in Requests, HandleParticipant(r)
  PROVE  ToldInv'
<1>1. UNCHANGED <<store, issued, told, codeRace>>
  BY HandlerWaits
<1>2. PICK t \in Trainings : \E doc, effect :
        /\ Waits(r, t, doc, effect)
        /\ \/ owner' = owner /\ effect.p \in Ids(store[t])
           \/ /\ owner[effect.p] = None
              /\ \E u \in Users : owner' = [owner EXCEPT ![effect.p] = <<t, u>>]
  BY HandlerWaits
<1>3. PICK doc, effect :
        /\ Waits(r, t, doc, effect)
        /\ \/ owner' = owner /\ effect.p \in Ids(store[t])
           \/ /\ owner[effect.p] = None
              /\ \E u \in Users : owner' = [owner EXCEPT ![effect.p] = <<t, u>>]
  BY <1>2
<1>4. /\ request' = [request EXCEPT ![r] = request'[r]]
      /\ request'[r] = [pc |-> "replace", t |-> t, seen |-> store[t],
                        doc |-> doc, effect |-> effect]
  BY <1>3 DEF Waits, IInv, TypeOK
<1>5. /\ request'[r].pc = "replace" /\ request'[r].t = t
      /\ request'[r].seen = store[t] /\ request'[r].doc = doc
      /\ request'[r].effect = effect
  BY <1>4
<1>6. /\ Exists(t) /\ Does(effect, store[t], doc)
      /\ effect.kind # "rescheduled" /\ request[r] = Idle
  BY <1>3 DEF Waits
<1>7. EffectsHold'
  BY <1>4, <1>5, <1>6, EffectsStep
<1>8. NewcomersUnknown'
  <2>1. \A p \in Participants : Lists(request'[r], p) =>
          Stored(p) \/ owner[p] = None
    <3> SUFFICES ASSUME NEW p \in Participants, Lists(request'[r], p), ~Stored(p)
                 PROVE  owner[p] = None
      OBVIOUS
    <3>1. p \notin Ids(store[t]) /\ p \in Ids(doc)
      BY <1>5, <1>6 DEF Lists, Stored
    <3>2. p = effect.p
      BY <1>6, <3>1 DEF Does
    <3> QED
      BY <1>3, <3>1, <3>2
  <2>2. \A p \in Participants : Brings(request'[r], p) => owner[p] = None
    BY <1>3, <1>5 DEF Brings
  <2> QED
    BY <1>1, <1>4, <2>1, <2>2, NewcomersStep DEF Stored, Exists, told
<1>9. CodesChecked'
  <2>1. ~ChoosesCode(r)' /\ CodeIsFree(request'[r])
    BY <1>5, <1>6 DEF ChoosesCode, CodeIsFree
  <2> QED
    BY <1>1, <1>4, <2>1, CodesStep DEF Exists, told
<1>10. \A p \in Participants : owner[p] # None => owner'[p] # None
  BY <1>3, TrainingAssumption DEF IInv, TypeOK
<1>11. ToldOfIssued' /\ ParticipantsAsTold' /\ AttendanceAsTold'
  BY <1>1, <1>10, QuietStep
<1> QED
  BY <1>7, <1>8, <1>9, <1>11 DEF ToldInv

LEMMA ToldCreate ==
  ASSUME IInv, ToldInv, NEW r \in Requests, NEW c \in Codes,
         NEW grows \in BOOLEAN, CreateTraining(r, c, grows)
  PROVE  ToldInv'
<1>1. /\ request' = [request EXCEPT ![r] = request'[r]]
      /\ request'[r] = [pc |-> "create", code |-> c, grows |-> grows]
      /\ UNCHANGED <<store, issued, owner, told>>
  BY DEF CreateTraining, IInv, TypeOK
<1>2. request'[r].pc = "create" /\ request'[r].code = c
  BY <1>1
<1>3. EffectsHold'
  BY <1>1, <1>2, EffectsStep
<1>4. NewcomersUnknown'
  BY <1>1, <1>2, NewcomersStep DEF Lists, Brings, Stored, Exists, told
<1>5. CodesChecked'
  <2>1. CodeIsFree(request'[r])
    BY <1>2 DEF CreateTraining, CodeIsFree
  <2>2. ~codeRace' => ~codeRace /\ \A s \in Requests \ {r} : ~ChoosesCode(s)
    BY DEF CreateTraining, NoteCodeRace, IInv, TypeOK
  <2> QED
    BY <1>1, <2>1, <2>2, CodesStep DEF Exists, told
<1>6. ToldOfIssued' /\ ParticipantsAsTold' /\ AttendanceAsTold'
  BY <1>1, QuietStep
<1> QED
  BY <1>3, <1>4, <1>5, <1>6 DEF ToldInv

LEMMA ToldUpdate ==
  ASSUME IInv, ToldInv, NEW r \in Requests, NEW t \in Trainings,
         NEW c \in Codes \cup {None}, NEW kept \in SUBSET Executions,
         NEW grows \in BOOLEAN, UpdateTraining(r, t, c, kept, grows)
  PROVE  ToldInv'
<1>1. /\ request' = [request EXCEPT ![r] = request'[r]]
      /\ request'[r] = [pc |-> "checkCode", t |-> t, seen |-> store[t],
                        code |-> c, kept |-> kept, grows |-> grows]
      /\ UNCHANGED <<store, issued, owner, told, codeRace>> /\ Exists(t)
  BY DEF UpdateTraining, IInv, TypeOK
<1>2. request'[r].pc = "checkCode" /\ request'[r].seen = store[t]
  BY <1>1
<1>3. EffectsHold'
  BY <1>1, <1>2, EffectsStep
<1>4. NewcomersUnknown'
  BY <1>1, <1>2, NewcomersStep DEF Lists, Brings, Stored, Exists, told
<1>5. CodesChecked'
  <2>1. CodeIsFree(request'[r]) /\ ~ChoosesCode(r)'
    BY <1>2 DEF CodeIsFree, ChoosesCode
  <2> QED
    BY <1>1, <2>1, CodesStep DEF Exists, told
<1>6. ToldOfIssued' /\ ParticipantsAsTold' /\ AttendanceAsTold'
  BY <1>1, QuietStep
<1> QED
  BY <1>3, <1>4, <1>5, <1>6 DEF ToldInv

\* The code an update carries is checked against the container; one that
\* carries none keeps the code it has read.
LEMMA ToldCheckCode ==
  ASSUME IInv, ToldInv, NEW r \in Requests, CheckCode(r)
  PROVE  ToldInv'
<1> DEFINE q == request[r]
<1>1. /\ q.t \in Trainings /\ q.seen \in TrainingDoc
      /\ q.code \in Codes \cup {None} /\ q.pc = "checkCode"
  BY RequestType DEF CheckCode, IInv
<1>2. PICK new \in SUBSET (Executions \ issued) :
        /\ issued' = issued \cup new
        /\ request' = [request EXCEPT ![r] =
             [pc |-> "replace", t |-> q.t, seen |-> q.seen,
              doc |-> [q.seen EXCEPT
                !.code = IF q.code = None THEN @ ELSE q.code,
                !.executions = {KeptExecution(e) : e \in q.kept}
                                 \cup {NewExecution(e) : e \in new}],
              effect |-> [kind |-> "rescheduled", p |-> None, e |-> None]]]
  BY DEF CheckCode
<1> DEFINE d == [q.seen EXCEPT
                !.code = IF q.code = None THEN @ ELSE q.code,
                !.executions = {KeptExecution(e) : e \in q.kept}
                                 \cup {NewExecution(e) : e \in new}]
           effect == [kind |-> "rescheduled", p |-> None, e |-> None]
<1>3. d.participants = q.seen.participants
      /\ d.code = IF q.code = None THEN q.seen.code ELSE q.code
  BY <1>1 DEF TrainingDoc
<1>4. /\ request' = [request EXCEPT ![r] = request'[r]]
      /\ request'[r] = [pc |-> "replace", t |-> q.t, seen |-> q.seen,
                        doc |-> d, effect |-> effect]
  BY <1>2 DEF IInv, TypeOK
<1>5. effect.kind = "rescheduled"
  OBVIOUS
<1> HIDE DEF d, effect
<1>6. /\ request'[r].pc = "replace" /\ request'[r].t = q.t
      /\ request'[r].seen = q.seen /\ request'[r].doc = d
      /\ request'[r].effect = effect
  BY <1>4
<1>7. UNCHANGED <<store, owner, told>> /\ NoteCodeRace(r) /\ MayUseCode(q.t, q.code)
  BY DEF CheckCode
<1>8. Ids(d) = Ids(q.seen)
  BY <1>3 DEF Ids
<1>9. EffectsHold'
  BY <1>4, <1>5, <1>6, <1>8, EffectsStep DEF Does
<1>10. NewcomersUnknown'
  <2>1. \A p \in Participants : Lists(request'[r], p) => Lists(request[r], p)
    BY <1>1, <1>6, <1>8 DEF Lists
  <2>2. \A p \in Participants : ~Brings(request'[r], p)
    BY <1>5, <1>6 DEF Brings
  <2> QED
    BY <1>4, <1>7, <2>1, <2>2, NewcomersStep DEF Stored, Exists, told
<1>11. CodesChecked'
  <2>1. ~codeRace' => ~codeRace /\ \A s \in Requests \ {r} : ~ChoosesCode(s)
    BY <1>7 DEF NoteCodeRace, IInv, TypeOK
  <2>2. ASSUME ~codeRace, overwritten = {}
        PROVE  CodeIsFree(request'[r])
    <3>1. DistinctCodes
      BY <2>2 DEF ToldInv, CodesChecked
    <3>2. CASE q.code = None
      BY <1>3, <1>6, <3>2 DEF CodeIsFree
    <3>3. CASE q.code # None
      <4>1. d.code = q.code
        BY <1>3, <3>3
      <4>2. \A t \in Trainings \ {q.t} : ~HasCode(t, q.code)
        BY <1>1, <1>7, <3>1 DEF MayUseCode, HasCode, DistinctCodes
      <4> QED
        BY <1>6, <4>1, <4>2 DEF CodeIsFree
    <3> QED
      BY <3>2, <3>3
  <2> QED
    BY <1>4, <1>7, <2>1, <2>2, CodesStep DEF Exists, told
<1>12. ToldOfIssued' /\ ParticipantsAsTold' /\ AttendanceAsTold'
  BY <1>2, <1>7, QuietStep
<1> QED
  BY <1>9, <1>10, <1>11, <1>12 DEF ToldInv
\* A new training has no participants, and its code was found free.
LEMMA ToldInsert ==
  ASSUME IInv, ToldInv, NEW r \in Requests, InsertTraining(r)
  PROVE  ToldInv'
<1>1. PICK t \in Trainings \ issued,
           new \in SUBSET (Executions \ issued) :
        /\ store' = [store EXCEPT ![t] =
             [code |-> request[r].code,
              executions |-> {NewExecution(e) : e \in new},
              participants |-> {}]]
        /\ issued' = issued \cup {t} \cup new
  BY DEF InsertTraining
<1>2. /\ request' = [request EXCEPT ![r] = request'[r]] /\ request'[r] = Idle
      /\ request[r].pc = "create"
      /\ UNCHANGED <<owner, told, codeRace>>
  BY DEF InsertTraining, IInv, TypeOK
<1>3. /\ store'[t].participants = {} /\ store'[t].code = request[r].code
      /\ \A s \in Trainings \ {t} : store'[s] = store[s]
      /\ ~Exists(t)
  BY <1>1 DEF IInv, TypeOK, StoreFit
<1>4. request'[r].pc = "idle"
  BY <1>2 DEF Idle
<1>5. EffectsHold'
  BY <1>2, <1>4, EffectsStep
<1>6. NewcomersUnknown'
  <2>1. \A p \in Participants : ~Lists(request'[r], p) /\ ~Brings(request'[r], p)
    BY <1>4 DEF Lists, Brings
  <2>2. Ids(store'[t]) = {}
    BY <1>3 DEF Ids
  <2> QED
    BY <1>2, <1>3, <2>1, <2>2, NewcomersStep DEF Stored, Exists, told
<1>7. CodesChecked'
  <2> SUFFICES ASSUME ~codeRace, overwritten = {}
               PROVE  /\ OneCodeChooser' /\ DistinctCodes'
                      /\ \A s \in Requests : CodeIsFree(request[s])'
    BY <1>2 DEF CodesChecked, told
  <2>1. OneCodeChooser /\ DistinctCodes /\ CodeIsFree(request[r])
    BY DEF ToldInv, CodesChecked
  <2>2. \A s \in Requests : ~ChoosesCode(s)'
    <3> TAKE s \in Requests
    <3>1. CASE s = r
      BY <1>4, <3>1 DEF ChoosesCode
    <3>2. CASE s # r
      <4>1. request'[s] = request[s]
        BY <1>2, <3>2 DEF IInv, TypeOK
      <4> QED
        BY <1>2, <2>1, <3>2, <4>1 DEF OneCodeChooser, ChoosesCode
    <3> QED
      BY <3>1, <3>2
  <2>3. DistinctCodes'
    BY <1>2, <1>3, <2>1 DEF DistinctCodes, CodeIsFree, HasCode, Exists
  <2>4. \A s \in Requests : CodeIsFree(request[s])'
    BY <2>2 DEF ChoosesCode, CodeIsFree
  <2> QED
    BY <2>2, <2>3, <2>4 DEF OneCodeChooser
<1>8. ToldOfIssued'
  BY <1>1, <1>2 DEF ToldInv, ToldOfIssued, told
<1>9. \A p \in Participants :
        /\ <<t, p>> \notin added \cup removed
        /\ \A e \in Executions : <<t, e, p>> \notin attended
  BY DEF ToldInv, ToldOfIssued
<1>10. ParticipantsAsTold'
  BY <1>2, <1>3, <1>9 DEF ToldInv, ParticipantsAsTold, Exists, told
<1>11. AttendanceAsTold'
  <2> SUFFICES ASSUME NEW s \in Trainings \ (overwritten \cup rescheduled),
                      store'[s] # Absent, NEW e \in Executions,
                      NEW p \in Participants, <<s, e, p>> \in attended
               PROVE  \E x \in store'[s].executions :
                        x.id = e /\ x.attendance[p] = 1
    BY <1>2 DEF AttendanceAsTold, Exists, told
  <2>1. s # t
    BY <1>9
  <2>2. Exists(s) /\ store'[s] = store[s]
    BY <1>3, <2>1 DEF Exists
  <2> QED
    BY <2>2 DEF ToldInv, AttendanceAsTold
<1> QED
  BY <1>5, <1>6, <1>7, <1>8, <1>10, <1>11 DEF ToldInv

\* A replace that overwrites nothing does to the container what it says.
LEMMA ToldReplace ==
  ASSUME IInv, ToldInv, NEW r \in Requests, Replace(r)
  PROVE  ToldInv'
<1> DEFINE q == request[r]
           kind == q.effect.kind
           p0 == q.effect.p
<1>1. /\ q.pc = "replace" /\ q.t \in Trainings /\ q.t \in issued
      /\ q.effect \in Effect /\ Exists(q.t)
      /\ Fit(q.t, q.doc, owner)
  BY RequestType DEF Replace, CanReplace, IInv, RequestFit
<1>2. Does(q.effect, q.seen, q.doc)
  BY <1>1 DEF ToldInv, EffectsHold
<1>3. /\ request' = [request EXCEPT ![r] = request'[r]] /\ request'[r] = Idle
      /\ store' = [store EXCEPT ![q.t] = q.doc]
      /\ Tell(q.t, q.effect)
      /\ overwritten' = overwritten \cup
           (IF store[q.t] # q.seen THEN {q.t} ELSE {})
      /\ UNCHANGED <<issued, owner, codeRace>>
  BY DEF Replace, IInv, TypeOK
<1>4. request'[r].pc = "idle"
  BY <1>3 DEF Idle
<1>5. /\ store'[q.t] = q.doc
      /\ \A t \in Trainings \ {q.t} : store'[t] = store[t]
  BY <1>1, <1>3 DEF IInv, TypeOK
<1>6. /\ added' = added \cup (IF kind = "added" THEN {<<q.t, p0>>} ELSE {})
      /\ removed' = removed \cup (IF kind = "removed" THEN {<<q.t, p0>>} ELSE {})
      /\ attended' = attended \cup
           (IF kind = "attended" THEN {<<q.t, q.effect.e, p0>>} ELSE {})
      /\ rescheduled' = rescheduled \cup
           (IF kind = "rescheduled" THEN {q.t} ELSE {})
  BY <1>3 DEF Tell
<1>7. EffectsHold'
  BY <1>3, <1>4, EffectsStep
<1>8. NewcomersUnknown'
  <2>1. \A p \in Participants : ~Lists(request'[r], p) /\ ~Brings(request'[r], p)
    BY <1>4 DEF Lists, Brings
  <2>2. \A p \in Participants : p \in Ids(q.doc) => Lists(q, p)
    BY <1>1 DEF Lists
  <2>3. \A t \in Trainings, p \in Participants : <<t, p>> \in removed' =>
          <<t, p>> \in removed \/ Lists(q, p)
    BY <1>1, <1>2, <1>6 DEF Lists, Does
  <2>4. \A t \in Trainings, p \in Participants :
          store'[t] # Absent /\ p \in Ids(store'[t]) => Stored(p) \/ Lists(q, p)
    BY <1>5, <2>2 DEF Stored, Exists
  <2> QED
    BY <1>3, <2>1, <2>3, <2>4, NewcomersStep
<1>9. CodesChecked'
  <2>1. CASE q.doc.code = q.seen.code
    <3>1. overwritten' = {} => \A t \in Trainings : store'[t] # Absent =>
                                 Exists(t) /\ store'[t].code = store[t].code
      BY <1>1, <1>3, <1>5, <2>1 DEF Exists
    <3>2. ~ChoosesCode(r)' /\ CodeIsFree(request'[r])
      BY <1>4 DEF ChoosesCode, CodeIsFree
    <3> QED
      BY <1>3, <3>1, <3>2, CodesStep
  <2>2. CASE q.doc.code # q.seen.code
    <3> SUFFICES ASSUME ~codeRace, overwritten = {}
                 PROVE  /\ OneCodeChooser' /\ DistinctCodes'
                        /\ \A s \in Requests : CodeIsFree(request[s])'
      BY <1>3 DEF CodesChecked
    <3>1. OneCodeChooser /\ DistinctCodes /\ CodeIsFree(q)
      BY DEF ToldInv, CodesChecked
    <3>2. kind = "rescheduled"
      BY <1>2, <2>2 DEF Does
    <3>3. \A t \in Trainings \ {q.t} : ~HasCode(t, q.doc.code)
      BY <1>1, <2>2, <3>1, <3>2 DEF CodeIsFree
    <3>4. \A s \in Requests : ~ChoosesCode(s)'
      <4> TAKE s \in Requests
      <4>1. CASE s = r
        BY <1>4, <4>1 DEF ChoosesCode
      <4>2. CASE s # r
        <5>1. request'[s] = request[s]
          BY <1>3, <4>2 DEF IInv, TypeOK
        <5> QED
          BY <1>1, <3>1, <3>2, <4>2, <5>1 DEF OneCodeChooser, ChoosesCode
      <4> QED
        BY <4>1, <4>2
    <3>5. DistinctCodes'
      BY <1>5, <3>1, <3>3 DEF DistinctCodes, HasCode, Exists
    <3>6. \A s \in Requests : CodeIsFree(request[s])'
      BY <3>4 DEF ChoosesCode, CodeIsFree
    <3> QED
      BY <3>4, <3>5, <3>6 DEF OneCodeChooser
  <2> QED
    BY <2>1, <2>2
<1>10. ToldOfIssued'
  <2>1. kind \in {"added", "removed"} => Lists(q, p0)
    BY <1>1, <1>2 DEF Does, Lists
  <2>2. kind \in {"added", "removed"} => owner[p0] # None
    BY <2>1, ListedOwned
  <2> QED
    BY <1>1, <1>3, <1>6, <2>2 DEF ToldInv, ToldOfIssued
<1>11. \A t \in Trainings, p \in Participants : t \notin overwritten' =>
         t \notin overwritten /\ (t = q.t => store[t] = q.seen)
  BY <1>3
<1>12. ParticipantsAsTold'
  <2> SUFFICES ASSUME NEW t \in Trainings \ overwritten', store'[t] # Absent,
                      NEW p \in Participants
               PROVE  /\ <<t, p>> \in removed' => p \notin Ids(store'[t])
                      /\ <<t, p>> \in added' \ removed' => p \in Ids(store'[t])
    BY DEF ParticipantsAsTold, Exists, Ids
  <2>1. Exists(t) => /\ <<t, p>> \in removed => p \notin Ids(store[t])
                     /\ <<t, p>> \in added \ removed => p \in Ids(store[t])
    BY <1>11 DEF ToldInv, ParticipantsAsTold, Ids
  <2>2. CASE t # q.t
    BY <1>5, <1>6, <2>1, <2>2 DEF Exists
  <2>3. CASE t = q.t
    <3>1. Ids(store[t]) = Ids(q.seen) /\ Ids(store'[t]) = Ids(q.doc) /\ Exists(t)
      BY <1>1, <1>5, <1>11, <2>3
    <3>2. <<t, p>> \in removed' => p \notin Ids(q.doc)
      <4> SUFFICES ASSUME <<t, p>> \in removed', p \in Ids(q.doc)
                   PROVE  FALSE
        OBVIOUS
      <4>1. <<t, p>> \in removed
        BY <1>2, <1>6 DEF Does
      <4>2. p \notin Ids(q.seen)
        BY <2>1, <3>1, <4>1
      <4>3. Brings(q, p)
        BY <1>1, <1>2, <4>2 DEF Brings, Does
      <4> QED
        BY <4>1, <4>3 DEF ToldInv, NewcomersUnknown
    <3>3. <<t, p>> \in added' \ removed' => p \in Ids(q.doc)
      BY <1>2, <1>6, <2>1, <2>3, <3>1 DEF Does
    <3> QED
      BY <3>1, <3>2, <3>3
  <2> QED
    BY <2>2, <2>3
<1>13. AttendanceAsTold'
  <2> SUFFICES ASSUME NEW t \in Trainings \ (overwritten' \cup rescheduled'),
                      store'[t] # Absent, NEW e \in Executions,
                      NEW p \in Participants, <<t, e, p>> \in attended'
               PROVE  \E x \in store'[t].executions :
                        x.id = e /\ x.attendance[p] = 1
    BY DEF AttendanceAsTold, Exists
  <2>1. Exists(t) /\ <<t, e, p>> \in attended =>
          \E x \in store[t].executions : x.id = e /\ x.attendance[p] = 1
    BY <1>6, <1>11 DEF ToldInv, AttendanceAsTold
  <2>2. CASE t # q.t
    BY <1>5, <1>6, <2>1, <2>2 DEF Exists
  <2>3. CASE t = q.t
    <3>1. /\ store[t] = q.seen /\ store'[t] = q.doc /\ Exists(t)
          /\ kind # "rescheduled"
      BY <1>1, <1>5, <1>6, <1>11, <2>3
    <3>2. CASE kind # "attended"
      BY <1>2, <1>6, <2>1, <3>1, <3>2 DEF Does
    <3>3. CASE kind = "attended" /\ e = q.effect.e /\ p = p0
      BY <1>2, <3>1, <3>3 DEF Does, Attended
    <3>4. CASE kind = "attended" /\ ~(e = q.effect.e /\ p = p0)
      <4>1. PICK x \in q.seen.executions : x.id = e /\ x.attendance[p] = 1
        BY <1>6, <2>1, <3>1, <3>4
      <4> QED
        BY <1>2, <3>1, <3>4, <4>1 DEF Does, Attended
    <3> QED
      BY <3>2, <3>3, <3>4
  <2> QED
    BY <2>2, <2>3
<1> QED
  BY <1>7, <1>8, <1>9, <1>10, <1>12, <1>13 DEF ToldInv
LEMMA ToldRemove ==
  ASSUME IInv, ToldInv, NEW t \in Trainings, RemoveTraining(t)
  PROVE  ToldInv'
<1>1. /\ store'[t] = Absent
      /\ \A s \in Trainings \ {t} : store'[s] = store[s]
      /\ UNCHANGED <<request, issued, owner, told, codeRace>>
  BY DEF RemoveTraining, IInv, TypeOK
<1>2. \A s \in Trainings : store'[s] # Absent => store'[s] = store[s]
  BY <1>1
<1>3. EffectsHold' /\ ToldOfIssued'
  BY <1>1 DEF ToldInv, EffectsHold, ToldOfIssued, told
<1>4. NewcomersUnknown'
  BY <1>1, <1>2 DEF ToldInv, NewcomersUnknown, Exists, told
<1>5. CodesChecked'
  <2>1. \A s \in Trainings : \A c : HasCode(s, c)' => HasCode(s, c)
    BY <1>2 DEF HasCode, Exists
  <2>2. DistinctCodes => DistinctCodes'
    BY <1>2 DEF DistinctCodes, Exists
  <2>3. OneCodeChooser => OneCodeChooser'
    BY <1>1 DEF OneCodeChooser, ChoosesCode
  <2>4. \A r \in Requests : CodeIsFree(request[r]) => CodeIsFree(request[r])'
    BY <1>1, <2>1 DEF CodeIsFree
  <2> QED
    BY <1>1, <2>2, <2>3, <2>4 DEF ToldInv, CodesChecked, told
<1>6. ParticipantsAsTold' /\ AttendanceAsTold'
  BY <1>1, <1>2 DEF ToldInv, ParticipantsAsTold, AttendanceAsTold, Exists, told
<1> QED
  BY <1>3, <1>4, <1>5, <1>6 DEF ToldInv

LEMMA ToldFail ==
  ASSUME IInv, ToldInv, NEW r \in Requests, Fail(r)
  PROVE  ToldInv'
<1>1. /\ request' = [request EXCEPT ![r] = request'[r]] /\ request'[r] = Idle
      /\ UNCHANGED <<store, issued, owner, told, codeRace>>
  BY DEF Fail, IInv, TypeOK
<1>2. request'[r].pc = "idle"
  BY <1>1 DEF Idle
<1>3. EffectsHold'
  BY <1>1, <1>2, EffectsStep
<1>4. NewcomersUnknown'
  BY <1>1, <1>2, NewcomersStep DEF Lists, Brings, Stored, Exists, told
<1>5. CodesChecked'
  <2>1. ~ChoosesCode(r)' /\ CodeIsFree(request'[r])
    BY <1>2 DEF ChoosesCode, CodeIsFree
  <2> QED
    BY <1>1, <2>1, CodesStep DEF Exists, told
<1>6. ToldOfIssued' /\ ParticipantsAsTold' /\ AttendanceAsTold'
  BY <1>1, QuietStep
<1> QED
  BY <1>3, <1>4, <1>5, <1>6 DEF ToldInv

LEMMA InitTold == Init => ToldInv
<1> SUFFICES ASSUME Init
             PROVE  ToldInv
  OBVIOUS
<1>1. \A r \in Requests : request[r].pc = "idle"
  BY DEF Init, Idle
<1>2. EffectsHold /\ NewcomersUnknown /\ ToldOfIssued
  BY <1>1 DEF Init, EffectsHold, NewcomersUnknown, Brings, ToldOfIssued
<1>3. \A t \in Trainings : ~Exists(t)
  BY DEF Init, Exists
<1>4. CodesChecked
  BY <1>1, <1>3 DEF CodesChecked, OneCodeChooser, ChoosesCode, DistinctCodes, CodeIsFree
<1>5. ParticipantsAsTold /\ AttendanceAsTold
  BY <1>3 DEF ParticipantsAsTold, AttendanceAsTold
<1> QED
  BY <1>2, <1>4, <1>5 DEF ToldInv

LEMMA NextTold == IInv /\ ToldInv /\ [Next]_vars => ToldInv'
<1> SUFFICES ASSUME IInv, ToldInv, [Next]_vars
             PROVE  ToldInv'
  OBVIOUS
<1>1. ASSUME NEW r \in Requests, HandleTraining(r)
      PROVE  ToldInv'
  BY <1>1, ToldCreate, ToldInsert, ToldUpdate, ToldCheckCode DEF HandleTraining
<1>2. CASE UNCHANGED vars
  <2>1. UNCHANGED <<store, request, issued, owner, codeRace>> /\ UNCHANGED told
    BY <1>2 DEF vars
  <2>2. EffectsHold' /\ NewcomersUnknown' /\ ToldOfIssued'
    BY <2>1 DEF ToldInv, EffectsHold, NewcomersUnknown, ToldOfIssued, Exists, told
  <2>3. OneCodeChooser' = OneCodeChooser
    BY <2>1 DEF OneCodeChooser, ChoosesCode
  <2>4. DistinctCodes' = DistinctCodes
    BY <2>1 DEF DistinctCodes, Exists
  <2>5. \A r \in Requests : CodeIsFree(request[r])' = CodeIsFree(request[r])
    BY <2>1 DEF CodeIsFree, HasCode, Exists
  <2>6. CodesChecked'
    BY <2>1, <2>3, <2>4, <2>5 DEF ToldInv, CodesChecked, told
  <2>7. ParticipantsAsTold' /\ AttendanceAsTold'
    BY <2>1 DEF ToldInv, ParticipantsAsTold, AttendanceAsTold, Exists, told
  <2> QED
    BY <2>2, <2>6, <2>7 DEF ToldInv
<1> QED
  BY <1>1, <1>2, ToldParticipants, ToldReplace, ToldRemove, ToldFail DEF Next

\* Every waiting document does what its answer will say.
THEOREM AnswersAreTrue == Spec => []ToldInv
<1>1. Init => ToldInv
  BY InitTold
<1>2. IInv /\ ToldInv /\ [Next]_vars => ToldInv'
  BY NextTold
<1> QED
  BY <1>1, <1>2, CopiesStayFit, PTL DEF Spec

\* A participant who was added is there and one who was removed is not,
\* unless a stale replace has overwritten the document.
THEOREM ToldParticipantsAreThere == Spec => []ParticipantsAsTold
BY AnswersAreTrue, PTL DEF ToldInv

\* A confirmed attendance is there until an update lists the executions again.
THEOREM ToldAttendanceIsThere == Spec => []AttendanceAsTold
BY AnswersAreTrue, PTL DEF ToldInv

\* Trainings share a code only when requests have overtaken one another.
THEOREM CodesAreDistinct == Spec => []CodesUnlessRaced
<1>1. ToldInv => CodesUnlessRaced
  BY DEF ToldInv, CodesChecked, DistinctCodes, CodesUnlessRaced
<1> QED
  BY <1>1, AnswersAreTrue, PTL
=============================================================================
