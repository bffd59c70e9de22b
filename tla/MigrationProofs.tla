--------------------------- MODULE MigrationProofs ---------------------------
(***************************************************************************)
(* Proofs about Migration for any spreadsheet, any users and any number of *)
(* jobs. They rest on one another in the order of the sections. A training *)
(* that is stored or held names nobody twice. Calls have the types their   *)
(* operations say, and are at rows there are. A job that met no other of   *)
(* its kind is one call at a time.                                         *)
(*                                                                         *)
(* Then, of what a job holds in memory: who is neither in the list of      *)
(* users it has read nor halfway has not been mailed; a user keeps his     *)
(* document and his role; the password a job has set is the one that is    *)
(* stored; what an import looked for and did not find is still missing;    *)
(* and every mark it will write is justified by a mail, or by a            *)
(* participant of the training.                                            *)
(***************************************************************************)
EXTENDS Migration, CallsProofs, WellFoundedInduction

IsSeq(s) == \E S : s \in Seq(S)

\* A training that names nobody twice.
Tidy(t) ==
  /\ t = [f \in DOMAIN t |-> t[f]]
  /\ "participants" \in DOMAIN t
  /\ IsSeq(t.participants)
  /\ \A i, j \in DOMAIN t.participants :
       t.participants[i].user = t.participants[j].user => i = j

\* The calls of an import with which it is at the participants of a training.
HoldingOps == LineOps \cup {"readParticipants"}

IsRecord(c) == c = [f \in DOMAIN c |-> c[f]] /\ {"op", "job"} \subseteq DOMAIN c

\* A call has the operation of its job, and an import holds a tidy training.
CallOK(c) ==
  /\ IsRecord(c)
  /\ \/ c.op = "writeBack"
     \/ /\ c.job = "import" /\ c.op \in HoldingOps \cup RowOps \cup {"readTrainings"}
        /\ "training" \in DOMAIN c
        /\ c.op \in HoldingOps => Tidy(c.training)
     \/ c.job = "mails" /\ c.op \in MailOps
     \/ c.job = "addresses" /\ c.op \in {"listUsers", "writeUsers", "readUser", "replaceAddress"}
     \/ c.job = "report" /\ c.op \in {"bySchool", "attendance"}

IInv ==
  /\ IsABag(pending)
  /\ \A c \in BagToSet(pending) : CallOK(c)
  /\ \A t \in trainings : Tidy(t)

-----------------------------------------------------------------------------
(* The walk through the spreadsheet. *)

\* A job at some call: an import with the training it holds, or the mails.
Walking(c) ==
  /\ IsRecord(c)
  /\ \/ c.job = "import" /\ "training" \in DOMAIN c
     \/ c.job = "mails"

LEMMA NextRow ==
  ASSUME NEW c, Walking(c)
  PROVE  CallOK(AtRow(c)) /\ CallOK(AfterRow(c))
<1>1. \A d : Walking(d) => CallOK(AtRow(d))
  <2> SUFFICES ASSUME NEW d, Walking(d)
               PROVE  CallOK(AtRow(d))
    OBVIOUS
  <2>1. CASE d.rows = {}
    BY <2>1 DEF AtRow, ToWriteBack, CallOK, IsRecord
  <2>2. CASE d.rows # {}
    BY <2>2 DEF AtRow, RowOp, Walking, CallOK, IsRecord, RowOps, HoldingOps, LineOps, MailOps
  <2> QED
    BY <2>1, <2>2
<1>2. Walking([c EXCEPT !.rows = @ \ {Min(@)}, !.lines = {}])
  BY DEF Walking, IsRecord
<1> QED
  BY <1>1, <1>2 DEF AfterRow

LEMMA NextLine ==
  ASSUME NEW c, Walking(c), c.job = "import" => Tidy(c.training), NEW mark
  PROVE  CallOK(AtLine(c)) /\ CallOK(AfterLine(c, mark))
<1>1. \A d : Walking(d) /\ (d.job = "import" => Tidy(d.training)) => CallOK(AtLine(d))
  <2> SUFFICES ASSUME NEW d, Walking(d), d.job = "import" => Tidy(d.training)
               PROVE  CallOK(AtLine(d))
    OBVIOUS
  <2>1. CASE d.lines = {}
    BY <2>1, NextRow DEF AtLine
  <2>2. CASE d.lines # {}
    BY <2>2 DEF AtLine, LineOp, Walking, CallOK, IsRecord, RowOps, HoldingOps, LineOps, MailOps
  <2> QED
    BY <2>1, <2>2
<1> DEFINE d == [MarkLine(c, mark) EXCEPT !.lines = @ \ {Min(@)}]
<1>2. Walking(d) /\ d.job = c.job /\ (d.job = "import" => d.training = c.training)
  BY DEF Walking, IsRecord, MarkLine
<1> HIDE DEF d
<1>3. CallOK(AtLine(d))
  BY <1>1, <1>2
<1> QED
  BY <1>1, <1>3 DEF AfterLine, d

-----------------------------------------------------------------------------
(* Steps that send calls, and answers. *)

LEMMA SendStep ==
  ASSUME IInv, NEW call, CallOK(call), Start({call}), UNCHANGED trainings
  PROVE  IInv'
BY StartCalls DEF IInv

LEMMA AnswerStep ==
  ASSUME IInv, NEW c \in BagToSet(pending), NEW new, Continue(c, new),
         \A d \in new : CallOK(d), \A t \in trainings' : Tidy(t)
  PROVE  IInv'
BY ContinueCalls DEF IInv

\* The last call of a job is answered.
LEMMA EndsOnly ==
  ASSUME IInv, NEW c \in BagToSet(pending), Continue(c, {}), UNCHANGED trainings
  PROVE  IInv'
<1>1. PICK new : Continue(c, new) /\ \A d \in new : CallOK(d)
  OBVIOUS
<1> QED
  BY <1>1, AnswerStep DEF IInv

\* What the operation of a call tells of it.
LEMMA CallKinds ==
  ASSUME IInv, NEW c \in BagToSet(pending), c.op # "writeBack"
  PROVE  /\ IsRecord(c)
         /\ c.op \in LineOps \cup RowOps => c.job = "import"
         /\ c.job = "import" =>
              /\ Walking(c)
              /\ c.op \in HoldingOps \cup RowOps \cup {"readTrainings"}
              /\ c.op \in HoldingOps => Tidy(c.training)
         /\ c.op \in MailOps \ {"readTrainings", "readParticipants"} => c.job = "mails"
         /\ c.job = "mails" => Walking(c) /\ c.op \in MailOps
         /\ c.op \in {"listUsers", "writeUsers", "readUser", "replaceAddress"} => c.job = "addresses"
         /\ c.job = "report" => c.op \in {"bySchool", "attendance"}
         /\ c.job \in {"import", "mails", "addresses", "report"}
BY DEF IInv, CallOK, Walking, LineOps, RowOps, HoldingOps, MailOps

LEMMA RequestStep ==
  ASSUME IInv, MigrationRequest
  PROVE  IInv'
<1>1. CASE SendMails /\ UNCHANGED registryVars
  <2> DEFINE call == [op |-> "readTrainings", job |-> "mails", rows |-> {}, lines |-> {},
               results |-> [s \in SheetNames |-> <<>>],
               user |-> None, copy |-> None, list |-> {}, password |-> 0]
  <2>1. CallOK(call) /\ Start({call})
    BY <1>1 DEF SendMails, CallOK, IsRecord, MailOps
  <2> HIDE DEF call
  <2> QED
    BY <1>1, <2>1, SendStep DEF registryVars
<1>2. CASE UpdateMails /\ UNCHANGED registryVars
  <2> DEFINE call == [op |-> "listUsers", job |-> "addresses", left |-> {}, copy |-> None]
  <2>1. CallOK(call) /\ Start({call})
    BY <1>2 DEF UpdateMails, CallOK, IsRecord
  <2> HIDE DEF call
  <2> QED
    BY <1>2, <2>1, SendStep DEF registryVars
<1>3. CASE MigrateFromExcel
  <2> DEFINE call == [op |-> "readTrainings", job |-> "import", rows |-> {}, lines |-> {},
               results |-> [s \in SheetNames |-> <<>>], training |-> None,
               found |-> NothingFound, asked |-> {}, user |-> None]
  <2>1. CallOK(call) /\ Start({call})
    BY <1>3 DEF MigrateFromExcel, CallOK, IsRecord, HoldingOps, LineOps
  <2> HIDE DEF call
  <2> QED
    BY <1>3, <2>1, SendStep DEF MigrateFromExcel, registryVars
<1>4. CASE ReportRequest
  <2>1. PICK key \in {t.id : t \in trainings} \cup {t.semester : t \in trainings},
             op \in {"bySchool", "attendance"} :
          Start({[op |-> op, job |-> "report", key |-> key, asked |-> ToSet(Containers),
                  trainings |-> {}, schools |-> {}, users |-> {}]})
    BY <1>4 DEF ReportRequest
  <2> DEFINE call == [op |-> op, job |-> "report", key |-> key, asked |-> ToSet(Containers),
                      trainings |-> {}, schools |-> {}, users |-> {}]
  <2>2. CallOK(call) /\ Start({call})
    BY <2>1 DEF CallOK, IsRecord
  <2> HIDE DEF call
  <2> QED
    BY <1>4, <2>2, SendStep DEF ReportRequest, registryVars
<1> QED
  BY <1>1, <1>2, <1>3, <1>4 DEF MigrationRequest

-----------------------------------------------------------------------------
(* The import. *)

\* The end of a participant, whatever came of him.
LEMMA EndLineStep ==
  ASSUME IInv, NEW c \in BagToSet(pending), Walking(c), c.job = "import", Tidy(c.training),
         NEW mark, EndLine(c, mark), \A t \in trainings' : Tidy(t)
  PROVE  IInv'
<1> DEFINE d == [c EXCEPT !.user = None, !.found = NothingFound]
           next == AfterLine(d, mark)
<1>1. Walking(d) /\ d.job = "import" /\ d.training = c.training
  BY DEF Walking, IsRecord
<1>2. Continue(c, {next})
  BY DEF EndLine
<1> HIDE DEF d
<1>3. CallOK(next)
  BY <1>1, NextLine
<1> HIDE DEF next
<1> QED
  BY <1>2, <1>3, AnswerStep

\* Somebody who does not take part yet is added at the end.
LEMMA WithTidy ==
  ASSUME NEW c, NEW user, Tidy(c.training), ~Takes(c.training, user)
  PROVE  Tidy(With(c, user))
<1> DEFINE old == c.training.participants
           new == [user |-> user.id, attended |-> Line(c).attended]
           all == Append(old, new)
<1>1. PICK S : old \in Seq(S)
  BY DEF Tidy, IsSeq
<1>2. old \in Seq(S \cup {new}) /\ new \in S \cup {new}
  BY <1>1
<1>3. new.user = user.id
  OBVIOUS
<1> HIDE DEF new
<1>4. /\ all \in Seq(S \cup {new}) /\ DOMAIN all = 1..Len(old) + 1 /\ DOMAIN old = 1..Len(old)
      /\ \A i \in DOMAIN old : all[i] = old[i]
      /\ all[Len(old) + 1] = new /\ Len(old) \in Nat
  BY <1>2
<1> HIDE DEF all
<1>5. \A i \in DOMAIN old : old[i].user # user.id
  BY DEF Takes
<1>6. \A i, j \in DOMAIN all : all[i].user = all[j].user => i = j
  <2>1. \A i, j \in DOMAIN old : old[i].user = old[j].user => i = j
    BY DEF Tidy
  <2> HIDE DEF old
  <2> QED
    BY <1>3, <1>4, <1>5, <2>1
<1>7. IsSeq(all)
  BY <1>4 DEF IsSeq
<1>8. With(c, user) = [c.training EXCEPT !.participants = all]
  BY DEF With, all, new, Tidy
<1> HIDE DEF old
<1> QED
  BY <1>6, <1>7, <1>8 DEF Tidy

LEMMA AtEnrolmentStep ==
  ASSUME IInv, NEW c \in BagToSet(pending), c.op \in LineOps, NEW user,
         AtEnrolment(c, user), UNCHANGED trainings
  PROVE  IInv'
<1>1. /\ Walking(c) /\ c.job = "import" /\ Tidy(c.training) /\ IsRecord(c)
      /\ \A t \in trainings' : Tidy(t)
  BY CallKinds DEF LineOps, HoldingOps, IInv
<1>2. CASE Takes(c.training, user)
  BY <1>1, <1>2, EndLineStep DEF AtEnrolment
<1>3. CASE ~Takes(c.training, user)
  <2>1. Tidy(With(c, user))
    BY <1>1, <1>3, WithTidy
  <2> DEFINE d == [c EXCEPT !.op = "replaceTraining", !.user = None,
                            !.found = NothingFound, !.training = With(c, user)]
  <2>2. CallOK(d)
    BY <1>1, <2>1 DEF Walking, IsRecord, CallOK, HoldingOps, LineOps
  <2>3. Continue(c, {d})
    BY <1>3 DEF AtEnrolment
  <2> HIDE DEF d
  <2> QED
    BY <1>1, <2>2, <2>3, AnswerStep
<1> QED
  BY <1>2, <1>3

LEMMA AtCreationStep ==
  ASSUME IInv, NEW c \in BagToSet(pending), c.op \in LineOps, NEW school,
         AtCreation(c, school), UNCHANGED trainings
  PROVE  IInv'
<1>1. /\ Walking(c) /\ c.job = "import" /\ Tidy(c.training) /\ IsRecord(c)
      /\ \A t \in trainings' : Tidy(t)
  BY CallKinds DEF LineOps, HoldingOps, IInv
<1>2. CASE Line(c).fault = "employment"
  BY <1>1, <1>2, EndLineStep DEF AtCreation
<1>3. CASE Line(c).fault # "employment"
  <2> DEFINE d == [c EXCEPT !.op = "findDuplicate", !.found["school"] = school]
  <2>1. CallOK(d)
    BY <1>1 DEF Walking, IsRecord, CallOK, HoldingOps, LineOps
  <2>2. Continue(c, {d})
    BY <1>3 DEF AtCreation
  <2> HIDE DEF d
  <2> QED
    BY <1>1, <2>1, <2>2, AnswerStep
<1> QED
  BY <1>2, <1>3

\* The training of the row is there, or has just been created.
LEMMA AtParticipantsOK ==
  ASSUME NEW c, Walking(c), c.job = "import", NEW training, Tidy(training)
  PROVE  CallOK(AtParticipants(c, training))
<1> DEFINE d == [MarkRow(c, "success") EXCEPT !.training = training, !.found = NothingFound]
<1>1. Walking(d) /\ d.job = "import" /\ d.training = training
  BY DEF Walking, IsRecord, MarkRow
<1> HIDE DEF d
<1>2. CallOK([d EXCEPT !.op = "readParticipants"])
  BY <1>1 DEF Walking, IsRecord, CallOK, HoldingOps
<1>3. CallOK(AfterRow(d))
  BY <1>1, NextRow
<1> QED
  BY <1>2, <1>3 DEF AtParticipants, d

LEMMA AtNamesOK ==
  ASSUME NEW c, Walking(c), c.job = "import"
  PROVE  CallOK(AtNames(c))
BY DEF AtNames, Walking, IsRecord, CallOK, RowOps, HoldingOps, LineOps

\* An import walks on with a call that is OK.
LEMMA ImportRows ==
  ASSUME IInv, NEW c \in BagToSet(pending),
         ReadImportRows(c) \/ FindTraining(c) \/ FindName(c) \/ CreateName(c) \/ CreateTraining(c)
  PROVE  IInv'
<1>1. Walking(c) /\ c.job = "import" /\ IsRecord(c) /\ c.op # "writeBack"
  BY CallKinds DEF ReadImportRows, FindTraining, FindName, CreateName, CreateTraining, RowOps
<1>2. CASE ReadImportRows(c)
  <2>1. \A t \in trainings' : Tidy(t)
    BY <1>2 DEF ReadImportRows, registryVars, IInv
  <2>2. ASSUME NEW rows, NEW marked
        PROVE  CallOK(AtRow([c EXCEPT !.rows = rows, !.results[FirstSheet] = marked]))
    <3>1. Walking([c EXCEPT !.rows = rows, !.results[FirstSheet] = marked])
      BY <1>1 DEF Walking, IsRecord
    <3> QED
      BY <3>1, NextRow
  <2>3. PICK new : Continue(c, new) /\ \A d \in new : CallOK(d)
    <3>1. CASE "Estado" \notin Columns[FirstSheet]
      <4>1. Continue(c, {})
        BY <1>2, <3>1 DEF ReadImportRows
      <4> QED
        BY <4>1
    <3>2. CASE "Estado" \in Columns[FirstSheet]
      <4> DEFINE seen == marks[FirstSheet]["Estado"]
                 rows == {i \in DOMAIN TrainingRows : seen[i] # "paused" /\ TrainingRows[i].valid}
                 marked == [i \in DOMAIN seen |->
                   IF seen[i] = "paused" \/ TrainingRows[i].valid THEN seen[i] ELSE "error"]
                 next == AtRow([c EXCEPT !.rows = rows, !.results[FirstSheet] = marked])
      <4>1. Continue(c, {next})
        BY <1>2, <3>2 DEF ReadImportRows
      <4> HIDE DEF rows, marked
      <4>2. CallOK(next)
        BY <2>2
      <4> HIDE DEF next
      <4> QED
        BY <4>1, <4>2
    <3> QED
      BY <3>1, <3>2
  <2> QED
    BY <2>1, <2>3, AnswerStep
<1>3. CASE FindTraining(c)
  <2>1. \A t \in trainings' : Tidy(t)
    BY <1>3 DEF FindTraining, registryVars, IInv
  <2>2. CASE Continue(c, {[c EXCEPT !.op = "findNames", !.asked = Catalogues]})
    <3> DEFINE d == [c EXCEPT !.op = "findNames", !.asked = Catalogues]
    <3>1. CallOK(d)
      BY <1>1 DEF Walking, IsRecord, CallOK, RowOps, HoldingOps, LineOps
    <3>2. Continue(c, {d})
      BY <2>2
    <3> HIDE DEF d
    <3> QED
      BY <2>1, <3>1, <3>2, AnswerStep
  <2>3. ASSUME NEW training \in trainings, Continue(c, {AtParticipants(c, training)})
        PROVE  IInv'
    <3>1. CallOK(AtParticipants(c, training))
      BY <1>1, AtParticipantsOK DEF IInv
    <3> QED
      BY <2>1, <2>3, <3>1, AnswerStep
  <2> QED
    BY <1>3, <2>2, <2>3 DEF FindTraining, WithCode
<1>4. CASE FindName(c)
  <2>1. \A t \in trainings' : Tidy(t)
    BY <1>4 DEF FindName, registryVars, IInv
  <2>2. PICK kind, id :
          LET d == [c EXCEPT !.asked = @ \ {kind}, !.found[kind] = id] IN
          Continue(c, {IF d.asked = {} THEN AtNames(d) ELSE d})
    BY <1>4 DEF FindName
  <2> DEFINE d == [c EXCEPT !.asked = @ \ {kind}, !.found[kind] = id]
  <2>3. Walking(d) /\ d.job = "import" /\ d.op = "findNames"
    BY <1>1, <1>4 DEF Walking, IsRecord, FindName
  <2> DEFINE e == IF d.asked = {} THEN AtNames(d) ELSE d
  <2>4. Continue(c, {e})
    BY <2>2
  <2> HIDE DEF d
  <2>5. CallOK(d) /\ CallOK(AtNames(d))
    BY <2>3, AtNamesOK DEF Walking, CallOK, RowOps, HoldingOps, LineOps
  <2> HIDE DEF e
  <2>6. CallOK(e)
    BY <2>5 DEF e
  <2> QED
    BY <2>1, <2>4, <2>6, AnswerStep
<1>5. CASE CreateName(c)
  <2>1. \A t \in trainings' : Tidy(t)
    BY <1>5 DEF CreateName, IInv
  <2>2. PICK kind, id : Continue(c, {AtNames([c EXCEPT !.found[kind] = id])})
    BY <1>5 DEF CreateName
  <2> DEFINE d == [c EXCEPT !.found[kind] = id]
  <2>3. Walking(d) /\ d.job = "import"
    BY <1>1 DEF Walking, IsRecord
  <2> HIDE DEF d
  <2>4. CallOK(AtNames(d)) /\ Continue(c, {AtNames(d)})
    BY <2>2, <2>3, AtNamesOK DEF d
  <2> QED
    BY <2>1, <2>4, AnswerStep
<1>6. CASE CreateTraining(c)
  <2>1. PICK id :
          LET new == [id |-> id, code |-> Code(c), type |-> TrainingRow(c).type,
                      semester |-> c.found["semester"], competency |-> c.found["competency"],
                      organizer |-> c.found["school"], participants |-> <<>>] IN
          /\ trainings' = trainings \cup {new}
          /\ Continue(c, {AtParticipants(c, new)})
    BY <1>6 DEF CreateTraining
  <2> DEFINE new == [id |-> id, code |-> Code(c), type |-> TrainingRow(c).type,
                     semester |-> c.found["semester"], competency |-> c.found["competency"],
                     organizer |-> c.found["school"], participants |-> <<>>]
  <2>2. Tidy(new)
    <3>1. <<>> \in Seq({}) /\ DOMAIN <<>> = {}
      OBVIOUS
    <3>2. IsSeq(<<>>)
      BY <3>1 DEF IsSeq
    <3> QED
      BY <3>1, <3>2 DEF Tidy
  <2>3. trainings' = trainings \cup {new} /\ Continue(c, {AtParticipants(c, new)})
    BY <2>1
  <2> HIDE DEF new
  <2>4. CallOK(AtParticipants(c, new))
    BY <1>1, <2>2, AtParticipantsOK
  <2>5. \A t \in trainings' : Tidy(t)
    BY <2>2, <2>3 DEF IInv
  <2> QED
    BY <2>3, <2>4, <2>5, AnswerStep
<1> QED
  BY <1>2, <1>3, <1>4, <1>5, <1>6

\* The deletion of a user, and what follows it.
LEMMA DeleteStep ==
  ASSUME IInv, NEW c \in BagToSet(pending), c.op \in LineOps,
         NEW next \in LineOps, Delete(c, c.op, next)
  PROVE  IInv'
<1>1. /\ Walking(c) /\ c.job = "import" /\ Tidy(c.training) /\ IsRecord(c)
      /\ \A t \in trainings' : Tidy(t)
  BY CallKinds DEF LineOps, HoldingOps, IInv, Delete
<1>2. CASE EndLine(c, "error")
  BY <1>1, <1>2, EndLineStep
<1>3. CASE Continue(c, {[c EXCEPT !.op = next, !.user = None]})
  <2> DEFINE d == [c EXCEPT !.op = next, !.user = None]
  <2>1. CallOK(d)
    BY <1>1 DEF Walking, IsRecord, CallOK, HoldingOps
  <2>2. Continue(c, {d})
    BY <1>3
  <2> HIDE DEF d
  <2> QED
    BY <1>1, <2>1, <2>2, AnswerStep
<1> QED
  BY <1>2, <1>3 DEF Delete

\* The next call for the participant.
LEMMA NextForLine ==
  ASSUME IInv, NEW c \in BagToSet(pending), c.op \in LineOps, NEW next \in LineOps,
         NEW user, UNCHANGED trainings,
         \/ Continue(c, {[c EXCEPT !.op = next]})
         \/ Continue(c, {[c EXCEPT !.op = next, !.user = user]})
  PROVE  IInv'
<1>1. /\ Walking(c) /\ c.job = "import" /\ Tidy(c.training) /\ IsRecord(c)
      /\ \A t \in trainings' : Tidy(t)
  BY CallKinds DEF LineOps, HoldingOps, IInv
<1> DEFINE d == [c EXCEPT !.op = next]
           e == [c EXCEPT !.op = next, !.user = user]
<1>2. CallOK(d) /\ CallOK(e)
  BY <1>1 DEF Walking, IsRecord, CallOK, HoldingOps
<1>3. Continue(c, {d}) \/ Continue(c, {e})
  OBVIOUS
<1> HIDE DEF d, e
<1> QED
  BY <1>1, <1>2, <1>3, AnswerStep

LEMMA ImportPersons ==
  ASSUME IInv, NEW c \in BagToSet(pending),
         \/ FindProfessor(c) \/ DeleteUser(c) \/ FindNamesake(c) \/ DeleteNamesake(c)
         \/ FindSchool(c) \/ CreateSchool(c)
  PROVE  IInv'
<1>1. c.op \in LineOps
  BY DEF FindProfessor, DeleteUser, FindNamesake, DeleteNamesake, FindSchool, CreateSchool,
         Delete, LineOps
<1>2. \A op \in {"findNamesake", "deleteUser", "findSchool", "deleteNamesake", "createSchool"} :
        op \in LineOps
  BY DEF LineOps
<1>3. CASE FindProfessor(c)
  <2>1. UNCHANGED trainings
    BY <1>3 DEF FindProfessor, registryVars
  <2>2. \/ Continue(c, {[c EXCEPT !.op = "findNamesake"]})
        \/ \E u : AtEnrolment(c, u)
        \/ \E u : Continue(c, {[c EXCEPT !.op = "deleteUser", !.user = u]})
    BY <1>3 DEF FindProfessor
  <2>3. CASE \E u : AtEnrolment(c, u)
    BY <1>1, <2>1, <2>3, AtEnrolmentStep
  <2>4. CASE Continue(c, {[c EXCEPT !.op = "findNamesake"]})
    BY <1>1, <1>2, <2>1, <2>4, NextForLine
  <2>5. CASE \E u : Continue(c, {[c EXCEPT !.op = "deleteUser", !.user = u]})
    BY <1>1, <1>2, <2>1, <2>5, NextForLine
  <2> QED
    BY <2>2, <2>3, <2>4, <2>5
<1>4. CASE DeleteUser(c)
  BY <1>1, <1>2, <1>4, DeleteStep DEF DeleteUser, Delete
<1>5. CASE FindNamesake(c)
  <2>1. UNCHANGED trainings
    BY <1>5 DEF FindNamesake, registryVars
  <2>2. \/ Continue(c, {[c EXCEPT !.op = "findSchool"]})
        \/ \E u : Continue(c, {[c EXCEPT !.op = "deleteNamesake", !.user = u]})
    BY <1>5 DEF FindNamesake
  <2>3. CASE Continue(c, {[c EXCEPT !.op = "findSchool"]})
    BY <1>1, <1>2, <2>1, <2>3, NextForLine
  <2>4. CASE \E u : Continue(c, {[c EXCEPT !.op = "deleteNamesake", !.user = u]})
    BY <1>1, <1>2, <2>1, <2>4, NextForLine
  <2> QED
    BY <2>2, <2>3, <2>4
<1>6. CASE DeleteNamesake(c)
  BY <1>1, <1>2, <1>6, DeleteStep DEF DeleteNamesake, Delete
<1>7. CASE FindSchool(c)
  <2>1. UNCHANGED trainings
    BY <1>7 DEF FindSchool, registryVars
  <2>2. \/ Continue(c, {[c EXCEPT !.op = "createSchool"]})
        \/ \E id : AtCreation(c, id)
    BY <1>7 DEF FindSchool
  <2>3. CASE Continue(c, {[c EXCEPT !.op = "createSchool"]})
    BY <1>1, <1>2, <2>1, <2>3, NextForLine
  <2>4. CASE \E id : AtCreation(c, id)
    BY <1>1, <2>1, <2>4, AtCreationStep
  <2> QED
    BY <2>2, <2>3, <2>4
<1>8. CASE CreateSchool(c)
  BY <1>1, <1>8, AtCreationStep DEF CreateSchool
<1> QED
  BY <1>3, <1>4, <1>5, <1>6, <1>7, <1>8

LEMMA ImportUsers ==
  ASSUME IInv, NEW c \in BagToSet(pending),
         FindDuplicate(c) \/ CreateUser(c) \/ ReadBackup(c) \/ ReplaceTraining(c)
  PROVE  IInv'
<1>1. c.op \in LineOps
  BY DEF FindDuplicate, CreateUser, ReadBackup, ReplaceTraining, LineOps
<1>2. Walking(c) /\ c.job = "import" /\ Tidy(c.training)
  BY <1>1, CallKinds DEF LineOps, HoldingOps
<1>3. \A t \in trainings : Tidy(t)
  BY DEF IInv
<1>4. CASE FindDuplicate(c)
  <2>1. UNCHANGED trainings
    BY <1>4 DEF FindDuplicate, registryVars
  <2>2. EndLine(c, "error") \/ Continue(c, {[c EXCEPT !.op = "createUser"]})
    BY <1>4 DEF FindDuplicate
  <2> QED
    BY <1>1, <1>2, <1>3, <2>1, <2>2, EndLineStep, NextForLine DEF LineOps
<1>5. CASE CreateUser(c)
  <2>1. UNCHANGED trainings
    BY <1>5 DEF CreateUser
  <2>2. \E u : Continue(c, {[c EXCEPT !.op = "readBackup", !.user = u]})
    BY <1>5 DEF CreateUser
  <2> QED
    BY <1>1, <2>1, <2>2, NextForLine DEF LineOps
<1>6. CASE ReadBackup(c)
  BY <1>1, <1>2, <1>3, <1>6, EndLineStep, AtEnrolmentStep DEF ReadBackup, registryVars
<1>7. CASE ReplaceTraining(c)
  <2>1. \A t \in trainings' : Tidy(t)
    BY <1>2, <1>3, <1>7 DEF ReplaceTraining, Replaced
  <2> QED
    BY <1>2, <1>7, <2>1, EndLineStep DEF ReplaceTraining
<1> QED
  BY <1>4, <1>5, <1>6, <1>7

\* The rows of participants of a training are read, by either job.
LEMMA ReadLinesStep ==
  ASSUME IInv, NEW c \in BagToSet(pending), UNCHANGED trainings,
         ReadImportLines(c) \/ ReadMailLines(c)
  PROVE  IInv'
<1>1. /\ c.op = "readParticipants" /\ IsRecord(c) /\ Walking(c)
      /\ c.job = "import" => Tidy(c.training)
  BY CallKinds DEF ReadImportLines, ReadMailLines, ReadParticipants, HoldingOps
<1>2. ASSUME NEW errors, NEW open
      PROVE  CallOK(AtLine([c EXCEPT !.results[Code(c)] = errors, !.lines = open]))
  <2> DEFINE d == [c EXCEPT !.results[Code(c)] = errors, !.lines = open]
  <2>1. Walking(d) /\ d.job = c.job /\ (c.job = "import" => d.training = c.training)
    BY <1>1 DEF Walking, IsRecord
  <2> HIDE DEF d
  <2>2. CallOK(AtLine(d))
    BY <1>1, <2>1, NextLine
  <2> QED
    BY <2>2 DEF d
<1>3. \/ Continue(c, {})
      \/ \E errors, open :
           Continue(c, {AtLine([c EXCEPT !.results[Code(c)] = errors, !.lines = open])})
  BY DEF ReadImportLines, ReadMailLines, ReadParticipants
<1>4. \A t \in trainings' : Tidy(t)
  BY DEF IInv
<1>5. CASE Continue(c, {})
  BY <1>5, EndsOnly
<1>6. CASE \E errors, open :
        Continue(c, {AtLine([c EXCEPT !.results[Code(c)] = errors, !.lines = open])})
  <2>1. PICK next : Continue(c, {next}) /\ CallOK(next)
    BY <1>2, <1>6
  <2> QED
    BY <1>4, <2>1, AnswerStep
<1> QED
  BY <1>3, <1>5, <1>6

LEMMA ImportStep ==
  ASSUME IInv, NEW c \in BagToSet(pending), AnswerImport(c) \/ FailImport(c)
  PROVE  IInv'
<1>1. CASE AnswerImport(c)
  BY <1>1, ImportRows, ImportPersons, ImportUsers, ReadLinesStep
  DEF AnswerImport, ReadImportLines, registryVars
<1>2. CASE FailImport(c)
  <2>1. c.job = "import" /\ c.op # "writeBack" /\ Walking(c) /\ IsRecord(c)
        /\ \A t \in trainings' : Tidy(t)
    BY <1>2, CallKinds DEF FailImport, registryVars, IInv
  <2>2. CASE c.op \in LineOps /\ EndLine(c, "error")
    <3>1. Tidy(c.training)
      BY <2>1, <2>2, CallKinds DEF HoldingOps
    <3> QED
      BY <2>1, <2>2, <3>1, EndLineStep
  <2>3. CASE Continue(c, {AfterRow([MarkRow(c, "error") EXCEPT
               !.found = NothingFound, !.asked = {}])})
    <3> DEFINE d == [MarkRow(c, "error") EXCEPT !.found = NothingFound, !.asked = {}]
    <3>1. Walking(d)
      BY <2>1 DEF Walking, IsRecord, MarkRow
    <3> HIDE DEF d
    <3>2. CallOK(AfterRow(d))
      BY <3>1, NextRow
    <3>3. Continue(c, {AfterRow(d)})
      BY <2>3 DEF d
    <3> QED
      BY <2>1, <3>2, <3>3, AnswerStep
  <2>4. CASE Continue(c, {})
    BY <1>2, <2>4, EndsOnly DEF FailImport, registryVars
  <2> QED
    BY <1>2, <2>2, <2>3, <2>4 DEF FailImport
<1> QED
  BY <1>1, <1>2

-----------------------------------------------------------------------------
(* The mails and the addresses. *)

\* The end of a row of the mails, whatever came of it.
LEMMA EndMailStep ==
  ASSUME IInv, NEW c \in BagToSet(pending), Walking(c), c.job = "mails",
         NEW mark, EndMail(c, mark), UNCHANGED trainings
  PROVE  IInv'
<1> DEFINE d == [c EXCEPT !.user = None, !.copy = None, !.list = {}, !.password = 0]
           next == AfterLine(d, mark)
<1>1. Walking(d) /\ d.job = "mails"
  BY DEF Walking, IsRecord
<1>2. Continue(c, {next})
  BY DEF EndMail
<1> HIDE DEF d
<1>3. CallOK(next)
  BY <1>1, NextLine
<1> HIDE DEF next
<1> QED
  BY <1>2, <1>3, AnswerStep DEF IInv

\* The next call of the mails.
LEMMA NextMail ==
  ASSUME IInv, NEW c \in BagToSet(pending), Walking(c), c.job = "mails",
         NEW op \in MailOps, NEW d, Continue(c, {d}), UNCHANGED trainings,
         IsRecord(d), d.job = c.job, d.op = op
  PROVE  IInv'
<1>1. CallOK(d)
  BY DEF CallOK
<1> QED
  BY <1>1, AnswerStep DEF IInv

LEMMA MailUsers ==
  ASSUME IInv, NEW c \in BagToSet(pending), UNCHANGED trainings,
         \/ ReadForPassword(c) \/ ReplacePassword(c) \/ ReadForEmail(c) \/ ReplaceEmail(c)
  PROVE  IInv'
<1>1. c.op \in {"readForPassword", "replacePassword", "readForEmail", "replaceEmail"}
  BY DEF ReadForPassword, ReplacePassword, ReadForEmail, ReplaceEmail, ReadUserFor
<1>2. c.op \in MailOps \ {"readTrainings", "readParticipants"} /\ c.op # "writeBack"
  BY <1>1 DEF MailOps
<1>3. Walking(c) /\ c.job = "mails" /\ IsRecord(c)
  BY <1>2, CallKinds
<1>4. ASSUME NEW op \in MailOps, NEW copy, Continue(c, {[c EXCEPT !.op = op, !.copy = copy]})
      PROVE  IInv'
  <2> DEFINE d == [c EXCEPT !.op = op, !.copy = copy]
  <2>1. IsRecord(d) /\ d.job = c.job /\ d.op = op /\ Continue(c, {d})
    BY <1>3, <1>4 DEF IsRecord
  <2> HIDE DEF d
  <2> QED
    BY <1>3, <2>1, NextMail
<1>5. {"replacePassword", "readForEmail", "replaceEmail", "sendMail"} \subseteq MailOps
  BY DEF MailOps
<1>6. \/ EndMail(c, "error")
      \/ \E op \in MailOps : \E copy :
           Continue(c, {[c EXCEPT !.op = op, !.copy = copy]})
  BY <1>5 DEF ReadForPassword, ReplacePassword, ReadForEmail, ReplaceEmail, ReadUserFor
<1> QED
  BY <1>3, <1>4, <1>6, EndMailStep

LEMMA MailRows ==
  ASSUME IInv, NEW c \in BagToSet(pending), UNCHANGED trainings,
         \/ ReadProcessed(c) \/ FindAddress(c) \/ FindDocument(c)
         \/ SendMail(c) \/ ReadForAppend(c) \/ WriteAppend(c)
  PROVE  IInv'
<1>1. c.op \in {"readProcessed", "findAddress", "findDocument", "sendMail", "readForAppend",
               "writeAppend"}
  BY DEF ReadProcessed, FindAddress, FindDocument, SendMail, ReadForAppend, WriteAppend
<1>2. c.op \in MailOps \ {"readTrainings", "readParticipants"} /\ c.op # "writeBack"
  BY <1>1 DEF MailOps
<1>3. Walking(c) /\ c.job = "mails" /\ IsRecord(c)
  BY <1>2, CallKinds
<1>4. CASE \E mark : EndMail(c, mark)
  BY <1>3, <1>4, EndMailStep
<1>5. ASSUME NEW op \in {"findAddress", "findDocument", "readForPassword", "readForAppend",
                         "writeAppend"},
             NEW list, NEW user, NEW password,
             \/ Continue(c, {[c EXCEPT !.op = op]})
             \/ Continue(c, {[c EXCEPT !.op = op, !.list = list]})
             \/ Continue(c, {[c EXCEPT !.op = op, !.user = user, !.list = list,
                                       !.password = password]})
      PROVE  IInv'
  <2>1. PICK d \in {[c EXCEPT !.op = op], [c EXCEPT !.op = op, !.list = list],
                    [c EXCEPT !.op = op, !.user = user, !.list = list, !.password = password]} :
          Continue(c, {d})
    BY <1>5
  <2>2. IsRecord(d) /\ d.job = c.job /\ d.op = op
    BY <1>3, <2>1 DEF IsRecord
  <2>3. op \in MailOps
    BY DEF MailOps
  <2> QED
    BY <1>3, <2>1, <2>2, <2>3, NextMail
<1>6. CASE ReadProcessed(c)
  <2>1. \/ EndMail(c, "error")
        \/ Continue(c, {[c EXCEPT !.op = "findAddress", !.list = processed]})
    BY <1>6 DEF ReadProcessed
  <2> QED
    BY <1>4, <1>5, <2>1
<1>7. CASE FindAddress(c)
  <2>1. EndMail(c, "success") \/ Continue(c, {[c EXCEPT !.op = "findDocument"]})
    BY <1>7 DEF FindAddress, NoMailDue
  <2> QED
    BY <1>4, <1>5, <2>1
<1>8. CASE FindDocument(c)
  <2>1. \/ \E mark : EndMail(c, mark)
        \/ \E user, password :
             Continue(c, {[c EXCEPT !.op = "readForPassword", !.user = user,
                                    !.list = {}, !.password = password]})
    BY <1>8 DEF FindDocument, NoMailDue
  <2> QED
    BY <1>4, <1>5, <2>1
<1>9. CASE SendMail(c)
  BY <1>5, <1>9 DEF SendMail
<1>10. CASE ReadForAppend(c)
  <2>1. Continue(c, {[c EXCEPT !.op = "writeAppend", !.list = processed]})
    BY <1>10 DEF ReadForAppend
  <2> QED
    BY <1>5, <2>1
<1>11. CASE WriteAppend(c)
  BY <1>4, <1>11 DEF WriteAppend
<1> QED
  BY <1>6, <1>7, <1>8, <1>9, <1>10, <1>11

LEMMA ReadMailRowsStep ==
  ASSUME IInv, NEW c \in BagToSet(pending), ReadMailRows(c), UNCHANGED trainings
  PROVE  IInv'
<1>1. Walking(c) /\ c.job = "mails"
  BY CallKinds DEF ReadMailRows
<1>2. ASSUME NEW rows, NEW marked
      PROVE  CallOK(AtRow([c EXCEPT !.rows = rows, !.results[FirstSheet] = marked]))
  <2>1. Walking([c EXCEPT !.rows = rows, !.results[FirstSheet] = marked])
    BY <1>1 DEF Walking, IsRecord
  <2> QED
    BY <2>1, NextRow
<1>3. \/ Continue(c, {})
      \/ \E rows, marked :
           Continue(c, {AtRow([c EXCEPT !.rows = rows, !.results[FirstSheet] = marked])})
  BY DEF ReadMailRows
<1>4. ASSUME NEW d, CallOK(d), Continue(c, {d})
      PROVE  IInv'
  BY <1>4, AnswerStep DEF IInv
<1> QED
  BY <1>2, <1>3, <1>4, EndsOnly

LEMMA AddressStep ==
  ASSUME IInv, NEW c \in BagToSet(pending), UNCHANGED trainings,
         ListUsers(c) \/ WriteUsers(c) \/ ReadUser(c) \/ ReplaceAddress(c)
  PROVE  IInv'
<1>1. c.op \in {"listUsers", "writeUsers", "readUser", "replaceAddress"}
  BY DEF ListUsers, WriteUsers, ReadUser, ReplaceAddress
<1>2. IsRecord(c) /\ c.job = "addresses"
  BY <1>1, CallKinds
<1>3. \A d : IsRecord(d) /\ d.job = "addresses" => \A e \in AtUser(d) : CallOK(e)
  BY DEF AtUser, IsRecord, CallOK
<1>4. ASSUME NEW copy
      PROVE  IsRecord([c EXCEPT !.copy = copy]) /\ [c EXCEPT !.copy = copy].job = "addresses"
  BY <1>2 DEF IsRecord
<1>5. ASSUME NEW left, NEW copy
      PROVE  /\ CallOK([c EXCEPT !.op = "writeUsers", !.left = left])
             /\ CallOK([c EXCEPT !.op = "replaceAddress", !.left = left, !.copy = copy])
  BY <1>2 DEF IsRecord, CallOK
<1>6. CASE ListUsers(c)
  <2>1. PICK left : Continue(c, {[c EXCEPT !.op = "writeUsers", !.left = left]})
    BY <1>6 DEF ListUsers
  <2> DEFINE d == [c EXCEPT !.op = "writeUsers", !.left = left]
  <2>2. CallOK(d) /\ Continue(c, {d})
    BY <1>5, <2>1
  <2> HIDE DEF d
  <2> QED
    BY <2>2, AnswerStep DEF IInv
<1>7. CASE WriteUsers(c)
  <2>1. Continue(c, AtUser(c)) /\ \A e \in AtUser(c) : CallOK(e)
    BY <1>2, <1>3, <1>7 DEF WriteUsers
  <2> QED
    BY <2>1, AnswerStep DEF IInv
<1>8. CASE ReadUser(c)
  <2>1. \/ Continue(c, {})
        \/ \E left, copy :
             Continue(c, {[c EXCEPT !.op = "replaceAddress", !.left = left, !.copy = copy]})
    BY <1>8 DEF ReadUser
  <2>2. ASSUME NEW d, CallOK(d), Continue(c, {d})
        PROVE  IInv'
    BY <2>2, AnswerStep DEF IInv
  <2> QED
    BY <1>5, <2>1, <2>2, EndsOnly
<1>9. CASE ReplaceAddress(c)
  <2>1. PICK new : Continue(c, new) /\ \A d \in new : CallOK(d)
    BY <1>3, <1>4, <1>9 DEF ReplaceAddress
  <2> QED
    BY <2>1, AnswerStep DEF IInv
<1> QED
  BY <1>6, <1>7, <1>8, <1>9

LEMMA MailStep ==
  ASSUME IInv, NEW c \in BagToSet(pending), AnswerMail(c) \/ FailMail(c), UNCHANGED trainings
  PROVE  IInv'
<1>1. CASE AnswerMail(c)
  BY <1>1, MailUsers, MailRows, ReadMailRowsStep, AddressStep, ReadLinesStep DEF AnswerMail
<1>2. CASE FailMail(c)
  <2>1. CASE c.job = "mails" /\ EndMail(c, "error")
    BY <1>2, <2>1, CallKinds, EndMailStep DEF FailMail
  <2>2. CASE Continue(c, {})
    BY <2>2, EndsOnly
  <2> QED
    BY <1>2, <2>1, <2>2 DEF FailMail
<1> QED
  BY <1>1, <1>2

-----------------------------------------------------------------------------
(* The reports, and the end of a job. *)

LEMMA ReportStep ==
  ASSUME IInv, NEW c \in BagToSet(pending), ServeReport(c) \/ FailReport(c)
  PROVE  IInv'
<1>1. UNCHANGED trainings
  BY DEF ServeReport, FailReport, ReadTrainings, ReadSchools, ReadUsers, AnswerReport, Read,
         registryVars
<1>2. CallOK(c) /\ (ServeReport(c) \/ FailReport(c)) /\ c.job = "report"
  BY DEF IInv, ServeReport, FailReport, ReadTrainings, ReadSchools, ReadUsers, AnswerReport, Asked
<1>3. ASSUME NEW d, IsRecord(d), d.job = c.job, d.op = c.op
      PROVE  CallOK(d)
  BY <1>2, <1>3 DEF CallOK
<1>4. ASSUME NEW asked, NEW x
      PROVE  /\ CallOK([[c EXCEPT !.trainings = x] EXCEPT !.asked = asked])
             /\ CallOK([[c EXCEPT !.schools = x] EXCEPT !.asked = asked])
             /\ CallOK([[c EXCEPT !.users = x] EXCEPT !.asked = asked])
  <2>1. IsRecord(c)
    BY <1>2 DEF CallOK
  <2> QED
    BY <1>3, <2>1 DEF IsRecord
<1>5. \/ Continue(c, {})
      \/ \E asked, x : Continue(c, {[[c EXCEPT !.trainings = x] EXCEPT !.asked = asked]})
      \/ \E asked, x : Continue(c, {[[c EXCEPT !.schools = x] EXCEPT !.asked = asked]})
      \/ \E asked, x : Continue(c, {[[c EXCEPT !.users = x] EXCEPT !.asked = asked]})
  BY DEF ServeReport, FailReport, ReadTrainings, ReadSchools, ReadUsers, AnswerReport, Read
<1>6. ASSUME NEW d, CallOK(d), Continue(c, {d})
      PROVE  IInv'
  BY <1>1, <1>6, AnswerStep DEF IInv
<1>7. CASE Continue(c, {})
  BY <1>1, <1>7, EndsOnly
<1>8. CASE ~Continue(c, {})
  BY <1>4, <1>5, <1>6, <1>8
<1> QED
  BY <1>7, <1>8

LEMMA EndStep ==
  ASSUME IInv, NEW c \in BagToSet(pending), WriteBack(c), UNCHANGED trainings
  PROVE  IInv'
BY EndsOnly DEF WriteBack

-----------------------------------------------------------------------------

LEMMA Initial == MigrationInit => IInv
BY NoCalls DEF MigrationInit, RegistryInit, IInv

LEMMA Inductive == IInv /\ [MigrationNext]_migrationVars => IInv'
<1> SUFFICES ASSUME IInv, [MigrationNext]_migrationVars
             PROVE  IInv'
  OBVIOUS
<1>1. CASE MigrationRequest
  BY <1>1, RequestStep
<1>2. CASE UNCHANGED <<trainings, pending>>
  BY <1>2 DEF IInv
<1>3. ASSUME NEW c \in BagToSet(pending), Work(c) \/ Reject(c)
      PROVE  IInv'
  BY <1>3, MailStep, ImportStep, ReportStep, EndStep
  DEF Work, Reject, OnlyMailing, registryVars
<1>4. CASE Interrupt
  BY <1>4, NoCalls DEF Interrupt, IInv
<1>5. CASE CatalogueRequest
  BY <1>2, <1>5 DEF CatalogueRequest, RemoveSchool, RemoveCompetency
<1>6. ASSUME NEW sheet, NEW line, PauseLine(sheet, line)
      PROVE  IInv'
  BY <1>2, <1>6 DEF PauseLine, registryVars
<1>7. CASE UNCHANGED migrationVars
  BY <1>2, <1>7 DEF migrationVars, registryVars
<1> QED
  BY <1>1, <1>3, <1>4, <1>5, <1>6, <1>7 DEF MigrationNext

\* Nobody takes part in a training twice, however many imports run together,
\* fail and are repeated: each adds only to the training it holds, and only
\* whom that does not name, and replaces the stored one as a whole.
\* (addParticipantToTraining.)
THEOREM NobodyTwice == MigrationSpec => []ParticipantsOnce
<1>1. IInv => ParticipantsOnce
  BY DEF IInv, Tidy, ParticipantsOnce
<1> QED
  BY <1>1, Initial, Inductive, PTL DEF MigrationSpec
-----------------------------------------------------------------------------
(* Types: the calls of a job, and the rows they are at. *)

\* The first of some positions is one of them.
LEMMA MinOfPositions ==
  ASSUME NEW S, S \subseteq Nat, S # {}
  PROVE  Min(S) \in S
<1> DEFINE R == OpToRel(<, Nat)
<1>1. \A x, y \in Nat : <<x, y>> \in R <=> x < y
  BY DEF OpToRel
<1>2. IsWellFoundedOn(R, Nat)
  BY NatLessThanWellFounded
<1> HIDE DEF R
<1>3. PICK x \in S : \A y \in S : <<y, x>> \notin R
  BY <1>2, WFMin
<1>4. ASSUME NEW y \in S
      PROVE  x <= y
  <2>1. x \in Nat /\ y \in Nat
    BY <1>4
  <2>2. ~(y < x)
    BY <1>1, <1>3, <1>4, <2>1
  <2> QED
    BY <2>1, <2>2
<1> QED
  BY <1>4 DEF Min

LineMailOps == MailOps \ {"readTrainings", "readParticipants"}
UserOps == HalfwayOps \cup {"readForPassword", "replacePassword"}
CopyOps == {"replacePassword", "replaceEmail"}

\* A call of sendMails is at a row that is left, and has the user it is about.
MailFits(c) ==
  /\ c \in MailCall
  /\ c.rows \subseteq {i \in DOMAIN TrainingRows : HasSheet(TrainingRows[i].code)}
  /\ c.op # "readTrainings" => c.rows # {}
  /\ c.op \in LineMailOps => c.lines # {} /\ c.lines \subseteq 1..Height(RowsSheet(Code(c)))
  /\ c.op \notin LineMailOps => c.lines = {}
  /\ c.op \in UserOps => c.user \in User
  /\ c.op \in CopyOps => c.copy \in User /\ c.copy.id = c.user.id

\* The same for an import, with the documents it needs.
ImportFits(c) ==
  /\ c \in ImportCall
  /\ c.rows \subseteq DOMAIN TrainingRows
  /\ c.op # "readTrainings" => c.rows # {}
  /\ c.op \in HoldingOps => HasSheet(Code(c)) /\ c.training \in Training
  /\ c.op \in LineOps => c.lines # {} /\ c.lines \subseteq 1..Height(RowsSheet(Code(c)))
  /\ c.op \in {"deleteUser", "deleteNamesake", "readBackup"} => c.user \in User
  /\ c.op \in {"findDuplicate", "createUser"} => c.found["school"] \in EntryIds
  /\ c.op = "createTraining" => Missing(c) = {}

AddressFits(c) ==
  c \in AddressCall /\ (c.op = "replaceAddress" => c.copy \in User)

CallFits(c) ==
  \/ MailFits(c)
  \/ ImportFits(c)
  \/ AddressFits(c)
  \/ c \in WriteBackCall
  \/ c \in ReportCall

TypeInv == MigrationTypeOK /\ \A c \in BagToSet(pending) : CallFits(c)

\* The rows of participants of a code are those of a sheet, and there are
\* marks for each of them.
LEMMA RowsSheetIs ==
  ASSUME NEW code \in Codes, HasSheet(code)
  PROVE  /\ RowsSheet(code) \in ToSet(Sheets)
         /\ Height(RowsSheet(code)) <= Height(code)
<1> DEFINE I == {i \in 1..Len(Sheets) : Sheets[i] \in Including[code]}
<1>1. Sheets \in Seq(ToSet(Sheets))
  BY SpreadsheetAssumption
<1>2. code \in Including[code] /\ Height(RowsSheet(code)) <= Height(code)
  BY RowsFit
<1>3. \E i \in 1..Len(Sheets) : Sheets[i] = code
  BY <1>1 DEF HasSheet, ToSet
<1>4. I \subseteq Nat /\ I # {}
  BY <1>2, <1>3
<1>5. Min(I) \in I
  BY <1>4, MinOfPositions
<1>6. SelectInSeq(Sheets, LAMBDA s : s \in Including[code]) = Min(I)
  BY <1>4 DEF SelectInSeq
<1>7. Sheets[Min(I)] \in ToSet(Sheets)
  <2>1. Min(I) \in 1..Len(Sheets)
    BY <1>5
  <2> HIDE DEF I
  <2> QED
    BY <1>1, <2>1
<1> QED
  BY <1>2, <1>6, <1>7 DEF RowsSheet

\* The line a call is at, and the row of its training.
LEMMA AtLineOfSheet ==
  ASSUME NEW c, c.rows \subseteq DOMAIN TrainingRows, c.rows # {}
  PROVE  /\ Min(c.rows) \in c.rows
         /\ TrainingRow(c) \in SheetRow
         /\ Code(c) \in Codes
         /\ HasSheet(Code(c)) =>
              /\ RowsSheet(Code(c)) \in ToSet(Sheets)
              /\ Height(RowsSheet(Code(c))) = Len(Lines[RowsSheet(Code(c))])
              /\ c.lines # {} /\ c.lines \subseteq 1..Height(RowsSheet(Code(c))) =>
                   Min(c.lines) \in c.lines /\ Line(c) \in SheetLine
<1>1. TrainingRows \in Seq(SheetRow)
  BY SpreadsheetAssumption
<1>2. Min(c.rows) \in c.rows
  BY <1>1, MinOfPositions
<1>3. TrainingRow(c) \in SheetRow
  BY <1>1, <1>2 DEF TrainingRow
<1>4. Code(c) \in Codes
  BY <1>3 DEF Code, SheetRow
<1>5. ASSUME HasSheet(Code(c))
      PROVE  /\ RowsSheet(Code(c)) \in ToSet(Sheets)
             /\ Height(RowsSheet(Code(c))) = Len(Lines[RowsSheet(Code(c))])
             /\ Lines[RowsSheet(Code(c))] \in Seq(SheetLine)
  BY <1>4, <1>5, RowsSheetIs, SpreadsheetAssumption DEF Height
<1>6. ASSUME HasSheet(Code(c)), c.lines # {}, c.lines \subseteq 1..Height(RowsSheet(Code(c)))
      PROVE  Min(c.lines) \in c.lines /\ Line(c) \in SheetLine
  <2>1. Min(c.lines) \in c.lines
    BY <1>5, <1>6, MinOfPositions
  <2> QED
    BY <1>5, <1>6, <2>1 DEF Line
<1> QED
  BY <1>2, <1>3, <1>4, <1>5, <1>6
MailRowsOf == {i \in DOMAIN TrainingRows : HasSheet(TrainingRows[i].code)}

\* The marks a job holds, with one more.
LEMMA MarksTyped ==
  ASSUME NEW r \in Results, NEW s, NEW i, NEW mark \in Mark
  PROVE  [r EXCEPT ![s][i] = mark] \in Results
<1>1. \A f \in Seq(Mark) : [f EXCEPT ![i] = mark] \in Seq(Mark)
  <2> SUFFICES ASSUME NEW f \in Seq(Mark)
               PROVE  [f EXCEPT ![i] = mark] \in Seq(Mark)
    OBVIOUS
  <2>1. f \in [1..Len(f) -> Mark] /\ Len(f) \in Nat
    OBVIOUS
  <2>2. [f EXCEPT ![i] = mark] \in [1..Len(f) -> Mark]
    BY <2>1
  <2> QED
    BY <2>1, <2>2
<1> QED
  BY <1>1 DEF Results

\* The walk of sendMails: what follows a row, and what follows a line.
LEMMA MailWalk ==
  ASSUME NEW c \in MailCall, c.rows \subseteq MailRowsOf, NEW mark \in Mark
  PROVE  /\ c.lines = {} => CallFits(AtRow(c))
         /\ CallFits(AfterRow(c))
         /\ c.rows # {} /\ c.lines \subseteq 1..Height(RowsSheet(Code(c))) =>
              CallFits(AtLine(c)) /\ CallFits(AfterLine(c, mark))
<1>1. \A d \in MailCall : d.rows \subseteq MailRowsOf /\ d.lines = {} => CallFits(AtRow(d))
  <2> SUFFICES ASSUME NEW d \in MailCall, d.rows \subseteq MailRowsOf, d.lines = {}
               PROVE  CallFits(AtRow(d))
    OBVIOUS
  <2>1. CASE d.rows = {}
    <3>1. ToWriteBack(d) \in WriteBackCall
      BY DEF ToWriteBack, WriteBackCall, MailCall, Jobs, Column, Results
    <3> QED
      BY <2>1, <3>1 DEF AtRow, CallFits
  <2>2. CASE d.rows # {}
    <3> DEFINE e == [d EXCEPT !.op = "readParticipants"]
    <3>1. e \in MailCall /\ e.rows = d.rows /\ e.lines = {} /\ e.op = "readParticipants"
      BY DEF MailCall, MailOps
    <3>2. AtRow(d) = e
      BY <2>2 DEF AtRow, RowOp, MailCall
    <3> HIDE DEF e
    <3>3. MailFits(e)
      BY <2>2, <3>1 DEF MailFits, LineMailOps, UserOps, HalfwayOps, CopyOps, MailRowsOf
    <3> QED
      BY <3>2, <3>3 DEF CallFits
  <2> QED
    BY <2>1, <2>2
<1>2. \A d \in MailCall : d.rows \subseteq MailRowsOf => CallFits(AfterRow(d))
  <2> SUFFICES ASSUME NEW d \in MailCall, d.rows \subseteq MailRowsOf
               PROVE  CallFits(AfterRow(d))
    OBVIOUS
  <2> DEFINE e == [d EXCEPT !.rows = @ \ {Min(@)}, !.lines = {}]
  <2>1. e \in MailCall /\ e.rows \subseteq MailRowsOf /\ e.lines = {}
    BY DEF MailCall
  <2> HIDE DEF e
  <2>2. CallFits(AtRow(e))
    BY <1>1, <2>1
  <2> QED
    BY <2>2 DEF AfterRow, e
<1>3. \A d \in MailCall :
        /\ d.rows \subseteq MailRowsOf /\ d.rows # {}
        /\ d.lines \subseteq 1..Height(RowsSheet(Code(d)))
        => CallFits(AtLine(d))
  <2> SUFFICES ASSUME NEW d \in MailCall, d.rows \subseteq MailRowsOf, d.rows # {},
                      d.lines \subseteq 1..Height(RowsSheet(Code(d)))
               PROVE  CallFits(AtLine(d))
    OBVIOUS
  <2>1. CASE d.lines = {}
    BY <1>2, <2>1 DEF AtLine
  <2>2. CASE d.lines # {}
    <3> DEFINE e == [d EXCEPT !.op = "readProcessed"]
    <3>1. e \in MailCall /\ e.rows = d.rows /\ e.lines = d.lines /\ e.op = "readProcessed"
      BY DEF MailCall, MailOps
    <3>2. AtLine(d) = e /\ Code(e) = Code(d)
      BY <2>2 DEF AtLine, LineOp, MailCall, Code, TrainingRow
    <3> HIDE DEF e
    <3>3. MailFits(e)
      BY <2>2, <3>1, <3>2 DEF MailFits, LineMailOps, MailOps, UserOps, HalfwayOps, CopyOps, MailRowsOf
    <3> QED
      BY <3>2, <3>3 DEF CallFits
  <2> QED
    BY <2>1, <2>2
<1>4. ASSUME c.rows # {}, c.lines \subseteq 1..Height(RowsSheet(Code(c)))
      PROVE  CallFits(AfterLine(c, mark))
  <2> DEFINE r == [c.results EXCEPT ![Code(c)][Min(c.lines)] = mark]
             d == [[c EXCEPT !.results = r] EXCEPT !.lines = @ \ {Min(@)}]
  <2>1. [MarkLine(c, mark) EXCEPT !.lines = @ \ {Min(@)}] = d
    BY DEF MarkLine, MailCall
  <2>2. r \in Results
    BY MarksTyped DEF MailCall
  <2> HIDE DEF r
  <2>3. d \in MailCall /\ d.rows = c.rows /\ d.lines \subseteq c.lines
    BY <2>2 DEF MailCall
  <2>4. Code(d) = Code(c)
    BY <2>3 DEF Code, TrainingRow
  <2> HIDE DEF d
  <2>5. CallFits(AtLine(d))
    BY <1>3, <1>4, <2>3, <2>4
  <2> QED
    BY <2>1, <2>5 DEF AfterLine
<1> QED
  BY <1>1, <1>2, <1>3, <1>4
\* An import that is at the lines of a training.
HoldsTraining(c) ==
  /\ c.rows # {} /\ HasSheet(Code(c)) /\ c.training \in Training
  /\ c.lines \subseteq 1..Height(RowsSheet(Code(c)))

\* The same walk of an import.
LEMMA ImportWalk ==
  ASSUME NEW c \in ImportCall, c.rows \subseteq DOMAIN TrainingRows, NEW mark \in Mark
  PROVE  /\ CallFits(AtRow(c)) /\ CallFits(AfterRow(c))
         /\ HoldsTraining(c) => CallFits(AtLine(c)) /\ CallFits(AfterLine(c, mark))
<1>1. \A d \in ImportCall : d.rows \subseteq DOMAIN TrainingRows => CallFits(AtRow(d))
  <2> SUFFICES ASSUME NEW d \in ImportCall, d.rows \subseteq DOMAIN TrainingRows
               PROVE  CallFits(AtRow(d))
    OBVIOUS
  <2>1. CASE d.rows = {}
    <3>1. ToWriteBack(d) \in WriteBackCall
      BY DEF ToWriteBack, WriteBackCall, ImportCall, Jobs, Column, Results
    <3> QED
      BY <2>1, <3>1 DEF AtRow, CallFits
  <2>2. CASE d.rows # {}
    <3> DEFINE e == [d EXCEPT !.op = "findTraining"]
    <3>1. e \in ImportCall /\ e.rows = d.rows /\ e.op = "findTraining"
      BY DEF ImportCall, RowOps
    <3>2. AtRow(d) = e
      BY <2>2 DEF AtRow, RowOp, ImportCall
    <3> HIDE DEF e
    <3>3. ImportFits(e)
      BY <2>2, <3>1 DEF ImportFits, HoldingOps, LineOps
    <3> QED
      BY <3>2, <3>3 DEF CallFits
  <2> QED
    BY <2>1, <2>2
<1>2. \A d \in ImportCall : d.rows \subseteq DOMAIN TrainingRows => CallFits(AfterRow(d))
  <2> SUFFICES ASSUME NEW d \in ImportCall, d.rows \subseteq DOMAIN TrainingRows
               PROVE  CallFits(AfterRow(d))
    OBVIOUS
  <2> DEFINE e == [d EXCEPT !.rows = @ \ {Min(@)}, !.lines = {}]
  <2>1. e \in ImportCall /\ e.rows \subseteq DOMAIN TrainingRows
    BY DEF ImportCall
  <2> HIDE DEF e
  <2>2. CallFits(AtRow(e))
    BY <1>1, <2>1
  <2> QED
    BY <2>2 DEF AfterRow, e
<1>3. \A d \in ImportCall :
        d.rows \subseteq DOMAIN TrainingRows /\ HoldsTraining(d) => CallFits(AtLine(d))
  <2> SUFFICES ASSUME NEW d \in ImportCall, d.rows \subseteq DOMAIN TrainingRows,
                      HoldsTraining(d)
               PROVE  CallFits(AtLine(d))
    OBVIOUS
  <2>1. CASE d.lines = {}
    BY <1>2, <2>1 DEF AtLine
  <2>2. CASE d.lines # {}
    <3> DEFINE e == [d EXCEPT !.op = "findProfessor"]
    <3>1. /\ e \in ImportCall /\ e.rows = d.rows /\ e.lines = d.lines
          /\ e.op = "findProfessor" /\ e.training = d.training
      BY DEF ImportCall, LineOps
    <3>2. AtLine(d) = e
      <4>1. LineOp[d.job] = "findProfessor"
        BY DEF LineOp, ImportCall
      <4> QED
        BY <2>2, <4>1 DEF AtLine
    <3> HIDE DEF e
    <3>4. Code(e) = Code(d)
      BY <3>1 DEF Code, TrainingRow
    <3>3. ImportFits(e)
      BY <2>2, <3>1, <3>4 DEF ImportFits, HoldingOps, LineOps, HoldsTraining
    <3> QED
      BY <3>2, <3>3 DEF CallFits
  <2> QED
    BY <2>1, <2>2
<1>4. ASSUME HoldsTraining(c)
      PROVE  CallFits(AfterLine(c, mark))
  <2> DEFINE r == [c.results EXCEPT ![Code(c)][Min(c.lines)] = mark]
             d == [[c EXCEPT !.results = r] EXCEPT !.lines = @ \ {Min(@)}]
  <2>1. [MarkLine(c, mark) EXCEPT !.lines = @ \ {Min(@)}] = d
    BY DEF MarkLine, ImportCall
  <2>2. r \in [SheetNames -> Seq(Mark)]
    BY MarksTyped DEF ImportCall, Results
  <2> HIDE DEF r
  <2>3. d \in ImportCall /\ d.rows = c.rows /\ d.lines \subseteq c.lines /\ d.training = c.training
    BY <2>2 DEF ImportCall
  <2>4. Code(d) = Code(c)
    BY <2>3 DEF Code, TrainingRow
  <2> HIDE DEF d
  <2>5. CallFits(AtLine(d))
    BY <1>3, <1>4, <2>3, <2>4 DEF HoldsTraining
  <2> QED
    BY <2>1, <2>5 DEF AfterLine
<1> QED
  BY <1>1, <1>2, <1>3, <1>4

-----------------------------------------------------------------------------
(* Steps that keep the types. *)

StoreTyped == RegistryTypeOK /\ SpreadsheetTypeOK /\ MailingTypeOK /\ met \subseteq SUBSET Kinds

LEMMA TypeSend ==
  ASSUME TypeInv, NEW call, CallFits(call), Start({call}), StoreTyped'
  PROVE  TypeInv'
<1>1. /\ IsABag(pending')
      /\ BagToSet(pending') = BagToSet(pending) \cup {call}
  BY StartCalls DEF TypeInv, MigrationTypeOK
<1>2. \A c \in BagToSet(pending') : CallFits(c)
  BY <1>1 DEF TypeInv
<1>3. (\A c \in BagToSet(pending) : CallFits(c)) => BagToSet(pending) \subseteq
         MailCall \cup AddressCall \cup ImportCall \cup WriteBackCall \cup ReportCall
  BY DEF CallFits, MailFits, ImportFits, AddressFits
<1>4. BagToSet(pending') \subseteq
         MailCall \cup AddressCall \cup ImportCall \cup WriteBackCall \cup ReportCall
  BY <1>2 DEF CallFits, MailFits, ImportFits, AddressFits
<1> QED
  BY <1>1, <1>2, <1>4 DEF TypeInv, MigrationTypeOK, StoreTyped

LEMMA TypeAnswer ==
  ASSUME TypeInv, NEW c \in BagToSet(pending), NEW new, Continue(c, new),
         \A d \in new : CallFits(d), StoreTyped'
  PROVE  TypeInv'
<1>1. /\ IsABag(pending')
      /\ BagToSet(pending') \subseteq BagToSet(pending) \cup new
  BY ContinueCalls DEF TypeInv, MigrationTypeOK
<1>2. \A d \in BagToSet(pending') : CallFits(d)
  BY <1>1 DEF TypeInv
<1>3. BagToSet(pending') \subseteq
         MailCall \cup AddressCall \cup ImportCall \cup WriteBackCall \cup ReportCall
  BY <1>2 DEF CallFits, MailFits, ImportFits, AddressFits
<1> QED
  BY <1>1, <1>2, <1>3 DEF TypeInv, MigrationTypeOK, StoreTyped

\* What a call can be by its operation and its job.
LEMMA CallIs ==
  ASSUME TypeInv, NEW c \in BagToSet(pending)
  PROVE  /\ CallFits(c)
         /\ c.op \in LineMailOps => MailFits(c)
         /\ c.op \in LineOps \cup RowOps => ImportFits(c)
         /\ c.op \in {"readTrainings", "readParticipants"} =>
              (c.job = "mails" /\ MailFits(c)) \/ (c.job = "import" /\ ImportFits(c))
         /\ c.op \in {"listUsers", "writeUsers", "readUser", "replaceAddress"} => AddressFits(c)
         /\ c.op = "writeBack" => c \in WriteBackCall
         /\ c.job = "mails" /\ c.op # "writeBack" => MailFits(c)
         /\ c.job = "import" /\ c.op # "writeBack" => ImportFits(c)
         /\ c.job = "addresses" => AddressFits(c)
         /\ c.job = "report" => c \in ReportCall
         /\ c.job \in {"mails", "import", "addresses", "report"}
<1>1. CallFits(c)
  BY DEF TypeInv
<1>2. CASE MailFits(c)
  <2>1. c.job = "mails" /\ c.op \in MailOps
    BY <1>2 DEF MailFits, MailCall
  <2> QED
    BY <1>1, <1>2, <2>1 DEF MailOps, LineMailOps, LineOps, RowOps
<1>3. CASE ImportFits(c)
  BY <1>1, <1>3 DEF ImportFits, ImportCall, LineMailOps, MailOps, LineOps, RowOps
<1>4. CASE AddressFits(c)
  BY <1>1, <1>4 DEF AddressFits, AddressCall, LineMailOps, MailOps, LineOps, RowOps
<1>5. CASE c \in WriteBackCall
  BY <1>1, <1>5 DEF WriteBackCall, LineMailOps, MailOps, LineOps, RowOps, Jobs, Column
<1>6. CASE c \in ReportCall
  BY <1>1, <1>6 DEF ReportCall, LineMailOps, MailOps, LineOps, RowOps
<1> QED
  BY <1>1, <1>2, <1>3, <1>4, <1>5, <1>6 DEF CallFits
\* The marks read from a sheet, some of them changed.
LEMMA ReadMarks ==
  ASSUME SpreadsheetTypeOK, NEW s \in SheetNames, NEW col \in {"Estado", "EmailSent"},
         NEW g, \A i \in DOMAIN marks[s][col] : g[i] \in Mark,
         g = [i \in DOMAIN marks[s][col] |-> g[i]],
         NEW r \in Results, NEW at
  PROVE  [r EXCEPT ![at] = g] \in Results
<1>1. marks[s][col] \in Seq(Mark)
  BY DEF SpreadsheetTypeOK
<1>2. DOMAIN marks[s][col] = 1..Len(marks[s][col]) /\ Len(marks[s][col]) \in Nat
  BY <1>1
<1>3. g \in [1..Len(marks[s][col]) -> Mark]
  BY <1>2
<1>4. g \in Seq(Mark)
  BY <1>2, <1>3
<1> QED
  BY <1>4 DEF Results

\* The end of a line of the mails.
LEMMA EndMailTyped ==
  ASSUME TypeInv, NEW c \in BagToSet(pending), MailFits(c), c.op \in LineMailOps,
         NEW mark \in Mark, EndMail(c, mark), StoreTyped'
  PROVE  TypeInv'
<1> DEFINE d == [c EXCEPT !.user = None, !.copy = None, !.list = {}, !.password = 0]
           next == AfterLine(d, mark)
<1>1. Continue(c, {next})
  BY DEF EndMail
<1>2. /\ d \in MailCall /\ d.rows = c.rows /\ d.lines = c.lines
      /\ c.rows \subseteq MailRowsOf /\ c.rows # {}
      /\ c.lines \subseteq 1..Height(RowsSheet(Code(c)))
  BY DEF MailFits, MailCall, MailRowsOf, LineMailOps
<1> HIDE DEF d
<1>3. Code(d) = Code(c)
  BY <1>2 DEF Code, TrainingRow
<1>4. CallFits(next)
  BY <1>2, <1>3, MailWalk
<1> HIDE DEF next
<1> QED
  BY <1>1, <1>4, TypeAnswer

\* The next call for a line of the mails.
LEMMA NextMailTyped ==
  ASSUME TypeInv, NEW c \in BagToSet(pending), MailFits(c), c.op \in LineMailOps,
         NEW d, Continue(c, {d}), StoreTyped',
         d \in MailCall, d.op \in LineMailOps, d.rows = c.rows, d.lines = c.lines,
         d.op \in UserOps => d.user \in User,
         d.op \in CopyOps => d.copy \in User /\ d.copy.id = d.user.id
  PROVE  TypeInv'
<1>1. Code(d) = Code(c)
  BY DEF Code, TrainingRow
<1>2. MailFits(d)
  BY <1>1 DEF MailFits, LineMailOps
<1> QED
  BY <1>2, TypeAnswer DEF CallFits

LEMMA MailRowsTyped ==
  ASSUME TypeInv, NEW c \in BagToSet(pending), ReadMailRows(c), StoreTyped'
  PROVE  TypeInv'
<1>1. MailFits(c) /\ c.op = "readTrainings"
  BY CallIs DEF ReadMailRows, ImportFits, ImportCall
<1>2. CASE Continue(c, {})
  BY <1>2, TypeAnswer
<1>3. CASE ~Continue(c, {})
  <2> DEFINE seen == marks[FirstSheet]["EmailSent"]
             open == {i \in DOMAIN TrainingRows : ~Done(seen[i]) /\ HasSheet(TrainingRows[i].code)}
             marked == [i \in DOMAIN seen |-> IF seen[i] = "paused" THEN "paused" ELSE "success"]
             r == [c.results EXCEPT ![FirstSheet] = marked]
             d == [[c EXCEPT !.rows = open] EXCEPT !.results = r]
  <2>1. Continue(c, {AtRow([c EXCEPT !.rows = open, !.results[FirstSheet] = marked])})
    BY <1>3 DEF ReadMailRows
  <2>2. [c EXCEPT !.rows = open, !.results[FirstSheet] = marked] = d
    BY <1>1 DEF MailFits, MailCall
  <2>3. r \in Results
    <3>1. \A i \in DOMAIN seen : marked[i] \in Mark
      BY DEF Mark
    <3>2. FirstSheet \in SheetNames /\ c.results \in Results
      BY <1>1 DEF SheetNames, MailFits, MailCall
    <3>3. marked = [i \in DOMAIN seen |-> marked[i]]
      OBVIOUS
    <3>4. SpreadsheetTypeOK
      BY DEF TypeInv, MigrationTypeOK
    <3> HIDE DEF marked
    <3> QED
      BY <3>1, <3>2, <3>3, <3>4, ReadMarks
  <2>4. open \subseteq MailRowsOf /\ open \subseteq Nat
    <3>1. DOMAIN TrainingRows \subseteq Nat
      BY SpreadsheetAssumption
    <3> QED
      BY <3>1 DEF MailRowsOf
  <2> HIDE DEF r, open
  <2>5. d \in MailCall /\ d.rows \subseteq MailRowsOf /\ d.lines = {}
    BY <1>1, <2>3, <2>4 DEF MailFits, MailCall, LineMailOps
  <2> HIDE DEF d
  <2>6. CallFits(AtRow(d))
    BY <2>5, MailWalk DEF Mark
  <2>7. Continue(c, {AtRow(d)})
    BY <2>1, <2>2
  <2> QED
    BY <2>6, <2>7, TypeAnswer
<1> QED
  BY <1>2, <1>3
\* The lines of a sheet are read, by either job.
LEMMA LinesTyped ==
  ASSUME TypeInv, NEW c \in BagToSet(pending), ReadMailLines(c) \/ ReadImportLines(c),
         StoreTyped'
  PROVE  TypeInv'
<1>1. /\ c.op = "readParticipants"
      /\ (c.job = "mails" /\ MailFits(c)) \/ (c.job = "import" /\ ImportFits(c))
      /\ c.op # "writeBack"
  BY CallIs DEF ReadMailLines, ReadImportLines, ReadParticipants
<1>2. HasSheet(Code(c)) /\ c.rows \subseteq DOMAIN TrainingRows /\ c.rows # {}
  <2>1. CASE MailFits(c)
    <3>1. Min(c.rows) \in c.rows /\ c.rows # {}
      BY <1>1, <2>1, AtLineOfSheet DEF MailFits
    <3> QED
      BY <2>1, <3>1 DEF MailFits, Code, TrainingRow
  <2>2. CASE ImportFits(c)
    BY <1>1, <2>2 DEF ImportFits, HoldingOps
  <2> QED
    BY <1>1, <2>1, <2>2
<1> DEFINE sheet == RowsSheet(Code(c))
           seen == marks[sheet][Column[c.job]]
<1>3. sheet \in SheetNames /\ Column[c.job] \in {"Estado", "EmailSent"} /\ SpreadsheetTypeOK
  BY <1>1, <1>2, AtLineOfSheet DEF SheetNames, Column, TypeInv, MigrationTypeOK
<1>4. ASSUME NEW refused, NEW errors, errors = [i \in DOMAIN seen |->
                   IF ~Done(seen[i]) /\ refused[i] THEN "error" ELSE seen[i]],
             NEW open \in SUBSET (1..Height(sheet))
      PROVE  CallFits(AtLine([c EXCEPT !.results[Code(c)] = errors, !.lines = open]))
  <2> DEFINE r == [c.results EXCEPT ![Code(c)] = errors]
             d == [[c EXCEPT !.results = r] EXCEPT !.lines = open]
  <2>1. [c EXCEPT !.results[Code(c)] = errors, !.lines = open] = d
    BY <1>1 DEF MailFits, ImportFits, MailCall, ImportCall
  <2>2. r \in Results
    <3>1. seen \in Seq(Mark)
      BY <1>3 DEF SpreadsheetTypeOK
    <3>2. \A i \in DOMAIN seen : errors[i] \in Mark
      BY <1>4, <3>1 DEF Mark
    <3>3. errors = [i \in DOMAIN seen |-> errors[i]]
      BY <1>4
    <3>4. c.results \in Results
      BY <1>1 DEF MailFits, ImportFits, MailCall, ImportCall, Results
    <3> QED
      BY <1>3, <3>2, <3>3, <3>4, ReadMarks
  <2>3. open \in SUBSET Nat
    <3>1. Height(sheet) \in Nat
      BY <1>2, AtLineOfSheet, SpreadsheetAssumption
    <3> QED
      BY <3>1
  <2> HIDE DEF r
  <2>4. d.rows = c.rows /\ d.lines = open
    BY <1>1 DEF MailFits, ImportFits, MailCall, ImportCall
  <2>5. CASE MailFits(c)
    <3>1. d \in MailCall /\ c.rows \subseteq MailRowsOf
      BY <2>2, <2>3, <2>5 DEF MailFits, MailCall, MailRowsOf
    <3> HIDE DEF d
    <3>2. Code(d) = Code(c)
      BY <2>4 DEF Code, TrainingRow
    <3>3. CallFits(AtLine(d))
      BY <1>2, <2>4, <3>1, <3>2, MailWalk DEF Mark
    <3> QED
      BY <2>1, <3>3
  <2>6. CASE ImportFits(c)
    <3>1. d \in ImportCall /\ d.training = c.training /\ c.training \in Training
      BY <1>1, <2>2, <2>3, <2>6 DEF ImportFits, ImportCall, Results, HoldingOps
    <3> HIDE DEF d
    <3>2. Code(d) = Code(c)
      BY <2>4 DEF Code, TrainingRow
    <3>3. HoldsTraining(d)
      BY <1>2, <2>4, <3>1, <3>2 DEF HoldsTraining
    <3>4. CallFits(AtLine(d))
      BY <1>2, <2>4, <3>1, <3>3, ImportWalk DEF Mark
    <3> QED
      BY <2>1, <3>4
  <2> QED
    BY <1>1, <2>5, <2>6
<1>5. \/ Continue(c, {})
      \/ \E refused, errors : \E open \in SUBSET (1..Height(sheet)) :
           /\ errors = [i \in DOMAIN seen |->
                   IF ~Done(seen[i]) /\ refused[i] THEN "error" ELSE seen[i]]
           /\ Continue(c, {AtLine([c EXCEPT !.results[Code(c)] = errors, !.lines = open])})
  <2>1. CASE ReadMailLines(c)
    <3> DEFINE refused == [i \in DOMAIN seen |-> FALSE]
               errors == [i \in DOMAIN seen |->
                   IF ~Done(seen[i]) /\ FALSE THEN "error" ELSE seen[i]]
               open == {i \in 1..Height(sheet) : ~Done(seen[i]) /\ ~FALSE}
    <3>1. Continue(c, IF Column[c.job] \notin Columns[sheet] THEN {}
            ELSE {AtLine([c EXCEPT !.results[Code(c)] = errors, !.lines = open])})
      BY <2>1 DEF ReadMailLines, ReadParticipants
    <3>2. errors = [i \in DOMAIN seen |->
                   IF ~Done(seen[i]) /\ refused[i] THEN "error" ELSE seen[i]]
      OBVIOUS
    <3>3. open \in SUBSET (1..Height(sheet))
      OBVIOUS
    <3> HIDE DEF refused, errors, open
    <3> QED
      BY <3>1, <3>2, <3>3
  <2>2. CASE ReadImportLines(c)
    <3> DEFINE refused == [i \in DOMAIN seen |-> Lines[sheet][i].fault \in {"fields", "document"}]
               errors == [i \in DOMAIN seen |->
                   IF ~Done(seen[i]) /\ Lines[sheet][i].fault \in {"fields", "document"}
                   THEN "error" ELSE seen[i]]
               open == {i \in 1..Height(sheet) :
                          ~Done(seen[i]) /\ ~(Lines[sheet][i].fault \in {"fields", "document"})}
    <3>1. Continue(c, IF Column[c.job] \notin Columns[sheet] THEN {}
            ELSE {AtLine([c EXCEPT !.results[Code(c)] = errors, !.lines = open])})
      BY <2>2 DEF ReadImportLines, ReadParticipants
    <3>2. errors = [i \in DOMAIN seen |->
                   IF ~Done(seen[i]) /\ refused[i] THEN "error" ELSE seen[i]]
      OBVIOUS
    <3>3. open \in SUBSET (1..Height(sheet))
      OBVIOUS
    <3> HIDE DEF refused, errors, open
    <3> QED
      BY <3>1, <3>2, <3>3
  <2> QED
    BY <2>1, <2>2
<1>6. ASSUME NEW d, CallFits(d), Continue(c, {d})
      PROVE  TypeInv'
  BY <1>6, TypeAnswer
<1>7. CASE Continue(c, {})
  BY <1>7, TypeAnswer
<1> HIDE DEF sheet, seen
<1>8. CASE ~Continue(c, {})
  <2>1. PICK refused, errors, open :
          /\ open \in SUBSET (1..Height(sheet))
          /\ errors = [i \in DOMAIN seen |->
                   IF ~Done(seen[i]) /\ refused[i] THEN "error" ELSE seen[i]]
          /\ Continue(c, {AtLine([c EXCEPT !.results[Code(c)] = errors, !.lines = open])})
    BY <1>5, <1>8
  <2>2. CallFits(AtLine([c EXCEPT !.results[Code(c)] = errors, !.lines = open]))
    BY <1>4, <2>1
  <2> QED
    BY <1>6, <2>1, <2>2
<1> QED
  BY <1>7, <1>8

\* A user that is replaced by one of the same type.
LEMMA ReplacedUsers ==
  ASSUME NEW S, S \subseteq User, \A u, v \in S : u.id = v.id => u = v, NEW w \in User
  PROVE  /\ Replaced(S, w) \subseteq User
         /\ \A u, v \in Replaced(S, w) : u.id = v.id => u = v
BY DEF Replaced

LEMMA StoreKept ==
  ASSUME TypeInv, UNCHANGED <<registryVars, mailingVars, marks, met>>
  PROVE  StoreTyped'
BY DEF TypeInv, MigrationTypeOK, StoreTyped, registryVars, mailingVars,
       RegistryTypeOK, SpreadsheetTypeOK, MailingTypeOK
\* What the mails may change of the stored documents and of their own.
LEMMA MailStore ==
  ASSUME TypeInv, UNCHANGED <<trainings, catalogue, removed, marks, met>>,
         users' \subseteq User, \A u, v \in users' : u.id = v.id => u = v,
         backup' \in BOOLEAN, MailingTypeOK'
  PROVE  StoreTyped'
BY DEF TypeInv, MigrationTypeOK, StoreTyped, RegistryTypeOK, SpreadsheetTypeOK

LEMMA MailChecksTyped ==
  ASSUME TypeInv, NEW c \in BagToSet(pending),
         UNCHANGED <<registryVars, marks, met>>,
         ReadProcessed(c) \/ FindAddress(c) \/ FindDocument(c)
  PROVE  TypeInv'
<1>1. MailFits(c) /\ c.op \in LineMailOps /\ c \in MailCall
  <2>1. c.op \in LineMailOps
    BY DEF ReadProcessed, FindAddress, FindDocument, LineMailOps, MailOps
  <2> QED
    BY <2>1, CallIs DEF MailFits
<1>2. users \subseteq User /\ \A u, v \in users : u.id = v.id => u = v
  BY DEF TypeInv, MigrationTypeOK, RegistryTypeOK
<1>3. MailingTypeOK /\ backup \in BOOLEAN
  BY DEF TypeInv, MigrationTypeOK, RegistryTypeOK
<1>4. UNCHANGED <<users, trainings, catalogue, removed, backup, marks, met>>
  BY DEF registryVars
<1>5. MailingTypeOK' => StoreTyped'
  BY <1>2, <1>3, <1>4, MailStore
<1>6. {"error", "success"} \subseteq Mark /\ {"findAddress", "findDocument", "readForPassword"} \subseteq LineMailOps
  BY DEF Mark, LineMailOps, MailOps
<1>7. <<RowsSheet(Code(c)), Min(c.lines)>> \in ToSet(Sheets) \X Nat
  <2>1. /\ c.rows \subseteq DOMAIN TrainingRows /\ c.rows # {} /\ c.lines # {}
        /\ c.lines \subseteq 1..Height(RowsSheet(Code(c))) /\ c.lines \subseteq Nat
    BY <1>1 DEF MailFits, LineMailOps, MailCall
  <2>2. Min(c.rows) \in c.rows
    BY <2>1, AtLineOfSheet
  <2>3. HasSheet(Code(c))
    BY <1>1, <2>2 DEF MailFits, Code, TrainingRow
  <2> QED
    BY <2>1, <2>3, AtLineOfSheet
<1>8. CASE ReadProcessed(c)
  <2>1. StoreTyped'
    BY <1>3, <1>5, <1>8 DEF ReadProcessed, mailingVars, MailingTypeOK
  <2>2. CASE EndMail(c, "error")
    BY <1>1, <1>6, <2>1, <2>2, EndMailTyped
  <2>3. CASE Continue(c, {[c EXCEPT !.op = "findAddress", !.list = processed]})
    <3> DEFINE d == [c EXCEPT !.op = "findAddress", !.list = processed]
    <3>1. /\ d \in MailCall /\ d.op = "findAddress" /\ d.rows = c.rows /\ d.lines = c.lines
      BY <1>1, <1>3 DEF MailCall, MailOps, MailingTypeOK
    <3>2. Continue(c, {d}) /\ d.op \notin UserOps /\ d.op \notin CopyOps
      BY <2>3, <3>1 DEF UserOps, CopyOps, HalfwayOps
    <3> HIDE DEF d
    <3> QED
      BY <1>1, <1>6, <2>1, <3>1, <3>2, NextMailTyped
  <2> QED
    BY <1>8, <2>2, <2>3 DEF ReadProcessed
<1>9. CASE FindAddress(c)
  <2>1. MailingTypeOK'
    BY <1>3, <1>7, <1>9 DEF FindAddress, NoMailDue, MailingTypeOK
  <2>2. CASE EndMail(c, "success")
    BY <1>1, <1>5, <1>6, <2>1, <2>2, EndMailTyped
  <2>3. CASE Continue(c, {[c EXCEPT !.op = "findDocument"]})
    <3> DEFINE d == [c EXCEPT !.op = "findDocument"]
    <3>1. /\ d \in MailCall /\ d.op = "findDocument" /\ d.rows = c.rows /\ d.lines = c.lines
      BY <1>1 DEF MailCall, MailOps
    <3>2. Continue(c, {d}) /\ d.op \notin UserOps /\ d.op \notin CopyOps
      BY <2>3, <3>1 DEF UserOps, CopyOps, HalfwayOps
    <3> HIDE DEF d
    <3> QED
      BY <1>1, <1>5, <1>6, <2>1, <3>1, <3>2, NextMailTyped
  <2> QED
    BY <1>9, <2>2, <2>3 DEF FindAddress, NoMailDue
<1>10. CASE FindDocument(c)
  <2>1. MailingTypeOK'
    <3>1. /\ UNCHANGED <<processed, readable, mails, halfway>>
          /\ issued' = issued \/ issued' = issued + 1
          /\ \/ excused' = excused
             \/ excused' = excused \cup {<<RowsSheet(Code(c)), Min(c.lines)>>}
      BY <1>10 DEF FindDocument, NoMailDue
    <3> QED
      BY <1>3, <1>7, <3>1 DEF MailingTypeOK
  <2>2. CASE \E mark \in {"success", "error"} : EndMail(c, mark)
    BY <1>1, <1>5, <1>6, <2>1, <2>2, EndMailTyped
  <2>3. ASSUME NEW user \in users,
               Continue(c, {[c EXCEPT !.op = "readForPassword", !.user = user,
                                      !.list = {}, !.password = issued']})
        PROVE  TypeInv'
    <3> DEFINE d == [c EXCEPT !.op = "readForPassword", !.user = user,
                              !.list = {}, !.password = issued']
    <3>1. issued' \in Nat /\ user \in User
      BY <1>2, <2>1 DEF MailingTypeOK
    <3>2. /\ d \in MailCall /\ d.op = "readForPassword" /\ d.rows = c.rows /\ d.lines = c.lines
          /\ d.user = user
      BY <1>1, <3>1 DEF MailCall, MailOps
    <3>3. Continue(c, {d}) /\ d.op \notin CopyOps
      BY <2>3, <3>2 DEF CopyOps
    <3> HIDE DEF d
    <3> QED
      BY <1>1, <1>5, <1>6, <2>1, <3>1, <3>2, <3>3, NextMailTyped
  <2> QED
    BY <1>10, <2>2, <2>3 DEF FindDocument, NoMailDue, WithDocument
<1> QED
  BY <1>8, <1>9, <1>10

LEMMA MailUsersTyped ==
  ASSUME TypeInv, NEW c \in BagToSet(pending),
         UNCHANGED <<trainings, catalogue, removed, backup, marks, met>>,
         \/ ReadForPassword(c) \/ ReplacePassword(c) \/ ReadForEmail(c) \/ ReplaceEmail(c)
  PROVE  TypeInv'
<1>1. c.op \in UserOps /\ c.op \in LineMailOps
  BY DEF ReadForPassword, ReplacePassword, ReadForEmail, ReplaceEmail, ReadUserFor, LineMailOps,
         MailOps, UserOps, HalfwayOps
<1>2. MailFits(c) /\ c \in MailCall /\ c.user \in User /\ c.user.id \in UserIds
  BY <1>1, CallIs DEF MailFits, User
<1>3. users \subseteq User /\ (\A u, v \in users : u.id = v.id => u = v) /\ backup \in BOOLEAN
  BY DEF TypeInv, MigrationTypeOK, RegistryTypeOK
<1>4. MailingTypeOK'
  BY <1>2 DEF ReadForPassword, ReplacePassword, ReadForEmail, ReplaceEmail, mailingVars,
              MailingTypeOK, TypeInv, MigrationTypeOK
<1>5. users' = users => StoreTyped'
  BY <1>3, <1>4, MailStore
<1>6. ASSUME NEW w \in User, users' = Replaced(users, w)
      PROVE  StoreTyped'
  BY <1>3, <1>4, <1>6, ReplacedUsers, MailStore
<1>7. "error" \in Mark
  BY DEF Mark
<1>8. ASSUME NEW next \in CopyOps, ReadUserFor(c, c.op, next), users' = users
      PROVE  TypeInv'
  <2>1. CASE EndMail(c, "error")
    BY <1>1, <1>2, <1>5, <1>7, <1>8, <2>1, EndMailTyped
  <2>2. ASSUME NEW u \in WithId(c.user.id), Continue(c, {[c EXCEPT !.op = next, !.copy = u]})
        PROVE  TypeInv'
    <3> DEFINE d == [c EXCEPT !.op = next, !.copy = u]
    <3>1. u \in User /\ u.id = c.user.id
      BY <1>3 DEF WithId
    <3>2. next \in MailOps /\ next \in LineMailOps
      BY DEF CopyOps, MailOps, LineMailOps
    <3>3. /\ d \in MailCall /\ d.op = next /\ d.rows = c.rows /\ d.lines = c.lines
          /\ d.user = c.user /\ d.copy = u
      BY <1>2, <3>1, <3>2 DEF MailCall
    <3>4. Continue(c, {d})
      BY <2>2
    <3> HIDE DEF d
    <3> QED
      BY <1>1, <1>2, <1>5, <1>8, <3>1, <3>2, <3>3, <3>4, NextMailTyped
  <2> QED
    BY <1>8, <2>1, <2>2 DEF ReadUserFor
<1>9. CASE ReadForPassword(c)
  BY <1>8, <1>9 DEF ReadForPassword, ReadUserFor, CopyOps
<1>10. CASE ReadForEmail(c)
  BY <1>8, <1>10 DEF ReadForEmail, ReadUserFor, CopyOps
<1>11. ASSUME NEW next \in {"readForEmail", "sendMail"},
              Continue(c, {[c EXCEPT !.op = next, !.copy = None]}), StoreTyped'
       PROVE  TypeInv'
  <2> DEFINE d == [c EXCEPT !.op = next, !.copy = None]
  <2>1. /\ d \in MailCall /\ d.op = next /\ d.rows = c.rows /\ d.lines = c.lines
        /\ d.user = c.user
    BY <1>2 DEF MailCall, MailOps
  <2>2. Continue(c, {d}) /\ next \in LineMailOps /\ next \notin CopyOps
    BY <1>11 DEF LineMailOps, MailOps, CopyOps
  <2> HIDE DEF d
  <2> QED
    BY <1>1, <1>2, <1>11, <2>1, <2>2, NextMailTyped
<1>12. CASE ReplacePassword(c)
  <2>1. CASE WithId(c.user.id) = {}
    BY <1>1, <1>2, <1>5, <1>7, <1>12, <2>1, EndMailTyped DEF ReplacePassword
  <2>2. CASE WithId(c.user.id) # {}
    <3>1. c.copy \in User /\ c.password \in Nat
      BY <1>2, <1>12 DEF MailFits, MailCall, CopyOps, ReplacePassword
    <3>2. WithNewPassword(c) \in User
      BY <3>1 DEF WithNewPassword, User
    <3>3. StoreTyped'
      BY <1>6, <1>12, <2>2, <3>2 DEF ReplacePassword
    <3> QED
      BY <1>11, <1>12, <2>2, <3>3 DEF ReplacePassword
  <2> QED
    BY <2>1, <2>2
<1>13. CASE ReplaceEmail(c)
  <2>1. CASE WithId(c.user.id) = {}
    BY <1>1, <1>2, <1>5, <1>7, <1>13, <2>1, EndMailTyped DEF ReplaceEmail
  <2>2. CASE WithId(c.user.id) # {}
    <3> DEFINE w == [c.copy EXCEPT !.email = [address |-> Misplaced, form |-> "digits"]]
    <3>1. c.copy \in User
      BY <1>2, <1>13 DEF MailFits, MailCall, CopyOps, ReplaceEmail
    <3>2. w \in User
      BY <3>1 DEF User, Email
    <3>3. users' = Replaced(users, w)
      BY <1>13, <2>2 DEF ReplaceEmail
    <3> HIDE DEF w
    <3>4. StoreTyped'
      BY <1>6, <3>2, <3>3
    <3> QED
      BY <1>11, <1>13, <2>2, <3>4 DEF ReplaceEmail
  <2> QED
    BY <2>1, <2>2
<1> QED
  BY <1>9, <1>10, <1>12, <1>13

LEMMA MailSentTyped ==
  ASSUME TypeInv, NEW c \in BagToSet(pending),
         UNCHANGED <<trainings, catalogue, removed, backup, marks, met>>,
         SendMail(c) \/ ReadForAppend(c) \/ WriteAppend(c)
  PROVE  TypeInv'
<1>1. c.op \in UserOps /\ c.op \in LineMailOps
  BY DEF SendMail, ReadForAppend, WriteAppend, LineMailOps, MailOps, UserOps, HalfwayOps
<1>2. MailFits(c) /\ c \in MailCall /\ c.user \in User /\ c.user.id \in UserIds
  BY <1>1, CallIs DEF MailFits, User
<1>3. users \subseteq User /\ (\A u, v \in users : u.id = v.id => u = v) /\ backup \in BOOLEAN
  BY DEF TypeInv, MigrationTypeOK, RegistryTypeOK
<1>4. users' = users /\ (MailingTypeOK' => StoreTyped')
  BY <1>3, MailStore DEF SendMail, ReadForAppend, WriteAppend
<1>5. processed \subseteq UserIds /\ MailingTypeOK
  BY DEF TypeInv, MigrationTypeOK, MailingTypeOK
<1>6. CASE SendMail(c)
  <2> DEFINE d == [c EXCEPT !.op = "readForAppend"]
             mail == [user |-> c.user.id, document |-> c.user.document,
                      password |-> c.password, to |-> c.user.email]
  <2>1. mail \in Mail
    BY <1>2 DEF Mail, User, MailCall
  <2>2. mails' = mails \cup {mail}
    BY <1>6 DEF SendMail
  <2> HIDE DEF mail
  <2>3. StoreTyped'
    BY <1>4, <1>5, <1>6, <2>1, <2>2 DEF SendMail, MailingTypeOK
  <2>4. /\ d \in MailCall /\ d.op = "readForAppend" /\ d.rows = c.rows /\ d.lines = c.lines
        /\ d.user = c.user
    BY <1>2 DEF MailCall, MailOps
  <2>5. Continue(c, {d}) /\ d.op \in LineMailOps /\ d.op \notin CopyOps
    BY <1>6, <2>4 DEF SendMail, LineMailOps, MailOps, CopyOps
  <2> HIDE DEF d
  <2> QED
    BY <1>1, <1>2, <2>3, <2>4, <2>5, NextMailTyped
<1>7. CASE ReadForAppend(c)
  <2> DEFINE d == [c EXCEPT !.op = "writeAppend", !.list = processed]
  <2>1. StoreTyped'
    BY <1>4, <1>5, <1>7 DEF ReadForAppend, mailingVars, MailingTypeOK
  <2>2. /\ d \in MailCall /\ d.op = "writeAppend" /\ d.rows = c.rows /\ d.lines = c.lines
        /\ d.user = c.user
    BY <1>2, <1>5 DEF MailCall, MailOps
  <2>3. Continue(c, {d}) /\ d.op \in LineMailOps /\ d.op \notin CopyOps
    BY <1>7, <2>2 DEF ReadForAppend, LineMailOps, MailOps, CopyOps
  <2> HIDE DEF d
  <2> QED
    BY <1>1, <1>2, <2>1, <2>2, <2>3, NextMailTyped
<1>8. CASE WriteAppend(c)
  <2>1. processed' \subseteq UserIds
    BY <1>2, <1>8 DEF WriteAppend, MailCall
  <2>2. StoreTyped'
    BY <1>4, <1>5, <1>8, <2>1 DEF WriteAppend, MailingTypeOK
  <2> QED
    BY <1>1, <1>2, <1>8, <2>2, EndMailTyped DEF WriteAppend, Mark
<1> QED
  BY <1>6, <1>7, <1>8

LEMMA AddressTyped ==
  ASSUME TypeInv, NEW c \in BagToSet(pending),
         UNCHANGED <<trainings, catalogue, removed, marks, met>>,
         \/ (ListUsers(c) \/ ReadUser(c) \/ ReplaceAddress(c)) /\ UNCHANGED backup
         \/ WriteUsers(c)
  PROVE  TypeInv'
<1>1. c \in AddressCall /\ (c.op = "replaceAddress" => c.copy \in User)
  BY CallIs DEF ListUsers, WriteUsers, ReadUser, ReplaceAddress, AddressFits
<1>2. users \subseteq User /\ (\A u, v \in users : u.id = v.id => u = v) /\ backup' \in BOOLEAN
  BY DEF TypeInv, MigrationTypeOK, RegistryTypeOK, WriteUsers
<1>3. MailingTypeOK'
  BY DEF ListUsers, WriteUsers, ReadUser, ReplaceAddress, mailingVars, MailingTypeOK, TypeInv,
         MigrationTypeOK
<1>4. users' = users => StoreTyped'
  BY <1>2, <1>3, MailStore
<1>5. \A d \in AddressCall : \A e \in AtUser(d) : CallFits(e)
  BY DEF AtUser, AddressCall, CallFits, AddressFits
<1>6. ASSUME NEW d \in AddressCall, Continue(c, {d}), d.op = "replaceAddress" => d.copy \in User,
             StoreTyped'
      PROVE  TypeInv'
  BY <1>6, TypeAnswer DEF CallFits, AddressFits
<1>7. CASE Continue(c, {}) /\ users' = users
  BY <1>4, <1>7, TypeAnswer
<1>8. CASE ListUsers(c)
  <2> DEFINE left == {[id |-> u.id, email |-> Normal(u.email)] :
                        u \in {v \in users : v.email # Normal(v.email)}}
             d == [c EXCEPT !.op = "writeUsers", !.left = left]
  <2>1. \A e \in Email : Normal(e) \in Email
    BY DEF Normal, Email
  <2>2. left \subseteq [id : UserIds, email : Email]
    BY <1>2, <2>1 DEF User
  <2>3. Continue(c, {d})
    BY <1>8 DEF ListUsers
  <2> HIDE DEF left
  <2>4. d \in AddressCall /\ d.op = "writeUsers"
    BY <1>1, <2>2 DEF AddressCall
  <2> HIDE DEF d
  <2> QED
    BY <1>4, <1>6, <1>8, <2>3, <2>4 DEF ListUsers
<1>9. CASE WriteUsers(c)
  <2>1. Continue(c, AtUser(c)) /\ StoreTyped'
    BY <1>4, <1>9 DEF WriteUsers
  <2> QED
    BY <1>1, <1>5, <2>1, TypeAnswer
<1>10. CASE ReadUser(c)
  <2>1. ASSUME NEW w \in c.left, NEW u \in WithId(w.id),
               Continue(c, {[c EXCEPT !.op = "replaceAddress", !.left = @ \ {w},
                                      !.copy = [u EXCEPT !.email = w.email]]})
        PROVE  TypeInv'
    <3> DEFINE d == [c EXCEPT !.op = "replaceAddress", !.left = @ \ {w},
                              !.copy = [u EXCEPT !.email = w.email]]
    <3>1. [u EXCEPT !.email = w.email] \in User
      BY <1>1, <1>2 DEF WithId, User, AddressCall
    <3>2. d \in AddressCall /\ d.copy \in User
      BY <1>1, <3>1 DEF AddressCall
    <3>3. Continue(c, {d}) /\ StoreTyped'
      BY <1>4, <1>10, <2>1 DEF ReadUser
    <3> HIDE DEF d
    <3> QED
      BY <1>6, <3>2, <3>3
  <2> QED
    BY <1>7, <1>10, <2>1 DEF ReadUser
<1>11. CASE ReplaceAddress(c)
  <2>1. CASE WithId(c.copy.id) = {}
    BY <1>7, <1>11, <2>1 DEF ReplaceAddress
  <2>2. CASE WithId(c.copy.id) # {}
    <3> DEFINE d == [c EXCEPT !.copy = None]
    <3>1. c.copy \in User
      BY <1>1, <1>11 DEF ReplaceAddress
    <3>2. StoreTyped'
      BY <1>2, <1>3, <1>11, <2>2, <3>1, ReplacedUsers, MailStore DEF ReplaceAddress
    <3>3. d \in AddressCall
      BY <1>1 DEF AddressCall
    <3>4. Continue(c, AtUser(d))
      BY <1>11, <2>2 DEF ReplaceAddress
    <3> HIDE DEF d
    <3> QED
      BY <1>5, <3>2, <3>3, <3>4, TypeAnswer
  <2> QED
    BY <2>1, <2>2
<1> QED
  BY <1>8, <1>9, <1>10, <1>11
\* A rejected call of the mails or of the addresses.
LEMMA FailMailTyped ==
  ASSUME TypeInv, NEW c \in BagToSet(pending), FailMail(c), OnlyMailing, UNCHANGED met
  PROVE  TypeInv'
<1>1. users \subseteq User /\ (\A u, v \in users : u.id = v.id => u = v) /\ backup \in BOOLEAN
  BY DEF TypeInv, MigrationTypeOK, RegistryTypeOK
<1>2. ASSUME MailingTypeOK'
      PROVE  StoreTyped'
  BY <1>1, <1>2, MailStore DEF FailMail, OnlyMailing
<1>3. MailingTypeOK
  BY DEF TypeInv, MigrationTypeOK
<1>4. CASE c.job = "mails" /\ c.lines # {}
  <2>1. MailFits(c) /\ c \in MailCall
    BY <1>4, CallIs DEF FailMail, MailFits
  <2>2. EndMail(c, "error") /\ halfway' = halfway \cup Halfway({c})
    BY <1>4 DEF FailMail
  <2>3. Halfway({c}) \subseteq UserIds
    BY <2>1 DEF Halfway, MailFits, UserOps, User
  <2>4. StoreTyped'
    BY <1>2, <1>3, <2>2, <2>3 DEF FailMail, MailingTypeOK
  <2> DEFINE d == [c EXCEPT !.user = None, !.copy = None, !.list = {}, !.password = 0]
  <2>5. Continue(c, {AfterLine(d, "error")})
    BY <2>2 DEF EndMail
  <2>6. CASE c.op \in LineMailOps
    BY <2>1, <2>2, <2>4, <2>6, EndMailTyped DEF Mark
  <2>7. CASE c.op \notin LineMailOps
    <3>1. c.op \in {"readTrainings", "readParticipants"}
      BY <2>1, <2>7 DEF LineMailOps, MailCall
    <3> QED
      BY <1>4, <2>1, <2>7, <3>1 DEF MailFits
  <2> QED
    BY <2>6, <2>7
<1>5. CASE ~(c.job = "mails" /\ c.lines # {})
  <2>1. Continue(c, {}) /\ UNCHANGED halfway
    BY <1>5 DEF FailMail
  <2>2. StoreTyped'
    BY <1>2, <1>3, <2>1 DEF FailMail, MailingTypeOK
  <2> QED
    BY <2>1, <2>2, TypeAnswer
<1> QED
  BY <1>4, <1>5
\* Any answer to the jobs on mails.
LEMMA AnswerMailTyped ==
  ASSUME TypeInv, NEW c \in BagToSet(pending), AnswerMail(c), OnlyMailing, UNCHANGED met
  PROVE  TypeInv'
<1>1. CASE ReadMailRows(c) /\ UNCHANGED <<users, backup>>
  <2>1. StoreTyped'
    BY <1>1, StoreKept DEF ReadMailRows, OnlyMailing, registryVars
  <2> QED
    BY <1>1, <2>1, MailRowsTyped
<1>2. CASE ReadMailLines(c) /\ UNCHANGED <<users, backup>>
  <2>1. StoreTyped'
    BY <1>2, StoreKept DEF ReadMailLines, OnlyMailing, registryVars
  <2> QED
    BY <1>2, <2>1, LinesTyped
<1>3. CASE (ReadProcessed(c) \/ FindAddress(c) \/ FindDocument(c)) /\ UNCHANGED <<users, backup>>
  BY <1>3, MailChecksTyped DEF OnlyMailing, registryVars
<1>4. CASE /\ \/ ReadForPassword(c) \/ ReplacePassword(c) \/ ReadForEmail(c) \/ ReplaceEmail(c)
           /\ UNCHANGED backup
  BY <1>4, MailUsersTyped DEF OnlyMailing
<1>5. CASE (SendMail(c) \/ ReadForAppend(c) \/ WriteAppend(c)) /\ UNCHANGED backup
  BY <1>5, MailSentTyped DEF OnlyMailing
<1>6. CASE \/ (ListUsers(c) \/ ReadUser(c) \/ ReplaceAddress(c)) /\ UNCHANGED backup
           \/ WriteUsers(c)
  BY <1>6, AddressTyped DEF OnlyMailing
<1> QED
  BY <1>1, <1>2, <1>3, <1>4, <1>5, <1>6 DEF AnswerMail
-----------------------------------------------------------------------------
(* Types: the import. *)

\* What an import may change of the stored documents.
LEMMA ImportStore ==
  ASSUME TypeInv, UNCHANGED <<mailingVars, marks, met>>, RegistryTypeOK'
  PROVE  StoreTyped'
BY DEF TypeInv, MigrationTypeOK, StoreTyped, SpreadsheetTypeOK, MailingTypeOK, mailingVars

\* The end of a line of an import.
LEMMA EndLineTyped ==
  ASSUME TypeInv, NEW c \in BagToSet(pending), ImportFits(c), c.op \in LineOps,
         NEW mark \in Mark, EndLine(c, mark), StoreTyped'
  PROVE  TypeInv'
<1> DEFINE d == [c EXCEPT !.user = None, !.found = NothingFound]
           next == AfterLine(d, mark)
<1>1. Continue(c, {next})
  BY DEF EndLine
<1>2. /\ d \in ImportCall /\ d.rows = c.rows /\ d.lines = c.lines /\ d.training = c.training
      /\ c.rows \subseteq DOMAIN TrainingRows /\ c.rows # {}
      /\ HasSheet(Code(c)) /\ c.training \in Training
      /\ c.lines \subseteq 1..Height(RowsSheet(Code(c)))
  BY DEF ImportFits, ImportCall, LineOps, HoldingOps, NothingFound
<1> HIDE DEF d
<1>3. Code(d) = Code(c)
  BY <1>2 DEF Code, TrainingRow
<1>4. HoldsTraining(d)
  BY <1>2, <1>3 DEF HoldsTraining
<1>5. CallFits(next)
  BY <1>2, <1>4, ImportWalk
<1> HIDE DEF next
<1> QED
  BY <1>1, <1>5, TypeAnswer

\* The next call for a line of an import.
LEMMA NextLineTyped ==
  ASSUME TypeInv, NEW c \in BagToSet(pending), ImportFits(c), c.op \in LineOps,
         NEW d, Continue(c, {d}), StoreTyped',
         d \in ImportCall, d.op \in LineOps, d.rows = c.rows, d.lines = c.lines,
         d.training \in Training,
         d.op \in {"deleteUser", "deleteNamesake", "readBackup"} => d.user \in User,
         d.op \in {"findDuplicate", "createUser"} => d.found["school"] \in EntryIds
  PROVE  TypeInv'
<1>1. Code(d) = Code(c) /\ HasSheet(Code(c)) /\ c.lines \subseteq 1..Height(RowsSheet(Code(c)))
  BY DEF Code, TrainingRow, ImportFits, HoldingOps
<1>2. ImportFits(d)
  BY <1>1 DEF ImportFits, HoldingOps, LineOps
<1> QED
  BY <1>2, TypeAnswer DEF CallFits

\* The calls for a training.
LEMMA ImportRowsTyped ==
  ASSUME TypeInv, NEW c \in BagToSet(pending), ReadImportRows(c), StoreTyped'
  PROVE  TypeInv'
<1>1. ImportFits(c) /\ c \in ImportCall
  BY CallIs DEF ReadImportRows, MailFits, MailCall, ImportFits
<1>2. CASE Continue(c, {})
  BY <1>2, TypeAnswer
<1>3. CASE ~Continue(c, {})
  <2> DEFINE seen == marks[FirstSheet]["Estado"]
             open == {i \in DOMAIN TrainingRows : seen[i] # "paused" /\ TrainingRows[i].valid}
             marked == [i \in DOMAIN seen |->
                IF seen[i] = "paused" \/ TrainingRows[i].valid THEN seen[i] ELSE "error"]
             r == [c.results EXCEPT ![FirstSheet] = marked]
             d == [[c EXCEPT !.rows = open] EXCEPT !.results = r]
  <2>1. Continue(c, {AtRow([c EXCEPT !.rows = open, !.results[FirstSheet] = marked])})
    BY <1>3 DEF ReadImportRows
  <2>2. [c EXCEPT !.rows = open, !.results[FirstSheet] = marked] = d
    BY <1>1 DEF ImportCall
  <2>3. r \in [SheetNames -> Seq(Mark)]
    <3>1. seen \in Seq(Mark) /\ SpreadsheetTypeOK /\ FirstSheet \in SheetNames
      BY DEF TypeInv, MigrationTypeOK, SpreadsheetTypeOK, SheetNames
    <3>2. \A i \in DOMAIN seen : marked[i] \in Mark
      BY <3>1 DEF Mark
    <3>3. c.results \in Results
      BY <1>1 DEF ImportCall, Results
    <3>4. marked = [i \in DOMAIN seen |-> marked[i]]
      OBVIOUS
    <3> HIDE DEF marked
    <3>5. r \in Results
      BY <3>1, <3>2, <3>3, <3>4, ReadMarks
    <3> QED
      BY <3>5 DEF Results
  <2>4. open \subseteq DOMAIN TrainingRows /\ open \subseteq Nat
    <3>1. DOMAIN TrainingRows \subseteq Nat
      BY SpreadsheetAssumption
    <3> QED
      BY <3>1
  <2> HIDE DEF r, open
  <2>5. d \in ImportCall /\ d.rows \subseteq DOMAIN TrainingRows
    BY <1>1, <2>3, <2>4 DEF ImportCall
  <2> HIDE DEF d
  <2>6. CallFits(AtRow(d))
    BY <2>5, ImportWalk DEF Mark
  <2>7. Continue(c, {AtRow(d)})
    BY <2>1, <2>2
  <2> QED
    BY <2>6, <2>7, TypeAnswer
<1> QED
  BY <1>2, <1>3
\* The training is at hand: its participants, or the next row.
LEMMA AtParticipantsTyped ==
  ASSUME NEW c, ImportFits(c), c.rows # {}, NEW training \in Training
  PROVE  CallFits(AtParticipants(c, training))
<1> DEFINE r == [c.results EXCEPT ![FirstSheet][Min(c.rows)] = "success"]
           d == [MarkRow(c, "success") EXCEPT !.training = training, !.found = NothingFound]
           e == [d EXCEPT !.op = "readParticipants"]
<1>1. c \in ImportCall /\ c.rows \subseteq DOMAIN TrainingRows
  BY DEF ImportFits
<1>2. r \in [SheetNames -> Seq(Mark)]
  BY <1>1, MarksTyped DEF ImportCall, Results, Mark
<1>3. MarkRow(c, "success") = [c EXCEPT !.results = r]
  BY <1>1 DEF MarkRow, ImportCall
<1> HIDE DEF r
<1>4. NothingFound \in [Catalogues -> EntryIds \cup {None}]
  BY DEF NothingFound
<1>5. d \in ImportCall /\ d.rows = c.rows /\ d.training = training
  BY <1>1, <1>2, <1>3, <1>4 DEF ImportCall
<1>6. AtParticipants(c, training) = IF HasSheet(Code(c)) THEN e ELSE AfterRow(d)
  BY DEF AtParticipants
<1> HIDE DEF d
<1>7. CallFits(AfterRow(d))
  BY <1>1, <1>5, ImportWalk DEF Mark
<1>8. ASSUME HasSheet(Code(c))
      PROVE  CallFits(e)
  <2>1. e \in ImportCall /\ e.rows = c.rows /\ e.training = training /\ e.op = "readParticipants"
    BY <1>5 DEF ImportCall
  <2> HIDE DEF e
  <2>2. Code(e) = Code(c)
    BY <2>1 DEF Code, TrainingRow
  <2>3. ImportFits(e)
    BY <1>1, <1>8, <2>1, <2>2 DEF ImportFits, HoldingOps, LineOps
  <2> QED
    BY <2>3 DEF CallFits
<1> HIDE DEF e
<1> QED
  BY <1>6, <1>7, <1>8

\* The call of a training whose row is at hand, without holding a training.
LEMMA NextRowTyped ==
  ASSUME TypeInv, NEW c \in BagToSet(pending), ImportFits(c), c.op \in RowOps,
         NEW d, Continue(c, {d}), StoreTyped',
         d \in ImportCall, d.op \in RowOps, d.rows = c.rows,
         d.op = "createTraining" => Missing(d) = {}
  PROVE  TypeInv'
<1>1. ImportFits(d)
  BY DEF ImportFits, HoldingOps, RowOps, LineOps
<1> QED
  BY <1>1, TypeAnswer DEF CallFits

\* What is created next of what is missing.
LEMMA AtNamesTyped ==
  ASSUME NEW c \in ImportCall
  PROVE  /\ AtNames(c) \in ImportCall /\ AtNames(c).op \in RowOps /\ AtNames(c).rows = c.rows
         /\ AtNames(c).op = "createTraining" => Missing(AtNames(c)) = {}
<1>1. CASE Missing(c) = {}
  <2> DEFINE d == [c EXCEPT !.op = "createTraining"]
  <2>1. AtNames(c) = d
    BY <1>1 DEF AtNames
  <2>2. d \in ImportCall /\ d.op \in RowOps /\ d.rows = c.rows /\ d.found = c.found
    BY DEF ImportCall, RowOps
  <2> HIDE DEF d
  <2> QED
    BY <1>1, <2>1, <2>2 DEF Missing
<1>2. CASE Missing(c) # {}
  <2> DEFINE d == [c EXCEPT !.op = "createName"]
  <2>1. AtNames(c) = d
    BY <1>2 DEF AtNames
  <2>2. d \in ImportCall /\ d.op = "createName" /\ d.rows = c.rows
    BY DEF ImportCall, RowOps
  <2> HIDE DEF d
  <2> QED
    BY <2>1, <2>2 DEF RowOps
<1> QED
  BY <1>1, <1>2

LEMMA FindTrainingTyped ==
  ASSUME TypeInv, NEW c \in BagToSet(pending), FindTraining(c), StoreTyped'
  PROVE  TypeInv'
<1>1. ImportFits(c) /\ c.op = "findTraining" /\ c.op \in RowOps /\ c.rows # {} /\ c \in ImportCall
  BY CallIs DEF FindTraining, RowOps, ImportFits
<1>2. CASE Continue(c, {[c EXCEPT !.op = "findNames", !.asked = Catalogues]})
  <2> DEFINE d == [c EXCEPT !.op = "findNames", !.asked = Catalogues]
  <2>1. d \in ImportCall /\ d.op = "findNames" /\ d.rows = c.rows
    BY <1>1 DEF ImportCall, RowOps
  <2>2. Continue(c, {d})
    BY <1>2
  <2> HIDE DEF d
  <2> QED
    BY <1>1, <2>1, <2>2, NextRowTyped DEF RowOps
<1>3. ASSUME NEW training \in WithCode(Code(c)), Continue(c, {AtParticipants(c, training)})
      PROVE  TypeInv'
  <2>1. training \in Training
    BY DEF WithCode, TypeInv, MigrationTypeOK, RegistryTypeOK
  <2>2. CallFits(AtParticipants(c, training))
    BY <1>1, <2>1, AtParticipantsTyped
  <2> QED
    BY <1>3, <2>2, TypeAnswer
<1> QED
  BY <1>2, <1>3 DEF FindTraining

LEMMA FindNameTyped ==
  ASSUME TypeInv, NEW c \in BagToSet(pending), FindName(c), StoreTyped'
  PROVE  TypeInv'
<1>1. ImportFits(c) /\ c.op \in RowOps /\ c.rows # {} /\ c \in ImportCall
  BY CallIs DEF FindName, RowOps, ImportFits
<1>2. PICK kind \in c.asked :
        LET named == Called(kind, NameOf(TrainingRow(c), kind)) IN
        \E id \in IF named = {} THEN {None} ELSE {e.id : e \in named} :
          LET d == [c EXCEPT !.asked = @ \ {kind}, !.found[kind] = id] IN
          Continue(c, {IF d.asked = {} THEN AtNames(d) ELSE d})
  BY DEF FindName
<1> DEFINE named == Called(kind, NameOf(TrainingRow(c), kind))
<1>3. kind \in Catalogues
  BY <1>1, <1>2 DEF ImportCall
<1>4. \A e \in named : e.id \in EntryIds
  BY <1>3 DEF Called, TypeInv, MigrationTypeOK, RegistryTypeOK, Entry
<1>5. PICK id \in EntryIds \cup {None} :
        LET d == [c EXCEPT !.asked = @ \ {kind}, !.found[kind] = id] IN
        Continue(c, {IF d.asked = {} THEN AtNames(d) ELSE d})
  BY <1>2, <1>4
<1> HIDE DEF named
<1> DEFINE f == [c.found EXCEPT ![kind] = id]
           d == [c EXCEPT !.asked = @ \ {kind}, !.found[kind] = id]
<1>6. d = [c EXCEPT !.asked = @ \ {kind}, !.found = f]
  BY <1>1 DEF ImportCall
<1>7. f \in [Catalogues -> EntryIds \cup {None}]
  BY <1>1, <1>3, <1>5 DEF ImportCall
<1> HIDE DEF f
<1>8. d \in ImportCall /\ d.rows = c.rows /\ d.op = c.op
  BY <1>1, <1>6, <1>7 DEF ImportCall
<1>9. Continue(c, {IF d.asked = {} THEN AtNames(d) ELSE d})
  BY <1>5
<1>10. c.op = "findNames"
  BY DEF FindName
<1> HIDE DEF d
<1>11. CASE d.asked = {}
  BY <1>1, <1>8, <1>9, <1>11, AtNamesTyped, NextRowTyped
<1>12. CASE d.asked # {}
  BY <1>1, <1>8, <1>9, <1>10, <1>12, NextRowTyped
<1> QED
  BY <1>11, <1>12

\* The three services create a document with the name they were given.
LEMMA AddEntryTyped ==
  ASSUME TypeInv, NEW kind \in Catalogues, NEW id \in EntryIds, NEW name \in Name,
         id \in UnusedEntries(kind), AddEntry(kind, id, name),
         UNCHANGED <<users, trainings, removed, backup>>,
         UNCHANGED <<mailingVars, marks, met>>
  PROVE  StoreTyped'
<1> DEFINE entry == [id |-> id, name |-> Stored(kind, name), deleted |-> FALSE]
<1>1. Stored(kind, name) \in Name
  BY DEF Stored, Name
<1>2. entry \in Entry
  BY <1>1 DEF Entry
<1>3. /\ catalogue \in [Catalogues -> SUBSET Entry]
      /\ \A k \in Catalogues : \A d, e \in catalogue[k] : d.id = e.id => d = e
  BY DEF TypeInv, MigrationTypeOK, RegistryTypeOK
<1>4. /\ catalogue' = [catalogue EXCEPT ![kind] = @ \cup {entry}]
      /\ \A d \in catalogue[kind] : d.id # entry.id
  BY DEF AddEntry, UnusedEntries
<1> HIDE DEF entry
<1>5. /\ catalogue' \in [Catalogues -> SUBSET Entry]
      /\ \A k \in Catalogues : catalogue'[k] = IF k = kind THEN catalogue[k] \cup {entry}
                                                         ELSE catalogue[k]
  BY <1>2, <1>3, <1>4
<1>6. \A k \in Catalogues : \A d, e \in catalogue'[k] : d.id = e.id => d = e
  BY <1>3, <1>4, <1>5
<1>7. RegistryTypeOK'
  BY <1>5, <1>6 DEF TypeInv, MigrationTypeOK, RegistryTypeOK
<1> QED
  BY <1>7, ImportStore

LEMMA CreateNameTyped ==
  ASSUME TypeInv, NEW c \in BagToSet(pending), CreateName(c),
         UNCHANGED <<mailingVars, marks, met>>
  PROVE  TypeInv'
<1>1. ImportFits(c) /\ c.op \in RowOps /\ c.rows # {} /\ c \in ImportCall
      /\ c.rows \subseteq DOMAIN TrainingRows
  BY CallIs DEF CreateName, RowOps, ImportFits
<1>2. PICK kind \in Missing(c) : \E id \in UnusedEntries(kind) :
        /\ AddEntry(kind, id, NameOf(TrainingRow(c), kind))
        /\ Continue(c, {AtNames([c EXCEPT !.found[kind] = id])})
  BY DEF CreateName
<1>3. PICK id \in UnusedEntries(kind) :
        /\ AddEntry(kind, id, NameOf(TrainingRow(c), kind))
        /\ Continue(c, {AtNames([c EXCEPT !.found[kind] = id])})
  BY <1>2
<1>4. kind \in Catalogues /\ id \in EntryIds
  BY <1>2, <1>3 DEF Missing, UnusedEntries
<1>5. NameOf(TrainingRow(c), kind) \in Name
  <2>1. TrainingRow(c) \in SheetRow
    BY <1>1, AtLineOfSheet
  <2> QED
    BY <1>4, <2>1 DEF NameOf, SheetRow, Catalogues
<1>6. StoreTyped'
  BY <1>3, <1>4, <1>5, AddEntryTyped DEF CreateName
<1> DEFINE f == [c.found EXCEPT ![kind] = id]
           d == [c EXCEPT !.found[kind] = id]
<1>7. d = [c EXCEPT !.found = f]
  BY <1>1 DEF ImportCall
<1>8. f \in [Catalogues -> EntryIds \cup {None}]
  BY <1>1, <1>4 DEF ImportCall
<1> HIDE DEF f
<1>9. d \in ImportCall /\ d.rows = c.rows
  BY <1>1, <1>7, <1>8 DEF ImportCall
<1>10. Continue(c, {AtNames(d)})
  BY <1>3
<1> HIDE DEF d
<1> QED
  BY <1>1, <1>6, <1>9, <1>10, AtNamesTyped, NextRowTyped

LEMMA CreateTrainingTyped ==
  ASSUME TypeInv, NEW c \in BagToSet(pending), CreateTraining(c),
         UNCHANGED <<mailingVars, marks, met>>
  PROVE  TypeInv'
<1>1. /\ ImportFits(c) /\ c.rows # {} /\ c \in ImportCall /\ c.rows \subseteq DOMAIN TrainingRows
      /\ Missing(c) = {}
  BY CallIs DEF CreateTraining, RowOps, ImportFits
<1>2. PICK id \in TrainingIds \ {t.id : t \in trainings} :
        LET new == [id |-> id, code |-> Code(c), type |-> TrainingRow(c).type,
                    semester |-> c.found["semester"], competency |-> c.found["competency"],
                    organizer |-> c.found["school"], participants |-> <<>>] IN
        /\ trainings' = trainings \cup {new}
        /\ Continue(c, {AtParticipants(c, new)})
  BY DEF CreateTraining
<1> DEFINE new == [id |-> id, code |-> Code(c), type |-> TrainingRow(c).type,
                   semester |-> c.found["semester"], competency |-> c.found["competency"],
                   organizer |-> c.found["school"], participants |-> <<>>]
<1>3. Code(c) \in Codes /\ TrainingRow(c).type \in {"extra", "scheduled"}
  BY <1>1, AtLineOfSheet DEF SheetRow
<1>4. /\ c.found["semester"] \in EntryIds
      /\ c.found["competency"] \in EntryIds
      /\ c.found["school"] \in EntryIds
  BY <1>1 DEF Missing, Catalogues, ImportCall
<1>5. <<>> \in Seq(Participant)
  OBVIOUS
<1>6. new \in Training /\ new.id = id
  BY <1>2, <1>3, <1>4, <1>5 DEF Training
<1>7. trainings' = trainings \cup {new} /\ Continue(c, {AtParticipants(c, new)})
  BY <1>2
<1> HIDE DEF new
<1>8. RegistryTypeOK'
  <2>1. trainings \subseteq Training /\ \A t, s \in trainings : t.id = s.id => t = s
    BY DEF TypeInv, MigrationTypeOK, RegistryTypeOK
  <2>2. trainings' \subseteq Training /\ \A t, s \in trainings' : t.id = s.id => t = s
    BY <1>2, <1>6, <1>7, <2>1
  <2>3. UNCHANGED <<users, catalogue, removed, backup>>
    BY DEF CreateTraining
  <2> QED
    BY <2>2, <2>3 DEF TypeInv, MigrationTypeOK, RegistryTypeOK
<1>9. CallFits(AtParticipants(c, new))
  BY <1>1, <1>6, AtParticipantsTyped
<1> QED
  BY <1>7, <1>8, <1>9, ImportStore, TypeAnswer
\* A professor is at hand: a training with one participant more is written.
LEMMA AtEnrolmentTyped ==
  ASSUME TypeInv, NEW c \in BagToSet(pending), ImportFits(c), c.op \in LineOps,
         NEW user \in User, AtEnrolment(c, user), StoreTyped'
  PROVE  TypeInv'
<1>1. CASE EndLine(c, "success")
  BY <1>1, EndLineTyped DEF Mark
<1>2. CASE Continue(c, {[c EXCEPT !.op = "replaceTraining", !.user = None,
                                  !.found = NothingFound, !.training = With(c, user)]})
  <2>1. /\ c \in ImportCall /\ c.rows \subseteq DOMAIN TrainingRows /\ c.rows # {}
        /\ HasSheet(Code(c)) /\ c.training \in Training
        /\ c.lines # {} /\ c.lines \subseteq 1..Height(RowsSheet(Code(c)))
    BY DEF ImportFits, HoldingOps, LineOps
  <2>2. Line(c).attended \in BOOLEAN
    BY <2>1, AtLineOfSheet DEF SheetLine
  <2> DEFINE one == [user |-> user.id, attended |-> Line(c).attended]
             more == Append(c.training.participants, one)
             d == [c EXCEPT !.op = "replaceTraining", !.user = None,
                            !.found = NothingFound, !.training = With(c, user)]
  <2>3. one \in Participant
    BY <2>2 DEF Participant, User
  <2>4. more \in Seq(Participant)
    BY <2>1, <2>3 DEF Training
  <2>5. With(c, user) = [c.training EXCEPT !.participants = more]
    BY <2>1 DEF With, Training
  <2> HIDE DEF more
  <2>6. With(c, user) \in Training
    BY <2>1, <2>4, <2>5 DEF Training
  <2>7. NothingFound \in [Catalogues -> EntryIds \cup {None}]
    BY DEF NothingFound
  <2>8. /\ d \in ImportCall /\ d.op = "replaceTraining" /\ d.rows = c.rows /\ d.lines = c.lines
        /\ d.training = With(c, user)
    BY <2>1, <2>6, <2>7 DEF ImportCall, LineOps
  <2>9. Continue(c, {d})
    BY <1>2
  <2> HIDE DEF d
  <2> QED
    BY <2>6, <2>8, <2>9, NextLineTyped DEF LineOps
<1> QED
  BY <1>1, <1>2 DEF AtEnrolment

\* The school is at hand.
LEMMA AtCreationTyped ==
  ASSUME TypeInv, NEW c \in BagToSet(pending), ImportFits(c), c.op \in LineOps,
         NEW school \in EntryIds, AtCreation(c, school), StoreTyped'
  PROVE  TypeInv'
<1>1. CASE EndLine(c, "error")
  BY <1>1, EndLineTyped DEF Mark
<1>2. CASE Continue(c, {[c EXCEPT !.op = "findDuplicate", !.found["school"] = school]})
  <2> DEFINE f == [c.found EXCEPT !["school"] = school]
             d == [c EXCEPT !.op = "findDuplicate", !.found["school"] = school]
  <2>1. c \in ImportCall /\ c.training \in Training
    BY DEF ImportFits, HoldingOps
  <2>2. d = [c EXCEPT !.op = "findDuplicate", !.found = f]
    BY <2>1 DEF ImportCall
  <2>3. f \in [Catalogues -> EntryIds \cup {None}] /\ f["school"] = school
    BY <2>1 DEF ImportCall, Catalogues
  <2> HIDE DEF f
  <2>4. /\ d \in ImportCall /\ d.op = "findDuplicate" /\ d.rows = c.rows /\ d.lines = c.lines
        /\ d.training = c.training /\ d.found = f
    BY <2>1, <2>2, <2>3 DEF ImportCall, LineOps
  <2>5. Continue(c, {d})
    BY <1>2
  <2> HIDE DEF d
  <2> QED
    BY <2>1, <2>3, <2>4, <2>5, NextLineTyped DEF LineOps
<1> QED
  BY <1>1, <1>2 DEF AtCreation

\* A call at a line, and what it holds.
LEMMA AtLineTyped ==
  ASSUME TypeInv, NEW c \in BagToSet(pending), c.op \in LineOps
  PROVE  /\ ImportFits(c) /\ c \in ImportCall /\ c.training \in Training
         /\ Line(c) \in SheetLine
<1>1. ImportFits(c)
  BY CallIs
<1>2. /\ c \in ImportCall /\ c.rows \subseteq DOMAIN TrainingRows /\ c.rows # {}
      /\ HasSheet(Code(c)) /\ c.training \in Training
      /\ c.lines # {} /\ c.lines \subseteq 1..Height(RowsSheet(Code(c)))
  BY <1>1 DEF ImportFits, HoldingOps, LineOps
<1> QED
  BY <1>1, <1>2, AtLineOfSheet

\* Another call for the same line, with the user it is about.
LEMMA OtherOpTyped ==
  ASSUME TypeInv, NEW c \in BagToSet(pending), c.op \in LineOps, StoreTyped',
         NEW op \in LineOps \ {"findDuplicate", "createUser"}, NEW user \in User \cup {None},
         op \in {"deleteUser", "deleteNamesake", "readBackup"} => user \in User,
         NEW d, d = [c EXCEPT !.op = op, !.user = user] \/ (d = [c EXCEPT !.op = op] /\ user = None),
         Continue(c, {d})
  PROVE  TypeInv'
<1>1. ImportFits(c) /\ c \in ImportCall /\ c.training \in Training
  BY AtLineTyped
<1>2. /\ d \in ImportCall /\ d.op = op /\ d.rows = c.rows /\ d.lines = c.lines
      /\ d.training = c.training
      /\ op \in {"deleteUser", "deleteNamesake", "readBackup"} => d.user \in User
  BY <1>1 DEF ImportCall
<1> QED
  BY <1>1, <1>2, NextLineTyped

\* The calls that look for persons, and delete them.
LEMMA PersonsTyped ==
  ASSUME TypeInv, NEW c \in BagToSet(pending), UNCHANGED <<mailingVars, marks, met>>,
         FindProfessor(c) \/ FindNamesake(c) \/ DeleteUser(c) \/ DeleteNamesake(c)
  PROVE  TypeInv'
<1>1. users \subseteq User /\ RegistryTypeOK
  BY DEF TypeInv, MigrationTypeOK, RegistryTypeOK
<1>2. c.op \in LineOps
  BY DEF FindProfessor, FindNamesake, DeleteUser, DeleteNamesake, Delete, LineOps
<1>3. ImportFits(c)
  BY <1>2, AtLineTyped
<1>4. {"findNamesake", "deleteUser", "findSchool", "deleteNamesake"}
        \subseteq LineOps \ {"findDuplicate", "createUser"}
  BY DEF LineOps
<1>5. StoreTyped'
  <2>1. CASE UNCHANGED registryVars
    BY <2>1, StoreKept
  <2>2. CASE users' = users \ WithId(c.user.id) /\ UNCHANGED <<trainings, catalogue, removed, backup>>
    <3>1. RegistryTypeOK'
      BY <1>1, <2>2 DEF RegistryTypeOK
    <3> QED
      BY <3>1, ImportStore
  <2> QED
    BY <2>1, <2>2 DEF FindProfessor, FindNamesake, DeleteUser, DeleteNamesake, Delete
<1>6. CASE FindProfessor(c)
  <2>1. CASE Continue(c, {[c EXCEPT !.op = "findNamesake"]})
    BY <1>2, <1>4, <1>5, <2>1, OtherOpTyped
  <2>2. ASSUME NEW u \in WithDocument(Line(c).document),
               IF u.role = "professor" THEN AtEnrolment(c, u)
               ELSE Continue(c, {[c EXCEPT !.op = "deleteUser", !.user = u]})
        PROVE  TypeInv'
    <3>1. u \in User
      BY <1>1 DEF WithDocument
    <3>2. CASE AtEnrolment(c, u)
      BY <1>2, <1>3, <1>5, <3>1, <3>2, AtEnrolmentTyped
    <3>3. CASE Continue(c, {[c EXCEPT !.op = "deleteUser", !.user = u]})
      BY <1>2, <1>4, <1>5, <3>1, <3>3, OtherOpTyped
    <3> QED
      BY <2>2, <3>2, <3>3
  <2> QED
    BY <1>6, <2>1, <2>2 DEF FindProfessor
<1>7. CASE FindNamesake(c)
  <2>1. CASE Continue(c, {[c EXCEPT !.op = "findSchool"]})
    BY <1>2, <1>4, <1>5, <2>1, OtherOpTyped
  <2>2. ASSUME NEW u \in WithEmail(Line(c).email),
               Continue(c, {[c EXCEPT !.op = "deleteNamesake", !.user = u]})
        PROVE  TypeInv'
    <3>1. u \in User
      BY <1>1 DEF WithEmail
    <3> QED
      BY <1>2, <1>4, <1>5, <2>2, <3>1, OtherOpTyped
  <2> QED
    BY <1>7, <2>1, <2>2 DEF FindNamesake
<1>8. CASE DeleteUser(c) \/ DeleteNamesake(c)
  <2>1. CASE EndLine(c, "error")
    BY <1>2, <1>3, <1>5, <2>1, EndLineTyped DEF Mark
  <2>2. ASSUME NEW op \in {"findNamesake", "findSchool"},
               Continue(c, {[c EXCEPT !.op = op, !.user = None]})
        PROVE  TypeInv'
    BY <1>2, <1>4, <1>5, <2>2, OtherOpTyped
  <2> QED
    BY <1>8, <2>1, <2>2 DEF DeleteUser, DeleteNamesake, Delete
<1> QED
  BY <1>6, <1>7, <1>8

\* The calls that find or create a school, and look for duplicates.
LEMMA SchoolsTyped ==
  ASSUME TypeInv, NEW c \in BagToSet(pending), UNCHANGED <<mailingVars, marks, met>>,
         FindSchool(c) \/ CreateSchool(c) \/ FindDuplicate(c)
  PROVE  TypeInv'
<1>1. RegistryTypeOK /\ catalogue \in [Catalogues -> SUBSET Entry]
  BY DEF TypeInv, MigrationTypeOK, RegistryTypeOK
<1>2. c.op \in LineOps
  BY DEF FindSchool, CreateSchool, FindDuplicate, LineOps
<1>3. ImportFits(c) /\ c \in ImportCall /\ c.training \in Training /\ Line(c).school \in Name
  BY <1>2, AtLineTyped DEF SheetLine
<1>4. "createSchool" \in LineOps \ {"findDuplicate", "createUser"}
  BY DEF LineOps
<1>5. CASE FindSchool(c)
  <2>1. StoreTyped'
    BY <1>5, StoreKept DEF FindSchool
  <2>2. CASE Continue(c, {[c EXCEPT !.op = "createSchool"]})
    BY <1>2, <1>4, <2>1, <2>2, OtherOpTyped
  <2>3. ASSUME NEW e \in Called("school", Line(c).school), AtCreation(c, e.id)
        PROVE  TypeInv'
    <3>1. e.id \in EntryIds
      BY <1>1 DEF Called, Catalogues, Entry
    <3> QED
      BY <1>2, <1>3, <2>1, <2>3, <3>1, AtCreationTyped
  <2> QED
    BY <1>5, <2>2, <2>3 DEF FindSchool
<1>6. CASE CreateSchool(c)
  <2>1. PICK id \in UnusedEntries("school") :
          AddEntry("school", id, Line(c).school) /\ AtCreation(c, id)
    BY <1>6 DEF CreateSchool
  <2>2. id \in EntryIds /\ "school" \in Catalogues
    BY DEF UnusedEntries, Catalogues
  <2>3. StoreTyped'
    BY <1>3, <1>6, <2>1, <2>2, AddEntryTyped DEF CreateSchool
  <2> QED
    BY <1>2, <1>3, <2>1, <2>2, <2>3, AtCreationTyped
<1>7. CASE FindDuplicate(c)
  <2>1. StoreTyped'
    BY <1>7, StoreKept DEF FindDuplicate
  <2>2. CASE EndLine(c, "error")
    BY <1>2, <1>3, <2>1, <2>2, EndLineTyped DEF Mark
  <2>3. CASE Continue(c, {[c EXCEPT !.op = "createUser"]})
    <3> DEFINE d == [c EXCEPT !.op = "createUser"]
    <3>1. /\ d \in ImportCall /\ d.op = "createUser" /\ d.rows = c.rows /\ d.lines = c.lines
          /\ d.training = c.training /\ d.found = c.found
      BY <1>3 DEF ImportCall, LineOps
    <3>2. Continue(c, {d}) /\ c.found["school"] \in EntryIds
      BY <1>3, <1>7, <2>3 DEF FindDuplicate, ImportFits
    <3> HIDE DEF d
    <3> QED
      BY <1>2, <1>3, <2>1, <3>1, <3>2, NextLineTyped DEF LineOps
  <2> QED
    BY <1>7, <2>2, <2>3 DEF FindDuplicate
<1> QED
  BY <1>5, <1>6, <1>7

\* The calls that create the professor and write the training.
LEMMA CreatedTyped ==
  ASSUME TypeInv, NEW c \in BagToSet(pending), UNCHANGED <<mailingVars, marks, met>>,
         CreateUser(c) \/ ReadBackup(c) \/ ReplaceTraining(c)
  PROVE  TypeInv'
<1>1. RegistryTypeOK
  BY DEF TypeInv, MigrationTypeOK
<1>2. c.op \in LineOps
  BY DEF CreateUser, ReadBackup, ReplaceTraining, LineOps
<1>3. ImportFits(c) /\ c \in ImportCall /\ c.training \in Training /\ Line(c) \in SheetLine
  BY <1>2, AtLineTyped
<1>4. CASE CreateUser(c)
  <2>1. PICK id \in NewUserIds \ {u.id : u \in users} :
          LET line == Line(c)
              new == [id |-> id, document |-> line.document, email |-> line.email,
                      password |-> 0, role |-> "professor", school |-> c.found["school"],
                      employment |-> EmploymentType[line.employment],
                      excluded |-> line.excluded] IN
          /\ users' = users \cup {new}
          /\ Continue(c, {[c EXCEPT !.op = "readBackup", !.user = new]})
    BY <1>4 DEF CreateUser
  <2> DEFINE new == [id |-> id, document |-> Line(c).document, email |-> Line(c).email,
                     password |-> 0, role |-> "professor", school |-> c.found["school"],
                     employment |-> EmploymentType[Line(c).employment],
                     excluded |-> Line(c).excluded]
  <2>2. id \in UserIds /\ c.found["school"] \in EntryIds
    BY <1>3, <1>4 DEF UserIds, CreateUser, ImportFits
  <2>3. EmploymentType[Line(c).employment] \in {"fullTime", "partTime"}
    BY <1>3 DEF EmploymentType, SheetLine
  <2>4. new \in User /\ new.id = id
    BY <1>3, <2>2, <2>3 DEF User, SheetLine
  <2>5. users' = users \cup {new} /\ Continue(c, {[c EXCEPT !.op = "readBackup", !.user = new]})
    BY <2>1
  <2> HIDE DEF new
  <2>6. RegistryTypeOK'
    <3>1. users \subseteq User /\ \A u, v \in users : u.id = v.id => u = v
      BY <1>1 DEF RegistryTypeOK
    <3>2. users' \subseteq User /\ \A u, v \in users' : u.id = v.id => u = v
      BY <2>1, <2>4, <2>5, <3>1
    <3> QED
      BY <1>1, <1>4, <3>2 DEF RegistryTypeOK, CreateUser
  <2>7. StoreTyped'
    BY <2>6, ImportStore
  <2>8. "readBackup" \in LineOps \ {"findDuplicate", "createUser"}
    BY DEF LineOps
  <2> QED
    BY <1>2, <2>4, <2>5, <2>7, <2>8, OtherOpTyped
<1>5. CASE ReadBackup(c)
  <2>1. StoreTyped'
    BY <1>5, StoreKept DEF ReadBackup
  <2>2. c.user \in User
    BY <1>3, <1>5 DEF ReadBackup, ImportFits
  <2>3. CASE AtEnrolment(c, c.user)
    BY <1>2, <1>3, <2>1, <2>2, <2>3, AtEnrolmentTyped
  <2>4. CASE EndLine(c, "error")
    BY <1>2, <1>3, <2>1, <2>4, EndLineTyped DEF Mark
  <2> QED
    BY <1>5, <2>3, <2>4 DEF ReadBackup
<1>6. CASE ReplaceTraining(c)
  <2>1. trainings \subseteq Training /\ \A t, s \in trainings : t.id = s.id => t = s
    BY <1>1 DEF RegistryTypeOK
  <2>2. trainings' \subseteq Training /\ \A t, s \in trainings' : t.id = s.id => t = s
    BY <1>3, <1>6, <2>1 DEF ReplaceTraining, Replaced
  <2>3. RegistryTypeOK'
    BY <1>1, <1>6, <2>2 DEF RegistryTypeOK, ReplaceTraining
  <2>4. StoreTyped'
    BY <2>3, ImportStore
  <2> QED
    BY <1>2, <1>3, <1>6, <2>4, EndLineTyped DEF ReplaceTraining, Mark
<1> QED
  BY <1>4, <1>5, <1>6

\* Any answer to an import.
LEMMA AnswerImportTyped ==
  ASSUME TypeInv, NEW c \in BagToSet(pending), AnswerImport(c), OnlyImporting, UNCHANGED met
  PROVE  TypeInv'
<1>1. UNCHANGED <<mailingVars, marks, met>>
  BY DEF OnlyImporting, mailingVars
<1>2. UNCHANGED registryVars => StoreTyped'
  BY <1>1, StoreKept
<1>3. CASE ReadImportRows(c) \/ FindTraining(c) \/ FindName(c) \/ ReadImportLines(c)
  <2>1. UNCHANGED registryVars
    BY <1>3 DEF ReadImportRows, FindTraining, FindName, ReadImportLines
  <2> QED
    BY <1>2, <1>3, <2>1, ImportRowsTyped, FindTrainingTyped, FindNameTyped, LinesTyped
<1>4. CASE CreateName(c) \/ CreateTraining(c)
  BY <1>1, <1>4, CreateNameTyped, CreateTrainingTyped
<1>5. CASE FindProfessor(c) \/ FindNamesake(c) \/ DeleteUser(c) \/ DeleteNamesake(c)
  BY <1>1, <1>5, PersonsTyped
<1>6. CASE FindSchool(c) \/ CreateSchool(c) \/ FindDuplicate(c)
  BY <1>1, <1>6, SchoolsTyped
<1>7. CASE CreateUser(c) \/ ReadBackup(c) \/ ReplaceTraining(c)
  BY <1>1, <1>7, CreatedTyped
<1> QED
  BY <1>3, <1>4, <1>5, <1>6, <1>7 DEF AnswerImport

\* A rejected call of an import.
LEMMA FailImportTyped ==
  ASSUME TypeInv, NEW c \in BagToSet(pending), FailImport(c), OnlyImporting, UNCHANGED met
  PROVE  TypeInv'
<1>1. StoreTyped'
  BY StoreKept DEF FailImport, OnlyImporting, mailingVars
<1>2. ImportFits(c) /\ c \in ImportCall /\ c.rows \subseteq DOMAIN TrainingRows
  BY CallIs DEF FailImport, ImportFits
<1>3. CASE Continue(c, {})
  BY <1>1, <1>3, TypeAnswer
<1>4. CASE c.op \in LineOps /\ EndLine(c, "error")
  BY <1>1, <1>2, <1>4, EndLineTyped DEF Mark
<1>5. CASE Continue(c, {AfterRow([MarkRow(c, "error") EXCEPT !.found = NothingFound, !.asked = {}])})
  <2> DEFINE r == [c.results EXCEPT ![FirstSheet][Min(c.rows)] = "error"]
             d == [MarkRow(c, "error") EXCEPT !.found = NothingFound, !.asked = {}]
  <2>1. r \in [SheetNames -> Seq(Mark)]
    BY <1>2, MarksTyped DEF ImportCall, Results, Mark
  <2>2. MarkRow(c, "error") = [c EXCEPT !.results = r]
    BY <1>2 DEF MarkRow, ImportCall
  <2> HIDE DEF r
  <2>3. NothingFound \in [Catalogues -> EntryIds \cup {None}]
    BY DEF NothingFound
  <2>4. d \in ImportCall /\ d.rows = c.rows
    BY <1>2, <2>1, <2>2, <2>3 DEF ImportCall
  <2>5. Continue(c, {AfterRow(d)})
    BY <1>5
  <2> HIDE DEF d
  <2>6. CallFits(AfterRow(d))
    BY <1>2, <2>4, ImportWalk DEF Mark
  <2> QED
    BY <1>1, <2>5, <2>6, TypeAnswer
<1> QED
  BY <1>3, <1>4, <1>5 DEF FailImport
-----------------------------------------------------------------------------
(* Types: the reports, the marks, what arrives, and the end of the process. *)

\* The calls of a report, answered or rejected.
LEMMA ReportsTyped ==
  ASSUME TypeInv, NEW c \in BagToSet(pending), ServeReport(c) \/ FailReport(c),
         OnlyReports, UNCHANGED met
  PROVE  TypeInv'
<1>1. StoreTyped'
  BY StoreKept DEF OnlyReports, ServeReport, FailReport, ReadTrainings, ReadSchools, ReadUsers,
                   AnswerReport, Read
<1>2. CASE Continue(c, {})
  BY <1>1, <1>2, TypeAnswer
<1>3. CASE ReadTrainings(c) \/ ReadSchools(c) \/ ReadUsers(c)
  <2>1. c \in ReportCall
    BY <1>3, CallIs DEF ReadTrainings, ReadSchools, ReadUsers, Asked
  <2>2. /\ Selected(c.key) \in SUBSET Training /\ SchoolIds \in SUBSET EntryIds
        /\ users \in SUBSET User
    BY DEF TypeInv, MigrationTypeOK, RegistryTypeOK, Selected, SchoolIds, Catalogues, Entry
  <2>3. ASSUME NEW d \in ReportCall, NEW container, Read(c, d, container)
        PROVE  TypeInv'
    <3> DEFINE e == [d EXCEPT !.asked = @ \ {container}]
    <3>1. e \in ReportCall /\ Continue(c, {e})
      BY <2>3 DEF ReportCall, Read
    <3> HIDE DEF e
    <3> QED
      BY <1>1, <3>1, TypeAnswer DEF CallFits
  <2>4. /\ [c EXCEPT !.trainings = Selected(c.key)] \in ReportCall
        /\ [c EXCEPT !.schools = SchoolIds] \in ReportCall
        /\ [c EXCEPT !.users = users] \in ReportCall
    BY <2>1, <2>2 DEF ReportCall
  <2> QED
    BY <1>3, <2>3, <2>4 DEF ReadTrainings, ReadSchools, ReadUsers
<1> QED
  BY <1>2, <1>3 DEF ServeReport, FailReport, AnswerReport

\* Marks that are written over others are marks.
LEMMA WriteBackTyped ==
  ASSUME TypeInv, NEW c \in BagToSet(pending), WriteBack(c),
         UNCHANGED <<registryVars, mailingVars, met>>
  PROVE  TypeInv'
<1>1. c \in WriteBackCall
  BY CallIs DEF WriteBack
<1>2. marks \in [SheetNames -> [{"Estado", "EmailSent"} -> Seq(Mark)]]
  BY DEF TypeInv, MigrationTypeOK, SpreadsheetTypeOK
<1>3. ASSUME NEW old \in Seq(Mark), NEW new \in Seq(Mark)
      PROVE  Overwritten(old, new) \in Seq(Mark)
  <2>1. DOMAIN old = 1..Len(old) /\ Len(old) \in Nat
    OBVIOUS
  <2>2. Overwritten(old, new) \in [1..Len(old) -> Mark]
    BY <2>1 DEF Overwritten
  <2> QED
    BY <2>1, <2>2
<1>4. \A s \in SheetNames : c.results[s] \in Seq(Mark) /\ Column[c.job] \in {"Estado", "EmailSent"}
  BY <1>1 DEF WriteBackCall, Results, Jobs, Column
<1>5. \A s \in SheetNames :
        [marks[s] EXCEPT ![Column[c.job]] = Overwritten(@, c.results[s])]
          \in [{"Estado", "EmailSent"} -> Seq(Mark)]
  BY <1>2, <1>3, <1>4
<1>6. SpreadsheetTypeOK'
  BY <1>5 DEF WriteBack, SpreadsheetTypeOK
<1>7. StoreTyped'
  BY <1>6 DEF TypeInv, MigrationTypeOK, StoreTyped, RegistryTypeOK, MailingTypeOK, registryVars,
              mailingVars
<1> QED
  BY <1>7, TypeAnswer DEF WriteBack

\* What is met is a set of sets of kinds.
LEMMA MeetsTyped ==
  ASSUME TypeInv, NEW kind \in Kinds, Meets(kind)
  PROVE  met' \subseteq SUBSET Kinds
<1>1. UnderWay \subseteq Kinds
  BY CallIs DEF UnderWay, Kinds
<1> QED
  BY <1>1 DEF Meets, TypeInv, MigrationTypeOK

\* The requests that start a job or a report.
LEMMA RequestsTyped ==
  ASSUME TypeInv, MigrationRequest
  PROVE  TypeInv'
<1>1. \A kind \in Kinds : Meets(kind) => met' \subseteq SUBSET Kinds
  BY MeetsTyped
<1>2. UNCHANGED <<registryVars, mailingVars, marks>>
  BY DEF MigrationRequest, SendMails, UpdateMails, MigrateFromExcel, ReportRequest, OnlyImporting,
         OnlyReports, mailingVars
<1>3. met' \subseteq SUBSET Kinds
  BY <1>1 DEF MigrationRequest, Kinds
<1>4. StoreTyped'
  BY <1>2, <1>3 DEF TypeInv, MigrationTypeOK, StoreTyped, RegistryTypeOK, SpreadsheetTypeOK,
                    MailingTypeOK, registryVars, mailingVars
<1>5. [s \in SheetNames |-> <<>>] \in [SheetNames -> Seq(Mark)]
  OBVIOUS
<1>6. CASE SendMails
  <2> DEFINE d == [op |-> "readTrainings", job |-> "mails", rows |-> {}, lines |-> {},
                   results |-> [s \in SheetNames |-> <<>>],
                   user |-> None, copy |-> None, list |-> {}, password |-> 0]
  <2>1. d \in MailCall /\ d.op = "readTrainings" /\ d.rows = {} /\ d.lines = {}
    BY <1>5 DEF MailCall, MailOps, Results
  <2>2. Start({d})
    BY <1>6 DEF SendMails
  <2> HIDE DEF d
  <2>3. MailFits(d)
    BY <2>1 DEF MailFits, LineMailOps, UserOps, HalfwayOps, CopyOps
  <2> QED
    BY <1>4, <2>2, <2>3, TypeSend DEF CallFits
<1>7. CASE UpdateMails
  <2> DEFINE d == [op |-> "listUsers", job |-> "addresses", left |-> {}, copy |-> None]
  <2>1. d \in AddressCall /\ d.op = "listUsers"
    BY DEF AddressCall
  <2>2. Start({d})
    BY <1>7 DEF UpdateMails
  <2> HIDE DEF d
  <2> QED
    BY <1>4, <2>1, <2>2, TypeSend DEF CallFits, AddressFits
<1>8. CASE MigrateFromExcel
  <2> DEFINE d == [op |-> "readTrainings", job |-> "import", rows |-> {}, lines |-> {},
                   results |-> [s \in SheetNames |-> <<>>], training |-> None,
                   found |-> NothingFound, asked |-> {}, user |-> None]
  <2>1. d \in ImportCall /\ d.op = "readTrainings" /\ d.rows = {}
    BY <1>5 DEF ImportCall, NothingFound
  <2>2. Start({d})
    BY <1>8 DEF MigrateFromExcel
  <2> HIDE DEF d
  <2>3. ImportFits(d)
    BY <2>1 DEF ImportFits, HoldingOps, LineOps
  <2> QED
    BY <1>4, <2>2, <2>3, TypeSend DEF CallFits
<1>9. CASE ReportRequest
  <2>1. PICK key \in {t.id : t \in trainings} \cup {t.semester : t \in trainings},
             op \in {"bySchool", "attendance"} :
          Start({[op |-> op, job |-> "report", key |-> key, asked |-> ToSet(Containers),
                  trainings |-> {}, schools |-> {}, users |-> {}]})
    BY <1>9 DEF ReportRequest
  <2>2. key \in EntryIds \cup TrainingIds
    BY DEF TypeInv, MigrationTypeOK, RegistryTypeOK, Training
  <2> DEFINE d == [op |-> op, job |-> "report", key |-> key, asked |-> ToSet(Containers),
                   trainings |-> {}, schools |-> {}, users |-> {}]
  <2>3. d \in ReportCall
    BY <2>2 DEF ReportCall
  <2>4. Start({d})
    BY <2>1
  <2> HIDE DEF d
  <2> QED
    BY <1>4, <2>3, <2>4, TypeSend DEF CallFits
<1> QED
  BY <1>6, <1>7, <1>8, <1>9 DEF MigrationRequest

\* Somebody pauses a row, or removes a school.
LEMMA OthersTyped ==
  ASSUME TypeInv,
         \/ \E sheet \in ToSet(Sheets) : \E line \in 1..Height(sheet) : PauseLine(sheet, line)
         \/ CatalogueRequest
  PROVE  TypeInv'
<1>1. UNCHANGED pending
  BY DEF PauseLine, CatalogueRequest
<1>2. ASSUME NEW sheet \in ToSet(Sheets), NEW line \in 1..Height(sheet), PauseLine(sheet, line)
      PROVE  TypeInv'
  <2>1. PICK column \in Columns[sheet] :
          marks' = [marks EXCEPT ![sheet][column][line] = "paused"]
    BY <1>2 DEF PauseLine
  <2>2. marks \in [SheetNames -> [{"Estado", "EmailSent"} -> Seq(Mark)]] /\ sheet \in SheetNames
    BY DEF TypeInv, MigrationTypeOK, SpreadsheetTypeOK, SheetNames
  <2>3. \A f \in Seq(Mark) : [f EXCEPT ![line] = "paused"] \in Seq(Mark)
    <3> SUFFICES ASSUME NEW f \in Seq(Mark)
                 PROVE  [f EXCEPT ![line] = "paused"] \in Seq(Mark)
      OBVIOUS
    <3>1. f \in [1..Len(f) -> Mark] /\ Len(f) \in Nat
      OBVIOUS
    <3>2. [f EXCEPT ![line] = "paused"] \in [1..Len(f) -> Mark]
      BY <3>1 DEF Mark
    <3> QED
      BY <3>1, <3>2
  <2>4. marks' \in [SheetNames -> [{"Estado", "EmailSent"} -> Seq(Mark)]]
    BY <2>1, <2>2, <2>3
  <2> QED
    BY <1>1, <1>2, <2>4 DEF PauseLine, TypeInv, MigrationTypeOK, SpreadsheetTypeOK, RegistryTypeOK,
                            MailingTypeOK, registryVars, mailingVars
<1>3. CASE CatalogueRequest
  <2>1. /\ catalogue \in [Catalogues -> SUBSET Entry] /\ removed \subseteq EntryIds
        /\ \A k \in Catalogues : \A d, e \in catalogue[k] : d.id = e.id => d = e
    BY DEF TypeInv, MigrationTypeOK, RegistryTypeOK
  <2>2. /\ "school" \in Catalogues /\ "competency" \in Catalogues
        /\ \A e \in Entry : e.id \in EntryIds /\ [e EXCEPT !.deleted = TRUE] \in Entry
                           /\ [e EXCEPT !.deleted = TRUE].id = e.id
    BY DEF Catalogues, Entry
  <2>3. CASE RemoveSchool
    <3>1. PICK e \in catalogue["school"] :
            /\ catalogue' = [catalogue EXCEPT !["school"] = @ \ {e}]
            /\ removed' = removed \cup {e.id}
      BY <2>3 DEF RemoveSchool
    <3>2. e.id \in EntryIds
      BY <2>1, <2>2
    <3>3. /\ catalogue' \in [Catalogues -> SUBSET Entry] /\ removed' \subseteq EntryIds
          /\ \A k \in Catalogues : \A d, f \in catalogue'[k] : d.id = f.id => d = f
      BY <2>1, <3>1, <3>2
    <3> QED
      BY <1>1, <1>3, <2>3, <3>3 DEF CatalogueRequest, RemoveSchool, TypeInv, MigrationTypeOK,
                              SpreadsheetTypeOK, RegistryTypeOK, MailingTypeOK, mailingVars
  <2>4. CASE RemoveCompetency
    <3>1. PICK e \in catalogue["competency"] :
            catalogue' = [catalogue EXCEPT !["competency"] =
                            Replaced(@, [e EXCEPT !.deleted = TRUE])]
      BY <2>4 DEF RemoveCompetency
    <3> DEFINE new == [e EXCEPT !.deleted = TRUE]
    <3>2. new \in Entry /\ new.id = e.id
      BY <2>1, <2>2
    <3> HIDE DEF new
    <3>3. \A k \in Catalogues : catalogue'[k] =
            IF k = "competency" THEN {d \in catalogue[k] : d.id # new.id} \cup {new}
            ELSE catalogue[k]
      BY <2>1, <3>1 DEF Replaced, new
    <3>4. catalogue' \in [Catalogues -> SUBSET Entry]
      BY <2>1, <2>2, <3>1, <3>2, <3>3 DEF new
    <3>5. \A k \in Catalogues : \A d, f \in catalogue'[k] : d.id = f.id => d = f
      BY <2>1, <3>3
    <3> QED
      BY <1>1, <1>3, <2>1, <2>4, <3>4, <3>5 DEF CatalogueRequest, RemoveCompetency, TypeInv,
           MigrationTypeOK, SpreadsheetTypeOK, RegistryTypeOK, MailingTypeOK, mailingVars
  <2> QED
    BY <1>3, <2>3, <2>4 DEF CatalogueRequest
<1> QED
  BY <1>2, <1>3

\* The process ends.
LEMMA InterruptTyped ==
  ASSUME TypeInv, Interrupt
  PROVE  TypeInv'
<1>1. Halfway(BagToSet(pending)) \subseteq UserIds
  <2>1. \A c \in BagToSet(pending) : c.op \in HalfwayOps => c.user.id \in UserIds
    <3> SUFFICES ASSUME NEW c \in BagToSet(pending), c.op \in HalfwayOps
                 PROVE  c.user.id \in UserIds
      OBVIOUS
    <3>1. c.op \in LineMailOps /\ c.op \in UserOps
      BY DEF HalfwayOps, LineMailOps, MailOps, UserOps
    <3> QED
      BY <3>1, CallIs DEF MailFits, User
  <2> QED
    BY <2>1 DEF Halfway
<1>2. MailingTypeOK' /\ backup' \in BOOLEAN
  BY <1>1 DEF Interrupt, LoseMails, TypeInv, MigrationTypeOK, MailingTypeOK, RegistryTypeOK
<1>3. RegistryTypeOK' /\ SpreadsheetTypeOK' /\ met' \subseteq SUBSET Kinds
  BY <1>2 DEF Interrupt, TypeInv, MigrationTypeOK, RegistryTypeOK, SpreadsheetTypeOK
<1>4. IsABag(pending') /\ BagToSet(pending') = {}
  BY NoCalls DEF Interrupt
<1> QED
  BY <1>2, <1>3, <1>4 DEF TypeInv, MigrationTypeOK

LEMMA TypesAtStart == MigrationInit => TypeInv
<1> SUFFICES ASSUME MigrationInit
             PROVE  TypeInv
  OBVIOUS
<1>1. RegistryTypeOK
  BY RegistryAssumption DEF MigrationInit, RegistryInit, RegistryTypeOK, Catalogues
<1>2. \A s \in SheetNames : Blank(s) \in Seq(Mark)
  <2> SUFFICES ASSUME NEW s \in SheetNames
               PROVE  Blank(s) \in Seq(Mark)
    OBVIOUS
  <2>1. Height(s) \in Nat
    BY SpreadsheetAssumption DEF Height, SheetNames
  <2>2. Blank(s) \in [1..Height(s) -> Mark]
    BY DEF Blank, Mark
  <2> QED
    BY <2>1, <2>2
<1>3. SpreadsheetTypeOK
  BY <1>2 DEF MigrationInit, SpreadsheetInit, SpreadsheetTypeOK
<1>4. MailingTypeOK
  BY DEF MigrationInit, MailingInit, MailingTypeOK
<1> QED
  BY <1>1, <1>3, <1>4, NoCalls DEF TypeInv, MigrationTypeOK, MigrationInit

LEMMA TypesKept == TypeInv /\ [MigrationNext]_migrationVars => TypeInv'
<1> SUFFICES ASSUME TypeInv, [MigrationNext]_migrationVars
             PROVE  TypeInv'
  OBVIOUS
<1>1. CASE MigrationRequest
  BY <1>1, RequestsTyped
<1>2. CASE \/ \E sheet \in ToSet(Sheets) : \E line \in 1..Height(sheet) : PauseLine(sheet, line)
           \/ CatalogueRequest
  BY <1>2, OthersTyped
<1>3. ASSUME NEW c \in BagToSet(pending), Work(c)
      PROVE  TypeInv'
  BY <1>3, AnswerMailTyped, AnswerImportTyped, WriteBackTyped, ReportsTyped DEF Work
<1>4. ASSUME NEW c \in BagToSet(pending), Reject(c)
      PROVE  TypeInv'
  BY <1>4, FailMailTyped, FailImportTyped, ReportsTyped DEF Reject
<1>5. CASE Interrupt
  BY <1>5, InterruptTyped
<1>6. CASE UNCHANGED migrationVars
  BY <1>6 DEF migrationVars, registryVars, mailingVars, TypeInv, MigrationTypeOK, RegistryTypeOK,
              SpreadsheetTypeOK, MailingTypeOK
<1> QED
  BY <1>1, <1>2, <1>3, <1>4, <1>5, <1>6 DEF MigrationNext

LEMMA TypesHold == MigrationSpec => []TypeInv
BY TypesAtStart, TypesKept, PTL DEF MigrationSpec

\* The containers, the files, the marks and the calls under way are always of
\* the types the code takes them to be, whatever the spreadsheet holds and
\* however jobs, reports and interruptions follow one another.
\* (migration.service.ts.)
THEOREM MigrationTypes == MigrationSpec => []MigrationTypeOK
<1>1. TypeInv => MigrationTypeOK
  BY DEF TypeInv
<1> QED
  BY <1>1, TypesHold, PTL
-----------------------------------------------------------------------------
(* Jobs: what follows a call is a call of its job, and a job that never met  *)
(* another of its kind is one call at a time.                                *)

CallsOf(job) == {c \in BagToSet(pending) : c.job = job /\ c.op # "writeBack"}

\* At most one call of a job is under way.
Single(job) == \A c, d \in CallsOf(job) : c = d /\ pending[c] = 1

\* Jobs that did not meet are not under way together.
AloneInv ==
  /\ \A job \in {"mails", "import"} : {job} \notin met => Single(job)
  /\ {"mails", "addresses"} \notin met => CallsOf("mails") = {} \/ CallsOf("addresses") = {}

\* A call with what the walk through the spreadsheet needs.
Walker(c) ==
  /\ c = [f \in DOMAIN c |-> c[f]]
  /\ {"op", "job", "rows", "lines", "results"} \subseteq DOMAIN c

LEMMA WalkersAre == \A c \in MailCall \cup ImportCall : Walker(c)
BY DEF MailCall, ImportCall, Walker

\* The next call of a walk through the spreadsheet.
LEMMA WalkNext ==
  ASSUME NEW c, Walker(c), NEW mark
  PROVE  \A e \in {AtRow(c), AfterRow(c), AtLine(c), AfterLine(c, mark)} :
           e.job = c.job /\ e.op \in {"writeBack", RowOp[c.job], LineOp[c.job]}
<1> DEFINE Rec(d) == Walker(d) /\ d.job = c.job
           Next(e) == e.job = c.job /\ e.op \in {"writeBack", RowOp[c.job], LineOp[c.job]}
<1>1. \A d : Rec(d) => Next(AtRow(d))
  BY DEF AtRow, ToWriteBack, Walker
<1>2. \A d : Rec(d) => Next(AfterRow(d))
  <2> SUFFICES ASSUME NEW d, Rec(d)
               PROVE  Next(AfterRow(d))
    OBVIOUS
  <2> DEFINE e == [d EXCEPT !.rows = @ \ {Min(@)}, !.lines = {}]
  <2>1. Rec(e)
    BY DEF Walker
  <2> HIDE DEF e, Next, Rec
  <2>2. Next(AtRow(e))
    BY <1>1, <2>1
  <2> QED
    BY <2>2 DEF AfterRow, e
<1>3. \A d : Rec(d) => Next(AtLine(d))
  <2> SUFFICES ASSUME NEW d, Rec(d)
               PROVE  Next(AtLine(d))
    OBVIOUS
  <2>1. CASE d.lines = {}
    <3>1. AtLine(d) = AfterRow(d)
      BY <2>1 DEF AtLine
    <3> HIDE DEF Next, Rec
    <3> QED
      BY <1>2, <3>1
  <2>2. CASE d.lines # {}
    BY <2>2 DEF AtLine, Walker
  <2> QED
    BY <2>1, <2>2
<1>4. Next(AfterLine(c, mark))
  <2> DEFINE e == [MarkLine(c, mark) EXCEPT !.lines = @ \ {Min(@)}]
  <2>1. Rec(e)
    BY DEF MarkLine, Walker
  <2> HIDE DEF e, Next, Rec
  <2>2. Next(AtLine(e))
    BY <1>3, <2>1
  <2> QED
    BY <2>2 DEF AfterLine, e
<1>5. Next(AtRow(c)) /\ Next(AfterRow(c)) /\ Next(AtLine(c))
  BY <1>1, <1>2, <1>3
<1> QED
  BY <1>4, <1>5

\* A call is answered by the end of its job or by another call of it.
StaysInJob(c) == Continue(c, {}) \/ \E d : d.job = c.job /\ Continue(c, {d})

\* The same where the walk goes on.
StaysInWalk(c) ==
  \/ Continue(c, {})
  \/ \E d : /\ d.job = c.job /\ d.op \in {"writeBack", RowOp[c.job], LineOp[c.job]}
           /\ Continue(c, {d})

\* The end of a line of the mails leaves nothing of its user.
Plain(d) == d.op \in {"writeBack", "readParticipants", "readProcessed"}

LEMMA EndMailNext ==
  ASSUME NEW c \in MailCall, NEW mark, EndMail(c, mark)
  PROVE  \E d : d.job = "mails" /\ Plain(d) /\ Continue(c, {d})
<1> DEFINE e == [c EXCEPT !.user = None, !.copy = None, !.list = {}, !.password = 0]
           d == AfterLine(e, mark)
<1>1. e \in MailCall
  BY DEF MailCall
<1>2. Continue(c, {d})
  BY DEF EndMail
<1> HIDE DEF e
<1>3. d.job = e.job /\ d.op \in {"writeBack", RowOp[e.job], LineOp[e.job]}
  BY <1>1, WalkNext, WalkersAre
<1> HIDE DEF d
<1>4. e.job = "mails"
  BY <1>1 DEF MailCall
<1> QED
  BY <1>2, <1>3, <1>4 DEF Plain, RowOp, LineOp

LEMMA EndLineNext ==
  ASSUME NEW c \in ImportCall, NEW mark, EndLine(c, mark)
  PROVE  StaysInWalk(c)
<1> DEFINE e == [c EXCEPT !.user = None, !.found = NothingFound]
           d == AfterLine(e, mark)
<1>1. e \in ImportCall /\ e.job = c.job
  BY DEF ImportCall, NothingFound
<1>2. Continue(c, {d})
  BY DEF EndLine
<1> HIDE DEF e
<1>3. d.job = e.job /\ d.op \in {"writeBack", RowOp[e.job], LineOp[e.job]}
  BY <1>1, WalkNext, WalkersAre
<1> HIDE DEF d
<1> QED
  BY <1>1, <1>2, <1>3 DEF StaysInWalk

\* Which calls the answers to an import are about.
LEMMA WhoImports ==
  ASSUME TypeInv, NEW c \in BagToSet(pending), AnswerImport(c) \/ FailImport(c)
  PROVE  c \in CallsOf("import") /\ ImportFits(c) /\ c \in ImportCall
<1>1. ImportFits(c)
  <2>1. CASE ReadImportRows(c) \/ ReadImportLines(c) \/ FailImport(c)
    <3>1. c.job = "import" /\ c.op # "writeBack"
      BY <2>1 DEF ReadImportRows, ReadImportLines, ReadParticipants, FailImport
    <3> QED
      BY <3>1, CallIs
  <2>2. CASE ~(ReadImportRows(c) \/ ReadImportLines(c) \/ FailImport(c))
    <3>1. c.op \in LineOps \cup RowOps
      BY <2>2 DEF AnswerImport, FindTraining, FindName, CreateName, CreateTraining, FindProfessor,
         DeleteUser, FindNamesake, DeleteNamesake, Delete, FindSchool, CreateSchool, FindDuplicate,
         CreateUser, ReadBackup, ReplaceTraining, LineOps, RowOps
    <3> QED
      BY <3>1, CallIs
  <2> QED
    BY <2>1, <2>2
<1>2. c.job = "import" /\ c.op # "writeBack" /\ c \in ImportCall
  BY <1>1 DEF ImportFits, ImportCall, LineOps, RowOps
<1> QED
  BY <1>1, <1>2 DEF CallsOf

\* Which calls those to a report are about.
LEMMA WhoReports ==
  ASSUME NEW c, ServeReport(c) \/ FailReport(c)
  PROVE  c.job = "report"
BY DEF ServeReport, FailReport, ReadTrainings, ReadSchools, ReadUsers, AnswerReport, Asked

LEMMA LinesInJob ==
  ASSUME TypeInv, NEW c \in BagToSet(pending), ReadMailLines(c) \/ ReadImportLines(c)
  PROVE  StaysInWalk(c)
<1> DEFINE Next(d) == d.job = c.job /\ d.op \in {"writeBack", RowOp[c.job], LineOp[c.job]}
<1>1. c \in MailCall \cup ImportCall
  BY CallIs DEF ReadMailLines, ReadImportLines, ReadParticipants, MailFits, ImportFits
<1>2. \A errors, open :
        Next(AtLine([c EXCEPT !.results[Code(c)] = errors, !.lines = open]))
  <2> SUFFICES ASSUME NEW errors, NEW open
               PROVE  Next(AtLine([c EXCEPT !.results[Code(c)] = errors, !.lines = open]))
    OBVIOUS
  <2> DEFINE d == [c EXCEPT !.results[Code(c)] = errors, !.lines = open]
  <2>1. Walker(d) /\ d.job = c.job
    BY <1>1, WalkersAre DEF Walker
  <2> HIDE DEF d
  <2>2. Next(AtLine(d))
    BY <2>1, WalkNext
  <2> QED
    BY <2>2 DEF d
<1> QED
  BY <1>2 DEF ReadMailLines, ReadImportLines, ReadParticipants, StaysInWalk
LEMMA RowsInJob ==
  ASSUME TypeInv, NEW c \in BagToSet(pending), ReadMailRows(c)
  PROVE  StaysInWalk(c)
<1> DEFINE Next(d) == d.job = c.job /\ d.op \in {"writeBack", RowOp[c.job], LineOp[c.job]}
<1>1. c \in MailCall
  BY CallIs DEF ReadMailRows, MailFits
<1>2. \A open, r : Next(AtRow([c EXCEPT !.rows = open, !.results[FirstSheet] = r]))
  <2> SUFFICES ASSUME NEW open, NEW r
               PROVE  Next(AtRow([c EXCEPT !.rows = open, !.results[FirstSheet] = r]))
    OBVIOUS
  <2> DEFINE d == [c EXCEPT !.rows = open, !.results[FirstSheet] = r]
  <2>1. Walker(d) /\ d.job = c.job
    BY <1>1, WalkersAre DEF Walker
  <2> HIDE DEF d
  <2>2. Next(AtRow(d))
    BY <2>1, WalkNext
  <2> QED
    BY <2>2 DEF d
<1> QED
  BY <1>2 DEF ReadMailRows, StaysInWalk

LEMMA MailsInJob ==
  ASSUME TypeInv, NEW c \in BagToSet(pending), AnswerMail(c) \/ FailMail(c)
  PROVE  StaysInJob(c)
<1>1. CASE Continue(c, {})
  BY <1>1 DEF StaysInJob
<1>2. \A mark : c \in MailCall /\ EndMail(c, mark) => StaysInJob(c)
  BY EndMailNext DEF StaysInJob, MailCall
<1>3. CASE ReadMailRows(c)
  BY <1>3, RowsInJob DEF StaysInWalk, StaysInJob
<1>4. CASE ReadMailLines(c)
  BY <1>4, LinesInJob DEF StaysInWalk, StaysInJob
<1>5. CASE \/ ReadProcessed(c) \/ FindAddress(c) \/ FindDocument(c)
           \/ ReadForPassword(c) \/ ReplacePassword(c) \/ ReadForEmail(c) \/ ReplaceEmail(c)
           \/ SendMail(c) \/ ReadForAppend(c) \/ WriteAppend(c)
  <2>1. c.op \in LineMailOps
    BY <1>5 DEF ReadProcessed, FindAddress, FindDocument, ReadForPassword, ReplacePassword,
       ReadForEmail, ReplaceEmail, ReadUserFor, SendMail, ReadForAppend, WriteAppend,
       LineMailOps, MailOps
  <2>2. c \in MailCall
    BY <2>1, CallIs DEF MailFits
  <2>3. \A op, list : [c EXCEPT !.op = op].job = c.job /\ [c EXCEPT !.op = op, !.list = list].job = c.job
    BY <2>2 DEF MailCall
  <2>4. \A op, copy : [c EXCEPT !.op = op, !.copy = copy].job = c.job
    BY <2>2 DEF MailCall
  <2>5. \A op, user, list, password :
          [c EXCEPT !.op = op, !.user = user, !.list = list, !.password = password].job = c.job
    BY <2>2 DEF MailCall
  <2>6. CASE ReadProcessed(c) \/ FindAddress(c) \/ FindDocument(c)
    <3>1. CASE ReadProcessed(c) \/ FindAddress(c)
      BY <1>2, <2>2, <2>3, <3>1 DEF ReadProcessed, FindAddress, NoMailDue, StaysInJob
    <3>2. CASE FindDocument(c)
      <4>1. \/ \E mark : EndMail(c, mark)
            \/ \E user, password : Continue(c, {[c EXCEPT !.op = "readForPassword", !.user = user,
                                                         !.list = {}, !.password = password]})
        BY <3>2 DEF FindDocument, NoMailDue
      <4>2. ASSUME NEW user, NEW password,
                   Continue(c, {[c EXCEPT !.op = "readForPassword", !.user = user,
                                          !.list = {}, !.password = password]})
            PROVE  StaysInJob(c)
        <5> DEFINE d == [c EXCEPT !.op = "readForPassword", !.user = user,
                                  !.list = {}, !.password = password]
        <5>1. d.job = c.job /\ Continue(c, {d})
          BY <2>5, <4>2
        <5> HIDE DEF d
        <5> QED
          BY <5>1 DEF StaysInJob
      <4> QED
        BY <1>2, <2>2, <4>1, <4>2
    <3> QED
      BY <2>6, <3>1, <3>2
  <2>7. CASE ReadForPassword(c) \/ ReplacePassword(c) \/ ReadForEmail(c) \/ ReplaceEmail(c)
    BY <1>2, <2>2, <2>4, <2>7
       DEF ReadForPassword, ReplacePassword, ReadForEmail, ReplaceEmail, ReadUserFor, StaysInJob
  <2>8. CASE SendMail(c) \/ ReadForAppend(c) \/ WriteAppend(c)
    BY <1>2, <2>2, <2>3, <2>8 DEF SendMail, ReadForAppend, WriteAppend, StaysInJob
  <2> QED
    BY <1>5, <2>6, <2>7, <2>8
<1>6. CASE ListUsers(c) \/ ReadUser(c) \/ ReplaceAddress(c) \/ WriteUsers(c)
  <2>1. c \in AddressCall
    BY <1>6, CallIs DEF ListUsers, ReadUser, ReplaceAddress, WriteUsers, AddressFits
  <2>2. \A left, op : [c EXCEPT !.op = op, !.left = left].job = c.job
    BY <2>1 DEF AddressCall
  <2>3. \A w, op, copy : [c EXCEPT !.op = op, !.left = @ \ {w}, !.copy = copy].job = c.job
    BY <2>1 DEF AddressCall
  <2>4. \A op : [c EXCEPT !.op = op].job = c.job
             /\ [[c EXCEPT !.copy = None] EXCEPT !.op = op].job = c.job
    BY <2>1 DEF AddressCall
  <2>5. CASE ListUsers(c)
    BY <2>2, <2>5 DEF ListUsers, StaysInJob
  <2>6. CASE ReadUser(c)
    BY <2>3, <2>6 DEF ReadUser, StaysInJob
  <2>7. CASE ReplaceAddress(c) \/ WriteUsers(c)
    BY <2>4, <2>7 DEF ReplaceAddress, WriteUsers, AtUser, StaysInJob
  <2> QED
    BY <1>6, <2>5, <2>6, <2>7
<1>7. CASE FailMail(c)
  <2>1. c.job = "mails" /\ c.op # "writeBack" => c \in MailCall
    BY CallIs DEF MailFits
  <2> QED
    BY <1>1, <1>2, <1>7, <2>1 DEF FailMail
<1> QED
  BY <1>3, <1>4, <1>5, <1>6, <1>7 DEF AnswerMail

\* The rows of an import lead to other rows or to the lines of one.
LEMMA ImportRowsNext ==
  ASSUME TypeInv, NEW c \in BagToSet(pending),
         \/ ReadImportRows(c) \/ FindTraining(c) \/ FindName(c) \/ CreateName(c)
         \/ CreateTraining(c)
         \/ FailImport(c) /\ ~EndLine(c, "error")
  PROVE  \/ Continue(c, {})
         \/ \E d : /\ d.job = c.job /\ d.op \in RowOps \cup {"readParticipants", "writeBack"}
                   /\ Continue(c, {d})
<1> DEFINE Good(d) == d.job = c.job /\ d.op \in RowOps \cup {"readParticipants", "writeBack"}
           Goal == Continue(c, {}) \/ \E d : Good(d) /\ Continue(c, {d})
<1>1. c \in ImportCall
  BY WhoImports DEF AnswerImport
<1>2. \A d : Walker(d) /\ d.job = c.job => Good(AtRow(d))
  BY <1>1 DEF AtRow, ToWriteBack, Walker, RowOps, ImportCall, RowOp
<1>3. \A d : Walker(d) /\ d.job = c.job => Good(AfterRow(d))
  <2> SUFFICES ASSUME NEW d, Walker(d), d.job = c.job
               PROVE  Good(AfterRow(d))
    OBVIOUS
  <2> DEFINE e == [d EXCEPT !.rows = @ \ {Min(@)}, !.lines = {}]
  <2>1. Walker(e) /\ e.job = c.job
    BY DEF Walker
  <2> HIDE DEF e, Good
  <2>2. Good(AtRow(e))
    BY <1>2, <2>1
  <2> QED
    BY <2>2 DEF AfterRow, e
<1>4. \A mark : Walker(MarkRow(c, mark)) /\ MarkRow(c, mark).job = c.job
  BY <1>1 DEF MarkRow, Walker, ImportCall
<1>5. \A training : Good(AtParticipants(c, training))
  <2> SUFFICES ASSUME NEW training
               PROVE  Good(AtParticipants(c, training))
    OBVIOUS
  <2> DEFINE d == [MarkRow(c, "success") EXCEPT !.training = training, !.found = NothingFound]
  <2>1. Walker(d) /\ d.job = c.job
    BY <1>4 DEF Walker
  <2>2. AtParticipants(c, training) =
          IF HasSheet(Code(c)) THEN [d EXCEPT !.op = "readParticipants"] ELSE AfterRow(d)
    BY DEF AtParticipants
  <2> HIDE DEF d
  <2>3. Good([d EXCEPT !.op = "readParticipants"])
    BY <2>1 DEF Walker
  <2> HIDE DEF Good
  <2> QED
    BY <1>3, <2>1, <2>2, <2>3
<1>6. \A d : d \in ImportCall => Good(AtNames(d))
  BY <1>1 DEF AtNames, RowOps, ImportCall
<1>7. CASE ReadImportRows(c)
  <2>1. \A open, r : Good(AtRow([c EXCEPT !.rows = open, !.results[FirstSheet] = r]))
    <3> SUFFICES ASSUME NEW open, NEW r
                 PROVE  Good(AtRow([c EXCEPT !.rows = open, !.results[FirstSheet] = r]))
      OBVIOUS
    <3> DEFINE d == [c EXCEPT !.rows = open, !.results[FirstSheet] = r]
    <3>1. Walker(d) /\ d.job = c.job
      BY <1>1 DEF ImportCall, Walker
    <3> HIDE DEF d, Good
    <3>2. Good(AtRow(d))
      BY <1>2, <3>1
    <3> QED
      BY <3>2 DEF d
  <2> HIDE DEF Good
  <2>2. Goal
    BY <1>7, <2>1 DEF ReadImportRows
  <2> QED
    BY <2>2 DEF Good
<1>8. CASE FindTraining(c)
  <2>1. Good([c EXCEPT !.op = "findNames", !.asked = Catalogues])
    BY <1>1 DEF ImportCall, RowOps
  <2> HIDE DEF Good
  <2>2. Goal
    BY <1>5, <1>8, <2>1 DEF FindTraining
  <2> QED
    BY <2>2 DEF Good
<1>9. CASE FindName(c) \/ CreateName(c)
  <2>1. \A kind, id :
          LET d == [c EXCEPT !.asked = @ \ {kind}, !.found[kind] = id]
              e == [c EXCEPT !.found[kind] = id] IN
          d.job = c.job /\ d.op = c.op /\ Good(AtNames(d)) /\ Good(AtNames(e))
    BY <1>1 DEF ImportCall, AtNames, RowOps
  <2>2. CASE CreateName(c)
    <3> HIDE DEF Good
    <3>1. Goal
      BY <2>1, <2>2 DEF CreateName
    <3> QED
      BY <3>1 DEF Good
  <2>3. CASE FindName(c)
    <3>1. PICK kind, id :
            LET d == [c EXCEPT !.asked = @ \ {kind}, !.found[kind] = id] IN
            Continue(c, {IF d.asked = {} THEN AtNames(d) ELSE d})
      BY <2>3 DEF FindName
    <3> DEFINE d == [c EXCEPT !.asked = @ \ {kind}, !.found[kind] = id]
               e == IF d.asked = {} THEN AtNames(d) ELSE d
    <3>2. Good(e)
      BY <2>1, <2>3 DEF FindName, RowOps
    <3>3. Continue(c, {e})
      BY <3>1
    <3> HIDE DEF e
    <3> QED
      BY <3>2, <3>3
  <2> QED
    BY <1>9, <2>2, <2>3
<1>10. CASE CreateTraining(c)
  <2> HIDE DEF Good
  <2>1. Goal
    BY <1>5, <1>10 DEF CreateTraining
  <2> QED
    BY <2>1 DEF Good
<1>11. CASE FailImport(c) /\ ~EndLine(c, "error")
  <2> DEFINE d == [MarkRow(c, "error") EXCEPT !.found = NothingFound, !.asked = {}]
  <2>1. Walker(d) /\ d.job = c.job
    BY <1>4 DEF Walker
  <2>2. Continue(c, {}) \/ Continue(c, {AfterRow(d)})
    BY <1>11 DEF FailImport
  <2> HIDE DEF d, Good
  <2>3. Good(AfterRow(d))
    BY <1>3, <2>1
  <2>4. Goal
    BY <2>2, <2>3
  <2> QED
    BY <2>4 DEF Good
<1> QED
  BY <1>7, <1>8, <1>9, <1>10, <1>11

LEMMA ImportsInJob ==
  ASSUME TypeInv, NEW c \in BagToSet(pending), AnswerImport(c) \/ FailImport(c)
  PROVE  StaysInJob(c)
<1>1. c \in ImportCall
  BY WhoImports
<1>2. \A mark : EndLine(c, mark) => StaysInJob(c)
  BY <1>1, EndLineNext DEF StaysInWalk, StaysInJob
<1>3. CASE \/ ReadImportRows(c) \/ FindTraining(c) \/ FindName(c) \/ CreateName(c)
           \/ CreateTraining(c) \/ FailImport(c)
  BY <1>2, <1>3, ImportRowsNext DEF StaysInJob
<1>4. CASE ReadImportLines(c)
  BY <1>4, LinesInJob DEF StaysInWalk, StaysInJob
<1>5. \A op, user : [c EXCEPT !.op = op].job = c.job /\ [c EXCEPT !.op = op, !.user = user].job = c.job
  BY <1>1 DEF ImportCall
<1>6. \A op, school : [c EXCEPT !.op = op, !.found["school"] = school].job = c.job
  BY <1>1 DEF ImportCall
<1>7. \A user : AtEnrolment(c, user) => StaysInJob(c)
  <2>1. \A user, training : [c EXCEPT !.op = "replaceTraining", !.user = None,
                              !.found = NothingFound, !.training = training].job = c.job
    BY <1>1 DEF ImportCall
  <2> QED
    BY <1>2, <2>1 DEF AtEnrolment, StaysInJob
<1>8. CASE FindProfessor(c) \/ FindNamesake(c)
  BY <1>5, <1>7, <1>8 DEF FindProfessor, FindNamesake, StaysInJob
<1>9. CASE DeleteUser(c) \/ DeleteNamesake(c)
  BY <1>2, <1>5, <1>9 DEF DeleteUser, DeleteNamesake, Delete, StaysInJob
<1>10. \A school : AtCreation(c, school) => StaysInJob(c)
  BY <1>2, <1>6 DEF AtCreation, StaysInJob
<1>11. CASE FindSchool(c) \/ CreateSchool(c)
  BY <1>5, <1>10, <1>11 DEF FindSchool, CreateSchool, StaysInJob
<1>12. CASE FindDuplicate(c) \/ CreateUser(c)
  BY <1>2, <1>5, <1>12 DEF FindDuplicate, CreateUser, StaysInJob
<1>13. CASE ReadBackup(c) \/ ReplaceTraining(c)
  BY <1>2, <1>7, <1>13 DEF ReadBackup, ReplaceTraining
<1> QED
  BY <1>3, <1>4, <1>8, <1>9, <1>11, <1>12, <1>13 DEF AnswerImport

LEMMA StaysInItsJob ==
  ASSUME TypeInv, NEW c \in BagToSet(pending), Work(c) \/ Reject(c)
  PROVE  StaysInJob(c) /\ met' = met /\ (c.op = "writeBack" => Continue(c, {}))
<1>1. ASSUME WriteBack(c)
      PROVE  StaysInJob(c)
  BY <1>1 DEF WriteBack, StaysInJob
<1>2. ASSUME ServeReport(c) \/ FailReport(c)
      PROVE  StaysInJob(c)
  <2>1. CASE Continue(c, {})
    BY <2>1 DEF StaysInJob
  <2>2. CASE ReadTrainings(c) \/ ReadSchools(c) \/ ReadUsers(c)
    <3>1. c \in ReportCall
      BY <2>2, CallIs DEF ReadTrainings, ReadSchools, ReadUsers, Asked
    <3>2. \A d, container : d \in ReportCall => [d EXCEPT !.asked = @ \ {container}].job = "report"
      BY DEF ReportCall
    <3>3. \A d : d = [f \in DOMAIN d |-> d[f]] /\ {"job", "asked"} \subseteq DOMAIN d =>
            \A container : [d EXCEPT !.asked = @ \ {container}].job = d.job
      OBVIOUS
    <3>4. \A ts : LET d == [c EXCEPT !.trainings = ts] IN
            d = [f \in DOMAIN d |-> d[f]] /\ {"job", "asked"} \subseteq DOMAIN d /\ d.job = c.job
      BY <3>1 DEF ReportCall
    <3>5. \A ss : LET d == [c EXCEPT !.schools = ss] IN
            d = [f \in DOMAIN d |-> d[f]] /\ {"job", "asked"} \subseteq DOMAIN d /\ d.job = c.job
      BY <3>1 DEF ReportCall
    <3>6. \A us : LET d == [c EXCEPT !.users = us] IN
            d = [f \in DOMAIN d |-> d[f]] /\ {"job", "asked"} \subseteq DOMAIN d /\ d.job = c.job
      BY <3>1 DEF ReportCall
    <3>7. ASSUME NEW d, d = [f \in DOMAIN d |-> d[f]], {"job", "asked"} \subseteq DOMAIN d,
                 d.job = c.job, NEW container, Read(c, d, container)
          PROVE  StaysInJob(c)
      BY <3>3, <3>7 DEF Read, StaysInJob
    <3> QED
      BY <2>2, <3>4, <3>5, <3>6, <3>7 DEF ReadTrainings, ReadSchools, ReadUsers
  <2> QED
    BY <1>2, <2>1, <2>2 DEF ServeReport, FailReport, AnswerReport
<1>3. ASSUME c.op = "writeBack", ~Continue(c, {})
      PROVE  FALSE
  <2>1. c.job # "report"
    BY <1>3, CallIs DEF WriteBackCall, Jobs, Column
  <2>2. ~WriteBack(c) /\ ~FailReport(c) /\ ~ServeReport(c)
    BY <1>3, <2>1 DEF WriteBack, FailReport, ServeReport, AnswerReport, ReadTrainings, ReadSchools,
                      ReadUsers, Asked
  <2>3. ~FailMail(c) /\ ~FailImport(c)
    BY <1>3 DEF FailMail, FailImport
  <2>4. ~AnswerMail(c)
    BY <1>3 DEF AnswerMail, ReadMailRows, ReadMailLines, ReadParticipants, ReadProcessed,
       FindAddress, FindDocument, ReadForPassword, ReplacePassword, ReadForEmail, ReplaceEmail,
       ReadUserFor, SendMail, ReadForAppend, WriteAppend, ListUsers, WriteUsers, ReadUser,
       ReplaceAddress
  <2>5. ~AnswerImport(c)
    BY <1>3 DEF AnswerImport, ReadImportRows, ReadImportLines, ReadParticipants, FindTraining,
       FindName, CreateName, CreateTraining, FindProfessor, DeleteUser, FindNamesake,
       DeleteNamesake, Delete, FindSchool, CreateSchool, FindDuplicate, CreateUser, ReadBackup,
       ReplaceTraining
  <2> QED
    BY <2>2, <2>3, <2>4, <2>5 DEF Work, Reject
<1> QED
  BY <1>1, <1>2, <1>3, MailsInJob, ImportsInJob DEF Work, Reject
\* A job that is one call is the call that follows, if any does.
LEMMA OneCallNext ==
  ASSUME IsABag(pending), NEW job, Single(job), NEW c \in CallsOf(job), NEW new, Continue(c, new)
  PROVE  CallsOf(job)' = {d \in new : d.job = job /\ d.op # "writeBack"}
<1>1. BagToSet(pending') = Others(c) \cup new
  BY ContinueLeaves
<1>2. Others(c) = {d \in BagToSet(pending) : d # c \/ pending[d] > 1}
  BY OthersAre DEF Others
<1>3. \A d \in Others(c) : d \notin CallsOf(job)
  BY <1>2 DEF Single, CallsOf
<1> QED
  BY <1>1, <1>2, <1>3 DEF CallsOf

\* Calls of other jobs are not affected.
LEMMA OtherCallsSame ==
  ASSUME IsABag(pending), NEW job, NEW c \in BagToSet(pending), c \notin CallsOf(job),
         NEW new, Continue(c, new), \A d \in new : d.job # job \/ d.op = "writeBack"
  PROVE  CallsOf(job)' = CallsOf(job) /\ (Single(job) => Single(job)')
<1>1. CallsOf(job)' = CallsOf(job)
  BY ContinueCalls DEF CallsOf
<1>2. \A d \in CallsOf(job) : pending'[d] = pending[d]
  BY ContinueCounts DEF CallsOf
<1> QED
  BY <1>1, <1>2 DEF Single

\* A request of a job, and what it meets.
Sends(job) == Meets(job) /\ \E d : Start({d}) /\ d.job = job /\ d.op # "writeBack"

LEMMA RequestsSend ==
  ASSUME MigrationRequest
  PROVE  \/ Sends("mails") /\ SendMails
         \/ Sends("addresses") /\ UpdateMails
         \/ Sends("import") /\ MigrateFromExcel
         \/ Sends("report") /\ ReportRequest
<1>1. SendMails => \E d : Start({d}) /\ d.job = "mails" /\ d.op # "writeBack"
  <2> DEFINE d == [op |-> "readTrainings", job |-> "mails", rows |-> {}, lines |-> {},
                   results |-> [s \in SheetNames |-> <<>>],
                   user |-> None, copy |-> None, list |-> {}, password |-> 0]
  <2>1. d.job = "mails" /\ d.op # "writeBack" /\ (SendMails => Start({d}))
    BY DEF SendMails
  <2> HIDE DEF d
  <2> QED
    BY <2>1
<1>2. UpdateMails => \E d : Start({d}) /\ d.job = "addresses" /\ d.op # "writeBack"
  <2> DEFINE d == [op |-> "listUsers", job |-> "addresses", left |-> {}, copy |-> None]
  <2>1. d.job = "addresses" /\ d.op # "writeBack" /\ (UpdateMails => Start({d}))
    BY DEF UpdateMails
  <2> HIDE DEF d
  <2> QED
    BY <2>1
<1>3. MigrateFromExcel => \E d : Start({d}) /\ d.job = "import" /\ d.op # "writeBack"
  <2> DEFINE d == [op |-> "readTrainings", job |-> "import", rows |-> {}, lines |-> {},
                   results |-> [s \in SheetNames |-> <<>>], training |-> None,
                   found |-> NothingFound, asked |-> {}, user |-> None]
  <2>1. d.job = "import" /\ d.op # "writeBack" /\ (MigrateFromExcel => Start({d}))
    BY DEF MigrateFromExcel
  <2> HIDE DEF d
  <2> QED
    BY <2>1
<1>4. ReportRequest => \E d : Start({d}) /\ d.job = "report" /\ d.op # "writeBack"
  <2> SUFFICES ASSUME ReportRequest
               PROVE  \E d : Start({d}) /\ d.job = "report" /\ d.op # "writeBack"
    OBVIOUS
  <2>1. PICK key, op : op \in {"bySchool", "attendance"} /\
          Start({[op |-> op, job |-> "report", key |-> key, asked |-> ToSet(Containers),
                  trainings |-> {}, schools |-> {}, users |-> {}]})
    BY DEF ReportRequest
  <2> DEFINE d == [op |-> op, job |-> "report", key |-> key, asked |-> ToSet(Containers),
                   trainings |-> {}, schools |-> {}, users |-> {}]
  <2>2. d.job = "report" /\ d.op # "writeBack" /\ Start({d})
    BY <2>1
  <2> HIDE DEF d
  <2> QED
    BY <2>2
<1> QED
  BY <1>1, <1>2, <1>3, <1>4 DEF MigrationRequest, Sends

\* A request adds its call to those under way.
LEMMA SendCalls ==
  ASSUME IsABag(pending), NEW job, NEW d, Start({d}), d.job = job, d.op # "writeBack"
  PROVE  /\ CallsOf(job)' = CallsOf(job) \cup {d}
         /\ \A k : k # job => CallsOf(k)' = CallsOf(k) /\ (Single(k) => Single(k)')
         /\ CallsOf(job) = {} => Single(job)'
<1>1. BagToSet(pending') = BagToSet(pending) \cup {d}
  BY StartCalls
<1>2. /\ d \notin BagToSet(pending) => pending'[d] = 1
      /\ \A e \in BagToSet(pending) : e # d => pending'[e] = pending[e]
  BY StartCounts
<1>3. CallsOf(job)' = CallsOf(job) \cup {d}
  BY <1>1 DEF CallsOf
<1>4. ASSUME NEW k, k # job
      PROVE  CallsOf(k)' = CallsOf(k) /\ (Single(k) => Single(k)')
  <2>1. CallsOf(k)' = CallsOf(k) /\ d \notin CallsOf(k)
    BY <1>1, <1>4 DEF CallsOf
  <2>2. \A e \in CallsOf(k) : pending'[e] = pending[e]
    BY <1>2, <2>1 DEF CallsOf
  <2> QED
    BY <2>1, <2>2 DEF Single
<1>5. ASSUME CallsOf(job) = {}
      PROVE  Single(job)'
  <2>1. d \notin BagToSet(pending)
    BY <1>5 DEF CallsOf
  <2> QED
    BY <1>2, <1>3, <1>5, <2>1 DEF Single
<1> QED
  BY <1>3, <1>4, <1>5

\* What a job meets: the calls that are under way.
LEMMA MeetsCalls ==
  ASSUME NEW job, NEW k, Meets(job), CallsOf(k) # {}
  PROVE  {job, k} \in met'
BY DEF Meets, UnderWay, CallsOf

LEMMA AloneKept == TypeInv /\ AloneInv /\ [MigrationNext]_migrationVars => AloneInv'
<1> SUFFICES ASSUME TypeInv, AloneInv, [MigrationNext]_migrationVars
             PROVE  AloneInv'
  OBVIOUS
<1>1. IsABag(pending)
  BY DEF TypeInv, MigrationTypeOK
<1>2. ASSUME NEW job \in {"mails", "addresses", "import", "report"}, Sends(job)
      PROVE  AloneInv'
  <2>1. PICK d : Start({d}) /\ d.job = job /\ d.op # "writeBack"
    BY <1>2 DEF Sends
  <2>2. met \subseteq met' /\ \A k : CallsOf(k) # {} => {job, k} \in met'
    BY <1>2, MeetsCalls DEF Sends, Meets
  <2>3. /\ CallsOf(job)' = CallsOf(job) \cup {d}
        /\ \A k : k # job => CallsOf(k)' = CallsOf(k) /\ (Single(k) => Single(k)')
        /\ CallsOf(job) = {} => Single(job)'
    BY <1>1, <2>1, SendCalls
  <2>4. {job, job} = {job} /\ {"mails", "addresses"} = {"addresses", "mails"}
    OBVIOUS
  <2>5. ASSUME NEW k \in {"mails", "import"}, {k} \notin met'
        PROVE  Single(k)'
    <3>1. CASE k = job
      BY <2>2, <2>3, <2>4, <2>5, <3>1
    <3>2. CASE k # job
      BY <2>2, <2>3, <2>5, <3>2 DEF AloneInv
    <3> QED
      BY <3>1, <3>2
  <2>6. ASSUME {"mails", "addresses"} \notin met'
        PROVE  CallsOf("mails")' = {} \/ CallsOf("addresses")' = {}
    <3>1. CallsOf("mails") = {} \/ CallsOf("addresses") = {}
      BY <2>2, <2>6 DEF AloneInv
    <3>2. CASE job = "mails"
      BY <2>2, <2>3, <2>6, <3>2
    <3>3. CASE job = "addresses"
      BY <2>2, <2>3, <2>4, <2>6, <3>3
    <3>4. CASE job \notin {"mails", "addresses"}
      BY <2>3, <3>1, <3>4
    <3> QED
      BY <3>2, <3>3, <3>4
  <2> QED
    BY <2>5, <2>6 DEF AloneInv
<1>3. ASSUME NEW c \in BagToSet(pending), StaysInJob(c), met' = met,
             c.op = "writeBack" => Continue(c, {})
      PROVE  AloneInv'
  <2>1. PICK new : /\ Continue(c, new)
                   /\ new = {} \/ (c.op # "writeBack" /\ \E d : new = {d} /\ d.job = c.job)
    BY <1>3 DEF StaysInJob
  <2>2. ASSUME NEW k, c \notin CallsOf(k)
        PROVE  CallsOf(k)' = CallsOf(k) /\ (Single(k) => Single(k)')
    <3>1. \A d \in new : d.job # k \/ d.op = "writeBack"
      BY <2>1, <2>2 DEF CallsOf
    <3> QED
      BY <1>1, <2>1, <2>2, <3>1, OtherCallsSame
  <2>3. ASSUME NEW k, c \in CallsOf(k), Single(k)
        PROVE  Single(k)'
    <3>1. CallsOf(k)' = {d \in new : d.job = k /\ d.op # "writeBack"}
      BY <1>1, <2>1, <2>3, OneCallNext
    <3>2. ASSUME NEW d \in CallsOf(k)'
          PROVE  new = {d} /\ pending'[d] = 1
      <4>1. new = {d}
        BY <2>1, <3>1, <3>2
      <4>2. d \in BagToSet(pending) => d = c /\ pending[c] = 1
        BY <2>3, <3>1, <3>2 DEF CallsOf, Single
      <4> QED
        BY <1>1, <2>1, <4>1, <4>2, ContinueOnce
    <3> QED
      BY <3>2 DEF Single
  <2> QED
    BY <1>3, <2>2, <2>3 DEF AloneInv
<1>4. CASE BagToSet(pending') = {}
  BY <1>4 DEF AloneInv, CallsOf, Single
<1>5. CASE pending' = pending /\ met' = met
  BY <1>5 DEF AloneInv, CallsOf, Single
<1>6. CASE MigrationRequest
  BY <1>2, <1>6, RequestsSend
<1>7. ASSUME NEW c \in BagToSet(pending), Work(c) \/ Reject(c)
      PROVE  AloneInv'
  BY <1>3, <1>7, StaysInItsJob
<1>8. CASE Interrupt
  BY <1>4, <1>8, NoCalls DEF Interrupt
<1>9. CASE UNCHANGED migrationVars
  BY <1>5, <1>9 DEF migrationVars
<1>10. CASE \/ \E sheet \in ToSet(Sheets) : \E line \in 1..Height(sheet) : PauseLine(sheet, line)
            \/ CatalogueRequest
  BY <1>5, <1>10 DEF PauseLine, CatalogueRequest
<1> QED
  BY <1>6, <1>7, <1>8, <1>9, <1>10 DEF MigrationNext

LEMMA AloneAtStart == MigrationInit => AloneInv
BY NoCalls DEF MigrationInit, AloneInv, Single, CallsOf

LEMMA AloneHolds == MigrationSpec => [](TypeInv /\ AloneInv)
<1>1. MigrationInit => TypeInv /\ AloneInv
  BY TypesAtStart, AloneAtStart
<1>2. TypeInv /\ AloneInv /\ [MigrationNext]_migrationVars => (TypeInv /\ AloneInv)'
  BY TypesKept, AloneKept
<1> QED
  BY <1>1, <1>2, PTL DEF MigrationSpec
-----------------------------------------------------------------------------
(* One mail for each user. *)

\* A step of one job leaves the calls of another as they are.
LEMMA JobSame ==
  ASSUME TypeInv, NEW c \in BagToSet(pending), Work(c) \/ Reject(c), NEW k, c \notin CallsOf(k)
  PROVE  CallsOf(k)' = CallsOf(k)
<1>1. IsABag(pending)
  BY DEF TypeInv, MigrationTypeOK
<1>2. PICK new : /\ Continue(c, new)
                 /\ new = {} \/ (c.op # "writeBack" /\ \E d : new = {d} /\ d.job = c.job)
  BY StaysInItsJob DEF StaysInJob
<1>3. \A d \in new : d.job # k \/ d.op = "writeBack"
  BY <1>2 DEF CallsOf
<1> QED
  BY <1>1, <1>2, <1>3, OtherCallsSame

MailWork(c) ==
  \/ ReadMailRows(c) \/ ReadMailLines(c) \/ ReadProcessed(c) \/ FindAddress(c)
  \/ FindDocument(c) \/ ReadForPassword(c) \/ ReplacePassword(c) \/ ReadForEmail(c)
  \/ ReplaceEmail(c) \/ SendMail(c) \/ ReadForAppend(c) \/ WriteAppend(c)

AddressWork(c) == ListUsers(c) \/ WriteUsers(c) \/ ReadUser(c) \/ ReplaceAddress(c)

\* Which calls the answers to the jobs on mails are about.
LEMMA WhoMails ==
  ASSUME TypeInv, NEW c \in BagToSet(pending), AnswerMail(c)
  PROVE  \/ MailWork(c) /\ c \in CallsOf("mails") /\ MailFits(c) /\ c \in MailCall
         \/ AddressWork(c) /\ c \in CallsOf("addresses") /\ c \in AddressCall
<1>1. CASE MailWork(c)
  <2>1. \/ c.op \in LineMailOps
        \/ c.op \in {"readTrainings", "readParticipants"} /\ c.job = "mails"
    BY <1>1 DEF MailWork, ReadMailRows, ReadMailLines, ReadParticipants, ReadProcessed,
       FindAddress, FindDocument, ReadForPassword, ReplacePassword, ReadForEmail, ReplaceEmail,
       ReadUserFor, SendMail, ReadForAppend, WriteAppend, LineMailOps, MailOps
  <2>2. MailFits(c)
    BY <2>1, CallIs
  <2>3. c \in MailCall /\ c.job = "mails" /\ c.op # "writeBack"
    BY <2>2 DEF MailFits, MailCall, MailOps
  <2> QED
    BY <1>1, <2>2, <2>3 DEF CallsOf
<1>2. CASE AddressWork(c)
  <2>1. c \in AddressCall
    BY <1>2, CallIs DEF AddressWork, ListUsers, WriteUsers, ReadUser, ReplaceAddress, AddressFits
  <2>2. c.job = "addresses" /\ c.op # "writeBack"
    BY <2>1 DEF AddressCall
  <2> QED
    BY <1>2, <2>1, <2>2 DEF CallsOf
<1> QED
  BY <1>1, <1>2 DEF AnswerMail, MailWork, AddressWork

\* A job of mails that is at a user has not sent him one before: what it read
\* of already-users.json was all there is in it.
MailedInv ==
  {"mails"} \notin met =>
    /\ \A c \in CallsOf("mails") :
         /\ c.op \in {"findAddress", "findDocument", "writeAppend"} => processed \subseteq c.list
         /\ c.op \in {"readForPassword", "replacePassword", "readForEmail", "replaceEmail",
                      "sendMail"} => c.user.id \notin processed
    /\ \A m \in mails :
         \/ m.user \in processed \cup halfway
         \/ \E c \in CallsOf("mails") :
              c.op \in {"readForAppend", "writeAppend"} /\ c.user.id = m.user
    /\ \A m, n \in mails : m.user = n.user /\ m # n => m.user \in halfway

\* Other calls do not matter to it,
LEMMA MailedFrame ==
  ASSUME MailedInv, CallsOf("mails")' = CallsOf("mails"), processed' = processed, mails' = mails,
         halfway \subseteq halfway', met \subseteq met'
  PROVE  MailedInv'
BY DEF MailedInv

\* nor the end of a line, when the user's mail was recorded or he is halfway.
LEMMA MailedEnd ==
  ASSUME TypeInv, AloneInv, MailedInv, NEW c \in CallsOf("mails"),
         Continue(c, {}) \/ \E d : d.job = "mails" /\ Plain(d) /\ Continue(c, {d}),
         processed \subseteq processed', mails' = mails, halfway \subseteq halfway', met' = met,
         c.op \in {"readForAppend", "writeAppend"} => c.user.id \in processed' \cup halfway'
  PROVE  MailedInv'
<1> SUFFICES ASSUME {"mails"} \notin met
             PROVE  MailedInv'
  BY DEF MailedInv
<1>1. IsABag(pending) /\ Single("mails")
  BY DEF TypeInv, MigrationTypeOK, AloneInv
<1>2. \A d \in CallsOf("mails")' : Plain(d)
  <2>1. PICK new : Continue(c, new) /\ \A d \in new : Plain(d)
    <3>1. CASE Continue(c, {})
      BY <3>1
    <3>2. ASSUME NEW d, Plain(d), Continue(c, {d})
          PROVE  \E new : Continue(c, new) /\ \A e \in new : Plain(e)
      <4>1. Continue(c, {d}) /\ \A e \in {d} : Plain(e)
        BY <3>2
      <4> QED
        BY <4>1
    <3> QED
      BY <3>1, <3>2
  <2>2. CallsOf("mails")' = {d \in new : d.job = "mails" /\ d.op # "writeBack"}
    BY <1>1, <2>1, OneCallNext
  <2> QED
    BY <2>1, <2>2
<1>3. \A d \in CallsOf("mails") : d = c
  BY <1>1 DEF Single
<1> QED
  BY <1>2, <1>3 DEF MailedInv, Plain

\* The next call for a user.
LEMMA MailedNext ==
  ASSUME TypeInv, AloneInv, MailedInv, NEW c \in CallsOf("mails"), {"mails"} \notin met,
         NEW d, Continue(c, {d}), d.job = "mails", d.op # "writeBack", UNCHANGED <<processed, met>>,
         halfway \subseteq halfway',
         d.op \in {"findAddress", "findDocument", "writeAppend"} => processed \subseteq d.list,
         d.op \in {"readForPassword", "replacePassword", "readForEmail", "replaceEmail", "sendMail"}
           => d.user.id \notin processed,
         \/ mails' = mails /\ c.op \notin {"readForAppend", "writeAppend"}
         \/ mails' = mails /\ d.op = "writeAppend" /\ d.user = c.user
         \/ /\ \E m : mails' = mails \cup {m} /\ m.user = c.user.id
            /\ c.op = "sendMail" /\ d.op = "readForAppend" /\ d.user = c.user
  PROVE  MailedInv'
<1>1. IsABag(pending) /\ Single("mails")
  BY DEF TypeInv, MigrationTypeOK, AloneInv
<1>2. CallsOf("mails")' = {d}
  BY <1>1, OneCallNext
<1>3. \A e \in CallsOf("mails") : e = c
  BY <1>1 DEF Single
<1>4. CASE mails' = mails
  BY <1>2, <1>3, <1>4 DEF MailedInv
<1>5. CASE mails' # mails
  <2>1. PICK m : mails' = mails \cup {m} /\ m.user = c.user.id
    BY <1>5
  <2>2. c.op = "sendMail" /\ d.op = "readForAppend" /\ d.user = c.user
    BY <1>5
  <2>3. c.user.id \notin processed
    BY <2>2 DEF MailedInv
  <2>4. \A n \in mails : n.user \in processed \cup halfway
    BY <1>3, <2>2 DEF MailedInv
  <2>5. \A n \in mails : n.user = m.user => n.user \in halfway
    BY <2>1, <2>3, <2>4
  <2> QED
    BY <1>2, <2>1, <2>2, <2>4, <2>5 DEF MailedInv
<1> QED
  BY <1>4, <1>5

LEMMA MailedByWork ==
  ASSUME TypeInv, AloneInv, MailedInv, NEW c \in CallsOf("mails"), MailFits(c), c \in MailCall,
         MailWork(c), UNCHANGED met
  PROVE  MailedInv'
<1> SUFFICES ASSUME {"mails"} \notin met
             PROVE  MailedInv'
  BY DEF MailedInv
<1> DEFINE Ends == \/ Continue(c, {})
                   \/ \E d : d.job = "mails" /\ Plain(d) /\ Continue(c, {d})
<1>1. \A mark : EndMail(c, mark) => Ends
  BY EndMailNext
<1>2. ASSUME Ends, processed \subseteq processed', mails' = mails, halfway \subseteq halfway',
             c.op \in {"readForAppend", "writeAppend"} => c.user.id \in processed' \cup halfway'
      PROVE  MailedInv'
  BY <1>2, MailedEnd
<1> HIDE DEF Ends
<1>3. CASE ReadMailRows(c) \/ ReadMailLines(c)
  <2>1. Ends
    <3>1. StaysInWalk(c)
      BY <1>3, RowsInJob, LinesInJob DEF CallsOf
    <3>2. c.job = "mails"
      BY DEF CallsOf
    <3>3. RowOp["mails"] = "readParticipants" /\ LineOp["mails"] = "readProcessed"
      BY DEF RowOp, LineOp
    <3>4. ASSUME NEW d, d.job = c.job, d.op \in {"writeBack", RowOp[c.job], LineOp[c.job]}
          PROVE  d.job = "mails" /\ Plain(d)
      BY <3>2, <3>3, <3>4 DEF Plain
    <3> QED
      BY <3>1, <3>4 DEF StaysInWalk, Ends
  <2> QED
    BY <1>2, <1>3, <2>1 DEF ReadMailRows, ReadMailLines, ReadParticipants, mailingVars
<1>4. CASE ReadProcessed(c)
  <2>1. CASE EndMail(c, "error")
    BY <1>1, <1>2, <1>4, <2>1 DEF ReadProcessed, mailingVars
  <2>2. CASE Continue(c, {[c EXCEPT !.op = "findAddress", !.list = processed]})
    <3> DEFINE d == [c EXCEPT !.op = "findAddress", !.list = processed]
    <3>1. d.job = "mails" /\ d.op = "findAddress" /\ d.list = processed /\ Continue(c, {d})
      BY <2>2 DEF MailCall
    <3> HIDE DEF d
    <3> QED
      BY <1>4, <3>1, MailedNext DEF ReadProcessed, mailingVars
  <2> QED
    BY <1>4, <2>1, <2>2 DEF ReadProcessed
<1>5. CASE FindAddress(c)
  <2>1. CASE EndMail(c, "success")
    BY <1>1, <1>2, <1>5, <2>1 DEF FindAddress
  <2>2. CASE Continue(c, {[c EXCEPT !.op = "findDocument"]})
    <3> DEFINE d == [c EXCEPT !.op = "findDocument"]
    <3>1. d.job = "mails" /\ d.op = "findDocument" /\ d.list = c.list /\ Continue(c, {d})
      BY <2>2 DEF MailCall
    <3>2. processed \subseteq c.list
      BY <1>5 DEF FindAddress, MailedInv
    <3> HIDE DEF d
    <3> QED
      BY <1>5, <3>1, <3>2, MailedNext DEF FindAddress
  <2> QED
    BY <1>5, <2>1, <2>2 DEF FindAddress, NoMailDue
<1>6. CASE FindDocument(c)
  <2>1. UNCHANGED <<processed, mails, halfway>> /\ c.op = "findDocument"
    BY <1>6 DEF FindDocument
  <2>2. CASE \E mark : EndMail(c, mark)
    BY <1>1, <1>2, <2>1, <2>2
  <2>3. ASSUME NEW user \in users, ~Processed(c, user),
               Continue(c, {[c EXCEPT !.op = "readForPassword", !.user = user,
                                      !.list = {}, !.password = issued']})
        PROVE  MailedInv'
    <3> DEFINE d == [c EXCEPT !.op = "readForPassword", !.user = user,
                              !.list = {}, !.password = issued']
    <3>1. d.job = "mails" /\ d.op = "readForPassword" /\ d.user = user /\ Continue(c, {d})
      BY <2>3 DEF MailCall
    <3>2. user.id \notin processed
      BY <2>1, <2>3 DEF Processed, MailedInv
    <3> HIDE DEF d
    <3> QED
      BY <2>1, <3>1, <3>2, MailedNext
  <2>4. \/ \E mark : EndMail(c, mark)
        \/ \E user \in users : /\ ~Processed(c, user)
             /\ Continue(c, {[c EXCEPT !.op = "readForPassword", !.user = user,
                                       !.list = {}, !.password = issued']})
    BY <1>6 DEF FindDocument, NoMailDue, WithDocument
  <2> QED
    BY <2>2, <2>3, <2>4
<1>7. ASSUME NEW op, NEW d, d = [c EXCEPT !.op = op] \/ \E x : d = [c EXCEPT !.op = op, !.copy = x],
             Continue(c, {d}), UNCHANGED <<processed, mails>>, halfway \subseteq halfway',
             op \in {"replacePassword", "readForEmail", "replaceEmail", "sendMail"},
             c.op \in {"readForPassword", "replacePassword", "readForEmail", "replaceEmail"}
      PROVE  MailedInv'
  <2>1. d.job = "mails" /\ d.op = op /\ d.user = c.user
    BY <1>7 DEF MailCall
  <2>2. c.user.id \notin processed
    BY <1>7 DEF MailedInv
  <2> QED
    BY <1>7, <2>1, <2>2, MailedNext
<1>8. CASE ReadForPassword(c) \/ ReadForEmail(c)
  <2>1. CASE EndMail(c, "error")
    BY <1>1, <1>2, <1>8, <2>1 DEF ReadForPassword, ReadForEmail, ReadUserFor, mailingVars
  <2>2. CASE ~EndMail(c, "error")
    BY <1>7, <1>8, <2>2 DEF ReadForPassword, ReadForEmail, ReadUserFor, mailingVars
  <2> QED
    BY <2>1, <2>2
<1>9. CASE ReplacePassword(c) \/ ReplaceEmail(c)
  <2>1. CASE EndMail(c, "error")
    BY <1>1, <1>2, <1>9, <2>1 DEF ReplacePassword, ReplaceEmail, mailingVars
  <2>2. CASE ~EndMail(c, "error")
    BY <1>7, <1>9, <2>2 DEF ReplacePassword, ReplaceEmail, mailingVars
  <2> QED
    BY <2>1, <2>2
<1>10. CASE SendMail(c)
  <2> DEFINE d == [c EXCEPT !.op = "readForAppend"]
             m == [user |-> c.user.id, document |-> c.user.document,
                   password |-> c.password, to |-> c.user.email]
  <2>1. d.job = "mails" /\ d.op = "readForAppend" /\ d.user = c.user /\ Continue(c, {d})
    BY <1>10 DEF MailCall, SendMail
  <2>2. mails' = mails \cup {m} /\ m.user = c.user.id
    BY <1>10 DEF SendMail
  <2> HIDE DEF d, m
  <2> QED
    BY <1>10, <2>1, <2>2, MailedNext DEF SendMail
<1>11. CASE ReadForAppend(c)
  <2> DEFINE d == [c EXCEPT !.op = "writeAppend", !.list = processed]
  <2>1. /\ d.job = "mails" /\ d.op = "writeAppend" /\ d.user = c.user /\ d.list = processed
        /\ Continue(c, {d})
    BY <1>11 DEF MailCall, ReadForAppend
  <2> HIDE DEF d
  <2> QED
    BY <1>11, <2>1, MailedNext DEF ReadForAppend, mailingVars
<1>12. CASE WriteAppend(c)
  <2>1. processed \subseteq c.list
    BY <1>12 DEF WriteAppend, MailedInv
  <2> QED
    BY <1>1, <1>2, <1>12, <2>1 DEF WriteAppend
<1> QED
  BY <1>3, <1>4, <1>5, <1>6, <1>8, <1>9, <1>10, <1>11, <1>12 DEF MailWork
LEMMA MailedKept ==
  TypeInv /\ AloneInv /\ MailedInv /\ [MigrationNext]_migrationVars => MailedInv'
<1> SUFFICES ASSUME TypeInv, AloneInv, MailedInv, [MigrationNext]_migrationVars
             PROVE  MailedInv'
  OBVIOUS
<1>1. IsABag(pending)
  BY DEF TypeInv, MigrationTypeOK
<1>2. CASE MigrationRequest
  <2>1. UNCHANGED <<processed, mails, halfway>>
    BY <1>2 DEF MigrationRequest, SendMails, UpdateMails, MigrateFromExcel, ReportRequest,
                OnlyImporting, OnlyReports, mailingVars
  <2>2. CASE \E job : job # "mails" /\ Sends(job)
    <3>1. PICK job, d : /\ job # "mails" /\ Start({d}) /\ d.job = job /\ d.op # "writeBack"
                        /\ Meets(job)
      BY <2>2 DEF Sends
    <3>2. CallsOf("mails")' = CallsOf("mails")
      BY <1>1, <3>1, SendCalls
    <3> QED
      BY <2>1, <3>1, <3>2, MailedFrame DEF Meets
  <2>3. CASE Sends("mails") /\ SendMails
    <3> DEFINE d == [op |-> "readTrainings", job |-> "mails", rows |-> {}, lines |-> {},
                     results |-> [s \in SheetNames |-> <<>>],
                     user |-> None, copy |-> None, list |-> {}, password |-> 0]
    <3>1. Start({d}) /\ d.job = "mails" /\ d.op = "readTrainings" /\ Meets("mails")
      BY <2>3 DEF SendMails, Sends
    <3> HIDE DEF d
    <3>2. CallsOf("mails")' = CallsOf("mails") \cup {d}
      BY <1>1, <3>1, SendCalls
    <3>3. {"mails"} \notin met' => CallsOf("mails") = {} /\ {"mails"} \notin met
      <4>1. {"mails", "mails"} = {"mails"}
        OBVIOUS
      <4> QED
        BY <3>1, <4>1, MeetsCalls DEF Meets
    <3> QED
      BY <2>1, <3>1, <3>2, <3>3 DEF MailedInv
  <2> QED
    BY <1>2, <2>2, <2>3, RequestsSend
<1>3. CASE \/ \E sheet \in ToSet(Sheets) : \E line \in 1..Height(sheet) : PauseLine(sheet, line)
           \/ CatalogueRequest
           \/ UNCHANGED migrationVars
  <2>1. UNCHANGED <<pending, mailingVars, met>>
    BY <1>3 DEF PauseLine, CatalogueRequest, migrationVars
  <2>2. CallsOf("mails")' = CallsOf("mails")
    BY <2>1 DEF CallsOf
  <2> QED
    BY <2>1, <2>2, MailedFrame DEF mailingVars
<1>4. ASSUME NEW c \in BagToSet(pending), Work(c) \/ Reject(c), c \notin CallsOf("mails")
      PROVE  MailedInv'
  <2>1. CallsOf("mails")' = CallsOf("mails") /\ met' = met
    BY <1>4, JobSame, StaysInItsJob
  <2>2. processed' = processed /\ mails' = mails /\ halfway \subseteq halfway'
    <3>1. CASE AnswerMail(c)
      <4>1. AddressWork(c)
        BY <1>4, <3>1, WhoMails
      <4> QED
        BY <4>1 DEF AddressWork, ListUsers, WriteUsers, ReadUser, ReplaceAddress, mailingVars
    <3>2. CASE FailMail(c)
      BY <3>2 DEF FailMail
    <3> QED
      BY <1>4, <3>1, <3>2 DEF Work, Reject, OnlyImporting, OnlyReports, mailingVars
  <2> QED
    BY <2>1, <2>2, MailedFrame
<1>5. ASSUME NEW c \in CallsOf("mails"), Work(c) \/ Reject(c)
      PROVE  MailedInv'
  <2>1. c \in BagToSet(pending) /\ c.job = "mails" /\ c.op # "writeBack" /\ MailFits(c)
        /\ c \in MailCall
    BY CallIs DEF CallsOf, MailFits
  <2>2. ~AnswerImport(c) /\ ~FailImport(c) /\ ~ServeReport(c) /\ ~FailReport(c) /\ ~WriteBack(c)
    BY <2>1, WhoImports, WhoReports DEF CallsOf, WriteBack
  <2>3. CASE AnswerMail(c) /\ UNCHANGED met
    <3>1. MailWork(c)
      BY <2>1, <2>3, WhoMails DEF AddressCall
    <3> QED
      BY <2>1, <2>3, <3>1, MailedByWork
  <2>4. CASE FailMail(c) /\ UNCHANGED met
    <3>1. UNCHANGED <<processed, mails>> /\ halfway \subseteq halfway'
      BY <2>4 DEF FailMail
    <3>2. CASE c.lines # {}
      <4>1. EndMail(c, "error") /\ halfway' = halfway \cup Halfway({c})
        BY <2>1, <2>4, <3>2 DEF FailMail
      <4>2. c.op \in {"readForAppend", "writeAppend"} => c.user.id \in halfway'
        BY <4>1 DEF Halfway, HalfwayOps
      <4> QED
        BY <2>1, <2>4, <3>1, <4>1, <4>2, EndMailNext, MailedEnd
    <3>3. CASE c.lines = {}
      <4>1. c.op \notin LineMailOps
        BY <2>1, <3>3 DEF MailFits
      <4>2. Continue(c, {}) /\ c.op \notin {"readForAppend", "writeAppend"}
        BY <2>1, <2>4, <3>3, <4>1 DEF FailMail, LineMailOps, MailOps
      <4> QED
        BY <2>4, <3>1, <4>2, MailedEnd
    <3> QED
      BY <3>2, <3>3
  <2> QED
    BY <1>5, <2>2, <2>3, <2>4 DEF Work, Reject
<1>6. CASE Interrupt
  <2>1. CallsOf("mails")' = {}
    BY <1>6, NoCalls DEF Interrupt, CallsOf
  <2>2. /\ UNCHANGED <<processed, mails, met>>
        /\ halfway' = halfway \cup Halfway(BagToSet(pending))
    BY <1>6 DEF Interrupt, LoseMails
  <2>3. \A c \in CallsOf("mails") :
          c.op \in {"readForAppend", "writeAppend"} => c.user.id \in halfway'
    BY <2>2 DEF CallsOf, Halfway, HalfwayOps
  <2> QED
    BY <2>1, <2>2, <2>3 DEF MailedInv
<1> QED
  BY <1>2, <1>3, <1>4, <1>5, <1>6 DEF MigrationNext

\* However often the mails are sent, wherever the job fails and wherever the
\* process ends, a user is mailed one password, as long as no two jobs sent
\* mails together and his processing did not stop halfway.
\* (sendEmail, appendProcessedUser.)
THEOREM OneMail == MigrationSpec => []OneMailEach
<1>1. MigrationInit => MailedInv
  BY NoCalls DEF MigrationInit, MailingInit, MailedInv, CallsOf
<1>2. TypeInv /\ AloneInv /\ MailedInv /\ [MigrationNext]_migrationVars => MailedInv'
  BY MailedKept
<1>3. MailedInv => OneMailEach
  BY DEF MailedInv, OneMailEach
<1> QED
  BY <1>1, <1>2, <1>3, AloneHolds, PTL DEF MigrationSpec
-----------------------------------------------------------------------------
(* Users: an id keeps its document and its role, and is not used again.      *)

\* A user of whom a job or a mail remembers the id and the document: if he was
\* created later, he is still there.
Known(id, document) ==
  /\ id \in NewUserIds => WithId(id) # {}
  /\ \A u \in WithId(id) : u.document = document

\* What a call remembers of users.
CallKept(c) ==
  /\ c.op \in {"deleteUser", "deleteNamesake"} =>
       c.user.id \notin NewUserIds /\ \A u \in WithId(c.user.id) : u.role = "author"
  /\ c.op = "readBackup" => c.user.id \in NewUserIds
  /\ c.op \in UserOps \cup {"readBackup"} => Known(c.user.id, c.user.document)
  /\ c.op \in CopyOps \cup {"replaceAddress"} =>
       /\ Known(c.copy.id, c.copy.document)
       /\ \A u \in WithId(c.copy.id) : u.role = c.copy.role

NewAreProfessors == \A u \in users : u.id \in NewUserIds => u.role = "professor"

KeptInv ==
  /\ NewAreProfessors
  /\ \A c \in BagToSet(pending) : CallKept(c)
  /\ \A m \in mails : Known(m.user, m.document)

\* How users change: one is replaced by one with the same attributes, one who
\* was there at the start is deleted, or one with a new id is created.
UsersStep(attributes) ==
  \/ users' = users
  \/ \E w \in User :
       /\ users' = Replaced(users, w) /\ WithId(w.id) # {}
       /\ \A u \in WithId(w.id) : \A a \in attributes : u[a] = w[a]
  \/ \E id : id \notin NewUserIds /\ users' = users \ WithId(id)
  \/ \E new \in User :
       /\ users' = users \cup {new} /\ WithId(new.id) = {}
       /\ new.id \in NewUserIds /\ new.role = "professor"

\* Then the users of an id keep their attributes.
LEMMA AttributeKept ==
  ASSUME NEW attributes, UsersStep(attributes), NEW a \in attributes, NEW id, NEW x,
         id \in NewUserIds => WithId(id) # {}, \A u \in WithId(id) : u[a] = x
  PROVE  /\ id \in NewUserIds => WithId(id)' # {}
         /\ \A u \in WithId(id)' : u[a] = x
<1>1. CASE users' = users
  BY <1>1 DEF WithId
<1>2. ASSUME NEW w \in User, users' = Replaced(users, w), WithId(w.id) # {},
             \A u \in WithId(w.id) : u[a] = w[a]
      PROVE  /\ WithId(id) # {} => WithId(id)' # {}
             /\ \A u \in WithId(id)' : u[a] = x
  <2>1. CASE w.id = id
    <3>1. WithId(id)' = {w}
      BY <1>2, <2>1 DEF WithId, Replaced
    <3> QED
      BY <1>2, <2>1, <3>1
  <2>2. CASE w.id # id
    <3>1. WithId(id)' = WithId(id)
      BY <1>2, <2>2 DEF WithId, Replaced
    <3> QED
      BY <3>1
  <2> QED
    BY <2>1, <2>2
<1>3. ASSUME NEW gone, gone \notin NewUserIds, users' = users \ WithId(gone)
      PROVE  /\ id \in NewUserIds => WithId(id)' # {}
             /\ \A u \in WithId(id)' : u[a] = x
  BY <1>3 DEF WithId
<1>4. ASSUME NEW new \in User, users' = users \cup {new}, WithId(new.id) = {},
             new.id \in NewUserIds
      PROVE  /\ WithId(id) # {} => WithId(id)' # {}
             /\ \A u \in WithId(id)' : u[a] = x
  <2>1. new.id # id
    BY <1>4
  <2>2. WithId(id)' = WithId(id)
    BY <1>4, <2>1 DEF WithId
  <2> QED
    BY <2>2
<1> QED
  BY <1>1, <1>2, <1>3, <1>4 DEF UsersStep

\* What is remembered stays true.
LEMMA KnownKept ==
  ASSUME UsersStep({"document", "role"}), NEW id, NEW document, Known(id, document)
  PROVE  Known(id, document)'
<1> DEFINE attributes == {"document", "role"}
<1>1. "document" \in attributes /\ UsersStep(attributes)
  OBVIOUS
<1>2. (id \in NewUserIds => WithId(id) # {}) /\ \A u \in WithId(id) : u["document"] = document
  BY DEF Known
<1> HIDE DEF attributes
<1>3. (id \in NewUserIds => WithId(id)' # {}) /\ \A u \in WithId(id)' : u["document"] = document
  BY <1>1, <1>2, AttributeKept
<1> QED
  BY <1>3 DEF Known

LEMMA RoleKept ==
  ASSUME UsersStep({"document", "role"}), NEW id, NEW role,
         id \in NewUserIds => WithId(id) # {}, \A u \in WithId(id) : u.role = role
  PROVE  \A u \in WithId(id)' : u.role = role
<1> DEFINE attributes == {"document", "role"}
<1>1. "role" \in attributes /\ UsersStep(attributes)
  OBVIOUS
<1>2. \A u \in WithId(id) : u["role"] = role
  OBVIOUS
<1> HIDE DEF attributes
<1>3. \A u \in WithId(id)' : u["role"] = role
  BY <1>1, <1>2, AttributeKept
<1> QED
  BY <1>3

LEMMA CallStaysKept ==
  ASSUME UsersStep({"document", "role"}), NEW c, CallKept(c)
  PROVE  CallKept(c)'
<1>1. c.op \in {"deleteUser", "deleteNamesake"} =>
        c.user.id \notin NewUserIds /\ \A u \in WithId(c.user.id)' : u.role = "author"
  BY RoleKept DEF CallKept
<1>2. c.op \in UserOps \cup {"readBackup"} => Known(c.user.id, c.user.document)'
  BY KnownKept DEF CallKept
<1>3. c.op \in CopyOps \cup {"replaceAddress"} =>
        /\ Known(c.copy.id, c.copy.document)'
        /\ \A u \in WithId(c.copy.id)' : u.role = c.copy.role
  <2> SUFFICES ASSUME c.op \in CopyOps \cup {"replaceAddress"}
               PROVE  /\ Known(c.copy.id, c.copy.document)'
                      /\ \A u \in WithId(c.copy.id)' : u.role = c.copy.role
    OBVIOUS
  <2>1. Known(c.copy.id, c.copy.document)
    BY DEF CallKept
  <2>2. \A u \in WithId(c.copy.id) : u.role = c.copy.role
    BY DEF CallKept
  <2>3. Known(c.copy.id, c.copy.document)'
    BY <2>1, KnownKept
  <2>4. c.copy.id \in NewUserIds => WithId(c.copy.id) # {}
    BY <2>1 DEF Known
  <2> QED
    BY <2>2, <2>3, <2>4, RoleKept
<1> QED
  BY <1>1, <1>2, <1>3 DEF CallKept

LEMMA ProfessorsKept ==
  ASSUME RegistryTypeOK, NewAreProfessors, UsersStep({"document", "role"})
  PROVE  NewAreProfessors'
<1>1. ASSUME NEW w \in User, users' = Replaced(users, w), WithId(w.id) # {},
             \A u \in WithId(w.id) : u.role = w.role
      PROVE  NewAreProfessors'
  BY <1>1 DEF NewAreProfessors, Replaced, WithId
<1>2. CASE ~\E w \in User : /\ users' = Replaced(users, w) /\ WithId(w.id) # {}
                            /\ \A u \in WithId(w.id) : u.role = w.role
  BY <1>2 DEF UsersStep, NewAreProfessors
<1> QED
  BY <1>1, <1>2

\* A step that does this to the users, and what it may send and record.
LEMMA KeptStep ==
  ASSUME TypeInv, KeptInv, UsersStep({"document", "role"}), NEW new,
         BagToSet(pending') \subseteq BagToSet(pending) \cup new,
         \A d \in new : CallKept(d) \/ CallKept(d)',
         \A m \in mails' \ mails : Known(m.user, m.document)
  PROVE  KeptInv'
<1>1. NewAreProfessors'
  BY ProfessorsKept DEF TypeInv, MigrationTypeOK, KeptInv
<1>2. \A c \in BagToSet(pending') : CallKept(c)'
  BY CallStaysKept DEF KeptInv
<1>3. \A m \in mails' : Known(m.user, m.document)'
  BY KnownKept DEF KeptInv
<1> QED
  BY <1>1, <1>2, <1>3 DEF KeptInv

\* A call writes a user: of the user it has read only sendEmail changes the
\* password.
WritesUser(c, w) ==
  /\ users' = Replaced(users, w) /\ WithId(w.id) # {}
  /\ c.op \in CopyOps \cup {"replaceAddress"}
  /\ w.id = c.copy.id /\ w.document = c.copy.document /\ w.role = c.copy.role
  /\ \/ ReplacePassword(c) /\ UNCHANGED met
     \/ c.op # "replacePassword" /\ w.password = c.copy.password

\* And a call creates one.
CreatesUser(c, new) ==
  /\ users' = users \cup {new} /\ WithId(new.id) = {}
  /\ new.id \in NewUserIds /\ new.role = "professor" /\ new.document = Line(c).document

\* Every step changes the users in one of these ways.
UsersWritten ==
  \/ users' = users
  \/ \E c \in BagToSet(pending) : \E w \in User : WritesUser(c, w)
  \/ \E id : /\ id \notin NewUserIds /\ \A u \in WithId(id) : u.role = "author"
             /\ users' = users \ WithId(id)
  \/ \E c, new : new \in User /\ CreatesUser(c, new)

LEMMA MailWritesUsers ==
  ASSUME TypeInv, NEW c \in BagToSet(pending), AnswerMail(c), UNCHANGED met
  PROVE  users' = users \/ \E w \in User : WritesUser(c, w)
<1>1. \/ users' = users
      \/ ReplacePassword(c) /\ WithId(c.user.id) # {}
      \/ ReplaceEmail(c) /\ WithId(c.user.id) # {}
      \/ ReplaceAddress(c) /\ WithId(c.copy.id) # {}
  BY DEF AnswerMail, ReadForPassword, ReplacePassword, ReadForEmail, ReplaceEmail,
     SendMail, ReadForAppend, WriteAppend, ListUsers, WriteUsers, ReadUser, ReplaceAddress
<1>2. CASE ReplacePassword(c) /\ WithId(c.user.id) # {}
  <2>1. c.op = "replacePassword" /\ c.op \in CopyOps /\ c.op \in LineMailOps
    BY <1>2 DEF ReplacePassword, CopyOps, LineMailOps, MailOps
  <2>2. c.copy \in User /\ c.copy.id = c.user.id /\ c.password \in Nat
    BY <2>1, CallIs DEF MailFits, MailCall
  <2> DEFINE w == WithNewPassword(c)
  <2>3. w \in User /\ w.id = c.copy.id /\ w.document = c.copy.document /\ w.role = c.copy.role
    BY <2>2 DEF WithNewPassword, User
  <2>4. users' = Replaced(users, w)
    BY <1>2 DEF ReplacePassword
  <2> HIDE DEF w
  <2> QED
    BY <1>2, <2>1, <2>2, <2>3, <2>4 DEF WritesUser
<1>3. CASE ReplaceEmail(c) /\ WithId(c.user.id) # {}
  <2>1. c.op = "replaceEmail" /\ c.op \in CopyOps /\ c.op \in LineMailOps
    BY <1>3 DEF ReplaceEmail, CopyOps, LineMailOps, MailOps
  <2>2. c.copy \in User /\ c.copy.id = c.user.id
    BY <2>1, CallIs DEF MailFits, MailCall
  <2> DEFINE w == [c.copy EXCEPT !.email = [address |-> Misplaced, form |-> "digits"]]
  <2>3. /\ w \in User /\ w.id = c.copy.id /\ w.document = c.copy.document
        /\ w.role = c.copy.role /\ w.password = c.copy.password
    BY <2>2 DEF User, Email
  <2>4. users' = Replaced(users, w)
    BY <1>3 DEF ReplaceEmail
  <2> HIDE DEF w
  <2> QED
    BY <1>3, <2>1, <2>2, <2>3, <2>4 DEF WritesUser
<1>4. CASE ReplaceAddress(c) /\ WithId(c.copy.id) # {}
  <2>1. c.copy \in User /\ c.op = "replaceAddress"
    BY <1>4, CallIs DEF ReplaceAddress, AddressFits
  <2> QED
    BY <1>4, <2>1 DEF ReplaceAddress, WritesUser
<1> QED
  BY <1>1, <1>2, <1>3, <1>4

LEMMA CreateUserCreates ==
  ASSUME TypeInv, NEW c \in BagToSet(pending), CreateUser(c)
  PROVE  \E new \in User : CreatesUser(c, new)
<1>1. PICK id \in NewUserIds \ {u.id : u \in users} :
        users' = users \cup {[id |-> id, document |-> Line(c).document,
           email |-> Line(c).email, password |-> 0, role |-> "professor",
           school |-> c.found["school"], employment |-> EmploymentType[Line(c).employment],
           excluded |-> Line(c).excluded]}
  BY DEF CreateUser
<1> DEFINE new == [id |-> id, document |-> Line(c).document,
           email |-> Line(c).email, password |-> 0, role |-> "professor",
           school |-> c.found["school"], employment |-> EmploymentType[Line(c).employment],
           excluded |-> Line(c).excluded]
<1>2. /\ users' = users \cup {new} /\ new.id = id /\ new.role = "professor"
      /\ new.document = Line(c).document
  BY <1>1
<1>3. new \in User
  <2>1. c.op = "createUser" /\ c.op \in LineOps
    BY DEF CreateUser, LineOps
  <2>2. ImportFits(c) /\ Line(c) \in SheetLine
    BY <2>1, AtLineTyped
  <2>3. id \in UserIds /\ c.found["school"] \in EntryIds
    BY <2>1, <2>2 DEF UserIds, ImportFits
  <2>4. EmploymentType[Line(c).employment] \in {"fullTime", "partTime"}
    BY <2>2 DEF EmploymentType, SheetLine
  <2> QED
    BY <2>2, <2>3, <2>4 DEF User, SheetLine
<1>4. WithId(id) = {}
  BY <1>1 DEF WithId
<1> HIDE DEF new
<1> QED
  BY <1>1, <1>2, <1>3, <1>4 DEF CreatesUser

LEMMA ImportWritesUsers ==
  ASSUME TypeInv, NEW c \in BagToSet(pending), AnswerImport(c)
  PROVE  \/ users' = users
         \/ users' = users \ WithId(c.user.id) /\ c.op \in {"deleteUser", "deleteNamesake"}
         \/ CreateUser(c)
BY DEF AnswerImport, ReadImportRows, ReadImportLines, FindTraining, FindName, CreateName,
     CreateTraining, FindProfessor, DeleteUser, FindNamesake, DeleteNamesake, Delete,
     FindSchool, CreateSchool, FindDuplicate, ReadBackup, ReplaceTraining, registryVars

LEMMA UsersWrites ==
  ASSUME TypeInv, KeptInv, [MigrationNext]_migrationVars
  PROVE  UsersWritten
<1>1. CASE users' = users
  BY <1>1 DEF UsersWritten
<1>2. ASSUME NEW c \in BagToSet(pending), Work(c) \/ Reject(c)
      PROVE  UsersWritten
  <2>1. CASE AnswerMail(c)
    BY <1>2, <2>1, MailWritesUsers DEF UsersWritten, Work, Reject
  <2>2. CASE AnswerImport(c)
    <3>1. CASE users' = users \ WithId(c.user.id) /\ c.op \in {"deleteUser", "deleteNamesake"}
      BY <3>1 DEF KeptInv, CallKept, UsersWritten
    <3>2. CASE CreateUser(c)
      BY <3>2, CreateUserCreates DEF UsersWritten
    <3> QED
      BY <1>1, <2>2, <3>1, <3>2, ImportWritesUsers
  <2>3. CASE ~AnswerMail(c) /\ ~AnswerImport(c)
    <3>1. users' = users
      BY <1>2, <2>3 DEF Work, Reject, FailMail, FailImport, ServeReport, FailReport, ReadTrainings,
         ReadSchools, ReadUsers, AnswerReport, Read, registryVars
    <3> QED
      BY <1>1, <3>1
  <2> QED
    BY <2>1, <2>2, <2>3
<1>3. CASE \/ MigrationRequest \/ CatalogueRequest \/ Interrupt \/ UNCHANGED migrationVars
           \/ \E sheet \in ToSet(Sheets) : \E line \in 1..Height(sheet) : PauseLine(sheet, line)
  <2>1. users' = users
    BY <1>3 DEF MigrationRequest, MigrateFromExcel, ReportRequest, CatalogueRequest, RemoveSchool, RemoveCompetency,
       Interrupt, migrationVars, PauseLine, registryVars
  <2> QED
    BY <1>1, <2>1
<1> QED
  BY <1>2, <1>3 DEF MigrationNext

LEMMA UsersChange ==
  ASSUME TypeInv, KeptInv, [MigrationNext]_migrationVars
  PROVE  UsersStep({"document", "role"})
<1>1. ASSUME NEW c \in BagToSet(pending), NEW w \in User, WritesUser(c, w)
      PROVE  UsersStep({"document", "role"})
  <2>1. \A u \in WithId(w.id) : u.document = w.document /\ u.role = w.role
    BY <1>1 DEF KeptInv, CallKept, Known, WritesUser
  <2>2. \A u \in WithId(w.id) : \A a \in {"document", "role"} : u[a] = w[a]
    BY <2>1
  <2> QED
    BY <1>1, <2>2 DEF UsersStep, WritesUser
<1> QED
  BY <1>1, UsersWrites DEF UsersWritten, UsersStep, CreatesUser

KeepOps == UserOps \cup CopyOps
             \cup {"replaceAddress", "readBackup", "deleteUser", "deleteNamesake"}

\* The calls with which a call is answered remember what is the case.
AnswersKept(c) ==
  \/ Continue(c, {})
  \/ \E d : Continue(c, {d}) /\ (CallKept(d) \/ CallKept(d)')

LEMMA FreeCalls ==
  /\ \A d : d.op \notin KeepOps => CallKept(d)
  /\ \A c : c.job \in {"mails", "import"} /\ StaysInWalk(c) => AnswersKept(c)
<1>1. \A d : d.op \notin KeepOps => CallKept(d)
  BY DEF CallKept, KeepOps
<1>2. ASSUME NEW c, c.job \in {"mails", "import"}, StaysInWalk(c)
      PROVE  AnswersKept(c)
  <2>1. CASE Continue(c, {})
    BY <2>1 DEF AnswersKept
  <2>2. CASE ~Continue(c, {})
    <3>1. PICK d : d.op \in {"writeBack", RowOp[c.job], LineOp[c.job]} /\ Continue(c, {d})
      BY <1>2, <2>2 DEF StaysInWalk
    <3>2. d.op \notin KeepOps
      BY <1>2, <3>1 DEF RowOp, LineOp, KeepOps, UserOps, HalfwayOps, CopyOps
    <3> QED
      BY <1>1, <3>1, <3>2 DEF AnswersKept
  <2> QED
    BY <2>1, <2>2
<1> QED
  BY <1>1, <1>2

LEMMA StoredKnown ==
  ASSUME TypeInv, NEW u \in users
  PROVE  u \in User /\ Known(u.id, u.document) /\ \A v \in WithId(u.id) : v = u
BY DEF TypeInv, MigrationTypeOK, RegistryTypeOK, Known, WithId

LEMMA MailAnswersKept ==
  ASSUME TypeInv, KeptInv, NEW c \in BagToSet(pending), MailWork(c), c \in MailCall, MailFits(c)
  PROVE  AnswersKept(c)
<1>1. \A mark : EndMail(c, mark) => AnswersKept(c)
  <2> SUFFICES ASSUME NEW mark, EndMail(c, mark)
               PROVE  AnswersKept(c)
    OBVIOUS
  <2>1. PICK d : Plain(d) /\ Continue(c, {d})
    BY EndMailNext
  <2>2. d.op \notin KeepOps
    BY <2>1 DEF Plain, KeepOps, UserOps, HalfwayOps, CopyOps
  <2> QED
    BY <2>1, <2>2, FreeCalls DEF AnswersKept
<1>2. ASSUME NEW d, CallKept(d), Continue(c, {d})
      PROVE  AnswersKept(c)
  BY <1>2 DEF AnswersKept
<1>3. CASE ReadMailRows(c) \/ ReadMailLines(c)
  <2>1. StaysInWalk(c) /\ c.job = "mails"
    BY <1>3, RowsInJob, LinesInJob DEF MailCall
  <2> QED
    BY <2>1, FreeCalls
<1>4. CASE ReadProcessed(c) \/ FindAddress(c)
  <2>1. \A list : /\ [c EXCEPT !.op = "findAddress", !.list = list].op = "findAddress"
                  /\ [c EXCEPT !.op = "findDocument"].op = "findDocument"
    BY DEF MailCall
  <2>2. \A list : /\ CallKept([c EXCEPT !.op = "findAddress", !.list = list])
                  /\ CallKept([c EXCEPT !.op = "findDocument"])
    BY <2>1, FreeCalls DEF KeepOps, UserOps, HalfwayOps, CopyOps
  <2> QED
    BY <1>1, <1>2, <1>4, <2>2 DEF ReadProcessed, FindAddress, NoMailDue
<1>5. CASE FindDocument(c)
  <2>1. ASSUME NEW user \in users, NEW password,
               Continue(c, {[c EXCEPT !.op = "readForPassword", !.user = user,
                                      !.list = {}, !.password = password]})
        PROVE  AnswersKept(c)
    <3> DEFINE d == [c EXCEPT !.op = "readForPassword", !.user = user,
                              !.list = {}, !.password = password]
    <3>1. d.op = "readForPassword" /\ d.user = user /\ Continue(c, {d})
      BY <2>1 DEF MailCall
    <3> HIDE DEF d
    <3>2. CallKept(d)
      BY <3>1, StoredKnown DEF CallKept, CopyOps
    <3> QED
      BY <1>2, <3>1, <3>2
  <2>2. \/ \E mark : EndMail(c, mark)
        \/ \E user \in users : \E password :
             Continue(c, {[c EXCEPT !.op = "readForPassword", !.user = user,
                                    !.list = {}, !.password = password]})
    BY <1>5 DEF FindDocument, NoMailDue, WithDocument
  <2> QED
    BY <1>1, <2>1, <2>2
<1>6. ASSUME c.op \in UserOps, NEW op \in HalfwayOps \ CopyOps, NEW d,
             \/ d = [c EXCEPT !.op = op] \/ \E list : d = [c EXCEPT !.op = op, !.list = list]
             \/ d = [c EXCEPT !.op = op, !.copy = None],
             Continue(c, {d})
      PROVE  AnswersKept(c)
  <2>1. d.op = op /\ d.user = c.user
    BY <1>6 DEF MailCall
  <2>2. Known(c.user.id, c.user.document)
    BY <1>6 DEF KeptInv, CallKept
  <2>3. CallKept(d)
    BY <1>6, <2>1, <2>2 DEF CallKept, HalfwayOps
  <2> QED
    BY <1>2, <1>6, <2>3
<1>7. ASSUME c.op \in UserOps, NEW op \in CopyOps, NEW u \in WithId(c.user.id),
             Continue(c, {[c EXCEPT !.op = op, !.copy = u]})
      PROVE  AnswersKept(c)
  <2> DEFINE d == [c EXCEPT !.op = op, !.copy = u]
  <2>1. d.op = op /\ d.user = c.user /\ d.copy = u /\ Continue(c, {d})
    BY <1>7 DEF MailCall
  <2> HIDE DEF d
  <2>2. Known(c.user.id, c.user.document)
    BY <1>7 DEF KeptInv, CallKept
  <2>3. Known(u.id, u.document) /\ \A v \in WithId(u.id) : v = u
    BY StoredKnown DEF WithId
  <2>4. CallKept(d)
    BY <2>1, <2>2, <2>3 DEF CallKept, CopyOps
  <2> QED
    BY <1>2, <2>1, <2>4
<1>8. CASE ReadForPassword(c) \/ ReadForEmail(c)
  <2>1. c.op \in UserOps
    BY <1>8 DEF ReadForPassword, ReadForEmail, ReadUserFor, UserOps, HalfwayOps
  <2>2. \/ EndMail(c, "error")
        \/ \E op \in CopyOps : \E u \in WithId(c.user.id) :
             Continue(c, {[c EXCEPT !.op = op, !.copy = u]})
    BY <1>8 DEF ReadForPassword, ReadForEmail, ReadUserFor, CopyOps
  <2> QED
    BY <1>1, <1>7, <2>1, <2>2
<1>9. CASE ReplacePassword(c) \/ ReplaceEmail(c)
  <2>1. c.op \in UserOps /\ {"readForEmail", "sendMail"} \subseteq HalfwayOps \ CopyOps
    BY <1>9 DEF ReplacePassword, ReplaceEmail, UserOps, HalfwayOps, CopyOps
  <2>2. \/ EndMail(c, "error")
        \/ \E op \in {"readForEmail", "sendMail"} : Continue(c, {[c EXCEPT !.op = op, !.copy = None]})
    BY <1>9 DEF ReplacePassword, ReplaceEmail
  <2> QED
    BY <1>1, <1>6, <2>1, <2>2
<1>10. CASE SendMail(c) \/ ReadForAppend(c) \/ WriteAppend(c)
  <2>1. c.op \in UserOps /\ {"readForAppend", "writeAppend"} \subseteq HalfwayOps \ CopyOps
    BY <1>10 DEF SendMail, ReadForAppend, WriteAppend, UserOps, HalfwayOps, CopyOps
  <2> QED
    BY <1>1, <1>6, <1>10, <2>1 DEF SendMail, ReadForAppend, WriteAppend
<1> QED
  BY <1>3, <1>4, <1>5, <1>8, <1>9, <1>10 DEF MailWork

LEMMA AddressAnswersKept ==
  ASSUME TypeInv, KeptInv, NEW c \in BagToSet(pending), AddressWork(c), c \in AddressCall
  PROVE  AnswersKept(c)
<1>1. CASE Continue(c, {})
  BY <1>1 DEF AnswersKept
<1>2. ASSUME NEW d, d.op \in {"writeUsers", "readUser"}, Continue(c, {d})
      PROVE  AnswersKept(c)
  <2>1. CallKept(d)
    BY <1>2, FreeCalls DEF KeepOps, UserOps, HalfwayOps, CopyOps
  <2> QED
    BY <1>2, <2>1 DEF AnswersKept
<1>3. CASE ListUsers(c)
  <2> DEFINE d == [c EXCEPT !.op = "writeUsers", !.left =
                     {[id |-> u.id, email |-> Normal(u.email)] :
                        u \in {v \in users : v.email # Normal(v.email)}}]
  <2>1. d.op = "writeUsers" /\ Continue(c, {d})
    BY <1>3 DEF AddressCall, ListUsers
  <2> HIDE DEF d
  <2> QED
    BY <1>2, <2>1
<1>4. CASE WriteUsers(c) \/ ReplaceAddress(c)
  <2> DEFINE d == [c EXCEPT !.op = "readUser"]
             e == [[c EXCEPT !.copy = None] EXCEPT !.op = "readUser"]
  <2>1. d.op = "readUser" /\ e.op = "readUser"
    BY DEF AddressCall
  <2>2. \/ Continue(c, {}) \/ Continue(c, {d}) \/ Continue(c, {e})
    <3>1. AtUser(c) \in {{}, {d}} /\ AtUser([c EXCEPT !.copy = None]) \in {{}, {e}}
      BY DEF AtUser
    <3> HIDE DEF d, e
    <3> QED
      BY <1>4, <3>1 DEF WriteUsers, ReplaceAddress
  <2> HIDE DEF d, e
  <2> QED
    BY <1>1, <1>2, <2>1, <2>2
<1>5. ASSUME NEW w \in c.left, NEW u \in WithId(w.id),
             Continue(c, {[c EXCEPT !.op = "replaceAddress", !.left = @ \ {w},
                                    !.copy = [u EXCEPT !.email = w.email]]})
      PROVE  AnswersKept(c)
  <2> DEFINE copy == [u EXCEPT !.email = w.email]
             d == [c EXCEPT !.op = "replaceAddress", !.left = @ \ {w}, !.copy = copy]
  <2>1. d.op = "replaceAddress" /\ d.copy = copy /\ Continue(c, {d})
    BY <1>5 DEF AddressCall
  <2>2. /\ u \in User /\ Known(u.id, u.document) /\ \A v \in WithId(u.id) : v = u
    BY StoredKnown DEF WithId
  <2>3. copy.id = u.id /\ copy.document = u.document /\ copy.role = u.role
    BY <2>2 DEF User
  <2> HIDE DEF copy, d
  <2>4. CallKept(d)
    BY <2>1, <2>2, <2>3 DEF CallKept, UserOps, HalfwayOps
  <2> QED
    BY <2>1, <2>4 DEF AnswersKept
<1>6. CASE ReadUser(c)
  BY <1>1, <1>5, <1>6 DEF ReadUser
<1> QED
  BY <1>3, <1>4, <1>6 DEF AddressWork

LEMMA ImportAnswersKept ==
  ASSUME TypeInv, KeptInv, NEW c \in BagToSet(pending), AnswerImport(c) \/ FailImport(c)
  PROVE  AnswersKept(c)
<1>1. c \in ImportCall /\ c.job = "import"
  BY WhoImports DEF ImportCall
<1>2. \A mark : EndLine(c, mark) => AnswersKept(c)
  BY <1>1, EndLineNext, FreeCalls
<1>3. ASSUME NEW d, CallKept(d) \/ CallKept(d)', Continue(c, {d})
      PROVE  AnswersKept(c)
  BY <1>3 DEF AnswersKept
<1>4. ASSUME NEW d, d.op \notin KeepOps, Continue(c, {d})
      PROVE  AnswersKept(c)
  BY <1>4, FreeCalls DEF AnswersKept
<1>5. CASE \/ ReadImportRows(c) \/ FindTraining(c) \/ FindName(c) \/ CreateName(c)
           \/ CreateTraining(c)
           \/ FailImport(c) /\ ~EndLine(c, "error")
  <2>1. CASE Continue(c, {})
    BY <2>1 DEF AnswersKept
  <2>2. \A op \in RowOps \cup {"readParticipants", "writeBack"} : op \notin KeepOps
    BY DEF RowOps, KeepOps, UserOps, HalfwayOps, CopyOps
  <2> QED
    BY <1>4, <1>5, <2>1, <2>2, ImportRowsNext
<1>6. CASE ReadImportLines(c)
  BY <1>1, <1>6, LinesInJob, FreeCalls
<1>7. \A op, user : /\ [c EXCEPT !.op = op].op = op
                    /\ [c EXCEPT !.op = op, !.user = user].op = op
                    /\ [c EXCEPT !.op = op, !.user = user].user = user
  BY <1>1 DEF ImportCall
<1>8. \A op \in {"findNamesake", "findSchool", "createSchool", "createUser", "findDuplicate",
                 "replaceTraining"} : op \notin KeepOps
  BY DEF KeepOps, UserOps, HalfwayOps, CopyOps
<1>9. \A user : AtEnrolment(c, user) => AnswersKept(c)
  <2>1. \A user, training : [c EXCEPT !.op = "replaceTraining", !.user = None,
                   !.found = NothingFound, !.training = training].op = "replaceTraining"
    BY <1>1 DEF ImportCall
  <2> QED
    BY <1>2, <1>4, <1>8, <2>1 DEF AtEnrolment
<1>10. \A school : AtCreation(c, school) => AnswersKept(c)
  <2>1. \A school : [c EXCEPT !.op = "findDuplicate", !.found["school"] = school].op
                      = "findDuplicate"
    BY <1>1 DEF ImportCall
  <2> QED
    BY <1>2, <1>4, <1>8, <2>1 DEF AtCreation
<1>11. ASSUME NEW u \in users, u.role # "professor", NEW op \in {"deleteUser", "deleteNamesake"},
              Continue(c, {[c EXCEPT !.op = op, !.user = u]})
       PROVE  AnswersKept(c)
  <2> DEFINE d == [c EXCEPT !.op = op, !.user = u]
  <2>1. d.op = op /\ d.user = u /\ Continue(c, {d})
    BY <1>7, <1>11
  <2> HIDE DEF d
  <2>2. u.id \notin NewUserIds /\ u.role = "author"
    BY <1>11, StoredKnown DEF KeptInv, NewAreProfessors, User
  <2>3. \A v \in WithId(u.id) : v.role = "author"
    BY <2>2, StoredKnown
  <2>4. CallKept(d)
    BY <2>1, <2>2, <2>3 DEF CallKept, UserOps, HalfwayOps, CopyOps
  <2> QED
    BY <1>3, <2>1, <2>4
<1>12. CASE FindProfessor(c)
  BY <1>4, <1>7, <1>8, <1>9, <1>11, <1>12 DEF FindProfessor, WithDocument
<1>13. CASE FindNamesake(c)
  BY <1>4, <1>7, <1>8, <1>11, <1>13 DEF FindNamesake, WithEmail
<1>14. CASE DeleteUser(c) \/ DeleteNamesake(c)
  <2>1. ASSUME NEW op \in {"findNamesake", "findSchool"},
               Continue(c, {[c EXCEPT !.op = op, !.user = None]})
        PROVE  AnswersKept(c)
    <3> DEFINE d == [c EXCEPT !.op = op, !.user = None]
    <3>1. d.op = op /\ Continue(c, {d})
      BY <1>7, <2>1
    <3> HIDE DEF d
    <3> QED
      BY <1>4, <1>8, <3>1
  <2>2. \/ EndLine(c, "error")
        \/ \E op \in {"findNamesake", "findSchool"} :
             Continue(c, {[c EXCEPT !.op = op, !.user = None]})
    BY <1>14 DEF DeleteUser, DeleteNamesake, Delete
  <2> QED
    BY <1>2, <2>1, <2>2
<1>15. CASE FindSchool(c) \/ CreateSchool(c) \/ FindDuplicate(c)
  <2>1. ASSUME NEW op \in {"createSchool", "createUser"}, Continue(c, {[c EXCEPT !.op = op]})
        PROVE  AnswersKept(c)
    <3> DEFINE d == [c EXCEPT !.op = op]
    <3>1. d.op = op /\ Continue(c, {d})
      BY <1>7, <2>1
    <3> HIDE DEF d
    <3>2. d.op \notin KeepOps
      BY <1>8, <2>1, <3>1
    <3> QED
      BY <1>4, <3>1, <3>2
  <2>2. CASE FindSchool(c)
    BY <1>10, <2>1, <2>2 DEF FindSchool
  <2>3. CASE CreateSchool(c)
    BY <1>10, <2>3 DEF CreateSchool
  <2>4. CASE FindDuplicate(c)
    BY <1>2, <2>1, <2>4 DEF FindDuplicate
  <2> QED
    BY <1>15, <2>2, <2>3, <2>4
<1>16. CASE CreateUser(c)
  <2>1. PICK id, new :
          /\ id \in NewUserIds /\ new.id = id /\ id \notin {u.id : u \in users}
          /\ users' = users \cup {new}
          /\ Continue(c, {[c EXCEPT !.op = "readBackup", !.user = new]})
    BY <1>16 DEF CreateUser
  <2> DEFINE d == [c EXCEPT !.op = "readBackup", !.user = new]
  <2>2. d.op = "readBackup" /\ d.user = new /\ Continue(c, {d})
    BY <1>7, <2>1
  <2> HIDE DEF d
  <2>3. WithId(new.id)' = {new}
    BY <2>1 DEF WithId
  <2>4. CallKept(d)'
    BY <2>1, <2>2, <2>3 DEF CallKept, Known, CopyOps
  <2> QED
    BY <1>3, <2>2, <2>4
<1>17. CASE ReadBackup(c) \/ ReplaceTraining(c)
  BY <1>2, <1>9, <1>17 DEF ReadBackup, ReplaceTraining
<1> QED
  BY <1>2, <1>5, <1>6, <1>12, <1>13, <1>14, <1>15, <1>16, <1>17 DEF AnswerImport
\* A request sends a call that knows nothing yet.
LEMMA RequestsKept ==
  ASSUME MigrationRequest
  PROVE  \E d : /\ Start({d}) /\ d.op \in {"readTrainings", "listUsers", "bySchool", "attendance"}
                /\ d.job \in {"mails", "import"} => \A s \in SheetNames : d.results[s] = <<>>
<1>1. CASE SendMails
  <2> DEFINE d == [op |-> "readTrainings", job |-> "mails", rows |-> {}, lines |-> {},
                   results |-> [s \in SheetNames |-> <<>>],
                   user |-> None, copy |-> None, list |-> {}, password |-> 0]
  <2>1. d.op = "readTrainings" /\ Start({d}) /\ \A s \in SheetNames : d.results[s] = <<>>
    BY <1>1 DEF SendMails
  <2> HIDE DEF d
  <2> QED
    BY <2>1
<1>2. CASE UpdateMails
  <2> DEFINE d == [op |-> "listUsers", job |-> "addresses", left |-> {}, copy |-> None]
  <2>1. d.op = "listUsers" /\ d.job = "addresses" /\ Start({d})
    BY <1>2 DEF UpdateMails
  <2> HIDE DEF d
  <2> QED
    BY <2>1
<1>3. CASE MigrateFromExcel
  <2> DEFINE d == [op |-> "readTrainings", job |-> "import", rows |-> {}, lines |-> {},
                   results |-> [s \in SheetNames |-> <<>>], training |-> None,
                   found |-> NothingFound, asked |-> {}, user |-> None]
  <2>1. d.op = "readTrainings" /\ Start({d}) /\ \A s \in SheetNames : d.results[s] = <<>>
    BY <1>3 DEF MigrateFromExcel
  <2> HIDE DEF d
  <2> QED
    BY <2>1
<1>4. CASE ReportRequest
  <2>1. PICK key, op : op \in {"bySchool", "attendance"} /\
          Start({[op |-> op, job |-> "report", key |-> key, asked |-> ToSet(Containers),
                  trainings |-> {}, schools |-> {}, users |-> {}]})
    BY <1>4 DEF ReportRequest
  <2> DEFINE d == [op |-> op, job |-> "report", key |-> key, asked |-> ToSet(Containers),
                   trainings |-> {}, schools |-> {}, users |-> {}]
  <2>2. d.op = op /\ d.job = "report" /\ Start({d})
    BY <2>1
  <2> HIDE DEF d
  <2> QED
    BY <2>1, <2>2
<1> QED
  BY <1>1, <1>2, <1>3, <1>4 DEF MigrationRequest

LEMMA KeptKept == TypeInv /\ KeptInv /\ [MigrationNext]_migrationVars => KeptInv'
<1> SUFFICES ASSUME TypeInv, KeptInv, [MigrationNext]_migrationVars
             PROVE  KeptInv'
  OBVIOUS
<1>1. IsABag(pending) /\ TypeInv'
  BY TypesKept DEF TypeInv, MigrationTypeOK
<1>2. ASSUME NEW new, BagToSet(pending') \subseteq BagToSet(pending) \cup new,
             \A d \in new : CallKept(d) \/ CallKept(d)',
             \A m \in mails' \ mails : Known(m.user, m.document)
      PROVE  KeptInv'
  BY <1>2, KeptStep, UsersChange
<1>3. ASSUME NEW c, AnswersKept(c), \A m \in mails' \ mails : Known(m.user, m.document)
      PROVE  KeptInv'
  <2>1. PICK new : Continue(c, new) /\ \A d \in new : CallKept(d) \/ CallKept(d)'
    <3>1. CASE Continue(c, {})
      BY <3>1
    <3>2. ASSUME NEW d, Continue(c, {d}), CallKept(d) \/ CallKept(d)'
          PROVE  \E new : Continue(c, new) /\ \A e \in new : CallKept(e) \/ CallKept(e)'
      <4>1. Continue(c, {d}) /\ \A e \in {d} : CallKept(e) \/ CallKept(e)'
        BY <3>2
      <4> QED
        BY <4>1
    <3> QED
      BY <1>3, <3>1, <3>2 DEF AnswersKept
  <2>2. BagToSet(pending') \subseteq BagToSet(pending) \cup new
    BY <1>1, <2>1, ContinueCalls
  <2> QED
    BY <1>2, <1>3, <2>1, <2>2
<1>4. CASE MigrationRequest
  <2>1. PICK d : /\ Start({d})
                 /\ d.op \in {"readTrainings", "listUsers", "bySchool", "attendance"}
    BY <1>4, RequestsKept
  <2>2. BagToSet(pending') = BagToSet(pending) \cup {d}
    BY <1>1, <2>1, StartCalls
  <2>3. CallKept(d)
    BY <2>1, FreeCalls DEF KeepOps, UserOps, HalfwayOps, CopyOps
  <2>4. \A m \in mails' \ mails : Known(m.user, m.document)
    BY <1>4 DEF MigrationRequest, SendMails, UpdateMails, OnlyImporting, OnlyReports, mailingVars
  <2> DEFINE new == {d}
  <2>5. /\ BagToSet(pending') \subseteq BagToSet(pending) \cup new
        /\ \A e \in new : CallKept(e) \/ CallKept(e)'
    BY <2>2, <2>3
  <2> HIDE DEF new
  <2> QED
    BY <1>2, <2>4, <2>5
<1>5. CASE \/ \E sheet \in ToSet(Sheets) : \E line \in 1..Height(sheet) : PauseLine(sheet, line)
           \/ CatalogueRequest
           \/ UNCHANGED migrationVars
  <2>1. UNCHANGED <<pending, mails>>
    BY <1>5 DEF PauseLine, CatalogueRequest, migrationVars, mailingVars
  <2> DEFINE new == {}
  <2>2. /\ BagToSet(pending') \subseteq BagToSet(pending) \cup new
        /\ \A m \in mails' \ mails : Known(m.user, m.document)
        /\ \A d \in new : CallKept(d) \/ CallKept(d)'
    BY <2>1
  <2> HIDE DEF new
  <2> QED
    BY <1>2, <2>2
<1>6. ASSUME NEW c \in BagToSet(pending), Work(c) \/ Reject(c)
      PROVE  KeptInv'
  <2>1. CASE AnswerMail(c)
    <3>1. CASE AddressWork(c)
      <4>1. mails' = mails
        BY <3>1 DEF AddressWork, ListUsers, WriteUsers, ReadUser, ReplaceAddress, mailingVars
      <4>2. c \in AddressCall
        BY <3>1, CallIs DEF AddressWork, ListUsers, WriteUsers, ReadUser, ReplaceAddress, AddressFits
      <4> QED
        BY <1>3, <3>1, <4>1, <4>2, AddressAnswersKept
    <3>2. CASE ~AddressWork(c)
      <4>1. MailWork(c) /\ MailFits(c) /\ c \in MailCall
        BY <2>1, <3>2, WhoMails
      <4>2. \A m \in mails' \ mails : Known(m.user, m.document)
        <5>1. CASE SendMail(c)
          <6>1. Known(c.user.id, c.user.document)
            BY <5>1 DEF SendMail, KeptInv, CallKept, UserOps, HalfwayOps
          <6> QED
            BY <5>1, <6>1 DEF SendMail
        <5>2. CASE ~SendMail(c)
          BY <4>1, <5>2 DEF MailWork, ReadMailRows, ReadMailLines, ReadProcessed, FindAddress,
             FindDocument, ReadForPassword, ReplacePassword, ReadForEmail, ReplaceEmail,
             ReadForAppend, WriteAppend, mailingVars
        <5> QED
          BY <5>1, <5>2
      <4> QED
        BY <1>3, <4>1, <4>2, MailAnswersKept
    <3> QED
      BY <3>1, <3>2
  <2>2. CASE (AnswerImport(c) \/ FailImport(c)) /\ OnlyImporting
    BY <1>3, <2>2, ImportAnswersKept DEF OnlyImporting
  <2>3. CASE FailMail(c)
    <3>1. mails' = mails
      BY <2>3 DEF FailMail
    <3>2. CASE Continue(c, {})
      BY <1>3, <3>1, <3>2 DEF AnswersKept
    <3>3. CASE ~Continue(c, {})
      <4>1. c.job = "mails" /\ c.op # "writeBack" /\ EndMail(c, "error")
        BY <2>3, <3>3 DEF FailMail
      <4>2. c \in MailCall
        BY <4>1, CallIs DEF MailFits
      <4>3. PICK d : Plain(d) /\ Continue(c, {d})
        BY <4>1, <4>2, EndMailNext
      <4>4. CallKept(d)
        BY <4>3, FreeCalls DEF Plain, KeepOps, UserOps, HalfwayOps, CopyOps
      <4> QED
        BY <1>3, <3>1, <4>3, <4>4 DEF AnswersKept
    <3> QED
      BY <3>2, <3>3
  <2>4. CASE WriteBack(c) /\ UNCHANGED mailingVars
    BY <1>3, <2>4 DEF WriteBack, AnswersKept, mailingVars
  <2>5. CASE (ServeReport(c) \/ FailReport(c)) /\ OnlyReports
    <3>1. c.job = "report" /\ mails' = mails
      BY <2>5, WhoReports DEF OnlyReports, mailingVars
    <3>2. CASE Continue(c, {})
      BY <1>3, <3>1, <3>2 DEF AnswersKept
    <3>3. CASE ~Continue(c, {})
      <4>1. PICK d : d.job = "report" /\ Continue(c, {d})
        BY <1>6, <3>1, <3>3, StaysInItsJob DEF StaysInJob
      <4>2. d \in BagToSet(pending')
        BY <1>1, <4>1, ContinueCalls
      <4>3. d \in ReportCall
        BY <1>1, <4>1, <4>2
        DEF TypeInv, MigrationTypeOK, MailCall, AddressCall, ImportCall, WriteBackCall, Jobs, Column
      <4>4. CallKept(d)
        BY <4>3, FreeCalls DEF ReportCall, KeepOps, UserOps, HalfwayOps, CopyOps
      <4> QED
        BY <1>3, <3>1, <4>1, <4>4 DEF AnswersKept
    <3> QED
      BY <3>2, <3>3
  <2> QED
    BY <1>6, <2>1, <2>2, <2>3, <2>4, <2>5 DEF Work, Reject
<1>7. CASE Interrupt
  <2> DEFINE new == {}
  <2>1. /\ BagToSet(pending') \subseteq BagToSet(pending) \cup new
        /\ \A m \in mails' \ mails : Known(m.user, m.document)
        /\ \A d \in new : CallKept(d) \/ CallKept(d)'
    BY <1>7, NoCalls DEF Interrupt, LoseMails
  <2> HIDE DEF new
  <2> QED
    BY <1>2, <2>1
<1> QED
  BY <1>4, <1>5, <1>6, <1>7 DEF MigrationNext

LEMMA KeptAtStart == MigrationInit => KeptInv
BY RegistryAssumption, NoCalls DEF MigrationInit, RegistryInit, MailingInit, KeptInv,
   NewAreProfessors
LEMMA KeptHolds == MigrationSpec => [](TypeInv /\ AloneInv /\ KeptInv)
<1>1. TypeInv /\ KeptInv /\ [MigrationNext]_migrationVars => KeptInv'
  BY KeptKept
<1> QED
  BY <1>1, KeptAtStart, AloneHolds, PTL DEF MigrationSpec
-----------------------------------------------------------------------------
(* Passwords: what a job knows of a password is what is stored.              *)

PasswordIs(id, password) == \A u \in WithId(id) : u.password = password

PassOps == HalfwayOps \cup {"replaceAddress"}

PassKept(c) ==
  /\ c.op \in HalfwayOps => PasswordIs(c.user.id, c.password)
  /\ c.op = "replaceEmail" => c.copy.password = c.password
  /\ c.op = "replaceAddress" => PasswordIs(c.copy.id, c.copy.password)

Raced == met \cap {{"mails"}, {"mails", "addresses"}} # {}

PasswordInv ==
  ~Raced =>
    /\ \A c \in BagToSet(pending) : PassKept(c)
    /\ \A m \in mails : m.user \in halfway \/ PasswordIs(m.user, m.password)

LEMMA PasswordStays ==
  ASSUME UsersStep({"password"}), NEW id, NEW password, PasswordIs(id, password),
         id \in NewUserIds => WithId(id) # {}
  PROVE  PasswordIs(id, password)'
<1> DEFINE attributes == {"password"}
<1>1. "password" \in attributes /\ UsersStep(attributes)
  OBVIOUS
<1>2. \A u \in WithId(id) : u["password"] = password
  BY DEF PasswordIs
<1> HIDE DEF attributes
<1>3. \A u \in WithId(id)' : u["password"] = password
  BY <1>1, <1>2, AttributeKept
<1> QED
  BY <1>3 DEF PasswordIs

LEMMA CallKeepsPassword ==
  ASSUME UsersStep({"password"}), NEW c, CallKept(c), PassKept(c)
  PROVE  PassKept(c)'
<1>1. c.op \in HalfwayOps => PasswordIs(c.user.id, c.password)'
  BY PasswordStays DEF CallKept, PassKept, Known, UserOps
<1>2. c.op = "replaceAddress" => PasswordIs(c.copy.id, c.copy.password)'
  BY PasswordStays DEF CallKept, PassKept, Known
<1> QED
  BY <1>1, <1>2 DEF PassKept

\* A step that changes no password that is stored.
LEMMA PasswordStep ==
  ASSUME KeptInv, PasswordInv, UsersStep({"password"}), met \subseteq met',
         halfway \subseteq halfway', NEW new,
         BagToSet(pending') \subseteq BagToSet(pending) \cup new,
         ~Raced => \A d \in new : PassKept(d)',
         ~Raced => \A m \in mails' \ mails : PasswordIs(m.user, m.password)'
  PROVE  PasswordInv'
<1> SUFFICES ASSUME ~Raced'
             PROVE  PasswordInv'
  BY DEF PasswordInv
<1>1. ~Raced
  BY DEF Raced
<1>2. \A c \in BagToSet(pending') : PassKept(c)'
  BY <1>1, CallKeepsPassword DEF KeptInv, PasswordInv
<1>3. \A m \in mails : PasswordIs(m.user, m.password) => PasswordIs(m.user, m.password)'
  BY PasswordStays DEF KeptInv, Known
<1>4. \A m \in mails' : m.user \in halfway' \/ PasswordIs(m.user, m.password)'
  BY <1>1, <1>3 DEF PasswordInv
<1> QED
  BY <1>2, <1>4 DEF PasswordInv

\* Only the new password of sendEmail changes a password.
LEMMA PasswordsChange ==
  ASSUME TypeInv, KeptInv, PasswordInv, ~Raced, [MigrationNext]_migrationVars
  PROVE  \/ UsersStep({"password"})
         \/ \E c \in BagToSet(pending) :
              ReplacePassword(c) /\ WithId(c.user.id) # {} /\ UNCHANGED met
<1>1. ASSUME NEW c \in BagToSet(pending), NEW w \in User, WritesUser(c, w),
             ~ReplacePassword(c)
      PROVE  UsersStep({"password"})
  <2>1. \A u \in WithId(w.id) : u.password = w.password
    <3>1. CASE c.op = "replaceAddress"
      BY <1>1, <3>1 DEF WritesUser, PasswordInv, PassKept, PasswordIs
    <3>2. CASE c.op = "replaceEmail"
      <4>1. c.copy.id = c.user.id
        BY <3>2, CallIs DEF MailFits, LineMailOps, MailOps, CopyOps
      <4> QED
        BY <1>1, <3>2, <4>1 DEF WritesUser, PasswordInv, PassKept, PasswordIs, HalfwayOps
    <3> QED
      BY <1>1, <3>1, <3>2 DEF WritesUser, CopyOps
  <2>2. \A u \in WithId(w.id) : \A a \in {"password"} : u[a] = w[a]
    BY <2>1
  <2> QED
    BY <1>1, <2>2 DEF UsersStep, WritesUser
<1>2. ASSUME NEW c \in BagToSet(pending), NEW w \in User, WritesUser(c, w), ReplacePassword(c)
      PROVE  WithId(c.user.id) # {} /\ UNCHANGED met
  <2>1. c.copy.id = c.user.id
    BY <1>2, CallIs DEF ReplacePassword, MailFits, LineMailOps, MailOps, CopyOps
  <2> QED
    BY <1>2, <2>1 DEF WritesUser, ReplacePassword
<1> QED
  BY <1>1, <1>2, UsersWrites DEF UsersWritten, UsersStep, CreatesUser

\* The calls with which a call is answered know the passwords that are stored.
AnswersPass(c) ==
  \/ Continue(c, {})
  \/ \E d : Continue(c, {d}) /\ PassKept(d)'

LEMMA MailAnswersPass ==
  ASSUME TypeInv, KeptInv, PasswordInv, ~Raced, NEW c \in BagToSet(pending), MailWork(c),
         c \in MailCall, MailFits(c), UsersStep({"password"}),
         ReplacePassword(c) => WithId(c.user.id) = {}
  PROVE  AnswersPass(c)
<1>1. ASSUME NEW d, d.op \notin PassOps, Continue(c, {d})
      PROVE  AnswersPass(c)
  BY <1>1 DEF AnswersPass, PassKept, PassOps, HalfwayOps
<1>2. \A mark : EndMail(c, mark) => AnswersPass(c)
  <2> SUFFICES ASSUME NEW mark, EndMail(c, mark)
               PROVE  AnswersPass(c)
    OBVIOUS
  <2>1. PICK d : Plain(d) /\ Continue(c, {d})
    BY EndMailNext
  <2> QED
    BY <1>1, <2>1 DEF Plain, PassOps, HalfwayOps
<1>3. CASE ReadMailRows(c) \/ ReadMailLines(c)
  <2>1. StaysInWalk(c)
    BY <1>3, RowsInJob, LinesInJob
  <2>2. CASE Continue(c, {})
    BY <2>2 DEF AnswersPass
  <2>3. CASE ~Continue(c, {})
    <3>1. PICK d : d.op \in {"writeBack", RowOp[c.job], LineOp[c.job]} /\ Continue(c, {d})
      BY <2>1, <2>3 DEF StaysInWalk
    <3>2. c.job = "mails"
      BY DEF MailCall
    <3> QED
      BY <1>1, <3>1, <3>2 DEF RowOp, LineOp, PassOps, HalfwayOps
  <2> QED
    BY <2>2, <2>3
<1>4. CASE ReadProcessed(c) \/ FindAddress(c)
  <2>1. \A list : /\ [c EXCEPT !.op = "findAddress", !.list = list].op = "findAddress"
                  /\ [c EXCEPT !.op = "findDocument"].op = "findDocument"
    BY DEF MailCall
  <2> QED
    BY <1>1, <1>2, <1>4, <2>1 DEF ReadProcessed, FindAddress, NoMailDue, PassOps, HalfwayOps
<1>5. CASE FindDocument(c)
  <2>1. ASSUME NEW user, NEW password,
               Continue(c, {[c EXCEPT !.op = "readForPassword", !.user = user,
                                      !.list = {}, !.password = password]})
        PROVE  AnswersPass(c)
    <3> DEFINE d == [c EXCEPT !.op = "readForPassword", !.user = user,
                              !.list = {}, !.password = password]
    <3>1. d.op = "readForPassword" /\ Continue(c, {d})
      BY <2>1 DEF MailCall
    <3> HIDE DEF d
    <3> QED
      BY <1>1, <3>1 DEF PassOps, HalfwayOps
  <2>2. \/ \E mark : EndMail(c, mark)
        \/ \E user, password :
             Continue(c, {[c EXCEPT !.op = "readForPassword", !.user = user,
                                    !.list = {}, !.password = password]})
    BY <1>5 DEF FindDocument, NoMailDue, WithDocument
  <2> QED
    BY <1>2, <2>1, <2>2
<1>6. CASE ReadForPassword(c)
  <2>1. ASSUME NEW u, Continue(c, {[c EXCEPT !.op = "replacePassword", !.copy = u]})
        PROVE  AnswersPass(c)
    <3> DEFINE d == [c EXCEPT !.op = "replacePassword", !.copy = u]
    <3>1. d.op = "replacePassword" /\ Continue(c, {d})
      BY <2>1 DEF MailCall
    <3> HIDE DEF d
    <3> QED
      BY <1>1, <3>1 DEF PassOps, HalfwayOps
  <2>2. \/ EndMail(c, "error")
        \/ \E u : Continue(c, {[c EXCEPT !.op = "replacePassword", !.copy = u]})
    BY <1>6 DEF ReadForPassword, ReadUserFor
  <2> QED
    BY <1>2, <2>1, <2>2
<1>7. c.op \in HalfwayOps => /\ PasswordIs(c.user.id, c.password)
                             /\ PasswordIs(c.user.id, c.password)'
  BY PasswordStays DEF PasswordInv, PassKept, KeptInv, CallKept, Known, UserOps
<1>8. CASE ReplacePassword(c)
  BY <1>2, <1>8 DEF ReplacePassword
<1>9. CASE ReadForEmail(c)
  <2>1. ASSUME NEW u \in WithId(c.user.id),
               Continue(c, {[c EXCEPT !.op = "replaceEmail", !.copy = u]})
        PROVE  AnswersPass(c)
    <3> DEFINE d == [c EXCEPT !.op = "replaceEmail", !.copy = u]
    <3>1. /\ d.op = "replaceEmail" /\ d.user = c.user /\ d.password = c.password /\ d.copy = u
          /\ Continue(c, {d})
      BY <2>1 DEF MailCall
    <3> HIDE DEF d
    <3>2. u.password = c.password /\ PasswordIs(c.user.id, c.password)'
      BY <1>7, <1>9 DEF ReadForEmail, ReadUserFor, HalfwayOps, PasswordIs
    <3> QED
      BY <3>1, <3>2 DEF AnswersPass, PassKept
  <2>2. \/ EndMail(c, "error")
        \/ \E u \in WithId(c.user.id) :
             Continue(c, {[c EXCEPT !.op = "replaceEmail", !.copy = u]})
    BY <1>9 DEF ReadForEmail, ReadUserFor
  <2> QED
    BY <1>2, <2>1, <2>2
<1>10. ASSUME c.op \in HalfwayOps, NEW d, d.user = c.user, d.password = c.password,
              d.op \in {"sendMail", "readForAppend", "writeAppend"}, Continue(c, {d})
       PROVE  AnswersPass(c)
  BY <1>7, <1>10 DEF AnswersPass, PassKept
<1>11. CASE ReplaceEmail(c)
  <2>1. CASE EndMail(c, "error")
    BY <1>2, <2>1
  <2>2. CASE ~EndMail(c, "error")
    <3> DEFINE d == [c EXCEPT !.op = "sendMail", !.copy = None]
    <3>1. d.op = "sendMail" /\ d.user = c.user /\ d.password = c.password /\ Continue(c, {d})
      BY <1>11, <2>2 DEF MailCall, ReplaceEmail
    <3> HIDE DEF d
    <3> QED
      BY <1>10, <1>11, <3>1 DEF ReplaceEmail, HalfwayOps
  <2> QED
    BY <2>1, <2>2
<1>12. CASE SendMail(c)
  <2> DEFINE d == [c EXCEPT !.op = "readForAppend"]
  <2>1. d.op = "readForAppend" /\ d.user = c.user /\ d.password = c.password /\ Continue(c, {d})
    BY <1>12 DEF MailCall, SendMail
  <2> HIDE DEF d
  <2> QED
    BY <1>10, <1>12, <2>1 DEF SendMail, HalfwayOps
<1>13. CASE ReadForAppend(c)
  <2> DEFINE d == [c EXCEPT !.op = "writeAppend", !.list = processed]
  <2>1. d.op = "writeAppend" /\ d.user = c.user /\ d.password = c.password /\ Continue(c, {d})
    BY <1>13 DEF MailCall, ReadForAppend
  <2> HIDE DEF d
  <2> QED
    BY <1>10, <1>13, <2>1 DEF ReadForAppend, HalfwayOps
<1>14. CASE WriteAppend(c)
  BY <1>2, <1>14 DEF WriteAppend
<1> QED
  BY <1>3, <1>4, <1>5, <1>6, <1>8, <1>9, <1>11, <1>12, <1>13, <1>14 DEF MailWork

LEMMA AddressAnswersPass ==
  ASSUME TypeInv, NEW c \in BagToSet(pending), AddressWork(c), c \in AddressCall
  PROVE  AnswersPass(c)
<1>1. CASE Continue(c, {})
  BY <1>1 DEF AnswersPass
<1>2. ASSUME NEW d, d.op \in {"writeUsers", "readUser"}, Continue(c, {d})
      PROVE  AnswersPass(c)
  BY <1>2 DEF AnswersPass, PassKept, HalfwayOps
<1>3. CASE ListUsers(c)
  <2> DEFINE d == [c EXCEPT !.op = "writeUsers", !.left =
                     {[id |-> u.id, email |-> Normal(u.email)] :
                        u \in {v \in users : v.email # Normal(v.email)}}]
  <2>1. d.op = "writeUsers" /\ Continue(c, {d})
    BY <1>3 DEF AddressCall, ListUsers
  <2> HIDE DEF d
  <2> QED
    BY <1>2, <2>1
<1>4. CASE WriteUsers(c) \/ ReplaceAddress(c)
  <2> DEFINE d == [c EXCEPT !.op = "readUser"]
             e == [[c EXCEPT !.copy = None] EXCEPT !.op = "readUser"]
  <2>1. d.op = "readUser" /\ e.op = "readUser"
    BY DEF AddressCall
  <2>2. \/ Continue(c, {}) \/ Continue(c, {d}) \/ Continue(c, {e})
    <3>1. AtUser(c) \in {{}, {d}} /\ AtUser([c EXCEPT !.copy = None]) \in {{}, {e}}
      BY DEF AtUser
    <3> HIDE DEF d, e
    <3> QED
      BY <1>4, <3>1 DEF WriteUsers, ReplaceAddress
  <2> HIDE DEF d, e
  <2> QED
    BY <1>1, <1>2, <2>1, <2>2
<1>5. ASSUME NEW w \in c.left, NEW u \in WithId(w.id), users' = users,
             Continue(c, {[c EXCEPT !.op = "replaceAddress", !.left = @ \ {w},
                                    !.copy = [u EXCEPT !.email = w.email]]})
      PROVE  AnswersPass(c)
  <2> DEFINE copy == [u EXCEPT !.email = w.email]
             d == [c EXCEPT !.op = "replaceAddress", !.left = @ \ {w}, !.copy = copy]
  <2>1. d.op = "replaceAddress" /\ d.copy = copy /\ Continue(c, {d})
    BY <1>5 DEF AddressCall
  <2>2. /\ u \in User /\ \A v \in WithId(u.id) : v = u
    BY StoredKnown DEF WithId
  <2>3. copy.id = u.id /\ copy.password = u.password
    BY <2>2 DEF User
  <2> HIDE DEF copy, d
  <2>4. PasswordIs(copy.id, copy.password)'
    BY <1>5, <2>2, <2>3 DEF PasswordIs, WithId
  <2>5. PassKept(d)'
    BY <2>1, <2>4 DEF PassKept, HalfwayOps
  <2> QED
    BY <2>1, <2>5 DEF AnswersPass
<1>6. CASE ReadUser(c)
  BY <1>1, <1>5, <1>6 DEF ReadUser
<1> QED
  BY <1>3, <1>4, <1>6 DEF AddressWork
\* Calls of the jobs that write no user know no password.
LEMMA OthersPass ==
  ASSUME TypeInv, NEW c \in BagToSet(pending), c \notin CallsOf("mails"),
         c \notin CallsOf("addresses")
  PROVE  c.op \notin PassOps /\ PassKept(c)'
<1>1. c.op \notin PassOps
  BY CallIs DEF TypeInv, MigrationTypeOK, CallsOf, MailCall, AddressCall, ImportCall,
     WriteBackCall, ReportCall, PassOps, HalfwayOps, LineOps, RowOps
<1> QED
  BY <1>1 DEF PassOps, PassKept, HalfwayOps

\* The new password of a user: who was mailed one before is halfway.
LEMMA NewPasswordKept ==
  ASSUME TypeInv, TypeInv', AloneInv, MailedInv, PasswordInv, NEW c \in BagToSet(pending),
         ReplacePassword(c), WithId(c.user.id) # {}, UNCHANGED <<mailingVars, met>>,
         c \in MailCall, MailFits(c)
  PROVE  PasswordInv'
<1> SUFFICES ASSUME ~Raced
             PROVE  PasswordInv'
  BY DEF PasswordInv, Raced
<1>1. IsABag(pending) /\ c \in CallsOf("mails") /\ c.op = "replacePassword"
  BY DEF TypeInv, MigrationTypeOK, CallsOf, ReplacePassword, MailCall
<1>2. {"mails"} \notin met /\ {"mails", "addresses"} \notin met
  BY DEF Raced
<1>3. Single("mails") /\ CallsOf("addresses") = {}
  BY <1>1, <1>2 DEF AloneInv
<1>4. \A m \in mails : m.user = c.user.id => m.user \in halfway
  <2>1. c.user.id \notin processed
    BY <1>1, <1>2 DEF MailedInv
  <2>2. \A e \in CallsOf("mails") : e = c
    BY <1>1, <1>3 DEF Single
  <2> QED
    BY <1>1, <1>2, <2>1, <2>2 DEF MailedInv
<1> DEFINE w == WithNewPassword(c)
           d == [c EXCEPT !.op = "readForEmail", !.copy = None]
<1>5. users' = Replaced(users, w) /\ Continue(c, {d})
  BY DEF ReplacePassword
<1>6. d.op = "readForEmail" /\ d.user = c.user /\ d.password = c.password
  BY DEF MailCall
<1>7. w.id = c.user.id /\ w.password = c.password
  <2>1. c.copy \in User /\ c.copy.id = c.user.id
    BY <1>1 DEF MailFits, LineMailOps, MailOps, CopyOps
  <2> QED
    BY <2>1 DEF WithNewPassword, User
<1> HIDE DEF w, d
<1>8. PassKept(d)'
  <2>1. WithId(w.id)' = {w}
    BY <1>5 DEF WithId, Replaced
  <2> QED
    BY <1>6, <1>7, <2>1 DEF PassKept, PasswordIs
<1>9. \A e \in BagToSet(pending') : PassKept(e)'
  <2>1. BagToSet(pending') = Others(c) \cup {d}
    BY <1>1, <1>5, ContinueLeaves
  <2>2. \A e \in Others(c) : e \in BagToSet(pending) /\ e \notin CallsOf("mails")
    <3>1. Others(c) = {e \in BagToSet(pending) : e # c \/ pending[e] > 1}
      BY <1>1, OthersAre DEF Others
    <3> QED
      BY <1>1, <1>3, <3>1 DEF Single, CallsOf
  <2> QED
    BY <1>3, <1>8, <2>1, <2>2, OthersPass
<1>10. \A m \in mails' : m.user \in halfway' \/ PasswordIs(m.user, m.password)'
  <2> SUFFICES ASSUME NEW m \in mails, m.user \notin halfway
               PROVE  PasswordIs(m.user, m.password)'
    BY DEF mailingVars
  <2>1. m.user # w.id /\ PasswordIs(m.user, m.password)
    BY <1>4, <1>7 DEF PasswordInv
  <2>2. WithId(m.user)' = WithId(m.user)
    BY <1>5, <2>1 DEF WithId, Replaced
  <2> QED
    BY <2>1, <2>2 DEF PasswordIs
<1> QED
  BY <1>9, <1>10 DEF PasswordInv

LEMMA PasswordKept ==
  TypeInv /\ AloneInv /\ MailedInv /\ KeptInv /\ PasswordInv /\ [MigrationNext]_migrationVars
    => PasswordInv'
<1> SUFFICES ASSUME TypeInv, AloneInv, MailedInv, KeptInv, PasswordInv,
                    [MigrationNext]_migrationVars
             PROVE  PasswordInv'
  OBVIOUS
<1>1. IsABag(pending) /\ TypeInv'
  BY TypesKept DEF TypeInv, MigrationTypeOK
<1>2. CASE Raced \/ ~UsersStep({"password"})
  <2>1. CASE Raced
    <3>1. met \subseteq met'
      BY StaysInItsJob DEF MigrationNext, migrationVars, MigrationRequest, Meets, PauseLine,
         CatalogueRequest, Interrupt
    <3> QED
      BY <2>1, <3>1 DEF PasswordInv, Raced
  <2>2. CASE ~Raced
    <3>1. PICK c \in BagToSet(pending) :
            ReplacePassword(c) /\ WithId(c.user.id) # {} /\ UNCHANGED met
      BY <1>2, <2>2, PasswordsChange
    <3>2. c \in MailCall /\ MailFits(c)
      BY <3>1, CallIs DEF ReplacePassword, LineMailOps, MailOps, MailFits
    <3> QED
      BY <1>1, <3>1, <3>2, NewPasswordKept DEF ReplacePassword
  <2> QED
    BY <2>1, <2>2
<1>3. CASE ~Raced /\ UsersStep({"password"})
  <2>1. ASSUME NEW new, BagToSet(pending') \subseteq BagToSet(pending) \cup new,
               met \subseteq met', halfway \subseteq halfway', \A d \in new : PassKept(d)',
               \A m \in mails' \ mails : PasswordIs(m.user, m.password)'
        PROVE  PasswordInv'
    BY <1>3, <2>1, PasswordStep
  <2>2. ASSUME NEW c, AnswersPass(c), met \subseteq met', halfway \subseteq halfway',
               \A m \in mails' \ mails : PasswordIs(m.user, m.password)'
        PROVE  PasswordInv'
    <3>1. PICK new : Continue(c, new) /\ \A d \in new : PassKept(d)'
      <4>1. CASE Continue(c, {})
        BY <4>1
      <4>2. ASSUME NEW d, Continue(c, {d}), PassKept(d)'
            PROVE  \E new : Continue(c, new) /\ \A e \in new : PassKept(e)'
        <5>1. Continue(c, {d}) /\ \A e \in {d} : PassKept(e)'
          BY <4>2
        <5> QED
          BY <5>1
      <4> QED
        BY <2>2, <4>1, <4>2 DEF AnswersPass
    <3>2. BagToSet(pending') \subseteq BagToSet(pending) \cup new
      BY <1>1, <3>1, ContinueCalls
    <3> QED
      BY <2>1, <2>2, <3>1, <3>2
  <2>3. CASE MigrationRequest
    <3>1. PICK d : /\ Start({d})
                   /\ d.op \in {"readTrainings", "listUsers", "bySchool", "attendance"}
      BY <2>3, RequestsKept
    <3> DEFINE new == {d}
    <3>2. /\ BagToSet(pending') \subseteq BagToSet(pending) \cup new
          /\ \A e \in new : PassKept(e)'
      BY <1>1, <3>1, StartCalls DEF PassKept, HalfwayOps
    <3>3. /\ met \subseteq met' /\ halfway \subseteq halfway'
          /\ \A m \in mails' \ mails : PasswordIs(m.user, m.password)'
      BY <2>3 DEF MigrationRequest, SendMails, UpdateMails, OnlyImporting, OnlyReports,
                  mailingVars, Meets
    <3> HIDE DEF new
    <3> QED
      BY <2>1, <3>2, <3>3
  <2>4. CASE \/ \E sheet \in ToSet(Sheets) : \E line \in 1..Height(sheet) : PauseLine(sheet, line)
             \/ CatalogueRequest
             \/ UNCHANGED migrationVars
             \/ Interrupt
    <3> DEFINE new == {}
    <3>1. BagToSet(pending') \subseteq BagToSet(pending) \cup new /\ \A d \in new : PassKept(d)'
      BY <2>4, NoCalls DEF PauseLine, CatalogueRequest, migrationVars, Interrupt
    <3>2. /\ met \subseteq met' /\ halfway \subseteq halfway'
          /\ \A m \in mails' \ mails : PasswordIs(m.user, m.password)'
      BY <2>4 DEF PauseLine, CatalogueRequest, migrationVars, Interrupt, LoseMails, mailingVars
    <3> HIDE DEF new
    <3> QED
      BY <2>1, <3>1, <3>2
  <2>5. ASSUME NEW c \in BagToSet(pending), Work(c) \/ Reject(c)
        PROVE  PasswordInv'
    <3>1. met' = met /\ StaysInJob(c) /\ (c.op = "writeBack" => Continue(c, {}))
      BY <2>5, StaysInItsJob
    <3>2. CASE AnswerMail(c)
      <4>1. CASE AddressWork(c)
        <5>1. mails' = mails /\ halfway' = halfway
          BY <4>1 DEF AddressWork, ListUsers, WriteUsers, ReadUser, ReplaceAddress, mailingVars
        <5>2. c \in AddressCall
          BY <4>1, CallIs DEF AddressWork, ListUsers, WriteUsers, ReadUser, ReplaceAddress,
                              AddressFits
        <5> QED
          BY <2>2, <3>1, <4>1, <5>1, <5>2, AddressAnswersPass
      <4>2. CASE ~AddressWork(c)
        <5>1. MailWork(c) /\ MailFits(c) /\ c \in MailCall
          BY <3>2, <4>2, WhoMails
        <5>2. CASE ReplacePassword(c) /\ WithId(c.user.id) # {}
          BY <1>1, <3>1, <5>1, <5>2, NewPasswordKept DEF ReplacePassword
        <5>3. CASE ~(ReplacePassword(c) /\ WithId(c.user.id) # {})
          <6>1. AnswersPass(c)
            BY <1>3, <5>1, <5>3, MailAnswersPass
          <6>2. halfway \subseteq halfway' /\ \A m \in mails' \ mails : PasswordIs(m.user, m.password)'
            <7>1. CASE SendMail(c)
              <8>1. PasswordIs(c.user.id, c.password) /\ Known(c.user.id, c.user.document)
                BY <1>3, <7>1
                DEF SendMail, PasswordInv, PassKept, HalfwayOps, KeptInv, CallKept, UserOps
              <8>2. PasswordIs(c.user.id, c.password)'
                BY <1>3, <8>1, PasswordStays DEF Known
              <8> QED
                BY <7>1, <8>2 DEF SendMail
            <7>2. CASE ~SendMail(c)
              BY <5>1, <7>2 DEF MailWork, ReadMailRows, ReadMailLines, ReadProcessed, FindAddress,
                 FindDocument, ReadForPassword, ReplacePassword, ReadForEmail, ReplaceEmail,
                 ReadForAppend, WriteAppend, mailingVars
            <7> QED
              BY <7>1, <7>2
          <6> QED
            BY <2>2, <3>1, <6>1, <6>2
        <5> QED
          BY <5>2, <5>3
      <4> QED
        BY <4>1, <4>2
    <3>3. CASE FailMail(c)
      <4>1. mails' = mails /\ halfway \subseteq halfway'
        BY <3>3 DEF FailMail
      <4>2. CASE Continue(c, {})
        BY <2>2, <3>1, <4>1, <4>2 DEF AnswersPass
      <4>3. CASE ~Continue(c, {})
        <5>1. c.job = "mails" /\ c.op # "writeBack" /\ EndMail(c, "error")
          BY <3>3, <4>3 DEF FailMail
        <5>2. c \in MailCall
          BY <5>1, CallIs DEF MailFits
        <5>3. PICK d : Plain(d) /\ Continue(c, {d})
          BY <5>1, <5>2, EndMailNext
        <5>4. PassKept(d)'
          BY <5>3 DEF Plain, PassKept, HalfwayOps
        <5> QED
          BY <2>2, <3>1, <4>1, <5>3, <5>4 DEF AnswersPass
      <4> QED
        BY <4>2, <4>3
    <3>4. CASE ~AnswerMail(c) /\ ~FailMail(c)
      <4>1. mails' = mails /\ halfway' = halfway
        BY <2>5, <3>4 DEF Work, Reject, OnlyImporting, OnlyReports, mailingVars
      <4>2. CASE Continue(c, {})
        BY <2>2, <3>1, <4>1, <4>2 DEF AnswersPass
      <4>3. CASE ~Continue(c, {})
        <5>1. c.op # "writeBack" /\ c.job \in {"import", "report"}
          <6>1. ~WriteBack(c)
            BY <4>3 DEF WriteBack
          <6> QED
            BY <2>5, <3>1, <3>4, <4>3, <6>1, WhoImports, WhoReports DEF Work, Reject, CallsOf
        <5>2. PICK d : d.job = c.job /\ Continue(c, {d})
          BY <3>1, <4>3 DEF StaysInJob
        <5>3. d \in BagToSet(pending')
          BY <1>1, <5>2, ContinueCalls
        <5>4. d \in ImportCall \cup ReportCall \cup WriteBackCall
          BY <1>1, <5>1, <5>2, <5>3 DEF TypeInv, MigrationTypeOK, MailCall, AddressCall
        <5>5. PassKept(d)'
          BY <5>4
          DEF ImportCall, ReportCall, WriteBackCall, PassKept, HalfwayOps, LineOps, RowOps
        <5> QED
          BY <2>2, <3>1, <4>1, <5>2, <5>5 DEF AnswersPass
      <4> QED
        BY <4>2, <4>3
    <3> QED
      BY <3>2, <3>3, <3>4
  <2> QED
    BY <2>3, <2>4, <2>5 DEF MigrationNext
<1> QED
  BY <1>2, <1>3

\* The password a user was mailed is the one that is stored, whatever other
\* jobs do to the user later and wherever a job fails, unless his processing
\* stopped halfway or another job replaced users meanwhile.
\* (updatePassword, updateEmail, updateMails, migrateFromExcel.)
THEOREM MailedPasswordsWork == MigrationSpec => []MailedPasswordWorks
<1>1. MigrationInit => PasswordInv
  BY NoCalls DEF MigrationInit, MailingInit, PasswordInv
<1>2. MigrationInit => MailedInv
  BY NoCalls DEF MigrationInit, MailingInit, MailedInv, CallsOf
<1>3. TypeInv /\ AloneInv /\ MailedInv /\ [MigrationNext]_migrationVars => MailedInv'
  BY MailedKept
<1>4. TypeInv /\ AloneInv /\ MailedInv /\ KeptInv /\ PasswordInv /\ [MigrationNext]_migrationVars
        => PasswordInv'
  BY PasswordKept
<1>5. PasswordInv => MailedPasswordWorks
  BY DEF PasswordInv, MailedPasswordWorks, PasswordIs, Raced
<1> QED
  BY <1>1, <1>2, <1>3, <1>4, <1>5, KeptHolds, PTL DEF MigrationSpec
-----------------------------------------------------------------------------
(* The walk of an import, in detail.                                         *)

\* The walk from c is at the next row of the first sheet, or at its end,
AtNextRow(c, d) == d.job = c.job /\ d.results = c.results /\ d.op \in {"writeBack", RowOp[c.job]}

\* or at the first of the lines that are left.
AtNextLine(c, d) ==
  \/ AtNextRow(c, d)
  \/ /\ d.job = c.job /\ d.results = c.results /\ d.op = LineOp[c.job]
     /\ d.rows = c.rows /\ d.lines = c.lines /\ c.lines # {}
     /\ "training" \in DOMAIN c => d.training = c.training

LEMMA WalkIs ==
  ASSUME NEW c, Walker(c)
  PROVE  AtNextRow(c, AtRow(c)) /\ AtNextRow(c, AfterRow(c)) /\ AtNextLine(c, AtLine(c))
<1>1. \A d : Walker(d) => AtNextRow(d, AtRow(d))
  <2> SUFFICES ASSUME NEW d, Walker(d)
               PROVE  AtNextRow(d, AtRow(d))
    OBVIOUS
  <2>1. CASE d.rows = {}
    BY <2>1 DEF AtRow, ToWriteBack, AtNextRow
  <2>2. CASE d.rows # {}
    BY <2>2 DEF AtRow, Walker, AtNextRow
  <2> QED
    BY <2>1, <2>2
<1>2. AtNextRow(c, AfterRow(c))
  <2> DEFINE e == [c EXCEPT !.rows = @ \ {Min(@)}, !.lines = {}]
  <2>1. Walker(e) /\ e.job = c.job /\ e.results = c.results
    BY DEF Walker
  <2>2. AfterRow(c) = AtRow(e)
    BY DEF AfterRow
  <2> HIDE DEF e
  <2>3. AtNextRow(e, AtRow(e))
    BY <1>1, <2>1
  <2> QED
    BY <2>1, <2>2, <2>3 DEF AtNextRow
<1>3. AtNextLine(c, AtLine(c))
  <2>1. CASE c.lines = {}
    BY <1>2, <2>1 DEF AtLine, AtNextLine
  <2>2. CASE c.lines # {}
    <3> DEFINE d == [c EXCEPT !.op = LineOp[c.job]]
    <3>1. AtLine(c) = d
      BY <2>2 DEF AtLine
    <3>2. /\ d.job = c.job /\ d.results = c.results /\ d.op = LineOp[c.job]
          /\ d.rows = c.rows /\ d.lines = c.lines
          /\ "training" \in DOMAIN c => d.training = c.training
      BY DEF Walker
    <3> HIDE DEF d
    <3> QED
      BY <2>2, <3>1, <3>2 DEF AtNextLine
  <2> QED
    BY <2>1, <2>2
<1> QED
  BY <1>1, <1>2, <1>3

\* An import that has read results, rows and lines.
ImportAt(e, results, rows, lines, training) ==
  /\ Walker(e) /\ e.job = "import" /\ "training" \in DOMAIN e
  /\ e.results = results /\ e.rows = rows /\ e.lines = lines /\ e.training = training

LEMMA EndLineIs ==
  ASSUME NEW c \in ImportCall, NEW mark, EndLine(c, mark)
  PROVE  \E e, d : /\ ImportAt(e, [c.results EXCEPT ![Code(c)][Min(c.lines)] = mark],
                               c.rows, c.lines \ {Min(c.lines)}, c.training)
                   /\ AtNextLine(e, d) /\ Continue(c, {d})
<1> DEFINE b == [c EXCEPT !.user = None, !.found = NothingFound]
           r == [c.results EXCEPT ![Code(c)][Min(c.lines)] = mark]
           e == [MarkLine(b, mark) EXCEPT !.lines = @ \ {Min(@)}]
           d == AtLine(e)
<1>1. /\ Walker(b) /\ b.job = "import" /\ "training" \in DOMAIN b
      /\ b.results = c.results /\ b.rows = c.rows /\ b.lines = c.lines /\ b.training = c.training
  BY DEF ImportCall, Walker
<1>2. Continue(c, {d})
  BY DEF EndLine, AfterLine
<1> HIDE DEF b, d
<1>3. Code(b) = Code(c)
  BY <1>1 DEF Code, TrainingRow
<1>4. MarkLine(b, mark) = [b EXCEPT !.results = r]
  BY <1>1, <1>3 DEF MarkLine, Walker
<1> HIDE DEF r
<1>5. ImportAt(e, r, c.rows, c.lines \ {Min(c.lines)}, c.training)
  BY <1>1, <1>4 DEF Walker, ImportAt
<1> HIDE DEF e
<1>6. AtNextLine(e, d)
  BY <1>5, WalkIs DEF d, ImportAt
<1> QED
  BY <1>2, <1>5, <1>6 DEF r

\* The lines that are open are read, and the errors of those that are not.
LEMMA ReadLinesIs ==
  ASSUME NEW c \in ImportCall, ReadImportLines(c)
  PROVE  \/ Continue(c, {})
         \/ \E errors, open, e, d :
              /\ ImportAt(e, [c.results EXCEPT ![Code(c)] = errors], c.rows, open, c.training)
              /\ open \subseteq 1..Height(RowsSheet(Code(c)))
              /\ DOMAIN errors = DOMAIN marks[RowsSheet(Code(c))]["Estado"]
              /\ \A i \in DOMAIN errors : errors[i] = "success" =>
                   marks[RowsSheet(Code(c))]["Estado"][i] = "success"
              /\ AtNextLine(e, d) /\ Continue(c, {d})
<1> SUFFICES ASSUME ~Continue(c, {})
             PROVE  \E errors, open, e, d :
              /\ ImportAt(e, [c.results EXCEPT ![Code(c)] = errors], c.rows, open, c.training)
              /\ open \subseteq 1..Height(RowsSheet(Code(c)))
              /\ DOMAIN errors = DOMAIN marks[RowsSheet(Code(c))]["Estado"]
              /\ \A i \in DOMAIN errors : errors[i] = "success" =>
                   marks[RowsSheet(Code(c))]["Estado"][i] = "success"
              /\ AtNextLine(e, d) /\ Continue(c, {d})
  OBVIOUS
<1> DEFINE sheet == RowsSheet(Code(c))
           seen == marks[sheet]["Estado"]
           Refused(line) == line.fault \in {"fields", "document"}
           errors == [i \in DOMAIN seen |->
                   IF ~Done(seen[i]) /\ Refused(Lines[sheet][i]) THEN "error" ELSE seen[i]]
           open == {i \in 1..Height(sheet) : ~Done(seen[i]) /\ ~Refused(Lines[sheet][i])}
           r == [c.results EXCEPT ![Code(c)] = errors]
           e == [c EXCEPT !.results[Code(c)] = errors, !.lines = open]
           d == AtLine(e)
<1>1. Column[c.job] = "Estado"
  BY DEF ReadImportLines, Column
<1>2. Continue(c, {d})
  BY <1>1 DEF ReadImportLines, ReadParticipants
<1>3. /\ open \subseteq 1..Height(sheet) /\ DOMAIN errors = DOMAIN seen
      /\ \A i \in DOMAIN errors : errors[i] = "success" => seen[i] = "success"
  OBVIOUS
<1> HIDE DEF seen, open, errors, d
<1>4. ImportAt(e, r, c.rows, open, c.training)
  BY DEF ImportCall, Walker, ImportAt
<1> HIDE DEF e, r
<1>5. AtNextLine(e, d)
  BY <1>4, WalkIs DEF d, ImportAt
<1> QED
  BY <1>2, <1>3, <1>4, <1>5 DEF r, seen

\* The rows of the first sheet are read.
LEMMA ReadRowsIs ==
  ASSUME NEW c \in ImportCall, ReadImportRows(c)
  PROVE  \/ Continue(c, {})
         \/ \E r, open, e, d : /\ ImportAt(e, [c.results EXCEPT ![FirstSheet] = r], open,
                                           c.lines, c.training)
                               /\ AtNextRow(e, d) /\ Continue(c, {d})
<1> SUFFICES ASSUME ~Continue(c, {})
             PROVE  \E r, open, e, d : /\ ImportAt(e, [c.results EXCEPT ![FirstSheet] = r], open,
                                                   c.lines, c.training)
                                       /\ AtNextRow(e, d) /\ Continue(c, {d})
  OBVIOUS
<1>1. PICK open, r : Continue(c, {AtRow([c EXCEPT !.rows = open, !.results[FirstSheet] = r])})
  BY DEF ReadImportRows
<1> DEFINE e == [c EXCEPT !.rows = open, !.results[FirstSheet] = r]
           d == AtRow(e)
<1>2. Continue(c, {d})
  BY <1>1
<1> HIDE DEF d
<1>3. ImportAt(e, [c.results EXCEPT ![FirstSheet] = r], open, c.lines, c.training)
  BY DEF ImportCall, Walker, ImportAt
<1> HIDE DEF e
<1>4. AtNextRow(e, d)
  BY <1>3, WalkIs DEF d, ImportAt
<1> QED
  BY <1>2, <1>3, <1>4

\* The participants of a training follow, or the next row.
LEMMA AtParticipantsIs ==
  ASSUME NEW c \in ImportCall, NEW training
  PROVE  LET d == AtParticipants(c, training)
             r == [c.results EXCEPT ![FirstSheet][Min(c.rows)] = "success"] IN
         /\ d.job = "import" /\ d.results = r
         /\ \/ d.op \in {"writeBack", "findTraining"}
            \/ d.op = "readParticipants" /\ d.rows = c.rows /\ d.training = training
<1> DEFINE r == [c.results EXCEPT ![FirstSheet][Min(c.rows)] = "success"]
           e == [MarkRow(c, "success") EXCEPT !.training = training, !.found = NothingFound]
           d == [e EXCEPT !.op = "readParticipants"]
<1>1. MarkRow(c, "success") = [c EXCEPT !.results = r]
  BY DEF MarkRow, ImportCall
<1>2. AtParticipants(c, training) = IF HasSheet(Code(c)) THEN d ELSE AfterRow(e)
  BY DEF AtParticipants
<1> HIDE DEF r
<1>3. ImportAt(e, r, c.rows, c.lines, training)
  BY <1>1 DEF ImportCall, Walker, ImportAt
<1> HIDE DEF e
<1>4. /\ d.job = "import" /\ d.results = r /\ d.rows = c.rows /\ d.training = training
      /\ d.op = "readParticipants"
  BY <1>3 DEF ImportAt, Walker
<1> HIDE DEF d
<1>5. AtNextRow(e, AfterRow(e))
  BY <1>3, WalkIs DEF ImportAt
<1> QED
  BY <1>2, <1>3, <1>4, <1>5 DEF r, AtNextRow, ImportAt, RowOp

LEMMA AtParticipantsOps ==
  ASSUME NEW c \in ImportCall, NEW training, NEW d, d = AtParticipants(c, training)
  PROVE  \/ d.op \in {"writeBack", "findTraining"}
         \/ d.op = "readParticipants" /\ d.rows = c.rows /\ d.training = training
BY AtParticipantsIs

\* A call that was rejected is an error of its line or row, or ends the job.
LEMMA FailImportIs ==
  ASSUME NEW c \in ImportCall, FailImport(c)
  PROVE  \/ Continue(c, {})
         \/ c.op \in LineOps /\ EndLine(c, "error")
         \/ \E e, d : /\ ImportAt(e, [c.results EXCEPT ![FirstSheet][Min(c.rows)] = "error"],
                                  c.rows, c.lines, c.training)
                      /\ AtNextRow(e, d) /\ Continue(c, {d})
<1> SUFFICES ASSUME ~Continue(c, {}), ~(c.op \in LineOps /\ EndLine(c, "error"))
             PROVE  \E e, d : /\ ImportAt(e, [c.results EXCEPT ![FirstSheet][Min(c.rows)] = "error"],
                                          c.rows, c.lines, c.training)
                              /\ AtNextRow(e, d) /\ Continue(c, {d})
  OBVIOUS
<1> DEFINE r == [c.results EXCEPT ![FirstSheet][Min(c.rows)] = "error"]
           e == [MarkRow(c, "error") EXCEPT !.found = NothingFound, !.asked = {}]
           d == AfterRow(e)
<1>1. Continue(c, {d})
  BY DEF FailImport
<1>2. MarkRow(c, "error") = [c EXCEPT !.results = r]
  BY DEF MarkRow, ImportCall
<1> HIDE DEF r, d
<1>3. ImportAt(e, r, c.rows, c.lines, c.training)
  BY <1>2 DEF ImportCall, Walker, ImportAt
<1> HIDE DEF e
<1>4. AtNextRow(e, d)
  BY <1>3, WalkIs DEF d, ImportAt
<1> QED
  BY <1>1, <1>3, <1>4 DEF r
-----------------------------------------------------------------------------
(* The catalogue: what an import has not found is still not there.           *)

\* The calls after which a professor is created.
PersonOps ==
  {"findNamesake", "deleteNamesake", "findSchool", "createSchool", "findDuplicate", "createUser"}

Sought(c) ==
  /\ c.op \in PersonOps => WithDocument(Line(c).document) = {}
  /\ c.op = "deleteUser" => \A u \in WithDocument(Line(c).document) : u.id = c.user.id
  /\ c.op \in {"findNames", "createName", "createTraining"} => WithCode(Code(c)) = {}
  /\ c.op = "findNames" => \A kind \in Catalogues \ c.asked :
       c.found[kind] = None => Called(kind, NameOf(TrainingRow(c), kind)) = {}
  /\ c.op = "createName" => \A kind \in Catalogues :
       c.found[kind] = None => Called(kind, NameOf(TrainingRow(c), kind)) = {}
  /\ c.op = "createSchool" => Called("school", Line(c).school) = {}
  /\ c.op \in HoldingOps =>
       \E t \in trainings : t.id = c.training.id /\ t.code = c.training.code

\* Semesters that rows do not write as they are stored are stored each time.
Rewritten(kind, name) ==
  kind = "semester" /\ \E i \in DOMAIN TrainingRows :
    LET written == TrainingRows[i].semester IN
    written # Stored(kind, written) /\ written.letters = name.letters

CodesApart == \A s, t \in trainings : s.code = t.code => s = t
DocumentsApart ==
  \A u, v \in users : u.document = v.document /\ u # v => u.document = None
NamesApart ==
  \A kind \in Catalogues : \A d, e \in catalogue[kind] :
    d.name = e.name /\ d # e => Rewritten(kind, d.name)

CatInv ==
  {"import"} \notin met =>
    /\ \A c \in CallsOf("import") : Sought(c)
    /\ CodesApart /\ DocumentsApart /\ NamesApart

\* No user, name or training is new.
FacesKept == \A u \in users' : \E v \in users : v.id = u.id /\ v.document = u.document
Less ==
  /\ FacesKept /\ trainings' = trainings
  /\ \A kind \in Catalogues : \A e \in catalogue'[kind] :
       \E d \in catalogue[kind] : d.id = e.id /\ d.name = e.name

\* Writing a user leaves him his document.
LEMMA WritesFaces ==
  ASSUME KeptInv, NEW c \in BagToSet(pending), NEW w, WritesUser(c, w)
  PROVE  FacesKept
<1>1. \A u \in WithId(w.id) : u.document = w.document
  BY DEF WritesUser, KeptInv, CallKept, Known
<1> QED
  BY <1>1 DEF WritesUser, FacesKept, Replaced, WithId

LEMMA LessDocuments ==
  ASSUME FacesKept, NEW document
  PROVE  /\ WithDocument(document) = {} => WithDocument(document)' = {}
         /\ \A id : (\A u \in WithDocument(document) : u.id = id) =>
              \A u \in WithDocument(document)' : u.id = id
BY DEF FacesKept, WithDocument

LEMMA LessSought ==
  ASSUME Less, NEW c, Sought(c)
  PROVE  Sought(c)'
<1>1. \A kind \in Catalogues : \A name : Called(kind, name) = {} => Called(kind, name)' = {}
  BY DEF Less, Called
<1>2. FacesKept
  BY DEF Less
<1>3. c.op \in PersonOps => WithDocument(Line(c).document)' = {}
  BY <1>2, LessDocuments DEF Sought
<1>4. c.op = "deleteUser" => \A u \in WithDocument(Line(c).document)' : u.id = c.user.id
  BY <1>2, LessDocuments DEF Sought
<1>5. c.op \in {"findNames", "createName", "createTraining"} => WithCode(Code(c))' = {}
  BY DEF Sought, Less, WithCode
<1>6. c.op = "createSchool" => Called("school", Line(c).school)' = {}
  BY <1>1 DEF Sought, Catalogues
<1>7. c.op = "findNames" => \A kind \in Catalogues \ c.asked :
        c.found[kind] = None => Called(kind, NameOf(TrainingRow(c), kind))' = {}
  BY <1>1 DEF Sought
<1>8. c.op = "createName" => \A kind \in Catalogues :
        c.found[kind] = None => Called(kind, NameOf(TrainingRow(c), kind))' = {}
  BY <1>1 DEF Sought
<1>9. c.op \in HoldingOps =>
        \E t \in trainings' : t.id = c.training.id /\ t.code = c.training.code
  BY DEF Sought, Less
<1> QED
  BY <1>3, <1>4, <1>5, <1>6, <1>7, <1>8, <1>9 DEF Sought

LEMMA LessApart ==
  ASSUME TypeInv, TypeInv', Less, CodesApart, DocumentsApart, NamesApart
  PROVE  CodesApart' /\ DocumentsApart' /\ NamesApart'
<1>1. CodesApart'
  BY DEF CodesApart, Less
<1>2. DocumentsApart'
  <2> SUFFICES ASSUME NEW u \in users', NEW v \in users', u.document = v.document,
                      u.document # None
               PROVE  u = v
    BY DEF DocumentsApart
  <2>1. PICK a \in users : a.id = u.id /\ a.document = u.document
    BY DEF Less, FacesKept
  <2>2. PICK b \in users : b.id = v.id /\ b.document = v.document
    BY DEF Less, FacesKept
  <2>3. u.id = v.id
    BY <2>1, <2>2 DEF DocumentsApart
  <2> QED
    BY <2>3 DEF TypeInv, MigrationTypeOK, RegistryTypeOK
<1>3. NamesApart'
  <2> SUFFICES ASSUME NEW kind \in Catalogues, NEW d \in catalogue'[kind],
                      NEW e \in catalogue'[kind], d.name = e.name, d # e
               PROVE  Rewritten(kind, d.name)
    BY DEF NamesApart, Rewritten
  <2>1. PICK a \in catalogue[kind] : a.id = d.id /\ a.name = d.name
    BY DEF Less
  <2>2. PICK b \in catalogue[kind] : b.id = e.id /\ b.name = e.name
    BY DEF Less
  <2>3. d.id # e.id
    BY DEF TypeInv, MigrationTypeOK, RegistryTypeOK
  <2> QED
    BY <2>1, <2>2, <2>3 DEF NamesApart
<1> QED
  BY <1>1, <1>2, <1>3

\* The calls with which an import goes on have sought what they need.
AnswersSought(c) ==
  \/ Continue(c, {})
  \/ \E d : Continue(c, {d}) /\ (d.job = "import" /\ d.op # "writeBack" => Sought(d)')

LEMMA FreeSought ==
  ASSUME NEW d, d.op \in {"findTraining", "writeBack", "readTrainings"}
  PROVE  Sought(d) /\ Sought(d)'
BY DEF Sought, HoldingOps, PersonOps, LineOps

LEMMA HoldingSought ==
  ASSUME NEW d, d.op \in HoldingOps \ (PersonOps \cup {"deleteUser"}),
         \E t \in trainings' : t.id = d.training.id /\ t.code = d.training.code
  PROVE  Sought(d)'
BY DEF Sought, HoldingOps, PersonOps, LineOps

LEMMA CatRows ==
  ASSUME TypeInv, CatInv, {"import"} \notin met, NEW c \in CallsOf("import"), c \in ImportCall,
         ImportFits(c),
         \/ ReadImportRows(c) \/ FindTraining(c) \/ FindName(c) \/ CreateName(c)
         \/ CreateTraining(c) \/ ReadImportLines(c) \/ FailImport(c) \/ ReplaceTraining(c)
  PROVE  AnswersSought(c)
<1>1. CASE Continue(c, {})
  BY <1>1 DEF AnswersSought
<1>2. ASSUME NEW d, d.op \in {"findTraining", "writeBack"}, Continue(c, {d})
      PROVE  AnswersSought(c)
  <2>1. Sought(d)'
    BY <1>2, FreeSought
  <2> QED
    BY <1>2, <2>1 DEF AnswersSought
<1>3. ASSUME NEW e, NEW d, AtNextRow(e, d), e.job = "import", Continue(c, {d})
      PROVE  AnswersSought(c)
  BY <1>2, <1>3 DEF AtNextRow, RowOp
<1>4. c.op \in HoldingOps => \E t \in trainings : t.id = c.training.id /\ t.code = c.training.code
  BY DEF CatInv, Sought
<1>5. ASSUME NEW d, d.op = "findProfessor" \/ d.op = "readParticipants", Continue(c, {d}),
             \E t \in trainings' : t.id = d.training.id /\ t.code = d.training.code
      PROVE  AnswersSought(c)
  <2>1. Sought(d)'
    BY <1>5, HoldingSought DEF HoldingOps, LineOps, PersonOps
  <2> QED
    BY <1>5, <2>1 DEF AnswersSought
<1>6. ASSUME NEW e, NEW d, NEW r, NEW rows, NEW lines, ImportAt(e, r, rows, lines, c.training),
             AtNextLine(e, d), Continue(c, {d}),
             \E t \in trainings' : t.id = c.training.id /\ t.code = c.training.code
      PROVE  AnswersSought(c)
  <2>1. CASE AtNextRow(e, d)
    BY <1>3, <1>6, <2>1 DEF ImportAt
  <2>2. CASE ~AtNextRow(e, d)
    <3>1. d.op = "findProfessor" /\ d.training = c.training
      BY <1>6, <2>2 DEF AtNextLine, ImportAt, LineOp
    <3> QED
      BY <1>5, <1>6, <3>1
  <2> QED
    BY <2>1, <2>2
<1>7. CASE ReadImportRows(c)
  BY <1>1, <1>3, <1>7, ReadRowsIs DEF ImportAt
<1>8. CASE ReadImportLines(c)
  <2>1. \E t \in trainings' : t.id = c.training.id /\ t.code = c.training.code
    BY <1>4, <1>8 DEF ReadImportLines, ReadParticipants, HoldingOps, registryVars
  <2> QED
    BY <1>1, <1>6, <1>8, <2>1, ReadLinesIs
<1>9. CASE FailImport(c)
  <2>1. CASE c.op \in LineOps /\ EndLine(c, "error")
    <3>1. \E t \in trainings' : t.id = c.training.id /\ t.code = c.training.code
      BY <1>4, <1>9, <2>1 DEF FailImport, HoldingOps, registryVars
    <3> QED
      BY <1>6, <2>1, <3>1, EndLineIs
  <2>2. CASE ~(c.op \in LineOps /\ EndLine(c, "error"))
    BY <1>1, <1>3, <1>9, <2>2, FailImportIs DEF ImportAt
  <2> QED
    BY <2>1, <2>2
<1>10. CASE ReplaceTraining(c)
  <2>1. \E t \in trainings' : t.id = c.training.id /\ t.code = c.training.code
    BY <1>10 DEF ReplaceTraining, Replaced
  <2> QED
    BY <1>6, <1>10, <2>1, EndLineIs DEF ReplaceTraining
<1>11. ASSUME NEW training \in trainings', Continue(c, {AtParticipants(c, training)})
       PROVE  AnswersSought(c)
  <2> DEFINE d == AtParticipants(c, training)
  <2>1. CASE d.op \in {"writeBack", "findTraining"}
    BY <1>2, <1>11, <2>1
  <2>2. CASE d.op = "readParticipants" /\ d.training = training
    <3>1. \E t \in trainings' : t.id = d.training.id /\ t.code = d.training.code
      BY <1>11, <2>2
    <3> QED
      BY <1>5, <1>11, <2>2, <3>1
  <2> QED
    BY <2>1, <2>2, AtParticipantsOps
<1>12. CASE FindTraining(c)
  <2>1. CASE WithCode(Code(c)) = {} /\ Continue(c, {[c EXCEPT !.op = "findNames", !.asked = Catalogues]})
    <3> DEFINE d == [c EXCEPT !.op = "findNames", !.asked = Catalogues]
    <3>1. d.op = "findNames" /\ d.rows = c.rows /\ d.asked = Catalogues /\ Continue(c, {d})
      BY <2>1 DEF ImportCall
    <3> HIDE DEF d
    <3>2. Code(d) = Code(c)
      BY <3>1 DEF Code, TrainingRow
    <3>3. WithCode(Code(d))' = {}
      BY <1>12, <2>1, <3>2 DEF FindTraining, registryVars, WithCode
    <3>4. Sought(d)'
      BY <3>1, <3>3 DEF Sought, HoldingOps, LineOps, PersonOps
    <3> QED
      BY <3>1, <3>4 DEF AnswersSought
  <2>2. ASSUME NEW training \in WithCode(Code(c)), Continue(c, {AtParticipants(c, training)})
        PROVE  AnswersSought(c)
    BY <1>11, <1>12, <2>2 DEF FindTraining, registryVars, WithCode
  <2> QED
    BY <1>12, <2>1, <2>2 DEF FindTraining
<1>13. CASE CreateTraining(c)
  BY <1>11, <1>13 DEF CreateTraining
<1>14. \A d : d \in ImportCall =>
         /\ AtNames(d).op = IF Missing(d) = {} THEN "createTraining" ELSE "createName"
         /\ AtNames(d).rows = d.rows /\ AtNames(d).found = d.found
  BY DEF AtNames, ImportCall
<1>15. ASSUME NEW f, NEW d \in ImportCall, d.rows = c.rows, d.found = f,
              WithCode(Code(c))' = {},
              \A kind \in Catalogues : f[kind] = None =>
                Called(kind, NameOf(TrainingRow(c), kind))' = {},
              Continue(c, {AtNames(d)})
       PROVE  AnswersSought(c)
  <2> DEFINE e == AtNames(d)
  <2>1. e.op \in {"createTraining", "createName"} /\ e.rows = c.rows /\ e.found = f
    BY <1>14, <1>15
  <2>2. Continue(c, {e})
    BY <1>15
  <2> HIDE DEF e
  <2>3. Code(e) = Code(c) /\ TrainingRow(e) = TrainingRow(c)
    BY <2>1 DEF Code, TrainingRow
  <2>4. Sought(e)'
    BY <1>15, <2>1, <2>3 DEF Sought, HoldingOps, LineOps, PersonOps
  <2> QED
    BY <2>2, <2>4 DEF AnswersSought
<1>16. CASE FindName(c)
  <2>1. PICK kind \in c.asked :
          LET named == Called(kind, NameOf(TrainingRow(c), kind)) IN
          \E id \in IF named = {} THEN {None} ELSE {e.id : e \in named} :
            LET d == [c EXCEPT !.asked = @ \ {kind}, !.found[kind] = id] IN
            Continue(c, {IF d.asked = {} THEN AtNames(d) ELSE d})
    BY <1>16 DEF FindName
  <2> DEFINE named == Called(kind, NameOf(TrainingRow(c), kind))
  <2>2. kind \in Catalogues
    BY <2>1 DEF ImportCall
  <2>3. PICK id \in EntryIds \cup {None} :
          /\ id = None => named = {}
          /\ LET d == [c EXCEPT !.asked = @ \ {kind}, !.found[kind] = id] IN
             Continue(c, {IF d.asked = {} THEN AtNames(d) ELSE d})
    <3>1. \A e \in named : e.id \in EntryIds /\ e.id # None
      BY <2>2, RegistryAssumption
      DEF Called, TypeInv, MigrationTypeOK, RegistryTypeOK, Entry
    <3> HIDE DEF named
    <3> QED
      BY <2>1, <3>1 DEF named
  <2> DEFINE f == [c.found EXCEPT ![kind] = id]
             d == [c EXCEPT !.asked = @ \ {kind}, !.found[kind] = id]
  <2>4. d = [c EXCEPT !.asked = @ \ {kind}, !.found = f]
    BY DEF ImportCall
  <2>5. f \in [Catalogues -> EntryIds \cup {None}] /\ f[kind] = id
    BY <2>2, <2>3 DEF ImportCall
  <2>6. \A k \in Catalogues : k # kind => f[k] = c.found[k]
    BY DEF ImportCall
  <2> HIDE DEF f
  <2>7. /\ d \in ImportCall /\ d.op = "findNames" /\ d.rows = c.rows /\ d.found = f
        /\ d.asked = c.asked \ {kind}
    BY <1>16, <2>4, <2>5 DEF ImportCall, FindName
  <2>8. Continue(c, {IF d.asked = {} THEN AtNames(d) ELSE d})
    BY <2>3
  <2> HIDE DEF d
  <2>9. catalogue' = catalogue /\ trainings' = trainings /\ c.op = "findNames"
    BY <1>16 DEF FindName, registryVars
  <2>10. WithCode(Code(c))' = {}
    BY <2>9 DEF CatInv, Sought, WithCode
  <2>11. \A k \in Catalogues \ d.asked : f[k] = None =>
           Called(k, NameOf(TrainingRow(c), k))' = {}
    <3>1. \A k \in Catalogues \ c.asked : c.found[k] = None =>
            Called(k, NameOf(TrainingRow(c), k)) = {}
      BY <2>9 DEF CatInv, Sought
    <3>2. \A k \in Catalogues : Called(k, NameOf(TrainingRow(c), k))' =
                                Called(k, NameOf(TrainingRow(c), k))
      BY <2>9 DEF Called
    <3> QED
      BY <2>3, <2>5, <2>6, <2>7, <3>1, <3>2
  <2>12. CASE d.asked = {}
    BY <1>15, <2>7, <2>8, <2>10, <2>11, <2>12
  <2>13. CASE d.asked # {}
    <3>1. Code(d) = Code(c) /\ TrainingRow(d) = TrainingRow(c)
      BY <2>7 DEF Code, TrainingRow
    <3>2. Sought(d)'
      BY <2>7, <2>10, <2>11, <3>1 DEF Sought, HoldingOps, LineOps, PersonOps
    <3> QED
      BY <2>8, <2>13, <3>2 DEF AnswersSought
  <2> QED
    BY <2>12, <2>13
<1>17. CASE CreateName(c)
  <2>0. PICK kind \in Missing(c) : \E id \in UnusedEntries(kind) :
          /\ AddEntry(kind, id, NameOf(TrainingRow(c), kind))
          /\ Continue(c, {AtNames([c EXCEPT !.found[kind] = id])})
    BY <1>17 DEF CreateName
  <2>1. PICK id \in UnusedEntries(kind) :
          /\ AddEntry(kind, id, NameOf(TrainingRow(c), kind))
          /\ Continue(c, {AtNames([c EXCEPT !.found[kind] = id])})
    BY <2>0
  <2>2. kind \in Catalogues /\ id \in EntryIds /\ id # None
    BY <2>1, RegistryAssumption DEF Missing, UnusedEntries
  <2> DEFINE f == [c.found EXCEPT ![kind] = id]
             d == [c EXCEPT !.found[kind] = id]
  <2>3. d = [c EXCEPT !.found = f]
    BY DEF ImportCall
  <2>4. f \in [Catalogues -> EntryIds \cup {None}] /\ f[kind] = id
    BY <2>2 DEF ImportCall
  <2>5. \A k \in Catalogues : k # kind => f[k] = c.found[k]
    BY DEF ImportCall
  <2> HIDE DEF f
  <2>6. d \in ImportCall /\ d.rows = c.rows /\ d.found = f
    BY <2>3, <2>4 DEF ImportCall
  <2>7. Continue(c, {AtNames(d)})
    BY <2>1
  <2> HIDE DEF d
  <2>8. trainings' = trainings /\ c.op = "createName"
    BY <1>17 DEF CreateName
  <2>9. WithCode(Code(c))' = {}
    BY <2>8 DEF CatInv, Sought, WithCode
  <2>10. \A k \in Catalogues : f[k] = None => Called(k, NameOf(TrainingRow(c), k))' = {}
    <3> SUFFICES ASSUME NEW k \in Catalogues, f[k] = None
                 PROVE  Called(k, NameOf(TrainingRow(c), k))' = {}
      OBVIOUS
    <3>1. k # kind
      BY <2>2, <2>4
    <3>2. catalogue'[k] = catalogue[k]
      BY <2>1, <2>2, <3>1 DEF AddEntry, TypeInv, MigrationTypeOK, RegistryTypeOK
    <3>3. Called(k, NameOf(TrainingRow(c), k)) = {}
      BY <2>5, <2>8, <3>1 DEF CatInv, Sought
    <3> QED
      BY <3>2, <3>3 DEF Called
  <2> QED
    BY <1>15, <2>6, <2>7, <2>9, <2>10
<1> QED
  BY <1>7, <1>8, <1>9, <1>10, <1>12, <1>13, <1>16, <1>17
\* A call for a person whose document is not stored.
LEMMA PersonSought ==
  ASSUME NEW c, NEW d, d.op \in PersonOps, d.rows = c.rows, d.lines = c.lines,
         d.training = c.training, WithDocument(Line(c).document)' = {},
         d.op = "createSchool" => Called("school", Line(c).school)' = {},
         \E t \in trainings' : t.id = c.training.id /\ t.code = c.training.code
  PROVE  Sought(d)'
<1>1. Line(d) = Line(c)
  BY DEF Line, Code, TrainingRow
<1> QED
  BY <1>1 DEF Sought, PersonOps, HoldingOps

LEMMA CatPersons ==
  ASSUME TypeInv, KeptInv, CatInv, {"import"} \notin met, NEW c \in CallsOf("import"),
         c \in ImportCall, ImportFits(c),
         \/ FindProfessor(c) \/ DeleteUser(c) \/ FindNamesake(c) \/ DeleteNamesake(c)
         \/ FindSchool(c) \/ CreateSchool(c) \/ FindDuplicate(c) \/ CreateUser(c)
         \/ ReadBackup(c)
  PROVE  AnswersSought(c)
<1>1. /\ c.op \in LineOps /\ c.training \in Training /\ UNCHANGED trainings
      /\ Sought(c) /\ DocumentsApart
  <2>1. Sought(c) /\ DocumentsApart
    BY DEF CatInv
  <2>2. c.op \in LineOps /\ UNCHANGED trainings
    BY DEF FindProfessor, DeleteUser, FindNamesake, DeleteNamesake, Delete, FindSchool,
           CreateSchool, FindDuplicate, CreateUser, ReadBackup, LineOps, registryVars
  <2>3. c.training \in Training
    BY <2>2 DEF ImportFits, HoldingOps
  <2> QED
    BY <2>1, <2>2, <2>3
<1>2. \E t \in trainings' : t.id = c.training.id /\ t.code = c.training.code
  BY <1>1 DEF Sought, HoldingOps
<1>3. ASSUME NEW mark, EndLine(c, mark)
      PROVE  AnswersSought(c)
  <2>1. PICK r, e, d : /\ ImportAt(e, r, c.rows, c.lines \ {Min(c.lines)}, c.training)
                       /\ AtNextLine(e, d) /\ Continue(c, {d})
    BY <1>3, EndLineIs
  <2>2. CASE AtNextRow(e, d)
    <3>1. Sought(d)'
      BY <2>1, <2>2, FreeSought DEF AtNextRow, RowOp, ImportAt
    <3> QED
      BY <2>1, <3>1 DEF AnswersSought
  <2>3. CASE ~AtNextRow(e, d)
    <3>1. d.op = "findProfessor" /\ d.training = c.training
      BY <2>1, <2>3 DEF AtNextLine, ImportAt, LineOp
    <3>2. Sought(d)'
      BY <1>2, <3>1, HoldingSought DEF HoldingOps, LineOps, PersonOps
    <3> QED
      BY <2>1, <3>2 DEF AnswersSought
  <2> QED
    BY <2>2, <2>3
<1>4. ASSUME NEW user, AtEnrolment(c, user)
      PROVE  AnswersSought(c)
  <2> DEFINE t == With(c, user)
             d == [c EXCEPT !.op = "replaceTraining", !.user = None, !.found = NothingFound,
                            !.training = t]
  <2>1. t.id = c.training.id /\ t.code = c.training.code
    BY <1>1 DEF With, Training
  <2> HIDE DEF t
  <2>2. d.op = "replaceTraining" /\ d.training = t
    BY DEF ImportCall
  <2>3. EndLine(c, "success") \/ Continue(c, {d})
    BY <1>4 DEF AtEnrolment, t
  <2> HIDE DEF d
  <2>4. Sought(d)'
    BY <1>2, <2>1, <2>2, HoldingSought DEF HoldingOps, LineOps, PersonOps
  <2> QED
    BY <1>3, <2>3, <2>4 DEF AnswersSought
<1>5. ASSUME NEW op \in PersonOps, NEW d, d.op = op, d.rows = c.rows, d.lines = c.lines,
             d.training = c.training, Continue(c, {d}), WithDocument(Line(c).document)' = {},
             op = "createSchool" => Called("school", Line(c).school)' = {}
      PROVE  AnswersSought(c)
  <2>1. Sought(d)'
    BY <1>2, <1>5, PersonSought
  <2> QED
    BY <1>5, <2>1 DEF AnswersSought
<1>6. ASSUME NEW school, AtCreation(c, school), WithDocument(Line(c).document)' = {}
      PROVE  AnswersSought(c)
  <2> DEFINE d == [c EXCEPT !.op = "findDuplicate", !.found["school"] = school]
  <2>1. /\ d.op = "findDuplicate" /\ d.rows = c.rows /\ d.lines = c.lines
        /\ d.training = c.training
    BY DEF ImportCall
  <2>2. EndLine(c, "error") \/ Continue(c, {d})
    BY <1>6 DEF AtCreation
  <2> HIDE DEF d
  <2> QED
    BY <1>3, <1>5, <1>6, <2>1, <2>2 DEF PersonOps
<1>7. \A op, user : LET d == [c EXCEPT !.op = op]
                        e == [c EXCEPT !.op = op, !.user = user] IN
        /\ d.op = op /\ d.rows = c.rows /\ d.lines = c.lines /\ d.training = c.training
        /\ e.op = op /\ e.rows = c.rows /\ e.lines = c.lines /\ e.training = c.training
        /\ e.user = user
  BY DEF ImportCall
<1>8. c.op \in PersonOps /\ users' \subseteq users => WithDocument(Line(c).document)' = {}
  BY <1>1 DEF Sought, WithDocument
<1>9. CASE FindProfessor(c)
  <2>1. CASE WithDocument(Line(c).document) = {} /\ Continue(c, {[c EXCEPT !.op = "findNamesake"]})
    <3>1. WithDocument(Line(c).document)' = {}
      BY <1>9, <2>1 DEF FindProfessor, registryVars, WithDocument
    <3> QED
      BY <1>5, <1>7, <2>1, <3>1 DEF PersonOps
  <2>2. ASSUME NEW u \in WithDocument(Line(c).document),
               Continue(c, {[c EXCEPT !.op = "deleteUser", !.user = u]})
        PROVE  AnswersSought(c)
    <3> DEFINE d == [c EXCEPT !.op = "deleteUser", !.user = u]
    <3>1. /\ d.op = "deleteUser" /\ d.user = u /\ d.rows = c.rows /\ d.lines = c.lines
          /\ d.training = c.training /\ Continue(c, {d})
      BY <1>7, <2>2
    <3> HIDE DEF d
    <3>2. Line(d) = Line(c)
      BY <3>1 DEF Line, Code, TrainingRow
    <3>3. Line(c).document # None
      <4>1. Line(c) \in SheetLine
        BY <1>9, AtLineOfSheet DEF ImportFits, HoldingOps, LineOps, FindProfessor
      <4> QED
        BY <4>1, RegistryAssumption DEF SheetLine
    <3>4. \A v \in WithDocument(Line(c).document)' : v.id = u.id
      BY <1>1, <1>9, <2>2, <3>3 DEF DocumentsApart, WithDocument, FindProfessor, registryVars
    <3>5. Sought(d)'
      BY <1>2, <3>1, <3>2, <3>4 DEF Sought, PersonOps, HoldingOps
    <3> QED
      BY <3>1, <3>5 DEF AnswersSought
  <2> QED
    BY <1>4, <1>9, <2>1, <2>2 DEF FindProfessor
<1>10. CASE FindNamesake(c)
  <2>1. WithDocument(Line(c).document)' = {}
    BY <1>8, <1>10 DEF FindNamesake, PersonOps, registryVars
  <2>2. ASSUME NEW u, Continue(c, {[c EXCEPT !.op = "deleteNamesake", !.user = u]})
        PROVE  AnswersSought(c)
    <3> DEFINE d == [c EXCEPT !.op = "deleteNamesake", !.user = u]
    <3>1. /\ d.op = "deleteNamesake" /\ d.rows = c.rows /\ d.lines = c.lines
          /\ d.training = c.training /\ Continue(c, {d})
      BY <1>7, <2>2
    <3> HIDE DEF d
    <3> QED
      BY <1>5, <2>1, <3>1 DEF PersonOps
  <2>3. ASSUME Continue(c, {[c EXCEPT !.op = "findSchool"]})
        PROVE  AnswersSought(c)
    BY <1>5, <1>7, <2>1, <2>3 DEF PersonOps
  <2> QED
    BY <1>10, <2>2, <2>3 DEF FindNamesake
<1>11. ASSUME NEW op \in {"findNamesake", "findSchool"}, WithDocument(Line(c).document)' = {},
              \/ EndLine(c, "error")
              \/ Continue(c, {[c EXCEPT !.op = op, !.user = None]})
       PROVE  AnswersSought(c)
  <2>1. ASSUME Continue(c, {[c EXCEPT !.op = op, !.user = None]})
        PROVE  AnswersSought(c)
    <3> DEFINE d == [c EXCEPT !.op = op, !.user = None]
    <3>1. /\ d.op = op /\ d.rows = c.rows /\ d.lines = c.lines
          /\ d.training = c.training /\ Continue(c, {d})
      BY <1>7, <2>1
    <3> HIDE DEF d
    <3> QED
      BY <1>5, <1>11, <3>1 DEF PersonOps
  <2> QED
    BY <1>3, <1>11, <2>1
<1>12. CASE DeleteUser(c)
  <2>1. WithDocument(Line(c).document)' = {}
    <3>1. \A u \in WithDocument(Line(c).document) : u.id = c.user.id
      BY <1>1, <1>12 DEF Sought, DeleteUser, Delete
    <3> QED
      BY <1>12, <3>1 DEF DeleteUser, Delete, WithDocument, WithId
  <2> QED
    BY <1>11, <1>12, <2>1 DEF DeleteUser, Delete
<1>13. CASE DeleteNamesake(c)
  <2>1. WithDocument(Line(c).document)' = {}
    BY <1>8, <1>13 DEF DeleteNamesake, Delete, PersonOps
  <2> QED
    BY <1>11, <1>13, <2>1 DEF DeleteNamesake, Delete
<1>14. CASE FindSchool(c)
  <2>1. WithDocument(Line(c).document)' = {}
    BY <1>8, <1>14 DEF FindSchool, PersonOps, registryVars
  <2>2. CASE Called("school", Line(c).school) = {} /\ Continue(c, {[c EXCEPT !.op = "createSchool"]})
    <3>1. Called("school", Line(c).school)' = {}
      BY <1>14, <2>2 DEF FindSchool, registryVars, Called
    <3> QED
      BY <1>5, <1>7, <2>1, <2>2, <3>1 DEF PersonOps
  <2> QED
    BY <1>6, <1>14, <2>1, <2>2 DEF FindSchool
<1>15. CASE CreateSchool(c)
  <2>1. WithDocument(Line(c).document)' = {}
    BY <1>8, <1>15 DEF CreateSchool, PersonOps
  <2> QED
    BY <1>6, <1>15, <2>1 DEF CreateSchool
<1>16. CASE FindDuplicate(c)
  <2>1. WithDocument(Line(c).document)' = {}
    BY <1>8, <1>16 DEF FindDuplicate, PersonOps, registryVars
  <2>2. ASSUME Continue(c, {[c EXCEPT !.op = "createUser"]})
        PROVE  AnswersSought(c)
    BY <1>5, <1>7, <2>1, <2>2 DEF PersonOps
  <2> QED
    BY <1>3, <1>16, <2>2 DEF FindDuplicate
<1>17. CASE CreateUser(c)
  <2>1. PICK new : Continue(c, {[c EXCEPT !.op = "readBackup", !.user = new]})
    BY <1>17 DEF CreateUser
  <2> DEFINE d == [c EXCEPT !.op = "readBackup", !.user = new]
  <2>2. d.op = "readBackup" /\ d.training = c.training /\ Continue(c, {d})
    BY <1>7, <2>1
  <2> HIDE DEF d
  <2>3. Sought(d)'
    BY <1>2, <2>2, HoldingSought DEF HoldingOps, LineOps, PersonOps
  <2> QED
    BY <2>2, <2>3 DEF AnswersSought
<1>18. CASE ReadBackup(c)
  BY <1>3, <1>4, <1>18 DEF ReadBackup
<1> QED
  BY <1>9, <1>10, <1>12, <1>13, <1>14, <1>15, <1>16, <1>17, <1>18
\* The stored name of one that was missing is another than all names before,
\* but for semesters that rows do not write as they are stored.
LEMMA NameAdded ==
  ASSUME TypeInv, NamesApart, NEW kind \in Catalogues, NEW id, NEW name \in Name,
         Called(kind, name) = {}, AddEntry(kind, id, name),
         kind = "semester" => \E i \in DOMAIN TrainingRows : TrainingRows[i].semester = name
  PROVE  NamesApart'
<1> DEFINE new == [id |-> id, name |-> Stored(kind, name), deleted |-> FALSE]
<1>1. /\ catalogue'[kind] = catalogue[kind] \cup {new}
      /\ \A k \in Catalogues : k # kind => catalogue'[k] = catalogue[k]
  BY DEF AddEntry, TypeInv, MigrationTypeOK, RegistryTypeOK
<1>2. ASSUME NEW e \in catalogue[kind], e.name = new.name
      PROVE  Rewritten(kind, e.name)
  <2>1. e.name # name
    BY DEF Called
  <2>2. kind = "semester" /\ Stored(kind, name) = [name EXCEPT !.upper = TRUE, !.spaced = FALSE]
    BY <1>2, <2>1 DEF Stored
  <2>3. e.name.letters = name.letters /\ name # Stored(kind, name)
    BY <1>2, <2>1, <2>2 DEF Name
  <2> QED
    BY <2>2, <2>3 DEF Rewritten
<1> HIDE DEF new
<1> SUFFICES ASSUME NEW k \in Catalogues, NEW d \in catalogue'[k], NEW e \in catalogue'[k],
                    d.name = e.name, d # e
             PROVE  Rewritten(k, d.name)
  BY DEF NamesApart, Rewritten
<1>3. CASE d \in catalogue[k] /\ e \in catalogue[k]
  BY <1>3 DEF NamesApart
<1>4. CASE ~(d \in catalogue[k] /\ e \in catalogue[k])
  <2>1. k = kind
    BY <1>1, <1>4
  <2> QED
    BY <1>1, <1>2, <1>4, <2>1
<1> QED
  BY <1>3, <1>4

LEMMA CatStore ==
  ASSUME TypeInv, TypeInv', CatInv, {"import"} \notin met, NEW c \in CallsOf("import"),
         c \in ImportCall, ImportFits(c), AnswerImport(c)
  PROVE  CodesApart' /\ DocumentsApart' /\ NamesApart'
<1>1. /\ CodesApart /\ DocumentsApart /\ NamesApart /\ Sought(c)
      /\ c.rows # {} => TrainingRow(c) \in SheetRow /\ Min(c.rows) \in DOMAIN TrainingRows
  <2>1. c.rows # {} => TrainingRow(c) \in SheetRow /\ Min(c.rows) \in DOMAIN TrainingRows
    BY AtLineOfSheet DEF ImportFits
  <2> QED
    BY <2>1 DEF CatInv
<1>2. CASE /\ CodesApart' \/ trainings' = trainings
           /\ DocumentsApart' \/ users' \subseteq users
           /\ NamesApart' \/ catalogue' = catalogue
  BY <1>1, <1>2 DEF CodesApart, DocumentsApart, NamesApart, Rewritten
<1>3. CASE CreateTraining(c)
  <2>1. PICK new : new.code = Code(c) /\ trainings' = trainings \cup {new}
    BY <1>3 DEF CreateTraining
  <2>2. WithCode(Code(c)) = {}
    BY <1>1, <1>3 DEF Sought, CreateTraining
  <2>3. CodesApart'
    BY <1>1, <2>1, <2>2 DEF CodesApart, WithCode
  <2> QED
    BY <1>2, <1>3, <2>3 DEF CreateTraining
<1>4. CASE ReplaceTraining(c)
  <2>1. \E t \in trainings : t.id = c.training.id /\ t.code = c.training.code
    BY <1>1, <1>4 DEF Sought, HoldingOps, LineOps, ReplaceTraining
  <2>2. CodesApart'
    BY <1>1, <1>4, <2>1 DEF CodesApart, ReplaceTraining, Replaced
  <2> QED
    BY <1>2, <1>4, <2>2 DEF ReplaceTraining
<1>5. CASE CreateName(c)
  <2>1. PICK kind \in Missing(c) : \E id \in UnusedEntries(kind) :
          AddEntry(kind, id, NameOf(TrainingRow(c), kind))
    BY <1>5 DEF CreateName
  <2>2. PICK id \in UnusedEntries(kind) : AddEntry(kind, id, NameOf(TrainingRow(c), kind))
    BY <2>1
  <2>3. kind \in Catalogues /\ Called(kind, NameOf(TrainingRow(c), kind)) = {}
    BY <1>1, <1>5, <2>1 DEF Missing, Sought, CreateName
  <2>4. TrainingRow(c) \in SheetRow /\ Min(c.rows) \in DOMAIN TrainingRows
    BY <1>1, <1>5 DEF ImportFits, CreateName
  <2>5. /\ NameOf(TrainingRow(c), kind) \in Name
        /\ kind = "semester" => NameOf(TrainingRow(c), kind) = TrainingRow(c).semester
    BY <2>3, <2>4 DEF Catalogues, NameOf, SheetRow
  <2>6. kind = "semester" =>
          \E i \in DOMAIN TrainingRows : TrainingRows[i].semester = NameOf(TrainingRow(c), kind)
    BY <2>4, <2>5 DEF TrainingRow
  <2>7. NamesApart'
    BY <1>1, <2>2, <2>3, <2>5, <2>6, NameAdded
  <2> QED
    BY <1>2, <1>5, <2>7 DEF CreateName
<1>6. CASE CreateSchool(c)
  <2>1. PICK id : AddEntry("school", id, Line(c).school)
    BY <1>6 DEF CreateSchool
  <2>2. Called("school", Line(c).school) = {}
    BY <1>1, <1>6 DEF Sought, CreateSchool
  <2>3. Line(c) \in SheetLine
    <3>1. c.op = "createSchool"
      BY <1>6 DEF CreateSchool
    <3> QED
      BY <3>1, AtLineOfSheet DEF ImportFits, HoldingOps, LineOps
  <2>4. "school" \in Catalogues /\ Line(c).school \in Name
    BY <2>3 DEF Catalogues, SheetLine
  <2>5. NamesApart'
    BY <1>1, <2>1, <2>2, <2>4, NameAdded
  <2> QED
    BY <1>2, <1>6, <2>5 DEF CreateSchool
<1>7. CASE CreateUser(c)
  <2>1. PICK new : new.document = Line(c).document /\ users' = users \cup {new}
    BY <1>7 DEF CreateUser
  <2>2. WithDocument(Line(c).document) = {}
    BY <1>1, <1>7 DEF Sought, PersonOps, CreateUser
  <2>3. DocumentsApart'
    BY <1>1, <2>1, <2>2 DEF DocumentsApart, WithDocument
  <2> QED
    BY <1>2, <1>7, <2>3 DEF CreateUser
<1>8. CASE DeleteUser(c) \/ DeleteNamesake(c)
  BY <1>2, <1>8 DEF DeleteUser, DeleteNamesake, Delete
<1>9. CASE \/ ReadImportRows(c) \/ FindTraining(c) \/ FindName(c) \/ ReadImportLines(c)
           \/ FindProfessor(c) \/ FindNamesake(c) \/ FindSchool(c) \/ FindDuplicate(c)
           \/ ReadBackup(c)
  BY <1>2, <1>9 DEF ReadImportRows, FindTraining, FindName, ReadImportLines, FindProfessor,
                    FindNamesake, FindSchool, FindDuplicate, ReadBackup, registryVars
<1> QED
  BY <1>3, <1>4, <1>5, <1>6, <1>7, <1>8, <1>9 DEF AnswerImport

\* The removal of a school or of a competency adds no entry and no name.
LEMMA RemovalKeeps ==
  ASSUME catalogue \in [Catalogues -> SUBSET Entry], RemoveSchool \/ RemoveCompetency
  PROVE  \A kind \in Catalogues : \A e \in catalogue'[kind] :
           \E d \in catalogue[kind] : d.id = e.id /\ d.name = e.name
<1>1. CASE RemoveSchool
  <2>1. PICK e : catalogue' = [catalogue EXCEPT !["school"] = @ \ {e}]
    BY <1>1 DEF RemoveSchool
  <2>2. \A kind \in Catalogues : catalogue'[kind] \subseteq catalogue[kind]
    BY <2>1
  <2> QED
    BY <2>2
<1>2. CASE RemoveCompetency
  <2>1. PICK e \in catalogue["competency"] :
          catalogue' = [catalogue EXCEPT !["competency"] =
                          Replaced(@, [e EXCEPT !.deleted = TRUE])]
    BY <1>2 DEF RemoveCompetency
  <2> DEFINE new == [e EXCEPT !.deleted = TRUE]
  <2>2. new.id = e.id /\ new.name = e.name
    BY DEF Entry, Catalogues
  <2> HIDE DEF new
  <2>3. \A kind \in Catalogues : catalogue'[kind] =
          IF kind = "competency" THEN {d \in catalogue[kind] : d.id # new.id} \cup {new}
          ELSE catalogue[kind]
    BY <2>1 DEF Replaced, new
  <2> QED
    BY <2>2, <2>3
<1> QED
  BY <1>1, <1>2

LEMMA CatLess ==
  ASSUME TypeInv, TypeInv', CatInv, Less, CallsOf("import")' \subseteq CallsOf("import"),
         met \subseteq met'
  PROVE  CatInv'
<1>1. {"import"} \notin met' => CodesApart' /\ DocumentsApart' /\ NamesApart'
  BY LessApart DEF CatInv
<1>2. {"import"} \notin met' => \A c \in CallsOf("import")' : Sought(c)'
  BY LessSought DEF CatInv
<1> QED
  BY <1>1, <1>2 DEF CatInv

LEMMA CatKept ==
  TypeInv /\ AloneInv /\ KeptInv /\ CatInv /\ [MigrationNext]_migrationVars => CatInv'
<1> SUFFICES ASSUME TypeInv, AloneInv, KeptInv, CatInv, [MigrationNext]_migrationVars
             PROVE  CatInv'
  OBVIOUS
<1>1. IsABag(pending) /\ TypeInv'
  BY TypesKept DEF TypeInv, MigrationTypeOK
<1>2. CASE MigrationRequest
  <2>1. registryVars' = registryVars
    BY <1>2 DEF MigrationRequest, MigrateFromExcel, ReportRequest
  <2>2. Less
    BY <2>1 DEF registryVars, Less, FacesKept
  <2>3. CASE \E job : job # "import" /\ Sends(job)
    <3>1. PICK job, d : /\ job # "import" /\ Start({d}) /\ d.job = job /\ d.op # "writeBack"
                        /\ Meets(job)
      BY <2>3 DEF Sends
    <3>2. CallsOf("import")' = CallsOf("import")
      BY <1>1, <3>1, SendCalls
    <3>3. met \subseteq met'
      BY <3>1 DEF Meets
    <3> QED
      BY <1>1, <2>2, <3>2, <3>3, CatLess
  <2>4. CASE Sends("import") /\ MigrateFromExcel
    <3> DEFINE d == [op |-> "readTrainings", job |-> "import", rows |-> {}, lines |-> {},
                     results |-> [s \in SheetNames |-> <<>>], training |-> None,
                     found |-> NothingFound, asked |-> {}, user |-> None]
    <3>1. Start({d}) /\ d.job = "import" /\ d.op = "readTrainings" /\ Meets("import")
      BY <2>4 DEF MigrateFromExcel, Sends
    <3> HIDE DEF d
    <3>2. CallsOf("import")' = CallsOf("import") \cup {d}
      BY <1>1, <3>1, SendCalls
    <3>3. {"import"} \notin met' => CallsOf("import") = {} /\ {"import"} \notin met
      <4>1. {"import", "import"} = {"import"}
        OBVIOUS
      <4> QED
        BY <3>1, <4>1, MeetsCalls DEF Meets
    <3>4. Sought(d)'
      BY <3>1, FreeSought
    <3>5. {"import"} \notin met' => CodesApart' /\ DocumentsApart' /\ NamesApart'
      BY <1>1, <2>2, <3>3, LessApart DEF CatInv
    <3> QED
      BY <3>2, <3>3, <3>4, <3>5 DEF CatInv
  <2> QED
    BY <1>2, <2>3, <2>4, RequestsSend
<1>3. CASE \/ \E sheet \in ToSet(Sheets) : \E line \in 1..Height(sheet) : PauseLine(sheet, line)
           \/ CatalogueRequest
           \/ UNCHANGED migrationVars
  <2>1. UNCHANGED <<pending, met>>
    BY <1>3 DEF PauseLine, CatalogueRequest, migrationVars
  <2>2. CallsOf("import")' = CallsOf("import")
    BY <2>1 DEF CallsOf
  <2>3. Less
    <3>1. CASE CatalogueRequest
      <4>1. catalogue \in [Catalogues -> SUBSET Entry]
        BY DEF TypeInv, MigrationTypeOK, RegistryTypeOK
      <4>2. \A kind \in Catalogues : \A e \in catalogue'[kind] :
              \E d \in catalogue[kind] : d.id = e.id /\ d.name = e.name
        BY <3>1, <4>1, RemovalKeeps DEF CatalogueRequest
      <4> QED
        BY <3>1, <4>2 DEF CatalogueRequest, RemoveSchool, RemoveCompetency, Less, FacesKept
    <3>2. CASE ~CatalogueRequest
      BY <1>3, <3>2 DEF PauseLine, migrationVars, registryVars, Less, FacesKept
    <3> QED
      BY <3>1, <3>2
  <2> QED
    BY <1>1, <2>1, <2>2, <2>3, CatLess
<1>4. ASSUME NEW c \in BagToSet(pending), Work(c) \/ Reject(c), c \notin CallsOf("import")
      PROVE  CatInv'
  <2>1. CallsOf("import")' = CallsOf("import") /\ met' = met
    BY <1>4, JobSame, StaysInItsJob
  <2>2. ~AnswerImport(c) /\ ~FailImport(c)
    BY <1>4, WhoImports
  <2>3. Less
    <3>1. CASE AnswerMail(c) /\ OnlyMailing /\ UNCHANGED met
      <4>1. FacesKept
        BY <3>1, MailWritesUsers, WritesFaces DEF FacesKept
      <4> QED
        BY <3>1, <4>1 DEF OnlyMailing, Less
    <3>2. CASE FailMail(c) /\ OnlyMailing
      BY <3>2 DEF FailMail, OnlyMailing, Less, FacesKept
    <3>3. CASE WriteBack(c) /\ UNCHANGED <<registryVars, mailingVars>>
      BY <3>3 DEF registryVars, Less, FacesKept
    <3>4. CASE ServeReport(c) \/ FailReport(c)
      <4>1. registryVars' = registryVars
        BY <3>4 DEF ServeReport, FailReport, ReadTrainings, ReadSchools, ReadUsers, AnswerReport,
                    Read
      <4> QED
        BY <4>1 DEF registryVars, Less, FacesKept
    <3> QED
      BY <1>4, <2>2, <3>1, <3>2, <3>3, <3>4 DEF Work, Reject
  <2> QED
    BY <1>1, <2>1, <2>3, CatLess
<1>5. ASSUME NEW c \in CallsOf("import"), Work(c) \/ Reject(c)
      PROVE  CatInv'
  <2>1. c \in BagToSet(pending) /\ c.job = "import" /\ c.op # "writeBack"
    BY DEF CallsOf
  <2>2. ~AnswerMail(c) /\ ~FailMail(c) /\ ~ServeReport(c) /\ ~FailReport(c) /\ ~WriteBack(c)
    BY <2>1, WhoMails, WhoReports DEF CallsOf, WriteBack, FailMail
  <2>3. AnswerImport(c) \/ FailImport(c)
    BY <1>5, <2>2 DEF Work, Reject
  <2>4. c \in ImportCall /\ ImportFits(c)
    BY <2>1, <2>3, WhoImports
  <2>5. met' = met
    BY <1>5 DEF Work, Reject
  <2> SUFFICES ASSUME {"import"} \notin met
               PROVE  CatInv'
    BY <2>5 DEF CatInv
  <2>6. CodesApart' /\ DocumentsApart' /\ NamesApart'
    <3>1. CASE AnswerImport(c)
      BY <1>1, <2>4, <3>1, CatStore
    <3>2. CASE FailImport(c)
      <4>1. Less
        BY <3>2 DEF FailImport, registryVars, Less, FacesKept
      <4> QED
        BY <1>1, <4>1, LessApart DEF CatInv
    <3> QED
      BY <2>3, <3>1, <3>2
  <2>7. AnswersSought(c)
    <3>1. CASE \/ ReadImportRows(c) \/ FindTraining(c) \/ FindName(c) \/ CreateName(c)
               \/ CreateTraining(c) \/ ReadImportLines(c) \/ FailImport(c) \/ ReplaceTraining(c)
      BY <2>4, <3>1, CatRows
    <3>2. CASE \/ FindProfessor(c) \/ DeleteUser(c) \/ FindNamesake(c) \/ DeleteNamesake(c)
               \/ FindSchool(c) \/ CreateSchool(c) \/ FindDuplicate(c) \/ CreateUser(c)
               \/ ReadBackup(c)
      BY <2>4, <3>2, CatPersons
    <3> QED
      BY <2>3, <3>1, <3>2 DEF AnswerImport
  <2>8. Single("import")
    BY DEF AloneInv
  <2>9. \A d \in CallsOf("import")' : Sought(d)'
    <3>1. CASE Continue(c, {})
      <4>1. CallsOf("import")' = {}
        BY <1>1, <2>8, <3>1, OneCallNext
      <4> QED
        BY <4>1
    <3>2. ASSUME NEW d, Continue(c, {d}), d.job = "import" /\ d.op # "writeBack" => Sought(d)'
          PROVE  \A e \in CallsOf("import")' : Sought(e)'
      <4> DEFINE new == {d}
      <4>1. CallsOf("import")' = {e \in new : e.job = "import" /\ e.op # "writeBack"}
        BY <1>1, <2>8, <3>2, OneCallNext
      <4> QED
        BY <3>2, <4>1
    <3> QED
      BY <2>7, <3>1, <3>2 DEF AnswersSought
  <2> QED
    BY <2>6, <2>9 DEF CatInv
<1>6. CASE Interrupt
  <2>1. CallsOf("import")' = {}
    BY <1>6, NoCalls DEF Interrupt, CallsOf
  <2>2. Less /\ met' = met
    BY <1>6 DEF Interrupt, Less, FacesKept
  <2> QED
    BY <1>1, <2>1, <2>2, CatLess
<1> QED
  BY <1>2, <1>3, <1>4, <1>5, <1>6 DEF MigrationNext

\* The documents of the users and the names of the schools at the start.
StartsApart ==
  /\ \A u, v \in FirstUsers : u.document = v.document /\ u # v => u.document = None
  /\ \A d, e \in FirstSchools : d.name = e.name => d = e

\* As long as no two imports run together, the imports leave one training for
\* each code, one user for each document and one school, competency and
\* semester for each name, wherever they fail and however often they are
\* repeated, semesters written in another way than they are stored (lower case,
\* spaces around) excepted; if there was one at the start.
\* (importTraining, addParticipantToTraining.)
THEOREM CatalogueHasNoTwins ==
  ASSUME StartsApart
  PROVE  MigrationSpec => []CatalogueUnlessRaced
<1> DEFINE Inv == TypeInv /\ AloneInv /\ KeptInv /\ CatInv
<1>1. MigrationInit => CatInv
  BY NoCalls DEF MigrationInit, RegistryInit, StartsApart, CatInv, CallsOf, CodesApart,
                 DocumentsApart, NamesApart, Catalogues
<1>2. CatInv => CatalogueUnlessRaced
  BY DEF CatInv, CatalogueUnlessRaced, CodesApart, DocumentsApart, NamesApart, Rewritten
<1> QED
  BY <1>1, <1>2, CatKept, KeptHolds, PTL DEF MigrationSpec
-----------------------------------------------------------------------------
(* The marks for mails: a row that is marked is that of somebody mailed.     *)

AsDNI(document) == [document EXCEPT !.type = "DNI"]

Mailed(id) == \E m \in mails : m.user = id

\* A row that may be marked as done.
Justified(sheet, line) ==
  \/ <<sheet, line>> \in excused
  \/ \E m \in mails : m.document = AsDNI(Lines[sheet][line].document)

Justifies(results) ==
  \A sheet \in OwnSheets : \A line \in DOMAIN results[sheet] :
    results[sheet][line] = "success" => Justified(sheet, line)

MailMarks(c) ==
  /\ c.job = "mails" => Justifies(c.results)
  /\ c.op \in UserOps => c.user.document = AsDNI(Line(c).document)
  /\ c.op \in {"readForAppend", "writeAppend"} =>
       \E m \in mails : m.user = c.user.id /\ m.document = c.user.document
  /\ c.op \in {"findAddress", "findDocument", "writeAppend"} => \A id \in c.list : Mailed(id)

MarksFit ==
  \A s \in SheetNames : \A column \in {"Estado", "EmailSent"} :
    DOMAIN marks[s][column] = 1..Height(s)

MailMarksInv ==
  /\ \A sheet \in OwnSheets : \A line \in DOMAIN marks[sheet]["EmailSent"] :
       marks[sheet]["EmailSent"][line] = "success" => Justified(sheet, line)
  /\ \A c \in BagToSet(pending) : MailMarks(c)
  /\ \A id \in processed : Mailed(id)

\* Mails and excuses are never taken back.
Told == mails \subseteq mails' /\ excused \subseteq excused'

LEMMA ToldKept ==
  ASSUME Told
  PROVE  /\ \A sheet, line : Justified(sheet, line) => Justified(sheet, line)'
         /\ \A results : Justifies(results) => Justifies(results)'
         /\ \A c : MailMarks(c) => MailMarks(c)'
         /\ \A id : Mailed(id) => Mailed(id)'
<1>1. \A sheet, line : Justified(sheet, line) => Justified(sheet, line)'
  BY DEF Told, Justified
<1>2. \A results : Justifies(results) => Justifies(results)'
  BY <1>1 DEF Justifies
<1>3. \A id : Mailed(id) => Mailed(id)'
  BY DEF Told, Mailed
<1>4. ASSUME NEW c, MailMarks(c)
      PROVE  MailMarks(c)'
  <2>1. c.job = "mails" => Justifies(c.results)'
    BY <1>2, <1>4 DEF MailMarks
  <2>2. c.op \in {"readForAppend", "writeAppend"} =>
          \E m \in mails' : m.user = c.user.id /\ m.document = c.user.document
    BY <1>4 DEF MailMarks, Told
  <2>3. c.op \in {"findAddress", "findDocument", "writeAppend"} => \A id \in c.list : Mailed(id)'
    BY <1>3, <1>4 DEF MailMarks
  <2>4. c.op \in UserOps => c.user.document = AsDNI(Line(c).document)
    BY <1>4 DEF MailMarks
  <2> QED
    BY <2>1, <2>2, <2>3, <2>4 DEF MailMarks
<1> QED
  BY <1>1, <1>2, <1>3, <1>4

\* The names of the sheets that jobs read for their own training.
LEMMA OwnAre ==
  ASSUME NEW sheet \in OwnSheets
  PROVE  /\ sheet \in Codes /\ sheet \in SheetNames /\ sheet # FirstSheet
         /\ RowsSheet(sheet) = sheet
BY SpreadsheetAssumption DEF OwnSheets, HasSheet, SheetNames

\* The walk of the job of the mails.
LEMMA EndMailIs ==
  ASSUME NEW c \in MailCall, NEW mark, EndMail(c, mark)
  PROVE  \E d : /\ d.job = "mails" /\ Plain(d) /\ Continue(c, {d})
                /\ d.results = [c.results EXCEPT ![Code(c)][Min(c.lines)] = mark]
<1> DEFINE b == [c EXCEPT !.user = None, !.copy = None, !.list = {}, !.password = 0]
           r == [c.results EXCEPT ![Code(c)][Min(c.lines)] = mark]
           e == [MarkLine(b, mark) EXCEPT !.lines = @ \ {Min(@)}]
           d == AtLine(e)
<1>1. /\ Walker(b) /\ b.job = "mails" /\ b.results = c.results
      /\ b.rows = c.rows /\ b.lines = c.lines
  BY DEF MailCall, Walker
<1>2. Continue(c, {d})
  BY DEF EndMail, AfterLine
<1> HIDE DEF b, d
<1>3. Code(b) = Code(c)
  BY <1>1 DEF Code, TrainingRow
<1>4. MarkLine(b, mark) = [b EXCEPT !.results = r]
  BY <1>1, <1>3 DEF MarkLine, Walker
<1> HIDE DEF r
<1>5. Walker(e) /\ e.job = "mails" /\ e.results = r
  BY <1>1, <1>4 DEF Walker
<1> HIDE DEF e
<1>6. AtNextLine(e, d)
  BY <1>5, WalkIs DEF d
<1>7. d.job = "mails" /\ Plain(d) /\ d.results = r
  BY <1>5, <1>6 DEF AtNextLine, AtNextRow, RowOp, LineOp, Plain
<1> QED
  BY <1>2, <1>7 DEF r

LEMMA MailLinesAre ==
  ASSUME NEW c \in MailCall, ReadMailLines(c)
  PROVE  \/ Continue(c, {})
         \/ \E errors, d :
              /\ d.job = "mails" /\ Plain(d) /\ Continue(c, {d})
              /\ d.results = [c.results EXCEPT ![Code(c)] = errors]
              /\ DOMAIN errors = DOMAIN marks[RowsSheet(Code(c))]["EmailSent"]
              /\ \A i \in DOMAIN errors : errors[i] = "success" =>
                   marks[RowsSheet(Code(c))]["EmailSent"][i] = "success"
<1> SUFFICES ASSUME ~Continue(c, {})
             PROVE  \E errors, d :
              /\ d.job = "mails" /\ Plain(d) /\ Continue(c, {d})
              /\ d.results = [c.results EXCEPT ![Code(c)] = errors]
              /\ DOMAIN errors = DOMAIN marks[RowsSheet(Code(c))]["EmailSent"]
              /\ \A i \in DOMAIN errors : errors[i] = "success" =>
                   marks[RowsSheet(Code(c))]["EmailSent"][i] = "success"
  OBVIOUS
<1> DEFINE sheet == RowsSheet(Code(c))
           seen == marks[sheet]["EmailSent"]
           Refused(line) == FALSE
           errors == [i \in DOMAIN seen |->
                   IF ~Done(seen[i]) /\ Refused(Lines[sheet][i]) THEN "error" ELSE seen[i]]
           open == {i \in 1..Height(sheet) : ~Done(seen[i]) /\ ~Refused(Lines[sheet][i])}
           r == [c.results EXCEPT ![Code(c)] = errors]
           e == [c EXCEPT !.results[Code(c)] = errors, !.lines = open]
           d == AtLine(e)
<1>1. Column[c.job] = "EmailSent"
  BY DEF ReadMailLines, Column
<1>2. Continue(c, {d})
  BY <1>1 DEF ReadMailLines, ReadParticipants
<1>3. /\ DOMAIN errors = DOMAIN seen
      /\ \A i \in DOMAIN errors : errors[i] = "success" => seen[i] = "success"
  OBVIOUS
<1> HIDE DEF seen, open, errors, d
<1>4. Walker(e) /\ e.job = "mails" /\ e.results = r
  BY DEF MailCall, Walker
<1> HIDE DEF e, r
<1>5. AtNextLine(e, d)
  BY <1>4, WalkIs DEF d
<1>6. d.job = "mails" /\ Plain(d) /\ d.results = r
  BY <1>4, <1>5 DEF AtNextLine, AtNextRow, RowOp, LineOp, Plain
<1> QED
  BY <1>2, <1>3, <1>6 DEF r, seen

LEMMA MailRowsAre ==
  ASSUME NEW c \in MailCall, ReadMailRows(c)
  PROVE  \/ Continue(c, {})
         \/ \E r, d : /\ d.job = "mails" /\ Plain(d) /\ Continue(c, {d})
                      /\ d.results = [c.results EXCEPT ![FirstSheet] = r]
<1> SUFFICES ASSUME ~Continue(c, {})
             PROVE  \E r, d : /\ d.job = "mails" /\ Plain(d) /\ Continue(c, {d})
                              /\ d.results = [c.results EXCEPT ![FirstSheet] = r]
  OBVIOUS
<1>1. PICK open, r : Continue(c, {AtRow([c EXCEPT !.rows = open, !.results[FirstSheet] = r])})
  BY DEF ReadMailRows
<1> DEFINE e == [c EXCEPT !.rows = open, !.results[FirstSheet] = r]
           d == AtRow(e)
<1>2. Continue(c, {d})
  BY <1>1
<1> HIDE DEF d
<1>3. Walker(e) /\ e.job = "mails" /\ e.results = [c.results EXCEPT ![FirstSheet] = r]
  BY DEF MailCall, Walker
<1> HIDE DEF e
<1>4. AtNextRow(e, d)
  BY <1>3, WalkIs DEF d
<1>5. d.job = "mails" /\ Plain(d) /\ d.results = [c.results EXCEPT ![FirstSheet] = r]
  BY <1>3, <1>4 DEF AtNextRow, RowOp, Plain
<1> QED
  BY <1>2, <1>5
\* The calls with which the job goes on keep to what it has done.
AnswersMarks(c) == Continue(c, {}) \/ \E d : Continue(c, {d}) /\ MailMarks(d)'

LEMMA PlainMarks ==
  ASSUME NEW c, NEW d, Plain(d), Continue(c, {d}), Justifies(d.results)'
  PROVE  AnswersMarks(c)
<1>1. MailMarks(d)'
  BY DEF Plain, MailMarks, UserOps, HalfwayOps
<1> QED
  BY <1>1 DEF AnswersMarks

\* What is told of a row once it is done.
LEMMA EndMailMarks ==
  ASSUME Told, NEW c \in MailCall, MailMarks(c), NEW mark, EndMail(c, mark),
         mark = "success" => \/ <<RowsSheet(Code(c)), Min(c.lines)>> \in excused'
                             \/ \E m \in mails' : m.document = AsDNI(Line(c).document)
  PROVE  AnswersMarks(c)
<1>1. PICK d : /\ d.job = "mails" /\ Plain(d) /\ Continue(c, {d})
               /\ d.results = [c.results EXCEPT ![Code(c)][Min(c.lines)] = mark]
  BY EndMailIs
<1>2. c.results \in Results /\ Justifies(c.results)'
  BY ToldKept DEF MailCall, MailMarks
<1>3. mark = "success" /\ Code(c) \in OwnSheets => Justified(Code(c), Min(c.lines))'
  <2> SUFFICES ASSUME mark = "success", Code(c) \in OwnSheets
               PROVE  Justified(Code(c), Min(c.lines))'
    OBVIOUS
  <2>1. RowsSheet(Code(c)) = Code(c)
    BY OwnAre
  <2>2. Line(c) = Lines[Code(c)][Min(c.lines)]
    BY <2>1 DEF Line
  <2> QED
    BY <2>1, <2>2 DEF Justified
<1> DEFINE r == [c.results EXCEPT ![Code(c)][Min(c.lines)] = mark]
<1>4. ASSUME NEW sheet \in OwnSheets, NEW line \in DOMAIN r[sheet], r[sheet][line] = "success"
      PROVE  Justified(sheet, line)'
  <2>1. sheet \in DOMAIN c.results
    BY <1>2, OwnAre DEF Results
  <2>2. CASE sheet = Code(c) /\ line = Min(c.lines)
    <3>1. mark = "success"
      BY <1>4, <2>1, <2>2
    <3> QED
      BY <1>3, <2>2, <3>1
  <2>3. CASE ~(sheet = Code(c) /\ line = Min(c.lines))
    <3>1. c.results[sheet][line] = "success" /\ line \in DOMAIN c.results[sheet]
      BY <1>4, <2>1, <2>3
    <3> QED
      BY <1>2, <3>1 DEF Justifies
  <2> QED
    BY <2>2, <2>3
<1>5. Justifies(d.results)'
  BY <1>1, <1>4 DEF Justifies
<1> QED
  BY <1>1, <1>5, PlainMarks

\* The calls between the check of a row and the record of its mail.
LEMMA NextMarks ==
  ASSUME Told, NEW c \in MailCall, MailMarks(c), NEW d, Continue(c, {d}), d.job = "mails",
         d.results = c.results, d.rows = c.rows, d.lines = c.lines,
         d.op \in UserOps =>
           d.user.document = AsDNI(Line(c).document),
         d.op \in {"readForAppend", "writeAppend"} =>
           \E m \in mails' : m.user = d.user.id /\ m.document = d.user.document,
         d.op \in {"findAddress", "findDocument", "writeAppend"} => \A id \in d.list : Mailed(id)
  PROVE  AnswersMarks(c)
<1>1. Line(d) = Line(c)
  BY DEF Line, Code, TrainingRow
<1>2. Justifies(d.results)'
  BY ToldKept DEF MailCall, MailMarks
<1>3. d.op \in {"findAddress", "findDocument", "writeAppend"} => \A id \in d.list : Mailed(id)'
  BY ToldKept
<1>4. MailMarks(d)'
  BY <1>1, <1>2, <1>3 DEF MailMarks
<1> QED
  BY <1>4 DEF AnswersMarks

LEMMA MailAnswersMarks ==
  ASSUME TypeInv, KeptInv, MailMarksInv, NEW c \in BagToSet(pending), MailWork(c), c \in MailCall,
         MailFits(c)
  PROVE  Told /\ AnswersMarks(c) /\ \A id \in processed' : Mailed(id)'
<1>1. MailMarks(c) /\ c.job = "mails" /\ c.results \in Results
  BY DEF MailMarksInv, MailCall
<1>2. Told
  BY DEF MailWork, ReadMailRows, ReadMailLines, ReadProcessed, FindAddress, FindDocument,
     ReadForPassword, ReplacePassword, ReadForEmail, ReplaceEmail, SendMail, ReadForAppend,
     WriteAppend, NoMailDue, mailingVars, Told
<1>3. EndMail(c, "error") => AnswersMarks(c)
  BY <1>1, <1>2, EndMailMarks
<1>4. NoMailDue(c) => AnswersMarks(c)
  BY <1>1, <1>2, EndMailMarks DEF NoMailDue
<1>5. \A r \in Results : \A sheet : sheet \notin OwnSheets \/ sheet \in DOMAIN r
  BY OwnAre DEF Results
<1>6. ASSUME ReadMailRows(c)
      PROVE  AnswersMarks(c)
  <2>1. CASE Continue(c, {})
    BY <2>1 DEF AnswersMarks
  <2>2. CASE ~Continue(c, {})
    <3>1. PICK r, d : /\ d.job = "mails" /\ Plain(d) /\ Continue(c, {d})
                      /\ d.results = [c.results EXCEPT ![FirstSheet] = r]
      BY <1>6, <2>2, MailRowsAre
    <3>2. \A sheet \in OwnSheets : d.results[sheet] = c.results[sheet]
      BY <1>1, <1>5, <3>1, OwnAre
    <3>3. Justifies(c.results)'
      BY <1>1, <1>2, ToldKept DEF MailMarks
    <3>4. Justifies(d.results)'
      BY <3>2, <3>3 DEF Justifies
    <3> QED
      BY <3>1, <3>4, PlainMarks
  <2> QED
    BY <2>1, <2>2
<1>7. ASSUME ReadMailLines(c)
      PROVE  AnswersMarks(c)
  <2>1. CASE Continue(c, {})
    BY <2>1 DEF AnswersMarks
  <2>2. CASE ~Continue(c, {})
    <3>1. PICK errors, d :
              /\ d.job = "mails" /\ Plain(d) /\ Continue(c, {d})
              /\ d.results = [c.results EXCEPT ![Code(c)] = errors]
              /\ DOMAIN errors = DOMAIN marks[RowsSheet(Code(c))]["EmailSent"]
              /\ \A i \in DOMAIN errors : errors[i] = "success" =>
                   marks[RowsSheet(Code(c))]["EmailSent"][i] = "success"
      BY <1>7, <2>2, MailLinesAre
    <3>2. \A sheet \in OwnSheets : sheet # Code(c) => d.results[sheet] = c.results[sheet]
      BY <1>1, <1>5, <3>1
    <3>3. Code(c) \in OwnSheets => d.results[Code(c)] = errors
      BY <1>1, <1>5, <3>1
    <3>4. Code(c) \in OwnSheets => \A i \in DOMAIN errors :
            errors[i] = "success" => Justified(Code(c), i)
      BY <3>1, OwnAre DEF MailMarksInv
    <3>5. Justifies(d.results)
      BY <1>1, <3>2, <3>3, <3>4 DEF Justifies, MailMarks
    <3>6. Justifies(d.results)'
      BY <1>2, <3>5, ToldKept
    <3> QED
      BY <3>1, <3>6, PlainMarks
  <2> QED
    BY <2>1, <2>2
<1>8. \A op, x, y, z :
        LET ds == {[c EXCEPT !.op = op], [c EXCEPT !.op = op, !.list = x],
                   [c EXCEPT !.op = op, !.copy = x],
                   [c EXCEPT !.op = op, !.user = x, !.list = y, !.password = z]}
        IN \A d \in ds : /\ d.op = op /\ d.job = "mails" /\ d.results = c.results
                         /\ d.rows = c.rows /\ d.lines = c.lines
  <2>1. /\ c = [f \in DOMAIN c |-> c[f]] /\ c.job = "mails"
        /\ {"op", "job", "results", "rows", "lines"} \subseteq DOMAIN c
    BY DEF MailCall
  <2> QED
    BY <2>1, ZenonT(40)
<1>9. ASSUME ReadProcessed(c)
      PROVE  AnswersMarks(c)
  <2>1. CASE EndMail(c, "error")
    BY <1>3, <2>1
  <2>2. CASE ~EndMail(c, "error")
    <3> DEFINE d == [c EXCEPT !.op = "findAddress", !.list = processed]
    <3>1. /\ d.op = "findAddress" /\ d.job = "mails" /\ d.results = c.results
          /\ d.rows = c.rows /\ d.lines = c.lines /\ d.list = processed /\ Continue(c, {d})
      BY <1>9, <2>2 DEF MailCall, ReadProcessed
    <3>2. \A id \in processed : Mailed(id)
      BY DEF MailMarksInv
    <3> HIDE DEF d
    <3> QED
      BY <1>1, <1>2, <3>1, <3>2, NextMarks DEF UserOps, HalfwayOps
  <2> QED
    BY <2>1, <2>2
<1>10. ASSUME FindAddress(c)
       PROVE  AnswersMarks(c)
  <2>1. CASE NoMailDue(c)
    BY <1>4, <2>1
  <2>2. CASE ~NoMailDue(c)
    <3> DEFINE d == [c EXCEPT !.op = "findDocument"]
    <3>1. /\ d.op = "findDocument" /\ d.job = "mails" /\ d.results = c.results
          /\ d.rows = c.rows /\ d.lines = c.lines /\ d.list = c.list /\ Continue(c, {d})
      BY <1>10, <2>2 DEF MailCall, FindAddress
    <3>2. \A id \in c.list : Mailed(id)
      BY <1>1, <1>10 DEF MailMarks, FindAddress
    <3> HIDE DEF d
    <3> QED
      BY <1>1, <1>2, <3>1, <3>2, NextMarks DEF UserOps, HalfwayOps
  <2> QED
    BY <2>1, <2>2
<1>11. ASSUME FindDocument(c)
       PROVE  AnswersMarks(c)
  <2>1. ASSUME NEW user \in WithDocument(AsDNI(Line(c).document)), Processed(c, user),
               EndMail(c, "success")
        PROVE  AnswersMarks(c)
    <3>1. Mailed(user.id) /\ user \in users /\ user.document = AsDNI(Line(c).document)
      BY <1>1, <1>11, <2>1 DEF MailMarks, FindDocument, Processed, WithDocument
    <3>2. PICK m \in mails : m.user = user.id
      BY <3>1 DEF Mailed
    <3>3. m.document = user.document
      BY <3>1, <3>2 DEF KeptInv, Known, WithId
    <3>4. m \in mails'
      BY <1>2 DEF Told
    <3> QED
      BY <1>1, <1>2, <2>1, <3>1, <3>3, <3>4, EndMailMarks
  <2>2. ASSUME NEW user \in WithDocument(AsDNI(Line(c).document)), NEW password,
               Continue(c, {[c EXCEPT !.op = "readForPassword", !.user = user,
                                      !.list = {}, !.password = password]})
        PROVE  AnswersMarks(c)
    <3> DEFINE d == [c EXCEPT !.op = "readForPassword", !.user = user,
                              !.list = {}, !.password = password]
    <3>1. /\ d.op = "readForPassword" /\ d.job = "mails" /\ d.results = c.results
          /\ d.rows = c.rows /\ d.lines = c.lines /\ d.user = user /\ Continue(c, {d})
      BY <2>2 DEF MailCall
    <3>2. user.document = AsDNI(Line(c).document)
      BY DEF WithDocument
    <3> HIDE DEF d
    <3> QED
      BY <1>1, <1>2, <3>1, <3>2, NextMarks
  <2>3. \/ NoMailDue(c) \/ EndMail(c, "error")
        \/ \E user \in WithDocument(AsDNI(Line(c).document)) :
             \/ Processed(c, user) /\ EndMail(c, "success")
             \/ \E password :
                  Continue(c, {[c EXCEPT !.op = "readForPassword", !.user = user,
                                         !.list = {}, !.password = password]})
    BY <1>11 DEF FindDocument, AsDNI
  <2> QED
    BY <1>3, <1>4, <2>1, <2>2, <2>3
<1>12. ASSUME NEW op \in UserOps \ {"readForAppend", "writeAppend"}, c.op \in UserOps, NEW x,
              Continue(c, {[c EXCEPT !.op = op, !.copy = x]})
       PROVE  AnswersMarks(c)
  <2> DEFINE d == [c EXCEPT !.op = op, !.copy = x]
  <2>1. /\ d.op = op /\ d.job = "mails" /\ d.results = c.results
        /\ d.rows = c.rows /\ d.lines = c.lines /\ d.user = c.user /\ Continue(c, {d})
    BY <1>12 DEF MailCall
  <2>2. c.user.document = AsDNI(Line(c).document)
    BY <1>1, <1>12 DEF MailMarks
  <2> HIDE DEF d
  <2>3. d.op \notin {"findAddress", "findDocument", "writeAppend", "readForAppend"}
    BY <2>1 DEF UserOps, HalfwayOps
  <2> QED
    BY <1>1, <1>2, <2>1, <2>2, <2>3, NextMarks
<1>13. ASSUME ReadForPassword(c) \/ ReplacePassword(c) \/ ReadForEmail(c) \/ ReplaceEmail(c)
       PROVE  AnswersMarks(c)
  <2>1. \/ EndMail(c, "error")
        \/ \E op \in {"replacePassword", "readForEmail", "replaceEmail", "sendMail"} : \E x :
             Continue(c, {[c EXCEPT !.op = op, !.copy = x]})
    BY <1>13 DEF ReadForPassword, ReplacePassword, ReadForEmail, ReplaceEmail, ReadUserFor
  <2>2. c.op \in UserOps
    BY <1>13 DEF ReadForPassword, ReplacePassword, ReadForEmail, ReplaceEmail, ReadUserFor,
                 UserOps, HalfwayOps
  <2>3. {"replacePassword", "readForEmail", "replaceEmail", "sendMail"} \subseteq
          UserOps \ {"readForAppend", "writeAppend"}
    BY DEF UserOps, HalfwayOps
  <2> QED
    BY <1>3, <1>12, <2>1, <2>2, <2>3
<1>14. c.op \in UserOps => c.user.document = AsDNI(Line(c).document)
  BY <1>1 DEF MailMarks
<1>15. ASSUME SendMail(c)
       PROVE  AnswersMarks(c)
  <2> DEFINE d == [c EXCEPT !.op = "readForAppend"]
             m == [user |-> c.user.id, document |-> c.user.document,
                   password |-> c.password, to |-> c.user.email]
  <2>1. /\ d.op = "readForAppend" /\ d.job = "mails" /\ d.results = c.results
        /\ d.rows = c.rows /\ d.lines = c.lines /\ d.user = c.user /\ Continue(c, {d})
    BY <1>15 DEF MailCall, SendMail
  <2>2. m \in mails' /\ m.user = c.user.id /\ m.document = c.user.document
    BY <1>15 DEF SendMail
  <2>3. c.op \in UserOps
    BY <1>15 DEF SendMail, UserOps, HalfwayOps
  <2> HIDE DEF d, m
  <2> QED
    BY <1>1, <1>2, <1>14, <2>1, <2>2, <2>3, NextMarks
<1>16. ASSUME ReadForAppend(c)
       PROVE  AnswersMarks(c)
  <2> DEFINE d == [c EXCEPT !.op = "writeAppend", !.list = processed]
  <2>1. /\ d.op = "writeAppend" /\ d.job = "mails" /\ d.results = c.results
        /\ d.rows = c.rows /\ d.lines = c.lines /\ d.user = c.user /\ d.list = processed
        /\ Continue(c, {d})
    BY <1>16 DEF MailCall, ReadForAppend
  <2>2. c.op \in UserOps
    BY <1>16 DEF ReadForAppend, UserOps, HalfwayOps
  <2>3. \E m \in mails' : m.user = c.user.id /\ m.document = c.user.document
    BY <1>1, <1>2, <1>16 DEF MailMarks, ReadForAppend, Told
  <2>4. \A id \in processed : Mailed(id)
    BY DEF MailMarksInv
  <2> HIDE DEF d
  <2> QED
    BY <1>1, <1>2, <1>14, <2>1, <2>2, <2>3, <2>4, NextMarks
<1>17. ASSUME WriteAppend(c)
       PROVE  AnswersMarks(c)
  <2>1. \E m \in mails' : m.document = AsDNI(Line(c).document)
    BY <1>1, <1>2, <1>14, <1>17 DEF MailMarks, WriteAppend, Told, UserOps, HalfwayOps
  <2> QED
    BY <1>1, <1>2, <1>17, <2>1, EndMailMarks DEF WriteAppend
<1>18. AnswersMarks(c)
  BY <1>6, <1>7, <1>9, <1>10, <1>11, <1>13, <1>15, <1>16, <1>17 DEF MailWork
<1>19. \A id \in processed' : Mailed(id)
  <2>1. CASE WriteAppend(c)
    <3>1. Mailed(c.user.id) /\ \A id \in c.list : Mailed(id)
      BY <1>1, <2>1 DEF MailMarks, WriteAppend, Mailed
    <3> QED
      BY <2>1, <3>1 DEF WriteAppend
  <2>2. CASE ~WriteAppend(c)
    <3>1. processed' = processed
      BY <2>2 DEF MailWork, ReadMailRows, ReadMailLines, ReadProcessed, FindAddress,
         FindDocument, ReadForPassword, ReplacePassword, ReadForEmail, ReplaceEmail, SendMail,
         ReadForAppend, mailingVars
    <3> QED
      BY <3>1 DEF MailMarksInv
  <2> QED
    BY <2>1, <2>2
<1> QED
  BY <1>2, <1>18, <1>19, ToldKept
\* There are marks for every row, and for no other.
LEMMA MarksFitKept == TypeInv /\ MarksFit /\ [MigrationNext]_migrationVars => MarksFit'
<1> SUFFICES ASSUME TypeInv, MarksFit, [MigrationNext]_migrationVars
             PROVE  MarksFit'
  OBVIOUS
<1>1. marks \in [SheetNames -> [{"Estado", "EmailSent"} -> Seq(Mark)]]
  BY DEF TypeInv, MigrationTypeOK, SpreadsheetTypeOK
<1>2. CASE marks' = marks
  BY <1>2 DEF MarksFit
<1>3. ASSUME NEW sheet, NEW line, PauseLine(sheet, line)
      PROVE  MarksFit'
  <2>1. PICK column : marks' = [marks EXCEPT ![sheet][column][line] = "paused"]
    BY <1>3 DEF PauseLine
  <2> QED
    BY <1>1, <2>1 DEF MarksFit
<1>4. ASSUME NEW c, WriteBack(c)
      PROVE  MarksFit'
  <2> DEFINE new(s) == [marks[s] EXCEPT ![Column[c.job]] = Overwritten(@, c.results[s])]
  <2>1. \A s \in SheetNames : marks'[s] = new(s)
    BY <1>4 DEF WriteBack
  <2>2. ASSUME NEW s \in SheetNames, NEW column \in {"Estado", "EmailSent"}
        PROVE  DOMAIN new(s)[column] = 1..Height(s)
    BY <1>1 DEF MarksFit, Overwritten
  <2> HIDE DEF new
  <2> QED
    BY <2>1, <2>2 DEF MarksFit
<1> QED
  BY <1>2, <1>3, <1>4
  DEF MigrationNext, MigrationRequest, CatalogueRequest, Work, Reject, Interrupt, OnlyMailing,
      OnlyImporting, OnlyReports, migrationVars

\* The calls of other jobs say nothing of mails.
LEMMA OthersMarks ==
  ASSUME TypeInv, TypeInv', NEW c \in BagToSet(pending), Work(c) \/ Reject(c), c.job # "mails"
  PROVE  AnswersMarks(c)
<1>1. IsABag(pending)
  BY DEF TypeInv, MigrationTypeOK
<1>2. CASE Continue(c, {})
  BY <1>2 DEF AnswersMarks
<1>3. CASE ~Continue(c, {})
  <2>1. c.op # "writeBack"
    BY <1>3, StaysInItsJob
  <2>2. PICK d : d.job = c.job /\ Continue(c, {d})
    BY <1>3, StaysInItsJob DEF StaysInJob
  <2>3. d \in BagToSet(pending')
    BY <1>1, <2>2, ContinueCalls
  <2>4. d \in AddressCall \cup ImportCall \cup ReportCall \cup WriteBackCall
    BY <2>2, <2>3 DEF TypeInv, MigrationTypeOK, MailCall
  <2>5. MailMarks(d)'
    <3>1. CASE d \in WriteBackCall
      BY <2>2, <3>1 DEF WriteBackCall, MailMarks, UserOps, HalfwayOps
    <3>2. CASE d \in AddressCall \cup ImportCall \cup ReportCall
      BY <3>2
      DEF MailMarks, AddressCall, ImportCall, ReportCall, LineOps, RowOps, UserOps, HalfwayOps
    <3> QED
      BY <2>4, <3>1, <3>2
  <2> QED
    BY <2>2, <2>5 DEF AnswersMarks
<1> QED
  BY <1>2, <1>3

LEMMA MailMarksKept ==
  TypeInv /\ KeptInv /\ MailMarksInv /\ [MigrationNext]_migrationVars => MailMarksInv'
<1> SUFFICES ASSUME TypeInv, KeptInv, MailMarksInv, [MigrationNext]_migrationVars
             PROVE  MailMarksInv'
  OBVIOUS
<1>1. IsABag(pending) /\ TypeInv'
  BY TypesKept DEF TypeInv, MigrationTypeOK
<1>2. marks \in [SheetNames -> [{"Estado", "EmailSent"} -> Seq(Mark)]]
  BY DEF TypeInv, MigrationTypeOK, SpreadsheetTypeOK
<1> DEFINE MarksKept == \A sheet \in OwnSheets : \A line \in DOMAIN marks'[sheet]["EmailSent"] :
             marks'[sheet]["EmailSent"][line] = "success" => Justified(sheet, line)'
<1>3. ASSUME NEW new, BagToSet(pending') \subseteq BagToSet(pending) \cup new, Told, MarksKept,
             \A d \in new : MailMarks(d)', \A id \in processed' : Mailed(id)'
      PROVE  MailMarksInv'
  BY <1>3, ToldKept DEF MailMarksInv
<1>4. ASSUME marks' = marks, Told
      PROVE  MarksKept
  BY <1>4, ToldKept DEF MailMarksInv
<1>5. ASSUME UNCHANGED <<mails, excused, processed>>
      PROVE  Told /\ \A id \in processed' : Mailed(id)'
  BY <1>5 DEF Told, MailMarksInv, Mailed
<1> HIDE DEF MarksKept
<1>6. ASSUME NEW c, AnswersMarks(c), Told, MarksKept, \A id \in processed' : Mailed(id)'
      PROVE  MailMarksInv'
  <2>1. CASE Continue(c, {})
    <3>1. BagToSet(pending') \subseteq BagToSet(pending) \cup {}
      BY <1>1, <2>1, ContinueCalls
    <3> DEFINE new == {}
    <3>2. BagToSet(pending') \subseteq BagToSet(pending) \cup new /\ \A d \in new : MailMarks(d)'
      BY <3>1
    <3> HIDE DEF new
    <3> QED
      BY <1>3, <1>6, <3>2
  <2>2. ASSUME NEW d, Continue(c, {d}), MailMarks(d)'
        PROVE  MailMarksInv'
    <3> DEFINE new == {d}
    <3>1. BagToSet(pending') \subseteq BagToSet(pending) \cup new
      BY <1>1, <2>2, ContinueCalls
    <3>2. \A e \in new : MailMarks(e)'
      BY <2>2
    <3> HIDE DEF new
    <3> QED
      BY <1>3, <1>6, <3>1, <3>2
  <2> QED
    BY <1>6, <2>1, <2>2 DEF AnswersMarks
<1>7. CASE MigrationRequest
  <2>1. UNCHANGED <<mails, excused, processed, marks>>
    BY <1>7 DEF MigrationRequest, SendMails, UpdateMails, MigrateFromExcel, ReportRequest,
                OnlyImporting, OnlyReports, mailingVars
  <2>2. PICK d : /\ Start({d}) /\ d.op \in {"readTrainings", "listUsers", "bySchool", "attendance"}
                 /\ d.job \in {"mails", "import"} => \A s \in SheetNames : d.results[s] = <<>>
    BY <1>7, RequestsKept
  <2>3. d.job = "mails" => Justifies(d.results)'
    BY <2>2, OwnAre DEF Justifies
  <2>4. MailMarks(d)'
    BY <2>2, <2>3 DEF MailMarks, UserOps, HalfwayOps
  <2> DEFINE new == {d}
  <2>5. BagToSet(pending') \subseteq BagToSet(pending) \cup new
    BY <1>1, <2>2, StartCalls
  <2>6. \A e \in new : MailMarks(e)'
    BY <2>4
  <2> HIDE DEF new
  <2> QED
    BY <1>3, <1>4, <1>5, <2>1, <2>5, <2>6
<1>8. CASE \/ \E sheet \in ToSet(Sheets) : \E line \in 1..Height(sheet) : PauseLine(sheet, line)
           \/ CatalogueRequest
           \/ UNCHANGED migrationVars
  <2>1. UNCHANGED <<pending, mails, excused, processed>>
    BY <1>8 DEF PauseLine, CatalogueRequest, migrationVars, mailingVars
  <2> DEFINE new == {}
  <2>2. BagToSet(pending') \subseteq BagToSet(pending) \cup new /\ \A d \in new : MailMarks(d)'
    BY <2>1
  <2> HIDE DEF new
  <2>3. MarksKept
    <3>1. CASE marks' = marks
      BY <1>4, <1>5, <2>1, <3>1
    <3>2. ASSUME NEW sheet, NEW line, PauseLine(sheet, line)
          PROVE  MarksKept
      <4>1. PICK column : marks' = [marks EXCEPT ![sheet][column][line] = "paused"]
        BY <3>2 DEF PauseLine
      <4>2. ASSUME NEW s \in OwnSheets, NEW i \in DOMAIN marks'[s]["EmailSent"],
                   marks'[s]["EmailSent"][i] = "success"
            PROVE  Justified(s, i)'
        <5>1. s \in SheetNames
          BY OwnAre
        <5>2. i \in DOMAIN marks[s]["EmailSent"] /\ marks[s]["EmailSent"][i] = "success"
          BY <1>2, <4>1, <4>2, <5>1
        <5>3. Justified(s, i)
          BY <5>2 DEF MailMarksInv
        <5> QED
          BY <1>5, <2>1, <5>3, ToldKept
      <4> QED
        BY <4>2 DEF MarksKept
    <3> QED
      BY <1>8, <3>1, <3>2 DEF CatalogueRequest, migrationVars
  <2> QED
    BY <1>3, <1>5, <2>1, <2>2, <2>3
<1>9. ASSUME NEW c \in BagToSet(pending), Work(c) \/ Reject(c)
      PROVE  MailMarksInv'
  <2>1. CASE WriteBack(c) /\ UNCHANGED mailingVars
    <3>1. Continue(c, {}) /\ UNCHANGED <<mails, excused, processed>> /\ MailMarks(c)
      BY <2>1 DEF WriteBack, mailingVars, MailMarksInv
    <3>2. c \in WriteBackCall
      BY <2>1, CallIs DEF WriteBack
    <3>3. ASSUME NEW s \in OwnSheets, NEW i \in DOMAIN marks'[s]["EmailSent"],
                 marks'[s]["EmailSent"][i] = "success"
          PROVE  Justified(s, i)
      <4>1. /\ s \in SheetNames
            /\ marks'[s] = [marks[s] EXCEPT ![Column[c.job]] = Overwritten(@, c.results[s])]
        BY <2>1, OwnAre DEF WriteBack
      <4>2. CASE c.job = "mails"
        <5>1. marks'[s]["EmailSent"] = Overwritten(marks[s]["EmailSent"], c.results[s])
          BY <1>2, <4>1, <4>2 DEF Column
        <5>2. CASE i \in DOMAIN c.results[s]
          BY <3>1, <3>3, <4>2, <5>1, <5>2 DEF Overwritten, MailMarks, Justifies
        <5>3. CASE i \notin DOMAIN c.results[s]
          BY <3>3, <5>1, <5>3 DEF Overwritten, MailMarksInv
        <5> QED
          BY <5>2, <5>3
      <4>3. CASE c.job # "mails"
        <5>1. Column[c.job] = "Estado"
          BY <3>2, <4>3 DEF WriteBackCall, Jobs, Column
        <5>2. marks'[s]["EmailSent"] = marks[s]["EmailSent"]
          BY <1>2, <4>1, <5>1
        <5> QED
          BY <3>3, <5>2 DEF MailMarksInv
      <4> QED
        BY <4>2, <4>3
    <3>4. MarksKept
      BY <1>5, <3>1, <3>3, ToldKept DEF MarksKept
    <3> QED
      BY <1>5, <1>6, <3>1, <3>4 DEF AnswersMarks
  <2>2. CASE AnswerMail(c) /\ OnlyMailing
    <3>1. marks' = marks
      BY <2>2 DEF OnlyMailing
    <3>2. CASE AddressWork(c)
      <4>1. UNCHANGED <<mails, excused, processed>>
        BY <3>2 DEF AddressWork, ListUsers, WriteUsers, ReadUser, ReplaceAddress, mailingVars
      <4>2. c.job = "addresses"
        BY <3>2, CallIs DEF AddressWork, ListUsers, WriteUsers, ReadUser, ReplaceAddress,
           AddressFits, AddressCall
      <4> QED
        BY <1>1, <1>4, <1>5, <1>6, <1>9, <3>1, <4>1, <4>2, OthersMarks
    <3>3. CASE ~AddressWork(c)
      <4>1. MailWork(c) /\ c \in MailCall /\ MailFits(c)
        BY <2>2, <3>3, WhoMails
      <4> QED
        BY <1>4, <1>6, <3>1, <4>1, MailAnswersMarks
    <3> QED
      BY <3>2, <3>3
  <2>3. CASE FailMail(c) /\ OnlyMailing
    <3>1. UNCHANGED <<mails, excused, processed, marks>>
      BY <2>3 DEF FailMail, OnlyMailing
    <3>2. AnswersMarks(c)
      <4>1. CASE Continue(c, {})
        BY <4>1 DEF AnswersMarks
      <4>2. CASE ~Continue(c, {})
        <5>1. c.job = "mails" /\ c.op # "writeBack" /\ EndMail(c, "error")
          BY <2>3, <4>2 DEF FailMail
        <5>2. c \in MailCall
          BY <5>1, CallIs DEF MailFits
        <5>3. MailMarks(c)
          BY DEF MailMarksInv
        <5> QED
          BY <1>5, <3>1, <5>1, <5>2, <5>3, EndMailMarks
      <4> QED
        BY <4>1, <4>2
    <3> QED
      BY <1>4, <1>5, <1>6, <3>1, <3>2
  <2>4. CASE \/ (AnswerImport(c) \/ FailImport(c)) /\ OnlyImporting
             \/ (ServeReport(c) \/ FailReport(c)) /\ OnlyReports
    <3>1. UNCHANGED <<mails, excused, processed, marks>>
      BY <2>4 DEF OnlyImporting, OnlyReports, mailingVars
    <3>2. c.job # "mails"
      BY <2>4, WhoImports, WhoReports DEF CallsOf
    <3> QED
      BY <1>1, <1>4, <1>5, <1>6, <1>9, <3>1, <3>2, OthersMarks
  <2> QED
    BY <1>9, <2>1, <2>2, <2>3, <2>4 DEF Work, Reject
<1>10. CASE Interrupt
  <2>1. UNCHANGED <<mails, excused, processed, marks>>
    BY <1>10 DEF Interrupt, LoseMails
  <2> DEFINE new == {}
  <2>2. BagToSet(pending') \subseteq BagToSet(pending) \cup new /\ \A d \in new : MailMarks(d)'
    BY <1>10, NoCalls DEF Interrupt
  <2> HIDE DEF new
  <2> QED
    BY <1>3, <1>4, <1>5, <2>1, <2>2
<1> QED
  BY <1>7, <1>8, <1>9, <1>10 DEF MigrationNext
LEMMA MarksAtStart == MigrationInit => MarksFit /\ MailMarksInv
<1> SUFFICES ASSUME MigrationInit
             PROVE  MarksFit /\ MailMarksInv
  OBVIOUS
<1>1. \A s \in SheetNames : \A column \in {"Estado", "EmailSent"} : marks[s][column] = Blank(s)
  BY DEF MigrationInit, SpreadsheetInit
<1>2. MarksFit
  BY <1>1 DEF MarksFit, Blank
<1>3. \A sheet \in OwnSheets : \A line \in DOMAIN marks[sheet]["EmailSent"] :
        marks[sheet]["EmailSent"][line] # "success"
  BY <1>1, OwnAre DEF Blank
<1> QED
  BY <1>2, <1>3, NoCalls DEF MailMarksInv, MigrationInit, MailingInit

\* A row that is marked as mailed is that of a person who was mailed a
\* password, or of whom the job has found that no mail is due, whatever fails,
\* whoever pauses rows and whichever jobs run together.
\* (sendMails, sendEmail.)
LEMMA MailedRows == MigrationSpec => []MailedAsMarked
<1> DEFINE Inv == TypeInv /\ AloneInv /\ KeptInv
           Inv2 == MarksFit /\ MailMarksInv
<1>1. Inv /\ Inv2 /\ [MigrationNext]_migrationVars => Inv2'
  BY MarksFitKept, MailMarksKept
<1>2. MarksFit /\ MailMarksInv => MailedAsMarked
  <2> SUFFICES ASSUME MarksFit, MailMarksInv, NEW sheet \in OwnSheets,
                      NEW line \in 1..Height(sheet), Marked(sheet, line, "EmailSent", "success")
               PROVE  Justified(sheet, line)
    BY DEF MailedAsMarked, Justified, AsDNI
  <2>1. line \in DOMAIN marks[sheet]["EmailSent"]
    BY OwnAre DEF MarksFit
  <2> QED
    BY <2>1 DEF MailMarksInv, Marked
<1> QED
  BY <1>1, <1>2, MarksAtStart, KeptHolds, PTL DEF MigrationSpec
-----------------------------------------------------------------------------
(* The marks for imports: a row that is marked is that of a participant.     *)

Takers(t) == {t.participants[i].user : i \in DOMAIN t.participants}

Professor(id, document) ==
  \E u \in users : u.id = id /\ u.role = "professor" /\ u.document = document

TakesPart(t, document) == \E id \in Takers(t) : Professor(id, document)

\* Marks of a sheet that may be written.
Fine(sheet, f) ==
  \A line \in DOMAIN f : f[line] = "success" =>
    \/ \E t \in WithCode(sheet) : TakesPart(t, Lines[sheet][line].document)
    \/ \E other \in DOMAIN f : SamePerson(sheet, other, line) /\ f[other] # "success"

\* The training an import holds is a stored one, besides participants of rows
\* whose write failed and of the one that is being written.
Failed(c, id) ==
  \E l \in (1..Height(Code(c))) \ c.lines :
    c.results[Code(c)][l] # "success" /\ Professor(id, Lines[Code(c)][l].document)

Excess(c, id) ==
  \/ c.op \in LineOps /\ (Code(c) \in OwnSheets => Failed(c, id))
  \/ c.op = "replaceTraining" /\ Professor(id, Line(c).document)

Holds(c) ==
  \E t \in trainings :
    /\ t.id = c.training.id /\ t.code = c.training.code
    /\ Takers(t) \subseteq Takers(c.training)
    /\ \A id \in Takers(c.training) \ Takers(t) : Excess(c, id)

ImportMarks(c) ==
  \A sheet \in OwnSheets :
    Fine(sheet, c.results[sheet]) /\ DOMAIN c.results[sheet] \in {{}, 1..Height(sheet)}

Enrolling(c) ==
  /\ c.op \in HoldingOps => Holds(c) /\ c.training.code = Code(c)
  /\ c.op \in LineOps /\ Code(c) \in OwnSheets => DOMAIN c.results[Code(c)] = 1..Height(Code(c))
  /\ c.op = "replaceTraining" => TakesPart(c.training, Line(c).document)
  /\ c.op = "readBackup" => c.user.document = Line(c).document

EnrolledInv ==
  {"import"} \notin met =>
    /\ \A sheet \in OwnSheets : Fine(sheet, marks[sheet]["Estado"])
    /\ \A c \in BagToSet(pending) : c.job = "import" =>
         ImportMarks(c) /\ (c.op # "writeBack" => Enrolling(c))

\* Professors stay, and trainings lose nobody.
ProfessorsStay == \A id, document : Professor(id, document) => Professor(id, document)'
Grows ==
  /\ ProfessorsStay
  /\ \A t \in trainings : \E s \in trainings' : s.code = t.code /\ Takers(t) \subseteq Takers(s)

LEMMA ProfessorsKeep ==
  ASSUME TypeInv, KeptInv, [MigrationNext]_migrationVars
  PROVE  ProfessorsStay
<1> SUFFICES ASSUME NEW u \in users, u.role = "professor"
             PROVE  \E v \in users' : v.id = u.id /\ v.role = "professor" /\ v.document = u.document
  BY DEF ProfessorsStay, Professor
<1>1. CASE users' = users
  BY <1>1
<1>2. ASSUME NEW c \in BagToSet(pending), NEW w \in User, WritesUser(c, w)
      PROVE  \E v \in users' : v.id = u.id /\ v.role = "professor" /\ v.document = u.document
  <2>1. \A v \in WithId(w.id) : v.document = w.document /\ v.role = w.role
    BY <1>2 DEF KeptInv, CallKept, Known, WritesUser
  <2> QED
    BY <1>2, <2>1 DEF WritesUser, Replaced, WithId
<1>3. ASSUME NEW id, \A v \in WithId(id) : v.role = "author", users' = users \ WithId(id)
      PROVE  \E v \in users' : v.id = u.id /\ v.role = "professor" /\ v.document = u.document
  BY <1>3 DEF WithId
<1>4. ASSUME NEW c, NEW new, CreatesUser(c, new)
      PROVE  \E v \in users' : v.id = u.id /\ v.role = "professor" /\ v.document = u.document
  BY <1>4 DEF CreatesUser
<1> QED
  BY <1>1, <1>2, <1>3, <1>4, UsersWrites DEF UsersWritten

LEMMA TakesStay ==
  ASSUME ProfessorsStay, NEW t, NEW s, Takers(t) \subseteq Takers(s), NEW document,
         TakesPart(t, document)
  PROVE  TakesPart(s, document)'
BY DEF TakesPart, ProfessorsStay

LEMMA FineStays ==
  ASSUME Grows, NEW sheet, NEW f, Fine(sheet, f)
  PROVE  Fine(sheet, f)'
<1>1. ASSUME NEW line \in DOMAIN f, NEW t \in WithCode(sheet),
             TakesPart(t, Lines[sheet][line].document)
      PROVE  \E s \in WithCode(sheet)' : TakesPart(s, Lines[sheet][line].document)'
  <2>1. PICK s \in trainings' : s.code = t.code /\ Takers(t) \subseteq Takers(s)
    BY DEF Grows, WithCode
  <2>2. TakesPart(s, Lines[sheet][line].document)'
    BY <1>1, <2>1, TakesStay DEF Grows
  <2> QED
    BY <2>1, <2>2 DEF WithCode
<1> QED
  BY <1>1 DEF Fine, SamePerson

LEMMA MarksStay ==
  ASSUME Grows, NEW c, ImportMarks(c)
  PROVE  ImportMarks(c)'
BY FineStays DEF ImportMarks

LEMMA EnrollingStays ==
  ASSUME ProfessorsStay, trainings' = trainings, NEW c, Enrolling(c)
  PROVE  Enrolling(c)'
<1>1. \A id : Excess(c, id) => Excess(c, id)'
  BY DEF Excess, Failed, ProfessorsStay
<1>2. Holds(c) => Holds(c)'
  BY <1>1 DEF Holds
<1>3. \A t, document : TakesPart(t, document) => TakesPart(t, document)'
  BY DEF TakesPart, ProfessorsStay
<1> QED
  BY <1>2, <1>3 DEF Enrolling

\* A row that is marked is one of P, or the person has one that is not marked.
FineFor(P, sheet, f) ==
  \A line \in DOMAIN f : f[line] = "success" =>
    \/ line \in P
    \/ \E other \in DOMAIN f : SamePerson(sheet, other, line) /\ f[other] # "success"

LEMMA FineLine ==
  ASSUME NEW sheet, NEW f \in Seq(Mark), NEW i, NEW mark, NEW P, FineFor(P, sheet, f),
         \A k \in P : \A l \in DOMAIN f : SamePerson(sheet, k, l) => l \in P,
         mark = "success" =>
           \/ i \in P
           \/ \E other \in DOMAIN f \ {i} : SamePerson(sheet, other, i) /\ f[other] # "success"
  PROVE  FineFor(P, sheet, [f EXCEPT ![i] = mark])
<1> DEFINE g == [f EXCEPT ![i] = mark]
<1>1. DOMAIN g = DOMAIN f /\ \A l \in DOMAIN f : g[l] = IF l = i THEN mark ELSE f[l]
  OBVIOUS
<1> HIDE DEF g
<1> SUFFICES ASSUME NEW line \in DOMAIN f, g[line] = "success"
             PROVE  \/ line \in P
                    \/ \E other \in DOMAIN f : SamePerson(sheet, other, line) /\ g[other] # "success"
  BY <1>1 DEF FineFor, g
<1>2. CASE line = i
  BY <1>1, <1>2
<1>3. CASE line # i
  <2>1. ASSUME NEW other \in DOMAIN f, SamePerson(sheet, other, line), f[other] # "success"
        PROVE  \/ line \in P
               \/ \E k \in DOMAIN f : SamePerson(sheet, k, line) /\ g[k] # "success"
    <3>1. CASE other # i \/ mark # "success"
      BY <1>1, <2>1, <3>1
    <3>2. CASE other = i /\ mark = "success"
      <4>1. \A k : SamePerson(sheet, k, i) => SamePerson(sheet, k, line)
        BY <2>1, <3>2 DEF SamePerson
      <4>2. i \in P => line \in P
        BY <2>1, <3>2
      <4> QED
        BY <1>1, <3>2, <4>1, <4>2
    <3> QED
      BY <3>1, <3>2
  <2> QED
    BY <1>1, <1>3, <2>1 DEF FineFor
<1> QED
  BY <1>2, <1>3

LEMMA FineSeen ==
  ASSUME NEW sheet, NEW seen, NEW f, DOMAIN f = DOMAIN seen, Fine(sheet, seen),
         \A i \in DOMAIN f : f[i] = "success" => seen[i] = "success"
  PROVE  Fine(sheet, f)
BY DEF Fine
\* The calls with which an import goes on keep to what is stored.
AnswersEnrolling(c) ==
  \/ Continue(c, {})
  \/ \E d : /\ Continue(c, {d}) /\ d.job = "import" /\ ImportMarks(d)'
            /\ d.op # "writeBack" => Enrolling(d)'

LEMMA FreeEnrolling ==
  ASSUME NEW c, NEW d, d.op \notin HoldingOps, d.job = "import", ImportMarks(d)',
         Continue(c, {d})
  PROVE  AnswersEnrolling(c)
<1>1. Enrolling(d)'
  BY DEF Enrolling, HoldingOps, LineOps
<1> QED
  BY <1>1 DEF AnswersEnrolling

LEMMA MarksSame ==
  ASSUME Grows, NEW c, ImportMarks(c), NEW d,
         \A sheet \in OwnSheets : d.results[sheet] = c.results[sheet]
  PROVE  ImportMarks(d)'
<1>1. ImportMarks(c)'
  BY MarksStay
<1> QED
  BY <1>1 DEF ImportMarks

LEMMA NextRowEnrolling ==
  ASSUME Grows, NEW c, ImportMarks(c), NEW e, NEW d, AtNextRow(e, d), e.job = "import",
         \A sheet \in OwnSheets : e.results[sheet] = c.results[sheet], Continue(c, {d})
  PROVE  AnswersEnrolling(c)
<1>1. d.op \notin HoldingOps /\ d.job = "import" /\ d.results = e.results
  BY DEF AtNextRow, RowOp, HoldingOps, LineOps
<1>2. ImportMarks(d)'
  BY <1>1, MarksSame
<1> QED
  BY <1>1, <1>2, FreeEnrolling

\* The calls for one participant.
LEMMA LineEnrolling ==
  ASSUME ProfessorsStay, trainings' = trainings, NEW c, ImportMarks(c), Enrolling(c), NEW d,
         c.op \in LineOps \ {"replaceTraining"}, d.op \in LineOps \ {"replaceTraining"},
         d.job = "import", d.training = c.training, d.results = c.results, d.rows = c.rows,
         d.lines = c.lines, d.op = "readBackup" => d.user.document = Line(c).document,
         Continue(c, {d})
  PROVE  AnswersEnrolling(c)
<1>1. Grows
  BY DEF Grows
<1>2. ImportMarks(d)'
  BY <1>1, MarksSame
<1>3. Code(d) = Code(c) /\ Line(d) = Line(c)
  BY DEF Line, Code, TrainingRow
<1>4. Enrolling(c)'
  BY EnrollingStays
<1>5. \A id : Excess(c, id)' => Excess(d, id)'
  BY <1>3 DEF Excess, Failed
<1>6. Holds(d)' /\ d.training.code = Code(d)
  BY <1>3, <1>4, <1>5 DEF Enrolling, HoldingOps, Holds
<1>7. Enrolling(d)'
  BY <1>3, <1>4, <1>6 DEF Enrolling
<1> QED
  BY <1>2, <1>7 DEF AnswersEnrolling

\* The marks of a row that is done.
LEMMA EndLineMarks ==
  ASSUME Grows, NEW c \in ImportCall, ImportMarks(c), NEW mark, NEW d,
         d.results = [c.results EXCEPT ![Code(c)][Min(c.lines)] = mark],
         mark = "success" /\ Code(c) \in OwnSheets =>
           \/ \E t \in WithCode(Code(c))' : TakesPart(t, Line(c).document)'
           \/ \E other \in DOMAIN c.results[Code(c)] \ {Min(c.lines)} :
                SamePerson(Code(c), other, Min(c.lines)) /\ c.results[Code(c)][other] # "success"
  PROVE  ImportMarks(d)'
<1>1. \A sheet \in OwnSheets : sheet \in DOMAIN c.results /\ c.results[sheet] \in Seq(Mark)
  BY OwnAre DEF ImportCall
<1>2. ImportMarks(c)'
  BY MarksStay
<1>3. ASSUME NEW sheet \in OwnSheets, sheet # Code(c)
      PROVE  d.results[sheet] = c.results[sheet]
  BY <1>1, <1>3
<1>4. ASSUME Code(c) \in OwnSheets
      PROVE  Fine(Code(c), d.results[Code(c)])' /\ DOMAIN d.results[Code(c)] = DOMAIN c.results[Code(c)]
  <2> DEFINE sheet == Code(c)
             f == c.results[sheet]
             i == Min(c.lines)
             P == {l \in DOMAIN f \cup {i} :
                     \E t \in WithCode(sheet)' : TakesPart(t, Lines[sheet][l].document)'}
  <2>1. f \in Seq(Mark) /\ d.results[sheet] = [f EXCEPT ![i] = mark]
    BY <1>1, <1>4
  <2>2. Fine(sheet, f)'
    BY <1>2, <1>4 DEF ImportMarks
  <2>3. FineFor(P, sheet, f)
    BY <2>2 DEF FineFor, Fine, SamePerson
  <2>4. \A k \in P : \A l \in DOMAIN f : SamePerson(sheet, k, l) => l \in P
    BY DEF SamePerson
  <2>5. Line(c) = Lines[sheet][i]
    BY <1>4, OwnAre DEF Line
  <2>6. mark = "success" =>
           \/ i \in P
           \/ \E other \in DOMAIN f \ {i} : SamePerson(sheet, other, i) /\ f[other] # "success"
    BY <1>4, <2>5
  <2> HIDE DEF f, i, P
  <2>7. FineFor(P, sheet, [f EXCEPT ![i] = mark])
    BY <2>1, <2>3, <2>4, <2>6, FineLine DEF f
  <2>8. DOMAIN [f EXCEPT ![i] = mark] = DOMAIN f
    OBVIOUS
  <2>9. Fine(sheet, [f EXCEPT ![i] = mark])'
    BY <2>7, <2>8 DEF P, FineFor, Fine, SamePerson
  <2> QED
    BY <2>1, <2>8, <2>9 DEF f
<1> QED
  BY <1>2, <1>3, <1>4 DEF ImportMarks
\* After a row, the training an import holds is the stored one but for the
\* participants of rows that failed.
LEMMA EndLineEnrolling ==
  ASSUME Grows, NEW c \in ImportCall, ImportFits(c), c.op \in LineOps, ImportMarks(c),
         Enrolling(c), NEW mark, EndLine(c, mark),
         mark = "success" /\ Code(c) \in OwnSheets =>
           \/ \E t \in WithCode(Code(c))' : TakesPart(t, Line(c).document)'
           \/ \E other \in DOMAIN c.results[Code(c)] \ {Min(c.lines)} :
                SamePerson(Code(c), other, Min(c.lines)) /\ c.results[Code(c)][other] # "success",
         \E t \in trainings' :
           /\ t.id = c.training.id /\ t.code = c.training.code
           /\ Takers(t) \subseteq Takers(c.training)
           /\ \A id \in Takers(c.training) \ Takers(t) : Code(c) \in OwnSheets =>
                Failed(c, id)' \/ (mark # "success" /\ Professor(id, Line(c).document)')
  PROVE  AnswersEnrolling(c)
<1>1. PICK e, d : /\ ImportAt(e, [c.results EXCEPT ![Code(c)][Min(c.lines)] = mark],
                              c.rows, c.lines \ {Min(c.lines)}, c.training)
                  /\ AtNextLine(e, d) /\ Continue(c, {d})
  BY EndLineIs
<1>2. d.job = "import" /\ d.results = [c.results EXCEPT ![Code(c)][Min(c.lines)] = mark]
  BY <1>1 DEF ImportAt, AtNextLine, AtNextRow
<1>3. ImportMarks(d)'
  BY <1>2, EndLineMarks
<1>4. CASE AtNextRow(e, d)
  <2>1. d.op \notin HoldingOps
    BY <1>1, <1>4 DEF ImportAt, AtNextRow, RowOp, HoldingOps, LineOps
  <2> QED
    BY <1>1, <1>2, <1>3, <2>1, FreeEnrolling
<1>5. CASE ~AtNextRow(e, d)
  <2>1. /\ d.op = "findProfessor" /\ d.rows = c.rows /\ d.lines = c.lines \ {Min(c.lines)}
        /\ d.training = c.training
    BY <1>1, <1>5 DEF ImportAt, AtNextLine, LineOp
  <2>2. Code(d) = Code(c)
    BY <2>1 DEF Code, TrainingRow
  <2>3. ASSUME Code(c) \in OwnSheets
        PROVE  /\ Min(c.lines) \in c.lines /\ c.lines \subseteq 1..Height(Code(c))
               /\ Line(c) = Lines[Code(c)][Min(c.lines)]
               /\ c.results[Code(c)] \in Seq(Mark)
               /\ DOMAIN c.results[Code(c)] = 1..Height(Code(c))
               /\ Code(c) \in DOMAIN c.results
    <3>1. RowsSheet(Code(c)) = Code(c) /\ HasSheet(Code(c)) /\ Code(c) \in SheetNames
      BY <2>3, OwnAre DEF OwnSheets
    <3>2. c.rows \subseteq DOMAIN TrainingRows /\ c.rows # {}
      BY DEF ImportFits, LineOps
    <3>3. c.lines # {} /\ c.lines \subseteq 1..Height(RowsSheet(Code(c)))
      BY DEF ImportFits
    <3>4. Min(c.lines) \in c.lines
      BY <3>1, <3>2, <3>3, AtLineOfSheet
    <3>5. c.results[Code(c)] \in Seq(Mark) /\ Code(c) \in DOMAIN c.results
      BY <3>1 DEF ImportCall
    <3> QED
      BY <2>3, <3>1, <3>3, <3>4, <3>5 DEF Line, Enrolling
  <2>4. ASSUME Code(c) \in OwnSheets
        PROVE  /\ DOMAIN d.results[Code(c)] = 1..Height(Code(c))
               /\ \A l \in DOMAIN c.results[Code(c)] : d.results[Code(c)][l] =
                     IF l = Min(c.lines) THEN mark ELSE c.results[Code(c)][l]
    <3>1. d.results[Code(c)] = [c.results[Code(c)] EXCEPT ![Min(c.lines)] = mark]
      BY <1>2, <2>3, <2>4
    <3> QED
      BY <2>3, <2>4, <3>1
  <2>5. ASSUME Code(c) \in OwnSheets, NEW id,
               Failed(c, id)' \/ (mark # "success" /\ Professor(id, Line(c).document)')
        PROVE  Failed(d, id)'
    <3>1. CASE Failed(c, id)'
      <4>1. PICK l \in (1..Height(Code(c))) \ c.lines :
              /\ c.results[Code(c)][l] # "success"
              /\ Professor(id, Lines[Code(c)][l].document)'
        BY <3>1 DEF Failed
      <4>2. l \in (1..Height(Code(d))) \ d.lines /\ d.results[Code(d)][l] # "success"
        BY <2>1, <2>2, <2>3, <2>4, <2>5, <4>1
      <4> QED
        BY <2>2, <4>1, <4>2 DEF Failed
    <3>2. CASE mark # "success" /\ Professor(id, Line(c).document)'
      <4> DEFINE l == Min(c.lines)
      <4>1. l \in (1..Height(Code(d))) \ d.lines /\ d.results[Code(d)][l] # "success"
        BY <2>1, <2>2, <2>3, <2>4, <2>5, <3>2
      <4>2. Professor(id, Lines[Code(d)][l].document)'
        BY <2>2, <2>3, <2>5, <3>2
      <4> HIDE DEF l
      <4> QED
        BY <4>1, <4>2 DEF Failed
    <3> QED
      BY <2>5, <3>1, <3>2
  <2>6. PICK t \in trainings' :
           /\ t.id = c.training.id /\ t.code = c.training.code
           /\ Takers(t) \subseteq Takers(c.training)
           /\ \A id \in Takers(c.training) \ Takers(t) : Code(c) \in OwnSheets =>
                Failed(c, id)' \/ (mark # "success" /\ Professor(id, Line(c).document)')
    OBVIOUS
  <2>7. \A id \in Takers(d.training) \ Takers(t) : Excess(d, id)'
    BY <2>1, <2>2, <2>5, <2>6 DEF Excess, LineOps
  <2>8. Holds(d)'
    BY <2>1, <2>6, <2>7 DEF Holds
  <2>9. d.training.code = Code(d)
    BY <2>1, <2>2 DEF Enrolling, HoldingOps
  <2>10. Enrolling(d)'
    BY <2>1, <2>2, <2>4, <2>8, <2>9 DEF Enrolling
  <2> QED
    BY <1>1, <1>2, <1>3, <2>10 DEF AnswersEnrolling
<1> QED
  BY <1>4, <1>5
\* An import takes nobody out of a training.
LEMMA ImportGrows ==
  ASSUME TypeInv, ProfessorsStay, NEW c, ImportFits(c), Enrolling(c),
         AnswerImport(c) \/ FailImport(c)
  PROVE  Grows
<1>1. CASE trainings' = trainings
  BY <1>1 DEF Grows
<1>2. CASE CreateTraining(c)
  BY <1>2 DEF CreateTraining, Grows
<1>3. CASE ReplaceTraining(c)
  <2>1. PICK t \in trainings : /\ t.id = c.training.id /\ t.code = c.training.code
                               /\ Takers(t) \subseteq Takers(c.training)
    BY <1>3 DEF ReplaceTraining, Enrolling, Holds, HoldingOps, LineOps
  <2>2. \A s \in trainings : s.id = c.training.id => s = t
    BY <2>1 DEF TypeInv, MigrationTypeOK, RegistryTypeOK
  <2>3. ASSUME NEW s \in trainings
        PROVE  \E r \in trainings' : r.code = s.code /\ Takers(s) \subseteq Takers(r)
    BY <1>3, <2>1, <2>2 DEF ReplaceTraining, Replaced
  <2> QED
    BY <2>3 DEF Grows
<1> QED
  BY <1>1, <1>2, <1>3
  DEF AnswerImport, FailImport, registryVars, ReadImportRows, FindTraining, FindName, CreateName,
      ReadImportLines, FindProfessor, DeleteUser, FindNamesake, DeleteNamesake, Delete, FindSchool,
      CreateSchool, FindDuplicate, CreateUser, ReadBackup

\* The calls for a training, up to those for its participants.
LEMMA RowsEnrolling ==
  ASSUME TypeInv, MarksFit, Grows, NEW c \in ImportCall, ImportFits(c), ImportMarks(c),
         Enrolling(c), \A sheet \in OwnSheets : Fine(sheet, marks[sheet]["Estado"]),
         \/ ReadImportRows(c) \/ FindTraining(c) \/ FindName(c) \/ CreateName(c)
         \/ CreateTraining(c) \/ ReadImportLines(c) \/ (FailImport(c) /\ c.op \notin LineOps)
  PROVE  AnswersEnrolling(c)
<1>1. CASE Continue(c, {})
  BY <1>1 DEF AnswersEnrolling
<1>2. ASSUME NEW r, NEW rows, NEW e, NEW d, AtNextRow(e, d), Continue(c, {d}),
             ImportAt(e, [c.results EXCEPT ![FirstSheet] = r], rows, c.lines, c.training)
      PROVE  AnswersEnrolling(c)
  <2>1. \A sheet \in OwnSheets : e.results[sheet] = c.results[sheet]
    BY <1>2, OwnAre DEF ImportAt, ImportCall
  <2> QED
    BY <1>2, <2>1, NextRowEnrolling DEF ImportAt
<1>3. CASE ReadImportRows(c)
  BY <1>1, <1>2, <1>3, ReadRowsIs
<1>4. CASE FailImport(c) /\ c.op \notin LineOps
  <2>1. CASE \E e, d : /\ ImportAt(e, [c.results EXCEPT ![FirstSheet][Min(c.rows)] = "error"],
                                   c.rows, c.lines, c.training)
                       /\ AtNextRow(e, d) /\ Continue(c, {d})
    BY <1>2, <2>1
  <2> QED
    BY <1>1, <1>4, <2>1, FailImportIs
<1>5. ASSUME NEW d, d.op \notin HoldingOps, d.job = "import", d.results = c.results,
             Continue(c, {d})
      PROVE  AnswersEnrolling(c)
  BY <1>5, MarksSame, FreeEnrolling
<1>6. CASE FindName(c)
  <2>1. PICK kind \in c.asked :
          LET named == Called(kind, NameOf(TrainingRow(c), kind)) IN
          \E id \in IF named = {} THEN {None} ELSE {e.id : e \in named} :
            LET d == [c EXCEPT !.asked = @ \ {kind}, !.found[kind] = id] IN
            Continue(c, {IF d.asked = {} THEN AtNames(d) ELSE d})
    BY <1>6 DEF FindName
  <2>2. PICK id :
            LET d == [c EXCEPT !.asked = @ \ {kind}, !.found[kind] = id] IN
            Continue(c, {IF d.asked = {} THEN AtNames(d) ELSE d})
    BY <2>1
  <2> DEFINE b == [c EXCEPT !.asked = @ \ {kind}, !.found[kind] = id]
             d == IF b.asked = {} THEN AtNames(b) ELSE b
  <2>3. b.job = "import" /\ b.results = c.results /\ b.op = "findNames"
        /\ b = [f \in DOMAIN b |-> b[f]] /\ "op" \in DOMAIN b
    BY <1>6 DEF ImportCall, FindName
  <2>4. Continue(c, {d})
    BY <2>2
  <2> HIDE DEF b
  <2>5. d.op \in RowOps /\ d.job = "import" /\ d.results = c.results
    BY <2>3 DEF AtNames, RowOps
  <2> HIDE DEF d
  <2> QED
    BY <1>5, <2>4, <2>5 DEF RowOps, HoldingOps, LineOps
<1>7. CASE CreateName(c)
  <2>1. PICK kind, id : Continue(c, {AtNames([c EXCEPT !.found[kind] = id])})
    BY <1>7 DEF CreateName
  <2> DEFINE b == [c EXCEPT !.found[kind] = id]
             d == AtNames(b)
  <2>2. b.job = "import" /\ b.results = c.results /\ b = [f \in DOMAIN b |-> b[f]]
        /\ "op" \in DOMAIN b
    BY DEF ImportCall
  <2>3. Continue(c, {d})
    BY <2>1
  <2> HIDE DEF b
  <2>4. d.op \in RowOps /\ d.job = "import" /\ d.results = c.results
    BY <2>2 DEF AtNames, RowOps
  <2> HIDE DEF d
  <2> QED
    BY <1>5, <2>3, <2>4 DEF RowOps, HoldingOps, LineOps
<1>8. ASSUME NEW training \in trainings', training.code = Code(c), c.rows # {},
             Continue(c, {AtParticipants(c, training)})
      PROVE  AnswersEnrolling(c)
  <2> DEFINE d == AtParticipants(c, training)
             r == [c.results EXCEPT ![FirstSheet][Min(c.rows)] = "success"]
  <2>1. d.job = "import" /\ d.results = r
    BY AtParticipantsIs
  <2>2. \/ d.op \in {"writeBack", "findTraining"}
        \/ d.op = "readParticipants" /\ d.rows = c.rows /\ d.training = training
    BY AtParticipantsOps
  <2>3. \A sheet \in OwnSheets : r[sheet] = c.results[sheet]
    BY OwnAre DEF ImportCall
  <2>4. Continue(c, {d})
    BY <1>8
  <2> HIDE DEF d, r
  <2>5. ImportMarks(d)'
    BY <2>1, <2>3, MarksSame
  <2>6. CASE d.op \in {"writeBack", "findTraining"}
    BY <2>1, <2>4, <2>5, <2>6, FreeEnrolling DEF HoldingOps, LineOps
  <2>7. CASE d.op = "readParticipants" /\ d.rows = c.rows /\ d.training = training
    <3>1. d.training.code = Code(d)
      BY <1>8, <2>7 DEF Code, TrainingRow
    <3>2. Holds(d)'
      BY <1>8, <2>7 DEF Holds
    <3>3. Enrolling(d)'
      BY <2>7, <3>1, <3>2 DEF Enrolling, LineOps
    <3> QED
      BY <2>1, <2>4, <2>5, <3>3 DEF AnswersEnrolling
  <2> QED
    BY <2>2, <2>6, <2>7
<1>9. CASE FindTraining(c)
  <2>1. CASE Continue(c, {[c EXCEPT !.op = "findNames", !.asked = Catalogues]})
    <3> DEFINE d == [c EXCEPT !.op = "findNames", !.asked = Catalogues]
    <3>1. d.op = "findNames" /\ d.job = "import" /\ d.results = c.results /\ Continue(c, {d})
      BY <2>1 DEF ImportCall
    <3> HIDE DEF d
    <3> QED
      BY <1>5, <3>1 DEF HoldingOps, LineOps
  <2>2. ASSUME NEW training \in WithCode(Code(c)), Continue(c, {AtParticipants(c, training)})
        PROVE  AnswersEnrolling(c)
    BY <1>8, <1>9, <2>2 DEF FindTraining, registryVars, WithCode, ImportFits
  <2> QED
    BY <1>9, <2>1, <2>2 DEF FindTraining
<1>10. CASE CreateTraining(c)
  <2>1. PICK id \in TrainingIds :
       LET new == [id |-> id, code |-> Code(c), type |-> TrainingRow(c).type,
                   semester |-> c.found["semester"], competency |-> c.found["competency"],
                   organizer |-> c.found["school"], participants |-> <<>>] IN
       trainings' = trainings \cup {new} /\ Continue(c, {AtParticipants(c, new)})
    BY <1>10 DEF CreateTraining
  <2>2. PICK new : new.code = Code(c) /\ new \in trainings' /\ Continue(c, {AtParticipants(c, new)})
    BY <2>1
  <2> QED
    BY <1>8, <1>10, <2>2 DEF CreateTraining, ImportFits
<1>11. CASE ReadImportLines(c)
  <2>1. c.op = "readParticipants" /\ trainings' = trainings
    BY <1>11 DEF ReadImportLines, ReadParticipants, registryVars
  <2>2. CASE Continue(c, {})
    BY <1>1, <2>2
  <2>3. CASE ~Continue(c, {})
    <3>1. PICK errors, open, e, d :
            /\ ImportAt(e, [c.results EXCEPT ![Code(c)] = errors], c.rows, open, c.training)
            /\ open \subseteq 1..Height(RowsSheet(Code(c)))
            /\ DOMAIN errors = DOMAIN marks[RowsSheet(Code(c))]["Estado"]
            /\ \A i \in DOMAIN errors : errors[i] = "success" =>
                 marks[RowsSheet(Code(c))]["Estado"][i] = "success"
            /\ AtNextLine(e, d) /\ Continue(c, {d})
      BY <1>11, <2>3, ReadLinesIs
    <3>2. d.job = "import" /\ d.results = [c.results EXCEPT ![Code(c)] = errors]
      BY <3>1 DEF ImportAt, AtNextLine, AtNextRow
    <3>3. ASSUME Code(c) \in OwnSheets
          PROVE  /\ d.results[Code(c)] = errors
                 /\ DOMAIN errors = 1..Height(Code(c)) /\ Fine(Code(c), errors)'
      <4>1. RowsSheet(Code(c)) = Code(c) /\ Code(c) \in SheetNames
        BY <3>3, OwnAre
      <4>2. DOMAIN errors = 1..Height(Code(c))
        BY <3>1, <4>1 DEF MarksFit
      <4>3. Fine(Code(c), errors)
        BY <3>1, <3>3, <4>1, FineSeen
      <4>4. Fine(Code(c), errors)'
        BY <4>3, FineStays
      <4> QED
        BY <3>2, <4>1, <4>2, <4>4 DEF ImportCall
    <3>4. ImportMarks(d)'
      <4>1. ImportMarks(c)'
        BY MarksStay
      <4>2. \A sheet \in OwnSheets : sheet # Code(c) => d.results[sheet] = c.results[sheet]
        BY <3>2, OwnAre DEF ImportCall
      <4> QED
        BY <3>3, <4>1, <4>2 DEF ImportMarks
    <3>5. CASE AtNextRow(e, d)
      <4>1. d.op \notin HoldingOps
        BY <3>1, <3>5 DEF ImportAt, AtNextRow, RowOp, HoldingOps, LineOps
      <4> QED
        BY <3>1, <3>2, <3>4, <4>1, FreeEnrolling
    <3>6. CASE ~AtNextRow(e, d)
      <4>1. /\ d.op = "findProfessor" /\ d.rows = c.rows /\ d.lines = open
            /\ d.training = c.training
        BY <3>1, <3>6 DEF ImportAt, AtNextLine, LineOp
      <4>2. Code(d) = Code(c)
        BY <4>1 DEF Code, TrainingRow
      <4>3. PICK t \in trainings : /\ t.id = c.training.id /\ t.code = c.training.code
                                   /\ Takers(t) = Takers(c.training)
        <5>1. \A id : ~Excess(c, id)
          BY <2>1 DEF Excess, LineOps
        <5>2. Holds(c)
          BY <2>1 DEF Enrolling, HoldingOps
        <5> QED
          BY <5>1, <5>2 DEF Holds
      <4>4. Holds(d)'
        BY <2>1, <4>1, <4>3 DEF Holds
      <4>5. d.training.code = Code(d)
        BY <2>1, <4>1, <4>2 DEF Enrolling, HoldingOps
      <4>6. Enrolling(d)'
        BY <3>3, <4>1, <4>2, <4>4, <4>5 DEF Enrolling
      <4> QED
        BY <3>1, <3>2, <3>4, <4>6 DEF AnswersEnrolling
    <3> QED
      BY <3>5, <3>6
  <2> QED
    BY <2>2, <2>3
<1> QED
  BY <1>3, <1>4, <1>6, <1>7, <1>9, <1>10, <1>11
\* A row that is done with an error.
LEMMA ErrorEnrolling ==
  ASSUME ProfessorsStay, trainings' = trainings, NEW c \in ImportCall, ImportFits(c),
         c.op \in LineOps, ImportMarks(c), Enrolling(c), EndLine(c, "error")
  PROVE  AnswersEnrolling(c)
<1>1. Grows
  BY DEF Grows
<1>2. PICK t \in trainings :
        /\ t.id = c.training.id /\ t.code = c.training.code
        /\ Takers(t) \subseteq Takers(c.training)
        /\ \A id \in Takers(c.training) \ Takers(t) : Excess(c, id)
  BY DEF Enrolling, Holds, HoldingOps
<1>3. ASSUME NEW id \in Takers(c.training) \ Takers(t), Code(c) \in OwnSheets
      PROVE  Failed(c, id)' \/ Professor(id, Line(c).document)'
  <2>1. Failed(c, id) \/ Professor(id, Line(c).document)
    BY <1>2, <1>3 DEF Excess
  <2>2. Failed(c, id) => Failed(c, id)'
    BY DEF Failed, ProfessorsStay
  <2> QED
    BY <2>1, <2>2 DEF ProfessorsStay
<1> DEFINE mark == "error"
<1>4. mark # "success" /\ EndLine(c, mark)
  OBVIOUS
<1> HIDE DEF mark
<1> QED
  BY <1>1, <1>2, <1>3, <1>4, EndLineEnrolling

\* What an enrolment knows of its person.
LEMMA PersonOfLine ==
  ASSUME TypeInv, NEW c \in ImportCall, ImportFits(c), c.op \in LineOps \ {"replaceTraining"},
         Enrolling(c), Code(c) \in OwnSheets, NEW id, NEW t, id \in Takers(c.training) \ Takers(t),
         \A i \in Takers(c.training) \ Takers(t) : Excess(c, i), Professor(id, Line(c).document)
  PROVE  \E other \in DOMAIN c.results[Code(c)] \ {Min(c.lines)} :
           SamePerson(Code(c), other, Min(c.lines)) /\ c.results[Code(c)][other] # "success"
<1>1. PICK l \in (1..Height(Code(c))) \ c.lines :
        c.results[Code(c)][l] # "success" /\ Professor(id, Lines[Code(c)][l].document)
  BY DEF Excess, Failed
<1>2. Lines[Code(c)][l].document = Line(c).document
  BY <1>1 DEF Professor, TypeInv, MigrationTypeOK, RegistryTypeOK
<1>3. RowsSheet(Code(c)) = Code(c) /\ HasSheet(Code(c))
  BY OwnAre DEF OwnSheets
<1>4. Min(c.lines) \in c.lines
  <2>1. c.rows \subseteq DOMAIN TrainingRows /\ c.rows # {}
    BY DEF ImportFits, LineOps
  <2>2. c.lines # {} /\ c.lines \subseteq 1..Height(RowsSheet(Code(c)))
    BY DEF ImportFits
  <2> QED
    BY <1>3, <2>1, <2>2, AtLineOfSheet
<1>5. l \in DOMAIN c.results[Code(c)] \ {Min(c.lines)}
  BY <1>1, <1>4 DEF Enrolling
<1>6. SamePerson(Code(c), l, Min(c.lines))
  BY <1>2, <1>3 DEF SamePerson, Line
<1> QED
  BY <1>1, <1>5, <1>6

\* A professor is enrolled, unless the training holds him already.
LEMMA EnrolmentEnrolling ==
  ASSUME TypeInv, ProfessorsStay, trainings' = trainings, NEW c \in ImportCall, ImportFits(c),
         c.op \in LineOps \ {"replaceTraining"}, ImportMarks(c), Enrolling(c), NEW user,
         AtEnrolment(c, user), Professor(user.id, Line(c).document)
  PROVE  AnswersEnrolling(c)
<1>1. Grows
  BY DEF Grows
<1>2. PICK t \in trainings :
        /\ t.id = c.training.id /\ t.code = c.training.code
        /\ Takers(t) \subseteq Takers(c.training)
        /\ \A id \in Takers(c.training) \ Takers(t) : Excess(c, id)
  BY DEF Enrolling, Holds, HoldingOps
<1>3. \A id : Failed(c, id) => Failed(c, id)'
  BY DEF Failed, ProfessorsStay
<1>4. Professor(user.id, Line(c).document)'
  BY DEF ProfessorsStay
<1>5. c.training.code = Code(c) /\ c.training \in Training
  BY DEF Enrolling, HoldingOps, ImportFits
<1>6. ASSUME Takes(c.training, user), EndLine(c, "success")
      PROVE  AnswersEnrolling(c)
  <2> DEFINE mark == "success"
  <2>1. EndLine(c, mark)
    BY <1>6
  <2>2. user.id \in Takers(c.training)
    BY <1>6 DEF Takes, Takers
  <2>3. Code(c) \in OwnSheets =>
           \/ \E s \in WithCode(Code(c))' : TakesPart(s, Line(c).document)'
           \/ \E other \in DOMAIN c.results[Code(c)] \ {Min(c.lines)} :
                SamePerson(Code(c), other, Min(c.lines)) /\ c.results[Code(c)][other] # "success"
    <3>1. CASE user.id \in Takers(t)
      <4>1. TakesPart(t, Line(c).document)'
        BY <1>4, <3>1 DEF TakesPart
      <4> QED
        BY <1>2, <1>5, <4>1 DEF WithCode
    <3>2. CASE user.id \notin Takers(t)
      BY <1>2, <2>2, <3>2, PersonOfLine
    <3> QED
      BY <3>1, <3>2
  <2>4. \A id \in Takers(c.training) \ Takers(t) : Code(c) \in OwnSheets => Failed(c, id)'
    BY <1>2, <1>3 DEF Excess
  <2> HIDE DEF mark
  <2> QED
    BY <1>1, <1>2, <2>1, <2>3, <2>4, EndLineEnrolling
<1>7. ASSUME Continue(c, {[c EXCEPT !.op = "replaceTraining", !.user = None,
                                    !.found = NothingFound, !.training = With(c, user)]})
      PROVE  AnswersEnrolling(c)
  <2> DEFINE w == With(c, user)
             d == [c EXCEPT !.op = "replaceTraining", !.user = None,
                            !.found = NothingFound, !.training = w]
  <2>1. w.id = c.training.id /\ w.code = c.training.code /\ Takers(w) = Takers(c.training) \cup {user.id}
    <3> DEFINE p == c.training.participants
               new == [user |-> user.id, attended |-> Line(c).attended]
    <3>1. p \in Seq(Participant)
      BY <1>5 DEF Training
    <3>2. w.id = c.training.id /\ w.code = c.training.code /\ w.participants = Append(p, new)
      BY <1>5 DEF With, Training
    <3> HIDE DEF w, p
    <3>3. /\ DOMAIN Append(p, new) = DOMAIN p \cup {Len(p) + 1}
          /\ \A i \in DOMAIN p : Append(p, new)[i] = p[i]
          /\ Append(p, new)[Len(p) + 1] = new
      BY <3>1
    <3>4. new.user = user.id
      OBVIOUS
    <3> HIDE DEF new
    <3> QED
      BY <3>2, <3>3, <3>4 DEF Takers, p
  <2> HIDE DEF w
  <2>2. /\ d.op = "replaceTraining" /\ d.training = w /\ d.job = "import" /\ d.rows = c.rows
        /\ d.lines = c.lines /\ d.results = c.results
    BY DEF ImportCall
  <2>3. Continue(c, {d})
    BY <1>7 DEF w
  <2> HIDE DEF d
  <2>4. Code(d) = Code(c) /\ Line(d) = Line(c)
    BY <2>2 DEF Line, Code, TrainingRow
  <2>5. ImportMarks(d)'
    BY <1>1, <2>2, MarksSame
  <2>6. ASSUME NEW id \in Takers(w) \ Takers(t)
        PROVE  Excess(d, id)'
    <3>1. CASE id = user.id
      BY <1>4, <2>2, <2>4, <3>1 DEF Excess
    <3>2. CASE id # user.id
      <4>1. Code(c) \in OwnSheets => Failed(c, id)'
        BY <1>2, <1>3, <2>1, <2>6, <3>2 DEF Excess
      <4>2. Code(d) \in OwnSheets => Failed(d, id)'
        BY <2>2, <2>4, <4>1 DEF Failed
      <4> QED
        BY <2>2, <4>2 DEF Excess, LineOps
    <3> QED
      BY <3>1, <3>2
  <2>7. Holds(d)'
    BY <1>2, <2>1, <2>2, <2>6 DEF Holds
  <2>8. TakesPart(w, Line(c).document)'
    BY <1>4, <2>1 DEF TakesPart
  <2>9. Code(c) \in OwnSheets => DOMAIN c.results[Code(c)] = 1..Height(Code(c))
    BY DEF Enrolling
  <2>10. Enrolling(d)'
    BY <1>5, <2>1, <2>2, <2>4, <2>7, <2>8, <2>9 DEF Enrolling
  <2> QED
    BY <2>2, <2>3, <2>5, <2>10 DEF AnswersEnrolling
<1> QED
  BY <1>6, <1>7 DEF AtEnrolment
\* The calls for a participant, and the end of each.
LEMMA PersonsEnrolling ==
  ASSUME TypeInv, KeptInv, ProfessorsStay, NEW c \in BagToSet(pending), c \in ImportCall,
         ImportFits(c), ImportMarks(c), Enrolling(c),
         \/ FindProfessor(c) \/ DeleteUser(c) \/ FindNamesake(c) \/ DeleteNamesake(c)
         \/ FindSchool(c) \/ CreateSchool(c) \/ FindDuplicate(c) \/ CreateUser(c)
         \/ ReadBackup(c)
  PROVE  AnswersEnrolling(c)
<1>1. c.op \in LineOps \ {"replaceTraining"} /\ trainings' = trainings
  BY DEF FindProfessor, DeleteUser, FindNamesake, DeleteNamesake, Delete, FindSchool,
         CreateSchool, FindDuplicate, CreateUser, ReadBackup, LineOps, registryVars
<1>2. EndLine(c, "error") => AnswersEnrolling(c)
  BY <1>1, ErrorEnrolling
<1>3. ASSUME NEW d, d.op \in LineOps \ {"replaceTraining"}, d.job = "import",
             d.training = c.training, d.results = c.results, d.rows = c.rows,
             d.lines = c.lines, d.op = "readBackup" => d.user.document = Line(c).document,
             Continue(c, {d})
      PROVE  AnswersEnrolling(c)
  BY <1>1, <1>3, LineEnrolling
<1>4. ASSUME NEW op \in LineOps \ {"replaceTraining", "readBackup"},
             Continue(c, {[c EXCEPT !.op = op]})
      PROVE  AnswersEnrolling(c)
  <2> DEFINE d == [c EXCEPT !.op = op]
  <2>1. /\ d.op = op /\ d.job = "import" /\ d.training = c.training /\ d.results = c.results
        /\ d.rows = c.rows /\ d.lines = c.lines /\ Continue(c, {d})
    BY <1>4 DEF ImportCall
  <2> HIDE DEF d
  <2> QED
    BY <1>3, <1>4, <2>1
<1>5. ASSUME NEW op \in LineOps \ {"replaceTraining"}, NEW user,
             op = "readBackup" => user.document = Line(c).document,
             Continue(c, {[c EXCEPT !.op = op, !.user = user]})
      PROVE  AnswersEnrolling(c)
  <2> DEFINE d == [c EXCEPT !.op = op, !.user = user]
  <2>1. /\ d.op = op /\ d.job = "import" /\ d.training = c.training /\ d.results = c.results
        /\ d.rows = c.rows /\ d.lines = c.lines /\ d.user = user /\ Continue(c, {d})
    BY <1>5 DEF ImportCall
  <2> HIDE DEF d
  <2> QED
    BY <1>3, <1>5, <2>1
<1>6. ASSUME NEW school, AtCreation(c, school)
      PROVE  AnswersEnrolling(c)
  <2> DEFINE d == [c EXCEPT !.op = "findDuplicate", !.found["school"] = school]
  <2>1. /\ d.op = "findDuplicate" /\ d.job = "import" /\ d.training = c.training
        /\ d.results = c.results /\ d.rows = c.rows /\ d.lines = c.lines
    BY DEF ImportCall
  <2>2. EndLine(c, "error") \/ Continue(c, {d})
    BY <1>6 DEF AtCreation
  <2> HIDE DEF d
  <2> QED
    BY <1>2, <1>3, <2>1, <2>2 DEF LineOps
<1>7. CASE FindProfessor(c)
  <2>1. ASSUME NEW u \in WithDocument(Line(c).document), u.role = "professor", AtEnrolment(c, u)
        PROVE  AnswersEnrolling(c)
    <3>1. Professor(u.id, Line(c).document)
      BY <2>1 DEF WithDocument, Professor
    <3> QED
      BY <1>1, <2>1, <3>1, EnrolmentEnrolling
  <2> QED
    BY <1>4, <1>5, <1>7, <2>1 DEF FindProfessor, LineOps
<1>8. CASE DeleteUser(c) \/ DeleteNamesake(c)
  BY <1>2, <1>5, <1>8 DEF DeleteUser, DeleteNamesake, Delete, LineOps
<1>9. CASE FindNamesake(c)
  BY <1>4, <1>5, <1>9 DEF FindNamesake, LineOps
<1>10. CASE FindSchool(c) \/ CreateSchool(c)
  BY <1>4, <1>6, <1>10 DEF FindSchool, CreateSchool, LineOps
<1>11. CASE FindDuplicate(c)
  BY <1>2, <1>4, <1>11 DEF FindDuplicate, LineOps
<1>12. CASE CreateUser(c)
  <2>1. PICK new : /\ new.document = Line(c).document
                   /\ Continue(c, {[c EXCEPT !.op = "readBackup", !.user = new]})
    BY <1>12 DEF CreateUser
  <2> QED
    BY <1>5, <2>1 DEF LineOps
<1>13. CASE ReadBackup(c)
  <2>1. Professor(c.user.id, Line(c).document)
    <3>1. c.op = "readBackup" /\ c.user.document = Line(c).document
      BY <1>13 DEF ReadBackup, Enrolling
    <3>2. c.user.id \in NewUserIds /\ Known(c.user.id, c.user.document)
      BY <3>1 DEF KeptInv, CallKept
    <3> QED
      BY <3>1, <3>2 DEF Known, WithId, Professor, KeptInv, NewAreProfessors
  <2> QED
    BY <1>1, <1>2, <1>13, <2>1, EnrolmentEnrolling DEF ReadBackup
<1> QED
  BY <1>7, <1>8, <1>9, <1>10, <1>11, <1>12, <1>13

\* The training is written: its participants take part.
LEMMA ReplaceEnrolling ==
  ASSUME Grows, NEW c \in ImportCall, ImportFits(c), ImportMarks(c), Enrolling(c),
         ReplaceTraining(c)
  PROVE  AnswersEnrolling(c)
<1>1. c.op = "replaceTraining" /\ c.training \in trainings' /\ EndLine(c, "success")
  BY DEF ReplaceTraining, Replaced
<1>2. c.op \in LineOps /\ c.training.code = Code(c)
  BY <1>1 DEF Enrolling, HoldingOps, LineOps
<1>3. TakesPart(c.training, Line(c).document)'
  BY <1>1, TakesStay DEF Enrolling, Grows
<1> DEFINE mark == "success"
<1>4. EndLine(c, mark)
  BY <1>1
<1>5. \E t \in WithCode(Code(c))' : TakesPart(t, Line(c).document)'
  BY <1>1, <1>2, <1>3 DEF WithCode
<1> HIDE DEF mark
<1>6. \E t \in trainings' :
           /\ t.id = c.training.id /\ t.code = c.training.code
           /\ Takers(t) \subseteq Takers(c.training)
           /\ \A id \in Takers(c.training) \ Takers(t) : Code(c) \in OwnSheets =>
                Failed(c, id)' \/ (mark # "success" /\ Professor(id, Line(c).document)')
  BY <1>1
<1> QED
  BY <1>2, <1>4, <1>5, <1>6, EndLineEnrolling

LEMMA ImportEnrolling ==
  ASSUME TypeInv, KeptInv, MarksFit, ProfessorsStay, NEW c \in BagToSet(pending), c \in ImportCall,
         ImportFits(c), ImportMarks(c), Enrolling(c),
         \A sheet \in OwnSheets : Fine(sheet, marks[sheet]["Estado"]),
         AnswerImport(c) \/ FailImport(c)
  PROVE  AnswersEnrolling(c) /\ Grows
<1>1. Grows
  BY ImportGrows
<1>2. CASE FailImport(c) /\ c.op \in LineOps
  <2>1. trainings' = trainings
    BY <1>2 DEF FailImport, registryVars
  <2>2. EndLine(c, "error")
    BY <1>2 DEF FailImport, LineOps, RowOps
  <2> QED
    BY <1>1, <1>2, <2>1, <2>2, ErrorEnrolling
<1>3. CASE \/ ReadImportRows(c) \/ FindTraining(c) \/ FindName(c) \/ CreateName(c)
           \/ CreateTraining(c) \/ ReadImportLines(c) \/ (FailImport(c) /\ c.op \notin LineOps)
  BY <1>1, <1>3, RowsEnrolling
<1>4. CASE \/ FindProfessor(c) \/ DeleteUser(c) \/ FindNamesake(c) \/ DeleteNamesake(c)
           \/ FindSchool(c) \/ CreateSchool(c) \/ FindDuplicate(c) \/ CreateUser(c)
           \/ ReadBackup(c)
  BY <1>1, <1>4, PersonsEnrolling
<1>5. CASE ReplaceTraining(c)
  BY <1>1, <1>5, ReplaceEnrolling
<1> QED
  BY <1>2, <1>3, <1>4, <1>5 DEF AnswerImport
\* Marks of a sheet are changed for others that say no more.
LEMMA FineNext ==
  ASSUME Grows, NEW sheet, NEW seen, Fine(sheet, seen),
         DOMAIN marks'[sheet]["Estado"] = DOMAIN seen,
         \A i \in DOMAIN seen : marks'[sheet]["Estado"][i] = "success" => seen[i] = "success"
  PROVE  Fine(sheet, marks[sheet]["Estado"])'
<1>1. PICK g : g = marks'[sheet]["Estado"]
  OBVIOUS
<1>2. Fine(sheet, g)
  BY <1>1, FineSeen
<1>3. Fine(sheet, g)'
  BY <1>2, FineStays
<1> QED
  BY <1>1, <1>3 DEF Fine, SamePerson

LEMMA FineMarksKept ==
  ASSUME TypeInv, MarksFit, Grows, [MigrationNext]_migrationVars,
         \A sheet \in OwnSheets : Fine(sheet, marks[sheet]["Estado"]),
         \A c \in BagToSet(pending) : c.job = "import" => ImportMarks(c), NEW s \in OwnSheets
  PROVE  Fine(s, marks[s]["Estado"])'
<1>1. marks \in [SheetNames -> [{"Estado", "EmailSent"} -> Seq(Mark)]] /\ s \in SheetNames
  BY OwnAre DEF TypeInv, MigrationTypeOK, SpreadsheetTypeOK
<1> DEFINE seen == marks[s]["Estado"]
<1>2. Fine(s, seen) /\ DOMAIN seen = 1..Height(s)
  BY <1>1 DEF MarksFit
<1>3. CASE marks' = marks
  <2>1. /\ DOMAIN marks'[s]["Estado"] = DOMAIN seen
        /\ \A i \in DOMAIN seen : marks'[s]["Estado"][i] = "success" => seen[i] = "success"
    BY <1>3
  <2> HIDE DEF seen
  <2> QED
    BY <1>2, <2>1, FineNext
<1>4. ASSUME NEW sheet, NEW line, PauseLine(sheet, line)
      PROVE  Fine(s, marks[s]["Estado"])'
  <2>1. PICK column : marks' = [marks EXCEPT ![sheet][column][line] = "paused"]
    BY <1>4 DEF PauseLine
  <2>2. /\ DOMAIN marks'[s]["Estado"] = DOMAIN seen
        /\ \A i \in DOMAIN seen : marks'[s]["Estado"][i] = "success" => seen[i] = "success"
    BY <1>1, <2>1
  <2> HIDE DEF seen
  <2> QED
    BY <1>2, <2>2, FineNext
<1>5. ASSUME NEW c \in BagToSet(pending), WriteBack(c)
      PROVE  Fine(s, marks[s]["Estado"])'
  <2>1. c \in WriteBackCall
    BY <1>5, CallIs DEF WriteBack
  <2>2. marks'[s] = [marks[s] EXCEPT ![Column[c.job]] = Overwritten(@, c.results[s])]
    BY <1>1, <1>5 DEF WriteBack
  <2>3. CASE c.job = "import"
    <3> DEFINE new == c.results[s]
    <3>1. marks'[s]["Estado"] = Overwritten(seen, new)
      BY <1>1, <2>2, <2>3 DEF Column
    <3>2. Fine(s, new) /\ DOMAIN new \in {{}, 1..Height(s)}
      BY <2>3 DEF ImportMarks
    <3> HIDE DEF seen, new
    <3>3. CASE DOMAIN new = {}
      <4>1. /\ DOMAIN marks'[s]["Estado"] = DOMAIN seen
            /\ \A i \in DOMAIN seen : marks'[s]["Estado"][i] = "success" => seen[i] = "success"
        BY <3>1, <3>3 DEF Overwritten
      <4> QED
        BY <1>2, <4>1, FineNext
    <3>4. CASE DOMAIN new = 1..Height(s)
      <4>1. /\ DOMAIN marks'[s]["Estado"] = DOMAIN new
            /\ \A i \in DOMAIN new : marks'[s]["Estado"][i] = "success" => new[i] = "success"
        BY <1>2, <3>1, <3>4 DEF Overwritten
      <4> QED
        BY <3>2, <4>1, FineNext
    <3> QED
      BY <3>2, <3>3, <3>4
  <2>4. CASE c.job # "import"
    <3>1. Column[c.job] = "EmailSent"
      BY <2>1, <2>4 DEF WriteBackCall, Jobs, Column
    <3>2. marks'[s]["Estado"] = seen
      BY <1>1, <2>2, <3>1
    <3>3. /\ DOMAIN marks'[s]["Estado"] = DOMAIN seen
          /\ \A i \in DOMAIN seen : marks'[s]["Estado"][i] = "success" => seen[i] = "success"
      BY <3>2
    <3> HIDE DEF seen
    <3> QED
      BY <1>2, <3>3, FineNext
  <2> QED
    BY <2>3, <2>4
<1> QED
  BY <1>3, <1>4, <1>5
  DEF MigrationNext, MigrationRequest, CatalogueRequest, Work, Reject, Interrupt, OnlyMailing,
      OnlyImporting, OnlyReports, migrationVars

\* What holds of imports whose calls are left as they are.
LEMMA OthersEnrolling ==
  ASSUME ProfessorsStay, trainings' = trainings, NEW calls, NEW new,
         \A c \in calls : c.job = "import" =>
           ImportMarks(c) /\ (c.op # "writeBack" => Enrolling(c)),
         \A d \in new : d.job = "import" =>
           ImportMarks(d)' /\ (d.op # "writeBack" => Enrolling(d)'),
         BagToSet(pending') \subseteq calls \cup new
  PROVE  \A d \in BagToSet(pending') : d.job = "import" =>
           ImportMarks(d)' /\ (d.op # "writeBack" => Enrolling(d)')
<1>1. Grows
  BY DEF Grows
<1>2. ASSUME NEW c \in calls, c.job = "import"
      PROVE  ImportMarks(c)' /\ (c.op # "writeBack" => Enrolling(c)')
  <2>1. ImportMarks(c)'
    BY <1>1, <1>2, MarksStay
  <2>2. ASSUME c.op # "writeBack"
        PROVE  Enrolling(c)'
    BY <1>2, <2>2, EnrollingStays
  <2> QED
    BY <2>1, <2>2
<1> QED
  BY <1>2
LEMMA EnrolledKept ==
  TypeInv /\ AloneInv /\ KeptInv /\ MarksFit /\ EnrolledInv /\ [MigrationNext]_migrationVars
    => EnrolledInv'
<1> DEFINE Calls == \A c \in BagToSet(pending) : c.job = "import" =>
             ImportMarks(c) /\ (c.op # "writeBack" => Enrolling(c))
           CallsNext == \A c \in BagToSet(pending') : c.job = "import" =>
             ImportMarks(c)' /\ (c.op # "writeBack" => Enrolling(c)')
<1> SUFFICES ASSUME TypeInv, AloneInv, KeptInv, MarksFit, EnrolledInv,
                    [MigrationNext]_migrationVars, {"import"} \notin met'
             PROVE  /\ \A s \in OwnSheets : Fine(s, marks[s]["Estado"])'
                    /\ CallsNext
  BY DEF EnrolledInv, OwnSheets, HasSheet
<1>1. IsABag(pending) /\ ProfessorsStay
  BY ProfessorsKeep DEF TypeInv, MigrationTypeOK
<1>2. met \subseteq met'
  BY DEF MigrationNext, MigrationRequest, CatalogueRequest, PauseLine, Work, Reject, Interrupt,
         Meets, migrationVars
<1>3. {"import"} \notin met
  BY <1>2
<1>4. Single("import") /\ Calls /\ \A s \in OwnSheets : Fine(s, marks[s]["Estado"])
  BY <1>3 DEF AloneInv, EnrolledInv
<1> HIDE DEF Calls, CallsNext
<1>5. ASSUME trainings' = trainings, NEW new, BagToSet(pending') \subseteq BagToSet(pending) \cup new,
             \A d \in new : d.job = "import" =>
               ImportMarks(d)' /\ (d.op # "writeBack" => Enrolling(d)')
      PROVE  Grows /\ CallsNext
  <2>1. Grows
    BY <1>1, <1>5 DEF Grows
  <2>2. CallsNext
    BY <1>1, <1>4, <1>5, OthersEnrolling DEF Calls, CallsNext
  <2> QED
    BY <2>1, <2>2
<1>6. ASSUME trainings' = trainings, BagToSet(pending') \subseteq BagToSet(pending)
      PROVE  Grows /\ CallsNext
  <2> DEFINE new == {}
  <2>1. BagToSet(pending') \subseteq BagToSet(pending) \cup new
    BY <1>6
  <2>2. \A d \in new : d.job = "import" =>
          ImportMarks(d)' /\ (d.op # "writeBack" => Enrolling(d)')
    OBVIOUS
  <2> HIDE DEF new
  <2> QED
    BY <1>5, <1>6, <2>1, <2>2
<1>7. CASE MigrationRequest
  <2>1. trainings' = trainings
    BY <1>7 DEF MigrationRequest, MigrateFromExcel, ReportRequest, registryVars
  <2>2. PICK d : /\ Start({d}) /\ d.op \in {"readTrainings", "listUsers", "bySchool", "attendance"}
                 /\ d.job \in {"mails", "import"} => \A s \in SheetNames : d.results[s] = <<>>
    BY <1>7, RequestsKept
  <2>3. ASSUME d.job = "import"
        PROVE  ImportMarks(d)' /\ Enrolling(d)'
    <3>1. \A s \in OwnSheets : d.results[s] = <<>>
      BY <2>2, <2>3, OwnAre
    <3>2. ImportMarks(d)'
      BY <3>1 DEF ImportMarks, Fine
    <3>3. Enrolling(d)'
      BY <2>2 DEF Enrolling, HoldingOps, LineOps
    <3> QED
      BY <3>2, <3>3
  <2> DEFINE new == {d}
  <2>4. BagToSet(pending') \subseteq BagToSet(pending) \cup new
    BY <1>1, <2>2, StartCalls
  <2>5. \A e \in new : e.job = "import" =>
          ImportMarks(e)' /\ (e.op # "writeBack" => Enrolling(e)')
    BY <2>3
  <2> HIDE DEF new
  <2>6. Grows /\ CallsNext
    BY <1>5, <2>1, <2>4, <2>5
  <2> QED
    BY <1>4, <2>6, FineMarksKept DEF Calls
<1>8. CASE \/ \E sheet \in ToSet(Sheets) : \E line \in 1..Height(sheet) : PauseLine(sheet, line)
           \/ CatalogueRequest
           \/ UNCHANGED migrationVars
           \/ Interrupt
  <2>1. trainings' = trainings
    BY <1>8 DEF PauseLine, CatalogueRequest, RemoveSchool, RemoveCompetency, Interrupt, migrationVars, registryVars
  <2>2. BagToSet(pending') \subseteq BagToSet(pending)
    BY <1>8, NoCalls DEF PauseLine, CatalogueRequest, Interrupt, migrationVars
  <2>3. Grows /\ CallsNext
    BY <1>6, <2>1, <2>2
  <2> QED
    BY <1>4, <2>3, FineMarksKept DEF Calls
<1>9. ASSUME NEW c \in BagToSet(pending), Work(c) \/ Reject(c), c \notin CallsOf("import")
      PROVE  Grows /\ CallsNext
  <2>1. trainings' = trainings
    <3>1. ~AnswerImport(c) /\ ~FailImport(c)
      BY <1>9, WhoImports
    <3> QED
      BY <1>9, <3>1 DEF Work, Reject, OnlyMailing, registryVars, ServeReport, FailReport,
         ReadTrainings, ReadSchools, ReadUsers, AnswerReport, Read, FailMail
  <2>2. CASE Continue(c, {})
    <3>1. BagToSet(pending') \subseteq BagToSet(pending) \cup {}
      BY <1>1, <2>2, ContinueCalls
    <3> QED
      BY <1>6, <2>1, <3>1
  <2>3. CASE ~Continue(c, {})
    <3>1. PICK d : d.job = c.job /\ Continue(c, {d})
      BY <1>9, <2>3, StaysInItsJob DEF StaysInJob
    <3>2. c.op # "writeBack"
      BY <1>9, <2>3, StaysInItsJob
    <3>3. d.job # "import"
      BY <1>9, <3>1, <3>2 DEF CallsOf
    <3> DEFINE new == {d}
    <3>4. BagToSet(pending') \subseteq BagToSet(pending) \cup new
      BY <1>1, <3>1, ContinueCalls
    <3>5. \A e \in new : e.job = "import" =>
            ImportMarks(e)' /\ (e.op # "writeBack" => Enrolling(e)')
      BY <3>3
    <3> HIDE DEF new
    <3> QED
      BY <1>5, <2>1, <3>4, <3>5
  <2> QED
    BY <2>2, <2>3
<1>10. ASSUME NEW c \in CallsOf("import"), Work(c) \/ Reject(c)
       PROVE  Grows /\ CallsNext
  <2>1. c \in BagToSet(pending) /\ c.job = "import" /\ c.op # "writeBack"
    BY DEF CallsOf
  <2>2. ~AnswerMail(c) /\ ~FailMail(c) /\ ~ServeReport(c) /\ ~FailReport(c) /\ ~WriteBack(c)
    BY <2>1, WhoMails, WhoReports DEF CallsOf, WriteBack, FailMail
  <2>3. AnswerImport(c) \/ FailImport(c)
    BY <1>10, <2>2 DEF Work, Reject
  <2>4. c \in ImportCall /\ ImportFits(c)
    BY <2>1, <2>3, WhoImports
  <2>5. ImportMarks(c) /\ Enrolling(c)
    BY <1>4, <2>1 DEF Calls
  <2>6. AnswersEnrolling(c) /\ Grows
    BY <1>1, <1>4, <2>1, <2>3, <2>4, <2>5, ImportEnrolling
  <2>7. ASSUME NEW new, Continue(c, new), \A d \in new : d.job = "import" =>
                 ImportMarks(d)' /\ (d.op # "writeBack" => Enrolling(d)')
        PROVE  CallsNext
    <3>1. CallsOf("import")' = {d \in new : d.job = "import" /\ d.op # "writeBack"}
      BY <1>1, <1>4, <2>7, OneCallNext
    <3>2. BagToSet(pending') \subseteq BagToSet(pending) \cup new
      BY <1>1, <2>7, ContinueCalls
    <3> SUFFICES ASSUME NEW d \in BagToSet(pending'), d.job = "import"
                 PROVE  ImportMarks(d)' /\ (d.op # "writeBack" => Enrolling(d)')
      BY DEF CallsNext
    <3>3. CASE d \in new
      BY <2>7, <3>3
    <3>4. CASE d \notin new
      <4>1. d \notin CallsOf("import")'
        BY <3>1, <3>4
      <4>2. d.op = "writeBack"
        BY <4>1 DEF CallsOf
      <4>3. ImportMarks(d)
        BY <1>4, <3>2, <3>4 DEF Calls
      <4>4. ImportMarks(d)'
        BY <2>6, <4>3, MarksStay
      <4> QED
        BY <4>2, <4>4
    <3> QED
      BY <3>3, <3>4
  <2>8. CASE Continue(c, {})
    <3> DEFINE new == {}
    <3>1. \A d \in new : d.job = "import" =>
            ImportMarks(d)' /\ (d.op # "writeBack" => Enrolling(d)')
      OBVIOUS
    <3>2. Continue(c, new)
      BY <2>8
    <3> HIDE DEF new
    <3> QED
      BY <2>6, <2>7, <3>1, <3>2
  <2>9. ASSUME NEW d, Continue(c, {d}), ImportMarks(d)', d.op # "writeBack" => Enrolling(d)'
        PROVE  Grows /\ CallsNext
    <3> DEFINE new == {d}
    <3>1. \A e \in new : e.job = "import" =>
            ImportMarks(e)' /\ (e.op # "writeBack" => Enrolling(e)')
      BY <2>9
    <3>2. Continue(c, new)
      BY <2>9
    <3> HIDE DEF new
    <3> QED
      BY <2>6, <2>7, <3>1, <3>2
  <2> QED
    BY <2>6, <2>8, <2>9 DEF AnswersEnrolling
<1>11. CASE \E c \in BagToSet(pending) : Work(c) \/ Reject(c)
  <2>1. Grows /\ CallsNext
    BY <1>9, <1>10, <1>11
  <2> QED
    BY <1>4, <2>1, FineMarksKept DEF Calls
<1> QED
  BY <1>7, <1>8, <1>11 DEF MigrationNext

LEMMA EnrolledAtStart == MigrationInit => EnrolledInv
<1> SUFFICES ASSUME MigrationInit
             PROVE  EnrolledInv
  OBVIOUS
<1>1. \A sheet \in OwnSheets : marks[sheet]["Estado"] = Blank(sheet)
  BY OwnAre DEF MigrationInit, SpreadsheetInit
<1>2. \A sheet \in OwnSheets : Fine(sheet, marks[sheet]["Estado"])
  BY <1>1 DEF Fine, Blank
<1> QED
  BY <1>2, NoCalls DEF EnrolledInv, MigrationInit

LEMMA EnrolledRows == MigrationSpec => []EnrolledAsMarked
<1> DEFINE Inv == TypeInv /\ AloneInv /\ KeptInv
           Inv2 == MarksFit /\ EnrolledInv
<1>1. Inv /\ Inv2 /\ [MigrationNext]_migrationVars => Inv2'
  BY MarksFitKept, EnrolledKept
<1>2. TypeInv /\ MarksFit /\ EnrolledInv => EnrolledAsMarked
  <2> SUFFICES ASSUME TypeInv, MarksFit, EnrolledInv, {"import"} \notin met,
                      NEW sheet \in OwnSheets, NEW line \in 1..Height(sheet),
                      Marked(sheet, line, "Estado", "success")
               PROVE  \/ \E t \in WithCode(sheet) : Enrolled(t, Lines[sheet][line].document)
                      \/ \E other \in 1..Height(sheet) :
                           /\ SamePerson(sheet, other, line)
                           /\ ~Marked(sheet, other, "Estado", "success")
    BY DEF EnrolledAsMarked
  <2> DEFINE f == marks[sheet]["Estado"]
  <2>1. DOMAIN f = 1..Height(sheet) /\ f[line] = "success" /\ Fine(sheet, f)
    BY OwnAre DEF MarksFit, Marked, EnrolledInv
  <2>2. ASSUME NEW t, TakesPart(t, Lines[sheet][line].document)
        PROVE  Enrolled(t, Lines[sheet][line].document)
    BY <2>2 DEF TakesPart, Takers, Professor, Enrolled, WithId
  <2> HIDE DEF f
  <2>3. \/ \E t \in WithCode(sheet) : TakesPart(t, Lines[sheet][line].document)
        \/ \E other \in 1..Height(sheet) : SamePerson(sheet, other, line) /\ f[other] # "success"
    BY <2>1 DEF Fine
  <2>4. \A other : f[other] # "success" => ~Marked(sheet, other, "Estado", "success")
    BY DEF Marked, f
  <2> QED
    BY <2>2, <2>3, <2>4
<1>3. Inv2 /\ TypeInv => EnrolledAsMarked
  BY <1>2
<1> QED
  BY <1>1, <1>3, EnrolledAtStart, MarksAtStart, KeptHolds, PTL DEF MigrationSpec

\* The marks of the spreadsheet say what was done, whatever fails, whoever
\* pauses rows and wherever the process ends: a row is marked as mailed only if
\* its person was mailed a password or is found to need none, and as imported
\* only if its professor takes part in the training, unless two imports run
\* together or another row of his is not marked.
\* (sendMails, importParticipants, addParticipantToTraining.)
THEOREM MarksSayWhatWasDone == MigrationSpec => []DoneAsMarked
<1>1. MailedAsMarked /\ EnrolledAsMarked => DoneAsMarked
  BY DEF DoneAsMarked
<1> QED
  BY <1>1, MailedRows, EnrolledRows, PTL
=============================================================================
