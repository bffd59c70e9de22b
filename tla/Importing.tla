------------------------------ MODULE Importing ------------------------------
(***************************************************************************)
(* migrateFromExcel of src/training/services/migration.service.ts: the job *)
(* that creates the trainings of the spreadsheet, the semesters,           *)
(* competencies and schools they name, and their participants.             *)
(*                                                                         *)
(* It holds a training in memory while it goes through its participants,   *)
(* and writes back the whole of it for each.  A person who is stored but   *)
(* is no professor is deleted and created anew.                            *)
(***************************************************************************)
EXTENDS Spreadsheet

LineOps ==
  {"findProfessor", "deleteUser", "findNamesake", "deleteNamesake", "findSchool",
   "createSchool", "findDuplicate", "createUser", "readBackup", "replaceTraining"}

RowOps == {"findTraining", "findNames", "createName", "createTraining"}

ImportCall ==
  [op : LineOps \cup RowOps \cup {"readTrainings", "readParticipants"}, job : {"import"},
   rows : SUBSET Nat, lines : SUBSET Nat, results : [SheetNames -> Seq(Mark)],
   training : Training \cup {None}, found : [Catalogues -> EntryIds \cup {None}],
   asked : SUBSET Catalogues, user : User \cup {None}]

-----------------------------------------------------------------------------
(* Faults of the kind this code could have, for the runs to detect. *)
Absent(training, user) == FALSE
Forgetful(c, user) == c.training

NothingFound == [k \in Catalogues |-> None]

\* getEmploymentType: the values of the enum of the spreadsheet are swapped.
EmploymentType == [FULLTIME |-> "partTime", PARTTIME |-> "fullTime"]

NameOf(row, kind) ==
  CASE kind = "semester" -> row.semester
    [] kind = "competency" -> row.competency
    [] kind = "school" -> row.school

Missing(c) == {k \in Catalogues : c.found[k] = None}

\* In this order the missing ones are created.
Rank == [semester |-> 1, competency |-> 2, school |-> 3]

AtNames(c) ==
  [c EXCEPT !.op = IF Missing(c) = {} THEN "createTraining" ELSE "createName"]

\* The training is imported: its row is done, its participants follow.
AtParticipants(c, training) ==
  LET d == [MarkRow(c, "success") EXCEPT !.training = training, !.found = NothingFound] IN
  IF HasSheet(Code(c)) THEN [d EXCEPT !.op = "readParticipants"] ELSE AfterRow(d)

EndLine(c, mark) ==
  Continue(c, {AfterLine([c EXCEPT !.user = None, !.found = NothingFound], mark)})

Takes(training, user) ==
  \E i \in DOMAIN training.participants : training.participants[i].user = user.id

With(c, user) ==
  [c.training EXCEPT !.participants = Append(@,
     [user |-> user.id, attended |-> Line(c).attended])]

\* A professor who takes part already is left alone.
AtEnrolment(c, user) ==
  IF Takes(c.training, user) THEN EndLine(c, "success")
  ELSE Continue(c, {[c EXCEPT !.op = "replaceTraining", !.user = None,
                              !.found = NothingFound, !.training = With(c, user)]})

\* Only after the deletions and the school the type of employment is missed.
AtCreation(c, school) ==
  IF Line(c).fault = "employment" THEN EndLine(c, "error")
  ELSE Continue(c, {[c EXCEPT !.op = "findDuplicate", !.found["school"] = school]})

-----------------------------------------------------------------------------

MigrateFromExcel ==
  /\ Start({[op |-> "readTrainings", job |-> "import", rows |-> {}, lines |-> {},
             results |-> [s \in SheetNames |-> <<>>], training |-> None,
             found |-> NothingFound, asked |-> {}, user |-> None]})
  /\ UNCHANGED registryVars

\* Only paused trainings are left out, the invalid ones are errors at once.
ReadImportRows(c) ==
  LET seen == marks[FirstSheet]["Estado"] IN
  /\ c.op = "readTrainings" /\ c.job = "import"
  /\ Continue(c, IF "Estado" \notin Columns[FirstSheet] THEN {}
       ELSE {AtRow([c EXCEPT
         !.rows = {i \in DOMAIN TrainingRows : seen[i] # "paused" /\ TrainingRows[i].valid},
         !.results[FirstSheet] = [i \in DOMAIN seen |->
            IF seen[i] = "paused" \/ TrainingRows[i].valid THEN seen[i] ELSE "error"]])})
  /\ UNCHANGED registryVars

FindTraining(c) ==
  /\ c.op = "findTraining"
  /\ \/ /\ WithCode(Code(c)) = {}
        /\ Continue(c, {[c EXCEPT !.op = "findNames", !.asked = Catalogues]})
     \/ \E training \in WithCode(Code(c)) : Continue(c, {AtParticipants(c, training)})
  /\ UNCHANGED registryVars

\* The three catalogues are asked together and answer in any order.
FindName(c) ==
  /\ c.op = "findNames"
  /\ \E kind \in c.asked :
       LET named == Called(kind, NameOf(TrainingRow(c), kind)) IN
       \E id \in IF named = {} THEN {None} ELSE {e.id : e \in named} :
         LET d == [c EXCEPT !.asked = @ \ {kind}, !.found[kind] = id] IN
         Continue(c, {IF d.asked = {} THEN AtNames(d) ELSE d})
  /\ UNCHANGED registryVars

CreateName(c) ==
  /\ c.op = "createName"
  /\ \E kind \in Missing(c) : \E id \in UnusedEntries(kind) :
       /\ \A k \in Missing(c) : Rank[kind] <= Rank[k]
       /\ AddEntry(kind, id, NameOf(TrainingRow(c), kind))
       /\ Continue(c, {AtNames([c EXCEPT !.found[kind] = id])})
  /\ UNCHANGED <<users, trainings, removed, backup>>

CreateTraining(c) ==
  /\ c.op = "createTraining"
  /\ \E id \in TrainingIds \ {t.id : t \in trainings} :
       LET new == [id |-> id, code |-> Code(c), type |-> TrainingRow(c).type,
                   semester |-> c.found["semester"], competency |-> c.found["competency"],
                   organizer |-> c.found["school"], participants |-> <<>>] IN
       /\ trainings' = trainings \cup {new}
       /\ Continue(c, {AtParticipants(c, new)})
  /\ UNCHANGED <<users, catalogue, removed, backup>>

\* Rows that are invalid or have no type of document are errors at once.
ReadImportLines(c) ==
  /\ c.job = "import"
  /\ ReadParticipants(c, LAMBDA line : line.fault \in {"fields", "document"})
  /\ UNCHANGED registryVars

FindProfessor(c) ==
  LET found == WithDocument(Line(c).document) IN
  /\ c.op = "findProfessor"
  /\ \/ found = {} /\ Continue(c, {[c EXCEPT !.op = "findNamesake"]})
     \/ \E u \in found :
          IF u.role = "professor" THEN AtEnrolment(c, u)
          ELSE Continue(c, {[c EXCEPT !.op = "deleteUser", !.user = u]})
  /\ UNCHANGED registryVars

\* The delete of a user that is not there any more is refused.
Delete(c, op, next) ==
  /\ c.op = op
  /\ users' = users \ WithId(c.user.id)
  /\ IF WithId(c.user.id) = {} THEN EndLine(c, "error")
     ELSE Continue(c, {[c EXCEPT !.op = next, !.user = None]})
  /\ UNCHANGED <<trainings, catalogue, removed, backup>>

DeleteUser(c) == Delete(c, "deleteUser", "findNamesake")

FindNamesake(c) ==
  LET found == WithEmail(Line(c).email)
      next == [c EXCEPT !.op = "findSchool"]
  IN /\ c.op = "findNamesake"
     /\ \/ found = {} /\ Continue(c, {next})
        \/ \E u \in found : Continue(c,
             {IF u.role = "professor" THEN next
              ELSE [c EXCEPT !.op = "deleteNamesake", !.user = u]})
     /\ UNCHANGED registryVars

DeleteNamesake(c) == Delete(c, "deleteNamesake", "findSchool")

FindSchool(c) ==
  LET found == Called("school", Line(c).school) IN
  /\ c.op = "findSchool"
  /\ \/ found = {} /\ Continue(c, {[c EXCEPT !.op = "createSchool"]})
     \/ \E e \in found : AtCreation(c, e.id)
  /\ UNCHANGED registryVars

CreateSchool(c) ==
  /\ c.op = "createSchool"
  /\ \E id \in UnusedEntries("school") :
       AddEntry("school", id, Line(c).school) /\ AtCreation(c, id)
  /\ UNCHANGED <<users, trainings, removed, backup>>

\* UsersRepository.create checks the country, then for duplicates, which are
\* accepted for the text 'Tiempo Completo' in the place of an address.
FindDuplicate(c) ==
  LET line == Line(c)
      twice == Duplicates(line.email, line.document) # {} /\ line.email.address # Misplaced
  IN /\ c.op = "findDuplicate"
     /\ IF line.fault = "country" \/ twice THEN EndLine(c, "error")
        ELSE Continue(c, {[c EXCEPT !.op = "createUser"]})
     /\ UNCHANGED registryVars

CreateUser(c) ==
  /\ c.op = "createUser"
  /\ \E id \in NewUserIds \ {u.id : u \in users} :
       LET line == Line(c)
           new == [id |-> id, document |-> line.document, email |-> line.email,
                   password |-> 0, role |-> "professor", school |-> c.found["school"],
                   employment |-> EmploymentType[line.employment],
                   excluded |-> line.excluded] IN
       /\ users' = users \cup {new}
       /\ Continue(c, {[c EXCEPT !.op = "readBackup", !.user = new]})
  /\ UNCHANGED <<trainings, catalogue, removed, backup>>

\* syncUsersLocalBackup reads the file of updateMails; it writes another one,
\* which nothing reads.
ReadBackup(c) ==
  /\ c.op = "readBackup"
  /\ IF backup THEN AtEnrolment(c, c.user) ELSE EndLine(c, "error")
  /\ UNCHANGED registryVars

ReplaceTraining(c) ==
  /\ c.op = "replaceTraining"
  /\ trainings' = Replaced(trainings, c.training)
  /\ EndLine(c, "success")
  /\ UNCHANGED <<users, catalogue, removed, backup>>

AnswerImport(c) ==
  \/ ReadImportRows(c) \/ FindTraining(c) \/ FindName(c) \/ CreateName(c)
  \/ CreateTraining(c) \/ ReadImportLines(c) \/ FindProfessor(c) \/ DeleteUser(c)
  \/ FindNamesake(c) \/ DeleteNamesake(c) \/ FindSchool(c) \/ CreateSchool(c)
  \/ FindDuplicate(c) \/ CreateUser(c) \/ ReadBackup(c) \/ ReplaceTraining(c)

\* A rejected call is an error of its participant or of its training; while
\* the sheets are read it is the end of the job.
FailImport(c) ==
  /\ c.op # "writeBack"
  /\ c.job = "import"
  /\ \/ c.op \in LineOps /\ EndLine(c, "error")
     \/ /\ c.op \in RowOps
        /\ Continue(c, {AfterRow([MarkRow(c, "error") EXCEPT
             !.found = NothingFound, !.asked = {}])})
     \/ c.op \in {"readTrainings", "readParticipants"} /\ Continue(c, {})
  /\ UNCHANGED registryVars
=============================================================================
