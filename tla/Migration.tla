------------------------------ MODULE Migration ------------------------------
(***************************************************************************)
(* The jobs on the spreadsheet and the reports, in the one process that    *)
(* runs them: a job may be started again while it runs, or after it has    *)
(* ended in the middle, and a report may be drawn meanwhile.               *)
(***************************************************************************)
EXTENDS Mailing, Importing, Reports

VARIABLE met  \* the pairs of requests, by kind, that were under way together

migrationVars == <<registryVars, mailingVars, marks, met, pending>>

Kinds == {"mails", "addresses", "import", "report"}

UnderWay == {c.job : c \in {d \in BagToSet(pending) : d.op # "writeBack"}}

MigrationTypeOK ==
  /\ RegistryTypeOK /\ SpreadsheetTypeOK /\ MailingTypeOK
  /\ met \subseteq SUBSET Kinds
  /\ IsABag(pending)
  /\ BagToSet(pending) \subseteq
       MailCall \cup AddressCall \cup ImportCall \cup WriteBackCall \cup ReportCall

MigrationInit ==
  /\ RegistryInit /\ SpreadsheetInit /\ MailingInit
  /\ met = {}
  /\ pending = EmptyBag

Meets(kind) == met' = met \cup {{kind, k} : k \in UnderWay}

OnlyMailing == UNCHANGED <<trainings, catalogue, removed, marks>>
OnlyImporting ==
  UNCHANGED <<processed, readable, issued, mails, halfway, excused, marks>>
OnlyReports == UNCHANGED <<mailingVars, marks>>

MigrationRequest ==
  \/ /\ \/ SendMails /\ Meets("mails")
        \/ UpdateMails /\ Meets("addresses")
     /\ UNCHANGED <<registryVars, marks>>
  \/ /\ MigrateFromExcel /\ Meets("import")
     /\ OnlyImporting
  \/ ReportRequest /\ Meets("report") /\ OnlyReports

\* Somebody pauses a row of the spreadsheet.
PauseLine(sheet, line) ==
  /\ \E column \in Columns[sheet] :
       marks' = [marks EXCEPT ![sheet][column][line] = "paused"]
  /\ UNCHANGED <<registryVars, mailingVars, met, pending>>

CatalogueRequest ==
  /\ RemoveSchool \/ RemoveCompetency
  /\ UNCHANGED <<mailingVars, marks, met, pending>>

Work(c) ==
  /\ \/ AnswerMail(c) /\ OnlyMailing
     \/ AnswerImport(c) /\ OnlyImporting
     \/ WriteBack(c) /\ UNCHANGED <<registryVars, mailingVars>>
     \/ ServeReport(c) /\ OnlyReports
  /\ UNCHANGED met

Reject(c) ==
  /\ \/ FailMail(c) /\ OnlyMailing
     \/ FailImport(c) /\ OnlyImporting
     \/ FailReport(c) /\ OnlyReports
  /\ UNCHANGED met

\* The process ends, for whatever reason or because the write of the marks,
\* which nobody awaits, was rejected; and starts again.
Interrupt ==
  /\ pending # EmptyBag
  /\ pending' = EmptyBag
  /\ LoseMails
  /\ UNCHANGED <<users, trainings, catalogue, removed, marks, met>>

MigrationNext ==
  \/ MigrationRequest
  \/ \E sheet \in ToSet(Sheets) : \E line \in 1..Height(sheet) : PauseLine(sheet, line)
  \/ CatalogueRequest
  \/ \E c \in BagToSet(pending) : Work(c) \/ Reject(c)
  \/ Interrupt

MigrationSpec == MigrationInit /\ [][MigrationNext]_migrationVars

-----------------------------------------------------------------------------
(* Safety. *)

\* A user is mailed a password once, however often the mails are sent and
\* wherever the job fails or the process ends, unless it was between the new
\* password and the record of the mail, or two jobs sent mails together.
\* (sendEmail, appendProcessedUser.)
OneMailEach ==
  {"mails"} \notin met =>
    \A m, n \in mails : m.user = n.user /\ m # n => m.user \in halfway

\* The password a user was mailed is the one that is stored, whatever is done
\* to the user later, unless his processing stopped halfway or another job
\* replaced users meanwhile.
\* (updatePassword, updateEmail: each reads and replaces the whole user.)
MailedPasswordWorks ==
  met \cap {{"mails"}, {"mails", "addresses"}} = {} =>
    \A m \in mails : m.user \notin halfway =>
      \A u \in WithId(m.user) : u.password = m.password

InHand(user) ==
  \E c \in BagToSet(pending) : c.op \in HalfwayOps /\ c.user.id = user

\* REFUTED. What the mail says: the address it is sent to and the password it
\* names are those of an account, unless the user's processing stopped halfway
\* or is under way, or jobs ran together.  (sendNewAccountWithPassword,
\* updateEmail, which stores the password in the place of the address.)
MailedUserSignsIn ==
  met = {} =>
    \A m \in mails : m.user \notin halfway /\ ~InHand(m.user) =>
      \E u \in users : u.email = m.to /\ u.password = m.password

\* Sheets whose rows the jobs read for their own training.
OwnSheets == {code \in Codes : HasSheet(code) /\ RowsSheet(code) = code}

Marked(sheet, line, column, mark) ==
  column \in Columns[sheet] /\ marks[sheet][column][line] = mark

\* A row that is marked as mailed is that of a person who was mailed a
\* password, or of whom sendEmail has found that his address is stored or that
\* he is no user; for sheets whose names include no later one.
\* (sendMails: the marks of a whole sheet are written at the end.)
MailedAsMarked ==
  \A sheet \in OwnSheets : \A line \in 1..Height(sheet) :
    Marked(sheet, line, "EmailSent", "success") =>
      \/ <<sheet, line>> \in excused
      \/ \E m \in mails : m.document = [Lines[sheet][line].document EXCEPT !.type = "DNI"]

Enrolled(training, document) ==
  \E i \in DOMAIN training.participants : \E u \in WithId(training.participants[i].user) :
    u.document = document

\* Two rows of a sheet for the same person.
SamePerson(sheet, i, j) == Lines[sheet][i].document = Lines[sheet][j].document

\* A row that is marked as imported is that of a professor who takes part in
\* the training of the sheet, unless two imports ran together; or unless he has
\* another row that is not marked: when that one failed at the write of the
\* training, he takes part in the training the import holds, and in no other.
\* (addParticipantToTraining: the training is written from memory each time.)
EnrolledAsMarked ==
  {"import"} \notin met =>
    \A sheet \in OwnSheets : \A line \in 1..Height(sheet) :
      Marked(sheet, line, "Estado", "success") =>
        \/ \E t \in WithCode(sheet) : Enrolled(t, Lines[sheet][line].document)
        \/ \E other \in 1..Height(sheet) :
             SamePerson(sheet, other, line) /\ ~Marked(sheet, other, "Estado", "success")

\* The marks of the spreadsheet, of either job, say what was done.
DoneAsMarked == MailedAsMarked /\ EnrolledAsMarked

\* Nobody takes part in a training twice, even if imports run together or are
\* repeated after failures.  (addParticipantToTraining.)
ParticipantsOnce ==
  \A t \in trainings : \A i, j \in DOMAIN t.participants :
    t.participants[i].user = t.participants[j].user => i = j

\* Imports leave one training for each code, one user for each document and
\* one school, competency and semester for each name, unless they run
\* together; semesters, which are stored in upper case and trimmed but looked
\* for as they are written, also unless they are written in another way.
\* (importTraining, addParticipantToTraining.)
CatalogueUnlessRaced ==
  {"import"} \notin met =>
    /\ \A s, t \in trainings : s.code = t.code => s = t
    /\ \A u, v \in users : u.document = v.document /\ u # v => u.document = None
    /\ \A kind \in Catalogues : \A d, e \in catalogue[kind] :
         d.name = e.name /\ d # e =>
           kind = "semester" /\ \E i \in DOMAIN TrainingRows :
             LET written == TrainingRows[i].semester IN
             written # Stored(kind, written) /\ written.letters = d.name.letters

\* The participants of the trainings a report has read who have no school, as
\* far as it has read them.
WithoutSchool(c) ==
  {u \in c.users : u.school = None /\
     \E t \in c.trainings : \E p \in ToSet(t.participants) : p.user = u.id}

\* A report fails only if a school was removed or an import ran meanwhile, or
\* for a participant (in the report by school, a professor) without a school.
\* (getProfessorParticipationBySchool, getAsistanceBySchool.)
ReportsAnswered ==
  removed = {} /\ {"import", "report"} \notin met =>
    \A c \in BagToSet(pending) : c.job = "report" /\ c.asked = {} =>
      IF c.op = "bySchool"
      THEN BySchool(c.trainings, c.schools, c.users).failed =>
             ForReports(WithoutSchool(c)) # {}
      ELSE AttendanceFails(c.trainings, c.schools, c.users) => WithoutSchool(c) # {}
=============================================================================
