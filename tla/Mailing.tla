------------------------------- MODULE Mailing -------------------------------
(***************************************************************************)
(* sendMails and updateMails of src/training/services/migration.service.ts *)
(* (POST trainings/migrate and trainings/update-mails): the job that gives *)
(* a new password to the users of the spreadsheet whose address is not     *)
(* stored, and mails it to them; and the job that normalizes all stored    *)
(* addresses.                                                              *)
(*                                                                         *)
(* A job is one call at a time, with the state it holds in memory.  What   *)
(* protects a user from a second mail is a file, already-users.json, that  *)
(* is read and rewritten after each mail.                                  *)
(***************************************************************************)
EXTENDS Spreadsheet, FiniteSets

VARIABLES
  processed,  \* the users in already-users.json,
  readable,   \*   and whether it holds what was written to it
  issued,     \* passwords generated so far, which are numbered
  \* History:
  mails,      \* the mails with passwords,
  halfway,    \* users whose processing stopped after the password was replaced
  excused     \* rows of which sendEmail has found that no mail is due

mailingVars == <<processed, readable, issued, mails, halfway, excused>>

Mail == [user : UserIds, document : Documents \cup {None}, password : Nat, to : Email]

Results == [SheetNames -> Seq(Mark)]

MailOps ==
  {"readTrainings", "readParticipants", "readProcessed", "findAddress", "findDocument",
   "readForPassword", "replacePassword", "readForEmail", "replaceEmail", "sendMail",
   "readForAppend", "writeAppend"}

MailCall ==
  [op : MailOps, job : {"mails"}, rows : SUBSET Nat, lines : SUBSET Nat, results : Results,
   user : User \cup {None}, copy : User \cup {None}, list : SUBSET UserIds, password : Nat]

AddressCall ==
  [op : {"listUsers", "writeUsers", "readUser", "replaceAddress"}, job : {"addresses"},
   left : SUBSET [id : UserIds, email : Email], copy : User \cup {None}]

WriteBackCall == [op : {"writeBack"}, job : Jobs, results : Results]

MailingTypeOK ==
  /\ processed \subseteq UserIds
  /\ readable \in BOOLEAN
  /\ issued \in Nat
  /\ mails \subseteq Mail
  /\ halfway \subseteq UserIds
  /\ excused \subseteq ToSet(Sheets) \X Nat

MailingInit ==
  /\ processed = {} /\ readable = TRUE /\ issued = 0
  /\ mails = {} /\ halfway = {} /\ excused = {}

-----------------------------------------------------------------------------
(* Faults of the kind this code could have, for the runs to detect. *)
AnyUser(c, user) == FALSE
OldPassword(c) == c.copy

Processed(c, user) == user.id \in c.list

WithNewPassword(c) == [c.copy EXCEPT !.password = c.password]

\* The next row after this one; what the job knew of its user is gone.
EndMail(c, mark) ==
  Continue(c, {AfterLine([c EXCEPT !.user = None, !.copy = None, !.list = {}, !.password = 0],
                         mark)})

\* The calls after which a failure leaves the user with a password that was
\* not mailed or a mail that was not recorded.
HalfwayOps == {"readForEmail", "replaceEmail", "sendMail", "readForAppend", "writeAppend"}

Halfway(calls) ==
  {c.user.id : c \in {d \in calls : d.op \in HalfwayOps}}

-----------------------------------------------------------------------------

SendMails ==
  /\ Start({[op |-> "readTrainings", job |-> "mails", rows |-> {}, lines |-> {},
             results |-> [s \in SheetNames |-> <<>>],
             user |-> None, copy |-> None, list |-> {}, password |-> 0]})
  /\ UNCHANGED mailingVars

UpdateMails ==
  /\ Start({[op |-> "listUsers", job |-> "addresses", left |-> {}, copy |-> None]})
  /\ UNCHANGED mailingVars

\* Trainings are marked as done before anything is done for them, and those
\* without a sheet of their own are done with that.
ReadMailRows(c) ==
  LET seen == marks[FirstSheet]["EmailSent"]
      open == {i \in DOMAIN TrainingRows : ~Done(seen[i]) /\ HasSheet(TrainingRows[i].code)}
  IN /\ c.op = "readTrainings" /\ c.job = "mails"
     /\ Continue(c, IF "EmailSent" \notin Columns[FirstSheet] THEN {}
          ELSE {AtRow([c EXCEPT !.rows = open, !.results[FirstSheet] =
                  [i \in DOMAIN seen |-> IF seen[i] = "paused" THEN "paused" ELSE "success"]])})
     /\ UNCHANGED mailingVars

ReadMailLines(c) ==
  /\ c.job = "mails"
  /\ ReadParticipants(c, LAMBDA line : FALSE)
  /\ UNCHANGED mailingVars

ReadProcessed(c) ==
  /\ c.op = "readProcessed"
  /\ IF ~readable \/ Line(c).fault = "fields" THEN EndMail(c, "error")
     ELSE Continue(c, {[c EXCEPT !.op = "findAddress", !.list = processed]})
  /\ UNCHANGED mailingVars

NoMailDue(c) ==
  /\ excused' = excused \cup {<<RowsSheet(Code(c)), Min(c.lines)>>}
  /\ EndMail(c, "success")

FindAddress(c) ==
  /\ c.op = "findAddress"
  /\ IF WithEmail(Normal(Line(c).email)) # {} THEN NoMailDue(c)
     ELSE Continue(c, {[c EXCEPT !.op = "findDocument"]}) /\ UNCHANGED excused
  /\ UNCHANGED <<processed, readable, issued, mails, halfway>>

\* Only documents of the type DNI are looked for.
FindDocument(c) ==
  LET found == WithDocument([Line(c).document EXCEPT !.type = "DNI"]) IN
  /\ c.op = "findDocument"
  /\ \/ found = {} /\ NoMailDue(c) /\ UNCHANGED issued
     \/ \E user \in found :
          /\ \/ /\ Processed(c, user)
                /\ EndMail(c, "success") /\ UNCHANGED issued
             \/ /\ ~Processed(c, user) /\ Line(c).fault = "address"
                /\ EndMail(c, "error") /\ UNCHANGED issued
             \/ /\ ~Processed(c, user) /\ Line(c).fault # "address"
                /\ issued' = issued + 1
                /\ Continue(c, {[c EXCEPT !.op = "readForPassword", !.user = user,
                                          !.list = {}, !.password = issued']})
          /\ UNCHANGED excused
  /\ UNCHANGED <<processed, readable, mails, halfway>>

\* updatePassword and updateEmail each read the user and replace all of it.
ReadUserFor(c, op, next) ==
  /\ c.op = op
  /\ \/ WithId(c.user.id) = {} /\ EndMail(c, "error")
     \/ \E u \in WithId(c.user.id) : Continue(c, {[c EXCEPT !.op = next, !.copy = u]})

ReadForPassword(c) ==
  ReadUserFor(c, "readForPassword", "replacePassword") /\ UNCHANGED <<users, mailingVars>>

ReplacePassword(c) ==
  /\ c.op = "replacePassword"
  /\ IF WithId(c.user.id) = {} THEN EndMail(c, "error") /\ UNCHANGED users
     ELSE /\ users' = Replaced(users, WithNewPassword(c))
          /\ Continue(c, {[c EXCEPT !.op = "readForEmail", !.copy = None]})
  /\ UNCHANGED mailingVars

ReadForEmail(c) ==
  /\ ReadUserFor(c, "readForEmail", "replaceEmail")
  /\ halfway' = halfway \cup (IF WithId(c.user.id) = {} THEN {c.user.id} ELSE {})
  /\ UNCHANGED <<users, processed, readable, issued, mails, excused>>

\* The second argument of updateEmail is the password, not an address.
ReplaceEmail(c) ==
  /\ c.op = "replaceEmail"
  /\ IF WithId(c.user.id) = {}
     THEN EndMail(c, "error") /\ halfway' = halfway \cup {c.user.id} /\ UNCHANGED users
     ELSE /\ users' = Replaced(users,
               [c.copy EXCEPT !.email = [address |-> Misplaced, form |-> "digits"]])
          /\ Continue(c, {[c EXCEPT !.op = "sendMail", !.copy = None]})
          /\ UNCHANGED halfway
  /\ UNCHANGED <<processed, readable, issued, mails, excused>>

\* The mail goes to the address the user had when it was found.
SendMail(c) ==
  /\ c.op = "sendMail"
  /\ mails' = mails \cup {[user |-> c.user.id, document |-> c.user.document,
                           password |-> c.password, to |-> c.user.email]}
  /\ Continue(c, {[c EXCEPT !.op = "readForAppend"]})
  /\ UNCHANGED <<users, processed, readable, issued, halfway, excused>>

ReadForAppend(c) ==
  /\ c.op = "readForAppend"
  /\ Continue(c, {[c EXCEPT !.op = "writeAppend", !.list = processed]})
  /\ UNCHANGED <<users, mailingVars>>

WriteAppend(c) ==
  /\ c.op = "writeAppend"
  /\ processed' = c.list \cup {c.user.id}
  /\ readable' = TRUE
  /\ EndMail(c, "success")
  /\ UNCHANGED <<users, issued, mails, halfway, excused>>

-----------------------------------------------------------------------------
(* updateMails *)

AtUser(c) == IF c.left = {} THEN {} ELSE {[c EXCEPT !.op = "readUser"]}

ListUsers(c) ==
  /\ c.op = "listUsers"
  /\ Continue(c, {[c EXCEPT !.op = "writeUsers", !.left =
       {[id |-> u.id, email |-> Normal(u.email)] :
          u \in {v \in users : v.email # Normal(v.email)}}]})
  /\ UNCHANGED <<users, mailingVars>>

WriteUsers(c) ==
  /\ c.op = "writeUsers"
  /\ backup' = TRUE
  /\ Continue(c, AtUser(c))
  /\ UNCHANGED <<users, mailingVars>>

\* A user that is not there any more ends the job.
ReadUser(c) ==
  /\ c.op = "readUser"
  /\ \E w \in c.left :
       \/ WithId(w.id) = {} /\ Continue(c, {})
       \/ \E u \in WithId(w.id) :
            Continue(c, {[c EXCEPT !.op = "replaceAddress", !.left = @ \ {w},
                                   !.copy = [u EXCEPT !.email = w.email]]})
  /\ UNCHANGED <<users, mailingVars>>

ReplaceAddress(c) ==
  /\ c.op = "replaceAddress"
  /\ IF WithId(c.copy.id) = {} THEN Continue(c, {}) /\ UNCHANGED users
     ELSE /\ users' = Replaced(users, c.copy)
          /\ Continue(c, AtUser([c EXCEPT !.copy = None]))
  /\ UNCHANGED mailingVars

-----------------------------------------------------------------------------

AnswerMail(c) ==
  \/ (ReadMailRows(c) \/ ReadMailLines(c) \/ ReadProcessed(c)
        \/ FindAddress(c) \/ FindDocument(c)) /\ UNCHANGED <<users, backup>>
  \/ (ReadForPassword(c) \/ ReplacePassword(c) \/ ReadForEmail(c) \/ ReplaceEmail(c)
        \/ SendMail(c) \/ ReadForAppend(c) \/ WriteAppend(c)
        \/ ListUsers(c) \/ ReadUser(c) \/ ReplaceAddress(c)) /\ UNCHANGED backup
  \/ WriteUsers(c)

\* Any call may be rejected: for a participant this is an error in its row;
\* before that, and in updateMails, it is the end of the job.
FailMail(c) ==
  /\ c.op # "writeBack"
  /\ \/ /\ c.job = "mails" /\ c.lines # {}
        /\ EndMail(c, "error")
        /\ halfway' = halfway \cup Halfway({c})
     \/ /\ c.job = "mails" => c.lines = {}
        /\ c.job \in {"mails", "addresses"}
        /\ Continue(c, {})
        /\ UNCHANGED halfway
  /\ UNCHANGED <<users, processed, readable, backup, issued, mails, excused>>

\* The process ends; a file that was being written may be left cut off.
LoseMails ==
  LET writing(op) == \E c \in BagToSet(pending) : c.op = op IN
  /\ readable' \in (IF writing("writeAppend") THEN {readable, FALSE} ELSE {readable})
  /\ backup' \in (IF writing("writeUsers") THEN {backup, FALSE} ELSE {backup})
  /\ halfway' = halfway \cup Halfway(BagToSet(pending))
  /\ UNCHANGED <<processed, issued, mails, excused>>
=============================================================================
