----------------------------- MODULE Spreadsheet -----------------------------
(***************************************************************************)
(* The spreadsheet from which trainings are imported and mails are sent,   *)
(* and the walk over it that both jobs of src/training/services/           *)
(* migration.service.ts take: over the rows of the first sheet, one for    *)
(* each training, and for each training over the rows of the sheet of its  *)
(* participants.  Rows that are marked as done or paused are left out; all *)
(* marks are written at the end, in one call that nobody awaits.           *)
(*                                                                         *)
(* The marks are written to the sheet named as the training's code; the    *)
(* rows are read from the first sheet whose name includes the code, which  *)
(* for the code C1 may be the sheet C10.                                   *)
(***************************************************************************)
EXTENDS Registry, Calls

CONSTANTS
  FirstSheet,    \* the name of the sheet of trainings
  Sheets,        \* the names of the sheets of participants, in order
  Including,     \* for each code, the names of sheets that include it
  TrainingRows,  \* the rows of the sheet of trainings
  Lines,         \* for each sheet of participants, its rows
  Columns        \* for each sheet, the columns for marks that it has

SheetNames == {FirstSheet} \cup ToSet(Sheets)

Mark == {"blank", "success", "paused", "error"}

\* The column for the marks of each job, its first call for a training and its
\* first call for a participant.
Column == [mails |-> "EmailSent", import |-> "Estado"]
RowOp == [mails |-> "readParticipants", import |-> "findTraining"]
LineOp == [mails |-> "readProcessed", import |-> "findProfessor"]

Jobs == DOMAIN Column

Height(sheet) == IF sheet = FirstSheet THEN Len(TrainingRows) ELSE Len(Lines[sheet])

HasSheet(code) == code \in ToSet(Sheets)

RowsSheet(code) == Sheets[SelectInSeq(Sheets, LAMBDA s : s \in Including[code])]

SheetRow ==
  [code : Codes, type : {"extra", "scheduled"}, semester : Name, competency : Name,
   school : Name, valid : BOOLEAN]

\* What is wrong with a row, if anything.
Fault == {"none", "fields", "document", "employment", "country", "address"}

SheetLine ==
  [document : Documents, email : Email, school : Name, employment : {"FULLTIME", "PARTTIME"},
   attended : BOOLEAN, excluded : BOOLEAN, fault : Fault]

\* Sheets have different names; that of the first is no code.
ASSUME SpreadsheetAssumption ==
  /\ FirstSheet \notin Codes \cup ToSet(Sheets)
  /\ Sheets \in Seq(ToSet(Sheets))
  /\ Including \in [Codes -> SUBSET ToSet(Sheets)]
  /\ TrainingRows \in Seq(SheetRow)
  /\ Lines \in [ToSet(Sheets) -> Seq(SheetLine)]
  /\ Columns \in [SheetNames -> SUBSET {"Estado", "EmailSent"}]

\* Marks never reach below the rows of a sheet.
ASSUME RowsFit ==
  \A code \in Codes : HasSheet(code) =>
    /\ code \in Including[code]
    /\ Height(RowsSheet(code)) <= Height(code)

VARIABLE marks  \* for each sheet and column, the marks of its rows

SpreadsheetTypeOK ==
  marks \in [SheetNames -> [{"Estado", "EmailSent"} -> Seq(Mark)]]

Blank(sheet) == [i \in 1..Height(sheet) |-> "blank"]

SpreadsheetInit == marks = [s \in SheetNames |-> [c \in {"Estado", "EmailSent"} |-> Blank(s)]]

-----------------------------------------------------------------------------
(* Faults of the kind this code could have, for the runs to detect. *)
Successful(c, mark) ==
  [c EXCEPT !.results[TrainingRows[Min(c.rows)].code][Min(c.lines)] = "success"]

Done(mark) == mark \in {"success", "paused"}

\* The training and the participant a job is at: the first of those left.
TrainingRow(c) == TrainingRows[Min(c.rows)]
Code(c) == TrainingRow(c).code
Line(c) == Lines[RowsSheet(Code(c))][Min(c.lines)]

\* Of each sheet that was reached, the marks of all its rows, in order; a
\* row that is left out keeps its mark.
Overwritten(old, new) == [i \in DOMAIN old |-> IF i \in DOMAIN new THEN new[i] ELSE old[i]]

ToWriteBack(c) == [op |-> "writeBack", job |-> c.job, results |-> c.results]

\* The next call of a job, for its first remaining training, if any.
AtRow(c) == IF c.rows = {} THEN ToWriteBack(c) ELSE [c EXCEPT !.op = RowOp[c.job]]

AfterRow(c) == AtRow([c EXCEPT !.rows = @ \ {Min(@)}, !.lines = {}])

\* The same for its first remaining participant.
AtLine(c) == IF c.lines = {} THEN AfterRow(c) ELSE [c EXCEPT !.op = LineOp[c.job]]

MarkLine(c, mark) == [c EXCEPT !.results[Code(c)][Min(c.lines)] = mark]

AfterLine(c, mark) == AtLine([MarkLine(c, mark) EXCEPT !.lines = @ \ {Min(@)}])

MarkRow(c, mark) == [c EXCEPT !.results[FirstSheet][Min(c.rows)] = mark]

-----------------------------------------------------------------------------

\* Without the column the job ends with an error, and nothing is marked,
\* whatever it has done for the trainings before.
ReadParticipants(c, Refused(_)) ==
  LET sheet == RowsSheet(Code(c))
      seen == marks[sheet][Column[c.job]]
      errors == [i \in DOMAIN seen |->
                   IF ~Done(seen[i]) /\ Refused(Lines[sheet][i]) THEN "error" ELSE seen[i]]
      open == {i \in 1..Height(sheet) : ~Done(seen[i]) /\ ~Refused(Lines[sheet][i])}
  IN /\ c.op = "readParticipants"
     /\ Continue(c, IF Column[c.job] \notin Columns[sheet] THEN {}
                    ELSE {AtLine([c EXCEPT !.results[Code(c)] = errors, !.lines = open])})

\* updateColumnInBatch, which the answer does not wait for.
WriteBack(c) ==
  /\ c.op = "writeBack"
  /\ marks' = [s \in SheetNames |->
                 [marks[s] EXCEPT ![Column[c.job]] = Overwritten(@, c.results[s])]]
  /\ Continue(c, {})
=============================================================================
