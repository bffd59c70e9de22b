SPECIFICATION MCSpec
CONSTANTS
  None = None
  Misplaced = "Tiempo Completo"
  FirstSheet = "trainings"
  Addresses = {"a1", "a2", "a3", "a4"}
  Names = {"S", "T"}
  Codes = {"C1", "C10"}
  NewUserIds = {n1, n2}
  EntryIds = {"e0", e1, e2}
  TrainingIds = {t1, t2}
  Documents <- MCDocuments
  FirstUsers <- MCFirstUsers
  FirstSchools <- MCFirstSchools
  TrainingRows <- MCTrainingRows
  Sheets <- MCSheets
  Including <- MCIncluding
  Lines <- MCLines
  Columns <- MCColumns
  MaxEvents = 1
SYMMETRY Symmetry
INVARIANT
  MailedUserSignsIn
CHECK_DEADLOCK FALSE
