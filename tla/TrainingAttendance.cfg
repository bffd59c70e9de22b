SPECIFICATION MCSpec
CONSTANTS
  Requests = {r1, r2}
  Trainings = {t1, t2}
  Executions = {e1}
  Participants = {p1, p2}
  Users = {u1, u2}
  Professors = {u1, u2}
  Codes = {c1, c2}
  Roles = {"assistant", "organizer"}
  Organizer = "organizer"
  RoleLists <- MCRoleLists
  Absent = Absent
  Undefined = Undefined
  None = None
  MaxRequests = 5
SYMMETRY Symmetry
INVARIANT AttendanceIsAnArray
