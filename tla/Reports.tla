------------------------------- MODULE Reports -------------------------------
(***************************************************************************)
(* The reports on the participation of professors, of src/reports and      *)
(* src/repositories/services/professor-reports.repository.ts, and those on *)
(* a training of src/training/training.service.ts.                         *)
(*                                                                         *)
(* A report puts together documents it has read at different times.  A     *)
(* professor whose school is not among the schools it has read, or who has *)
(* none, makes it fail: his row of the report is undefined.                *)
(***************************************************************************)
EXTENDS Registry, Calls, FiniteSets, FiniteSetsExt

Containers == <<"trainings", "schools", "users">>

ReportCall ==
  [op : {"bySchool", "attendance"}, job : {"report"}, key : EntryIds \cup TrainingIds,
   asked : SUBSET ToSet(Containers),
   trainings : SUBSET Training, schools : SUBSET EntryIds, users : SUBSET User]

-----------------------------------------------------------------------------
(* Faults of the kind this code could have, for the runs to detect. *)
Organizers == {t.organizer : t \in trainings}
Uncounted(counted, user) == FALSE

\* getProfessorsForReports
ForReports(us) == {u \in us : u.role = "professor" /\ ~u.excluded}

SchoolIds == {e.id : e \in catalogue["school"]}

\* Trainings of a semester, or the one with an id.
Selected(key) == {t \in trainings : key \in {t.semester, t.id}}

Attendances(ts) ==
  {p.user : p \in UNION {{q \in ToSet(t.participants) : q.attended} : t \in ts}}

\* getParticipation: the professors who attended, and the others.
Participation(ts, us) ==
  LET present == Attendances(ts)
      attended == {u \in ForReports(us) : u.id \in present} IN
  [attended |-> Cardinality(attended), pending |-> Cardinality(ForReports(us) \ attended)]

\* getEmploymentTypeReport
ByEmployment(ts, us) ==
  [e \in {"fullTime", "partTime"} |-> Participation(ts, {u \in us : u.employment = e})]

\* It fails for a professor without a type of employment, whether or not he
\* attended: his row of the report is undefined.
EmploymentFails(us) == \E u \in ForReports(us) : u.employment = None

\* findAll of the competencies leaves out those marked as deleted.
Listed == {e.id : e \in {d \in catalogue["competency"] : ~d.deleted}}

\* getByCompetence and getTrainingsByCompetency: of the competencies listed,
\* how many trainings of each type.
ByCompetency(ts) ==
  [p \in Listed \X {"extra", "scheduled"} |->
     Cardinality({t \in ts : <<t.competency, t.type>> = p})]

Counted(counted, user) == user.id \in counted

\* A step of getProfessorParticipationBySchool, for one participant.
CountProfessor(us, participant, report) ==
  LET found == {u \in ForReports(us) : u.id = participant.user} IN
  IF found = {} \/ ~participant.attended THEN report
  ELSE LET u == CHOOSE u \in found : TRUE IN
       IF Counted(report.counted, u) THEN report
       ELSE IF u.school \notin DOMAIN report.attended THEN [report EXCEPT !.failed = TRUE]
       ELSE [report EXCEPT !.attended[u.school] = @ + 1, !.counted = @ \cup {u.id}]

\* getProfessorParticipationBySchool: pending is a difference of two numbers
\* that are counted in different ways.
BySchool(ts, schools, us) ==
  LET counts ==
        FoldSet(LAMBDA t, report :
                  FoldLeft(LAMBDA r, p : CountProfessor(us, p, r), report, t.participants),
                [failed |-> FALSE, counted |-> {}, attended |-> [s \in schools |-> 0]], ts)
  IN [failed |-> counts.failed,
      rows |-> [s \in schools |->
        [attended |-> counts.attended[s],
         pending |-> Cardinality({u \in ForReports(us) : u.school = s})
                       - counts.attended[s]]]]

\* Of some participants of a training, those who attended and the others.
Attended(training, people) ==
  LET of(attended) ==
        {i \in DOMAIN training.participants :
           /\ training.participants[i].user \in people
           /\ training.participants[i].attended = attended} IN
  [attended |-> Cardinality(of(TRUE)), pending |-> Cardinality(of(FALSE))]

\* getAsistance: all participants, users or not.
Attendance(training) == Attended(training, UserIds)

\* getAsistanceBySchool: all participants that are users, whatever their role.
AttendedBySchool(training, schools, us) ==
  [s \in schools |-> Attended(training, {u.id : u \in {v \in us : v.school = s}})]

AttendanceFails(ts, schools, us) ==
  \E t \in ts : \E p \in ToSet(t.participants) : \E u \in us :
    u.id = p.user /\ u.school \notin schools

-----------------------------------------------------------------------------

ReportRequest ==
  \E key \in {t.id : t \in trainings} \cup {t.semester : t \in trainings},
     op \in {"bySchool", "attendance"} :
    /\ op = "attendance" => key \in TrainingIds
    /\ Start({[op |-> op, job |-> "report", key |-> key,
               asked |-> ToSet(Containers), trainings |-> {}, schools |-> {}, users |-> {}]})
    /\ UNCHANGED registryVars

Asked(c, container) ==
  /\ c.job = "report"
  /\ container \in c.asked
  \* getAsistanceBySchool reads one after the other.
  /\ c.op = "attendance" =>
       container = Containers[4 - Cardinality(c.asked)]

Read(c, d, container) ==
  Continue(c, {[d EXCEPT !.asked = @ \ {container}]}) /\ UNCHANGED registryVars

ReadTrainings(c) ==
  Asked(c, "trainings") /\ Read(c, [c EXCEPT !.trainings = Selected(c.key)], "trainings")

ReadSchools(c) ==
  /\ Asked(c, "schools")
  /\ Read(c, [c EXCEPT !.schools = SchoolIds], "schools")

\* getAsistanceBySchool reads only the participants, one by one.
ReadUsers(c) ==
  /\ Asked(c, "users")
  /\ Read(c, [c EXCEPT !.users = users], "users")

\* The report is put together and answered.
AnswerReport(c) ==
  /\ c.job = "report"
  /\ c.asked = {}
  /\ Continue(c, {})
  /\ UNCHANGED registryVars

FailReport(c) == c.job = "report" /\ Continue(c, {}) /\ UNCHANGED registryVars

ServeReport(c) == ReadTrainings(c) \/ ReadSchools(c) \/ ReadUsers(c) \/ AnswerReport(c)

-----------------------------------------------------------------------------
(* Safety. *)

SumOf(f) == MapThenSumSet(LAMBDA s : f[s], DOMAIN f)

\* The report of a set of trainings by school, by type of employment and in
\* total, drawn from the same documents, give the same numbers, none of them
\* negative, although they are counted in three ways; the two reports on a
\* training differ by the participants whose user was deleted; and the only
\* trainings missing in the report by competency are those of competencies
\* marked as deleted.
\* (getProfessorParticipationBySchool, getEmploymentTypeReport,
\* getParticipation, getAsistance, getAsistanceBySchool,
\* getTrainingsByCompetency.)
ReportsAgree ==
  \A key \in {t.semester : t \in trainings} :
    LET schools == SchoolIds
        ts == Selected(key)
        total == Participation(ts, users)
        employment == ByEmployment(ts, users)
        school == BySchool(ts, schools, users)
        deleted == {e.id : e \in {d \in catalogue["competency"] : d.deleted}}
    IN /\ ~EmploymentFails(users) =>
            /\ total.attended = SumOf([e \in DOMAIN employment |-> employment[e].attended])
            /\ total.pending = SumOf([e \in DOMAIN employment |-> employment[e].pending])
       /\ Cardinality({t \in ts : t.competency \notin deleted}) = SumOf(ByCompetency(ts))
       /\ ~school.failed =>
            /\ \A s \in schools : school.rows[s].pending >= 0
            /\ total.attended = SumOf([s \in schools |-> school.rows[s].attended])
       /\ \A t \in ts : ~AttendanceFails({t}, schools, users) =>
            LET whole == Attendance(t)
                parts == AttendedBySchool(t, schools, users)
                gone == Attended(t, UserIds \ {u.id : u \in users}) IN
            /\ whole.attended = SumOf([s \in schools |-> parts[s].attended]) + gone.attended
            /\ whole.pending = SumOf([s \in schools |-> parts[s].pending]) + gone.pending
=============================================================================
