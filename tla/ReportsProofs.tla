---------------------------- MODULE ReportsProofs ----------------------------
(***************************************************************************)
(* Proofs about the reports, which run beside the jobs of the migration.   *)
(* What each of them counts, however it walks through trainings and        *)
(* participants, is the size of a set; the ids that are stored or held are *)
(* those of stored entries; and a report knows the schools of the users it *)
(* has read.                                                               *)
(***************************************************************************)
EXTENDS MigrationProofs, FiniteProofs

-----------------------------------------------------------------------------
(* The reports: what is counted in different ways is the same number.       *)

\* The last of some positions is one of them.
LEMMA MaxOfPositions ==
  ASSUME NEW n \in Nat, NEW S, S \subseteq 1..n, S # {}
  PROVE  Max(S) \in S
<1> DEFINE R == OpToRel(<, Nat)
           T == {k \in Nat : n - k \in S}
<1>1. IsWellFoundedOn(R, Nat)
  BY NatLessThanWellFounded
<1>2. PICK x \in S : TRUE
  OBVIOUS
<1>3. n - x \in T
  BY <1>2
<1>4. \A x1, y1 \in Nat : <<x1, y1>> \in R <=> x1 < y1
  BY DEF OpToRel
<1>5. T \subseteq Nat /\ T # {}
  BY <1>3
<1> HIDE DEF R, T
<1>6. PICK k \in T : \A j \in T : <<j, k>> \notin R
  BY <1>1, <1>5, WFMin
<1>7. n - k \in S
  BY <1>6 DEF T
<1>8. ASSUME NEW y \in S
      PROVE  n - k >= y
  <2>1. n - y \in T
    BY <1>8 DEF T
  <2>2. n - y \in Nat /\ k \in Nat
    BY <1>5, <1>6, <2>1
  <2>3. ~(n - y < k)
    BY <1>4, <1>6, <2>1, <2>2
  <2> QED
    BY <1>8, <2>2, <2>3
<1> QED
  BY <1>7, <1>8 DEF Max

\* The report on the professors of us of whom P are the ids of those present.
Tally(us, schools, P) ==
  [failed |-> \E u \in ForReports(us) : u.id \in P /\ u.school \notin schools,
   counted |-> {u.id : u \in {v \in ForReports(us) : v.id \in P /\ v.school \in schools}},
   attended |-> [s \in schools |->
                   Cardinality({u \in ForReports(us) : u.id \in P /\ u.school = s})]]

LEMMA NobodyPresent ==
  ASSUME NEW us, NEW schools
  PROVE  Tally(us, schools, {}) =
           [failed |-> FALSE, counted |-> {}, attended |-> [s \in schools |-> 0]]
<1>1. \A s : Cardinality({u \in ForReports(us) : u.id \in {} /\ u.school = s}) = 0
  <2>1. \A s : {u \in ForReports(us) : u.id \in {} /\ u.school = s} = {}
    OBVIOUS
  <2> QED
    BY <2>1, FS_EmptySet
<1>2. [s \in schools |-> Cardinality({u \in ForReports(us) : u.id \in {} /\ u.school = s})]
        = [s \in schools |-> 0]
  BY <1>1
<1> QED
  BY <1>2 DEF Tally

\* One participant more.
LEMMA CountOne ==
  ASSUME NEW us, IsFiniteSet(us), \A u, v \in us : u.id = v.id => u = v,
         NEW schools, NEW P, NEW p
  PROVE  CountProfessor(us, p, Tally(us, schools, P)) =
           Tally(us, schools, IF p.attended THEN P \cup {p.user} ELSE P)
<1> DEFINE Of(Q, s) == {u \in ForReports(us) : u.id \in Q /\ u.school = s}
           found == {u \in ForReports(us) : u.id = p.user}
<1>1. CASE ~p.attended
  BY <1>1 DEF CountProfessor
<1> SUFFICES ASSUME p.attended
             PROVE  CountProfessor(us, p, Tally(us, schools, P)) =
                      Tally(us, schools, P \cup {p.user})
  BY <1>1
<1> DEFINE Q == P \cup {p.user}
<1>2. CASE found = {}
  <2>1. CountProfessor(us, p, Tally(us, schools, P)) = Tally(us, schools, P)
    BY <1>2 DEF CountProfessor
  <2>2. \A u \in ForReports(us) : u.id \in P <=> u.id \in Q
    BY <1>2
  <2>3. Tally(us, schools, P) = Tally(us, schools, Q)
    BY <2>2 DEF Tally
  <2> QED
    BY <2>1, <2>3
<1>3. ASSUME NEW u \in found
      PROVE  CountProfessor(us, p, Tally(us, schools, P)) = Tally(us, schools, Q)
  <2>1. u \in ForReports(us) /\ u.id = p.user /\ u \in us
    BY <1>3 DEF ForReports
  <2>2. found = {u}
    BY <1>3 DEF ForReports
  <2>3. (CHOOSE v \in found : TRUE) = u
    BY <2>2
  <2> DEFINE report == Tally(us, schools, P)
  <2>4. CountProfessor(us, p, report) =
          IF u.id \in report.counted THEN report
          ELSE IF u.school \notin DOMAIN report.attended THEN [report EXCEPT !.failed = TRUE]
          ELSE [report EXCEPT !.attended[u.school] = @ + 1, !.counted = @ \cup {u.id}]
    BY <1>3, <2>3 DEF CountProfessor, Counted
  <2>5. /\ u.id \in report.counted <=> u.id \in P /\ u.school \in schools
        /\ DOMAIN report.attended = schools
    BY <2>1 DEF Tally, ForReports
  <2>6. CASE u.id \in P /\ u.school \in schools
    <3>1. Q = P
      BY <2>1, <2>6
    <3> QED
      BY <2>4, <2>5, <2>6, <3>1
  <2>7. CASE u.school \notin schools
    <3>1. Tally(us, schools, Q).failed = TRUE
      BY <2>1, <2>7 DEF Tally
    <3>2. Tally(us, schools, Q).counted = report.counted
      BY <2>1, <2>7 DEF Tally, ForReports
    <3>3. \A s \in schools : Of(Q, s) = Of(P, s)
      BY <2>1, <2>7 DEF ForReports
    <3>4. Tally(us, schools, Q).attended = report.attended
      BY <3>3 DEF Tally
    <3>5. [report EXCEPT !.failed = TRUE] = Tally(us, schools, Q)
      BY <3>1, <3>2, <3>4 DEF Tally
    <3> QED
      BY <2>4, <2>5, <2>7, <3>5
  <2>8. CASE u.id \notin P /\ u.school \in schools
    <3>1. Tally(us, schools, Q).failed = report.failed
      BY <2>1, <2>8 DEF Tally, ForReports
    <3>2. Tally(us, schools, Q).counted = report.counted \cup {u.id}
      BY <2>1, <2>8 DEF Tally, ForReports
    <3>3. \A s \in schools : s # u.school => Of(Q, s) = Of(P, s)
      BY <2>1 DEF ForReports
    <3>4. Of(Q, u.school) = Of(P, u.school) \cup {u} /\ u \notin Of(P, u.school)
      BY <2>1, <2>8 DEF ForReports
    <3>5. \A s : IsFiniteSet(Of(P, s)) /\ Cardinality(Of(P, s)) \in Nat
      <4>1. \A s : Of(P, s) \subseteq us
        BY DEF ForReports
      <4> QED
        BY <4>1, FS_Subset, FS_CardinalityType
    <3>6. Cardinality(Of(Q, u.school)) = Cardinality(Of(P, u.school)) + 1
      <4> DEFINE A == Of(P, u.school)
      <4>1. IsFiniteSet(A) /\ u \notin A /\ Of(Q, u.school) = A \cup {u}
        BY <3>4, <3>5
      <4> HIDE DEF A
      <4>2. Cardinality(A \cup {u}) = Cardinality(A) + 1
        BY <4>1, FS_AddElement
      <4> QED
        BY <4>1, <4>2 DEF A
    <3>7. Tally(us, schools, Q).attended = [report.attended EXCEPT ![u.school] = @ + 1]
      <4>1. /\ report.attended = [s \in schools |-> Cardinality(Of(P, s))]
            /\ Tally(us, schools, Q).attended = [s \in schools |-> Cardinality(Of(Q, s))]
        BY DEF Tally
      <4> HIDE DEF Of, report, Q
      <4> QED
        BY <2>8, <3>3, <3>6, <4>1
    <3>8. [report EXCEPT !.attended[u.school] = @ + 1, !.counted = @ \cup {u.id}]
            = Tally(us, schools, Q)
      BY <3>1, <3>2, <3>7 DEF Tally
    <3> QED
      BY <2>4, <2>5, <2>8, <3>8
  <2> QED
    BY <2>6, <2>7, <2>8
<1> QED
  BY <1>2, <1>3

\* Those of the participants at the positions s who are present.
Present(q, s) == {q[i].user : i \in {j \in s : q[j].attended}}

\* What the fold over the participants q is defined by, and over the trainings ts.
Rows(g, us, q, base) ==
  g = [s \in SUBSET DOMAIN q |->
         IF s = {} THEN base ELSE CountProfessor(us, q[Max(s)], g[s \ {Max(s)}])]

LEMMA RowsExist ==
  ASSUME NEW us, IsFiniteSet(us), \A u, v \in us : u.id = v.id => u = v,
         NEW schools, NEW P, NEW S, NEW q \in Seq(S)
  PROVE  Rows([s \in SUBSET DOMAIN q |-> Tally(us, schools, P \cup Present(q, s))],
              us, q, Tally(us, schools, P))
<1> DEFINE h == [s \in SUBSET DOMAIN q |-> Tally(us, schools, P \cup Present(q, s))]
           base == Tally(us, schools, P)
<1>1. ASSUME NEW s \in SUBSET DOMAIN q
      PROVE  h[s] = IF s = {} THEN base ELSE CountProfessor(us, q[Max(s)], h[s \ {Max(s)}])
  <2>1. CASE s = {}
    <3>1. P \cup Present(q, s) = P
      BY <2>1 DEF Present
    <3> QED
      BY <2>1, <3>1
  <2>2. CASE s # {}
    <3>1. Max(s) \in s
      BY <2>2, MaxOfPositions
    <3> DEFINE p == q[Max(s)]
               Q == P \cup Present(q, s \ {Max(s)})
    <3>2. h[s \ {Max(s)}] = Tally(us, schools, Q) /\ h[s] = Tally(us, schools, P \cup Present(q, s))
      OBVIOUS
    <3>3. P \cup Present(q, s) = IF p.attended THEN Q \cup {p.user} ELSE Q
      BY <3>1 DEF Present
    <3> HIDE DEF h, Q, p
    <3>4. CountProfessor(us, p, Tally(us, schools, Q)) =
            Tally(us, schools, IF p.attended THEN Q \cup {p.user} ELSE Q)
      BY CountOne
    <3> QED
      BY <2>2, <3>2, <3>3, <3>4 DEF p
  <2> QED
    BY <2>1, <2>2
<1>2. h = [s \in SUBSET DOMAIN q |-> h[s]]
  OBVIOUS
<1> HIDE DEF h, base
<1> QED
  BY <1>1, <1>2 DEF Rows, h, base

\* The fold over the participants of a training.
Walked(us, q, base) == FoldLeft(LAMBDA r, p : CountProfessor(us, p, r), base, q)

\* Counting all participants counts those present.
LEMMA RowsAre ==
  ASSUME NEW us, IsFiniteSet(us), \A u, v \in us : u.id = v.id => u = v,
         NEW schools, NEW P, NEW S, NEW q \in Seq(S)
  PROVE  Walked(us, q, Tally(us, schools, P)) = Tally(us, schools, P \cup Present(q, DOMAIN q))
<1> DEFINE h == [s \in SUBSET DOMAIN q |-> Tally(us, schools, P \cup Present(q, s))]
           base == Tally(us, schools, P)
           g == CHOOSE f : Rows(f, us, q, base)
<1>1. Walked(us, q, base) = g[DOMAIN q]
  BY DEF Walked, FoldLeft, MapThenFoldSet, Rows
<1>2. Rows(h, us, q, base)
  BY RowsExist
<1>3. h[DOMAIN q] = Tally(us, schools, P \cup Present(q, DOMAIN q))
  OBVIOUS
<1> HIDE DEF h, base
<1>4. Rows(g, us, q, base)
  BY <1>2
<1> HIDE DEF g
<1>5. g[{}] = h[{}]
  BY <1>2, <1>4 DEF Rows
<1>6. ASSUME NEW s \in SUBSET DOMAIN q, s # {}
      PROVE  \E x \in s : g[s \ {x}] = h[s \ {x}] => g[s] = h[s]
  <2>1. Max(s) \in s
    BY <1>6, MaxOfPositions
  <2>2. /\ g[s] = CountProfessor(us, q[Max(s)], g[s \ {Max(s)}])
        /\ h[s] = CountProfessor(us, q[Max(s)], h[s \ {Max(s)}])
    BY <1>2, <1>4, <1>6 DEF Rows
  <2> QED
    BY <2>1, <2>2
<1>7. IsFiniteSet(DOMAIN q)
  BY FS_Interval
<1>8. g[DOMAIN q] = h[DOMAIN q]
  BY <1>5, <1>6, <1>7, SameFold
<1> QED
  BY <1>1, <1>3, <1>8 DEF base
\* The same of a set of trainings.
Reported(g, us, ts, base) ==
  g = [T \in SUBSET ts |->
         IF T = {} THEN base ELSE Walked(us, Pick(T).participants, g[T \ {Pick(T)}])]

LEMMA AttendancesAre ==
  /\ Attendances({}) = {}
  /\ \A T : \A t \in T :
       Attendances(T) =
         Attendances(T \ {t}) \cup Present(t.participants, DOMAIN t.participants)
<1>1. \A T, x : x \in Attendances(T) <=>
        \E t \in T : x \in Present(t.participants, DOMAIN t.participants)
  <2> TAKE T, x
  <2>1. x \in Attendances(T) <=>
          \E t \in T : \E q \in ToSet(t.participants) : q.attended /\ q.user = x
    BY DEF Attendances
  <2>2. \A t : x \in Present(t.participants, DOMAIN t.participants) <=>
                 \E q \in ToSet(t.participants) : q.attended /\ q.user = x
    BY DEF ToSet, Present
  <2> QED
    BY <2>1, <2>2
<1> QED
  BY <1>1

LEMMA ReportsExist ==
  ASSUME NEW us, IsFiniteSet(us), \A u, v \in us : u.id = v.id => u = v,
         NEW schools, NEW ts \in SUBSET Training
  PROVE  Reported([T \in SUBSET ts |-> Tally(us, schools, Attendances(T))],
                us, ts, Tally(us, schools, {}))
<1> DEFINE h == [T \in SUBSET ts |-> Tally(us, schools, Attendances(T))]
           base == Tally(us, schools, {})
<1>1. ASSUME NEW T \in SUBSET ts
      PROVE  h[T] = IF T = {} THEN base
                    ELSE Walked(us, Pick(T).participants, h[T \ {Pick(T)}])
  <2>1. CASE T = {}
    BY <2>1, AttendancesAre
  <2>2. CASE T # {}
    <3> DEFINE t == Pick(T)
               q == t.participants
               P == Attendances(T \ {t})
    <3>1. t \in T
      BY <2>2 DEF Pick
    <3>2. h[T \ {t}] = Tally(us, schools, P) /\ h[T] = Tally(us, schools, Attendances(T))
      OBVIOUS
    <3>3. Attendances(T) = P \cup Present(q, DOMAIN q)
      BY <3>1, AttendancesAre
    <3>4. q \in Seq(Participant)
      BY <3>1 DEF Training
    <3> HIDE DEF h, t, q, P
    <3>5. Walked(us, q, Tally(us, schools, P)) = Tally(us, schools, P \cup Present(q, DOMAIN q))
      BY <3>4, RowsAre
    <3> QED
      BY <2>2, <3>2, <3>3, <3>5 DEF t, q
  <2> QED
    BY <2>1, <2>2
<1>2. h = [T \in SUBSET ts |-> h[T]]
  OBVIOUS
<1> HIDE DEF h, base
<1> QED
  BY <1>1, <1>2 DEF Reported, h, base

\* The professors of a school.
OfSchool(us, s) == {u \in ForReports(us) : u.school = s}

\* The report by school counts the professors who attended any of the trainings.
LEMMA BySchoolIs ==
  ASSUME NEW us, IsFiniteSet(us), \A u, v \in us : u.id = v.id => u = v,
         NEW schools, NEW ts \in SUBSET Training, IsFiniteSet(ts)
  PROVE  LET counts == Tally(us, schools, Attendances(ts)) IN
         /\ BySchool(ts, schools, us).failed = counts.failed
         /\ BySchool(ts, schools, us).rows = [s \in schools |->
              [attended |-> counts.attended[s],
               pending |-> Cardinality(OfSchool(us, s)) - counts.attended[s]]]
<1> DEFINE h == [T \in SUBSET ts |-> Tally(us, schools, Attendances(T))]
           base == Tally(us, schools, {})
           g == CHOOSE f : Reported(f, us, ts, base)
           counts == FoldSet(LAMBDA t, report :
                  FoldLeft(LAMBDA r, p : CountProfessor(us, p, r), report, t.participants),
                [failed |-> FALSE, counted |-> {}, attended |-> [s \in schools |-> 0]], ts)
<1>1. counts = g[ts]
  <2>1. base = [failed |-> FALSE, counted |-> {}, attended |-> [s \in schools |-> 0]]
    BY NobodyPresent
  <2> HIDE DEF base
  <2> QED
    BY <2>1 DEF FoldSet, FoldLeft, MapThenFoldSet, Reported, Walked, Pick
<1>2. /\ BySchool(ts, schools, us).failed = counts.failed
      /\ BySchool(ts, schools, us).rows = [s \in schools |->
              [attended |-> counts.attended[s],
               pending |-> Cardinality(OfSchool(us, s)) - counts.attended[s]]]
  BY DEF BySchool, OfSchool
<1> HIDE DEF counts
<1>3. Reported(h, us, ts, base)
  BY ReportsExist
<1>4. h[ts] = Tally(us, schools, Attendances(ts))
  OBVIOUS
<1> HIDE DEF h, base
<1>5. Reported(g, us, ts, base)
  BY <1>3
<1> HIDE DEF g
<1>6. g[{}] = h[{}]
  BY <1>3, <1>5 DEF Reported
<1>7. ASSUME NEW T \in SUBSET ts, T # {}
      PROVE  \E t \in T : g[T \ {t}] = h[T \ {t}] => g[T] = h[T]
  <2>1. Pick(T) \in T
    BY <1>7 DEF Pick
  <2>2. /\ g[T] = Walked(us, Pick(T).participants, g[T \ {Pick(T)}])
        /\ h[T] = Walked(us, Pick(T).participants, h[T \ {Pick(T)}])
    BY <1>3, <1>5, <1>7 DEF Reported
  <2> QED
    BY <2>1, <2>2
<1>8. g[ts] = h[ts]
  BY <1>6, <1>7, SameFold
<1> QED
  BY <1>1, <1>2, <1>4, <1>8

\* SumOf, for the sizes of the parts of a set.
LEMMA SumOfParts ==
  ASSUME NEW S, IsFiniteSet(S), NEW f, IsFiniteSet(DOMAIN f), NEW part,
         \A x \in S : part[x] \in DOMAIN f,
         \A i \in DOMAIN f : f[i] = Cardinality(PartOf(S, part, i))
  PROVE  SumOf(f) = Cardinality(S)
<1> DEFINE I == DOMAIN f
<1>1. SumOf(f) = Total(f, I)
  BY DEF SumOf, Total, MapThenSumSet, MapThenFoldSet
<1>2. /\ IsFiniteSet(I) /\ \A x \in S : part[x] \in I
      /\ \A i \in I : f[i] = Cardinality(PartOf(S, part, i))
  OBVIOUS
<1> HIDE DEF I
<1>3. Total(f, I) = Cardinality(S)
  BY <1>2, PartsSum
<1> QED
  BY <1>1, <1>3

\* The report by type of employment gives the numbers of that in total, unless
\* it fails.
LEMMA EmploymentAgrees ==
  ASSUME NEW us \in SUBSET User, IsFiniteSet(us), NEW ts, ~EmploymentFails(us)
  PROVE  LET total == Participation(ts, us)
             employment == ByEmployment(ts, us) IN
         /\ total.attended = SumOf([e \in DOMAIN employment |-> employment[e].attended])
         /\ total.pending = SumOf([e \in DOMAIN employment |-> employment[e].pending])
<1> DEFINE total == Participation(ts, us)
           employment == ByEmployment(ts, us)
           types == {"fullTime", "partTime"}
           P == Attendances(ts)
           A == {u \in ForReports(us) : u.id \in P}
           B == ForReports(us) \ A
           part == [u \in us |-> u.employment]
           fA == [e \in DOMAIN employment |-> employment[e].attended]
           fB == [e \in DOMAIN employment |-> employment[e].pending]
<1>1. /\ IsFiniteSet(A) /\ IsFiniteSet(B)
      /\ A \subseteq us /\ B \subseteq us
  <2>1. A \subseteq us /\ B \subseteq us
    BY DEF ForReports
  <2> HIDE DEF A, B
  <2> QED
    BY <2>1, FS_Subset
<1>2. total.attended = Cardinality(A) /\ total.pending = Cardinality(B)
  BY DEF Participation
<1>3. IsFiniteSet(types)
  <2>1. types = {"fullTime"} \cup {"partTime"}
    OBVIOUS
  <2> HIDE DEF types
  <2> QED
    BY <2>1, FS_Singleton, FS_Union
<1>4. /\ \A u \in us : part[u] = u.employment
      /\ \A u \in ForReports(us) : part[u] \in types
  BY DEF User, EmploymentFails, ForReports
<1>5. DOMAIN employment = types /\ DOMAIN fA = types /\ DOMAIN fB = types
  BY DEF ByEmployment
<1>6. \A e \in types : /\ fA[e] = Cardinality(PartOf(A, part, e))
                       /\ fB[e] = Cardinality(PartOf(B, part, e))
  <2> TAKE e \in types
  <2> DEFINE ve == {u \in us : u.employment = e}
             Ae == {u \in ForReports(ve) : u.id \in P}
             Be == ForReports(ve) \ Ae
             Ap == PartOf(A, part, e)
             Bp == PartOf(B, part, e)
  <2>1. Ae = Ap /\ Be = Bp
    <3>1. Ae = {u \in A : u.employment = e} /\ Be = {u \in B : u.employment = e}
      BY DEF ForReports
    <3> HIDE DEF Ae, Be, A, B, part
    <3> QED
      BY <1>1, <1>4, <3>1 DEF PartOf
  <2>2. employment[e] = Participation(ts, ve)
    BY DEF ByEmployment
  <2>3. Participation(ts, ve) = [attended |-> Cardinality(Ae), pending |-> Cardinality(Be)]
    BY DEF Participation
  <2>4. fA[e] = employment[e].attended /\ fB[e] = employment[e].pending
    BY <1>5
  <2>5. fA[e] = Cardinality(Ap) /\ fB[e] = Cardinality(Bp)
    <3> HIDE DEF Ae, Be, Ap, Bp, ve, employment, fA, fB
    <3> QED
      BY <2>1, <2>2, <2>3, <2>4
  <2> QED
    BY <2>5
<1>7. \A u \in A \cup B : part[u] \in types
  BY <1>4
<1> HIDE DEF A, B, part, types, fA, fB
<1>8. SumOf(fA) = Cardinality(A) /\ SumOf(fB) = Cardinality(B)
  BY <1>1, <1>3, <1>5, <1>6, <1>7, SumOfParts
<1> QED
  BY <1>2, <1>8 DEF fA, fB

TrainingsOf(ts, p) == {t \in ts : <<t.competency, t.type>> = p}

\* No training is missing in the report by competency, if its competency is
\* stored and not marked as deleted.
LEMMA CompetencyAgrees ==
  ASSUME IsFiniteSet(catalogue["competency"]), NEW ts \in SUBSET Training, IsFiniteSet(ts),
         \A d, e \in catalogue["competency"] : d.id = e.id => d = e,
         catalogue["competency"] \subseteq Entry,
         \A t \in ts : \E e \in catalogue["competency"] : e.id = t.competency
  PROVE  LET deleted == {e.id : e \in {d \in catalogue["competency"] : d.deleted}} IN
         Cardinality({t \in ts : t.competency \notin deleted}) = SumOf(ByCompetency(ts))
<1> DEFINE deleted == {e.id : e \in {d \in catalogue["competency"] : d.deleted}}
           kept == {t \in ts : t.competency \notin deleted}
           types == {"extra", "scheduled"}
           part == [t \in ts |-> <<t.competency, t.type>>]
           f == ByCompetency(ts)
<1>1. IsFiniteSet(types)
  <2>1. types = {"extra"} \cup {"scheduled"}
    OBVIOUS
  <2> HIDE DEF types
  <2> QED
    BY <2>1, FS_Singleton, FS_Union
<1>2. IsFiniteSet(Listed)
  <2> DEFINE S == {d \in catalogue["competency"] : ~d.deleted}
             g == [e \in S |-> e.id]
  <2>1. g \in Surjection(S, Listed)
    BY DEF Surjection, Listed
  <2>2. IsFiniteSet(S)
    BY FS_Subset
  <2> HIDE DEF g, S
  <2> QED
    BY <2>1, <2>2, FS_Surjection
<1>3. IsFiniteSet(Listed \X types)
  <2> HIDE DEF types
  <2> QED
    BY <1>1, <1>2, FS_Product
<1>4. f = [p \in Listed \X types |-> Cardinality(TrainingsOf(ts, p))]
  BY DEF ByCompetency, TrainingsOf
<1>5. \A t \in ts : t.competency \in Listed <=> t.competency \notin deleted
  BY DEF Listed, Entry
<1>6. \A t \in kept : part[t] \in Listed \X types
  BY <1>5 DEF Training
<1>7. \A p \in Listed \X types : PartOf(kept, part, p) = TrainingsOf(ts, p)
  <2> SUFFICES ASSUME NEW p \in Listed \X types
               PROVE  PartOf(kept, part, p) = TrainingsOf(ts, p)
    OBVIOUS
  <2>1. \A t \in TrainingsOf(ts, p) : t.competency \in Listed
    BY DEF TrainingsOf
  <2> QED
    BY <1>5, <2>1 DEF PartOf, TrainingsOf
<1>8. IsFiniteSet(kept)
  BY FS_Subset
<1> HIDE DEF types, part, f, kept
<1>9. SumOf(f) = Cardinality(kept)
  BY <1>3, <1>4, <1>6, <1>7, <1>8, SumOfParts
<1> QED
  BY <1>9 DEF f, kept

\* The report by school agrees with that in total, unless it fails.
LEMMA SchoolsAgree ==
  ASSUME NEW us, IsFiniteSet(us), \A u, v \in us : u.id = v.id => u = v,
         NEW schools, IsFiniteSet(schools), NEW ts \in SUBSET Training, IsFiniteSet(ts),
         ~BySchool(ts, schools, us).failed
  PROVE  LET school == BySchool(ts, schools, us) IN
         /\ \A s \in schools : school.rows[s].pending >= 0
         /\ Participation(ts, us).attended = SumOf([s \in schools |-> school.rows[s].attended])
<1> DEFINE P == Attendances(ts)
           rows == BySchool(ts, schools, us).rows
           A == {u \in ForReports(us) : u.id \in P}
           part == [u \in us |-> u.school]
           f == [s \in schools |-> rows[s].attended]
           Of(s) == {u \in ForReports(us) : u.id \in P /\ u.school = s}
<1>1. /\ \A u \in ForReports(us) : u.id \in P => u.school \in schools
      /\ rows = [s \in schools |-> [attended |-> Cardinality(Of(s)),
                                    pending |-> Cardinality(OfSchool(us, s)) - Cardinality(Of(s))]]
  <2> DEFINE counts == Tally(us, schools, P)
  <2>1. /\ BySchool(ts, schools, us).failed = counts.failed
        /\ rows = [s \in schools |-> [attended |-> counts.attended[s],
                                      pending |-> Cardinality(OfSchool(us, s)) - counts.attended[s]]]
    <3> HIDE DEF rows, P
    <3> QED
      BY BySchoolIs DEF rows, P
  <2>2. /\ counts.failed = \E u \in ForReports(us) : u.id \in P /\ u.school \notin schools
        /\ counts.attended = [s \in schools |-> Cardinality(Of(s))]
    BY DEF Tally
  <2> HIDE DEF rows, Of, P, counts
  <2> QED
    BY <2>1, <2>2
<1>2. IsFiniteSet(A) /\ A \subseteq us
  <2>1. A \subseteq us
    BY DEF ForReports
  <2> HIDE DEF A
  <2> QED
    BY <2>1, FS_Subset
<1>3. Participation(ts, us).attended = Cardinality(A)
  BY DEF Participation
<1>4. \A s \in schools : rows[s].pending >= 0
  <2> SUFFICES ASSUME NEW s \in schools
               PROVE  rows[s].pending >= 0
    OBVIOUS
  <2> DEFINE a == OfSchool(us, s)
             o == Of(s)
  <2>1. o \subseteq a /\ a \subseteq us
    BY DEF ForReports, OfSchool
  <2>2. rows[s].pending = Cardinality(a) - Cardinality(o)
    BY <1>1
  <2> HIDE DEF a, o, rows
  <2>3. IsFiniteSet(a) /\ Cardinality(a) \in Nat
    BY <2>1, FS_Subset, FS_CardinalityType
  <2>4. Cardinality(o) \in Nat /\ Cardinality(o) <= Cardinality(a)
    BY <2>1, <2>3, FS_Subset, FS_CardinalityType
  <2> QED
    BY <2>2, <2>3, <2>4
<1>5. /\ DOMAIN f = schools /\ \A x \in A : part[x] = x.school /\ part[x] \in schools
      /\ \A s \in schools : f[s] = Cardinality(PartOf(A, part, s))
  <2>1. \A x \in A : part[x] = x.school /\ part[x] \in schools
    BY <1>1, <1>2
  <2>2. \A s : PartOf(A, part, s) = Of(s)
    BY <2>1 DEF PartOf
  <2>3. \A s \in schools : f[s] = Cardinality(Of(s))
    BY <1>1
  <2> QED
    BY <2>1, <2>2, <2>3
<1> HIDE DEF A, part, f
<1>6. SumOf(f) = Cardinality(A)
  BY <1>2, <1>5, SumOfParts
<1> QED
  BY <1>3, <1>4, <1>6 DEF f

\* The size of the union of two sets that have nothing in common.
LEMMA JoinedSize ==
  ASSUME NEW A, NEW B, IsFiniteSet(A), IsFiniteSet(B), A \cap B = {}
  PROVE  Cardinality(A \cup B) = Cardinality(A) + Cardinality(B)
<1>1. /\ Cardinality(A \cup B) = Cardinality(A) + Cardinality(B) - Cardinality(A \cap B)
      /\ Cardinality(A \cap B) = 0
      /\ Cardinality(A) \in Nat /\ Cardinality(B) \in Nat
  BY FS_Union, FS_EmptySet, FS_CardinalityType
<1> QED
  BY <1>1

\* The two reports on a training differ by the participants that are no users,
\* unless they fail.
LEMMA AttendanceAgrees ==
  ASSUME NEW us \in SUBSET User, \A u, v \in us : u.id = v.id => u = v,
         NEW schools, IsFiniteSet(schools), NEW t \in Training,
         ~AttendanceFails({t}, schools, us)
  PROVE  LET whole == Attendance(t)
             parts == AttendedBySchool(t, schools, us)
             gone == Attended(t, UserIds \ {u.id : u \in us}) IN
         /\ whole.attended = SumOf([s \in schools |-> parts[s].attended]) + gone.attended
         /\ whole.pending = SumOf([s \in schools |-> parts[s].pending]) + gone.pending
<1> DEFINE whole == Attendance(t)
           parts == AttendedBySchool(t, schools, us)
           gone == Attended(t, UserIds \ {u.id : u \in us})
           q == t.participants
           ids == {u.id : u \in us}
           All(b) == {i \in DOMAIN q : q[i].user \in UserIds /\ q[i].attended = b}
           Gone(b) == {i \in DOMAIN q : q[i].user \in UserIds \ ids /\ q[i].attended = b}
           Of(b) == {i \in DOMAIN q : q[i].user \in ids /\ q[i].attended = b}
           SchoolOf(i) == (CHOOSE u \in us : u.id = q[i].user).school
           part == [i \in DOMAIN q |-> SchoolOf(i)]
           In(b, s) == {i \in DOMAIN q : /\ q[i].user \in {u.id : u \in {v \in us : v.school = s}}
                                         /\ q[i].attended = b}
<1>1. q \in Seq(Participant)
  BY DEF Training
<1>2. \A b : IsFiniteSet(Of(b))
  <2>1. \A b : Of(b) \subseteq DOMAIN q
    OBVIOUS
  <2>2. IsFiniteSet(DOMAIN q)
    BY <1>1, FS_Interval
  <2> HIDE DEF Of
  <2> QED
    BY <2>1, <2>2, FS_Subset
<1>3. \A i \in DOMAIN q : \A u \in us : u.id = q[i].user => part[i] = u.school /\ u.school \in schools
  <2>1. \A i \in DOMAIN q : \A u \in us : u.id = q[i].user => u.school \in schools
    BY <1>1 DEF AttendanceFails, ToSet
  <2>2. \A i \in DOMAIN q : \A u \in us : u.id = q[i].user =>
          (CHOOSE v \in us : v.id = q[i].user) = u
    OBVIOUS
  <2> QED
    BY <2>1, <2>2
<1>4. \A b, s : In(b, s) = PartOf(Of(b), part, s)
  BY <1>3 DEF PartOf
<1>5. \A b : \A i \in Of(b) : part[i] \in schools
  BY <1>3
<1>6. /\ whole.attended = Cardinality(All(TRUE)) /\ gone.attended = Cardinality(Gone(TRUE))
      /\ whole.pending = Cardinality(All(FALSE)) /\ gone.pending = Cardinality(Gone(FALSE))
      /\ \A s \in schools : /\ parts[s].attended = Cardinality(In(TRUE, s))
                            /\ parts[s].pending = Cardinality(In(FALSE, s))
  BY DEF Attendance, Attended, AttendedBySchool
<1> DEFINE f == [s \in schools |-> parts[s].attended]
           g == [s \in schools |-> parts[s].pending]
<1>7. /\ DOMAIN f = schools /\ DOMAIN g = schools
      /\ \A s \in schools : /\ f[s] = Cardinality(PartOf(Of(TRUE), part, s))
                            /\ g[s] = Cardinality(PartOf(Of(FALSE), part, s))
  <2>1. \A s \in schools : f[s] = parts[s].attended /\ g[s] = parts[s].pending
    OBVIOUS
  <2> HIDE DEF In, Of, part, parts
  <2> QED
    BY <1>4, <1>6, <2>1
<1>8. \A b : Cardinality(All(b)) = Cardinality(Of(b)) + Cardinality(Gone(b))
  <2> TAKE b
  <2>1. ids \subseteq UserIds
    BY DEF User
  <2>2. All(b) = Of(b) \cup Gone(b) /\ Of(b) \cap Gone(b) = {}
    BY <2>1
  <2>3. IsFiniteSet(Of(b)) /\ IsFiniteSet(Gone(b))
    <3>1. Gone(b) \subseteq DOMAIN q
      OBVIOUS
    <3>2. IsFiniteSet(DOMAIN q)
      BY <1>1, FS_Interval
    <3> HIDE DEF Gone, Of
    <3> QED
      BY <1>2, <3>1, <3>2, FS_Subset
  <2> HIDE DEF All, Of, Gone
  <2> QED
    BY <2>2, <2>3, JoinedSize
<1> HIDE DEF All, Gone, Of, In, part, f, g, parts, whole, gone
<1>9. SumOf(f) = Cardinality(Of(TRUE))
  <2> DEFINE T == Of(TRUE)
  <2>1. IsFiniteSet(T) /\ \A i \in T : part[i] \in DOMAIN f
    BY <1>2, <1>5, <1>7
  <2>2. /\ IsFiniteSet(DOMAIN f)
        /\ \A s \in DOMAIN f : f[s] = Cardinality(PartOf(T, part, s))
    BY <1>7
  <2> HIDE DEF T
  <2>3. SumOf(f) = Cardinality(T)
    BY <2>1, <2>2, SumOfParts
  <2> QED
    BY <2>3 DEF T
<1>10. SumOf(g) = Cardinality(Of(FALSE))
  <2> DEFINE T == Of(FALSE)
  <2>1. IsFiniteSet(T) /\ \A i \in T : part[i] \in DOMAIN g
    BY <1>2, <1>5, <1>7
  <2>2. /\ IsFiniteSet(DOMAIN g)
        /\ \A s \in DOMAIN g : g[s] = Cardinality(PartOf(T, part, s))
    BY <1>7
  <2> HIDE DEF T
  <2>3. SumOf(g) = Cardinality(T)
    BY <2>1, <2>2, SumOfParts
  <2> QED
    BY <2>3 DEF T
<1> QED
  BY <1>6, <1>8, <1>9, <1>10 DEF f, g, parts, whole, gone
-----------------------------------------------------------------------------
(* The stock: what trainings refer to was stored, and is lost only if a     *)
(* school is removed.                                                       *)

Once(kind, id) ==
  (\E e \in catalogue[kind] : e.id = id) \/ (kind = "school" /\ id \in removed)

TrainingSound(t) ==
  /\ Once("semester", t.semester)
  /\ Once("competency", t.competency)
  /\ Once("school", t.organizer)

\* What an import has in hand.
ImportSound(c) ==
  /\ c.training # None => TrainingSound(c.training)
  /\ \A kind \in Catalogues : c.found[kind] # None => Once(kind, c.found[kind])

StockInv ==
  /\ IsFiniteSet(users) /\ IsFiniteSet(trainings)
  /\ \A kind \in Catalogues : IsFiniteSet(catalogue[kind])
  /\ \A t \in trainings : TrainingSound(t)
  /\ \A c \in CallsOf("import") : ImportSound(c)

\* Nothing is lost from the catalogues.
Stays == \A kind \in Catalogues : \A id : Once(kind, id) => Once(kind, id)'

\* How the catalogues change.
LEMMA CatalogueSteps ==
  ASSUME TypeInv, [MigrationNext]_migrationVars
  PROVE  \/ catalogue' = catalogue /\ removed' = removed
         \/ /\ \E c \in CallsOf("import") : Work(c) \/ Reject(c)
            /\ removed' = removed
            /\ \E kind \in Catalogues : \E id, name : AddEntry(kind, id, name)
         \/ CatalogueRequest
<1>1. ASSUME NEW c \in BagToSet(pending), Work(c) \/ Reject(c)
      PROVE  \/ catalogue' = catalogue /\ removed' = removed
             \/ /\ c \in CallsOf("import") /\ removed' = removed
                /\ \E kind \in Catalogues : \E id, name : AddEntry(kind, id, name)
  <2>1. CASE CreateName(c) \/ CreateSchool(c)
    <3>1. c \in CallsOf("import")
      BY <2>1, WhoImports DEF AnswerImport
    <3>2. removed' = removed
      BY <2>1 DEF CreateName, CreateSchool
    <3>3. \E kind \in Catalogues : \E id, name : AddEntry(kind, id, name)
      <4>1. CASE CreateName(c)
        BY <4>1 DEF CreateName, Missing
      <4>2. CASE CreateSchool(c)
        BY <4>2 DEF CreateSchool, Catalogues
      <4> QED
        BY <2>1, <4>1, <4>2
    <3> QED
      BY <3>1, <3>2, <3>3
  <2>2. CASE AnswerImport(c) /\ ~CreateName(c) /\ ~CreateSchool(c)
    BY <2>2 DEF AnswerImport, ReadImportRows, FindTraining, FindName, CreateTraining,
       ReadImportLines, FindProfessor, DeleteUser, FindNamesake, DeleteNamesake, Delete,
       FindSchool, FindDuplicate, CreateUser, ReadBackup, ReplaceTraining, registryVars
  <2>3. CASE ~AnswerImport(c)
    BY <1>1, <2>3 DEF Work, Reject, OnlyMailing, FailImport, ServeReport, FailReport,
       ReadTrainings, ReadSchools, ReadUsers, AnswerReport, Read, registryVars
  <2> QED
    BY <2>1, <2>2, <2>3
<1>2. CASE MigrationRequest
  BY <1>2 DEF MigrationRequest, MigrateFromExcel, ReportRequest, registryVars
<1>3. CASE \/ \E sheet \in ToSet(Sheets) : \E line \in 1..Height(sheet) : PauseLine(sheet, line)
           \/ Interrupt \/ UNCHANGED migrationVars
  BY <1>3 DEF PauseLine, Interrupt, migrationVars, registryVars
<1> QED
  BY <1>1, <1>2, <1>3 DEF MigrationNext

\* What the removal of a competency does.
LEMMA MarkedEntry ==
  ASSUME TypeInv, RemoveCompetency
  PROVE  \E new, e : /\ e \in catalogue["competency"] /\ new.id = e.id
                     /\ \A k \in Catalogues : catalogue'[k] =
                          IF k = "competency" THEN {d \in catalogue[k] : d.id # e.id} \cup {new}
                          ELSE catalogue[k]
<1>1. catalogue \in [Catalogues -> SUBSET Entry] /\ "competency" \in Catalogues
  BY DEF TypeInv, MigrationTypeOK, RegistryTypeOK, Catalogues
<1>2. PICK e \in catalogue["competency"] :
        catalogue' = [catalogue EXCEPT !["competency"] =
                        Replaced(@, [e EXCEPT !.deleted = TRUE])]
  BY DEF RemoveCompetency
<1> DEFINE new == [e EXCEPT !.deleted = TRUE]
<1>3. new.id = e.id
  BY <1>1 DEF Entry
<1> HIDE DEF new
<1>4. \A k \in Catalogues : catalogue'[k] =
        IF k = "competency" THEN {d \in catalogue[k] : d.id # e.id} \cup {new}
        ELSE catalogue[k]
  BY <1>1, <1>2, <1>3 DEF Replaced, new
<1> QED
  BY <1>3, <1>4

LEMMA OnceStays ==
  ASSUME TypeInv, [MigrationNext]_migrationVars
  PROVE  /\ Stays
         /\ (\A kind \in Catalogues : IsFiniteSet(catalogue[kind])) =>
              \A kind \in Catalogues : IsFiniteSet(catalogue'[kind])
<1>1. catalogue = [kind \in Catalogues |-> catalogue[kind]]
  BY DEF TypeInv, MigrationTypeOK, RegistryTypeOK
<1>2. CASE catalogue' = catalogue /\ removed' = removed
  BY <1>2 DEF Stays, Once
<1>3. ASSUME removed' = removed,
             NEW kind \in Catalogues, NEW id, NEW name, AddEntry(kind, id, name)
      PROVE  /\ Stays
             /\ (\A k \in Catalogues : IsFiniteSet(catalogue[k])) =>
                  \A k \in Catalogues : IsFiniteSet(catalogue'[k])
  <2>1. \A k \in Catalogues : catalogue'[k] = catalogue[k]
          \/ \E x : catalogue'[k] = catalogue[k] \cup {x}
    BY <1>1, <1>3 DEF AddEntry
  <2>2. Stays
    BY <1>3, <2>1 DEF Stays, Once
  <2>3. ASSUME NEW k \in Catalogues, IsFiniteSet(catalogue[k])
        PROVE  IsFiniteSet(catalogue'[k])
    <3>1. CASE catalogue'[k] = catalogue[k]
      BY <2>3, <3>1
    <3>2. ASSUME NEW x, catalogue'[k] = catalogue[k] \cup {x}
          PROVE  IsFiniteSet(catalogue'[k])
      <4> DEFINE A == catalogue[k]
      <4>1. IsFiniteSet(A) /\ catalogue'[k] = A \cup {x}
        BY <2>3, <3>2
      <4> HIDE DEF A
      <4> QED
        BY <4>1, FS_AddElement
    <3> QED
      BY <2>1, <3>1, <3>2
  <2> QED
    BY <2>2, <2>3
<1>4. CASE CatalogueRequest /\ RemoveSchool
  <2>1. PICK e \in catalogue["school"] :
          /\ catalogue' = [catalogue EXCEPT !["school"] = @ \ {e}]
          /\ removed' = removed \cup {e.id}
    BY <1>4 DEF RemoveSchool
  <2>2. \A k \in Catalogues : catalogue'[k] = IF k = "school" THEN catalogue[k] \ {e} ELSE catalogue[k]
    BY <1>1, <2>1
  <2>3. Stays
    BY <2>1, <2>2 DEF Stays, Once
  <2> QED
    BY <2>2, <2>3, FS_Subset
<1>5. CASE CatalogueRequest /\ RemoveCompetency
  <2>1. PICK new, e : /\ e \in catalogue["competency"] /\ new.id = e.id
                      /\ \A k \in Catalogues : catalogue'[k] =
                           IF k = "competency" THEN {d \in catalogue[k] : d.id # e.id} \cup {new}
                           ELSE catalogue[k]
    BY <1>5, MarkedEntry
  <2>2. \A k \in Catalogues : \A d \in catalogue[k] : \E f \in catalogue'[k] : f.id = d.id
    BY <2>1
  <2>3. Stays
    <3>1. removed' = removed
      BY <1>5 DEF RemoveCompetency
    <3> QED
      BY <2>2, <3>1 DEF Stays, Once
  <2>4. ASSUME NEW k \in Catalogues, IsFiniteSet(catalogue[k])
        PROVE  IsFiniteSet(catalogue'[k])
    <3> DEFINE A == {d \in catalogue[k] : d.id # e.id}
    <3>1. IsFiniteSet(A)
      BY <2>4, FS_Subset
    <3>2. catalogue'[k] \in {catalogue[k], A \cup {new}}
      BY <2>1
    <3> HIDE DEF A
    <3>3. IsFiniteSet(A \cup {new})
      BY <3>1, FS_AddElement
    <3> QED
      BY <2>4, <3>2, <3>3
  <2> QED
    BY <2>3, <2>4
<1> QED
  BY <1>2, <1>3, <1>4, <1>5, CatalogueSteps DEF CatalogueRequest

\* What was stored once stays so, for what refers to it.
LEMMA SoundStays ==
  ASSUME Stays
  PROVE  /\ \A t : TrainingSound(t) => TrainingSound(t)'
         /\ \A c : ImportSound(c) => ImportSound(c)'
<1>1. {"semester", "competency", "school"} \subseteq Catalogues
  BY DEF Catalogues
<1>2. \A t : TrainingSound(t) => TrainingSound(t)'
  BY <1>1 DEF Stays, TrainingSound
<1>3. \A c : ImportSound(c) => ImportSound(c)'
  BY <1>2 DEF Stays, ImportSound
<1> QED
  BY <1>2, <1>3

\* The walk carries along the training and the names an import has found.
Carries(c, d) == d.op = "writeBack" \/ (d.training = c.training /\ d.found = c.found)

Bears(c) == Walker(c) /\ {"training", "found"} \subseteq DOMAIN c

LEMMA WalkCarries ==
  ASSUME NEW c, Bears(c)
  PROVE  Carries(c, AtRow(c)) /\ Carries(c, AfterRow(c)) /\ Carries(c, AtLine(c))
<1>1. \A d : Bears(d) => Carries(d, AtRow(d))
  BY DEF Bears, Walker, Carries, AtRow, ToWriteBack
<1>2. Carries(c, AfterRow(c))
  <2> DEFINE e == [c EXCEPT !.rows = @ \ {Min(@)}, !.lines = {}]
  <2>1. Bears(e) /\ e.training = c.training /\ e.found = c.found
    BY DEF Bears, Walker
  <2>2. AfterRow(c) = AtRow(e)
    BY DEF AfterRow
  <2> HIDE DEF e
  <2>3. Carries(e, AtRow(e))
    BY <1>1, <2>1
  <2> QED
    BY <2>1, <2>2, <2>3 DEF Carries
<1>3. Carries(c, AtLine(c))
  <2>1. CASE c.lines = {}
    BY <1>2, <2>1 DEF AtLine
  <2>2. CASE c.lines # {}
    BY <2>2 DEF AtLine, Bears, Walker, Carries
  <2> QED
    BY <2>1, <2>2
<1> QED
  BY <1>1, <1>2, <1>3

\* An import is answered by the end of the job or with what is sound.
AnswersSound(c) ==
  \/ Continue(c, {})
  \/ \E d : Continue(c, {d}) /\ (d.op = "writeBack" \/ ImportSound(d)')

LEMMA CarriesSound ==
  ASSUME NEW c, NEW e, NEW d, e.training = c.training, e.found \in {c.found, NothingFound},
         ImportSound(c)', Carries(e, d), Continue(c, {d})
  PROVE  AnswersSound(c)
<1>1. CASE d.op = "writeBack"
  BY <1>1 DEF AnswersSound
<1>2. CASE d.op # "writeBack"
  <2>1. d.training = c.training /\ d.found \in {c.found, NothingFound}
    BY <1>2 DEF Carries
  <2>2. \A kind \in Catalogues : NothingFound[kind] = None
    BY DEF NothingFound
  <2>3. ImportSound(d)'
    BY <2>1, <2>2 DEF ImportSound
  <2> QED
    BY <2>3 DEF AnswersSound
<1> QED
  BY <1>1, <1>2

LEMMA EndLineSound ==
  ASSUME NEW c \in ImportCall, ImportSound(c)', NEW mark, EndLine(c, mark)
  PROVE  AnswersSound(c)
<1> DEFINE b == [c EXCEPT !.user = None, !.found = NothingFound]
           e == [MarkLine(b, mark) EXCEPT !.lines = @ \ {Min(@)}]
           d == AtLine(e)
<1>1. Bears(b) /\ b.training = c.training /\ b.found = NothingFound
  BY DEF ImportCall, Bears, Walker
<1>2. Continue(c, {d})
  BY DEF EndLine, AfterLine
<1> HIDE DEF b, d
<1>3. Bears(e) /\ e.training = c.training /\ e.found = NothingFound
  BY <1>1 DEF MarkLine, Bears, Walker
<1> HIDE DEF e
<1>4. Carries(e, d)
  BY <1>3, WalkCarries DEF d
<1> QED
  BY <1>2, <1>3, <1>4, CarriesSound

LEMMA AtParticipantsSound ==
  ASSUME NEW c \in ImportCall, NEW t, TrainingSound(t)', Continue(c, {AtParticipants(c, t)})
  PROVE  AnswersSound(c)
<1> DEFINE e == [MarkRow(c, "success") EXCEPT !.training = t, !.found = NothingFound]
           d == [e EXCEPT !.op = "readParticipants"]
<1>1. Bears(e) /\ e.training = t /\ e.found = NothingFound
  BY DEF MarkRow, ImportCall, Bears, Walker
<1>2. Continue(c, {d}) \/ Continue(c, {AfterRow(e)})
  BY DEF AtParticipants
<1> HIDE DEF e
<1>3. Carries(e, d)
  BY <1>1 DEF Carries, Bears, Walker
<1>4. Carries(e, AfterRow(e))
  BY <1>1, WalkCarries
<1> HIDE DEF d
<1>5. \A x : Carries(e, x) => x.op = "writeBack" \/ ImportSound(x)'
  <2>1. \A kind \in Catalogues : NothingFound[kind] = None
    BY DEF NothingFound
  <2> QED
    BY <1>1, <2>1 DEF Carries, ImportSound
<1> QED
  BY <1>2, <1>3, <1>4, <1>5 DEF AnswersSound

\* An import goes on along its walk with what it had, or without the names.
LEMMA WalkSound ==
  ASSUME NEW c, NEW e, Bears(e), e.training = c.training, e.found \in {c.found, NothingFound},
         ImportSound(c)', NEW d \in {e, AtRow(e), AfterRow(e), AtLine(e)}, Continue(c, {d})
  PROVE  AnswersSound(c)
<1>1. Carries(e, d)
  BY WalkCarries DEF Carries
<1> QED
  BY <1>1, CarriesSound

\* It goes on at another call of the same row or line.
LEMMA SameSound ==
  ASSUME NEW c, ImportSound(c)', NEW d, d.training = c.training, d.found = c.found,
         Continue(c, {d})
  PROVE  AnswersSound(c)
<1>1. Carries(c, d)
  BY DEF Carries
<1> QED
  BY <1>1, CarriesSound

\* It goes on with one more name.
LEMMA FoundSound ==
  ASSUME NEW c \in ImportCall, ImportSound(c)', NEW kind \in Catalogues, NEW id,
         id # None => Once(kind, id)', NEW d,
         d.training = c.training, d.found = [c.found EXCEPT ![kind] = id], Continue(c, {d})
  PROVE  AnswersSound(c)
<1>1. c.found \in [Catalogues -> EntryIds \cup {None}]
  BY DEF ImportCall
<1>2. \A k \in Catalogues : d.found[k] = IF k = kind THEN id ELSE c.found[k]
  BY <1>1
<1>3. ImportSound(d)'
  BY <1>2 DEF ImportSound
<1> QED
  BY <1>3 DEF AnswersSound

\* What is added is stored.
LEMMA AddedOnce ==
  ASSUME TypeInv, NEW kind \in Catalogues, NEW id, NEW name, AddEntry(kind, id, name)
  PROVE  Once(kind, id)'
<1> DEFINE new == [id |-> id, name |-> Stored(kind, name), deleted |-> FALSE]
<1>1. new.id = id
  OBVIOUS
<1>2. catalogue' = [catalogue EXCEPT ![kind] = catalogue[kind] \cup {new}]
  BY DEF AddEntry
<1> HIDE DEF new
<1>3. new \in catalogue'[kind]
  BY <1>2 DEF TypeInv, MigrationTypeOK, RegistryTypeOK
<1> QED
  BY <1>1, <1>3 DEF Once

LEMMA CreationSound ==
  ASSUME NEW c \in ImportCall, ImportSound(c)', NEW school, Once("school", school)',
         AtCreation(c, school)
  PROVE  AnswersSound(c)
<1>1. CASE EndLine(c, "error")
  BY <1>1, EndLineSound
<1>2. CASE ~EndLine(c, "error")
  <2> DEFINE d == [c EXCEPT !.op = "findDuplicate", !.found["school"] = school]
  <2>1. Continue(c, {d})
    BY <1>2 DEF AtCreation
  <2>2. d.training = c.training /\ d.found = [c.found EXCEPT !["school"] = school]
    BY DEF ImportCall
  <2> HIDE DEF d
  <2>3. "school" \in Catalogues
    BY DEF Catalogues
  <2> QED
    BY <2>1, <2>2, <2>3, FoundSound
<1> QED
  BY <1>1, <1>2

LEMMA EnrolmentSound ==
  ASSUME NEW c \in ImportCall, c.training \in Training, ImportSound(c)', NEW user,
         AtEnrolment(c, user)
  PROVE  AnswersSound(c)
<1>1. CASE EndLine(c, "success")
  BY <1>1, EndLineSound
<1>2. CASE ~EndLine(c, "success")
  <2> DEFINE t == With(c, user)
             d == [c EXCEPT !.op = "replaceTraining", !.user = None,
                            !.found = NothingFound, !.training = t]
  <2>1. Continue(c, {d})
    BY <1>2 DEF AtEnrolment
  <2>2. /\ t.semester = c.training.semester /\ t.competency = c.training.competency
        /\ t.organizer = c.training.organizer
    BY DEF With, Training
  <2>3. c.training # None
    BY RegistryAssumption
  <2>4. TrainingSound(t)'
    BY <2>2, <2>3 DEF ImportSound, TrainingSound
  <2> HIDE DEF t
  <2>5. d.training = t /\ d.found = NothingFound
    BY DEF ImportCall
  <2> HIDE DEF d
  <2>6. \A kind \in Catalogues : NothingFound[kind] = None
    BY DEF NothingFound
  <2>7. ImportSound(d)'
    BY <2>4, <2>5, <2>6 DEF ImportSound
  <2> QED
    BY <2>1, <2>7 DEF AnswersSound
<1> QED
  BY <1>1, <1>2

LEMMA RowsSound ==
  ASSUME TypeInv, StockInv, Stays, NEW c \in ImportCall, ImportFits(c), c \in CallsOf("import"),
         ImportSound(c)',
         \/ ReadImportRows(c) \/ FindTraining(c) \/ CreateTraining(c)
         \/ ReadImportLines(c) \/ ReplaceTraining(c) \/ FailImport(c)
  PROVE  AnswersSound(c)
<1>1. CASE Continue(c, {})
  BY <1>1 DEF AnswersSound
<1>2. ASSUME NEW training, TrainingSound(training)', Continue(c, {AtParticipants(c, training)})
      PROVE  AnswersSound(c)
  BY <1>2, AtParticipantsSound
<1>3. CASE ReadImportRows(c)
  <2>1. PICK rows, results :
          Continue(c, {}) \/ Continue(c, {AtRow([c EXCEPT !.rows = rows, !.results[FirstSheet] = results])})
    BY <1>3 DEF ReadImportRows
  <2> DEFINE e == [c EXCEPT !.rows = rows, !.results[FirstSheet] = results]
  <2>2. Bears(e) /\ e.training = c.training /\ e.found = c.found
    BY DEF ImportCall, Bears, Walker
  <2>3. Continue(c, {}) \/ Continue(c, {AtRow(e)})
    BY <2>1
  <2> HIDE DEF e
  <2> QED
    BY <1>1, <2>2, <2>3, WalkSound
<1>4. CASE FindTraining(c)
  <2>1. CASE Continue(c, {[c EXCEPT !.op = "findNames", !.asked = Catalogues]})
    <3> DEFINE d == [c EXCEPT !.op = "findNames", !.asked = Catalogues]
    <3>1. d.training = c.training /\ d.found = c.found /\ Continue(c, {d})
      BY <2>1 DEF ImportCall
    <3> HIDE DEF d
    <3> QED
      BY <3>1, SameSound
  <2>2. ASSUME NEW training \in WithCode(Code(c)), Continue(c, {AtParticipants(c, training)})
        PROVE  AnswersSound(c)
    <3>1. TrainingSound(training)'
      BY SoundStays DEF StockInv, WithCode
    <3> QED
      BY <1>2, <2>2, <3>1
  <2> QED
    BY <1>4, <2>1, <2>2 DEF FindTraining
<1>5. CASE CreateTraining(c)
  <2>1. PICK id \in TrainingIds :
          Continue(c, {AtParticipants(c,
            [id |-> id, code |-> Code(c), type |-> TrainingRow(c).type,
             semester |-> c.found["semester"], competency |-> c.found["competency"],
             organizer |-> c.found["school"], participants |-> <<>>])})
    BY <1>5 DEF CreateTraining
  <2> DEFINE new == [id |-> id, code |-> Code(c), type |-> TrainingRow(c).type,
             semester |-> c.found["semester"], competency |-> c.found["competency"],
             organizer |-> c.found["school"], participants |-> <<>>]
  <2>2. \A kind \in Catalogues : c.found[kind] # None
    BY <1>5 DEF CreateTraining, ImportFits, Missing
  <2>3. TrainingSound(new)'
    BY <2>2 DEF ImportSound, TrainingSound, Catalogues
  <2>4. Continue(c, {AtParticipants(c, new)})
    BY <2>1
  <2> HIDE DEF new
  <2> QED
    BY <1>2, <2>3, <2>4
<1>6. CASE ReadImportLines(c)
  <2>1. PICK errors, open :
          Continue(c, {}) \/ Continue(c, {AtLine([c EXCEPT !.results[Code(c)] = errors, !.lines = open])})
    BY <1>6 DEF ReadImportLines, ReadParticipants
  <2> DEFINE e == [c EXCEPT !.results[Code(c)] = errors, !.lines = open]
  <2>2. Bears(e) /\ e.training = c.training /\ e.found = c.found
    BY DEF ImportCall, Bears, Walker
  <2>3. Continue(c, {}) \/ Continue(c, {AtLine(e)})
    BY <2>1
  <2> HIDE DEF e
  <2> QED
    BY <1>1, <2>2, <2>3, WalkSound
<1>7. CASE ReplaceTraining(c)
  BY <1>7, EndLineSound DEF ReplaceTraining
<1>8. CASE FailImport(c)
  <2> DEFINE e == [MarkRow(c, "error") EXCEPT !.found = NothingFound, !.asked = {}]
  <2>1. Bears(e) /\ e.training = c.training /\ e.found = NothingFound
    BY DEF ImportCall, Bears, Walker, MarkRow
  <2>2. EndLine(c, "error") \/ Continue(c, {AfterRow(e)}) \/ Continue(c, {})
    BY <1>8 DEF FailImport
  <2> HIDE DEF e
  <2> QED
    BY <1>1, <2>1, <2>2, EndLineSound, WalkSound
<1> QED
  BY <1>3, <1>4, <1>5, <1>6, <1>7, <1>8

LEMMA NamesSound ==
  ASSUME TypeInv, Stays, NEW c \in ImportCall, ImportSound(c)', FindName(c) \/ CreateName(c)
  PROVE  AnswersSound(c)
<1>1. ASSUME NEW kind \in Catalogues, NEW id, id # None => Once(kind, id)', NEW asked,
             NEW d \in {[c EXCEPT !.asked = asked, !.found[kind] = id],
                        AtNames([c EXCEPT !.asked = asked, !.found[kind] = id])},
             Continue(c, {d})
      PROVE  AnswersSound(c)
  <2>1. d.training = c.training /\ d.found = [c.found EXCEPT ![kind] = id]
    BY <1>1 DEF ImportCall, AtNames
  <2> QED
    BY <1>1, <2>1, FoundSound
<1>2. CASE FindName(c)
  <2>1. PICK kind \in c.asked :
          LET named == Called(kind, NameOf(TrainingRow(c), kind)) IN
          \E id \in IF named = {} THEN {None} ELSE {e.id : e \in named} :
            LET d == [c EXCEPT !.asked = @ \ {kind}, !.found[kind] = id] IN
            Continue(c, {IF d.asked = {} THEN AtNames(d) ELSE d})
    BY <1>2 DEF FindName
  <2>2. kind \in Catalogues
    BY <2>1 DEF ImportCall
  <2> DEFINE named == Called(kind, NameOf(TrainingRow(c), kind))
             asked == c.asked \ {kind}
  <2>3. \A e \in named : Once(kind, e.id)
    BY DEF Called, Once
  <2> HIDE DEF named
  <2>4. PICK id : /\ id # None => Once(kind, id)
                  /\ LET d == [c EXCEPT !.asked = @ \ {kind}, !.found[kind] = id] IN
                     Continue(c, {IF d.asked = {} THEN AtNames(d) ELSE d})
    BY <2>1, <2>3 DEF named
  <2> DEFINE d == [c EXCEPT !.asked = asked, !.found[kind] = id]
  <2>5. Continue(c, {d}) \/ Continue(c, {AtNames(d)})
    BY <2>4
  <2>6. id # None => Once(kind, id)'
    BY <2>2, <2>4 DEF Stays
  <2> QED
    BY <1>1, <2>2, <2>5, <2>6
<1>3. CASE CreateName(c)
  <2>0. PICK kind \in Missing(c) : \E id :
          /\ AddEntry(kind, id, NameOf(TrainingRow(c), kind))
          /\ Continue(c, {AtNames([c EXCEPT !.found[kind] = id])})
    BY <1>3 DEF CreateName
  <2>1. PICK id :
          /\ AddEntry(kind, id, NameOf(TrainingRow(c), kind))
          /\ Continue(c, {AtNames([c EXCEPT !.found[kind] = id])})
    BY <2>0
  <2>2. kind \in Catalogues
    BY DEF Missing
  <2>3. Once(kind, id)'
    BY <2>1, <2>2, AddedOnce
  <2>4. [c EXCEPT !.found[kind] = id] = [c EXCEPT !.asked = c.asked, !.found[kind] = id]
    BY DEF ImportCall
  <2> QED
    BY <1>1, <2>1, <2>2, <2>3, <2>4
<1> QED
  BY <1>2, <1>3

LEMMA PersonsSound ==
  ASSUME TypeInv, Stays, NEW c \in ImportCall, ImportFits(c), ImportSound(c)',
         \/ FindProfessor(c) \/ DeleteUser(c) \/ FindNamesake(c) \/ DeleteNamesake(c)
         \/ FindSchool(c) \/ CreateSchool(c) \/ FindDuplicate(c) \/ CreateUser(c)
         \/ ReadBackup(c)
  PROVE  AnswersSound(c)
<1>1. \A mark : EndLine(c, mark) => AnswersSound(c)
  BY EndLineSound
<1>2. ASSUME NEW op, NEW user, Continue(c, {[c EXCEPT !.op = op, !.user = user]})
      PROVE  AnswersSound(c)
  <2> DEFINE d == [c EXCEPT !.op = op, !.user = user]
  <2>1. d.training = c.training /\ d.found = c.found /\ Continue(c, {d})
    BY <1>2 DEF ImportCall
  <2> HIDE DEF d
  <2> QED
    BY <2>1, SameSound
<1>3. ASSUME NEW op, Continue(c, {[c EXCEPT !.op = op]})
      PROVE  AnswersSound(c)
  <2>1. [c EXCEPT !.op = op] = [c EXCEPT !.op = op, !.user = c.user]
    BY DEF ImportCall
  <2> QED
    BY <1>2, <1>3, <2>1
<1>4. CASE FindProfessor(c)
  <2>1. ASSUME NEW u, AtEnrolment(c, u)
        PROVE  AnswersSound(c)
    <3>1. c.training \in Training
      BY <1>4 DEF FindProfessor, ImportFits, HoldingOps, LineOps
    <3> QED
      BY <2>1, <3>1, EnrolmentSound
  <2> QED
    BY <1>2, <1>3, <1>4, <2>1 DEF FindProfessor
<1>5. CASE ReadBackup(c)
  <2>1. c.training \in Training
    BY <1>5 DEF ReadBackup, ImportFits, HoldingOps, LineOps
  <2> QED
    BY <1>1, <1>5, <2>1, EnrolmentSound DEF ReadBackup
<1>6. CASE DeleteUser(c) \/ DeleteNamesake(c)
  BY <1>1, <1>2, <1>6 DEF DeleteUser, DeleteNamesake, Delete
<1>7. CASE FindNamesake(c)
  BY <1>2, <1>3, <1>7 DEF FindNamesake
<1>8. CASE FindSchool(c)
  <2>1. ASSUME NEW e \in Called("school", Line(c).school), AtCreation(c, e.id)
        PROVE  AnswersSound(c)
    <3>1. Once("school", e.id)'
      BY DEF Called, Once, Stays, Catalogues
    <3> QED
      BY <2>1, <3>1, CreationSound
  <2> QED
    BY <1>3, <1>8, <2>1 DEF FindSchool
<1>9. CASE CreateSchool(c)
  <2>1. PICK id : AddEntry("school", id, Line(c).school) /\ AtCreation(c, id)
    BY <1>9 DEF CreateSchool
  <2>2. Once("school", id)'
    BY <2>1, AddedOnce DEF Catalogues
  <2> QED
    BY <2>1, <2>2, CreationSound
<1>10. CASE FindDuplicate(c)
  BY <1>1, <1>3, <1>10 DEF FindDuplicate
<1>11. CASE CreateUser(c)
  BY <1>2, <1>11 DEF CreateUser
<1> QED
  BY <1>4, <1>5, <1>6, <1>7, <1>8, <1>9, <1>10, <1>11

\* How the trainings change.
LEMMA TrainingsWritten ==
  ASSUME TypeInv, [MigrationNext]_migrationVars
  PROVE  \/ trainings' = trainings
         \/ \E c \in CallsOf("import") : CreateTraining(c) \/ ReplaceTraining(c)
<1>1. ASSUME NEW c \in BagToSet(pending), Work(c) \/ Reject(c)
      PROVE  \/ trainings' = trainings
             \/ c \in CallsOf("import") /\ (CreateTraining(c) \/ ReplaceTraining(c))
  <2>1. CASE CreateTraining(c) \/ ReplaceTraining(c)
    BY <2>1, WhoImports DEF AnswerImport
  <2>2. CASE AnswerImport(c) /\ ~CreateTraining(c) /\ ~ReplaceTraining(c)
    BY <2>2 DEF AnswerImport, ReadImportRows, FindTraining, FindName, CreateName,
       ReadImportLines, FindProfessor, DeleteUser, FindNamesake, DeleteNamesake, Delete,
       FindSchool, CreateSchool, FindDuplicate, CreateUser, ReadBackup, registryVars
  <2>3. CASE ~AnswerImport(c)
    BY <1>1, <2>3 DEF Work, Reject, OnlyMailing, FailImport, ServeReport, FailReport,
       ReadTrainings, ReadSchools, ReadUsers, AnswerReport, Read, registryVars
  <2> QED
    BY <2>1, <2>2, <2>3
<1>2. CASE \/ MigrationRequest \/ CatalogueRequest \/ Interrupt \/ UNCHANGED migrationVars
           \/ \E sheet \in ToSet(Sheets) : \E line \in 1..Height(sheet) : PauseLine(sheet, line)
  BY <1>2 DEF MigrationRequest, MigrateFromExcel, ReportRequest, CatalogueRequest,
     RemoveSchool, RemoveCompetency,
     Interrupt, migrationVars, PauseLine, registryVars
<1> QED
  BY <1>1, <1>2 DEF MigrationNext

\* A set that has lost some and got at most one more is finite.
LEMMA GrowsByOne ==
  ASSUME NEW S, IsFiniteSet(S), NEW T, NEW x, T \subseteq S \cup {x}
  PROVE  IsFiniteSet(T)
<1>1. IsFiniteSet(S \cup {x})
  BY FS_AddElement
<1> QED
  BY <1>1, FS_Subset

LEMMA TrainingsSound ==
  ASSUME TypeInv, StockInv, Stays, [MigrationNext]_migrationVars
  PROVE  IsFiniteSet(trainings') /\ \A t \in trainings' : TrainingSound(t)'
<1>1. IsFiniteSet(trainings) /\ \A t \in trainings : TrainingSound(t)'
  BY SoundStays DEF StockInv
<1>2. ASSUME NEW new, trainings' \subseteq trainings \cup {new}, TrainingSound(new)'
      PROVE  IsFiniteSet(trainings') /\ \A t \in trainings' : TrainingSound(t)'
  BY <1>1, <1>2, GrowsByOne
<1>3. ASSUME NEW c \in CallsOf("import"), CreateTraining(c)
      PROVE  IsFiniteSet(trainings') /\ \A t \in trainings' : TrainingSound(t)'
  <2>1. PICK id : trainings' = trainings \cup {
            [id |-> id, code |-> Code(c), type |-> TrainingRow(c).type,
             semester |-> c.found["semester"], competency |-> c.found["competency"],
             organizer |-> c.found["school"], participants |-> <<>>]}
    BY <1>3 DEF CreateTraining
  <2> DEFINE new == [id |-> id, code |-> Code(c), type |-> TrainingRow(c).type,
             semester |-> c.found["semester"], competency |-> c.found["competency"],
             organizer |-> c.found["school"], participants |-> <<>>]
  <2>2. c \in BagToSet(pending) /\ AnswerImport(c)
    BY <1>3 DEF CallsOf, AnswerImport
  <2>3. ImportFits(c)
    BY <2>2, WhoImports
  <2>4. \A kind \in Catalogues : c.found[kind] # None
    BY <1>3, <2>3 DEF CreateTraining, ImportFits, Missing
  <2>5. ImportSound(c)'
    BY SoundStays DEF StockInv
  <2>6. TrainingSound(new)'
    BY <2>4, <2>5 DEF ImportSound, TrainingSound, Catalogues
  <2>7. trainings' \subseteq trainings \cup {new}
    BY <2>1
  <2> HIDE DEF new
  <2> QED
    BY <1>2, <2>6, <2>7
<1>4. ASSUME NEW c \in CallsOf("import"), ReplaceTraining(c)
      PROVE  IsFiniteSet(trainings') /\ \A t \in trainings' : TrainingSound(t)'
  <2>1. c \in BagToSet(pending) /\ AnswerImport(c)
    BY <1>4 DEF CallsOf, AnswerImport
  <2>2. ImportFits(c) /\ c.op = "replaceTraining"
    BY <1>4, <2>1, WhoImports DEF ReplaceTraining
  <2>3. c.training # None
    BY <2>2, RegistryAssumption DEF ImportFits, HoldingOps, LineOps
  <2>4. ImportSound(c)'
    BY SoundStays DEF StockInv
  <2>5. TrainingSound(c.training)'
    BY <2>3, <2>4 DEF ImportSound
  <2>6. trainings' \subseteq trainings \cup {c.training}
    BY <1>4 DEF ReplaceTraining, Replaced
  <2> QED
    BY <1>2, <2>5, <2>6
<1>5. CASE trainings' = trainings
  BY <1>1, <1>5
<1> QED
  BY <1>3, <1>4, <1>5, TrainingsWritten

LEMMA UsersFinite ==
  ASSUME TypeInv, KeptInv, IsFiniteSet(users), [MigrationNext]_migrationVars
  PROVE  IsFiniteSet(users')
<1>1. ASSUME NEW w, users' \subseteq users \cup {w}
      PROVE  IsFiniteSet(users')
  BY <1>1, GrowsByOne
<1>2. \E w : users' \subseteq users \cup {w}
  BY UsersWrites DEF UsersWritten, WritesUser, CreatesUser, Replaced
<1> QED
  BY <1>1, <1>2

LEMMA ImportsSound ==
  ASSUME TypeInv, StockInv, Stays, [MigrationNext]_migrationVars
  PROVE  \A d \in CallsOf("import")' : ImportSound(d)'
<1>1. IsABag(pending) /\ \A d \in CallsOf("import") : ImportSound(d)'
  BY SoundStays DEF TypeInv, MigrationTypeOK, StockInv
<1>2. CASE CallsOf("import")' \subseteq CallsOf("import")
  BY <1>1, <1>2
<1>3. CASE MigrationRequest
  <2>1. CASE \E job : job # "import" /\ Sends(job)
    <3>1. PICK job, d : job # "import" /\ Start({d}) /\ d.job = job /\ d.op # "writeBack"
      BY <2>1 DEF Sends
    <3> QED
      BY <1>1, <1>2, <3>1, SendCalls
  <2>2. CASE Sends("import") /\ MigrateFromExcel
    <3> DEFINE d == [op |-> "readTrainings", job |-> "import", rows |-> {}, lines |-> {},
                     results |-> [s \in SheetNames |-> <<>>], training |-> None,
                     found |-> NothingFound, asked |-> {}, user |-> None]
    <3>1. Start({d}) /\ d.job = "import" /\ d.op = "readTrainings"
      BY <2>2 DEF MigrateFromExcel
    <3>2. d.training = None /\ d.found = NothingFound
      OBVIOUS
    <3> HIDE DEF d
    <3>3. CallsOf("import")' = CallsOf("import") \cup {d}
      BY <1>1, <3>1, SendCalls
    <3>4. ImportSound(d)'
      BY <3>2 DEF ImportSound, NothingFound
    <3> QED
      BY <1>1, <3>3, <3>4
  <2> QED
    BY <1>3, <2>1, <2>2, RequestsSend
<1>4. CASE \/ \E sheet \in ToSet(Sheets) : \E line \in 1..Height(sheet) : PauseLine(sheet, line)
           \/ CatalogueRequest
           \/ UNCHANGED migrationVars
  <2>1. pending' = pending
    BY <1>4 DEF PauseLine, CatalogueRequest, migrationVars
  <2> QED
    BY <1>2, <2>1 DEF CallsOf
<1>5. ASSUME NEW c \in BagToSet(pending), Work(c) \/ Reject(c), c \notin CallsOf("import")
      PROVE  CallsOf("import")' = CallsOf("import")
  BY <1>5, JobSame
<1>6. ASSUME NEW c \in CallsOf("import"), Work(c) \/ Reject(c)
      PROVE  \A d \in CallsOf("import")' : ImportSound(d)'
  <2>1. c \in BagToSet(pending) /\ c.job = "import" /\ c.op # "writeBack"
    BY DEF CallsOf
  <2>2. ~AnswerMail(c) /\ ~FailMail(c) /\ ~ServeReport(c) /\ ~FailReport(c) /\ ~WriteBack(c)
    BY <2>1, WhoMails, WhoReports DEF CallsOf, WriteBack, FailMail
  <2>3. AnswerImport(c) \/ FailImport(c)
    BY <1>6, <2>2 DEF Work, Reject
  <2>4. c \in ImportCall /\ ImportFits(c)
    BY <2>1, <2>3, WhoImports
  <2>5. ImportSound(c)'
    BY <1>1
  <2>6. AnswersSound(c)
    <3>1. CASE \/ ReadImportRows(c) \/ FindTraining(c) \/ CreateTraining(c)
               \/ ReadImportLines(c) \/ ReplaceTraining(c) \/ FailImport(c)
      BY <2>4, <2>5, <3>1, RowsSound
    <3>2. CASE FindName(c) \/ CreateName(c)
      BY <2>4, <2>5, <3>2, NamesSound
    <3>3. CASE \/ FindProfessor(c) \/ DeleteUser(c) \/ FindNamesake(c) \/ DeleteNamesake(c)
               \/ FindSchool(c) \/ CreateSchool(c) \/ FindDuplicate(c) \/ CreateUser(c)
               \/ ReadBackup(c)
      BY <2>4, <2>5, <3>3, PersonsSound
    <3> QED
      BY <2>3, <3>1, <3>2, <3>3 DEF AnswerImport
  <2>7. CASE Continue(c, {})
    BY <1>1, <2>1, <2>7, ContinueCalls DEF CallsOf
  <2>8. ASSUME NEW d, Continue(c, {d}), d.op = "writeBack" \/ ImportSound(d)'
        PROVE  \A e \in CallsOf("import")' : ImportSound(e)'
    <3>1. BagToSet(pending') \subseteq BagToSet(pending) \cup {d}
      BY <1>1, <2>8, ContinueCalls
    <3> QED
      BY <1>1, <2>8, <3>1 DEF CallsOf
  <2> QED
    BY <2>6, <2>7, <2>8 DEF AnswersSound
<1>7. CASE Interrupt
  BY <1>7, NoCalls DEF Interrupt, CallsOf
<1> QED
  BY <1>2, <1>3, <1>4, <1>5, <1>6, <1>7 DEF MigrationNext

LEMMA StockKept ==
  TypeInv /\ KeptInv /\ StockInv /\ [MigrationNext]_migrationVars => StockInv'
<1> SUFFICES ASSUME TypeInv, KeptInv, StockInv, [MigrationNext]_migrationVars
             PROVE  StockInv'
  OBVIOUS
<1>1. Stays /\ \A kind \in Catalogues : IsFiniteSet(catalogue'[kind])
  BY OnceStays DEF StockInv
<1>2. IsFiniteSet(users')
  BY UsersFinite DEF StockInv
<1>3. IsFiniteSet(trainings') /\ \A t \in trainings' : TrainingSound(t)'
  BY <1>1, TrainingsSound
<1>4. \A d \in CallsOf("import")' : ImportSound(d)'
  BY <1>1, ImportsSound
<1> QED
  BY <1>1, <1>2, <1>3, <1>4 DEF StockInv

LEMMA StockAtStart == MigrationInit => StockInv
<1> SUFFICES ASSUME MigrationInit
             PROVE  StockInv
  OBVIOUS
<1>1. /\ users = FirstUsers /\ trainings = {} /\ pending = EmptyBag
      /\ \A kind \in Catalogues : catalogue[kind] \in {FirstSchools, {}}
  BY DEF MigrationInit, RegistryInit
<1>2. CallsOf("import") = {}
  BY <1>1, NoCalls DEF CallsOf
<1>3. IsFiniteSet(users) /\ IsFiniteSet(trainings)
  BY <1>1, RegistryAssumption, FS_EmptySet
<1>4. \A kind \in Catalogues : IsFiniteSet(catalogue[kind])
  BY <1>1, RegistryAssumption, FS_EmptySet
<1> QED
  BY <1>1, <1>2, <1>3, <1>4 DEF StockInv

LEMMA StockHolds == MigrationSpec => [](TypeInv /\ AloneInv /\ KeptInv /\ StockInv)
BY KeptHolds, StockAtStart, StockKept, PTL DEF MigrationSpec
-----------------------------------------------------------------------------
(* The reports of what is stored.                                           *)

\* Ids of stored entries.
IdsOf(kind) == {e.id : e \in catalogue[kind]}

LEMMA IdsFinite ==
  ASSUME NEW kind, IsFiniteSet(catalogue[kind])
  PROVE  IsFiniteSet(IdsOf(kind))
<1> DEFINE S == catalogue[kind]
           f == [e \in S |-> e.id]
           T == IdsOf(kind)
<1>1. f \in Surjection(S, T)
  BY DEF Surjection, IdsOf
<1> HIDE DEF f
<1>2. IsFiniteSet(S)
  OBVIOUS
<1> HIDE DEF S
<1>3. IsFiniteSet(T)
  BY <1>1, <1>2, FS_Surjection
<1> QED
  BY <1>3

\* The reports on the trainings that are stored agree, however imports, mails
\* and removals from the catalogues have changed what they are drawn from:
LEMMA StockAgrees ==
  ASSUME TypeInv, StockInv
  PROVE  ReportsAgree
<1> SUFFICES ASSUME NEW key \in {t.semester : t \in trainings}
             PROVE  LET schools == SchoolIds
                        ts == Selected(key)
                        total == Participation(ts, users)
                        employment == ByEmployment(ts, users)
                        school == BySchool(ts, schools, users)
                        deleted == {e.id : e \in {d \in catalogue["competency"] : d.deleted}}
                    IN /\ ~EmploymentFails(users) =>
                            /\ total.attended =
                                 SumOf([e \in DOMAIN employment |-> employment[e].attended])
                            /\ total.pending =
                                 SumOf([e \in DOMAIN employment |-> employment[e].pending])
                       /\ Cardinality({t \in ts : t.competency \notin deleted})
                            = SumOf(ByCompetency(ts))
                       /\ ~school.failed =>
                            /\ \A s \in schools : school.rows[s].pending >= 0
                            /\ total.attended = SumOf([s \in schools |-> school.rows[s].attended])
                       /\ \A t \in ts : ~AttendanceFails({t}, schools, users) =>
                            LET whole == Attendance(t)
                                parts == AttendedBySchool(t, schools, users)
                                gone == Attended(t, UserIds \ {u.id : u \in users}) IN
                            /\ whole.attended =
                                 SumOf([s \in schools |-> parts[s].attended]) + gone.attended
                            /\ whole.pending =
                                 SumOf([s \in schools |-> parts[s].pending]) + gone.pending
  BY DEF ReportsAgree
<1> DEFINE schools == SchoolIds
           ts == Selected(key)
           deleted == {e.id : e \in {d \in catalogue["competency"] : d.deleted}}
<1>1. /\ users \in SUBSET User /\ IsFiniteSet(users)
      /\ \A u, v \in users : u.id = v.id => u = v
  BY DEF TypeInv, MigrationTypeOK, RegistryTypeOK, StockInv
<1>2. ts \subseteq trainings /\ ts \in SUBSET Training
  BY DEF Selected, TypeInv, MigrationTypeOK, RegistryTypeOK
<1>3. IsFiniteSet(ts)
  <2> HIDE DEF ts
  <2> QED
    BY <1>2, FS_Subset DEF StockInv
<1>4. /\ IsFiniteSet(catalogue["school"]) /\ IsFiniteSet(catalogue["competency"])
      /\ catalogue["competency"] \subseteq Entry
      /\ \A d, e \in catalogue["competency"] : d.id = e.id => d = e
  BY DEF StockInv, Catalogues, TypeInv, MigrationTypeOK, RegistryTypeOK
<1>5. IsFiniteSet(schools)
  BY <1>4, IdsFinite DEF IdsOf, SchoolIds
<1>6. \A t \in ts : \E e \in catalogue["competency"] : e.id = t.competency
  BY <1>2 DEF StockInv, TrainingSound, Once
<1> HIDE DEF schools, ts
<1>7. ~EmploymentFails(users) =>
        LET total == Participation(ts, users)
            employment == ByEmployment(ts, users) IN
        /\ total.attended = SumOf([e \in DOMAIN employment |-> employment[e].attended])
        /\ total.pending = SumOf([e \in DOMAIN employment |-> employment[e].pending])
  BY <1>1, EmploymentAgrees
<1>8. Cardinality({t \in ts : t.competency \notin deleted}) = SumOf(ByCompetency(ts))
  BY <1>2, <1>3, <1>4, <1>6, CompetencyAgrees
<1>9. ~BySchool(ts, schools, users).failed =>
        LET school == BySchool(ts, schools, users) IN
        /\ \A s \in schools : school.rows[s].pending >= 0
        /\ Participation(ts, users).attended = SumOf([s \in schools |-> school.rows[s].attended])
  BY <1>1, <1>2, <1>3, <1>5, SchoolsAgree
<1>10. ASSUME NEW t \in ts, ~AttendanceFails({t}, schools, users)
       PROVE  LET whole == Attendance(t)
                  parts == AttendedBySchool(t, schools, users)
                  gone == Attended(t, UserIds \ {u.id : u \in users}) IN
              /\ whole.attended = SumOf([s \in schools |-> parts[s].attended]) + gone.attended
              /\ whole.pending = SumOf([s \in schools |-> parts[s].pending]) + gone.pending
  <2>1. t \in Training
    BY <1>2
  <2>2. users \in SUBSET User /\ \A u, v \in users : u.id = v.id => u = v
    BY <1>1
  <2>3. IsFiniteSet(schools) /\ ~AttendanceFails({t}, schools, users)
    BY <1>5, <1>10
  <2> QED
    BY <2>1, <2>2, <2>3, AttendanceAgrees, ZenonT(60)
<1> QED
  BY <1>7, <1>8, <1>9, <1>10 DEF schools, ts

\* Whatever imports, mails and removals of schools and competencies have left in
\* the containers, the reports drawn from it agree: the numbers of a semester by
\* school, by type of employment and in total, none of them negative; those on a
\* training in total and by school, but for participants that are no users; and
\* its trainings and those by competency, but for competencies marked as deleted;
\* for any number of users, trainings and schools, although each report walks
\* through the participants in its own way.
\* (getProfessorParticipationBySchool, getEmploymentTypeReport,
\* getParticipation, getAsistance, getAsistanceBySchool,
\* getTrainingsByCompetency.)
THEOREM ReportsAlwaysAgree == MigrationSpec => []ReportsAgree
BY StockHolds, StockAgrees, PTL
-----------------------------------------------------------------------------
(* Schools: those of the users are stored, and a report has read them.      *)

\* A user is written from a copy, which was read from the users.
CopyingOps == CopyOps \cup {"replaceAddress"}

CopyRead(d) == d.op \in CopyingOps => \E u \in users : u.school = d.copy.school

AnswersRead(c) == Continue(c, {}) \/ \E d : Continue(c, {d}) /\ CopyRead(d)

LEMMA MailRead ==
  ASSUME TypeInv, NEW c \in BagToSet(pending), MailWork(c), c \in MailCall, MailFits(c)
  PROVE  AnswersRead(c)
<1>1. ASSUME NEW d, d.op \notin CopyingOps, Continue(c, {d})
      PROVE  AnswersRead(c)
  BY <1>1 DEF AnswersRead, CopyRead
<1>2. \A mark : EndMail(c, mark) => AnswersRead(c)
  <2> SUFFICES ASSUME NEW mark, EndMail(c, mark)
               PROVE  AnswersRead(c)
    OBVIOUS
  <2>1. PICK d : Plain(d) /\ Continue(c, {d})
    BY EndMailNext
  <2>2. d.op \notin CopyingOps
    BY <2>1 DEF Plain, CopyingOps, CopyOps
  <2> QED
    BY <1>1, <2>1, <2>2
<1>3. ASSUME NEW op \in {"findAddress", "findDocument", "readForEmail",
                         "sendMail", "readForAppend", "writeAppend"}, NEW d,
             \/ d = [c EXCEPT !.op = op] \/ \E list : d = [c EXCEPT !.op = op, !.list = list]
             \/ d = [c EXCEPT !.op = op, !.copy = None],
             Continue(c, {d})
      PROVE  AnswersRead(c)
  <2>1. d.op = op
    BY <1>3 DEF MailCall
  <2>2. d.op \notin CopyingOps
    BY <2>1 DEF CopyingOps, CopyOps
  <2> QED
    BY <1>1, <1>3, <2>2
<1>4. ASSUME NEW user, NEW password,
             Continue(c, {[c EXCEPT !.op = "readForPassword", !.user = user,
                                    !.list = {}, !.password = password]})
      PROVE  AnswersRead(c)
  <2> DEFINE d == [c EXCEPT !.op = "readForPassword", !.user = user,
                            !.list = {}, !.password = password]
  <2>1. d.op = "readForPassword" /\ Continue(c, {d})
    BY <1>4 DEF MailCall
  <2> HIDE DEF d
  <2>2. d.op \notin CopyingOps
    BY <2>1 DEF CopyingOps, CopyOps
  <2> QED
    BY <1>1, <2>1, <2>2
<1>5. CASE ReadMailRows(c) \/ ReadMailLines(c)
  <2>1. StaysInWalk(c) /\ c.job = "mails"
    BY <1>5, RowsInJob, LinesInJob DEF MailCall
  <2>2. CASE Continue(c, {})
    BY <2>2 DEF AnswersRead
  <2>3. CASE ~Continue(c, {})
    <3>1. PICK d : d.op \in {"writeBack", RowOp[c.job], LineOp[c.job]} /\ Continue(c, {d})
      BY <2>1, <2>3 DEF StaysInWalk
    <3>2. d.op \notin CopyingOps
      BY <2>1, <3>1 DEF RowOp, LineOp, CopyingOps, CopyOps
    <3> QED
      BY <1>1, <3>1, <3>2
  <2> QED
    BY <2>2, <2>3
<1>6. CASE ReadProcessed(c) \/ FindAddress(c)
  BY <1>2, <1>3, <1>6 DEF ReadProcessed, FindAddress, NoMailDue
<1>7. CASE FindDocument(c)
  <2>1. \/ \E mark : EndMail(c, mark)
        \/ \E user \in users : \E password :
             Continue(c, {[c EXCEPT !.op = "readForPassword", !.user = user,
                                    !.list = {}, !.password = password]})
    BY <1>7 DEF FindDocument, NoMailDue, WithDocument
  <2> QED
    BY <1>2, <1>4, <2>1
<1>8. CASE ReadForPassword(c) \/ ReadForEmail(c)
  <2>1. ASSUME NEW op, NEW u \in WithId(c.user.id), Continue(c, {[c EXCEPT !.op = op, !.copy = u]})
        PROVE  AnswersRead(c)
    <3> DEFINE d == [c EXCEPT !.op = op, !.copy = u]
    <3>1. d.copy = u /\ Continue(c, {d})
      BY <2>1 DEF MailCall
    <3> HIDE DEF d
    <3>2. CopyRead(d)
      BY <3>1 DEF CopyRead, WithId
    <3> QED
      BY <3>1, <3>2 DEF AnswersRead
  <2> QED
    BY <1>2, <1>8, <2>1 DEF ReadForPassword, ReadForEmail, ReadUserFor
<1>9. CASE ReplacePassword(c) \/ ReplaceEmail(c)
  <2>1. \/ EndMail(c, "error")
        \/ \E op \in {"readForEmail", "sendMail"} : Continue(c, {[c EXCEPT !.op = op, !.copy = None]})
    BY <1>9 DEF ReplacePassword, ReplaceEmail
  <2> QED
    BY <1>2, <1>3, <2>1
<1>10. CASE SendMail(c) \/ ReadForAppend(c) \/ WriteAppend(c)
  BY <1>2, <1>3, <1>10 DEF SendMail, ReadForAppend, WriteAppend
<1> QED
  BY <1>5, <1>6, <1>7, <1>8, <1>9, <1>10 DEF MailWork

LEMMA AddressRead ==
  ASSUME TypeInv, NEW c \in BagToSet(pending), AddressWork(c), c \in AddressCall
  PROVE  AnswersRead(c)
<1>1. CASE Continue(c, {})
  BY <1>1 DEF AnswersRead
<1>2. ASSUME NEW d, d.op \in {"writeUsers", "readUser"}, Continue(c, {d})
      PROVE  AnswersRead(c)
  <2>1. CopyRead(d)
    BY <1>2 DEF CopyRead, CopyingOps, CopyOps
  <2> QED
    BY <1>2, <2>1 DEF AnswersRead
<1>3. CASE ListUsers(c)
  <2> DEFINE d == [c EXCEPT !.op = "writeUsers", !.left =
                     {[id |-> u.id, email |-> Normal(u.email)] :
                        u \in {v \in users : v.email # Normal(v.email)}}]
  <2>1. d.op = "writeUsers" /\ Continue(c, {d})
    BY <1>3 DEF AddressCall, ListUsers
  <2> HIDE DEF d
  <2> QED
    BY <1>2, <2>1
<1>4. CASE WriteUsers(c) \/ ReplaceAddress(c)
  <2> DEFINE d == [c EXCEPT !.op = "readUser"]
             e == [[c EXCEPT !.copy = None] EXCEPT !.op = "readUser"]
  <2>1. d.op = "readUser" /\ e.op = "readUser"
    BY DEF AddressCall
  <2>2. \/ Continue(c, {}) \/ Continue(c, {d}) \/ Continue(c, {e})
    <3>1. AtUser(c) \in {{}, {d}} /\ AtUser([c EXCEPT !.copy = None]) \in {{}, {e}}
      BY DEF AtUser
    <3> HIDE DEF d, e
    <3> QED
      BY <1>4, <3>1 DEF WriteUsers, ReplaceAddress
  <2> HIDE DEF d, e
  <2> QED
    BY <1>1, <1>2, <2>1, <2>2
<1>5. ASSUME NEW w \in c.left, NEW u \in WithId(w.id),
             Continue(c, {[c EXCEPT !.op = "replaceAddress", !.left = @ \ {w},
                                    !.copy = [u EXCEPT !.email = w.email]]})
      PROVE  AnswersRead(c)
  <2> DEFINE copy == [u EXCEPT !.email = w.email]
             d == [c EXCEPT !.op = "replaceAddress", !.left = @ \ {w}, !.copy = copy]
  <2>1. d.copy = copy /\ Continue(c, {d})
    BY <1>5 DEF AddressCall
  <2>2. u \in User /\ u \in users
    BY StoredKnown DEF WithId
  <2>3. copy.school = u.school
    BY <2>2 DEF User
  <2> HIDE DEF copy, d
  <2>4. CopyRead(d)
    BY <2>1, <2>2, <2>3 DEF CopyRead
  <2> QED
    BY <2>1, <2>4 DEF AnswersRead
<1>6. CASE ReadUser(c)
  BY <1>1, <1>5, <1>6 DEF ReadUser
<1> QED
  BY <1>3, <1>4, <1>6 DEF AddressWork

\* Whatever is sent, copies were read before.
LEMMA CopiesAreRead ==
  ASSUME TypeInv, [MigrationNext]_migrationVars
  PROVE  \A d \in BagToSet(pending') : d \in BagToSet(pending) \/ CopyRead(d)
<1>1. IsABag(pending) /\ TypeInv'
  BY TypesKept DEF TypeInv, MigrationTypeOK
<1>2. ASSUME NEW c, AnswersRead(c)
      PROVE  \A d \in BagToSet(pending') : d \in BagToSet(pending) \/ CopyRead(d)
  <2>1. CASE Continue(c, {})
    BY <1>1, <2>1, ContinueCalls
  <2>2. ASSUME NEW d, Continue(c, {d}), CopyRead(d)
        PROVE  \A e \in BagToSet(pending') : e \in BagToSet(pending) \/ CopyRead(e)
    <3>1. BagToSet(pending') \subseteq BagToSet(pending) \cup {d}
      BY <1>1, <2>2, ContinueCalls
    <3> QED
      BY <2>2, <3>1
  <2> QED
    BY <1>2, <2>1, <2>2 DEF AnswersRead
<1>3. CASE MigrationRequest
  <2>1. PICK d : /\ Start({d})
                 /\ d.op \in {"readTrainings", "listUsers", "bySchool", "attendance"}
    BY <1>3, RequestsKept
  <2>2. CopyRead(d)
    BY <2>1 DEF CopyRead, CopyingOps, CopyOps
  <2> QED
    BY <1>1, <2>1, <2>2, StartCalls
<1>4. CASE \/ \E sheet \in ToSet(Sheets) : \E line \in 1..Height(sheet) : PauseLine(sheet, line)
           \/ CatalogueRequest
           \/ UNCHANGED migrationVars
  BY <1>4 DEF PauseLine, CatalogueRequest, migrationVars
<1>5. ASSUME NEW c \in BagToSet(pending), Work(c) \/ Reject(c)
      PROVE  AnswersRead(c)
  <2>1. CASE Continue(c, {})
    BY <2>1 DEF AnswersRead
  <2>2. CASE AnswerMail(c)
    BY <2>2, WhoMails, MailRead, AddressRead
  <2>3. CASE FailMail(c) /\ ~Continue(c, {})
    <3>1. c.job = "mails" /\ c.op # "writeBack" /\ EndMail(c, "error")
      BY <2>3 DEF FailMail
    <3>2. c \in MailCall
      BY <3>1, CallIs DEF MailFits
    <3>3. PICK d : Plain(d) /\ Continue(c, {d})
      BY <3>1, <3>2, EndMailNext
    <3>4. CopyRead(d)
      BY <3>3 DEF Plain, CopyRead, CopyingOps, CopyOps
    <3> QED
      BY <3>3, <3>4 DEF AnswersRead
  <2>4. CASE c.job \notin {"mails", "addresses"} /\ ~Continue(c, {})
    <3>1. PICK d : d.job = c.job /\ Continue(c, {d})
      BY <1>5, <2>4, StaysInItsJob DEF StaysInJob
    <3>2. d \in BagToSet(pending')
      BY <1>1, <3>1, ContinueCalls
    <3>3. d.op \notin CopyingOps
      BY <1>1, <2>4, <3>1, <3>2
      DEF TypeInv, MigrationTypeOK, MailCall, AddressCall, ImportCall, WriteBackCall, ReportCall,
          LineOps, RowOps, CopyingOps, CopyOps
    <3> QED
      BY <3>1, <3>3 DEF AnswersRead, CopyRead
  <2>5. c.job \in {"mails", "addresses"} => AnswerMail(c) \/ FailMail(c) \/ Continue(c, {})
    <3>1. ASSUME AnswerImport(c) \/ FailImport(c)
          PROVE  c.job = "import"
      BY <3>1, WhoImports DEF CallsOf
    <3> QED
      BY <1>5, <3>1, WhoReports DEF Work, Reject, WriteBack
  <2> QED
    BY <2>1, <2>2, <2>3, <2>4, <2>5
<1>6. CASE Interrupt
  BY <1>6, NoCalls DEF Interrupt
<1> QED
  BY <1>2, <1>3, <1>4, <1>5, <1>6 DEF MigrationNext

\* The school of a user is that of a user before, of the copy he is written
\* from, or one that an import has found or created.
LEMMA UsersSchools ==
  ASSUME TypeInv, [MigrationNext]_migrationVars, NEW u \in users'
  PROVE  \/ \E v \in users : v.school = u.school
         \/ \E c \in BagToSet(pending) : c.op \in CopyingOps /\ u.school = c.copy.school
         \/ \E c \in CallsOf("import") : /\ c.found["school"] # None
                                         /\ u.school = c.found["school"]
<1>1. CASE users' \subseteq users
  BY <1>1
<1>2. ASSUME NEW c \in BagToSet(pending), AnswerMail(c), ~(users' \subseteq users)
      PROVE  c.op \in CopyingOps /\ \A v \in users' : v \in users \/ v.school = c.copy.school
  <2>1. \/ ReplacePassword(c) /\ WithId(c.user.id) # {}
        \/ ReplaceEmail(c) /\ WithId(c.user.id) # {}
        \/ ReplaceAddress(c) /\ WithId(c.copy.id) # {}
    BY <1>2 DEF AnswerMail, ReadForPassword, ReplacePassword, ReadForEmail, ReplaceEmail,
       SendMail, ReadForAppend, WriteAppend, ListUsers, WriteUsers, ReadUser, ReplaceAddress
  <2>2. CASE ReplacePassword(c) /\ WithId(c.user.id) # {}
    <3>1. c.op = "replacePassword" /\ c.op \in CopyOps /\ c.op \in LineMailOps
      BY <2>2 DEF ReplacePassword, CopyOps, LineMailOps, MailOps
    <3>2. c.copy \in User
      BY <3>1, CallIs DEF MailFits
    <3> DEFINE w == WithNewPassword(c)
    <3>3. w.school = c.copy.school
      BY <3>2 DEF WithNewPassword, User
    <3>4. users' = Replaced(users, w)
      BY <2>2 DEF ReplacePassword
    <3> HIDE DEF w
    <3> QED
      BY <3>1, <3>3, <3>4 DEF Replaced, CopyingOps
  <2>3. CASE ReplaceEmail(c) /\ WithId(c.user.id) # {}
    <3>1. c.op = "replaceEmail" /\ c.op \in CopyOps /\ c.op \in LineMailOps
      BY <2>3 DEF ReplaceEmail, CopyOps, LineMailOps, MailOps
    <3>2. c.copy \in User
      BY <3>1, CallIs DEF MailFits
    <3> DEFINE w == [c.copy EXCEPT !.email = [address |-> Misplaced, form |-> "digits"]]
    <3>3. w.school = c.copy.school
      BY <3>2 DEF User
    <3>4. users' = Replaced(users, w)
      BY <2>3 DEF ReplaceEmail
    <3> HIDE DEF w
    <3> QED
      BY <3>1, <3>3, <3>4 DEF Replaced, CopyingOps
  <2>4. CASE ReplaceAddress(c) /\ WithId(c.copy.id) # {}
    BY <2>4 DEF ReplaceAddress, Replaced, CopyingOps
  <2> QED
    BY <2>1, <2>2, <2>3, <2>4
<1>3. ASSUME NEW c \in BagToSet(pending), CreateUser(c)
      PROVE  /\ c \in CallsOf("import") /\ c.found["school"] # None
             /\ \A v \in users' : v \in users \/ v.school = c.found["school"]
  <2>1. c \in CallsOf("import") /\ ImportFits(c)
    BY <1>3, WhoImports DEF AnswerImport
  <2>2. c.found["school"] # None
    BY <1>3, <2>1, RegistryAssumption DEF CreateUser, ImportFits
  <2> QED
    BY <1>3, <2>1, <2>2 DEF CreateUser
<1>4. ASSUME NEW c \in BagToSet(pending), Work(c) \/ Reject(c), ~(users' \subseteq users)
      PROVE  AnswerMail(c) \/ CreateUser(c)
  <2>1. CASE AnswerImport(c)
    BY <1>4, <2>1, ImportWritesUsers
  <2>2. CASE ~AnswerMail(c) /\ ~AnswerImport(c)
    BY <1>4, <2>2 DEF Work, Reject, FailMail, FailImport, ServeReport, FailReport, ReadTrainings,
       ReadSchools, ReadUsers, AnswerReport, Read, registryVars
  <2> QED
    BY <2>1, <2>2
<1>5. CASE \/ MigrationRequest \/ CatalogueRequest \/ Interrupt \/ UNCHANGED migrationVars
           \/ \E sheet \in ToSet(Sheets) : \E line \in 1..Height(sheet) : PauseLine(sheet, line)
  BY <1>1, <1>5 DEF MigrationRequest, MigrateFromExcel, ReportRequest, CatalogueRequest,
     RemoveSchool, RemoveCompetency,
     Interrupt, migrationVars, PauseLine, registryVars
<1> QED
  BY <1>1, <1>2, <1>3, <1>4, <1>5 DEF MigrationNext

\* The school of a user, if he has one, was stored.
SchoolOnce(school) == school = None \/ Once("school", school)

\* Users refer to schools that were stored, and so do the copies of them.
Schooled(c) == c.op \in CopyingOps => SchoolOnce(c.copy.school)

SchoolInv ==
  /\ \A u \in users : SchoolOnce(u.school)
  /\ \A c \in BagToSet(pending) : Schooled(c)

LEMMA SchoolKept ==
  TypeInv /\ StockInv /\ SchoolInv /\ [MigrationNext]_migrationVars => SchoolInv'
<1> SUFFICES ASSUME TypeInv, StockInv, SchoolInv, [MigrationNext]_migrationVars
             PROVE  SchoolInv'
  OBVIOUS
<1>1. \A id : SchoolOnce(id) => SchoolOnce(id)'
  BY OnceStays DEF Stays, Catalogues, SchoolOnce
<1>2. \A c \in CallsOf("import") : SchoolOnce(c.found["school"])
  BY DEF StockInv, ImportSound, Catalogues, SchoolOnce
<1>3. \A u \in users' : SchoolOnce(u.school)
  BY <1>2, UsersSchools DEF SchoolInv, Schooled
<1>4. \A d \in BagToSet(pending') : d.op \in CopyingOps => SchoolOnce(d.copy.school)
  BY CopiesAreRead DEF SchoolInv, Schooled, CopyRead
<1> QED
  BY <1>1, <1>3, <1>4 DEF SchoolInv, Schooled

\* An import and a report that never met are not both under way.
ApartInv ==
  {"import", "report"} \notin met => CallsOf("import") = {} \/ CallsOf("report") = {}

LEMMA ApartKept == TypeInv /\ ApartInv /\ [MigrationNext]_migrationVars => ApartInv'
<1> SUFFICES ASSUME TypeInv, ApartInv, [MigrationNext]_migrationVars
             PROVE  ApartInv'
  OBVIOUS
<1>1. IsABag(pending)
  BY DEF TypeInv, MigrationTypeOK
<1>2. ASSUME NEW job, Sends(job)
      PROVE  ApartInv'
  <2>1. PICK d : Start({d}) /\ d.job = job /\ d.op # "writeBack"
    BY <1>2 DEF Sends
  <2>2. met \subseteq met' /\ \A k : CallsOf(k) # {} => {job, k} \in met'
    BY <1>2, MeetsCalls DEF Sends, Meets
  <2>3. \A k : k # job => CallsOf(k)' = CallsOf(k)
    BY <1>1, <2>1, SendCalls
  <2>4. {"import", "report"} = {"report", "import"}
    OBVIOUS
  <2>5. CASE job = "import"
    BY <2>2, <2>3, <2>5 DEF ApartInv
  <2>6. CASE job = "report"
    BY <2>2, <2>3, <2>4, <2>6 DEF ApartInv
  <2>7. CASE job \notin {"import", "report"}
    BY <2>2, <2>3, <2>7 DEF ApartInv
  <2> QED
    BY <2>5, <2>6, <2>7
<1>3. ASSUME NEW c \in BagToSet(pending), Work(c) \/ Reject(c)
      PROVE  ApartInv'
  <2>1. \A k : c \notin CallsOf(k) => CallsOf(k)' = CallsOf(k)
    BY <1>3, JobSame
  <2>2. met' = met
    BY <1>3, StaysInItsJob
  <2>3. c \notin CallsOf("import") \/ c \notin CallsOf("report")
    BY DEF CallsOf
  <2> QED
    BY <2>1, <2>2, <2>3 DEF ApartInv
<1>4. CASE Interrupt
  BY <1>4, NoCalls DEF Interrupt, ApartInv, CallsOf
<1>5. CASE \/ \E sheet \in ToSet(Sheets) : \E line \in 1..Height(sheet) : PauseLine(sheet, line)
           \/ CatalogueRequest
           \/ UNCHANGED migrationVars
  BY <1>5 DEF PauseLine, CatalogueRequest, migrationVars, ApartInv, CallsOf
<1> QED
  BY <1>2, <1>3, <1>4, <1>5, RequestsSend DEF MigrationNext

\* What a report has read: its users are of schools it has read or will read,
\* or of none, unless one was removed or an import ran meanwhile.
InOrder(c) ==
  /\ "users" \notin c.asked => \A u \in c.users : u.school \in SchoolIds \cup {None}
  /\ "schools" \notin c.asked => c.schools = SchoolIds

ReportSound(c) ==
  /\ IsFiniteSet(c.users) /\ IsFiniteSet(c.trainings)
  /\ \A u, v \in c.users : u.id = v.id => u = v
  /\ removed = {} /\ {"import", "report"} \notin met => InOrder(c)

ReportInv == \A c \in CallsOf("report") : ReportSound(c)

\* As long as nobody removes a school and no import runs, the schools that
\* are stored are the same.
LEMMA SchoolsSame ==
  ASSUME TypeInv, ApartInv, [MigrationNext]_migrationVars, CallsOf("report") # {},
         removed' = {}, {"import", "report"} \notin met'
  PROVE  SchoolIds' = SchoolIds /\ removed = {} /\ {"import", "report"} \notin met
<1>1. {"import", "report"} \notin met
  <2>1. met \subseteq met'
    BY DEF MigrationNext, MigrationRequest, Meets, PauseLine, CatalogueRequest, Work, Reject,
           Interrupt, migrationVars
  <2> QED
    BY <2>1
<1>2. CallsOf("import") = {}
  BY <1>1 DEF ApartInv
<1>3. CASE catalogue' = catalogue /\ removed' = removed
  BY <1>1, <1>3 DEF SchoolIds
<1>4. CASE CatalogueRequest
  <2>1. RemoveCompetency
    BY <1>4 DEF CatalogueRequest, RemoveSchool
  <2>2. catalogue'["school"] = catalogue["school"]
    BY <2>1, MarkedEntry DEF Catalogues
  <2> QED
    BY <1>1, <2>1, <2>2 DEF RemoveCompetency, SchoolIds
<1> QED
  BY <1>2, <1>3, <1>4, CatalogueSteps

LEMMA SoundReportStays ==
  ASSUME TypeInv, ApartInv, [MigrationNext]_migrationVars, NEW c \in CallsOf("report"),
         ReportSound(c)
  PROVE  ReportSound(c)'
<1>1. ASSUME removed' = {}, {"import", "report"} \notin met'
      PROVE  InOrder(c)'
  <2>1. SchoolIds' = SchoolIds /\ InOrder(c)
    BY <1>1, SchoolsSame DEF ReportSound
  <2> QED
    BY <2>1 DEF InOrder
<1> QED
  BY <1>1 DEF ReportSound

LEMMA ReportAnswers ==
  ASSUME TypeInv, StockInv, SchoolInv, ApartInv, [MigrationNext]_migrationVars,
         NEW c \in CallsOf("report"), c \in ReportCall, ReportSound(c),
         ServeReport(c) \/ FailReport(c), UNCHANGED met
  PROVE  Continue(c, {}) \/ \E d : Continue(c, {d}) /\ ReportSound(d)'
<1>1. /\ IsFiniteSet(c.users) /\ IsFiniteSet(c.trainings)
      /\ \A u, v \in c.users : u.id = v.id => u = v
  BY DEF ReportSound
<1>2. CASE ServeReport(c) /\ ~AnswerReport(c)
  <2>1. registryVars' = registryVars
    BY <1>2 DEF ServeReport, ReadTrainings, ReadSchools, ReadUsers, Read
  <2>2. SchoolIds' = SchoolIds /\ removed' = removed
    BY <2>1 DEF registryVars, SchoolIds
  <2>3. CASE ReadTrainings(c)
    <3>1. PICK ts : /\ ts = Selected(c.key)
                    /\ Continue(c, {[[c EXCEPT !.trainings = ts] EXCEPT !.asked = @ \ {"trainings"}]})
      BY <2>3 DEF ReadTrainings, Read
    <3> DEFINE d == [[c EXCEPT !.trainings = ts] EXCEPT !.asked = @ \ {"trainings"}]
    <3>3. ts \subseteq trainings
      BY <3>1 DEF Selected
    <3>4. IsFiniteSet(ts)
      BY <3>3, FS_Subset DEF StockInv
    <3>5. /\ d.trainings = ts /\ d.users = c.users /\ d.schools = c.schools
          /\ d.asked = c.asked \ {"trainings"}
      BY DEF ReportCall
    <3>6. Continue(c, {d})
      BY <3>1
    <3> HIDE DEF d
    <3>7. removed = {} /\ {"import", "report"} \notin met => InOrder(d)'
      BY <2>2, <3>5 DEF ReportSound, InOrder
    <3>8. ReportSound(d)'
      BY <1>1, <2>2, <3>4, <3>5, <3>7 DEF ReportSound
    <3> QED
      BY <3>6, <3>8
  <2>4. CASE ReadSchools(c)
    <3>1. PICK ids : /\ ids = SchoolIds
                     /\ Continue(c, {[[c EXCEPT !.schools = ids] EXCEPT !.asked = @ \ {"schools"}]})
      BY <2>4 DEF ReadSchools, Read
    <3> DEFINE d == [[c EXCEPT !.schools = ids] EXCEPT !.asked = @ \ {"schools"}]
    <3>2. /\ d.trainings = c.trainings /\ d.users = c.users /\ d.schools = ids
          /\ d.asked = c.asked \ {"schools"}
      BY DEF ReportCall
    <3>3. d.schools = SchoolIds
      BY <3>1, <3>2
    <3>4. Continue(c, {d})
      BY <3>1
    <3> HIDE DEF d
    <3>5. removed = {} /\ {"import", "report"} \notin met => InOrder(d)'
      BY <2>2, <3>2, <3>3 DEF ReportSound, InOrder
    <3>6. ReportSound(d)'
      BY <1>1, <2>2, <3>2, <3>5 DEF ReportSound
    <3> QED
      BY <3>4, <3>6
  <2>5. CASE ReadUsers(c)
    <3>1. PICK us : /\ us = users
                    /\ Continue(c, {[[c EXCEPT !.users = us] EXCEPT !.asked = @ \ {"users"}]})
      BY <2>5 DEF ReadUsers, Read
    <3> DEFINE d == [[c EXCEPT !.users = us] EXCEPT !.asked = @ \ {"users"}]
    <3>2. /\ d.trainings = c.trainings /\ d.users = us /\ d.schools = c.schools
          /\ d.asked = c.asked \ {"users"}
      BY DEF ReportCall
    <3>3. d.users = users
      BY <3>1, <3>2
    <3>4. Continue(c, {d})
      BY <3>1
    <3> HIDE DEF d
    <3>5. removed = {} => \A u \in users : u.school \in SchoolIds \cup {None}
      BY DEF SchoolInv, SchoolOnce, Once, SchoolIds
    <3>6. removed = {} /\ {"import", "report"} \notin met => InOrder(d)'
      BY <2>2, <3>2, <3>3, <3>5 DEF ReportSound, InOrder
    <3>7. IsFiniteSet(users) /\ \A u, v \in users : u.id = v.id => u = v
      BY DEF StockInv, TypeInv, MigrationTypeOK, RegistryTypeOK
    <3>8. ReportSound(d)'
      BY <1>1, <2>2, <3>2, <3>3, <3>6, <3>7 DEF ReportSound
    <3> QED
      BY <3>4, <3>8
  <2> QED
    BY <1>2, <2>3, <2>4, <2>5 DEF ServeReport
<1> QED
  BY <1>2 DEF AnswerReport, FailReport

LEMMA ReportKept ==
  TypeInv /\ StockInv /\ SchoolInv /\ ApartInv /\ ReportInv /\ [MigrationNext]_migrationVars
    => ReportInv'
<1> SUFFICES ASSUME TypeInv, StockInv, SchoolInv, ApartInv, ReportInv,
                    [MigrationNext]_migrationVars
             PROVE  ReportInv'
  OBVIOUS
<1>1. IsABag(pending)
  BY DEF TypeInv, MigrationTypeOK
<1>2. \A c \in CallsOf("report") : ReportSound(c)'
  BY SoundReportStays DEF ReportInv
<1>3. CASE CallsOf("report")' \subseteq CallsOf("report")
  BY <1>2, <1>3 DEF ReportInv
<1>4. ASSUME NEW job, Sends(job), job # "report"
      PROVE  ReportInv'
  <2>1. PICK d : Start({d}) /\ d.job = job /\ d.op # "writeBack"
    BY <1>4 DEF Sends
  <2> QED
    BY <1>1, <1>3, <1>4, <2>1, SendCalls
<1>5. CASE ReportRequest
  <2>1. PICK key, op : op \in {"bySchool", "attendance"} /\
          Start({[op |-> op, job |-> "report", key |-> key, asked |-> ToSet(Containers),
                  trainings |-> {}, schools |-> {}, users |-> {}]})
    BY <1>5 DEF ReportRequest
  <2> DEFINE d == [op |-> op, job |-> "report", key |-> key, asked |-> ToSet(Containers),
                   trainings |-> {}, schools |-> {}, users |-> {}]
  <2>2. /\ d.job = "report" /\ d.op # "writeBack" /\ Start({d})
        /\ d.users = {} /\ d.trainings = {}
    BY <2>1
  <2>3. "users" \in d.asked /\ "schools" \in d.asked
    BY DEF Containers, ToSet
  <2> HIDE DEF d
  <2>4. CallsOf("report")' = CallsOf("report") \cup {d}
    BY <1>1, <2>2, SendCalls
  <2>5. ReportSound(d)'
    BY <2>2, <2>3, FS_EmptySet DEF ReportSound, InOrder
  <2> QED
    BY <1>2, <2>4, <2>5 DEF ReportInv
<1>6. ASSUME NEW c \in BagToSet(pending), Work(c) \/ Reject(c), c \notin CallsOf("report")
      PROVE  ReportInv'
  BY <1>3, <1>6, JobSame
<1>7. ASSUME NEW c \in CallsOf("report"), Work(c) \/ Reject(c)
      PROVE  ReportInv'
  <2>1. c \in BagToSet(pending) /\ c.job = "report" /\ c.op # "writeBack"
    BY DEF CallsOf
  <2>2. ~AnswerMail(c) /\ ~FailMail(c) /\ ~AnswerImport(c) /\ ~FailImport(c) /\ ~WriteBack(c)
    BY <2>1, WhoMails, WhoImports DEF CallsOf, WriteBack, FailMail
  <2>3. ServeReport(c) \/ FailReport(c)
    BY <1>7, <2>2 DEF Work, Reject
  <2>4. c \in ReportCall /\ ReportSound(c) /\ met' = met
    BY <1>7, <2>1, CallIs, StaysInItsJob DEF ReportInv
  <2>5. Continue(c, {}) \/ \E d : Continue(c, {d}) /\ ReportSound(d)'
    BY <2>3, <2>4, ReportAnswers
  <2>6. CASE Continue(c, {})
    BY <1>1, <1>3, <2>6, ContinueCalls DEF CallsOf
  <2>7. ASSUME NEW d, Continue(c, {d}), ReportSound(d)'
        PROVE  ReportInv'
    <3>1. BagToSet(pending') \subseteq BagToSet(pending) \cup {d}
      BY <1>1, <2>7, ContinueCalls
    <3> QED
      BY <1>2, <2>7, <3>1 DEF ReportInv, CallsOf
  <2> QED
    BY <2>5, <2>6, <2>7
<1>8. CASE \/ \E sheet \in ToSet(Sheets) : \E line \in 1..Height(sheet) : PauseLine(sheet, line)
           \/ CatalogueRequest
           \/ UNCHANGED migrationVars
  BY <1>3, <1>8 DEF PauseLine, CatalogueRequest, migrationVars, CallsOf
<1>9. CASE Interrupt
  BY <1>3, <1>9, NoCalls DEF Interrupt, CallsOf
<1>10. CASE MigrationRequest
  BY <1>4, <1>5, <1>10, RequestsSend
<1> QED
  BY <1>6, <1>7, <1>8, <1>9, <1>10 DEF MigrationNext

LEMMA SoundAnswers ==
  ASSUME TypeInv, ReportInv
  PROVE  ReportsAnswered
<1> SUFFICES ASSUME removed = {}, {"import", "report"} \notin met,
                    NEW c \in BagToSet(pending), c.job = "report", c.asked = {}
             PROVE  IF c.op = "bySchool"
                    THEN BySchool(c.trainings, c.schools, c.users).failed =>
                           ForReports(WithoutSchool(c)) # {}
                    ELSE AttendanceFails(c.trainings, c.schools, c.users) =>
                           WithoutSchool(c) # {}
  BY DEF ReportsAnswered
<1>1. c \in ReportCall
  BY CallIs
<1>2. ReportSound(c)
  BY <1>1 DEF ReportInv, CallsOf, ReportCall
<1>3. \A u \in c.users : u.school \notin c.schools => u.school = None
  BY <1>2 DEF ReportSound, InOrder
<1>4. ASSUME BySchool(c.trainings, c.schools, c.users).failed
      PROVE  ForReports(WithoutSchool(c)) # {}
  <2> DEFINE us == c.users
             ts == c.trainings
             schools == c.schools
  <2>1. /\ IsFiniteSet(us) /\ IsFiniteSet(ts) /\ ts \in SUBSET Training
        /\ \A u, v \in us : u.id = v.id => u = v
    BY <1>1, <1>2 DEF ReportSound, ReportCall
  <2> HIDE DEF us, ts, schools
  <2> DEFINE counts == Tally(us, schools, Attendances(ts))
  <2>2. /\ BySchool(ts, schools, us).failed = counts.failed
        /\ BySchool(ts, schools, us).rows = [s \in schools |->
             [attended |-> counts.attended[s],
              pending |-> Cardinality(OfSchool(us, s)) - counts.attended[s]]]
    BY <2>1, BySchoolIs
  <2>3. counts.failed =
          \E u \in ForReports(us) : u.id \in Attendances(ts) /\ u.school \notin schools
    BY DEF Tally
  <2> HIDE DEF counts
  <2>4. PICK u \in ForReports(c.users) :
          u.id \in Attendances(c.trainings) /\ u.school \notin c.schools
    BY <1>4, <2>2, <2>3 DEF us, ts, schools
  <2>5. \E t \in c.trainings : \E p \in ToSet(t.participants) : p.user = u.id
    BY <2>4 DEF Attendances
  <2>6. u \in c.users /\ u.school = None
    BY <1>3, <2>4 DEF ForReports
  <2> QED
    BY <2>4, <2>5, <2>6 DEF ForReports, WithoutSchool
<1>5. AttendanceFails(c.trainings, c.schools, c.users) => WithoutSchool(c) # {}
  BY <1>3 DEF AttendanceFails, WithoutSchool
<1> QED
  BY <1>4, <1>5

\* The users at the start who have a school are of one that is stored.
SchoolsKnown ==
  \A u \in FirstUsers : u.school # None => \E s \in FirstSchools : s.id = u.school

\* What the code relies on and nothing enforces: a stored training refers to a
\* semester and a competency that are stored, be they marked as deleted, and to
\* a school that is or that was removed; so does a user who has a school.
ReferencesStored ==
  /\ \A t \in trainings : TrainingSound(t)
  /\ \A u \in users : SchoolOnce(u.school)

LEMMA SchoolsHold ==
  ASSUME SchoolsKnown
  PROVE  MigrationSpec => [](TypeInv /\ StockInv /\ SchoolInv)
<1>1. MigrationInit => SchoolInv
  <2> SUFFICES ASSUME MigrationInit
               PROVE  SchoolInv
    OBVIOUS
  <2>1. BagToSet(pending) = {} /\ users = FirstUsers /\ catalogue["school"] = FirstSchools
    BY NoCalls DEF MigrationInit, RegistryInit, Catalogues
  <2> QED
    BY <2>1 DEF SchoolInv, SchoolsKnown, SchoolOnce, Once
<1> QED
  BY <1>1, SchoolKept, StockHolds, PTL DEF MigrationSpec

\* No step of a job, wherever it fails or the process ends, leaves a training
\* that refers to a semester, a competency or a school that was never stored,
\* or a user who refers to such a school; if the users at the start did not.
\* (importTraining, addParticipantToTraining, updatePassword, updateEmail,
\* updateMails: ids are held in memory and written later, as parts of whole
\* documents.)
THEOREM ReferencesAreStored ==
  ASSUME SchoolsKnown
  PROVE  MigrationSpec => []ReferencesStored
<1>1. StockInv /\ SchoolInv => ReferencesStored
  BY DEF StockInv, SchoolInv, ReferencesStored
<1> QED
  BY <1>1, SchoolsHold, PTL

\* A report that is put together of documents read at three moments does not
\* fail for a participant whose school it does not know, but only for one who
\* has no school, as long as no school is removed and no import is under way
\* with a report; if the schools the users at the start have are stored, which
\* the code does not check.
\* (getProfessorParticipationBySchool, getAsistanceBySchool.)
THEOREM ReportsDoNotFail ==
  ASSUME SchoolsKnown
  PROVE  MigrationSpec => []ReportsAnswered
<1>1. MigrationInit => ApartInv /\ ReportInv
  BY NoCalls DEF MigrationInit, ApartInv, ReportInv, CallsOf
<1>2. TypeInv /\ StockInv /\ SchoolInv /\ ApartInv /\ ReportInv /\ [MigrationNext]_migrationVars
        => ApartInv' /\ ReportInv'
  BY ApartKept, ReportKept
<1>3. TypeInv /\ ReportInv => ReportsAnswered
  BY SoundAnswers
<1> QED
  BY <1>1, <1>2, <1>3, SchoolsHold, PTL DEF MigrationSpec
=============================================================================
