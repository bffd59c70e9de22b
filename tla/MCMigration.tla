----------------------------- MODULE MCMigration -----------------------------
(* Small instances of Migration for TLC: two trainings, the name of the one *)
(* included in that of the other, and events that cost at most MaxEvents    *)
(* together: a request that meets no other costs one, one that does three,  *)
(* a failure or a change by hand two.                                       *)
EXTENDS Migration, TLC

CONSTANTS MaxEvents

VARIABLE spent  \* the cost of the requests, failures and changes by hand so far

Plain(a) == [address |-> a, form |-> "plain"]
Doc(number) == [type |-> "DNI", number |-> number]
Up(name) == [letters |-> name, upper |-> TRUE, spaced |-> FALSE]
Spaced(name) == [Up(name) EXCEPT !.spaced = TRUE]

MCDocuments == [type : {"DNI", "CE"}, number : {"d1", "d2"}]

MCUser(id, document, role, email) ==
  [id |-> id, document |-> document, email |-> email, password |-> 0, role |-> role,
   school |-> None, employment |-> "fullTime", excluded |-> FALSE]

\* None has a school.  The addresses of the authors are not those of their
\* lines, and the second has spaces around it.
MCFirstUsers ==
  {MCUser("u1", Doc("d1"), "author", [address |-> "a1", form |-> "upper"]),
   MCUser("u2", Doc("d2"), "author", [address |-> "a2", form |-> "spaced"]),
   MCUser("u3", [type |-> "CE", number |-> "d1"], "professor", Plain("a4"))}

MCFirstSchools == {[id |-> "e0", name |-> Up("S"), deleted |-> FALSE]}

MCRow(code, semester) ==
  [code |-> code, type |-> "extra", semester |-> semester,
   competency |-> Up("S"), school |-> Up("S"), valid |-> TRUE]

MCTrainingRows == <<MCRow("C1", Spaced("S")), MCRow("C10", Up("S"))>>

MCSheets == <<"C10", "C1">>

MCIncluding == [C1 |-> {"C1", "C10"}, C10 |-> {"C10"}]

MCLine(document, email, school, fault) ==
  [document |-> document, email |-> email, school |-> Up(school),
   employment |-> "FULLTIME", attended |-> TRUE, excluded |-> FALSE, fault |-> fault]

\* A user with another address, another document of the second user, with his
\* address and not a valid one, a line without all its fields, the first user
\* again, and the professor without a school.
MCLines ==
  LET lines ==
    <<MCLine(Doc("d1"), Plain("a3"), "S", "none"),
      MCLine([type |-> "CE", number |-> "d2"], [address |-> "a2", form |-> "spaced"], "T", "address"),
      MCLine(Doc("d2"), Plain("a1"), "S", "fields"),
      MCLine(Doc("d1"), Plain("a3"), "S", "none"),
      MCLine([type |-> "CE", number |-> "d1"], Plain("a4"), "S", "none")>>
  IN [C10 |-> lines, C1 |-> lines]

MCColumns == [s \in SheetNames |-> {"Estado", "EmailSent"}]

MCInit == MigrationInit /\ spent = 0

Spend(n) == spent + n <= MaxEvents /\ spent' = spent + n

MCNext ==
  \/ /\ BagCardinality(pending) < 2
     /\ Spend(IF pending = EmptyBag THEN 1 ELSE 3)
     /\ MigrationRequest
  \/ /\ CatalogueRequest \/ PauseLine("C10", 1)
     /\ Spend(2)
  \/ /\ Interrupt \/ \E c \in BagToSet(pending) : Reject(c)
     /\ Spend(2)
  \/ (\E c \in BagToSet(pending) : Work(c)) /\ UNCHANGED spent

Symmetry ==
  Permutations(NewUserIds) \cup Permutations(TrainingIds)
    \cup Permutations(EntryIds \ {"e0"})

MCSpec == MCInit /\ [][MCNext]_<<migrationVars, spent>>
=============================================================================
