------------------------------- MODULE Visits -------------------------------
(***************************************************************************)
(* The counter of visits, of src/statistics/statistics.service.ts: a       *)
(* document that is read, incremented and written back, and the number in  *)
(* the cache from which the client is answered at once.                    *)
(***************************************************************************)
EXTENDS Naturals, FiniteSets, FiniteSetsExt, Calls

CONSTANT CounterIds  \* the ids the container gives to counters

VARIABLES
  counters,    \* the stored counters: an id and a count
  visitsCache, \* the count in the cache; 0 if there is none
  visits,      \* requests so far,
  shownCount,  \*   and the largest number one of them was answered
  overlapped   \* whether visits overlapped or one was lost

visitsTold == <<visits, shownCount, overlapped>>
visitVars == <<counters, visitsCache, visitsTold>>

Counter == [id : CounterIds, count : Nat]

VisitCall ==
  [op : {"readCounter", "createCounter"}, first : BOOLEAN]
    \cup [op : {"upsertCounter"}, counter : Counter]

VisitsTypeOK ==
  /\ counters \subseteq Counter
  /\ \A c, d \in counters : c.id = d.id => c = d
  /\ visitsCache \in Nat /\ visits \in Nat /\ shownCount \in Nat
  /\ overlapped \in BOOLEAN

VisitsInit ==
  /\ counters = {} /\ visitsCache = 0
  /\ visits = 0 /\ shownCount = 0 /\ overlapped = FALSE

-----------------------------------------------------------------------------
(* Faults of the kind this code could have, for the runs to detect. *)
FromOne == 1

FirstCount == 0

Counting(calls) == \E c \in calls : c.op \in {"createCounter", "upsertCounter"}

CountShown(n) == shownCount' = IF n > shownCount THEN n ELSE shownCount

-----------------------------------------------------------------------------

\* registerVisit: with a number in the cache, that number and one is the
\* answer, while the increment is still to come; else the increment answers.
RegisterVisit ==
  /\ Start({[op |-> "readCounter", first |-> visitsCache = 0]})
  /\ visits' = visits + 1
  /\ IF visitsCache # 0 THEN CountShown(visitsCache + 1) ELSE UNCHANGED shownCount
  /\ UNCHANGED <<counters, visitsCache, overlapped>>

\* The new count is sent to the container and put into the cache; neither is
\* waited for, but the cache is in memory.
Increment(c, counter) ==
  /\ Continue(c, {[op |-> "upsertCounter", counter |-> [counter EXCEPT !.count = @ + 1]]})
  /\ visitsCache' = counter.count + 1
  /\ IF c.first THEN CountShown(counter.count + 1) ELSE UNCHANGED shownCount

\* incrementVisitWebCount takes the first counter the query returns.
ReadCounter(c) ==
  /\ c.op = "readCounter"
  /\ \/ /\ counters = {}
        /\ Continue(c, {[c EXCEPT !.op = "createCounter"]})
        /\ UNCHANGED <<visitsCache, shownCount>>
     \/ \E counter \in counters : Increment(c, counter)
  /\ overlapped' = (overlapped \/ Counting(Others(c)))
  /\ UNCHANGED <<counters, visits>>

CreateCounter(c) ==
  /\ c.op = "createCounter"
  /\ \E id \in CounterIds \ {d.id : d \in counters} :
       LET new == [id |-> id, count |-> FirstCount] IN
       /\ counters' = counters \cup {new}
       /\ Increment(c, new)
  /\ UNCHANGED <<visits, overlapped>>

UpsertCounter(c) ==
  /\ c.op = "upsertCounter"
  /\ counters' = {d \in counters : d.id # c.counter.id} \cup {c.counter}
  /\ Continue(c, {})
  /\ UNCHANGED <<visitsCache, visitsTold>>

AnswerVisit(c) == ReadCounter(c) \/ CreateCounter(c) \/ UpsertCounter(c)

\* Without a number in the cache the client waits for the increment.
FailVisit(c) ==
  /\ c.op \in {"readCounter", "createCounter"}
  /\ c.first
  /\ Continue(c, {})
  /\ overlapped' = TRUE
  /\ UNCHANGED <<counters, visitsCache, visits, shownCount>>

\* The entry in the cache has a lifetime.
ExpireVisits ==
  /\ visitsCache # 0
  /\ visitsCache' = 0
  /\ UNCHANGED <<counters, visitsTold>>

VisitOps == {"readCounter", "createCounter", "upsertCounter"}

LoseVisits ==
  /\ visitsCache' = 0
  /\ overlapped' = (overlapped \/ \E c \in BagToSet(pending) : c.op \in VisitOps)
  /\ UNCHANGED <<counters, visits, shownCount>>

-----------------------------------------------------------------------------
(* Safety. *)

VisitsUnderWay == \E c \in BagToSet(pending) : c.op \in VisitOps

\* The counters together, the number in the cache and the numbers shown never
\* exceed the visits, although counts are read, shown and written at different
\* times; and they are exact, in one counter, when no two visits overlapped.
\* (registerVisit, incrementVisitWebCount.)
VisitsCounted ==
  /\ MapThenSumSet(LAMBDA d : d.count, counters) <= visits
  /\ visitsCache <= visits /\ shownCount <= visits
  /\ ~overlapped /\ ~VisitsUnderWay =>
       /\ counters = {} <=> visits = 0
       /\ \A d \in counters : d.count = visits /\ counters = {d}
       /\ visitsCache \in {0, visits}
=============================================================================
