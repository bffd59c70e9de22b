----------------------------- MODULE MCTraining -----------------------------
(* A small instance of Training for TLC: every behaviour in which at most  *)
(* MaxRequests requests get as far as their first wait.                    *)
EXTENDS Training, TLC

CONSTANT MaxRequests

VARIABLE accepted  \* how many have

MCRoleLists == {<<"assistant">>, <<"organizer", "assistant">>}

MCInit == Init /\ accepted = 0

Accepts ==
  \/ \E r \in Requests : request[r] = Idle /\ request'[r] # Idle
  \/ request' = request  \* RemoveTraining

MCNext ==
  /\ Next
  /\ accepted' = IF Accepts THEN accepted + 1 ELSE accepted
  /\ accepted' <= MaxRequests

\* All the requests of the bound have been answered.
Finished ==
  /\ accepted = MaxRequests /\ \A r \in Requests : request[r] = Idle
  /\ UNCHANGED <<vars, accepted>>

MCSpec == MCInit /\ [][MCNext \/ Finished]_<<vars, accepted>>

\* Ids, users and codes are interchangeable.
Symmetry ==
  Permutations(Requests) \cup Permutations(Trainings)
    \cup Permutations(Participants) \cup Permutations(Users)
    \cup Permutations(Codes)
=============================================================================
