----------------------------- MODULE Enrolment ------------------------------
(***************************************************************************)
(* What the training container promises to whoever holds a credential,     *)
(* however the requests of src/training interleave and whichever of them   *)
(* are lost: a training opens once and closes for good; a participant id   *)
(* is granted once, to one user of one training; and the roster of an open *)
(* training, which any write may change at will, lists a user at most once *)
(* and only under an id that was granted to that user for that training.   *)
(***************************************************************************)
CONSTANTS Trainings, Users, Participants, None

VARIABLES
  phase,   \* of each training
  roster,  \* the <<user, participant id>> pairs of each training
  owner    \* the <<training, user>> each participant id was granted to

Init ==
  /\ phase = [t \in Trainings |-> "new"]
  /\ roster = [t \in Trainings |-> {}]
  /\ owner = [p \in Participants |-> None]

Open(t) ==
  /\ phase[t] = "new"
  /\ phase' = [phase EXCEPT ![t] = "open"]
  /\ UNCHANGED <<roster, owner>>

Grant(p, t, u) ==
  /\ phase[t] = "open"
  /\ owner[p] = None
  /\ owner' = [owner EXCEPT ![p] = <<t, u>>]
  /\ UNCHANGED <<phase, roster>>

Granted(t) == {e \in Users \X Participants : owner[e[2]] = <<t, e[1]>>}

Change(t) ==
  /\ phase[t] = "open"
  /\ \E entries \in SUBSET Granted(t) :
       /\ \A e, f \in entries : e[1] = f[1] => e = f
       /\ roster' = [roster EXCEPT ![t] = entries]
  /\ UNCHANGED <<phase, owner>>

Close(t) ==
  /\ phase[t] = "open"
  /\ phase' = [phase EXCEPT ![t] = "closed"]
  /\ roster' = [roster EXCEPT ![t] = {}]
  /\ UNCHANGED owner

Next ==
  \E t \in Trainings :
    \/ Open(t) \/ Change(t) \/ Close(t)
    \/ \E p \in Participants, u \in Users : Grant(p, t, u)

Spec == Init /\ [][Next]_<<phase, roster, owner>>
=============================================================================
