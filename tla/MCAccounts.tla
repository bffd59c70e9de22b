----------------------------- MODULE MCAccounts -----------------------------
(* Small instances of Accounts for TLC: every behaviour with at most          *)
(* MaxRequests requests, MaxPending of them under way.                      *)
EXTENDS Accounts, TLC

CONSTANTS MaxRequests, MaxPending, n1, a1, a2, p1, p2, d1

VARIABLE accepted

\* A professor in spe; two plain users, of whom the last has the first one's
\* document; and one who asks to be a professor with an empty document.
MCNewUsers ==
  {[name |-> n1, email |-> <<a1, FALSE>>, password |-> p1, role |-> "professor",
    requested |-> None, document |-> d1],
   [name |-> n1, email |-> <<a1, TRUE>>, password |-> p1, role |-> None,
    requested |-> None, document |-> None],
   [name |-> n1, email |-> <<a2, TRUE>>, password |-> p1, role |-> "user",
    requested |-> None, document |-> d1],
   [name |-> n1, email |-> <<a2, TRUE>>, password |-> p1, role |-> "user",
    requested |-> "professor", document |-> Blank]}

MCChanges ==
  {[password |-> p2], [email |-> <<a2, FALSE>>], [role |-> "professor"],
   [document |-> d1], [document |-> Blank], [name |-> n1, requested |-> "professor"]}

MCInit == Init /\ accepted = 0

MCRequest ==
  /\ accepted < MaxRequests
  /\ BagCardinality(pending) < MaxPending
  /\ Request
  /\ accepted' = accepted + 1

MCNext ==
  \/ MCRequest
  \/ /\ \/ \E c \in BagToSet(pending) : Answer(c) \/ Fail(c)
        \/ \E t \in tokens : ExpireToken(t)
        \/ \E code \in Codes : Age(code)
        \/ Restart
     /\ UNCHANGED accepted

MCSpec == MCInit /\ [][MCNext]_<<vars, accepted>>

Symmetry == Permutations(Ids)
=============================================================================
