------------------------------ MODULE MCPosts ------------------------------
(* Small instances of Posts for TLC: every behaviour with at most           *)
(* MaxRequests requests, MaxPages of them reading the home page at a time.  *)
EXTENDS Posts, TLC

CONSTANTS MaxRequests, MaxPages

VARIABLE accepted  \* requests so far, those for the home page apart

MCInit == Init /\ accepted = 0

MCRequest ==
  /\ accepted < MaxRequests
  /\ Request
  /\ accepted' = accepted + 1

PagesRead == BagCardinality([c \in {d \in BagToSet(pending) : d.op = "page"} |-> pending[c]])

MCGetHomePosts == PagesRead < MaxPages /\ GetHomePosts

MCNext ==
  \/ MCRequest
  \/ /\ \/ MCGetHomePosts
        \/ \E c \in BagToSet(pending) : Answer(c) \/ Fail(c)
        \/ Expire \/ Restart
     /\ UNCHANGED accepted

MCSpec == MCInit /\ [][MCNext]_<<vars, accepted>>

MCFairSpec == MCSpec /\ Fairness

Symmetry ==
  Permutations(Ids) \cup Permutations(Categories) \cup Permutations(Titles)
    \cup Permutations(Contents) \cup Permutations(Slots)
=============================================================================
