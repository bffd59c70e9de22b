----------------------------- MODULE MCCommunity -----------------------------
(* Small instances of Community for TLC: every behaviour with at most       *)
(* MaxAccepted requests, in whatever order, to whichever service; but those *)
(* to the catalogues only beside those to files, since catalogues meet the  *)
(* other services in a crash alone.                                         *)
EXTENDS Community, TLC

CONSTANT MaxAccepted

VARIABLES
  asked,   \* requests so far
  editing  \* whether they are to the catalogues

\* Settings keep their name, so that it does not matter which they have.
MCInit ==
  /\ CommunityInit /\ asked = 0 /\ editing \in BOOLEAN
  /\ \A e \in entries : e.name = e.note

MCRequest ==
  /\ asked < MaxAccepted
  /\ \/ ~editing /\ CommentRequest /\ OnlyComments
     \/ ~editing /\ ConversationRequest /\ OnlyConversations
     \/ ~editing /\ RegisterVisit /\ OnlyVisits
     \/ FileRequest /\ OnlyFiles
     \/ editing /\ CatalogueRequest /\ OnlyCatalogues

MCNext ==
  /\ \/ MCRequest /\ asked' = asked + 1
     \/ /\ \/ \E c \in BagToSet(pending) : Serve(c)
           \/ CommunityExpire \/ Crash
        /\ UNCHANGED asked
  /\ UNCHANGED editing

MCSpec == MCInit /\ [][MCNext]_<<communityVars, asked, editing>>

Symmetry ==
  Permutations(CommentIds) \cup Permutations(Readers)
    \cup Permutations(ConversationIds) \cup Permutations(Owners)
    \cup Permutations(CounterIds) \cup Permutations(Texts)
=============================================================================
