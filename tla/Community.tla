------------------------------ MODULE Community ------------------------------
(***************************************************************************)
(* Comments, conversations, visits, files and catalogues in the one        *)
(* process that serves them.  They share no document, but the process: a   *)
(* call that nobody awaits and that is refused or fails ends it, and the   *)
(* calls the other services had under way are lost with it.                *)
(***************************************************************************)
EXTENDS Comments, Conversations, Visits, Files, Catalogues

communityVars == <<commentVars, conversationVars, visitVars, fileVars, entryVars, pending>>

CommunityTypeOK ==
  /\ CommentsTypeOK /\ ConversationsTypeOK /\ VisitsTypeOK /\ FilesTypeOK
  /\ CataloguesTypeOK
  /\ IsABag(pending)
  /\ BagToSet(pending) \subseteq
       CommentCall \cup ConversationCall \cup VisitCall \cup FileCall \cup CatalogueCall

CommunityInit ==
  /\ CommentsInit /\ ConversationsInit /\ VisitsInit /\ FilesInit
  /\ CataloguesInit
  /\ pending = EmptyBag

OnlyComments == UNCHANGED <<conversationVars, visitVars, fileVars, entryVars>>
OnlyConversations == UNCHANGED <<commentVars, visitVars, fileVars, entryVars>>
OnlyVisits == UNCHANGED <<commentVars, conversationVars, fileVars, entryVars>>
OnlyFiles == UNCHANGED <<commentVars, conversationVars, visitVars, entryVars>>
OnlyCatalogues == UNCHANGED <<commentVars, conversationVars, visitVars, fileVars>>

CommunityRequest ==
  \/ CommentRequest /\ OnlyComments
  \/ ConversationRequest /\ OnlyConversations
  \/ RegisterVisit /\ OnlyVisits
  \/ FileRequest /\ OnlyFiles
  \/ CatalogueRequest /\ OnlyCatalogues

Serve(c) ==
  \/ (AnswerComment(c) \/ FailComment(c)) /\ OnlyComments
  \/ (AnswerConversation(c) \/ FailConversation(c)) /\ OnlyConversations
  \/ (AnswerVisit(c) \/ FailVisit(c)) /\ OnlyVisits
  \/ (AnswerFile(c) \/ FailFile(c)) /\ OnlyFiles
  \/ (ReplaceEntry(c) \/ FailEntry(c)) /\ OnlyCatalogues

CommunityExpire == ExpireVisits /\ OnlyVisits /\ UNCHANGED pending

\* The process ends, for whatever reason or because a call that nobody awaits
\* was refused or failed, and starts again.  Changes of catalogues that were not
\* answered are not made.
Crash ==
  /\ pending' = EmptyBag
  /\ LoseComments /\ LoseConversations /\ LoseVisits /\ LoseFiles
  /\ UNCHANGED entryVars

CommunityNext ==
  \/ CommunityRequest
  \/ \E c \in BagToSet(pending) : Serve(c)
  \/ CommunityExpire
  \/ Crash

CommunitySpec == CommunityInit /\ [][CommunityNext]_communityVars
=============================================================================
