------------------------------ MODULE Comments ------------------------------
(***************************************************************************)
(* The comments on posts, of src/posts/services/post-comments.service.ts:  *)
(* comments and replies to comments, who likes them, and their removal,    *)
(* which only sets a deletion date.                                        *)
(*                                                                         *)
(* A like and a removal write back whole comments that were read before,   *)
(* in calls nobody awaits: the client is told that the comment and its     *)
(* replies are gone before any of the writes has arrived.                  *)
(***************************************************************************)
EXTENDS Naturals, FiniteSets, Calls

CONSTANTS
  CommentIds,
  CommentedPosts,  \* the posts, which are there all the time
  Readers,         \* who likes comments
  NoParent         \* of a comment that is no reply

ASSUME CommentsAssumption == NoParent \notin CommentIds

Comment ==
  [id : CommentIds, post : CommentedPosts, parent : CommentIds \cup {NoParent},
   likes : SUBSET Readers, deleted : BOOLEAN]

VARIABLES
  comments,   \* the container of comments
  commented,  \* the ids given so far
  \* What clients have been told:
  published,  \* comments that were created
  discarded,  \* comments that were removed
  liking,     \* who likes each comment
  disturbed   \* comments about which calls overlapped or were lost

commentsTold == <<published, discarded, liking>>
commentVars == <<comments, commented, commentsTold, disturbed>>

CommentCall ==
  [op : {"insertComment", "listChildren", "replaceComment"}, comment : Comment]

CommentsTypeOK ==
  /\ comments \subseteq Comment
  /\ \A c, d \in comments : c.id = d.id => c = d
  /\ commented \subseteq CommentIds
  /\ published \subseteq commented /\ discarded \subseteq published
  /\ liking \in [CommentIds -> SUBSET Readers]
  /\ disturbed \subseteq CommentIds

CommentsInit ==
  /\ comments = {} /\ commented = {}
  /\ published = {} /\ discarded = {}
  /\ liking = [id \in CommentIds |-> {}]
  /\ disturbed = {}

-----------------------------------------------------------------------------
(* Faults of the kind this code could have, for the runs to detect. *)
IsAnyComment(parent) == TRUE
AllComments(post) == {c \in comments : c.post = post}

\* A reply hangs below a comment that is no reply itself.
IsTopLevel(parent) == parent.parent = NoParent

\* getById does not look at the deletion date.
MayReply(post, parent) ==
  \/ parent = NoParent
  \/ \E p \in comments : p.id = parent /\ p.post = post /\ IsTopLevel(p)

\* getByParentId
Children(id) == {c \in comments : c.parent = id /\ ~c.deleted}

\* findByPostId: the comments of a post that are not deleted, each with its
\* replies; a reply whose parent is not among them is shown nowhere.
Listed(post) == {c \in comments : c.post = post /\ ~c.deleted}

Shown(post) ==
  {c \in Listed(post) : c.parent = NoParent \/ \E p \in Listed(post) : p.id = c.parent}

CommentShown(id) == \E post \in CommentedPosts : \E c \in Shown(post) : c.id = id

AsDeleted(comment) == [comment EXCEPT !.deleted = TRUE]

Toggled(comment, reader) ==
  [comment EXCEPT !.likes =
     IF reader \in @ THEN @ \ {reader} ELSE @ \cup {reader}]

ReplaceComment(comment) == [op |-> "replaceComment", comment |-> comment]

\* Of two writes to a comment, the later one has not seen the earlier.
WritesTo(calls) == {o.comment.id : o \in {c \in calls : c.op = "replaceComment"}}

CommentOverlap(c) == {c.comment.id} \cap WritesTo(Others(c))

-----------------------------------------------------------------------------

\* The post and the parent are read, then the comment is created.
CreateComment(id, post, parent) ==
  /\ id \notin commented
  /\ MayReply(post, parent)
  /\ commented' = commented \cup {id}
  /\ Start({[op |-> "insertComment", comment |->
       [id |-> id, post |-> post, parent |-> parent, likes |-> {}, deleted |-> FALSE]]})
  /\ UNCHANGED <<comments, commentsTold, disturbed>>

UpdateLikes(comment, reader) ==
  /\ Start({ReplaceComment(Toggled(comment, reader))})
  /\ liking' = [liking EXCEPT ![comment.id] = Toggled(comment, reader).likes]
  /\ UNCHANGED <<comments, commented, published, discarded, disturbed>>

RemoveComment(comment) ==
  /\ Start({[op |-> "listChildren", comment |-> comment]})
  /\ UNCHANGED commentVars

CommentRequest ==
  \/ \E id \in CommentIds, post \in CommentedPosts, parent \in CommentIds \cup {NoParent} :
       CreateComment(id, post, parent)
  \/ \E comment \in comments :
       (\E reader \in Readers : UpdateLikes(comment, reader)) \/ RemoveComment(comment)

InsertComment(c) ==
  /\ c.op = "insertComment"
  /\ comments' = comments \cup {c.comment}
  /\ published' = published \cup {c.comment.id}
  /\ Continue(c, {})
  /\ UNCHANGED <<commented, discarded, liking, disturbed>>

\* remove has read the replies: it sends all the replaces and answers.  A
\* like that arrives between the read and these replaces is overwritten.
ListChildren(c) ==
  LET gone == {c.comment} \cup Children(c.comment.id) IN
  /\ c.op = "listChildren"
  /\ Continue(c, {ReplaceComment(AsDeleted(d)) : d \in gone})
  /\ discarded' = discarded \cup {c.comment.id}
  /\ disturbed' = disturbed \cup
       (IF c.comment \in comments THEN {} ELSE {c.comment.id})
  /\ UNCHANGED <<comments, commented, published, liking>>

\* Comments are never deleted, so that the replace finds one.
StoreComment(c) ==
  /\ c.op = "replaceComment"
  /\ comments' = {d \in comments : d.id # c.comment.id} \cup {c.comment}
  /\ Continue(c, {})
  /\ disturbed' = disturbed \cup CommentOverlap(c)
  /\ UNCHANGED <<commented, commentsTold>>

AnswerComment(c) == InsertComment(c) \/ ListChildren(c) \/ StoreComment(c)

\* An awaited call fails, and with it the request.
FailComment(c) ==
  /\ c.op \in {"insertComment", "listChildren"}
  /\ Continue(c, {})
  /\ UNCHANGED commentVars

\* The process ends with the writes that were under way.
LoseComments ==
  /\ disturbed' = disturbed \cup WritesTo(BagToSet(pending))
  /\ UNCHANGED <<comments, commented, commentsTold>>

-----------------------------------------------------------------------------
(* Safety. *)

\* Replies hang below comments of the same post that are no replies, whatever
\* happens to these meanwhile.  (create refuses nested comments.)
RepliesOneDeep ==
  \A c \in comments : c.parent # NoParent =>
    \E p \in comments : p.id = c.parent /\ p.post = c.post /\ p.parent = NoParent

CommentSettled(id) == id \notin disturbed \cup WritesTo(BagToSet(pending))

\* Once its writes have arrived, a comment is shown exactly if it was created
\* and neither it nor the comment it replies to was removed, and those like it
\* who were told so; unless two writes to it overlapped or one was lost.
\* (create, updateLikes, remove, findByPostId; a reply created while its parent
\* is removed stays in the container but is shown nowhere.)
ShownAsTold ==
  \A c \in comments :
    CommentSettled(c.id) /\ (c.parent # NoParent => CommentSettled(c.parent)) =>
      /\ CommentShown(c.id) <=> discarded \cap {c.id, c.parent} = {}
      /\ c.likes = liking[c.id]
=============================================================================
