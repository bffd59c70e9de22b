---------------------------- MODULE Conversations ----------------------------
(***************************************************************************)
(* The conversations of src/conversations: created without waiting for the *)
(* container, touched by every message, removed by a deletion date.        *)
(*                                                                         *)
(* The client may choose the id of a conversation, and answers come before *)
(* the writes: a second create with the id of a stored conversation of the *)
(* same user is refused when nobody waits for it any more.                 *)
(***************************************************************************)
EXTENDS Naturals, FiniteSets, Calls

CONSTANTS
  ConversationIds,
  Owners,           \* the users conversations belong to: the partition key
  Instants          \* createdAt of messages, by which they are told apart

Conversation ==
  [id : ConversationIds, owner : Owners, at : Instants \cup {0}, deleted : BOOLEAN]

Message == [conversation : ConversationIds, at : Instants]

VARIABLES
  conversations,  \* the container of conversations
  messages,       \* the container of messages
  \* What clients have been told, for each id and owner:
  opened,         \* conversations created
  closed,         \* conversations removed
  touched,        \* when the last message was accepted
  sent,           \* messages accepted
  crossed,        \* conversations with calls that overlapped or were lost
  mislaid         \* messages that were lost

conversationsTold == <<opened, closed, touched, sent>>
conversationVars == <<conversations, messages, conversationsTold, crossed, mislaid>>

Talk(conversation) == <<conversation.id, conversation.owner>>

Talks == ConversationIds \X Owners

ConversationCall ==
  [op : {"createConversation", "touchConversation", "closeConversation"},
   conversation : Conversation]
    \cup [op : {"createMessage"}, message : Message]

ConversationsTypeOK ==
  /\ conversations \subseteq Conversation
  /\ \A c, d \in conversations : Talk(c) = Talk(d) => c = d
  /\ messages \subseteq Message
  /\ opened \subseteq Talks /\ closed \subseteq Talks
  /\ touched \in [Talks -> Instants \cup {0}]
  /\ sent \subseteq Message
  /\ crossed \subseteq Talks /\ mislaid \subseteq Message

ConversationsInit ==
  /\ conversations = {} /\ messages = {}
  /\ opened = {} /\ closed = {}
  /\ touched = [t \in Talks |-> 0]
  /\ sent = {} /\ crossed = {} /\ mislaid = {}

-----------------------------------------------------------------------------
(* Faults of the kind this code could have, for the runs to detect. *)
AnyId(id) ==
  [id : {id}, owner : Owners, at : {0}, deleted : {FALSE}]
Same(conversation) == conversations \cap {conversation}
Reopened(conversation, at) == [conversation EXCEPT !.at = at, !.deleted = FALSE]

\* getById: by the id alone, and also if it was removed.
FindConversation(id) == {c \in conversations : c.id = id}

At(conversation, at) == [conversation EXCEPT !.at = at]

Held(conversation) == {c \in conversations : Talk(c) = Talk(conversation)}

TalkOps == {"createConversation", "touchConversation", "closeConversation"}

TalksOf(calls) == {Talk(o.conversation) : o \in {c \in calls : c.op \in TalkOps}}

MessagesOf(calls) == {o.message : o \in {c \in calls : c.op = "createMessage"}}

TalkOverlap(c) == {Talk(c.conversation)} \cap TalksOf(Others(c))

-----------------------------------------------------------------------------

\* The answer does not wait for the container.
OpenConversation(id, owner) ==
  LET new == [id |-> id, owner |-> owner, at |-> 0, deleted |-> FALSE] IN
  /\ Start({[op |-> "createConversation", conversation |-> new]})
  /\ opened' = opened \cup {Talk(new)}
  /\ UNCHANGED <<conversations, messages, closed, touched, sent, crossed, mislaid>>

\* Both calls are sent, and the message is confirmed, before either arrives.
CreateMessage(id, at) ==
  /\ \E c \in FindConversation(id) :
       /\ Start({[op |-> "touchConversation", conversation |-> At(c, at)],
                 [op |-> "createMessage", message |-> [conversation |-> id, at |-> at]]})
       /\ touched' = [touched EXCEPT ![Talk(c)] = at]
  /\ sent' = sent \cup {[conversation |-> id, at |-> at]}
  /\ UNCHANGED <<conversations, messages, opened, closed, crossed, mislaid>>

RemoveConversation(id) ==
  /\ \E c \in FindConversation(id) :
       Start({[op |-> "closeConversation", conversation |-> [c EXCEPT !.deleted = TRUE]]})
  /\ UNCHANGED conversationVars

ConversationRequest ==
  \/ \E id \in ConversationIds, owner \in Owners : OpenConversation(id, owner)
  \/ \E id \in ConversationIds :
       \/ RemoveConversation(id)
       \/ \E at \in {t \in Instants : \A m \in sent : m.at # t} : CreateMessage(id, at)

\* A create of a conversation that is there is refused, and nobody waits for
\* it: nothing but the end of the process can happen to that call.
StoreConversation(c) ==
  /\ c.op = "createConversation"
  /\ Held(c.conversation) = {}
  /\ conversations' = conversations \cup {c.conversation}
  /\ Continue(c, {})
  /\ UNCHANGED <<messages, conversationsTold, crossed, mislaid>>

\* Nothing deletes a conversation for good, so that the replace finds it.
ReplaceConversation(c) ==
  /\ c.op \in {"touchConversation", "closeConversation"}
  /\ conversations' = (conversations \ Held(c.conversation)) \cup {c.conversation}
  /\ Continue(c, {})
  /\ closed' = closed \cup (IF c.op = "closeConversation" THEN {Talk(c.conversation)} ELSE {})
  /\ crossed' = crossed \cup TalkOverlap(c)
  /\ UNCHANGED <<messages, opened, touched, sent, mislaid>>

StoreMessage(c) ==
  /\ c.op = "createMessage"
  /\ messages' = messages \cup {c.message}
  /\ Continue(c, {})
  /\ UNCHANGED <<conversations, conversationsTold, crossed, mislaid>>

AnswerConversation(c) == StoreConversation(c) \/ ReplaceConversation(c) \/ StoreMessage(c)

\* The removal is the only call of this service that is awaited.
FailConversation(c) ==
  /\ c.op = "closeConversation"
  /\ Continue(c, {})
  /\ UNCHANGED conversationVars

LoseConversations ==
  LET calls == {c \in BagToSet(pending) : c.op # "closeConversation"} IN
  /\ crossed' = crossed \cup TalksOf(calls)
  /\ mislaid' = mislaid \cup MessagesOf(calls)
  /\ UNCHANGED <<conversations, messages, conversationsTold>>

-----------------------------------------------------------------------------
(* Safety. *)

\* A message is stored only for a conversation that is stored, although both
\* writes are sent at once and a create may be answered before it is stored
\* or refused.  (createMessage reads the conversation; nothing deletes one.)
MessagesHaveConversation ==
  \A m \in messages \cup MessagesOf(BagToSet(pending)) :
    \E c \in conversations : c.id = m.conversation

TalkSettled(t) == t \notin crossed \cup TalksOf(BagToSet(pending))

\* Once the writes have arrived, a conversation that was created is stored,
\* with the time of its last message; it is listed (findAll) exactly if its
\* removal was not confirmed; and an accepted message is stored.  Unless two
\* writes to it overlapped or one was lost.
\* (create, createMessage, remove: message and removal replace what they read.)
ConversationsAsTold ==
  /\ \A t \in opened : TalkSettled(t) =>
       \E c \in conversations :
         Talk(c) = t /\ c.at = touched[t] /\ (c.deleted <=> t \in closed)
  /\ sent \subseteq messages \cup mislaid \cup MessagesOf(BagToSet(pending))
=============================================================================
