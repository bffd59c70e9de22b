SPECIFICATION MCSpec
CONSTANTS
  CommentIds = {k1, k2, k3}
  CommentedPosts = {p1}
  Readers = {r1, r2}
  NoParent = NoParent
  ConversationIds = {c1}
  Owners = {o1, o2}
  Instants = {1, 2}
  CounterIds = {v1, v2}
  FileIds = {f1}
  EntryIds = {s1, i1}
  Settings = {s1}
  Texts = {x, y}
  None = None
  MaxAccepted = 5
SYMMETRY Symmetry
INVARIANTS
  CommunityTypeOK
  RepliesOneDeep
  ShownAsTold
  MessagesHaveConversation
  ConversationsAsTold
  VisitsCounted
  FilesAsTold
  ListedAsTold
