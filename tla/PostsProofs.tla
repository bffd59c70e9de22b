----------------------------- MODULE PostsProofs -----------------------------
(***************************************************************************)
(* Proofs about Posts for any number of posts, requests and calls. The     *)
(* argument: a post is either stored, once, or carried by the one call     *)
(* that is about to create it, or it is gone; no other write of a handler, *)
(* however old what it has read, brings a post back, because a replace and *)
(* a delete are refused when the post is not there.                        *)
(*                                                                         *)
(* What was read tells the rest: unless calls on its post have overlapped, *)
(* a call has read the post that is stored, and what it writes differs     *)
(* from it only in what its handler is about. So the home page, its cached *)
(* rendering, the slugs, the likes, the index and the audio follow the     *)
(* posts.                                                                  *)
(***************************************************************************)
EXTENDS Posts, CallsProofs, FiniteProofs

-----------------------------------------------------------------------------
(* The inductive invariant. *)

\* The types of everything but the calls.
VarsOK ==
  /\ posts \subseteq Post
  /\ index \in [Ids -> Slug \cup {None}]
  /\ blob \in [Ids -> Contents \cup {None}]
  /\ home \in [Slots -> Ids \cup {None}]
  /\ cache \in [Slots -> (Ids \cup {None}) \X (Slug \cup {None})] \cup {None}
  /\ issued \subseteq Ids
  /\ removed \subseteq Ids
  /\ ups \in [Ids -> Nat] /\ downs \in [Ids -> Nat] /\ unchecked \subseteq Ids
  /\ edited \subseteq Ids
  /\ raced \subseteq Ids \cup Slots \cup {"slugs", "cache"}

CallsOK == IsABag(pending) /\ BagToSet(pending) \subseteq Call

\* The likes a post may have.
Likes ==
  [id \in Ids |-> {n \in -downs[id]..ups[id] : n < 0 => id \in unchecked}]

\* A post as some request may have seen it, or may be about to write it.
Known(p, given, likes) == p.id \in given /\ p.likes \in likes[p.id]

\* What a call knows of the posts it is going to write.
Fit(c, given, likes) ==
  /\ c.op \in WorkOps => Known(c.post, given, likes)
  /\ c.op \in WorkOps /\ c.op # "insert" => c.seen \in Post /\ c.seen.id = c.post.id
  /\ c.op = "speak" => c.post.content # None
  /\ c.op = "renumber" =>
       \A w \in c.left : w[1].id = w[2].id /\ Known(w[2], given, likes)

\* The post a create carries is nowhere else.
Carries(c) ==
  c.op = "insert" =>
    /\ pending[c] = 1
    /\ c.post.id \notin removed
    /\ \A p \in posts : p.id # c.post.id
    /\ \A d \in BagToSet(pending) : d.op = "insert" /\ d.post.id = c.post.id => d = c

PostsInv ==
  /\ IsFiniteSet(posts)
  /\ OneCopy /\ RemovedForGood
  /\ \A p \in posts : Known(p, issued, Likes)
  /\ removed \subseteq issued

IInv ==
  /\ VarsOK /\ CallsOK /\ PostsInv
  /\ \A c \in BagToSet(pending) : Fit(c, issued, Likes) /\ Carries(c)

-----------------------------------------------------------------------------
(* What the calls carry. *)

\* The operation of a call tells its kind.
LEMMA CallKinds ==
  ASSUME NEW c \in Call
  PROVE  /\ c.op \in WorkOps => c \in Works /\ c.post \in Post /\ c.post.id \in Ids
         /\ c.op = "index" => c \in IndexCalls
         /\ c.op = "upload" => c \in Uploads
         /\ c.op = "assign" => c \in Assignments
         /\ c.op = "page" => c \in Pages
         /\ c.op = "renumber" => c \in Renumberings
         /\ c.op \in WorkOps \cup {"index", "upload", "assign", "page", "renumber"}
<1>1. CASE c \in Works
  BY <1>1 DEF Works, WorkOps, Post
<1>2. CASE c \in IndexCalls \cup Uploads \cup Assignments \cup Pages \cup Renumberings
  BY <1>2 DEF IndexCalls, Uploads, Assignments, Pages, Renumberings, WorkOps
<1> QED
  BY <1>1, <1>2 DEF Call

\* Work on a post that is stored.
LEMMA WorkCall ==
  ASSUME NEW op \in WorkOps, NEW seen \in Post \cup {None}, NEW post \in Post, NEW after \in After
  PROVE  LET c == Work(op, seen, post, after) IN
         /\ c \in Call /\ c.op = op /\ c.seen = seen /\ c.post = post /\ c.after = after
BY DEF Work, Works, Call

\* The calls to the index that follow.
LEMMA FollowCall ==
  ASSUME NEW c \in Works
  PROVE  /\ Follow(c) \subseteq Call
         /\ \A d \in Follow(c) : d.op = "index"
BY DEF Follow, IndexCall, IndexCalls, Call, Works, Post

\* What may be recorded as raced.
LEMMA RacedTypes ==
  ASSUME NEW c \in Call
  PROVE  /\ About(c) \subseteq Ids
         /\ Lost(c) \subseteq Ids \cup {"slugs"}
         /\ SlugRace \subseteq {"slugs"} /\ CacheRace \subseteq {"cache"}
         /\ \A id, ops : Overlap(c, id, ops) \subseteq {id}
<1>1. About(c) \subseteq Ids
  <2>1. CASE c.op \in WorkOps
    BY <2>1, CallKinds DEF About, WorkOps
  <2>2. CASE c.op \in {"index", "upload"}
    BY <2>2, CallKinds DEF About, IndexCalls, Uploads, WorkOps
  <2>3. CASE c.op = "renumber"
    BY <2>3, CallKinds DEF About, Renumberings, Post, WorkOps
  <2>4. CASE c.op \in {"assign", "page"}
    BY <2>4 DEF About, WorkOps
  <2> QED
    BY <2>1, <2>2, <2>3, <2>4, CallKinds
<1> QED
  BY <1>1 DEF Lost, SlugRace, CacheRace, Overlap

\* There are finitely many slugs.
LEMMA SlugsFinite ==
  ASSUME IInv
  PROVE  IsFiniteSet(Slugs)
<1> DEFINE f == [p \in posts |-> p.slug]
<1>1. f \in Surjection(posts, Slugs)
  BY DEF Slugs, Surjection
<1> HIDE DEF f
<1> QED
  BY <1>1, FS_Surjection DEF IInv, PostsInv

\* A slug is chosen, whatever slugs there are,
LEMMA FreeNumberType ==
  ASSUME IInv, NEW title
  PROVE  FreeNumber(title) \in Nat
<1>1. Cardinality(Slugs) \in Nat
  BY SlugsFinite, FS_CardinalityType
<1>2. FreeNumber(title) \in 1..Cardinality(Slugs) + 1
  BY SlugsFinite, UniqueSlugIsNew DEF FreeNumber
<1> QED
  BY <1>1, <1>2

\* and it is none of them.
LEMMA SlugIsFree ==
  ASSUME IInv, NEW title
  PROVE  <<title, FreeNumber(title)>> \notin Slugs
BY SlugsFinite, UniqueSlugIsNew DEF FreeNumber

\* The number of a slug is changed and nothing else.
LEMMA NumberedPost ==
  ASSUME NEW p \in Post, NEW n \in Nat
  PROVE  LET q == [p EXCEPT !.slug[2] = n] IN
         q \in Post /\ q.id = p.id /\ q.likes = p.likes
BY DEF Post, Slug

-----------------------------------------------------------------------------
(* Steps that store no post. *)

\* What no like has touched.
LEMMA LikesUntouched ==
  ASSUME UNCHANGED <<ups, downs, unchecked>>
  PROVE  UNCHANGED Likes /\ \A id \in Ids : Likes[id] \subseteq Likes'[id]
BY DEF Likes

\* Knowing more posts and more likes does no harm.
LEMMA FitStill ==
  ASSUME NEW c \in Call, Fit(c, issued, Likes), issued \subseteq issued',
         \A id \in Ids : Likes[id] \subseteq Likes'[id]
  PROVE  Fit(c, issued', Likes')
<1>1. ASSUME NEW p \in Post, Known(p, issued, Likes)
      PROVE  Known(p, issued', Likes')
  BY <1>1 DEF Known, Post
<1>2. c.op = "renumber" => \A w \in c.left : w[2] \in Post
  BY CallKinds DEF Renumberings
<1> QED
  BY <1>1, <1>2, CallKinds DEF Fit

\* A step that stores nothing keeps the invariant if the calls it adds create
\* no post and are fit, and a create that is answered is gone.
LEMMA KeepPosts ==
  ASSUME IInv, VarsOK', CallsOK', NEW old, NEW new,
         BagToSet(pending') \subseteq BagToSet(pending) \cup new,
         \A c \in BagToSet(pending) : c.op = "insert" /\ c # old => pending'[c] = pending[c],
         old \in BagToSet(pending) /\ old.op = "insert" => old \notin BagToSet(pending'),
         \A c \in new : c.op # "insert" /\ Fit(c, issued', Likes'),
         UNCHANGED <<posts, issued, removed>>,
         \A id \in Ids : Likes[id] \subseteq Likes'[id]
  PROVE  IInv'
<1>1. \A c \in BagToSet(pending') : Fit(c, issued', Likes')
  BY FitStill DEF IInv, CallsOK
<1>2. ASSUME NEW c \in BagToSet(pending'), c.op = "insert"
      PROVE  Carries(c)'
  <2>1. c \in BagToSet(pending) /\ c # old
    BY <1>2
  <2>2. Carries(c)
    BY <2>1 DEF IInv
  <2> QED
    BY <1>2, <2>1, <2>2 DEF Carries
<1>3. \A p \in posts' : Known(p, issued', Likes')
  <2> SUFFICES ASSUME NEW p \in posts
               PROVE  Known(p, issued', Likes')
    OBVIOUS
  <2>1. p.id \in Ids /\ Known(p, issued, Likes)
    BY DEF IInv, VarsOK, PostsInv, Post
  <2> QED
    BY <2>1 DEF Known
<1>4. PostsInv'
  BY <1>3 DEF IInv, PostsInv, OneCopy, RemovedForGood
<1> QED
  BY <1>1, <1>2, <1>4 DEF IInv, Carries

\* A request sends calls.
LEMMA SendStep ==
  ASSUME IInv, VarsOK', NEW new \in SUBSET Call, Start(new),
         \A c \in new : c.op # "insert" /\ Fit(c, issued', Likes'),
         UNCHANGED <<posts, issued, removed>>,
         \A id \in Ids : Likes[id] \subseteq Likes'[id]
  PROVE  IInv'
<1>1. /\ CallsOK'
      /\ BagToSet(pending') \subseteq BagToSet(pending) \cup new
  BY StartCalls DEF IInv, CallsOK
<1>2. \A c \in BagToSet(pending) : c.op = "insert" => pending'[c] = pending[c]
  BY StartCounts DEF IInv, CallsOK
<1> DEFINE old == [op |-> "none"]
<1>3. old.op # "insert"
  OBVIOUS
<1> HIDE DEF old
<1> QED
  BY <1>1, <1>2, <1>3, KeepPosts

\* A call is answered, or fails, and others are sent.
LEMMA AnswerStep ==
  ASSUME IInv, VarsOK', NEW c \in BagToSet(pending), NEW new \in SUBSET Call, Continue(c, new),
         \A d \in new : d.op # "insert" /\ Fit(d, issued', Likes'),
         UNCHANGED <<posts, issued, removed, Likes>>
  PROVE  IInv'
<1>1. /\ CallsOK'
      /\ BagToSet(pending') \subseteq BagToSet(pending) \cup new
  BY ContinueCalls DEF IInv, CallsOK
<1>2. \A d \in BagToSet(pending) : d.op = "insert" /\ d # c => pending'[d] = pending[d]
  BY ContinueCounts DEF IInv, CallsOK
<1>3. c.op = "insert" => c \notin BagToSet(pending')
  BY ContinueCounts DEF IInv, CallsOK, Carries
<1>4. \A id \in Ids : Likes[id] \subseteq Likes'[id]
  BY DEF IInv, VarsOK
<1> QED
  BY <1>1, <1>2, <1>3, <1>4, KeepPosts

\* The variables a request or an answer may change besides the posts.
LEMMA VarsStill ==
  ASSUME VarsOK,
         UNCHANGED <<posts, index, blob, home, cache, issued, removed, ups, downs, unchecked, edited>>,
         raced' \subseteq Ids \cup Slots \cup {"slugs", "cache"}
  PROVE  VarsOK'
BY DEF VarsOK

-----------------------------------------------------------------------------
(* The requests. *)

\* What an update makes of the post it has read.
LEMMA RevisedPost ==
  ASSUME NEW p \in Post, NEW category \in Categories \cup {Omitted},
         NEW content \in Contents \cup {None, Omitted}
  PROVE  LET q == Revised(p, category, content) IN
         /\ q \in Post /\ q.id = p.id /\ q.likes = p.likes
         /\ [q EXCEPT !.audio = p.audio] \in Post
BY DEF Revised, Given, Post

LEMMA RetitledPost ==
  ASSUME NEW p \in Post, NEW title \in Titles
  PROVE  LET q == Retitled(p, title) IN
         q \in Post /\ q.id = p.id /\ q.likes = p.likes
BY DEF Retitled, Post, Slug

\* Work on a post that was just read, which keeps its id and its likes.
LEMMA WorkStep ==
  ASSUME IInv, NEW p \in posts, NEW q \in Post, q.id = p.id, q.likes = p.likes,
         NEW op \in WorkOps \ {"insert"}, NEW after \in After,
         op = "speak" => q.content # None,
         Start({Work(op, p, q, after)}),
         UNCHANGED <<posts, index, blob, home, cache, issued, told, edited, raced>>
  PROVE  IInv'
<1> DEFINE call == Work(op, p, q, after)
<1>1. p \in Post /\ Known(q, issued, Likes)
  BY DEF IInv, VarsOK, PostsInv, Known
<1>2. /\ call \in Call /\ call.op = op /\ call.seen = p /\ call.post = q
  BY <1>1, WorkCall
<1> HIDE DEF call
<1>3. Fit(call, issued, Likes) /\ call.op # "insert"
  BY <1>1, <1>2 DEF Fit, WorkOps
<1>4. VarsOK' /\ UNCHANGED <<removed, Likes>> /\ \A id \in Ids : Likes[id] \subseteq Likes'[id]
  BY VarsStill, LikesUntouched DEF IInv, VarsOK, told
<1> DEFINE new == {call}
<1>5. new \in SUBSET Call /\ Start(new) /\ \A c \in new : c.op # "insert" /\ Fit(c, issued', Likes')
  BY <1>2, <1>3, <1>4 DEF call
<1> HIDE DEF new
<1> QED
  BY <1>4, <1>5, SendStep

LEMMA UpdateStep ==
  ASSUME IInv, NEW p \in posts, NEW title \in Titles \cup {Omitted},
         NEW category \in Categories \cup {Omitted}, NEW content \in Contents \cup {None, Omitted},
         \/ Update(p, title, category, content)
         \/ UpdatePostRequest(p, title, category, content)
  PROVE  IInv'
<1>1. p \in Post
  BY DEF IInv, VarsOK
<1>2. CASE Update(p, title, category, content)
  <2> DEFINE new == Revised(p, category, content)
  <2>1. new \in Post /\ new.id = p.id /\ new.likes = p.likes
    BY <1>1, RevisedPost
  <2> HIDE DEF new
  <2>2. title # Omitted => Retitled(new, title) \in Post
          /\ Retitled(new, title).id = p.id /\ Retitled(new, title).likes = p.likes
    BY <2>1, RetitledPost
  <2>3. UNCHANGED <<posts, index, blob, home, cache, issued, told, edited, raced>>
    BY <1>2 DEF Update
  <2>4. \/ \E op \in {"move", "replace"} : Start({Work(op, p, new, "update")})
        \/ title # Omitted /\ \E op \in {"retitleMove", "retitle"} :
             Start({Work(op, p, Retitled(new, title), "update")})
    BY <1>2 DEF Update, new
  <2>5. CASE \E op \in {"move", "replace"} : Start({Work(op, p, new, "update")})
    BY <2>1, <2>3, <2>5, WorkStep DEF WorkOps, After
  <2>6. CASE title # Omitted /\ \E op \in {"retitleMove", "retitle"} :
             Start({Work(op, p, Retitled(new, title), "update")})
    BY <2>2, <2>3, <2>6, WorkStep DEF WorkOps, After
  <2> QED
    BY <2>4, <2>5, <2>6
<1>3. CASE UpdatePostRequest(p, title, category, content)
  <2> DEFINE new == [Revised(p, category, content) EXCEPT !.audio = p.audio]
  <2>1. new \in Post /\ new.id = p.id /\ new.likes = p.likes
    BY <1>1, RevisedPost DEF Post
  <2> HIDE DEF new
  <2>2. title # Omitted => Retitled(new, title) \in Post
          /\ Retitled(new, title).id = p.id /\ Retitled(new, title).likes = p.likes
    BY <2>1, RetitledPost
  <2>3. UNCHANGED <<posts, index, blob, home, cache, issued, told, edited, raced>>
    BY <1>3 DEF UpdatePostRequest
  <2>4. \/ \E op \in {"move", "replace"} : Start({Work(op, p, new, "nothing")})
        \/ title # Omitted /\ \E op \in {"retitleMove", "retitle"} :
             Start({Work(op, p, Retitled(new, title), "nothing")})
    BY <1>3 DEF UpdatePostRequest, new
  <2>5. CASE \E op \in {"move", "replace"} : Start({Work(op, p, new, "nothing")})
    BY <2>1, <2>3, <2>5, WorkStep DEF WorkOps, After
  <2>6. CASE title # Omitted /\ \E op \in {"retitleMove", "retitle"} :
             Start({Work(op, p, Retitled(new, title), "nothing")})
    BY <2>2, <2>3, <2>6, WorkStep DEF WorkOps, After
  <2> QED
    BY <2>4, <2>5, <2>6
<1> QED
  BY <1>2, <1>3

LEMMA ToggleRemoveSpeakStep ==
  ASSUME IInv, NEW p \in posts, ToggleActiveState(p) \/ RemovePost(p) \/ GetAudio(p)
  PROVE  IInv'
<1>1. p \in Post
  BY DEF IInv, VarsOK
<1>2. CASE ToggleActiveState(p)
  <2> DEFINE new == [p EXCEPT !.active = ~@]
  <2>1. new \in Post /\ new.id = p.id /\ new.likes = p.likes
    BY <1>1 DEF Post
  <2>2. \/ Start({Work("replace", p, new, "save")})
        \/ Start({Work("deactivate", p, new, "delete")})
    BY <1>2 DEF ToggleActiveState
  <2>3. UNCHANGED <<posts, index, blob, home, cache, issued, told, edited, raced>>
    BY <1>2 DEF ToggleActiveState
  <2> HIDE DEF new
  <2> QED
    BY <2>1, <2>2, <2>3, WorkStep DEF WorkOps, After
<1>3. CASE RemovePost(p)
  BY <1>1, <1>3, WorkStep DEF RemovePost, WorkOps, After
<1>4. CASE GetAudio(p)
  <2> DEFINE new == [p EXCEPT !.audio = TRUE]
  <2>1. new \in Post /\ new.id = p.id /\ new.likes = p.likes
    BY <1>1 DEF Post
  <2>2. /\ Start({Work("speak", p, new, "unawaited")})
        /\ UNCHANGED <<posts, index, blob, home, cache, issued, told, edited, raced>>
    BY <1>4 DEF GetAudio
  <2>3. new.content # None
    BY <1>1, <1>4 DEF GetAudio, Post
  <2> HIDE DEF new
  <2> QED
    BY <2>1, <2>2, <2>3, WorkStep DEF WorkOps, After
<1> QED
  BY <1>2, <1>3, <1>4

\* A like, or one taken back, is one of those the post may have: only an action
\* that is not checked takes one from a post that has none.
LEMMA LikesGrow ==
  ASSUME IInv, NEW p \in posts
  PROVE  /\ Like(p) =>
              /\ Liked(p) \in Post /\ Liked(p).id = p.id
              /\ Liked(p).likes \in Likes'[p.id]
              /\ \A id \in Ids : Likes[id] \subseteq Likes'[id]
         /\ \A action : Unlike(p, action) =>
              /\ Unliked(p) \in Post /\ Unliked(p).id = p.id
              /\ Unliked(p).likes \in Likes'[p.id]
              /\ \A id \in Ids : Likes[id] \subseteq Likes'[id]
<1>1. /\ p \in Post /\ p.id \in Ids /\ p.likes \in Int
      /\ p.likes \in -downs[p.id]..ups[p.id] /\ (p.likes < 0 => p.id \in unchecked)
      /\ ups \in [Ids -> Nat] /\ downs \in [Ids -> Nat]
  BY DEF IInv, VarsOK, PostsInv, Known, Likes, Post
<1>2. \A id \in Ids : ups[id] \in Nat /\ downs[id] \in Nat
  BY <1>1
<1>3. ASSUME Like(p)
      PROVE  /\ Liked(p) \in Post /\ Liked(p).id = p.id
             /\ Liked(p).likes \in Likes'[p.id]
             /\ \A id \in Ids : Likes[id] \subseteq Likes'[id]
  <2>1. Liked(p) \in Post /\ Liked(p).id = p.id /\ Liked(p).likes = p.likes + 1
    BY <1>1 DEF Liked, Post
  <2>2. ups' = [ups EXCEPT ![p.id] = @ + 1] /\ UNCHANGED <<downs, unchecked>>
    BY <1>3 DEF Like
  <2>3. ups'[p.id] = ups[p.id] + 1 /\ \A id \in Ids : ups[id] <= ups'[id] /\ ups'[id] \in Nat
    BY <1>1, <1>2, <2>2
  <2>4. p.likes + 1 \in Likes'[p.id]
    BY <1>1, <1>2, <2>2, <2>3 DEF Likes
  <2>5. \A id \in Ids : Likes[id] \subseteq Likes'[id]
    BY <1>2, <2>2, <2>3 DEF Likes
  <2> QED
    BY <2>1, <2>4, <2>5
<1>4. ASSUME NEW action, Unlike(p, action)
      PROVE  /\ Unliked(p) \in Post /\ Unliked(p).id = p.id
             /\ Unliked(p).likes \in Likes'[p.id]
             /\ \A id \in Ids : Likes[id] \subseteq Likes'[id]
  <2>1. Unliked(p) \in Post /\ Unliked(p).id = p.id /\ Unliked(p).likes = p.likes - 1
    BY <1>1 DEF Unliked, Post
  <2>2. /\ downs' = [downs EXCEPT ![p.id] = @ + 1] /\ UNCHANGED ups
        /\ unchecked \subseteq unchecked'
        /\ p.likes # 0 \/ p.id \in unchecked'
    BY <1>4 DEF Unlike, MayDecrement
  <2>3. downs'[p.id] = downs[p.id] + 1 /\ \A id \in Ids : downs[id] <= downs'[id] /\ downs'[id] \in Nat
    BY <1>1, <1>2, <2>2
  <2>4. p.likes - 1 \in Likes'[p.id]
    BY <1>1, <1>2, <2>2, <2>3 DEF Likes
  <2>5. \A id \in Ids : Likes[id] \subseteq Likes'[id]
    BY <1>2, <2>2, <2>3 DEF Likes
  <2> QED
    BY <2>1, <2>4, <2>5
<1> QED
  BY <1>3, <1>4

\* A like counts before it is written.
LEMMA LikeStep ==
  ASSUME IInv, NEW p \in posts,
         Like(p) \/ \E action \in {"decrement", "other"} : Unlike(p, action)
  PROVE  IInv'
<1>1. /\ p \in Post /\ p.id \in Ids /\ p.id \in issued
      /\ ups \in [Ids -> Nat] /\ downs \in [Ids -> Nat] /\ unchecked \subseteq Ids
  BY DEF IInv, VarsOK, PostsInv, Known, Post
<1>2. PICK q \in Post :
        /\ q.id = p.id /\ q.likes \in Likes'[p.id]
        /\ Start({Work("replace", p, q, "unawaited")})
  BY LikesGrow DEF Like, Unlike
<1>3. /\ ups' \in [Ids -> Nat] /\ downs' \in [Ids -> Nat] /\ unchecked' \subseteq Ids
      /\ UNCHANGED <<posts, index, blob, home, cache, issued, removed, edited, raced>>
  BY <1>1 DEF Like, Unlike
<1>4. VarsOK'
  BY <1>3 DEF IInv, VarsOK
<1> DEFINE call == Work("replace", p, q, "unawaited")
<1>5. call \in Call /\ call.op = "replace" /\ call.seen = p /\ call.post = q
  BY <1>1, <1>2, WorkCall DEF WorkOps, After
<1> HIDE DEF call
<1>6. Fit(call, issued', Likes')
  BY <1>1, <1>2, <1>3, <1>5 DEF Fit, Known, WorkOps
<1> DEFINE new == {call}
<1>7. new \in SUBSET Call /\ Start(new) /\ \A c \in new : c.op # "insert" /\ Fit(c, issued', Likes')
  BY <1>2, <1>5, <1>6 DEF call
<1> HIDE DEF new
<1>8. \A id \in Ids : Likes[id] \subseteq Likes'[id]
  BY LikesGrow
<1> QED
  BY <1>3, <1>4, <1>7, <1>8, SendStep

\* A create brings a post nobody has heard of.
LEMMA CreateStep ==
  ASSUME IInv, NEW id \in Ids, NEW title \in Titles, NEW category \in Categories,
         NEW content \in Contents \cup {None}, Create(id, title, category, content)
  PROVE  IInv'
<1>1. PICK call \in Call :
        /\ call.op = "insert" /\ call.post.id = id /\ call.post.likes = 0
        /\ Start({call})
  <2> DEFINE post == [id |-> id, category |-> category, slug |-> <<title, FreeNumber(title)>>,
                      content |-> content, audio |-> FALSE, likes |-> 0, active |-> TRUE]
             new == Work("insert", None, post, "save")
  <2>1. post \in Post /\ post.id = id /\ post.likes = 0
    BY FreeNumberType DEF Post, Slug
  <2>2. Start({new})
    BY DEF Create
  <2> HIDE DEF post
  <2>3. new \in Call /\ new.op = "insert" /\ new.post = post
    BY <2>1 DEF Work, Works, WorkOps, After, Call
  <2> HIDE DEF new
  <2> QED
    BY <2>1, <2>2, <2>3
<1>2. id \notin issued /\ issued' = issued \cup {id}
  BY DEF Create
<1>4. UNCHANGED <<posts, index, blob, home, cache, removed, ups, downs, unchecked, edited>>
      /\ raced' = raced \cup SlugRace
  BY DEF Create, told
<1>5. VarsOK'
  BY <1>2, <1>4 DEF IInv, VarsOK, SlugRace
<1>6. /\ CallsOK'
      /\ BagToSet(pending') = BagToSet(pending) \cup {call}
      /\ call \notin BagToSet(pending) => pending'[call] = 1
      /\ \A c \in BagToSet(pending) \ {call} : pending'[c] = pending[c]
  BY <1>1, StartCalls, StartCounts DEF IInv, CallsOK
<1>7. \A c \in BagToSet(pending) : c.op = "insert" => c.post.id \in issued
  BY DEF IInv, Fit, Known, WorkOps
<1>8. call \notin BagToSet(pending)
  BY <1>1, <1>2, <1>7
<1>9. PostsInv'
  BY <1>2, <1>4, LikesUntouched DEF IInv, PostsInv, OneCopy, RemovedForGood, Known
<1>10. ASSUME NEW c \in BagToSet(pending)
       PROVE  Fit(c, issued', Likes') /\ Carries(c)'
  <2>1. Fit(c, issued', Likes')
    BY <1>2, <1>4, LikesUntouched DEF IInv, Fit, Known
  <2>2. Carries(c)'
    BY <1>1, <1>2, <1>4, <1>6, <1>7, <1>8 DEF IInv, Carries
  <2> QED
    BY <2>1, <2>2
<1>11. Fit(call, issued', Likes')
  BY <1>1, <1>2, <1>4, LikesUntouched DEF Fit, Known, Likes, IInv, VarsOK, WorkOps
<1>12. Carries(call)'
  <2>1. \A p \in posts : p.id # id
    BY <1>2 DEF IInv, PostsInv, Known
  <2>2. id \notin removed
    BY <1>2 DEF IInv, PostsInv
  <2>3. pending'[call] = 1 /\ call.post.id = id
    BY <1>1, <1>6, <1>8
  <2>4. \A d \in BagToSet(pending') : d.op = "insert" /\ d.post.id = id => d = call
    BY <1>2, <1>6, <1>7
  <2> QED
    BY <1>4, <2>1, <2>2, <2>3, <2>4 DEF Carries
<1>13. \A c \in BagToSet(pending') : Fit(c, issued', Likes') /\ Carries(c)'
  BY <1>6, <1>10, <1>11, <1>12
<1> QED
  BY <1>5, <1>6, <1>9, <1>13 DEF IInv

LEMMA UpdateSlugsStep ==
  ASSUME IInv, UpdateSlugs
  PROVE  IInv'
<1>1. PICK number \in [posts -> 1..Cardinality(posts)] :
        Start({[op |-> "renumber", ok |-> TRUE,
                left |-> {<<p, [p EXCEPT !.slug[2] = number[p]]>> : p \in posts}]})
  BY DEF UpdateSlugs
<1> DEFINE renumbered(p) == [p EXCEPT !.slug[2] = number[p]]
           pairs == {<<p, renumbered(p)>> : p \in posts}
           call == [op |-> "renumber", ok |-> TRUE, left |-> pairs]
<1>2. ASSUME NEW p \in posts
      PROVE  /\ p \in Post /\ renumbered(p) \in Post /\ renumbered(p).id = p.id
             /\ Known(renumbered(p), issued, Likes)
  <2>1. p \in Post /\ Known(p, issued, Likes)
    BY DEF IInv, VarsOK, PostsInv
  <2>2. number[p] \in Nat
    BY FS_CardinalityType DEF IInv, PostsInv
  <2>3. renumbered(p) \in Post /\ renumbered(p).id = p.id /\ renumbered(p).likes = p.likes
    BY <2>1, <2>2, NumberedPost
  <2> HIDE DEF renumbered
  <2> QED
    BY <2>1, <2>3 DEF Known
<1> HIDE DEF renumbered
<1>3. /\ pairs \subseteq Post \X Post
      /\ \A w \in pairs : w[1].id = w[2].id /\ Known(w[2], issued, Likes)
  BY <1>2
<1> HIDE DEF pairs
<1>4. call \in Call /\ call.op = "renumber" /\ call.left = pairs
  BY <1>3 DEF Call, Renumberings
<1>5. Start({call})
  BY <1>1 DEF pairs, renumbered
<1> HIDE DEF call
<1>6. /\ UNCHANGED <<posts, index, blob, home, cache, issued, removed, ups, downs, unchecked, edited>>
      /\ raced' = raced \cup SlugRace
  BY DEF UpdateSlugs, told
<1>7. VarsOK' /\ \A id \in Ids : Likes[id] \subseteq Likes'[id]
  BY <1>6, VarsStill, LikesUntouched DEF IInv, VarsOK, SlugRace
<1>8. Fit(call, issued', Likes')
  BY <1>3, <1>4, <1>6, LikesUntouched DEF Fit, WorkOps
<1> DEFINE new == {call}
<1>9. new \in SUBSET Call /\ Start(new) /\ \A c \in new : c.op # "insert" /\ Fit(c, issued', Likes')
  BY <1>4, <1>5, <1>8
<1> HIDE DEF new
<1> QED
  BY <1>6, <1>7, <1>9, SendStep

\* Calls that carry no post.
LEMMA LightCalls ==
  ASSUME NEW new \in SUBSET Call,
         \A c \in new : c.op \in {"index", "upload", "assign", "page"}
  PROVE  \A c \in new : c.op # "insert" /\ Fit(c, issued', Likes')
BY DEF Fit, WorkOps

LEMMA OtherRequests ==
  ASSUME IInv,
         \/ SyncAlgolia \/ GetHomePosts
         \/ \E slot \in Slots, id \in Ids : UpdateHomePosts(slot, id)
  PROVE  IInv'
<1>1. /\ UNCHANGED <<posts, index, blob, home, cache, issued, removed, ups, downs, unchecked, edited>>
      /\ raced' \subseteq Ids \cup Slots \cup {"slugs", "cache"}
  <2>1. raced \subseteq Ids \cup Slots \cup {"slugs", "cache"} /\ \A p \in posts : p.id \in Ids
    BY DEF IInv, VarsOK, Post
  <2>2. CASE SyncAlgolia
    <3>1. UNCHANGED <<posts, index, blob, home, cache, issued, removed, ups, downs, unchecked, edited>>
      BY <2>2 DEF SyncAlgolia, told
    <3>2. raced' \subseteq raced \cup {p.id : p \in posts}
      BY <2>2 DEF SyncAlgolia
    <3> QED
      BY <2>1, <3>1, <3>2
  <2>3. CASE ~SyncAlgolia
    BY <2>1, <2>3 DEF GetHomePosts, UpdateHomePosts, told
  <2> QED
    BY <2>2, <2>3
<1>2. VarsOK' /\ \A id \in Ids : Likes[id] \subseteq Likes'[id]
  BY <1>1, VarsStill, LikesUntouched DEF IInv, VarsOK
<1>3. PICK new \in SUBSET Call :
        Start(new) /\ \A c \in new : c.op \in {"index", "upload", "assign", "page"}
  <2>1. CASE SyncAlgolia
    <3> DEFINE new == {IndexCall("save", p) : p \in posts}
    <3>1. \A p \in Post : IndexCall("save", p) \in Call /\ IndexCall("save", p).op = "index"
      BY DEF IndexCall, IndexCalls, Call, Post
    <3>2. new \in SUBSET Call /\ \A c \in new : c.op = "index"
      BY <3>1 DEF IInv, VarsOK
    <3>3. Start(new)
      BY <2>1 DEF SyncAlgolia
    <3> HIDE DEF new
    <3> QED
      BY <3>2, <3>3
  <2>2. CASE GetHomePosts
    <3> DEFINE call == [op |-> "page", names |-> home, shows |-> [s \in Slots |-> Omitted]]
    <3>1. call \in Call /\ call.op = "page" /\ Start({call})
      BY <2>2 DEF GetHomePosts, Call, Pages, IInv, VarsOK
    <3> HIDE DEF call
    <3> QED
      BY <3>1
  <2>3. ASSUME NEW slot \in Slots, NEW id \in Ids, UpdateHomePosts(slot, id)
        PROVE  \E new \in SUBSET Call :
                 Start(new) /\ \A c \in new : c.op \in {"index", "upload", "assign", "page"}
    <3> DEFINE call == [op |-> "assign", slot |-> slot, id |-> id]
    <3>1. call \in Call /\ call.op = "assign" /\ Start({call})
      BY <2>3 DEF UpdateHomePosts, Call, Assignments
    <3> HIDE DEF call
    <3> QED
      BY <3>1
  <2> QED
    BY <2>1, <2>2, <2>3
<1> QED
  BY <1>1, <1>2, <1>3, LightCalls, SendStep

-----------------------------------------------------------------------------
(* The answers that store no post. *)

\* What an answer does to the work it goes on with.
LEMMA WorkGoesOn ==
  ASSUME IInv, NEW c \in BagToSet(pending), c.op \in WorkOps \ {"insert"},
         NEW op \in WorkOps \ {"insert", "speak"}, NEW q \in Post, q.id = c.post.id, q.likes = c.post.likes
  PROVE  LET d == [c EXCEPT !.op = op, !.post = q] IN
         d \in Call /\ d.op = op /\ d.post = q /\ Fit(d, issued, Likes)
<1> DEFINE d == [c EXCEPT !.op = op, !.post = q]
<1>1. c \in Works /\ Fit(c, issued, Likes)
  BY CallKinds DEF IInv, CallsOK
<1>2. d \in Works /\ d.op = op /\ d.post = q /\ d.seen = c.seen
  BY <1>1 DEF Works
<1> HIDE DEF d
<1>3. Fit(d, issued, Likes)
  BY <1>1, <1>2 DEF Fit, Known, WorkOps
<1> QED
  BY <1>2, <1>3 DEF Call, d

LEMMA ChooseSlugStep ==
  ASSUME IInv, NEW c \in BagToSet(pending), ChooseSlug(c)
  PROVE  IInv'
<1>1. /\ c.op \in WorkOps \ {"insert"} /\ c \in Works /\ c.post \in Post
  BY CallKinds DEF ChooseSlug, WorkOps, IInv, CallsOK
<1> DEFINE op == IF c.op = "retitle" THEN "replace" ELSE "move"
           n == FreeNumber(c.post.slug[1])
           q == [c.post EXCEPT !.slug[2] = n]
           d == [c EXCEPT !.op = op, !.post.slug[2] = n]
<1>2. n \in Nat
  BY FreeNumberType
<1>3. Continue(c, {d})
  BY DEF ChooseSlug
<1> HIDE DEF n
<1>4. q \in Post /\ q.id = c.post.id /\ q.likes = c.post.likes
  BY <1>1, <1>2, NumberedPost
<1>5. d = [c EXCEPT !.op = op, !.post = q]
  BY <1>1 DEF Works
<1>6. op \in WorkOps \ {"insert", "speak"}
  BY DEF WorkOps
<1> HIDE DEF d, q, op
<1>7. d \in Call /\ d.op = op /\ Fit(d, issued, Likes)
  <2>1. LET e == [c EXCEPT !.op = op, !.post = q] IN
        e \in Call /\ e.op = op /\ e.post = q /\ Fit(e, issued, Likes)
    BY ONLY IInv, c \in BagToSet(pending), <1>1, <1>4, <1>6, WorkGoesOn
  <2> QED
    BY <1>5, <2>1
<1>8. /\ UNCHANGED <<posts, index, blob, home, cache, issued, removed, ups, downs, unchecked, edited>>
      /\ raced' = raced \cup SlugRace
  BY DEF ChooseSlug, told
<1>9. VarsOK'
  BY <1>8, VarsStill DEF IInv, VarsOK, SlugRace
<1> DEFINE new == {d}
<1>10. new \in SUBSET Call /\ Continue(c, new) /\ \A e \in new : e.op # "insert" /\ Fit(e, issued', Likes')
  BY <1>3, <1>6, <1>7, <1>8, LikesUntouched
<1> HIDE DEF new
<1> QED
  BY <1>8, <1>9, <1>10, LikesUntouched, AnswerStep

\* One call is followed by one that goes on with the same work.
LEMMA GoOnStep ==
  ASSUME IInv, NEW c \in BagToSet(pending), c.op \in WorkOps, c.op # "insert",
         NEW op \in WorkOps \ {"insert", "speak"}, NEW light \in SUBSET Call,
         \A d \in light : d.op \in {"index", "upload", "assign", "page"},
         Continue(c, {[c EXCEPT !.op = op]} \cup light),
         UNCHANGED <<posts, index, blob, home, cache, issued, told, edited>>,
         raced' \subseteq Ids \cup Slots \cup {"slugs", "cache"}
  PROVE  IInv'
<1> DEFINE d == [c EXCEPT !.op = op]
<1>1. c \in Works /\ Fit(c, issued, Likes)
  BY CallKinds DEF IInv, CallsOK
<1>2. d \in Works /\ d.op = op /\ d.post = c.post /\ d.seen = c.seen
  BY <1>1 DEF Works
<1>3. Fit(d, issued, Likes) /\ d.op # "insert" /\ d \in Call
  BY <1>1, <1>2 DEF Fit, WorkOps, Call
<1> HIDE DEF d
<1>4. UNCHANGED <<issued, removed, Likes, posts>> /\ VarsOK'
  BY VarsStill, LikesUntouched DEF told, IInv, VarsOK
<1> DEFINE new == {d} \cup light
<1>5. new \in SUBSET Call /\ Continue(c, new) /\ \A e \in new : e.op # "insert" /\ Fit(e, issued', Likes')
  BY <1>3, <1>4, LightCalls DEF d
<1> HIDE DEF new
<1> QED
  BY <1>4, <1>5, AnswerStep

LEMMA CheckAndSpeakStep ==
  ASSUME IInv, NEW c \in BagToSet(pending), CheckPostReferences(c) \/ Speak(c)
  PROVE  IInv'
<1>1. /\ c.op \in WorkOps /\ c.op # "insert" /\ c \in Works /\ c.post \in Post /\ c \in Call
      /\ c.post.id \in Ids
  BY CallKinds DEF CheckPostReferences, Speak, WorkOps, IInv, CallsOK
<1>2. /\ UNCHANGED <<posts, index, blob, home, cache, issued, told, edited>>
      /\ raced' \subseteq Ids \cup Slots \cup {"slugs", "cache"}
  BY <1>1 DEF CheckPostReferences, Speak, IInv, VarsOK, Overlap
<1>3. CASE c.op = "deactivate" /\ Continue(c, {[c EXCEPT !.op = "replace"]})
  <2> DEFINE light == {}
  <2>1. /\ light \in SUBSET Call
        /\ \A d \in light : d.op \in {"index", "upload", "assign", "page"}
        /\ Continue(c, {[c EXCEPT !.op = "replace"]} \cup light)
    BY <1>3
  <2>2. "replace" \in WorkOps \ {"insert", "speak"}
    BY DEF WorkOps
  <2> HIDE DEF light
  <2> QED
    BY <1>1, <1>2, <2>1, <2>2, GoOnStep
<1>4. CASE c.op = "erase" /\ Continue(c, {[c EXCEPT !.op = "remove"]} \cup Follow(c))
  <2>1. Follow(c) \in SUBSET Call /\ \A d \in Follow(c) : d.op = "index"
    BY <1>1, FollowCall
  <2>2. "remove" \in WorkOps \ {"insert", "speak"}
    BY DEF WorkOps
  <2> QED
    BY <1>1, <1>2, <1>4, <2>1, <2>2, GoOnStep
<1>5. CASE Speak(c)
  <2> DEFINE upload == [op |-> "upload", id |-> c.post.id, content |-> c.post.content]
  <2>1. c.post.content # None
    BY <1>5 DEF Speak, IInv, Fit
  <2>2. upload \in Call /\ upload.op = "upload"
    BY <1>1, <2>1 DEF Call, Uploads, Post
  <2>3. Continue(c, {[c EXCEPT !.op = "replace"], upload})
    BY <1>5 DEF Speak
  <2> HIDE DEF upload
  <2>4. Continue(c, {[c EXCEPT !.op = "replace"]} \cup {upload})
    <3>1. {[c EXCEPT !.op = "replace"], upload} = {[c EXCEPT !.op = "replace"]} \cup {upload}
      OBVIOUS
    <3> QED
      BY <2>3, <3>1
  <2>5. "replace" \in WorkOps \ {"insert", "speak"} /\ {upload} \in SUBSET Call
        /\ \A d \in {upload} : d.op \in {"index", "upload", "assign", "page"}
    BY <2>2 DEF WorkOps
  <2> QED
    BY <1>1, <1>2, <2>4, <2>5, GoOnStep
<1> QED
  BY <1>3, <1>4, <1>5 DEF CheckPostReferences

\* An answer after which nothing is sent.
LEMMA EndStep ==
  ASSUME IInv, NEW c \in BagToSet(pending), Continue(c, {}), VarsOK',
         UNCHANGED <<posts, issued, removed, Likes>>
  PROVE  IInv'
<1> DEFINE new == {}
<1>1. new \in SUBSET Call /\ Continue(c, new) /\ \A d \in new : d.op # "insert" /\ Fit(d, issued', Likes')
  OBVIOUS
<1> HIDE DEF new
<1> QED
  BY <1>1, AnswerStep

LEMMA LightAnswers ==
  ASSUME IInv, NEW c \in BagToSet(pending),
         Upload(c) \/ SearchIndex(c) \/ FinishSlugs(c) \/ Assign(c) \/ FillCache(c) \/ Fail(c)
  PROVE  IInv'
<1>1. Continue(c, {}) /\ UNCHANGED <<posts, issued, removed, Likes>>
  BY LikesUntouched DEF Upload, SearchIndex, FinishSlugs, Assign, FillCache, Fail, told
<1>2. c \in Call
  BY DEF IInv, CallsOK
<1>3. VarsOK'
  <2>1. CASE Upload(c)
    <3>1. c.id \in Ids /\ c.content \in Contents
      BY <1>2, <2>1, CallKinds DEF Upload, Uploads
    <3> QED
      BY <2>1, <3>1 DEF Upload, IInv, VarsOK, told
  <2>2. CASE SearchIndex(c)
    <3>1. c.id \in Ids /\ c.slug \in Slug
      BY <1>2, <2>2, CallKinds DEF SearchIndex, IndexCalls
    <3> QED
      BY <2>2, <3>1 DEF SearchIndex, IInv, VarsOK, told
  <2>3. CASE FinishSlugs(c)
    BY <2>3 DEF FinishSlugs, CacheRace, IInv, VarsOK, told
  <2>4. CASE Assign(c)
    <3>1. c.slot \in Slots /\ c.id \in Ids
      BY <1>2, <2>4, CallKinds DEF Assign, Assignments
    <3> QED
      BY <2>4, <3>1 DEF Assign, CacheRace, IInv, VarsOK, told
  <2>5. CASE FillCache(c)
    <3>1. /\ c.names \in [Slots -> Ids \cup {None}]
          /\ \A s \in Slots : c.shows[s] \in Slug \cup {None}
      BY <1>2, <2>5, CallKinds DEF FillCache, Pages
    <3>2. cache' \in [Slots -> (Ids \cup {None}) \X (Slug \cup {None})]
      BY <2>5, <3>1 DEF FillCache
    <3> QED
      BY <2>5, <3>2 DEF FillCache, IInv, VarsOK, told
  <2>6. CASE Fail(c)
    <3>1. Lost(c) \subseteq Ids \cup {"slugs"}
      BY <1>2, RacedTypes
    <3> QED
      BY <2>6, <3>1 DEF Fail, IInv, VarsOK, told
  <2> QED
    BY <2>1, <2>2, <2>3, <2>4, <2>5, <2>6
<1> QED
  BY <1>1, <1>3, EndStep

LEMMA ReadPostStep ==
  ASSUME IInv, NEW c \in BagToSet(pending), ReadPost(c)
  PROVE  IInv'
<1>1. c.op = "page" /\ c \in Pages
  BY CallKinds DEF ReadPost, IInv, CallsOK
<1>2. /\ UNCHANGED <<posts, index, blob, home, cache, issued, removed, ups, downs, unchecked, edited, raced>>
      /\ VarsOK'
  BY VarsStill DEF ReadPost, told, IInv, VarsOK
<1>3. PICK s \in Slots, slug \in Slug \cup {None} : Continue(c, {[c EXCEPT !.shows[s] = slug]})
  <2>1. \A id : Shown(id) \subseteq Slug
    BY DEF Shown, IInv, VarsOK, Post
  <2> QED
    BY <2>1 DEF ReadPost
<1> DEFINE d == [c EXCEPT !.shows[s] = slug]
<1>4. d \in Call /\ d.op = "page"
  BY <1>1 DEF Pages, Call
<1>5. Continue(c, {d})
  BY <1>3
<1> HIDE DEF d
<1> DEFINE new == {d}
<1>6. new \in SUBSET Call /\ Continue(c, new)
      /\ \A e \in new : e.op \in {"index", "upload", "assign", "page"}
  BY <1>4, <1>5
<1> HIDE DEF new
<1>7. \A e \in new : e.op # "insert" /\ Fit(e, issued', Likes')
  BY <1>6, LightCalls
<1> QED
  BY <1>2, <1>6, <1>7, LikesUntouched, AnswerStep

LEMMA ExpireAndRestart ==
  ASSUME IInv, Expire \/ Restart \/ UNCHANGED vars
  PROVE  IInv'
<1>1. UNCHANGED <<posts, issued, removed, Likes>> /\ \A id \in Ids : Likes[id] \subseteq Likes'[id]
  BY LikesUntouched DEF Expire, Restart, vars, told, IInv, VarsOK
<1>2. CallsOK' /\ (pending' = pending \/ BagToSet(pending') = {})
  BY NoCalls DEF Expire, Restart, vars, IInv, CallsOK
<1>3. VarsOK'
  <2>1. CASE Restart
    <3>1. UNION {Lost(c) : c \in BagToSet(pending)} \subseteq Ids \cup {"slugs"}
      BY RacedTypes DEF IInv, CallsOK
    <3> QED
      BY <2>1, <3>1 DEF Restart, IInv, VarsOK, told
  <2>2. CASE Expire \/ UNCHANGED vars
    BY <2>2 DEF Expire, vars, IInv, VarsOK, told
  <2> QED
    BY <2>1, <2>2
<1> DEFINE old == [op |-> "none"]
           new == {}
<1>4. /\ BagToSet(pending') \subseteq BagToSet(pending) \cup new
      /\ old.op # "insert"
      /\ \A c \in new : c.op # "insert" /\ Fit(c, issued', Likes')
  BY <1>2
<1> HIDE DEF old, new
<1>5. CASE pending' = pending
  BY <1>1, <1>2, <1>3, <1>4, <1>5, KeepPosts
<1>6. CASE BagToSet(pending') = {}
  <2>1. PostsInv'
    <3>1. PostsInv
      BY DEF IInv
    <3> QED
      BY <1>1, <3>1 DEF PostsInv, OneCopy, RemovedForGood, Known
  <2> QED
    BY <1>2, <1>3, <1>6, <2>1 DEF IInv
<1> QED
  BY <1>2, <1>5, <1>6

-----------------------------------------------------------------------------
(* The writes. *)

\* What is recorded after a write.
LEMMA AfterWriteTypes ==
  ASSUME IInv, NEW c \in BagToSet(pending), c.op \in WorkOps, AfterWrite(c)
  PROVE  /\ Continue(c, Follow(c)) /\ Follow(c) \in SUBSET Call
         /\ \A d \in Follow(c) : d.op = "index"
         /\ cache' \in [Slots -> (Ids \cup {None}) \X (Slug \cup {None})] \cup {None}
         /\ raced' \subseteq Ids \cup Slots \cup {"slugs", "cache"}
<1>1. c \in Works /\ c.post.id \in Ids
  BY CallKinds DEF IInv, CallsOK
<1>2. cache' \in [Slots -> (Ids \cup {None}) \X (Slug \cup {None})] \cup {None}
  BY DEF AfterWrite, CacheAfter, IInv, VarsOK
<1>3. raced' \subseteq Ids \cup Slots \cup {"slugs", "cache"}
  BY <1>1 DEF AfterWrite, Overlap, CacheRace, IInv, VarsOK
<1> QED
  BY <1>1, <1>2, <1>3, FollowCall DEF AfterWrite

\* A step that replaces a post by one with the same id, or none, while it
\* answers a call that is no create.
LEMMA StoreStep ==
  ASSUME IInv, VarsOK', NEW c \in BagToSet(pending), c.op # "insert",
         NEW new \in SUBSET Call, Continue(c, new),
         \A d \in new : d.op # "insert" /\ Fit(d, issued, Likes),
         NEW q \in Post, Known(q, issued, Likes),
         posts' = (posts \ Stored(q)) \cup (IF Stored(q) # {} THEN {q} ELSE {}),
         UNCHANGED <<issued, removed, Likes>>
  PROVE  IInv'
<1>1. /\ CallsOK'
      /\ BagToSet(pending') \subseteq BagToSet(pending) \cup new
      /\ \A d \in BagToSet(pending) : d.op = "insert" => pending'[d] = pending[d]
  BY ContinueCalls, ContinueCounts DEF IInv, CallsOK
<1>2. \A p \in posts' : p = q \/ p \in posts
  OBVIOUS
<1>3. q \in posts' => \E p \in posts : p.id = q.id
  BY DEF Stored, Key
<1>4. PostsInv'
  <2>1. IsFiniteSet(posts')
    <3>1. IsFiniteSet(posts \ Stored(q))
      BY FS_Subset DEF IInv, PostsInv
    <3>2. IsFiniteSet(IF Stored(q) # {} THEN {q} ELSE {})
      BY FS_EmptySet, FS_Singleton
    <3> QED
      BY <3>1, <3>2, FS_Union
  <2>2. OneCopy'
    <3>1. ASSUME NEW p \in posts, p \in posts', q \in posts', p.id = q.id
          PROVE  p = q
      <4>1. PICK r \in posts : r \in Stored(q) /\ r.id = q.id
        BY <3>1 DEF Stored, Key
      <4>2. p = r
        BY <3>1, <4>1 DEF IInv, PostsInv, OneCopy
      <4> QED
        BY <3>1, <4>1, <4>2
    <3> QED
      BY <1>2, <3>1 DEF OneCopy, IInv, PostsInv
  <2>3. RemovedForGood'
    BY <1>2, <1>3 DEF RemovedForGood, IInv, PostsInv
  <2>4. \A p \in posts' : Known(p, issued, Likes)
    BY <1>2 DEF IInv, PostsInv
  <2> QED
    BY <2>1, <2>2, <2>3, <2>4 DEF IInv, PostsInv
<1>5. ASSUME NEW d \in BagToSet(pending')
      PROVE  Fit(d, issued, Likes) /\ Carries(d)'
  <2>1. Fit(d, issued, Likes)
    BY <1>1 DEF IInv
  <2>2. ASSUME d.op = "insert"
        PROVE  Carries(d)'
    <3>1. d \in BagToSet(pending) /\ Carries(d) /\ pending'[d] = pending[d]
      BY <1>1, <2>2 DEF IInv
    <3>2. \A p \in posts' : p.id # d.post.id
      BY <1>2, <1>3, <2>2, <3>1 DEF Carries
    <3> QED
      BY <1>1, <2>2, <3>1, <3>2 DEF Carries
  <2> QED
    BY <2>1, <2>2 DEF Carries
<1> QED
  BY <1>1, <1>4, <1>5 DEF IInv

LEMMA ReplaceStep ==
  ASSUME IInv, NEW c \in BagToSet(pending), Replace(c)
  PROVE  IInv'
<1>1. /\ c.op \in WorkOps /\ c.op # "insert" /\ c.post \in Post /\ c.post.id \in Ids
      /\ Known(c.post, issued, Likes)
  BY CallKinds DEF Replace, WorkOps, IInv, CallsOK, Fit
<1>2. /\ Continue(c, Follow(c)) /\ Follow(c) \in SUBSET Call
      /\ \A d \in Follow(c) : d.op = "index"
      /\ cache' \in [Slots -> (Ids \cup {None}) \X (Slug \cup {None})] \cup {None}
      /\ raced' \subseteq Ids \cup Slots \cup {"slugs", "cache"}
  BY <1>1, AfterWriteTypes DEF Replace
<1>3. /\ posts' = (posts \ Stored(c.post)) \cup (IF Stored(c.post) # {} THEN {c.post} ELSE {})
      /\ UNCHANGED <<index, blob, home, issued, removed, ups, downs, unchecked>>
      /\ edited' \subseteq Ids
  BY <1>1 DEF Replace, CanReplace, Edit, told, IInv, VarsOK
<1>4. VarsOK'
  BY <1>1, <1>2, <1>3 DEF IInv, VarsOK
<1>5. \A d \in Follow(c) : d.op # "insert" /\ Fit(d, issued, Likes)
  BY <1>2 DEF Fit, WorkOps
<1> QED
  BY <1>1, <1>2, <1>3, <1>4, <1>5, LikesUntouched, StoreStep

LEMMA RenumberStep ==
  ASSUME IInv, NEW c \in BagToSet(pending), Renumber(c)
  PROVE  IInv'
<1>1. c.op = "renumber" /\ c \in Renumberings /\ c \in Call /\ Fit(c, issued, Likes)
  BY CallKinds DEF Renumber, IInv, CallsOK
<1>2. PICK w \in c.left :
        /\ posts' = (posts \ Stored(w[2])) \cup (IF Stored(w[2]) # {} THEN {w[2]} ELSE {})
        /\ Continue(c, {[c EXCEPT !.left = @ \ {w}, !.ok = @ /\ Stored(w[2]) # {}]})
        /\ edited' = edited \cup {w[1].id}
        /\ raced' = raced \cup Overlap(c, w[1].id, WorkOps \cup {"renumber"})
                         \cup (IF Stored(w[2]) = {} THEN {"slugs"} ELSE {})
  BY DEF Renumber
<1>3. /\ w[1] \in Post /\ w[2] \in Post /\ w[1].id \in Ids
      /\ Known(w[2], issued, Likes)
  BY <1>1 DEF Renumberings, Post, Fit
<1>4. PICK ok \in BOOLEAN : ok = (c.ok /\ Stored(w[2]) # {})
  OBVIOUS
<1> DEFINE d == [c EXCEPT !.left = @ \ {w}, !.ok = ok]
<1>5. d \in Call /\ d.op = "renumber" /\ d.left = c.left \ {w}
  BY <1>1 DEF Renumberings, Call
<1>6. Continue(c, {d})
  BY <1>1, <1>2, <1>4 DEF Renumberings
<1> HIDE DEF d
<1>7. Fit(d, issued, Likes) /\ d.op # "insert"
  BY <1>1, <1>5 DEF Fit, WorkOps
<1>8. VarsOK'
  <2>1. UNCHANGED <<index, blob, home, cache, issued, removed, ups, downs, unchecked>>
    BY DEF Renumber, told
  <2> QED
    BY <1>2, <1>3, <2>1 DEF IInv, VarsOK, Overlap
<1> DEFINE new == {d}
<1>9. new \in SUBSET Call /\ Continue(c, new) /\ \A e \in new : e.op # "insert" /\ Fit(e, issued, Likes)
  BY <1>5, <1>6, <1>7
<1> HIDE DEF new
<1>10. c.op # "insert" /\ UNCHANGED <<issued, removed, Likes>>
  BY <1>1, LikesUntouched DEF Renumber, told
<1> QED
  BY <1>2, <1>3, <1>8, <1>9, <1>10, StoreStep

\* What a delete leaves, and that only the deleted post had its id.
LEMMA Deleted ==
  ASSUME IInv, NEW c \in BagToSet(pending), c.op \in WorkOps, c.op # "insert",
         CanDelete(c.seen), posts' = posts \ Stored(c.seen)
  PROVE  /\ IsFiniteSet(posts') /\ OneCopy'
         /\ posts' \subseteq posts
         /\ \A p \in posts' : p.id # c.post.id
         /\ \E p \in posts : p.id = c.post.id
<1>1. c.seen \in Post /\ c.seen.id = c.post.id
  BY DEF IInv, Fit
<1>2. PICK r \in posts : r \in Stored(c.seen) /\ r.id = c.post.id
  BY <1>1 DEF CanDelete, Stored, Key
<1>3. \A p \in posts' : p \in posts /\ p.id # c.post.id
  BY <1>2 DEF IInv, PostsInv, OneCopy
<1>4. IsFiniteSet(posts')
  BY FS_Subset DEF IInv, PostsInv
<1> QED
  BY <1>2, <1>3, <1>4 DEF IInv, PostsInv, OneCopy

\* remove: the post is gone, and no create of it is under way.
LEMMA RemoveStep ==
  ASSUME IInv, NEW c \in BagToSet(pending), Remove(c)
  PROVE  IInv'
<1>1. /\ c.op \in WorkOps /\ c.op # "insert" /\ c.post.id \in Ids
      /\ c.post.id \in issued
  BY CallKinds DEF Remove, WorkOps, IInv, CallsOK, Fit, Known
<1>2. /\ posts' = posts \ Stored(c.seen) /\ CanDelete(c.seen)
      /\ removed' = removed \cup {c.post.id} /\ Continue(c, {})
      /\ raced' = raced \cup Overlap(c, c.post.id, WorkOps \cup {"renumber"})
      /\ UNCHANGED <<index, blob, home, cache, issued, ups, downs, unchecked, edited>>
  BY DEF Remove
<1>3. /\ IsFiniteSet(posts') /\ OneCopy' /\ posts' \subseteq posts
      /\ \A p \in posts' : p.id # c.post.id
      /\ \E p \in posts : p.id = c.post.id
  BY <1>1, <1>2, Deleted
<1>4. VarsOK'
  BY <1>1, <1>2 DEF IInv, VarsOK, Overlap
<1>5. /\ CallsOK' /\ BagToSet(pending') \subseteq BagToSet(pending)
      /\ \A d \in BagToSet(pending) : d.op = "insert" => pending'[d] = pending[d]
  BY <1>1, <1>2, ContinueCalls, ContinueCounts DEF IInv, CallsOK
<1>6. PostsInv'
  BY <1>1, <1>2, <1>3, LikesUntouched DEF IInv, PostsInv, RemovedForGood
<1>7. ASSUME NEW d \in BagToSet(pending')
      PROVE  Fit(d, issued, Likes) /\ Carries(d)'
  <2>1. Fit(d, issued, Likes) /\ Carries(d)
    BY <1>5 DEF IInv
  <2>2. Carries(d)'
    BY <1>2, <1>3, <1>5, <2>1 DEF Carries
  <2> QED
    BY <2>1, <2>2
<1> QED
  BY <1>2, <1>4, <1>5, <1>6, <1>7, LikesUntouched DEF IInv

\* The delete of a move: the create carries the post now.
LEMMA MoveStep ==
  ASSUME IInv, NEW c \in BagToSet(pending), Move(c)
  PROVE  IInv'
<1>1. /\ c.op = "move" /\ c.op \in WorkOps /\ c.op # "insert" /\ c \in Works
      /\ c.post \in Post /\ c.post.id \in Ids /\ Fit(c, issued, Likes)
  BY CallKinds DEF Move, WorkOps, IInv, CallsOK
<1>2. /\ posts' = posts \ Stored(c.seen) /\ CanDelete(c.seen)
      /\ raced' = raced \cup Overlap(c, c.post.id, WorkOps \cup {"renumber"})
      /\ UNCHANGED <<index, blob, home, cache, issued, removed, ups, downs, unchecked>>
      /\ edited' \subseteq Ids
  BY <1>1 DEF Move, Edit, told, IInv, VarsOK
<1> DEFINE call == [c EXCEPT !.op = "insert"]
<1>3. call \in Call /\ call.op = "insert" /\ call.post = c.post
  BY <1>1 DEF Works, WorkOps, Call
<1>4. Continue(c, {call})
  BY DEF Move
<1> HIDE DEF call
<1>5. /\ IsFiniteSet(posts') /\ OneCopy' /\ posts' \subseteq posts
      /\ \A p \in posts' : p.id # c.post.id
      /\ \E p \in posts : p.id = c.post.id
  BY <1>1, <1>2, Deleted
<1>6. \A d \in BagToSet(pending) : d.op = "insert" => d.post.id # c.post.id
  BY <1>5 DEF IInv, Carries
<1>7. call \notin BagToSet(pending)
  BY <1>3, <1>6
<1>8. /\ CallsOK' /\ BagToSet(pending') \subseteq BagToSet(pending) \cup {call}
      /\ pending'[call] = 1
      /\ \A d \in BagToSet(pending) : d.op = "insert" => pending'[d] = pending[d]
  BY <1>1, <1>3, <1>4, <1>7, ContinueCalls, ContinueCounts DEF IInv, CallsOK
<1>9. VarsOK'
  BY <1>1, <1>2 DEF IInv, VarsOK, Overlap
<1>10. c.post.id \notin removed
  BY <1>5 DEF IInv, PostsInv, RemovedForGood
<1>11. PostsInv'
  BY <1>2, <1>5, LikesUntouched DEF IInv, PostsInv, RemovedForGood
<1>12. Fit(call, issued, Likes) /\ Carries(call)'
  <2>1. Fit(call, issued, Likes)
    BY <1>1, <1>3 DEF Fit, WorkOps
  <2>2. Carries(call)'
    BY <1>2, <1>3, <1>5, <1>6, <1>8, <1>10 DEF Carries
  <2> QED
    BY <2>1, <2>2
<1>13. ASSUME NEW d \in BagToSet(pending)
       PROVE  Fit(d, issued, Likes) /\ (d \in BagToSet(pending') => Carries(d)')
  <2>1. Fit(d, issued, Likes) /\ Carries(d)
    BY DEF IInv
  <2>2. d \in BagToSet(pending') => Carries(d)'
    BY <1>2, <1>3, <1>5, <1>6, <1>8, <2>1 DEF Carries
  <2> QED
    BY <2>1, <2>2
<1>14. \A d \in BagToSet(pending') : Fit(d, issued, Likes) /\ Carries(d)'
  BY <1>8, <1>12, <1>13
<1> QED
  BY <1>2, <1>8, <1>9, <1>11, <1>14, LikesUntouched DEF IInv

\* The create: the post is stored, and nobody carries it any more.
LEMMA InsertStep ==
  ASSUME IInv, NEW c \in BagToSet(pending), Insert(c)
  PROVE  IInv'
<1>1. /\ c.op = "insert" /\ c.op \in WorkOps /\ c.post \in Post /\ c.post.id \in Ids
      /\ Known(c.post, issued, Likes) /\ Carries(c)
  BY CallKinds DEF Insert, WorkOps, IInv, CallsOK, Fit
<1>2. /\ Continue(c, Follow(c)) /\ Follow(c) \in SUBSET Call
      /\ \A d \in Follow(c) : d.op = "index"
      /\ cache' \in [Slots -> (Ids \cup {None}) \X (Slug \cup {None})] \cup {None}
      /\ raced' \subseteq Ids \cup Slots \cup {"slugs", "cache"}
  BY <1>1, AfterWriteTypes DEF Insert
<1>3. /\ posts' = posts \cup {c.post}
      /\ UNCHANGED <<index, blob, home, issued, removed, ups, downs, unchecked, edited>>
  BY DEF Insert, told
<1>4. /\ CallsOK' /\ BagToSet(pending') \subseteq BagToSet(pending) \cup Follow(c)
      /\ c \notin BagToSet(pending')
      /\ \A d \in BagToSet(pending) : d.op = "insert" /\ d # c => pending'[d] = pending[d]
  BY <1>1, <1>2, ContinueCalls, ContinueCounts DEF IInv, CallsOK, Carries
<1>5. VarsOK'
  BY <1>1, <1>2, <1>3 DEF IInv, VarsOK
<1>6. PostsInv'
  <2>1. IsFiniteSet(posts')
    BY <1>3, FS_AddElement DEF IInv, PostsInv
  <2> QED
    BY <1>1, <1>3, <2>1, LikesUntouched DEF IInv, PostsInv, OneCopy, RemovedForGood, Carries
<1>7. ASSUME NEW d \in BagToSet(pending')
      PROVE  Fit(d, issued, Likes) /\ Carries(d)'
  <2>1. Fit(d, issued, Likes)
    BY <1>2, <1>4 DEF IInv, Fit, WorkOps
  <2>2. ASSUME d.op = "insert"
        PROVE  Carries(d)'
    <3>1. d \in BagToSet(pending) /\ d # c /\ pending'[d] = pending[d] /\ Carries(d)
      BY <1>2, <1>4, <2>2 DEF IInv
    <3>2. d.post.id # c.post.id
      BY <1>1, <2>2, <3>1 DEF Carries
    <3>3. \A e \in BagToSet(pending') : e.op = "insert" => e \in BagToSet(pending)
      BY <1>2, <1>4
    <3> QED
      BY <1>3, <2>2, <3>1, <3>2, <3>3 DEF Carries
  <2> QED
    BY <2>1, <2>2 DEF Carries
<1> QED
  BY <1>3, <1>4, <1>5, <1>6, <1>7, LikesUntouched DEF IInv

-----------------------------------------------------------------------------
(* The invariant, and what follows from it. *)

LEMMA Initially == Init => IInv
BY NoCalls, FS_EmptySet
DEF Init, IInv, VarsOK, CallsOK, PostsInv, OneCopy, RemovedForGood

LEMMA Inductive == IInv /\ [Next]_vars => IInv'
<1> SUFFICES ASSUME IInv, [Next]_vars
             PROVE  IInv'
  OBVIOUS
<1>1. CASE Request
  BY <1>1, CreateStep, UpdateStep, ToggleRemoveSpeakStep, LikeStep, UpdateSlugsStep,
     OtherRequests DEF Request
<1>2. CASE GetHomePosts
  BY <1>2, OtherRequests
<1>3. ASSUME NEW c \in BagToSet(pending), Answer(c) \/ Fail(c)
      PROVE  IInv'
  BY <1>3, ChooseSlugStep, CheckAndSpeakStep, ReplaceStep, MoveStep, InsertStep,
     RemoveStep, RenumberStep, ReadPostStep, LightAnswers DEF Answer
<1>4. CASE Expire \/ Restart \/ UNCHANGED vars
  BY <1>4, ExpireAndRestart
<1> QED
  BY <1>1, <1>2, <1>3, <1>4 DEF Next

LEMMA PostsInductive == Spec => []IInv
BY Initially, Inductive, PTL DEF Spec

\* Posts, index, audio, home page, cache and calls under way keep their types,
\* whatever overlaps, fails or is lost (every handler of PostsService).
THEOREM PostsTypeCorrect == Spec => []TypeOK
<1>1. IInv => TypeOK
  BY DEF IInv, VarsOK, CallsOK, TypeOK
<1> QED
  BY <1>1, PostsInductive, PTL

\* A post is stored at most once, whatever requests move it between
\* categories at the same time (update, updatePostRequest).
THEOREM PostsStoredOnce == Spec => []OneCopy
<1>1. IInv => OneCopy
  BY DEF IInv, PostsInv
<1> QED
  BY <1>1, PostsInductive, PTL

\* A post whose removal was confirmed never comes back, although requests that
\* have read it go on writing it (remove).
THEOREM RemovedPostsStayAway == Spec => []RemovedForGood
<1>1. IInv => RemovedForGood
  BY DEF IInv, PostsInv
<1> QED
  BY <1>1, PostsInductive, PTL

\* A post never has more likes than it was given, nor lost more than were taken
\* back, and it is below zero only if a like was taken back unchecked, however
\* stale the posts are that handlers write back (updateLikes).
THEOREM LikesNeverInvented == Spec => []LikesBounded
<1>1. IInv => LikesBounded
  BY DEF IInv, VarsOK, PostsInv, Known, Likes, Post, LikesBounded
<1> QED
  BY <1>1, PostsInductive, PTL
-----------------------------------------------------------------------------
(* What the calls under way have read.                                     *)

\* How what a call is going to write differs from what it has read.
Shape(c) ==
  /\ c.op \in WorkOps /\ c.seen # None =>
       /\ c.seen.id = c.post.id
       /\ c.after \in {"save", "delete", "unawaited"} =>
            /\ c.op \in {"deactivate", "erase", "speak", "replace", "remove"}
            /\ c.post.slug = c.seen.slug /\ c.post.content = c.seen.content
       /\ c.after \in {"save", "delete"} => c.post.audio = c.seen.audio
       /\ c.after = "unawaited" => c.op \in {"speak", "replace"}
       /\ c.after # "unawaited" \/ c.op = "speak" => c.post.likes = c.seen.likes
       /\ c.after \in {"update", "nothing", "unawaited"} => c.post.active = c.seen.active
       /\ c.after = "delete" /\ c.op \in {"deactivate", "replace"} => c.post.active = FALSE
       /\ c.op \in {"deactivate", "erase", "remove"} => c.after = "delete"
       /\ c.op \in {"retitle", "retitleMove", "move", "insert"} => c.after \in {"update", "nothing"}
       /\ c.after = "update" /\ c.post.audio = TRUE /\ c.post.content # None =>
            c.seen.audio = TRUE /\ c.post.content = c.seen.content
       /\ c.after = "nothing" /\ c.op \in {"retitleMove", "move", "insert"} =>
            c.post.category # c.seen.category
       /\ c.op = "speak" => c.after = "unawaited" /\ c.seen.audio = FALSE
  /\ c.op = "insert" /\ c.seen = None =>
       c.after = "save" /\ c.post.likes = 0 /\ c.post.audio = FALSE
  /\ c.op = "renumber" =>
       \A w, v \in c.left :
         /\ w[1].id = v[1].id => w = v
         /\ w[2].likes = w[1].likes

\* Unless its post has raced, a call has read the post that is stored.
Fresh(c) ==
  /\ c.op \in WorkOps /\ c.op # "insert" /\ c.post.id \notin raced => c.seen \in posts
  /\ c.op = "renumber" => \A w \in c.left : w[1].id \notin raced => w[1] \in posts

SeenInv == \A c \in BagToSet(pending) : Shape(c) /\ Fresh(c)

\* The posts there are: those stored, and those about to be created again.
Now ==
  posts \cup {c.seen : c \in {d \in BagToSet(pending) : d.op = "insert" /\ d.seen # None}}


\* Who a call is about, by its operation.
LEMMA AboutCalls ==
  ASSUME NEW c \in Call
  PROVE  /\ c.op \in WorkOps => About(c) = {c.post.id}
         /\ c.op \in {"index", "upload"} => About(c) = {c.id}
         /\ c.op = "renumber" => About(c) = {w[1].id : w \in c.left}
         /\ c.op \in {"assign", "page"} => About(c) = {}
<1>1. c.op \in WorkOps => c.op \notin {"index", "upload", "renumber", "assign", "page"}
  BY DEF WorkOps
<1>2. c.op \in WorkOps => About(c) = {c.post.id}
  BY <1>1 DEF About
<1>3. c.op \notin WorkOps /\ c.op \in {"index", "upload"} => About(c) = {c.id}
  BY DEF About
<1>4. c.op \notin WorkOps /\ c.op = "renumber" => About(c) = {w[1].id : w \in c.left}
  BY DEF About
<1>5. c.op \notin WorkOps /\ c.op \in {"assign", "page"} => About(c) = {}
  BY DEF About
<1> QED
  BY <1>1, <1>2, <1>3, <1>4, <1>5

\* Calls that have read nothing.
LEMMA LightSeen ==
  ASSUME NEW c, c.op \in {"index", "upload", "assign", "page"}
  PROVE  Shape(c) /\ Fresh(c)'
BY DEF Shape, Fresh, WorkOps

\* A step that deletes no post.
LEMMA KeepSeen ==
  ASSUME IInv, SeenInv, NEW new, BagToSet(pending') \subseteq BagToSet(pending) \cup new,
         \A c \in new : Shape(c) /\ Fresh(c)',
         posts \subseteq posts', raced \cap Ids \subseteq raced'
  PROVE  SeenInv'
<1> SUFFICES ASSUME NEW c \in BagToSet(pending), c \in BagToSet(pending')
             PROVE  Shape(c) /\ Fresh(c)'
  BY DEF SeenInv
<1>1. Shape(c) /\ Fresh(c) /\ c \in Call
  BY DEF SeenInv, IInv, CallsOK
<1>2. c.op \in WorkOps => c.post.id \in Ids
  BY <1>1, CallKinds
<1>3. c.op = "renumber" => \A w \in c.left : w[1].id \in Ids
  BY <1>1, CallKinds DEF Renumberings, Post
<1> QED
  BY <1>1, <1>2, <1>3 DEF Fresh

\* A step that answers a call and changes one post: whoever has read it raced.
LEMMA WriteSeen ==
  ASSUME IInv, SeenInv, NEW c \in BagToSet(pending), NEW new, Continue(c, new),
         \A d \in new : Shape(d) /\ Fresh(d)',
         NEW id \in Ids, \A p \in posts : p.id # id => p \in posts',
         raced \cup Overlap(c, id, WorkOps \cup {"renumber"}) \subseteq raced'
  PROVE  SeenInv'
<1> SUFFICES ASSUME NEW d \in Others(c), d \in BagToSet(pending')
             PROVE  Shape(d) /\ Fresh(d)'
  BY ContinueLeaves DEF SeenInv, IInv, CallsOK
<1>1. d \in BagToSet(pending)
  BY OthersAre DEF Others, IInv, CallsOK
<1>2. Shape(d) /\ Fresh(d) /\ d \in Call /\ Fit(d, issued, Likes)
  BY <1>1 DEF SeenInv, IInv, CallsOK
<1>3. d.op \in WorkOps \cup {"renumber"} /\ id \in About(d) => id \in raced'
  BY DEF Overlap
<1>4. d.op \in WorkOps /\ d.op # "insert" /\ d.post.id \notin raced' => d.seen \in posts'
  BY <1>2, <1>3, AboutCalls DEF Fresh, Fit
<1>5. d.op = "renumber" => \A w \in d.left : w[1].id \notin raced' => w[1] \in posts'
  <2> SUFFICES ASSUME d.op = "renumber", NEW w \in d.left, w[1].id \notin raced'
               PROVE  w[1] \in posts'
    OBVIOUS
  <2>1. w[1].id \in About(d)
    BY <1>2, AboutCalls
  <2> QED
    BY <1>2, <1>3, <2>1 DEF Fresh
<1> QED
  BY <1>2, <1>4, <1>5 DEF Fresh
\* What a request that has read the post p sends.
Begun(p, c) ==
  /\ c \in Works /\ c.seen = p /\ Shape(c)
  /\ c.op \in {"retitle", "retitleMove", "replace", "move", "deactivate", "erase", "speak"}
  /\ c.op \in {"replace", "move"} => c.post.slug = p.slug
  /\ c.op = "replace" /\ c.after = "unawaited" => c.post.audio = p.audio

\* The likes callers are told of are those written.
Counted(p, c) ==
  /\ c.post.likes + downs'[p.id] + ups[p.id] = p.likes + downs[p.id] + ups'[p.id]
  /\ \A id \in Ids \ {p.id} : ups'[id] = ups[id] /\ downs'[id] = downs[id]
  /\ c.op # "replace" \/ c.after # "unawaited" => UNCHANGED <<ups, downs>>

\* What an update may make of the post p, and how it goes on.
Revises(p, q, op, after) ==
  /\ p \in Post /\ q \in Post /\ q.id = p.id /\ q.likes = p.likes /\ q.active = p.active
  /\ op \in {"retitle", "retitleMove", "replace", "move"} /\ after \in {"update", "nothing"}
  /\ op \in {"replace", "move"} => q.slug = p.slug
  /\ after = "update" /\ q.audio = TRUE /\ q.content # None =>
       p.audio = TRUE /\ q.content = p.content
  /\ after = "nothing" /\ op \in {"retitleMove", "move"} => q.category # p.category

LEMMA UpdateShape ==
  ASSUME NEW p, NEW q, NEW op, NEW after, Revises(p, q, op, after)
  PROVE  LET c == Work(op, p, q, after) IN
         Begun(p, c) /\ c.post = q /\ (c.op # "replace" \/ c.after # "unawaited")
<1> DEFINE c == Work(op, p, q, after)
<1>1. /\ c \in Works /\ c.op = op /\ c.seen = p /\ c.post = q /\ c.after = after
  BY DEF Work, Works, WorkOps, After, Revises
<1>2. p # None
  BY NoneAssumption DEF Revises
<1> HIDE DEF c
<1>3. Shape(c)
  BY <1>1, <1>2 DEF Shape, Revises
<1>4. Begun(p, c)
  BY <1>1, <1>3 DEF Begun, Revises
<1> QED
  BY <1>1, <1>4 DEF c, Revises

\* What revising and retitling a post change.
LEMMA RevisedFields ==
  ASSUME NEW p \in Post, NEW category \in Categories \cup {Omitted},
         NEW content \in Contents \cup {None, Omitted}
  PROVE  LET q == Revised(p, category, content) IN
         /\ q.slug = p.slug /\ q.likes = p.likes /\ q.active = p.active
         /\ q.audio = TRUE /\ q.content # None => p.audio = TRUE /\ q.content = p.content
         /\ q.category = Given(category, p.category)
BY PostsAssumption DEF Revised, Given, Post

LEMMA RetitledFields ==
  ASSUME NEW p \in Post, NEW title
  PROVE  LET q == Retitled(p, title) IN
         /\ q.likes = p.likes /\ q.active = p.active /\ q.audio = p.audio
         /\ q.content = p.content /\ q.category = p.category
BY DEF Retitled, Post

LEMMA UpdateBegins ==
  ASSUME IInv, NEW p \in posts, NEW title \in Titles \cup {Omitted},
         NEW category \in Categories \cup {Omitted}, NEW content \in Contents \cup {None, Omitted},
         Update(p, title, category, content)
  PROVE  \E c : Begun(p, c) /\ Counted(p, c) /\ Start({c})
<1>1. p \in Post /\ UNCHANGED <<ups, downs>>
  BY DEF IInv, VarsOK, Update, told
<1> DEFINE new == Revised(p, category, content)
           old == Retitled(new, title)
           moves == category # p.category
<1>2. /\ new \in Post /\ new.id = p.id /\ new.likes = p.likes
      /\ new.slug = p.slug /\ new.active = p.active
      /\ new.audio = TRUE /\ new.content # None => p.audio = TRUE /\ new.content = p.content
  BY <1>1, RevisedPost, RevisedFields
<1>3. PICK c : Begun(p, c) /\ c.post.likes = p.likes /\ Start({c})
                 /\ (c.op # "replace" \/ c.after # "unawaited")
  <2>1. CASE title \in {Omitted, p.slug[1]}
    <3>1. PICK op \in {"replace", "move"} : Start({Work(op, p, new, "update")})
      BY <2>1 DEF Update
    <3> HIDE DEF new
    <3>2. Revises(p, new, op, "update")
      BY <1>1, <1>2, <3>1 DEF Revises
    <3> DEFINE c == Work(op, p, new, "update")
    <3>3. Begun(p, c) /\ c.post = new /\ (c.op # "replace" \/ c.after # "unawaited")
      BY <3>2, UpdateShape
    <3>4. Start({c}) /\ c.post.likes = p.likes
      BY <1>2, <3>1, <3>3
    <3> HIDE DEF c
    <3> QED
      BY <3>3, <3>4
  <2>2. CASE title \notin {Omitted, p.slug[1]}
    <3>1. PICK op \in {"retitle", "retitleMove"} : Start({Work(op, p, old, "update")})
      BY <2>2 DEF Update
    <3> HIDE DEF new
    <3>2. /\ old \in Post /\ old.id = p.id /\ old.likes = p.likes
          /\ old.active = p.active /\ old.audio = new.audio /\ old.content = new.content
      BY <1>1, <1>2, <2>2, RetitledPost, RetitledFields
    <3> HIDE DEF old
    <3>3. Revises(p, old, op, "update")
      BY <1>1, <1>2, <3>1, <3>2 DEF Revises
    <3> DEFINE c == Work(op, p, old, "update")
    <3>4. Begun(p, c) /\ c.post = old /\ (c.op # "replace" \/ c.after # "unawaited")
      BY <3>3, UpdateShape
    <3>5. Start({c}) /\ c.post.likes = p.likes
      BY <1>2, <3>2, <3>1, <3>4
    <3> HIDE DEF c
    <3> QED
      BY <3>4, <3>5
  <2> QED
    BY <2>1, <2>2
<1>4. Counted(p, c)
  BY <1>1, <1>3 DEF Counted
<1> QED
  BY <1>3, <1>4

LEMMA UpdatePostRequestBegins ==
  ASSUME IInv, NEW p \in posts, NEW title \in Titles \cup {Omitted},
         NEW category \in Categories \cup {Omitted}, NEW content \in Contents \cup {None, Omitted},
         UpdatePostRequest(p, title, category, content)
  PROVE  \E c : Begun(p, c) /\ Counted(p, c) /\ Start({c})
<1>1. p \in Post /\ UNCHANGED <<ups, downs>>
  BY DEF IInv, VarsOK, UpdatePostRequest, told
<1> DEFINE revised == Revised(p, category, content)
           new == [revised EXCEPT !.audio = p.audio]
           old == Retitled(new, title)
           moves == new.category # p.category
<1>2. /\ new \in Post /\ new.id = p.id /\ new.likes = p.likes
      /\ new.slug = p.slug /\ new.active = p.active
  <2>1. revised \in Post /\ revised.id = p.id /\ revised.likes = p.likes
        /\ revised.slug = p.slug /\ revised.active = p.active /\ new \in Post
    BY <1>1, RevisedPost, RevisedFields
  <2> HIDE DEF revised
  <2> QED
    BY <2>1 DEF Post
<1>3. PICK c : Begun(p, c) /\ c.post.likes = p.likes /\ Start({c})
                 /\ (c.op # "replace" \/ c.after # "unawaited")
  <2>1. CASE title = Omitted
    <3>1. PICK op \in {"replace", "move"} :
            Start({Work(op, p, new, "nothing")}) /\ (op = "move" => moves)
      BY <2>1 DEF UpdatePostRequest
    <3> HIDE DEF new
    <3>2. Revises(p, new, op, "nothing")
      BY <1>1, <1>2, <3>1 DEF Revises
    <3> DEFINE c == Work(op, p, new, "nothing")
    <3>3. Begun(p, c) /\ c.post = new /\ (c.op # "replace" \/ c.after # "unawaited")
      BY <3>2, UpdateShape
    <3>4. Start({c}) /\ c.post.likes = p.likes
      BY <1>2, <3>1, <3>3
    <3> HIDE DEF c
    <3> QED
      BY <3>3, <3>4
  <2>2. CASE title # Omitted
    <3>1. PICK op \in {"retitle", "retitleMove"} :
            Start({Work(op, p, old, "nothing")}) /\ (op = "retitleMove" => moves)
      BY <2>2 DEF UpdatePostRequest
    <3> HIDE DEF new
    <3>2. /\ old \in Post /\ old.id = p.id /\ old.likes = p.likes
          /\ old.active = p.active /\ old.category = new.category
      BY <1>1, <1>2, <2>2, RetitledPost, RetitledFields
    <3>3. op = "retitleMove" => old.category # p.category
      BY <3>1, <3>2
    <3> HIDE DEF old
    <3>4. Revises(p, old, op, "nothing")
      BY <1>1, <1>2, <3>1, <3>2, <3>3 DEF Revises
    <3> DEFINE c == Work(op, p, old, "nothing")
    <3>5. Begun(p, c) /\ c.post = old /\ (c.op # "replace" \/ c.after # "unawaited")
      BY <3>4, UpdateShape
    <3>6. Start({c}) /\ c.post.likes = p.likes
      BY <1>2, <3>2, <3>1, <3>5
    <3> HIDE DEF c
    <3> QED
      BY <3>5, <3>6
  <2> QED
    BY <2>1, <2>2
<1>4. Counted(p, c)
  BY <1>1, <1>3 DEF Counted
<1> QED
  BY <1>3, <1>4
LEMMA ToggleOrRemoveBegins ==
  ASSUME IInv, NEW p \in posts, ToggleActiveState(p) \/ RemovePost(p)
  PROVE  \E c : Begun(p, c) /\ Counted(p, c) /\ Start({c})
<1>1. p \in Post /\ p # None /\ UNCHANGED <<ups, downs>>
  BY NoneAssumption DEF IInv, VarsOK, ToggleActiveState, RemovePost, told
<1> DEFINE new == [p EXCEPT !.active = ~@]
<1>2. /\ new \in Post /\ new.id = p.id /\ new.likes = p.likes /\ new.slug = p.slug
      /\ new.content = p.content /\ new.audio = p.audio
  BY <1>1 DEF Post
<1>3. \/ new.active = TRUE /\ Start({Work("replace", p, new, "save")})
      \/ new.active = FALSE /\ Start({Work("deactivate", p, new, "delete")})
      \/ Start({Work("erase", p, p, "delete")})
  BY <1>1, <1>2 DEF ToggleActiveState, RemovePost, Post
<1> HIDE DEF new
<1>4. PICK op, q, after :
        /\ \/ op = "replace" /\ after = "save" /\ q = new
           \/ op = "deactivate" /\ after = "delete" /\ q = new /\ q.active = FALSE
           \/ op = "erase" /\ after = "delete" /\ q = p
        /\ Start({Work(op, p, q, after)})
  BY <1>3
<1> DEFINE c == Work(op, p, q, after)
<1>5. c \in Works /\ c.op = op /\ c.seen = p /\ c.post = q /\ c.after = after /\ Start({c})
  BY <1>1, <1>2, <1>4 DEF Work, Works, WorkOps, After
<1> HIDE DEF c
<1>6. Shape(c)
  BY <1>1, <1>2, <1>4, <1>5 DEF Shape
<1>7. Begun(p, c) /\ Counted(p, c)
  BY <1>1, <1>2, <1>4, <1>5, <1>6 DEF Begun, Counted
<1> QED
  BY <1>5, <1>7

LEMMA LikeOrSpeakBegins ==
  ASSUME IInv, NEW p \in posts,
         \/ Like(p) \/ GetAudio(p)
         \/ \E action \in {"decrement", "other"} : Unlike(p, action)
  PROVE  \E c : Begun(p, c) /\ Counted(p, c) /\ Start({c})
<1>1. /\ p \in Post /\ p # None /\ p.id \in Ids /\ p.likes \in Int
      /\ ups \in [Ids -> Nat] /\ downs \in [Ids -> Nat]
  BY NoneAssumption DEF IInv, VarsOK, Post
<1>2. PICK op, q :
        /\ q \in Post /\ q.id = p.id /\ q.slug = p.slug
        /\ q.content = p.content /\ q.active = p.active
        /\ \/ op = "replace" /\ q.audio = p.audio
           \/ op = "speak" /\ q.likes = p.likes /\ p.audio = FALSE /\ UNCHANGED <<ups, downs>>
        /\ q.likes + downs'[p.id] + ups[p.id] = p.likes + downs[p.id] + ups'[p.id]
        /\ Start({Work(op, p, q, "unawaited")})
  <2>1. CASE Like(p)
    <3>1. /\ Liked(p) \in Post /\ Liked(p).id = p.id /\ Liked(p).slug = p.slug
          /\ Liked(p).content = p.content /\ Liked(p).active = p.active
          /\ Liked(p).audio = p.audio /\ Liked(p).likes = p.likes + 1
      BY <1>1 DEF Liked, Post
    <3>2. ups'[p.id] = ups[p.id] + 1 /\ downs' = downs /\ ups[p.id] \in Nat /\ downs[p.id] \in Nat
      BY <1>1, <2>1 DEF Like
    <3>3. Liked(p).likes + downs'[p.id] + ups[p.id] = p.likes + downs[p.id] + ups'[p.id]
      BY <1>1, <3>1, <3>2
    <3>4. Start({Work("replace", p, Liked(p), "unawaited")})
      BY <2>1 DEF Like
    <3> QED
      BY <3>1, <3>3, <3>4
  <2>2. CASE \E action \in {"decrement", "other"} : Unlike(p, action)
    <3>1. /\ Unliked(p) \in Post /\ Unliked(p).id = p.id /\ Unliked(p).slug = p.slug
          /\ Unliked(p).content = p.content /\ Unliked(p).active = p.active
          /\ Unliked(p).audio = p.audio /\ Unliked(p).likes = p.likes - 1
      BY <1>1, <2>2 DEF Unlike, MayDecrement, Unliked, Post
    <3>2. downs'[p.id] = downs[p.id] + 1 /\ ups' = ups /\ ups[p.id] \in Nat /\ downs[p.id] \in Nat
      BY <1>1, <2>2 DEF Unlike
    <3>3. Unliked(p).likes + downs'[p.id] + ups[p.id] = p.likes + downs[p.id] + ups'[p.id]
      BY <1>1, <3>1, <3>2
    <3>4. Start({Work("replace", p, Unliked(p), "unawaited")})
      BY <2>2 DEF Unlike
    <3> QED
      BY <3>1, <3>3, <3>4
  <2>3. CASE GetAudio(p)
    <3> DEFINE new == [p EXCEPT !.audio = TRUE]
    <3>1. /\ new \in Post /\ new.id = p.id /\ new.slug = p.slug
          /\ new.content = p.content /\ new.active = p.active /\ new.likes = p.likes
      BY <1>1 DEF Post
    <3>2. UNCHANGED <<ups, downs>> /\ p.audio = FALSE /\ Start({Work("speak", p, new, "unawaited")})
      BY <1>1, <2>3 DEF GetAudio, told, Post
    <3> HIDE DEF new
    <3> QED
      BY <3>1, <3>2
  <2> QED
    BY <2>1, <2>2, <2>3
<1> DEFINE c == Work(op, p, q, "unawaited")
<1>3. c \in Works /\ c.op = op /\ c.seen = p /\ c.post = q /\ c.after = "unawaited" /\ Start({c})
  BY <1>1, <1>2 DEF Work, Works, WorkOps, After
<1> HIDE DEF c
<1>4. Shape(c)
  BY <1>1, <1>2, <1>3 DEF Shape
<1>5. \A id \in Ids \ {p.id} : ups'[id] = ups[id] /\ downs'[id] = downs[id]
  BY <1>1 DEF Like, Unlike, GetAudio, told
<1>6. Begun(p, c) /\ Counted(p, c)
  BY <1>2, <1>3, <1>4, <1>5 DEF Begun, Counted
<1> QED
  BY <1>3, <1>6

\* The requests that read a post.
Reads(p) ==
  \/ \E title \in Titles \cup {Omitted}, category \in Categories \cup {Omitted},
        content \in Contents \cup {None, Omitted} :
       Update(p, title, category, content) \/ UpdatePostRequest(p, title, category, content)
  \/ ToggleActiveState(p) \/ RemovePost(p) \/ Like(p) \/ GetAudio(p)
  \/ \E action \in {"decrement", "other"} : Unlike(p, action)

LEMMA Begins ==
  ASSUME IInv, NEW p \in posts, Reads(p)
  PROVE  /\ \E c : Begun(p, c) /\ Counted(p, c) /\ Start({c})
         /\ UNCHANGED <<posts, index, blob, home, cache, issued, removed, edited, raced>>
<1>1. UNCHANGED <<posts, index, blob, home, cache, issued, removed, edited, raced>>
  BY DEF Reads, Update, UpdatePostRequest, ToggleActiveState, RemovePost, Like, Unlike,
         GetAudio, told
<1> QED
  BY <1>1, UpdateBegins, UpdatePostRequestBegins, ToggleOrRemoveBegins, LikeOrSpeakBegins DEF Reads

\* updateSlugs sends a replace of every post, with distinct slugs.
LEMMA Renumbers ==
  ASSUME IInv, UpdateSlugs
  PROVE  \E c \in Renumberings :
           /\ Start({c}) /\ Shape(c)
           /\ \A w \in c.left : w[1] \in posts
           /\ \A p \in posts : \E w \in c.left : w[1] = p
           /\ \A w, v \in c.left : w[2].slug = v[2].slug => w = v
<1>1. PICK number \in [posts -> 1..Cardinality(posts)] :
        /\ \A p, q \in posts : p.slug[1] = q.slug[1] /\ number[p] = number[q] => p = q
        /\ Start({[op |-> "renumber", ok |-> TRUE,
                   left |-> {<<p, [p EXCEPT !.slug[2] = number[p]]>> : p \in posts}]})
  BY DEF UpdateSlugs
<1> DEFINE renumbered(p) == [p EXCEPT !.slug[2] = number[p]]
           pairs == {<<p, renumbered(p)>> : p \in posts}
           c == [op |-> "renumber", ok |-> TRUE, left |-> pairs]
<1>2. ASSUME NEW p \in posts
      PROVE  /\ p \in Post /\ renumbered(p) \in Post
             /\ renumbered(p).id = p.id /\ renumbered(p).likes = p.likes
             /\ renumbered(p).slug = <<p.slug[1], number[p]>>
  <2>1. p \in Post /\ number[p] \in Nat
    BY FS_CardinalityType DEF IInv, VarsOK, PostsInv
  <2>2. renumbered(p) \in Post /\ renumbered(p).id = p.id /\ renumbered(p).likes = p.likes
    BY <2>1, NumberedPost
  <2>3. renumbered(p).slug = <<p.slug[1], number[p]>>
    BY <2>1 DEF Post, Slug
  <2> QED
    BY <2>1, <2>2, <2>3
<1> HIDE DEF renumbered
<1>3. \A p, q \in posts : renumbered(p).slug = renumbered(q).slug => p = q
  BY <1>1, <1>2
<1>4. /\ pairs \subseteq Post \X Post
      /\ \A w \in pairs : w[1] \in posts /\ w[2] = renumbered(w[1]) /\ w = <<w[1], w[2]>>
      /\ \A p \in posts : \E w \in pairs : w[1] = p
  <2>1. pairs \subseteq Post \X Post
    BY <1>2
  <2>2. \A w \in pairs : w[1] \in posts /\ w[2] = renumbered(w[1]) /\ w = <<w[1], w[2]>>
    OBVIOUS
  <2>3. ASSUME NEW p \in posts
        PROVE  \E w \in pairs : w[1] = p
    <3>1. <<p, renumbered(p)>> \in pairs /\ <<p, renumbered(p)>>[1] = p
      OBVIOUS
    <3> QED
      BY ONLY <3>1
  <2> QED
    BY <2>1, <2>2, <2>3
<1> HIDE DEF pairs
<1>5. \A p, q \in posts : p.id = q.id => p = q
  BY DEF IInv, PostsInv, OneCopy
<1>6. c \in Renumberings /\ c.op = "renumber" /\ c.left = pairs /\ Start({c})
  BY <1>1, <1>4 DEF Renumberings, pairs, renumbered
<1> HIDE DEF c
<1>7. \A w, v \in pairs : w[1].id = v[1].id => w = v
  BY <1>4, <1>5
<1>8. \A w \in pairs : w[2].likes = w[1].likes
  BY <1>2, <1>4
<1>9. Shape(c)
  BY <1>6, <1>7, <1>8 DEF Shape, WorkOps
<1>10. \A w, v \in pairs : w[2].slug = v[2].slug => w = v
  BY <1>3, <1>4
<1> QED
  BY <1>4, <1>6, <1>9, <1>10
\* create: a new post, with a slug no post has.
LEMMA Creates ==
  ASSUME IInv, NEW id \in Ids, NEW title \in Titles, NEW category \in Categories,
         NEW content \in Contents \cup {None}, Create(id, title, category, content)
  PROVE  \E c \in Works :
           /\ c.op = "insert" /\ c.seen = None /\ c.after = "save" /\ c.post.id = id
           /\ c.post.slug \notin Slugs
           /\ Shape(c) /\ Start({c})
<1> DEFINE post == [id |-> id, category |-> category, slug |-> <<title, FreeNumber(title)>>,
                    content |-> content, audio |-> FALSE, likes |-> 0, active |-> TRUE]
           c == Work("insert", None, post, "save")
<1>1. FreeNumber(title) \in Nat
  BY FreeNumberType
<1>2. <<title, FreeNumber(title)>> \notin Slugs
  BY SlugIsFree
<1>3. /\ post \in Post /\ post.id = id /\ post.likes = 0 /\ post.audio = FALSE
      /\ post.slug \notin Slugs
  BY <1>1, <1>2 DEF Post, Slug
<1>4. Start({c})
  BY DEF Create
<1> HIDE DEF post
<1>5. c \in Works /\ c.op = "insert" /\ c.seen = None /\ c.after = "save" /\ c.post = post
  BY <1>3 DEF Work, Works, WorkOps, After
<1> HIDE DEF c
<1>6. Shape(c)
  BY <1>3, <1>5 DEF Shape
<1> QED
  BY <1>3, <1>4, <1>5, <1>6

\* What a request goes on with.
GoesOn(c, d) ==
  /\ d \in Works /\ d.seen = c.seen /\ d.after = c.after /\ d.post.id = c.post.id
  /\ Shape(d) /\ d.op # "insert"

LEMMA OpChanged ==
  ASSUME NEW c \in Works, NEW op \in WorkOps
  PROVE  LET d == [c EXCEPT !.op = op] IN
         d \in Works /\ d.op = op /\ d.seen = c.seen /\ d.post = c.post /\ d.after = c.after
BY DEF Works

\* A work that goes on has read a post.
LEMMA HasSeen ==
  ASSUME IInv, SeenInv, NEW c \in BagToSet(pending), c.op \in WorkOps, c.op # "insert"
  PROVE  /\ c \in Works /\ c.post \in Post /\ c.post.id \in Ids
         /\ c.seen \in Post /\ c.seen # None /\ c.seen.id = c.post.id
         /\ Shape(c) /\ Fresh(c)
BY CallKinds, NoneAssumption DEF IInv, CallsOK, SeenInv, Fit

LEMMA Chooses ==
  ASSUME IInv, SeenInv, NEW c \in BagToSet(pending), ChooseSlug(c)
  PROVE  \E d : /\ GoesOn(c, d) /\ d.op \in {"replace", "move"} /\ d.after \in {"update", "nothing"}
                /\ d.post.slug \notin Slugs /\ Continue(c, {d})
<1>1. /\ c.op \in {"retitle", "retitleMove"} /\ c.op \in WorkOps /\ c.op # "insert"
  BY DEF ChooseSlug, WorkOps
<1>2. c \in Works /\ c.post \in Post /\ c.seen # None /\ Shape(c)
  BY <1>1, HasSeen
<1> DEFINE op == IF c.op = "retitle" THEN "replace" ELSE "move"
           n == FreeNumber(c.post.slug[1])
           q == [c.post EXCEPT !.slug[2] = n]
           d == [c EXCEPT !.op = op, !.post.slug[2] = n]
<1>3. n \in Nat
  BY FreeNumberType
<1>4. <<c.post.slug[1], n>> \notin Slugs
  BY SlugIsFree
<1>5. Continue(c, {d})
  BY DEF ChooseSlug
<1> HIDE DEF n
<1>6. /\ q \in Post /\ q.id = c.post.id /\ q.likes = c.post.likes
      /\ q.slug = <<c.post.slug[1], n>> /\ q.content = c.post.content /\ q.audio = c.post.audio
      /\ q.active = c.post.active /\ q.category = c.post.category
  BY <1>2, <1>3 DEF Post, Slug
<1>7. op \in WorkOps /\ op \in {"replace", "move"} /\ (c.op = "retitle" => op = "replace")
  BY DEF WorkOps
<1>8. d = [c EXCEPT !.op = op, !.post = q]
  BY <1>2 DEF Works
<1> HIDE DEF q, op
<1>9. d \in Works /\ d.op = op /\ d.seen = c.seen /\ d.after = c.after /\ d.post = q
  BY <1>2, <1>6, <1>7, <1>8 DEF Works
<1> HIDE DEF d
<1>10. Shape(d)
  BY <1>1, <1>2, <1>6, <1>7, <1>9 DEF Shape
<1>11. d.after \in {"update", "nothing"}
  BY <1>1, <1>2, <1>9 DEF Shape
<1> QED
  BY <1>4, <1>5, <1>6, <1>7, <1>9, <1>10, <1>11 DEF GoesOn

\* checkPostReferences lets a request go on.
LEMMA Checks ==
  ASSUME IInv, SeenInv, NEW c \in BagToSet(pending), CheckPostReferences(c)
  PROVE  /\ ~Referenced(c.post.id)
         /\ \E d : /\ GoesOn(c, d) /\ d.post = c.post
                   /\ \/ c.op = "deactivate" /\ d.op = "replace" /\ Continue(c, {d}) /\ raced' = raced
                      \/ /\ c.op = "erase" /\ d.op = "remove"
                         /\ Continue(c, {d, IndexCall("delete", c.post)})
                         /\ raced' = raced \cup Overlap(c, c.post.id, {"index"})
                   /\ d.after = "delete"
<1>1. c.op \in {"deactivate", "erase"} /\ c.op \in WorkOps /\ c.op # "insert" /\ ~Referenced(c.post.id)
  BY DEF CheckPostReferences, WorkOps
<1>2. c \in Works /\ c.post \in Post /\ c.seen # None /\ Shape(c)
  BY <1>1, HasSeen
<1>3. c.after = "delete"
  BY <1>1, <1>2 DEF Shape, Works, After
<1>4. Follow(c) = {IndexCall("delete", c.post)}
  BY <1>3 DEF Follow
<1>5. PICK op \in {"replace", "remove"} :
        \/ /\ c.op = "deactivate" /\ op = "replace"
           /\ Continue(c, {[c EXCEPT !.op = op]}) /\ raced' = raced
        \/ /\ c.op = "erase" /\ op = "remove"
           /\ Continue(c, {[c EXCEPT !.op = op]} \cup {IndexCall("delete", c.post)})
           /\ raced' = raced \cup Overlap(c, c.post.id, {"index"})
  BY <1>4 DEF CheckPostReferences
<1> DEFINE d == [c EXCEPT !.op = op]
<1>6. d \in Works /\ d.op = op /\ d.seen = c.seen /\ d.post = c.post /\ d.after = c.after
  <2>1. op \in WorkOps
    BY DEF WorkOps
  <2> QED
    BY <1>2, <2>1, OpChanged
<1>7. \/ /\ c.op = "deactivate" /\ op = "replace" /\ Continue(c, {d}) /\ raced' = raced
      \/ /\ c.op = "erase" /\ op = "remove"
         /\ Continue(c, {d, IndexCall("delete", c.post)})
         /\ raced' = raced \cup Overlap(c, c.post.id, {"index"})
  <2>1. {d} \cup {IndexCall("delete", c.post)} = {d, IndexCall("delete", c.post)}
    OBVIOUS
  <2> QED
    BY <1>5, <2>1
<1> HIDE DEF d
<1>8. Shape(d)
  BY <1>1, <1>2, <1>3, <1>6, <1>7 DEF Shape
<1> QED
  BY <1>1, <1>3, <1>6, <1>7, <1>8 DEF GoesOn

\* The speech is made: the post and the audio are sent, and not waited for.
LEMMA Speaking ==
  ASSUME IInv, SeenInv, NEW c \in BagToSet(pending), Speak(c)
  PROVE  \E d, u : /\ GoesOn(c, d) /\ d.post = c.post /\ d.op = "replace" /\ d.after = "unawaited"
                   /\ u \in Uploads /\ u.op = "upload" /\ u.id = c.post.id /\ u.content = c.post.content
                   /\ Continue(c, {d, u})
                   /\ c.post.likes = c.seen.likes /\ c.post.content = c.seen.content
<1>1. c.op = "speak" /\ c.op \in WorkOps /\ c.op # "insert"
  BY DEF Speak, WorkOps
<1>2. c \in Works /\ c.post \in Post /\ c.post.id \in Ids /\ c.seen # None /\ Shape(c)
  BY <1>1, HasSeen
<1>3. c.after = "unawaited" /\ c.post.content # None
  BY <1>1, <1>2 DEF Shape, IInv, Fit
<1> DEFINE d == [c EXCEPT !.op = "replace"]
           u == [op |-> "upload", id |-> c.post.id, content |-> c.post.content]
<1>4. d \in Works /\ d.op = "replace" /\ d.seen = c.seen /\ d.post = c.post /\ d.after = c.after
  BY <1>2, OpChanged DEF WorkOps
<1>5. u \in Uploads /\ u.op = "upload" /\ u.id = c.post.id /\ u.content = c.post.content
  BY <1>2, <1>3 DEF Uploads, Post
<1>6. Continue(c, {d, u})
  BY DEF Speak
<1> HIDE DEF d, u
<1>7. Shape(d) /\ c.post.likes = c.seen.likes /\ c.post.content = c.seen.content
  BY <1>1, <1>2, <1>3, <1>4 DEF Shape
<1> QED
  BY <1>3, <1>4, <1>5, <1>6, <1>7 DEF GoesOn
\* What raced stays so, but for a slot that is assigned again.
LEMMA RacedGrows ==
  ASSUME IInv,
         \/ Request \/ GetHomePosts \/ Expire \/ Restart \/ UNCHANGED vars
         \/ \E c \in BagToSet(pending) : Fail(c) \/ (Answer(c) /\ c.op # "assign")
  PROVE  raced \subseteq raced'
<1>1. CASE Request \/ GetHomePosts \/ Expire \/ Restart \/ UNCHANGED vars
  <2>1. CASE \E p \in posts : Reads(p)
    BY <2>1, Begins
  <2>2. CASE \/ UpdateSlugs \/ SyncAlgolia \/ GetHomePosts \/ Expire \/ Restart \/ UNCHANGED vars
             \/ \E slot \in Slots, id \in Ids : UpdateHomePosts(slot, id)
    BY <2>2 DEF UpdateSlugs, SyncAlgolia, UpdateHomePosts, GetHomePosts, Expire, Restart, vars
  <2>3. ASSUME NEW id, NEW title, NEW category, NEW content, Create(id, title, category, content)
        PROVE  raced \subseteq raced'
    BY <2>3 DEF Create
  <2> QED
    BY <1>1, <2>1, <2>2, <2>3 DEF Request, Reads
<1>2. ASSUME NEW c \in BagToSet(pending), Fail(c) \/ (Answer(c) /\ c.op # "assign")
      PROVE  raced \subseteq raced'
  BY <1>2 DEF Answer, Fail, ChooseSlug, CheckPostReferences, Replace, Move, Insert, Remove, Assign,
              Speak, Upload, SearchIndex, Renumber, FinishSlugs, ReadPost, FillCache, AfterWrite
<1> QED
  BY <1>1, <1>2

LEMMA RacedStays ==
  ASSUME IInv, [Next]_vars
  PROVE  raced \cap (Ids \cup {"slugs", "cache"}) \subseteq raced'
<1>1. ASSUME NEW c \in BagToSet(pending), Assign(c)
      PROVE  raced \cap (Ids \cup {"slugs", "cache"}) \subseteq raced'
  <2>1. c.slot \in Slots
    BY <1>1, CallKinds DEF Assign, Assignments, IInv, CallsOK
  <2> QED
    BY <1>1, <2>1, PostsAssumption DEF Assign
<1>2. ASSUME NEW c \in BagToSet(pending), Answer(c), c.op = "assign"
      PROVE  Assign(c)
  BY <1>2 DEF Answer, ChooseSlug, CheckPostReferences, Replace, Move, Insert, Remove,
              Speak, Upload, SearchIndex, Renumber, FinishSlugs, ReadPost, FillCache
<1> QED
  BY <1>1, <1>2, RacedGrows DEF Next

\* What a step sends has read the posts that are stored.
LEMMA SeenSent ==
  ASSUME IInv, SeenInv, NEW c \in BagToSet(pending), c.op \in WorkOps, c.op # "insert",
         NEW d, GoesOn(c, d), posts \subseteq posts', raced \cap Ids \subseteq raced'
  PROVE  Shape(d) /\ Fresh(d)'
<1>1. Fresh(c) /\ c.post.id \in Ids
  BY HasSeen
<1>2. d.op \in WorkOps
  BY DEF GoesOn, Works
<1>3. d.op # "renumber"
  BY <1>2 DEF WorkOps
<1> QED
  BY <1>1, <1>3 DEF Fresh, GoesOn

\* A call a request has just sent.  It is not to delete a post.
Sent(c) ==
  /\ Shape(c) /\ Fresh(c) /\ c.op # "remove"
  /\ c.op = "insert" => c.seen = None
  /\ c.op = "page" => c.names = home /\ c.shows = [s \in Slots |-> Omitted]

LEMMA RequestsSend ==
  ASSUME IInv, SeenInv, Request \/ GetHomePosts
  PROVE  \E new : Start(new) /\ posts' = posts /\ \A c \in new : Sent(c)'
<1>1. CASE \E p \in posts : Reads(p)
  <2>1. PICK p \in posts : Reads(p)
    BY <1>1
  <2>2. PICK c : Begun(p, c) /\ Start({c})
    BY <2>1, Begins
  <2>3. posts' = posts
    BY <2>1, Begins
  <2>4. Sent(c)'
    BY <2>2, <2>3 DEF Begun, Fresh, Sent
  <2> QED
    BY <2>2, <2>3, <2>4
<1>2. ASSUME NEW id \in Ids, NEW title \in Titles, NEW category \in Categories,
             NEW content \in Contents \cup {None}, Create(id, title, category, content)
      PROVE  \E new : /\ Start(new) /\ posts' = posts
                      /\ \A c \in new : Sent(c)'
  <2>1. PICK c \in Works : c.op = "insert" /\ c.seen = None /\ Shape(c) /\ Start({c})
    BY <1>2, Creates
  <2>2. Sent(c)' /\ posts' = posts
    BY <1>2, <2>1 DEF Fresh, Create, Sent
  <2> QED
    BY <2>1, <2>2
<1>3. CASE UpdateSlugs
  <2>1. PICK c \in Renumberings :
          Start({c}) /\ Shape(c) /\ \A w \in c.left : w[1] \in posts
    BY <1>3, Renumbers
  <2>2. posts' = posts
    BY <1>3 DEF UpdateSlugs
  <2>3. Sent(c)'
    BY <2>1, <2>2 DEF Fresh, Renumberings, WorkOps, Sent
  <2> QED
    BY <2>1, <2>2, <2>3
<1>4. CASE SyncAlgolia
  <2> DEFINE new == {IndexCall("save", p) : p \in posts}
  <2>1. Start(new) /\ posts' = posts
    BY <1>4 DEF SyncAlgolia
  <2>2. \A c \in new : c.op = "index"
    BY DEF IndexCall
  <2> HIDE DEF new
  <2>3. \A c \in new : Sent(c)'
    BY <2>2, LightSeen DEF Sent
  <2> QED
    BY <2>1, <2>3
<1>5. ASSUME \/ GetHomePosts
             \/ \E slot \in Slots, id \in Ids : UpdateHomePosts(slot, id)
      PROVE  \E new : /\ Start(new) /\ posts' = posts
                      /\ \A c \in new : Sent(c)'
  <2>1. PICK new : /\ Start(new) /\ home' = home
                   /\ \A d \in new :
                        /\ d.op \in {"assign", "page"}
                        /\ d.op = "page" => /\ d.names = home
                                           /\ d.shows = [s \in Slots |-> Omitted]
    <3>1. CASE GetHomePosts
      <4>1. PICK new :
              new = {[op |-> "page", names |-> home, shows |-> [s \in Slots |-> Omitted]]}
        OBVIOUS
      <4>2. Start(new)
        BY <3>1, <4>1 DEF GetHomePosts
      <4>3. /\ home' = home
            /\ \A d \in new : /\ d.op = "page" /\ d.names = home
                              /\ d.shows = [s \in Slots |-> Omitted]
        BY <3>1, <4>1 DEF GetHomePosts
      <4> QED
        BY <4>2, <4>3
    <3>2. ASSUME NEW slot \in Slots, NEW id \in Ids, UpdateHomePosts(slot, id)
          PROVE  \E new : /\ Start(new) /\ home' = home
                          /\ \A d \in new :
                               /\ d.op \in {"assign", "page"}
                               /\ d.op = "page" => /\ d.names = home
                                                  /\ d.shows = [s \in Slots |-> Omitted]
      <4>1. PICK new : new = {[op |-> "assign", slot |-> slot, id |-> id]}
        OBVIOUS
      <4>2. Start(new) /\ home' = home
        BY <3>2, <4>1 DEF UpdateHomePosts
      <4>3. \A d \in new : d.op = "assign"
        BY <4>1
      <4> QED
        BY <4>2, <4>3
    <3> QED
      BY <1>5, <3>1, <3>2
  <2>2. \A d \in new : Sent(d)'
    BY <2>1, LightSeen DEF Sent
  <2>3. posts' = posts
    BY <1>5 DEF GetHomePosts, UpdateHomePosts
  <2> QED
    BY <2>1, <2>2, <2>3
<1> QED
  BY <1>1, <1>2, <1>3, <1>4, <1>5 DEF Request, Reads

LEMMA RequestsSeen ==
  ASSUME IInv, SeenInv, [Next]_vars, Request \/ GetHomePosts
  PROVE  SeenInv'
<1>1. raced \cap Ids \subseteq raced'
  BY RacedStays
<1>2. PICK new : Start(new) /\ posts' = posts /\ \A c \in new : Sent(c)'
  BY RequestsSend
<1>3. BagToSet(pending') \subseteq BagToSet(pending) \cup new
  BY <1>2, StartCalls DEF IInv, CallsOK
<1> QED
  BY <1>1, <1>2, <1>3, KeepSeen DEF Sent

LEMMA WritesSeen ==
  ASSUME IInv, SeenInv, [Next]_vars, NEW c \in BagToSet(pending),
         Replace(c) \/ Move(c) \/ Insert(c) \/ Remove(c)
  PROVE  SeenInv'
<1>1. /\ c.op \in WorkOps /\ c \in Works /\ c.post \in Post /\ c.post.id \in Ids
      /\ c.op # "insert" => c.seen.id = c.post.id
  BY CallKinds DEF Replace, Move, Insert, Remove, WorkOps, IInv, CallsOK, Fit
<1>2. raced \cap Ids \subseteq raced'
  BY RacedStays
<1>3. CASE Insert(c)
  <2>1. \A d \in Follow(c) : Shape(d) /\ Fresh(d)'
    BY <1>1, FollowCall, LightSeen
  <2>2. BagToSet(pending') \subseteq BagToSet(pending) \cup Follow(c)
    BY <1>3, ContinueCalls DEF Insert, AfterWrite, IInv, CallsOK
  <2>3. posts \subseteq posts'
    BY <1>3 DEF Insert
  <2> QED
    BY <1>2, <2>1, <2>2, <2>3, KeepSeen
<1>4. CASE ~Insert(c)
  <2>1. \A p \in posts : p.id # c.post.id => p \in posts'
    BY <1>1, <1>4 DEF Replace, Move, Remove, Stored, Key
  <2>2. PICK new : Continue(c, new) /\ \A d \in new : Shape(d) /\ Fresh(d)'
    <3>1. CASE Replace(c)
      <4>1. \A d \in Follow(c) : Shape(d) /\ Fresh(d)'
        BY <1>1, FollowCall, LightSeen
      <4> QED
        BY <3>1, <4>1 DEF Replace, AfterWrite
    <3>2. CASE Move(c)
      <4> DEFINE d == [c EXCEPT !.op = "insert"]
      <4>1. /\ d \in Works /\ d.op = "insert" /\ d.seen = c.seen /\ d.post = c.post
            /\ d.after = c.after
        BY <1>1, OpChanged DEF WorkOps
      <4>2. Continue(c, {d})
        BY <3>2 DEF Move
      <4>3. c.op = "move" /\ c.seen # None /\ Shape(c)
        BY <3>2, HasSeen DEF Move, WorkOps
      <4> HIDE DEF d
      <4>4. Shape(d) /\ Fresh(d)'
        BY <1>1, <4>1, <4>3 DEF Shape, Fresh
      <4> QED
        BY <4>2, <4>4
    <3>3. CASE Remove(c)
      <4>1. Continue(c, {})
        BY <3>3 DEF Remove
      <4> QED
        BY <4>1
    <3> QED
      BY <1>4, <3>1, <3>2, <3>3
  <2>3. Overlap(c, c.post.id, WorkOps \cup {"renumber"}) \subseteq raced' /\ raced \subseteq raced'
    BY <1>4 DEF Replace, Move, Remove, AfterWrite
  <2>4. raced \cup Overlap(c, c.post.id, WorkOps \cup {"renumber"}) \subseteq raced'
    BY <2>3
  <2> QED
    BY <1>1, <2>1, <2>2, <2>4, WriteSeen
<1> QED
  BY <1>3, <1>4

\* What Renumber does, with the pair it writes.
LEMMA Renumbered ==
  ASSUME IInv, SeenInv, NEW c \in BagToSet(pending), Renumber(c)
  PROVE  \E d, w :
           /\ c \in Renumberings /\ d \in Renumberings /\ w \in c.left
           /\ w[1] \in Post /\ w[2] \in Post /\ w[1].id \in Ids /\ w[2].id = w[1].id
           /\ w[2].likes = w[1].likes
           /\ d.left = c.left \ {w} /\ Shape(d) /\ Continue(c, {d})
           /\ posts' = (posts \ Stored(w[2])) \cup (IF Stored(w[2]) # {} THEN {w[2]} ELSE {})
           /\ edited' = edited \cup {w[1].id}
           /\ raced' = raced \cup Overlap(c, w[1].id, WorkOps \cup {"renumber"})
                            \cup (IF Stored(w[2]) = {} THEN {"slugs"} ELSE {})
<1>1. c.op = "renumber" /\ c \in Renumberings /\ Shape(c) /\ Fit(c, issued, Likes)
  BY CallKinds DEF Renumber, IInv, CallsOK, SeenInv
<1>2. PICK w \in c.left :
        /\ posts' = (posts \ Stored(w[2])) \cup (IF Stored(w[2]) # {} THEN {w[2]} ELSE {})
        /\ Continue(c, {[c EXCEPT !.left = @ \ {w}, !.ok = @ /\ Stored(w[2]) # {}]})
        /\ edited' = edited \cup {w[1].id}
        /\ raced' = raced \cup Overlap(c, w[1].id, WorkOps \cup {"renumber"})
                         \cup (IF Stored(w[2]) = {} THEN {"slugs"} ELSE {})
  BY DEF Renumber
<1>3. /\ w[1] \in Post /\ w[2] \in Post /\ w[1].id \in Ids /\ w[2].id = w[1].id
      /\ w[2].likes = w[1].likes
  BY <1>1 DEF Renumberings, Post, Fit, Shape
<1>4. PICK ok \in BOOLEAN : ok = (c.ok /\ Stored(w[2]) # {})
  OBVIOUS
<1> DEFINE d == [c EXCEPT !.left = @ \ {w}, !.ok = ok]
<1>5. d \in Renumberings /\ d.op = "renumber" /\ d.left = c.left \ {w}
  BY <1>1 DEF Renumberings
<1>6. Continue(c, {d})
  BY <1>1, <1>2, <1>4 DEF Renumberings
<1> HIDE DEF d
<1>7. Shape(d)
  BY <1>1, <1>5 DEF Shape, WorkOps
<1> QED
  BY <1>1, <1>2, <1>3, <1>5, <1>6, <1>7

LEMMA RenumberSeen ==
  ASSUME IInv, SeenInv, [Next]_vars, NEW c \in BagToSet(pending), Renumber(c)
  PROVE  SeenInv'
<1>1. PICK d, w :
        /\ c \in Renumberings /\ d \in Renumberings /\ w \in c.left
        /\ w[1] \in Post /\ w[2] \in Post /\ w[1].id \in Ids /\ w[2].id = w[1].id
        /\ d.left = c.left \ {w} /\ Shape(d) /\ Continue(c, {d})
        /\ posts' = (posts \ Stored(w[2])) \cup (IF Stored(w[2]) # {} THEN {w[2]} ELSE {})
        /\ raced' = raced \cup Overlap(c, w[1].id, WorkOps \cup {"renumber"})
                         \cup (IF Stored(w[2]) = {} THEN {"slugs"} ELSE {})
  BY Renumbered
<1>2. \A p \in posts : p.id # w[1].id => p \in posts'
  BY <1>1 DEF Stored, Key
<1>3. Fresh(d)'
  <2>1. Shape(c) /\ Fresh(c) /\ c.op = "renumber" /\ d.op = "renumber"
    BY <1>1 DEF SeenInv, Renumberings
  <2> SUFFICES ASSUME NEW v \in d.left, v[1].id \notin raced'
               PROVE  v[1] \in posts'
    BY <2>1 DEF Fresh, WorkOps
  <2>2. v \in c.left /\ v # w /\ v[1].id \notin raced
    BY <1>1
  <2>3. v[1] \in posts /\ v[1].id # w[1].id
    BY <1>1, <2>1, <2>2 DEF Fresh, Shape
  <2> QED
    BY <1>2, <2>3
<1> DEFINE new == {d}
<1>4. Continue(c, new) /\ \A e \in new : Shape(e) /\ Fresh(e)'
  BY <1>1, <1>3
<1> HIDE DEF new
<1> DEFINE id == w[1].id
<1>5. id \in Ids /\ (\A p \in posts : p.id # id => p \in posts')
      /\ raced \cup Overlap(c, id, WorkOps \cup {"renumber"}) \subseteq raced'
  BY <1>1, <1>2
<1> HIDE DEF id
<1> QED
  BY <1>4, <1>5, WriteSeen

\* The answers to calls that write no post.
Quiet(c) ==
  \/ ChooseSlug(c) \/ CheckPostReferences(c) \/ Speak(c) \/ Upload(c) \/ SearchIndex(c)
  \/ FinishSlugs(c) \/ Assign(c) \/ ReadPost(c) \/ FillCache(c)

\* What such an answer sends: no post that a slot names is going to be deleted.
SentAfter(c, d) ==
  /\ Shape(d) /\ Fresh(d)' /\ d.op # "insert"
  /\ d.op = "remove" => ~Referenced(d.post.id)
  /\ d.op = "page" => ReadPost(c)

LEMMA AnswersSend ==
  ASSUME IInv, SeenInv, [Next]_vars, NEW c \in BagToSet(pending), Quiet(c) \/ Fail(c)
  PROVE  /\ posts' = posts
         /\ \E new : Continue(c, new) /\ \A d \in new : SentAfter(c, d)
<1>1. posts' = posts /\ raced \cap Ids \subseteq raced'
  BY RacedStays DEF Quiet, ChooseSlug, CheckPostReferences, Speak, Upload, SearchIndex,
     FinishSlugs, Assign, ReadPost, FillCache, Fail
<1>2. CASE ChooseSlug(c) \/ CheckPostReferences(c) \/ Speak(c)
  <2>1. PICK d, u : /\ GoesOn(c, d) /\ u.op \in {"index", "upload"}
                    /\ Continue(c, {d}) \/ Continue(c, {d, u})
                    /\ d.op = "remove" => ~Referenced(d.post.id)
    <3>1. CASE ChooseSlug(c)
      <4>1. PICK d : GoesOn(c, d) /\ d.op \in {"replace", "move"} /\ Continue(c, {d})
        BY <3>1, Chooses
      <4>2. [op |-> "index"].op = "index"
        OBVIOUS
      <4> QED
        BY <4>1, <4>2
    <3>2. CASE CheckPostReferences(c)
      <4>1. IndexCall("delete", c.post).op = "index"
        BY DEF IndexCall
      <4> QED
        BY <3>2, <4>1, Checks
    <3>3. CASE Speak(c)
      BY <3>3, Speaking
    <3> QED
      BY <1>2, <3>1, <3>2, <3>3
  <2>2. c.op \in WorkOps /\ c.op # "insert"
    BY <1>2 DEF ChooseSlug, CheckPostReferences, Speak, WorkOps
  <2>3. Shape(d) /\ Fresh(d)' /\ d.op # "insert" /\ d.op # "page"
    BY <1>1, <2>1, <2>2, SeenSent DEF GoesOn, Works, WorkOps
  <2>4. Shape(u) /\ Fresh(u)'
    BY <2>1, LightSeen
  <2>5. SentAfter(c, d) /\ SentAfter(c, u)
    BY <2>1, <2>3, <2>4 DEF SentAfter
  <2> QED
    BY <1>1, <2>1, <2>5
<1>3. CASE ReadPost(c)
  <2>1. PICK s, slug : Continue(c, {[c EXCEPT !.shows[s] = slug]})
    BY <1>3 DEF ReadPost
  <2> DEFINE d == [c EXCEPT !.shows[s] = slug]
  <2>2. d.op = "page"
    BY <1>3, CallKinds DEF ReadPost, Pages, IInv, CallsOK
  <2>3. Continue(c, {d})
    BY <2>1
  <2> HIDE DEF d
  <2>4. SentAfter(c, d)
    BY <1>3, <2>2, LightSeen DEF SentAfter
  <2> QED
    BY <1>1, <2>3, <2>4
<1>4. CASE Upload(c) \/ SearchIndex(c) \/ FinishSlugs(c) \/ Assign(c) \/ FillCache(c) \/ Fail(c)
  <2>1. Continue(c, {})
    BY <1>4 DEF Upload, SearchIndex, FinishSlugs, Assign, FillCache, Fail
  <2> QED
    BY <1>1, <2>1
<1> QED
  BY <1>2, <1>3, <1>4 DEF Quiet

LEMMA QuietAnswersSeen ==
  ASSUME IInv, SeenInv, [Next]_vars, NEW c \in BagToSet(pending), Quiet(c) \/ Fail(c)
  PROVE  SeenInv'
<1>1. raced \cap Ids \subseteq raced'
  BY RacedStays
<1>2. posts' = posts
  BY AnswersSend
<1>3. PICK new : Continue(c, new) /\ \A d \in new : SentAfter(c, d)
  BY AnswersSend
<1>4. BagToSet(pending') \subseteq BagToSet(pending) \cup new
  BY <1>3, ContinueCalls DEF IInv, CallsOK
<1>5. \A d \in new : Shape(d) /\ Fresh(d)'
  BY <1>3 DEF SentAfter
<1> QED
  BY <1>1, <1>2, <1>4, <1>5, KeepSeen

LEMMA SeenInductive == IInv /\ SeenInv /\ [Next]_vars => SeenInv'
<1> SUFFICES ASSUME IInv, SeenInv, [Next]_vars
             PROVE  SeenInv'
  OBVIOUS
<1>1. CASE Request \/ GetHomePosts
  BY <1>1, RequestsSeen
<1>2. ASSUME NEW c \in BagToSet(pending), Answer(c) \/ Fail(c)
      PROVE  SeenInv'
  BY <1>2, WritesSeen, RenumberSeen, QuietAnswersSeen DEF Answer, Quiet
<1>3. CASE Expire \/ Restart \/ UNCHANGED vars
  <2>1. BagToSet(pending') \subseteq BagToSet(pending)
    BY <1>3, NoCalls DEF Expire, Restart, vars
  <2>2. posts' = posts /\ raced \cap Ids \subseteq raced'
    BY <1>3, RacedStays DEF Expire, Restart, vars
  <2>3. PICK new : new = {}
    OBVIOUS
  <2> QED
    BY <2>1, <2>2, <2>3, KeepSeen
<1> QED
  BY <1>1, <1>2, <1>3 DEF Next
-----------------------------------------------------------------------------
(* The posts there are.                                                    *)

\* No two of them have the same id.
OneOfEach == \A p, q \in Now : p.id = q.id => p = q

LEMMA NowUnique == IInv /\ SeenInv => OneOfEach
<1> SUFFICES ASSUME IInv, SeenInv, NEW p \in Now, NEW q \in Now, p.id = q.id
             PROVE  p = q
  BY DEF OneOfEach
<1>1. ASSUME NEW c \in BagToSet(pending), c.op = "insert", c.seen # None
      PROVE  c.seen.id = c.post.id /\ Carries(c)
  BY <1>1 DEF IInv, SeenInv, Shape, WorkOps
<1>2. CASE p \in posts /\ q \in posts
  BY <1>2 DEF IInv, PostsInv, OneCopy
<1>3. ASSUME NEW c \in BagToSet(pending), c.op = "insert", c.seen # None, p = c.seen
      PROVE  p = q
  <2>1. q \notin posts
    BY <1>1, <1>3 DEF Carries
  <2>2. PICK d \in BagToSet(pending) : d.op = "insert" /\ d.seen # None /\ q = d.seen
    BY <2>1 DEF Now
  <2>3. d.post.id = c.post.id
    BY <1>1, <1>3, <2>2
  <2> QED
    BY <1>1, <1>3, <2>2, <2>3 DEF Carries
<1>4. ASSUME NEW c \in BagToSet(pending), c.op = "insert", c.seen # None, q = c.seen, p \in posts
      PROVE  FALSE
  BY <1>1, <1>4 DEF Carries
<1> QED
  BY <1>2, <1>3, <1>4 DEF Now

LEMMA NowPosts ==
  ASSUME IInv
  PROVE  posts \subseteq Now /\ Now \subseteq Post
<1>1. \A c \in BagToSet(pending) : c.op = "insert" /\ c.seen # None => c.seen \in Post
  BY CallKinds DEF IInv, CallsOK, WorkOps, Works
<1> QED
  BY <1>1 DEF Now, IInv, VarsOK

\* A step that neither stores nor creates anything.
LEMMA NowSame ==
  ASSUME posts' = posts,
         \A c \in BagToSet(pending) : c.op = "insert" => c \in BagToSet(pending'),
         \A c \in BagToSet(pending') : c.op = "insert" /\ c.seen # None => c \in BagToSet(pending)
  PROVE  Now' = Now
BY DEF Now

\* The steps that change no post.
Calm ==
  \/ Request \/ GetHomePosts \/ Expire \/ UNCHANGED vars
  \/ \E c \in BagToSet(pending) : Quiet(c)

LEMMA QuietOps ==
  ASSUME IInv, NEW c \in BagToSet(pending), Quiet(c)
  PROVE  c.op \notin {"insert", "remove", "move"}
BY DEF Quiet, ChooseSlug, CheckPostReferences, Speak, Upload, SearchIndex, FinishSlugs,
       Assign, ReadPost, FillCache

LEMMA NowCalm ==
  ASSUME IInv, SeenInv, [Next]_vars, Calm
  PROVE  Now' = Now /\ posts' = posts
<1>1. CASE Request \/ GetHomePosts
  <2>1. PICK new : Start(new) /\ posts' = posts /\ \A c \in new : Sent(c)'
    BY <1>1, RequestsSend
  <2>2. BagToSet(pending') = BagToSet(pending) \cup new
    BY <2>1, StartCalls DEF IInv, CallsOK
  <2>3. \A c \in new : c.op = "insert" => c.seen = None
    BY <2>1 DEF Sent
  <2> QED
    BY <2>1, <2>2, <2>3, NowSame
<1>2. ASSUME NEW c \in BagToSet(pending), Quiet(c)
      PROVE  Now' = Now /\ posts' = posts
  <2>1. PICK new : Continue(c, new) /\ \A d \in new : d.op # "insert"
    <3>1. PICK new : Continue(c, new) /\ \A d \in new : SentAfter(c, d)
      BY <1>2, AnswersSend
    <3>2. \A d \in new : d.op # "insert"
      BY <3>1 DEF SentAfter
    <3> QED
      BY <3>1, <3>2
  <2>2. /\ BagToSet(pending') \subseteq BagToSet(pending) \cup new
        /\ BagToSet(pending) \ {c} \subseteq BagToSet(pending')
    BY <2>1, ContinueCalls DEF IInv, CallsOK
  <2>3. c.op # "insert" /\ posts' = posts
    BY <1>2, QuietOps, AnswersSend
  <2> QED
    BY <2>1, <2>2, <2>3, NowSame
<1>3. CASE Expire \/ UNCHANGED vars
  BY <1>3, NowSame DEF Expire, vars
<1> QED
  BY <1>1, <1>2, <1>3 DEF Calm

\* A call that fails, or is lost, takes its post along, which has raced.
LEMMA NowLost ==
  ASSUME IInv, SeenInv, [Next]_vars,
         Restart \/ \E c \in BagToSet(pending) : Fail(c)
  PROVE  /\ posts' = posts /\ Now' \subseteq Now
         /\ \A p \in Now \ Now' : p.id \in raced'
<1>1. ASSUME NEW c \in BagToSet(pending), c.op = "insert"
      PROVE  Lost(c) = {c.post.id}
  BY <1>1, AboutCalls DEF Lost, IInv, CallsOK, WorkOps
<1>2. ASSUME NEW c \in BagToSet(pending), c.op = "insert", c.seen # None
      PROVE  c.seen.id = c.post.id
  BY <1>2 DEF SeenInv, Shape, WorkOps
<1>3. CASE Restart
  <2>1. posts' = posts /\ BagToSet(pending') = {}
    BY <1>3, NoCalls DEF Restart
  <2>2. \A c \in BagToSet(pending) : Lost(c) \subseteq raced'
    BY <1>3 DEF Restart
  <2> QED
    BY <1>1, <1>2, <2>1, <2>2 DEF Now
<1>4. ASSUME NEW c \in BagToSet(pending), Fail(c)
      PROVE  /\ posts' = posts /\ Now' \subseteq Now
             /\ \A p \in Now \ Now' : p.id \in raced'
  <2>1. posts' = posts /\ Continue(c, {}) /\ Lost(c) \subseteq raced'
    BY <1>4 DEF Fail
  <2>2. /\ BagToSet(pending') \subseteq BagToSet(pending)
        /\ BagToSet(pending) \ {c} \subseteq BagToSet(pending')
    BY <2>1, ContinueCalls DEF IInv, CallsOK
  <2> QED
    BY <1>1, <1>2, <2>1, <2>2 DEF Now
<1> QED
  BY <1>3, <1>4

\* A post that changes its category is there all the time.
LEMMA NowMove ==
  ASSUME IInv, SeenInv, NEW c \in BagToSet(pending), Move(c)
  PROVE  /\ c.seen \in Now' /\ c.seen.id = c.post.id
         /\ Now' \subseteq Now \cup {c.seen}
         /\ \A p \in Now : p.id # c.post.id => p \in Now'
<1>1. /\ c.op = "move" /\ c \in Works /\ c.seen # None /\ c.seen.id = c.post.id
      /\ posts' = posts \ Stored(c.seen)
      /\ Continue(c, {[c EXCEPT !.op = "insert"]})
  BY HasSeen DEF Move, WorkOps
<1> DEFINE d == [c EXCEPT !.op = "insert"]
<1>2. d.op = "insert" /\ d.seen = c.seen
  BY <1>1, OpChanged DEF WorkOps
<1>3. Continue(c, {d})
  BY <1>1
<1> HIDE DEF d
<1>4. /\ BagToSet(pending') \subseteq BagToSet(pending) \cup {d}
      /\ BagToSet(pending) \ {c} \subseteq BagToSet(pending') /\ d \in BagToSet(pending')
  BY <1>3, ContinueCalls DEF IInv, CallsOK
<1>5. \A p \in Stored(c.seen) : p.id = c.seen.id
  BY DEF Stored, Key
<1> QED
  BY <1>1, <1>2, <1>4, <1>5 DEF Now

\* A post that is written is the one there is.
LEMMA NowWrite ==
  ASSUME IInv, SeenInv, [Next]_vars, NEW c \in BagToSet(pending), Replace(c) \/ Insert(c)
  PROVE  /\ c.post \in posts' /\ c.post \in Now'
         /\ \A p \in Now' : p = c.post \/ (p \in Now /\ p.id # c.post.id)
         /\ \A p \in Now : p.id # c.post.id => p \in Now'
<1>1. /\ c.op \in {"replace", "insert"} /\ c.op \in WorkOps /\ c \in Works /\ c.post \in Post
      /\ Continue(c, Follow(c))
  BY CallKinds DEF Replace, Insert, AfterWrite, WorkOps, IInv, CallsOK
<1>2. posts' = (posts \ Stored(c.post)) \cup {c.post}
  BY DEF Replace, Insert
<1>3. \A d \in Follow(c) : d.op = "index"
  BY <1>1, FollowCall
<1>4. /\ BagToSet(pending') \subseteq BagToSet(pending) \cup Follow(c)
      /\ BagToSet(pending) \ {c} \subseteq BagToSet(pending')
  BY <1>1, ContinueCalls DEF IInv, CallsOK
<1>5. \A p \in Stored(c.post) : p.id = c.post.id
  BY DEF Stored, Key
<1>6. IInv' /\ SeenInv'
  BY Inductive, SeenInductive
<1>7. c.post \in Now'
  BY <1>2 DEF Now
<1>8. \A p \in Now' : p.id = c.post.id => p = c.post
  <2>1. OneOfEach'
    BY <1>6, NowUnique, PTL
  <2> QED
    BY <1>7, <2>1 DEF OneOfEach
<1>9. \A p \in Now' : p = c.post \/ p \in Now
  BY <1>2, <1>3, <1>4 DEF Now
<1>10. ASSUME NEW p \in Now, p.id # c.post.id
       PROVE  p \in Now'
  <2>1. CASE p \in posts
    BY <1>2, <1>5, <1>10, <2>1 DEF Now
  <2>2. ASSUME NEW d \in BagToSet(pending), d.op = "insert", d.seen # None, p = d.seen
        PROVE  p \in Now'
    <3>1. d.seen.id = d.post.id
      BY <2>2 DEF SeenInv, Shape, WorkOps
    <3>2. d # c
      BY <1>10, <2>2, <3>1
    <3> QED
      BY <1>4, <2>2, <3>2 DEF Now
  <2> QED
    BY <2>1, <2>2 DEF Now
<1> QED
  BY <1>2, <1>7, <1>8, <1>9, <1>10
\* A post that is removed is there no more.
LEMMA NowRemove ==
  ASSUME IInv, SeenInv, NEW c \in BagToSet(pending), Remove(c)
  PROVE  /\ Now' \subseteq Now
         /\ \A p \in Now' : p.id # c.post.id
         /\ \A p \in Now : p.id # c.post.id => p \in Now'
<1>1. /\ c.op = "remove" /\ c.op \in WorkOps /\ c.op # "insert" /\ CanDelete(c.seen)
      /\ posts' = posts \ Stored(c.seen) /\ Continue(c, {})
  BY DEF Remove, WorkOps
<1>2. c.seen.id = c.post.id
  BY <1>1, HasSeen
<1>3. /\ \A p \in posts' : p.id # c.post.id
      /\ \E p \in posts : p.id = c.post.id
  BY <1>1, Deleted
<1>4. /\ BagToSet(pending') \subseteq BagToSet(pending)
      /\ BagToSet(pending) \ {c} \subseteq BagToSet(pending')
  BY <1>1, ContinueCalls DEF IInv, CallsOK
<1>5. ASSUME NEW d \in BagToSet(pending), d.op = "insert", d.seen # None
      PROVE  d.seen.id # c.post.id
  BY <1>3, <1>5 DEF IInv, Carries, SeenInv, Shape, WorkOps
<1>6. \A p \in Stored(c.seen) : p.id = c.post.id
  BY <1>2 DEF Stored, Key
<1> QED
  BY <1>1, <1>3, <1>4, <1>5, <1>6 DEF Now

\* A post that gets another number.
LEMMA NowRenumber ==
  ASSUME IInv, SeenInv, [Next]_vars, NEW c \in BagToSet(pending),
         NEW d, d.op = "renumber", NEW q \in Post, Continue(c, {d}), c.op = "renumber",
         posts' = (posts \ Stored(q)) \cup (IF Stored(q) # {} THEN {q} ELSE {})
  PROVE  /\ \A p \in Now : p.id # q.id => p \in Now'
         /\ \A p \in Now' : p = q \/ p \in Now
         /\ Stored(q) = {} => Now' = Now
         /\ Stored(q) # {} => q \in Now' /\ \A p \in Now' : p.id = q.id => p = q
<1>1. /\ BagToSet(pending') \subseteq BagToSet(pending) \cup {d}
      /\ BagToSet(pending) \ {c} \subseteq BagToSet(pending')
  BY ContinueCalls DEF IInv, CallsOK
<1>2. \A p \in Stored(q) : p.id = q.id
  BY DEF Stored, Key
<1>3. \A p \in Now : p.id # q.id => p \in Now'
  BY <1>1, <1>2 DEF Now
<1>4. \A p \in Now' : p = q \/ p \in Now
  BY <1>1 DEF Now
<1>5. Stored(q) = {} => Now' = Now
  BY <1>1, NowSame
<1>6. Stored(q) # {} => q \in Now'
  BY DEF Now
<1>7. OneOfEach'
  <2>1. IInv' /\ SeenInv'
    BY Inductive, SeenInductive
  <2> QED
    BY <2>1, NowUnique, PTL
<1> QED
  BY <1>3, <1>4, <1>5, <1>6, <1>7 DEF OneOfEach

-----------------------------------------------------------------------------
(* The home page.                                                          *)

\* A post that is going to be deleted is named by no slot but those that were
\* given to it meanwhile; any other post a slot names is there.
NamedInv ==
  /\ \A c \in BagToSet(pending), s \in Slots :
       c.op = "remove" /\ home[s] = c.post.id => s \in raced
  /\ \A s \in Slots :
       home[s] # None /\ s \notin raced /\ home[s] \notin raced => \E p \in Now : p.id = home[s]

LEMMA KeepNamed ==
  ASSUME NamedInv, home' = home, raced \subseteq raced',
         \A c \in BagToSet(pending') : c.op = "remove" =>
           c \in BagToSet(pending) \/ ~Referenced(c.post.id),
         \A p \in Now : \/ p.id \in raced'
                        \/ \E q \in Now' : q.id = p.id
                        \/ \A s \in Slots : home[s] = p.id => s \in raced'
  PROVE  NamedInv'
<1>1. ASSUME NEW c \in BagToSet(pending'), NEW s \in Slots, c.op = "remove", home[s] = c.post.id
      PROVE  s \in raced'
  BY <1>1 DEF NamedInv, Referenced
<1>2. ASSUME NEW s \in Slots, home[s] # None, s \notin raced', home[s] \notin raced'
      PROVE  \E p \in Now' : p.id = home[s]
  <2>1. PICK p \in Now : p.id = home[s]
    BY <1>2 DEF NamedInv
  <2> QED
    BY <1>2, <2>1
<1> QED
  BY <1>1, <1>2 DEF NamedInv

\* What a request or an answer sends deletes no post that a slot names.
LEMMA NamedCalm ==
  ASSUME IInv, SeenInv, NamedInv, [Next]_vars,
         \/ Request \/ GetHomePosts \/ Expire \/ UNCHANGED vars
         \/ \E c \in BagToSet(pending) : Quiet(c) /\ c.op # "assign"
  PROVE  NamedInv'
<1>1. Now' = Now
  BY NowCalm DEF Calm
<1>2. raced \subseteq raced'
  BY RacedGrows DEF Quiet, Answer
<1>3. home' = home
  <2>1. CASE \E p \in posts : Reads(p)
    BY <2>1, Begins
  <2>2. CASE \/ UpdateSlugs \/ SyncAlgolia \/ GetHomePosts \/ Expire \/ UNCHANGED vars
             \/ \E slot \in Slots, id \in Ids : UpdateHomePosts(slot, id)
    BY <2>2 DEF UpdateSlugs, SyncAlgolia, UpdateHomePosts, GetHomePosts, Expire, vars
  <2>3. ASSUME NEW id, NEW title, NEW category, NEW content, Create(id, title, category, content)
        PROVE  home' = home
    BY <2>3 DEF Create
  <2>4. CASE \E c \in BagToSet(pending) : Quiet(c) /\ c.op # "assign"
    BY <2>4 DEF Quiet, ChooseSlug, CheckPostReferences, Speak, Upload, SearchIndex,
                FinishSlugs, Assign, ReadPost, FillCache
  <2> QED
    BY <2>1, <2>2, <2>3, <2>4 DEF Request, Reads
<1>4. \A c \in BagToSet(pending') : c.op = "remove" =>
        c \in BagToSet(pending) \/ ~Referenced(c.post.id)
  <2>1. CASE Request \/ GetHomePosts
    <3>1. PICK new : Start(new) /\ posts' = posts /\ \A c \in new : Sent(c)'
      BY <2>1, RequestsSend
    <3>2. BagToSet(pending') = BagToSet(pending) \cup new
      BY <3>1, StartCalls DEF IInv, CallsOK
    <3>3. \A c \in new : c.op # "remove"
      BY <3>1 DEF Sent
    <3> QED
      BY <3>2, <3>3
  <2>2. CASE Expire \/ UNCHANGED vars
    BY <2>2 DEF Expire, vars
  <2>3. ASSUME NEW c \in BagToSet(pending), Quiet(c)
        PROVE  \A d \in BagToSet(pending') : d.op = "remove" =>
                 d \in BagToSet(pending) \/ ~Referenced(d.post.id)
    <3>1. PICK new : Continue(c, new) /\ \A d \in new : SentAfter(c, d)
      BY <2>3, AnswersSend
    <3>2. BagToSet(pending') \subseteq BagToSet(pending) \cup new
      BY <3>1, ContinueCalls DEF IInv, CallsOK
    <3>3. \A d \in new : d.op = "remove" => ~Referenced(d.post.id)
      BY <3>1 DEF SentAfter
    <3> QED
      BY <3>2, <3>3
  <2> QED
    BY <2>1, <2>2, <2>3
<1>5. \A p \in Now : \E q \in Now' : q.id = p.id
  BY <1>1
<1> QED
  BY <1>2, <1>3, <1>4, <1>5, KeepNamed

\* A slot is given to a post that is there and stays, or has raced.
LEMMA NamedAssign ==
  ASSUME IInv, SeenInv, NamedInv, [Next]_vars, NEW c \in BagToSet(pending), Assign(c)
  PROVE  NamedInv'
<1>1. c.slot \in Slots /\ c.id \in Ids
  BY CallKinds DEF Assign, Assignments, IInv, CallsOK
<1>2. Now' = Now /\ posts' = posts
  BY NowCalm DEF Calm, Quiet
<1>3. BagToSet(pending') \subseteq BagToSet(pending)
  BY ContinueCalls DEF Assign, IInv, CallsOK
<1>4. /\ home' = [home EXCEPT ![c.slot] = c.id] /\ home \in [Slots -> Ids \cup {None}]
      /\ (raced \ {c.slot}) \subseteq raced'
      /\ c.slot \notin raced' => Exists(c.id) /\ ~BeingRemoved(c.id)
  BY DEF Assign, IInv, VarsOK
<1>5. raced \cap Ids \subseteq raced'
  BY RacedStays
<1>6. ASSUME NEW d \in BagToSet(pending'), NEW s \in Slots, d.op = "remove", home'[s] = d.post.id
      PROVE  s \in raced'
  BY <1>1, <1>3, <1>4, <1>6 DEF NamedInv, BeingRemoved
<1>7. ASSUME NEW s \in Slots, home'[s] # None, s \notin raced', home'[s] \notin raced'
      PROVE  \E p \in Now' : p.id = home'[s]
  <2>1. CASE s = c.slot
    BY <1>1, <1>2, <1>4, <1>7, <2>1 DEF Exists, Now
  <2>2. CASE s # c.slot
    <3>1. home'[s] = home[s] /\ home[s] \in Ids \cup {None}
      BY <1>4, <2>2
    <3> QED
      BY <1>2, <1>4, <1>5, <1>7, <2>2, <3>1 DEF NamedInv
  <2> QED
    BY <2>1, <2>2
<1> QED
  BY <1>6, <1>7 DEF NamedInv
LEMMA NamedWrites ==
  ASSUME IInv, SeenInv, NamedInv, [Next]_vars, NEW c \in BagToSet(pending),
         Replace(c) \/ Move(c) \/ Insert(c) \/ Remove(c)
  PROVE  NamedInv'
<1>1. raced \subseteq raced' /\ home' = home
  BY DEF Replace, Move, Insert, Remove, AfterWrite
<1>2. \A d \in BagToSet(pending') : d.op = "remove" => d \in BagToSet(pending)
  <2>1. PICK new : Continue(c, new) /\ \A d \in new : d.op # "remove"
    <3>1. CASE Replace(c) \/ Insert(c)
      <4>1. c \in Works
        BY <3>1, CallKinds DEF Replace, Insert, WorkOps, IInv, CallsOK
      <4>2. \A d \in Follow(c) : d.op = "index"
        BY <4>1, FollowCall
      <4> QED
        BY <3>1, <4>2 DEF Replace, Insert, AfterWrite
    <3>2. CASE Move(c)
      <4> DEFINE d == [c EXCEPT !.op = "insert"]
      <4>1. d.op = "insert"
        BY <3>2, HasSeen, OpChanged DEF Move, WorkOps
      <4>2. Continue(c, {d})
        BY <3>2 DEF Move
      <4> HIDE DEF d
      <4> QED
        BY <4>1, <4>2
    <3>3. CASE Remove(c)
      <4>1. Continue(c, {})
        BY <3>3 DEF Remove
      <4> QED
        BY <4>1
    <3> QED
      BY <3>1, <3>2, <3>3
  <2>2. BagToSet(pending') \subseteq BagToSet(pending) \cup new
    BY <2>1, ContinueCalls DEF IInv, CallsOK
  <2> QED
    BY <2>1, <2>2
<1>3. ASSUME NEW p \in Now
      PROVE  (\E q \in Now' : q.id = p.id) \/ \A s \in Slots : home[s] = p.id => s \in raced'
  <2>1. CASE Replace(c) \/ Insert(c)
    BY <2>1, NowWrite
  <2>2. CASE Move(c)
    BY <2>2, NowMove
  <2>3. CASE Remove(c)
    BY <1>1, <2>3, NowRemove DEF NamedInv, Remove
  <2> QED
    BY <2>1, <2>2, <2>3
<1> QED
  BY <1>1, <1>2, <1>3, KeepNamed

LEMMA NamedRenumber ==
  ASSUME IInv, SeenInv, NamedInv, [Next]_vars, NEW c \in BagToSet(pending), Renumber(c)
  PROVE  NamedInv'
<1>1. raced \subseteq raced' /\ home' = home /\ c.op = "renumber"
  BY DEF Renumber
<1>2. PICK d, w :
        /\ d \in Renumberings /\ w[2] \in Post /\ Continue(c, {d})
        /\ posts' = (posts \ Stored(w[2])) \cup (IF Stored(w[2]) # {} THEN {w[2]} ELSE {})
  BY Renumbered
<1>3. d.op = "renumber"
  BY <1>2 DEF Renumberings
<1>4. \A p \in Now : \E q \in Now' : q.id = p.id
  <2> DEFINE q == w[2]
  <2>1. q \in Post /\ posts' = (posts \ Stored(q)) \cup (IF Stored(q) # {} THEN {q} ELSE {})
    BY <1>2
  <2> HIDE DEF q
  <2>2. /\ \A p \in Now : p.id # q.id => p \in Now'
        /\ Stored(q) = {} => Now' = Now
        /\ Stored(q) # {} => q \in Now'
    BY <1>1, <1>2, <1>3, <2>1, NowRenumber
  <2> QED
    BY <2>2
<1>5. \A e \in BagToSet(pending') : e.op = "remove" => e \in BagToSet(pending)
  BY <1>2, <1>3, ContinueCalls DEF IInv, CallsOK
<1> QED
  BY <1>1, <1>4, <1>5, KeepNamed

LEMMA NamedInductive == IInv /\ SeenInv /\ NamedInv /\ [Next]_vars => NamedInv'
<1> SUFFICES ASSUME IInv, SeenInv, NamedInv, [Next]_vars
             PROVE  NamedInv'
  OBVIOUS
<1>1. CASE Restart \/ \E c \in BagToSet(pending) : Fail(c)
  <2>1. /\ Now' \subseteq Now
        /\ \A p \in Now \ Now' : p.id \in raced'
    BY <1>1, NowLost
  <2>2. raced \subseteq raced' /\ home' = home
    BY <1>1, RacedGrows DEF Restart, Fail
  <2>3. BagToSet(pending') \subseteq BagToSet(pending)
    BY <1>1, NoCalls, ContinueCalls DEF Restart, Fail, IInv, CallsOK
  <2> QED
    BY <2>1, <2>2, <2>3, KeepNamed
<1>2. CASE Request \/ GetHomePosts \/ Expire \/ UNCHANGED vars
  BY <1>2, NamedCalm
<1>3. ASSUME NEW c \in BagToSet(pending), Quiet(c)
      PROVE  NamedInv'
  <2>1. c.op = "assign" => Assign(c)
    BY <1>3 DEF Quiet, ChooseSlug, CheckPostReferences, Speak, Upload, SearchIndex,
                FinishSlugs, ReadPost, FillCache
  <2> QED
    BY <1>3, <2>1, NamedCalm, NamedAssign
<1> QED
  BY <1>1, <1>2, <1>3, NamedWrites, NamedRenumber DEF Next, Answer, Quiet

-----------------------------------------------------------------------------
LEMMA InitiallySeen == Init => SeenInv /\ NamedInv
BY NoCalls DEF Init, SeenInv, NamedInv

LEMMA NamedAlways == Spec => [](IInv /\ SeenInv /\ NamedInv)
<1>1. Init => IInv /\ SeenInv /\ NamedInv
  BY Initially, InitiallySeen
<1>2. IInv /\ SeenInv /\ NamedInv /\ [Next]_vars => (IInv /\ SeenInv /\ NamedInv)'
  BY Inductive, SeenInductive, NamedInductive
<1> QED
  BY <1>1, <1>2, PTL DEF Spec

\* The home page names no post that does not exist, unless the slot was given
\* to it when it did not exist or was just being removed, or the post was lost
\* while it changed its category (remove, checkPostReferences, updateHomePosts).
THEOREM HomePageNamesPosts == Spec => []ReferencesHold
<1>1. IInv /\ SeenInv /\ NamedInv => ReferencesHold
  <2> SUFFICES ASSUME IInv, SeenInv, NamedInv, NEW s \in Slots,
                      home[s] # None, s \notin raced, home[s] \notin raced
               PROVE  \/ Exists(home[s])
                      \/ \E c \in BagToSet(pending) : c.op = "insert" /\ c.post.id = home[s]
    BY DEF ReferencesHold
  <2>1. PICK p \in Now : p.id = home[s]
    BY DEF NamedInv
  <2>2. CASE p \in posts
    BY <2>1, <2>2 DEF Exists
  <2>3. CASE p \notin posts
    <3>1. PICK c \in BagToSet(pending) : c.op = "insert" /\ c.seen # None /\ p = c.seen
      BY <2>3 DEF Now
    <3>2. c.seen.id = c.post.id
      BY <3>1 DEF SeenInv, Shape, WorkOps
    <3> QED
      BY <2>1, <3>1, <3>2
  <2> QED
    BY <2>2, <2>3
<1> QED
  BY <1>1, NamedAlways, PTL
-----------------------------------------------------------------------------
(* The cached home page.                                                   *)

\* Requests write nothing.
LEMMA RequestsWriteNothing ==
  ASSUME IInv, Request \/ GetHomePosts
  PROVE  UNCHANGED <<posts, index, blob, home, cache, removed, edited>>
<1>1. CASE \E p \in posts : Reads(p)
  BY <1>1, Begins
<1>2. CASE \/ UpdateSlugs \/ SyncAlgolia \/ GetHomePosts
           \/ \E slot \in Slots, id \in Ids : UpdateHomePosts(slot, id)
  BY <1>2 DEF UpdateSlugs, SyncAlgolia, UpdateHomePosts, GetHomePosts, told
<1>3. ASSUME NEW id, NEW title, NEW category, NEW content, Create(id, title, category, content)
      PROVE  UNCHANGED <<posts, index, blob, home, cache, removed, edited>>
  BY <1>3 DEF Create, told
<1> QED
  BY <1>1, <1>2, <1>3 DEF Request, Reads

LEMMA EditedGrows ==
  ASSUME IInv, [Next]_vars
  PROVE  edited \subseteq edited'
<1>1. CASE Request \/ GetHomePosts
  BY <1>1, RequestsWriteNothing
<1>2. CASE Expire \/ Restart \/ UNCHANGED vars
  BY <1>2 DEF Expire, Restart, vars
<1>3. ASSUME NEW c \in BagToSet(pending), Answer(c) \/ Fail(c)
      PROVE  edited \subseteq edited'
  BY <1>3 DEF Answer, Fail, ChooseSlug, CheckPostReferences, Replace, Move, Insert, Remove, Assign,
              Speak, Upload, SearchIndex, Renumber, FinishSlugs, ReadPost, FillCache, Edit
<1> QED
  BY <1>1, <1>2, <1>3 DEF Next

\* A post request that changes its category is edited when it is deleted.
EditedInv ==
  \A c \in BagToSet(pending) :
    c.op = "insert" /\ c.seen # None /\ c.after = "nothing" => c.post.id \in edited

\* A post is going to be created again when it has been deleted, and not else.
LEMMA InsertsFrom ==
  ASSUME IInv, SeenInv, [Next]_vars, NEW d \in BagToSet(pending'), d.op = "insert", d.seen # None
  PROVE  \/ d \in BagToSet(pending)
         \/ \E c \in BagToSet(pending) :
              /\ Move(c) /\ d = [c EXCEPT !.op = "insert"]
              /\ c.op = "move" /\ c \in Works /\ Shape(c) /\ c.seen # None
              /\ d.seen = c.seen /\ d.post = c.post /\ d.after = c.after
<1>1. CASE Request \/ GetHomePosts
  <2>1. PICK new : Start(new) /\ \A c \in new : Sent(c)'
    BY <1>1, RequestsSend
  <2>2. d \notin new
    BY <2>1 DEF Sent
  <2> QED
    BY <2>1, <2>2, StartCalls DEF IInv, CallsOK
<1>2. CASE Expire \/ Restart \/ UNCHANGED vars
  BY <1>2, NoCalls DEF Expire, Restart, vars
<1>3. ASSUME NEW c \in BagToSet(pending), Quiet(c) \/ Fail(c)
      PROVE  d \in BagToSet(pending)
  <2>1. PICK new : Continue(c, new) /\ \A e \in new : SentAfter(c, e)
    BY <1>3, AnswersSend
  <2>2. d \notin new
    BY <2>1 DEF SentAfter
  <2> QED
    BY <2>1, <2>2, ContinueCalls DEF IInv, CallsOK
<1>4. ASSUME NEW c \in BagToSet(pending), Replace(c) \/ Insert(c)
      PROVE  d \in BagToSet(pending)
  <2>1. c \in Works /\ Continue(c, Follow(c))
    BY <1>4, CallKinds DEF Replace, Insert, AfterWrite, WorkOps, IInv, CallsOK
  <2>2. d \notin Follow(c)
    BY <2>1, FollowCall
  <2> QED
    BY <2>1, <2>2, ContinueCalls DEF IInv, CallsOK
<1>5. ASSUME NEW c \in BagToSet(pending), Remove(c)
      PROVE  d \in BagToSet(pending)
  BY <1>5, ContinueCalls DEF Remove, IInv, CallsOK
<1>6. ASSUME NEW c \in BagToSet(pending), Renumber(c)
      PROVE  d \in BagToSet(pending)
  <2>1. PICK e : e \in Renumberings /\ Continue(c, {e})
    BY <1>6, Renumbered
  <2> QED
    BY <2>1, ContinueCalls DEF IInv, CallsOK, Renumberings
<1>7. ASSUME NEW c \in BagToSet(pending), Move(c), d \notin BagToSet(pending)
      PROVE  /\ d = [c EXCEPT !.op = "insert"]
             /\ c.op = "move" /\ c \in Works /\ Shape(c) /\ c.seen # None
             /\ d.seen = c.seen /\ d.post = c.post /\ d.after = c.after
  <2>1. c.op = "move" /\ c \in Works /\ Shape(c) /\ c.seen # None
    BY <1>7, HasSeen DEF Move, WorkOps
  <2>2. d = [c EXCEPT !.op = "insert"]
    BY <1>7, ContinueCalls DEF Move, IInv, CallsOK
  <2> QED
    BY <2>1, <2>2, OpChanged DEF WorkOps
<1> QED
  BY <1>1, <1>2, <1>3, <1>4, <1>5, <1>6, <1>7 DEF Next, Answer, Quiet

LEMMA EditedInductive == IInv /\ SeenInv /\ EditedInv /\ [Next]_vars => EditedInv'
<1> SUFFICES ASSUME IInv, SeenInv, EditedInv, [Next]_vars, NEW d \in BagToSet(pending'),
                    d.op = "insert", d.seen # None, d.after = "nothing"
             PROVE  d.post.id \in edited'
  BY DEF EditedInv
<1>1. CASE d \in BagToSet(pending)
  BY <1>1, EditedGrows DEF EditedInv
<1>2. ASSUME NEW c \in BagToSet(pending), Move(c), c.op = "move", Shape(c), c.seen # None,
             d.seen = c.seen, d.post = c.post, d.after = c.after
      PROVE  d.post.id \in edited'
  <2>1. c.post # c.seen
    BY <1>2 DEF Shape, WorkOps
  <2> QED
    BY <1>2, <2>1 DEF Move, Edit
<1> QED
  BY <1>1, <1>2, InsertsFrom
\* What was read of a slot is right.
Right(s, name, slug) ==
  /\ name = home[s]
  /\ home[s] # None /\ {s, home[s]} \cap (raced \cup edited) = {} =>
       \A p \in posts : p.id = home[s] => slug \in {Omitted, p.slug}

PageInv ==
  "cache" \notin raced =>
    /\ cache # None => \A s \in Slots : cache[s][2] # Omitted /\ Right(s, cache[s][1], cache[s][2])
    /\ \A c \in BagToSet(pending) : c.op = "page" =>
         \A s \in Slots : Right(s, c.names[s], c.shows[s])

\* The posts keep their slugs, unless they are edited or a call on them raced,
\* or no slot that could tell names them.
SlugsHold ==
  \A p \in posts' :
    \/ p.id \in raced' \cup edited'
    \/ \E q \in posts : q.id = p.id /\ q.slug = p.slug
    \/ \A s \in Slots : home[s] = p.id => s \in raced'

LEMMA RightStays ==
  ASSUME NEW s \in Slots, NEW name, NEW slug, Right(s, name, slug), SlugsHold,
         home' = home, raced \subseteq raced', edited \subseteq edited'
  PROVE  Right(s, name, slug)'
<1> SUFFICES ASSUME home[s] # None, {s, home[s]} \cap (raced' \cup edited') = {},
                    NEW p \in posts', p.id = home[s]
             PROVE  slug \in {Omitted, p.slug}
  BY DEF Right
<1>1. PICK q \in posts : q.id = p.id /\ q.slug = p.slug
  BY DEF SlugsHold
<1> QED
  BY <1>1 DEF Right

\* A step that changes no slug and no slot, and reads nothing wrong.
LEMMA KeepPage ==
  ASSUME PageInv, SlugsHold, home' = home, raced \subseteq raced', edited \subseteq edited',
         cache' = cache \/ cache' = None,
         \A c \in BagToSet(pending') : c.op = "page" =>
           \/ c \in BagToSet(pending)
           \/ "cache" \in raced'
           \/ \A s \in Slots : Right(s, c.names[s], c.shows[s])
  PROVE  PageInv'
<1> SUFFICES ASSUME "cache" \notin raced'
             PROVE  PageInv'
  BY DEF PageInv
<1>1. ASSUME cache' # None, NEW s \in Slots
      PROVE  (cache[s][2] # Omitted /\ Right(s, cache[s][1], cache[s][2]))'
  <2>1. cache' = cache /\ cache[s][2] # Omitted /\ Right(s, cache[s][1], cache[s][2])
    BY <1>1 DEF PageInv
  <2> DEFINE name == cache[s][1]
             slug == cache[s][2]
  <2>2. PICK n, g : n = name /\ g = slug
    OBVIOUS
  <2>3. Right(s, n, g)'
    BY <2>1, <2>2, RightStays
  <2> QED
    BY <2>1, <2>2, <2>3 DEF Right
<1>2. ASSUME NEW c \in BagToSet(pending'), c.op = "page", NEW s \in Slots
      PROVE  Right(s, c.names[s], c.shows[s])'
  <2>1. Right(s, c.names[s], c.shows[s])
    BY <1>2 DEF PageInv
  <2> QED
    BY <2>1, RightStays
<1> QED
  BY <1>1, <1>2 DEF PageInv

\* The cache is emptied while no page is read.
LEMMA EmptyPage ==
  ASSUME cache' = None, CacheRace \subseteq raced',
         \A c \in BagToSet(pending') : c.op = "page" => c \in BagToSet(pending)
  PROVE  PageInv'
BY DEF PageInv, CacheRace

\* Requests, and answers to calls that write nothing.
LEMMA PageRequests ==
  ASSUME IInv, SeenInv, PageInv, [Next]_vars, Request \/ GetHomePosts
  PROVE  PageInv'
<1>1. PICK new : Start(new) /\ \A c \in new : Sent(c)'
  BY RequestsSend
<1>2. BagToSet(pending') = BagToSet(pending) \cup new
  BY <1>1, StartCalls DEF IInv, CallsOK
<1>3. UNCHANGED <<posts, home, cache, edited>> /\ raced \subseteq raced'
  BY RequestsWriteNothing, RacedGrows
<1>4. \A c \in new : c.op = "page" => \A s \in Slots : Right(s, c.names[s], c.shows[s])
  BY <1>1, <1>3 DEF Sent, Right
<1>5. SlugsHold
  BY <1>3 DEF SlugsHold
<1> QED
  BY <1>2, <1>3, <1>4, <1>5, KeepPage

LEMMA PageReads ==
  ASSUME IInv, SeenInv, PageInv, [Next]_vars, NEW c \in BagToSet(pending),
         ReadPost(c) \/ FillCache(c)
  PROVE  PageInv'
<1>1. c.op = "page" /\ c \in Pages
  BY CallKinds DEF ReadPost, FillCache, IInv, CallsOK
<1>2. UNCHANGED <<posts, home, edited, raced>>
  BY DEF ReadPost, FillCache
<1>3. SlugsHold
  BY <1>2 DEF SlugsHold
<1>4. CASE ReadPost(c)
  <2>1. PICK s, slug :
          /\ s \in Slots /\ slug \in IF Exists(c.names[s]) THEN Shown(c.names[s]) ELSE {None}
          /\ Continue(c, {[c EXCEPT !.shows[s] = slug]})
    BY <1>4 DEF ReadPost
  <2> DEFINE d == [c EXCEPT !.shows[s] = slug]
  <2>2. /\ d.op = "page" /\ d.names = c.names
        /\ d.shows[s] = slug /\ \A t \in Slots : t # s => d.shows[t] = c.shows[t]
    BY <1>1, <2>1 DEF Pages
  <2>3. Continue(c, {d})
    BY <2>1
  <2> HIDE DEF d
  <2>4. BagToSet(pending') \subseteq BagToSet(pending) \cup {d}
    BY <2>3, ContinueCalls DEF IInv, CallsOK
  <2>5. ASSUME "cache" \notin raced, NEW t \in Slots
        PROVE  Right(t, d.names[t], d.shows[t])
    <3>1. Right(t, c.names[t], c.shows[t])
      BY <1>1, <2>5 DEF PageInv
    <3>2. CASE t = s
      <4>1. ASSUME NEW p \in posts, p.id = home[s], c.names[s] = home[s]
            PROVE  slug = p.slug
        BY <2>1, <4>1 DEF Exists, Shown, IInv, PostsInv, OneCopy
      <4> QED
        BY <2>2, <3>1, <3>2, <4>1 DEF Right
    <3> QED
      BY <2>2, <3>1, <3>2
  <2> QED
    BY <1>2, <1>3, <1>4, <2>4, <2>5, KeepPage DEF ReadPost
<1>5. CASE FillCache(c)
  <2>1. BagToSet(pending') \subseteq BagToSet(pending)
    BY <1>5, ContinueCalls DEF FillCache, IInv, CallsOK
  <2>2. cache' = [s \in Slots |-> <<c.names[s], c.shows[s]>>] /\ \A s \in Slots : c.shows[s] # Omitted
    BY <1>5 DEF FillCache
  <2> SUFFICES ASSUME "cache" \notin raced
               PROVE  PageInv'
    BY <1>2 DEF PageInv
  <2>3. \A d \in BagToSet(pending) : d.op = "page" => \A s \in Slots : Right(s, d.names[s], d.shows[s])
    BY DEF PageInv
  <2>4. ASSUME NEW s \in Slots
        PROVE  (cache[s][2] # Omitted /\ Right(s, cache[s][1], cache[s][2]))'
    BY <1>1, <1>2, <2>2, <2>3 DEF Right
  <2>5. \A d \in BagToSet(pending') : d.op = "page" =>
          \A s \in Slots : Right(s, d.names[s], d.shows[s])'
    BY <1>2, <2>1, <2>3 DEF Right
  <2> QED
    BY <2>4, <2>5 DEF PageInv
<1> QED
  BY <1>4, <1>5

\* The answers after which the cache is empty.
LEMMA PageEmptied ==
  ASSUME IInv, SeenInv, PageInv, [Next]_vars, NEW c \in BagToSet(pending),
         Assign(c) \/ FinishSlugs(c)
  PROVE  PageInv'
<1>1. BagToSet(pending') \subseteq BagToSet(pending)
  BY ContinueCalls DEF Assign, FinishSlugs, IInv, CallsOK
<1>2. CASE Assign(c) \/ c.ok
  BY <1>1, <1>2, EmptyPage DEF Assign, FinishSlugs
<1>3. CASE FinishSlugs(c) /\ ~c.ok
  <2>1. UNCHANGED <<posts, home, cache, edited, raced>>
    BY <1>3 DEF FinishSlugs
  <2> QED
    BY <1>1, <2>1, KeepPage DEF SlugsHold
<1> QED
  BY <1>2, <1>3

\* The answers that change no post.
LEMMA PageQuiet ==
  ASSUME IInv, SeenInv, PageInv, [Next]_vars, NEW c \in BagToSet(pending),
         Quiet(c) \/ Fail(c), ~(Assign(c) \/ FinishSlugs(c) \/ ReadPost(c) \/ FillCache(c))
  PROVE  PageInv'
<1>1. PICK new : Continue(c, new) /\ \A d \in new : SentAfter(c, d)
  BY AnswersSend
<1>2. \A d \in BagToSet(pending') : d.op = "page" => d \in BagToSet(pending)
  BY <1>1, ContinueCalls DEF SentAfter, IInv, CallsOK
<1>3. UNCHANGED <<posts, home, cache, edited>> /\ raced \subseteq raced'
  BY DEF Quiet, Fail, ChooseSlug, CheckPostReferences, Speak, Upload, SearchIndex
<1> QED
  BY <1>2, <1>3, KeepPage DEF SlugsHold

\* The writes of posts.
LEMMA PageWrites ==
  ASSUME IInv, SeenInv, NamedInv, EditedInv, PageInv, [Next]_vars, NEW c \in BagToSet(pending),
         Replace(c) \/ Move(c) \/ Insert(c) \/ Remove(c)
  PROVE  PageInv'
<1>1. c \in Works /\ c.op \in WorkOps /\ c.post.id \in Ids /\ c.op # "page" /\ Shape(c) /\ Fresh(c)
  BY CallKinds DEF Replace, Move, Insert, Remove, WorkOps, IInv, CallsOK, SeenInv
<1>2. raced \subseteq raced' /\ home' = home /\ edited \subseteq edited'
  BY EditedGrows DEF Replace, Move, Insert, Remove, AfterWrite
<1>3. \A d \in BagToSet(pending') : d.op = "page" => d \in BagToSet(pending)
  <2>1. PICK new : Continue(c, new) /\ \A d \in new : d.op # "page"
    <3>1. CASE Replace(c) \/ Insert(c)
      <4>1. \A d \in Follow(c) : d.op = "index"
        BY <1>1, FollowCall
      <4> QED
        BY <3>1, <4>1 DEF Replace, Insert, AfterWrite
    <3>2. CASE Move(c)
      <4> DEFINE d == [c EXCEPT !.op = "insert"]
      <4>1. d.op = "insert"
        BY <1>1, OpChanged DEF WorkOps
      <4>2. Continue(c, {d})
        BY <3>2 DEF Move
      <4> HIDE DEF d
      <4> QED
        BY <4>1, <4>2
    <3>3. CASE Remove(c)
      <4>1. Continue(c, {})
        BY <3>3 DEF Remove
      <4> QED
        BY <4>1
    <3> QED
      BY <3>1, <3>2, <3>3
  <2> QED
    BY <2>1, ContinueCalls DEF IInv, CallsOK
<1>4. CASE Move(c) \/ Remove(c)
  BY <1>2, <1>3, <1>4, KeepPage DEF SlugsHold, Move, Remove
<1>5. CASE (Replace(c) \/ Insert(c)) /\ c.after = "update"
  <2>1. cache' = None /\ CacheRace \subseteq raced'
    BY <1>5 DEF Replace, Insert, AfterWrite, CacheAfter
  <2> QED
    BY <1>3, <2>1, EmptyPage
<1>6. CASE (Replace(c) \/ Insert(c)) /\ c.after # "update"
  <2>1. cache' = cache
    BY <1>6 DEF Replace, Insert, AfterWrite, CacheAfter
  <2>2. posts' \subseteq posts \cup {c.post}
    BY <1>6 DEF Replace, Insert
  <2>3. \/ c.post.id \in raced' \cup edited'
        \/ \E q \in posts : q.id = c.post.id /\ q.slug = c.post.slug
        \/ \A s \in Slots : home[s] = c.post.id => s \in raced'
    <3>1. CASE Replace(c)
      <4>1. c.op = "replace" /\ c.seen.id = c.post.id /\ c.seen # None
        BY <3>1, HasSeen DEF Replace, WorkOps
      <4>2. c.post.id \in raced \/ c.seen \in posts
        BY <1>1, <4>1 DEF Fresh
      <4>3. c.after # "nothing" => c.post.slug = c.seen.slug
        BY <1>1, <1>6, <4>1 DEF Shape, Works, After
      <4>4. c.after = "nothing" => c.post = c.seen \/ c.post.id \in edited'
        BY <3>1 DEF Replace, Edit
      <4> QED
        BY <1>2, <4>1, <4>2, <4>3, <4>4
    <3>2. CASE Insert(c) /\ c.seen # None
      <4>1. c.op = "insert" /\ c.after = "nothing"
        BY <1>1, <1>6, <3>2 DEF Shape, Insert
      <4> QED
        BY <1>2, <3>2, <4>1 DEF EditedInv
    <3>3. CASE Insert(c) /\ c.seen = None
      <4> SUFFICES ASSUME NEW s \in Slots, home[s] = c.post.id, s \notin raced', c.post.id \notin raced'
                   PROVE  FALSE
        OBVIOUS
      <4>1. home[s] # None
        BY <1>1, PostsAssumption
      <4>2. PICK p \in Now : p.id = c.post.id
        BY <1>2, <4>1 DEF NamedInv
      <4>3. c.op = "insert" /\ Carries(c)
        BY <3>3 DEF Insert, IInv
      <4>4. PICK d \in BagToSet(pending) : d.op = "insert" /\ d.seen # None /\ p = d.seen
        BY <4>2, <4>3 DEF Carries, Now
      <4>5. d.seen.id = d.post.id
        BY <4>4 DEF SeenInv, Shape, WorkOps
      <4> QED
        BY <3>3, <4>2, <4>3, <4>4, <4>5 DEF Carries
    <3> QED
      BY <1>6, <3>1, <3>2, <3>3
  <2>4. SlugsHold
    BY <2>2, <2>3 DEF SlugsHold
  <2> QED
    BY <1>2, <1>3, <2>1, <2>4, KeepPage
<1> QED
  BY <1>4, <1>5, <1>6

LEMMA PageRenumber ==
  ASSUME IInv, SeenInv, PageInv, [Next]_vars, NEW c \in BagToSet(pending), Renumber(c)
  PROVE  PageInv'
<1>1. PICK d, w :
        /\ d \in Renumberings /\ w[2].id = w[1].id /\ Continue(c, {d})
        /\ posts' = (posts \ Stored(w[2])) \cup (IF Stored(w[2]) # {} THEN {w[2]} ELSE {})
        /\ edited' = edited \cup {w[1].id}
  BY Renumbered
<1>2. raced \subseteq raced' /\ home' = home /\ cache' = cache
  BY DEF Renumber
<1>3. SlugsHold
  BY <1>1 DEF SlugsHold
<1>4. \A e \in BagToSet(pending') : e.op = "page" => e \in BagToSet(pending)
  BY <1>1, ContinueCalls DEF IInv, CallsOK, Renumberings
<1> QED
  BY <1>1, <1>2, <1>3, <1>4, KeepPage

LEMMA PageInductive ==
  IInv /\ SeenInv /\ NamedInv /\ EditedInv /\ PageInv /\ [Next]_vars => PageInv'
<1> SUFFICES ASSUME IInv, SeenInv, NamedInv, EditedInv, PageInv, [Next]_vars
             PROVE  PageInv'
  OBVIOUS
<1>1. CASE Expire \/ Restart \/ UNCHANGED vars
  <2>1. \A c \in BagToSet(pending') : c \in BagToSet(pending)
    BY <1>1, NoCalls DEF Expire, Restart, vars
  <2>2. /\ UNCHANGED <<posts, home, edited>> /\ raced \subseteq raced'
        /\ cache' = cache \/ cache' = None
    BY <1>1 DEF Expire, Restart, vars
  <2> QED
    BY <2>1, <2>2, KeepPage DEF SlugsHold
<1>2. ASSUME NEW c \in BagToSet(pending), Quiet(c) \/ Fail(c)
      PROVE  PageInv'
  BY <1>2, PageEmptied, PageReads, PageQuiet
<1> QED
  BY <1>1, <1>2, PageRequests, PageWrites, PageRenumber DEF Next, Answer, Quiet

LEMMA PageAlways == Spec => []PageInv
<1>1. Init => EditedInv /\ PageInv
  BY NoCalls DEF Init, EditedInv, PageInv
<1>2. EditedInv /\ PageInv /\ IInv /\ SeenInv /\ NamedInv /\ [Next]_vars => (EditedInv /\ PageInv)'
  BY EditedInductive, PageInductive
<1> QED
  BY <1>1, <1>2, NamedAlways, PTL DEF Spec

\* The cached home page names the posts the slots name and shows their present
\* slugs, unless it was being read while the cache was emptied, a post request
\* or updateSlugs changed the post, or the slot was given to no existing post
\* (getHomePosts; update and updateHomePosts empty the cache).
THEOREM CachedPageIsRight == Spec => []CacheUnlessRaced
<1>1. PageInv => CacheUnlessRaced
  BY DEF PageInv, Right, CacheUnlessRaced
<1> QED
  BY <1>1, PageAlways, PTL
-----------------------------------------------------------------------------
(* The slugs.                                                              *)

\* A call brings a slug its post did not have.
Brings(c) ==
  c.op \in {"replace", "move", "insert"} /\ (c.seen = None \/ c.post.slug # c.seen.slug)

GivesSlug(c) == Brings(c) \/ c.op = "renumber"

\* What updateSlugs has still to write, and the slug a post is going to have:
\* the one updateSlugs gives it, or its own.
Left == UNION {c.left : c \in {d \in BagToSet(pending) : d.op = "renumber"}}

Gets(p) ==
  IF \E w \in Left : w[1] = p THEN {w[2].slug : w \in {v \in Left : v[1] = p}} ELSE {p.slug}

GoingApart == \A p, q \in Now : Gets(p) \cap Gets(q) # {} => p = q

OneGivesSlug ==
  \A c, d \in BagToSet(pending) : GivesSlug(c) /\ GivesSlug(d) => c = d /\ pending[c] = 1

NewSlugs == \A c \in BagToSet(pending) : Brings(c) => \A p \in Now : p.slug # c.post.slug

SlugsRaced == raced \cap (Ids \cup {"slugs"}) # {}

SlugInv == ~SlugsRaced => GoingApart /\ OneGivesSlug /\ NewSlugs

\* While nothing raced, every call has read the post that there is.
LEMMA NothingRaced ==
  ASSUME IInv, SeenInv, [Next]_vars, ~SlugsRaced'
  PROVE  /\ ~SlugsRaced
         /\ \A c \in BagToSet(pending) :
              /\ c.op \in WorkOps /\ c.seen # None => c.seen \in Now /\ c.seen.id = c.post.id
              /\ c.op \in WorkOps => c.post \in Post /\ c.post.id \in Ids
              /\ c.op = "renumber" => \A w \in c.left : w[1] \in posts
<1>1. ~SlugsRaced
  BY RacedStays DEF SlugsRaced
<1> SUFFICES ASSUME NEW c \in BagToSet(pending)
             PROVE  /\ c.op \in WorkOps /\ c.seen # None => c.seen \in Now /\ c.seen.id = c.post.id
                    /\ c.op \in WorkOps => c.post \in Post /\ c.post.id \in Ids
                    /\ c.op = "renumber" => \A w \in c.left : w[1] \in posts
  BY <1>1
<1>2. /\ c.op \in WorkOps => c.post \in Post /\ c.post.id \in Ids
      /\ c.op = "renumber" => c \in Renumberings
  BY CallKinds DEF IInv, CallsOK
<1>3. Shape(c) /\ Fresh(c)
  BY DEF SeenInv
<1>4. c.op \in WorkOps /\ c.seen # None => c.seen \in Now /\ c.seen.id = c.post.id
  BY <1>1, <1>2, <1>3 DEF SlugsRaced, Fresh, Shape, Now
<1>5. c.op = "renumber" => \A w \in c.left : w[1] \in posts
  <2>1. c.op = "renumber" => \A w \in c.left : w[1].id \in Ids
    BY <1>2 DEF Renumberings, Post
  <2> QED
    BY <1>1, <1>3, <2>1 DEF SlugsRaced, Fresh
<1> QED
  BY <1>2, <1>4, <1>5

\* A step that gives no post another slug.
LEMMA KeepSlugs ==
  ASSUME GoingApart, OneGivesSlug, NewSlugs, Now' \subseteq Now,
         \A d \in BagToSet(pending') : GivesSlug(d) =>
           d \in BagToSet(pending) /\ pending'[d] = pending[d],
         \A d \in BagToSet(pending) :
           d.op = "renumber" /\ d.left # {} => d \in BagToSet(pending')
  PROVE  SlugInv'
<1>1. Left' = Left
  BY DEF Left, GivesSlug
<1>2. GoingApart'
  BY <1>1 DEF GoingApart, Gets
<1>3. OneGivesSlug' /\ NewSlugs'
  BY DEF OneGivesSlug, NewSlugs, GivesSlug, Brings
<1> QED
  BY <1>2, <1>3 DEF SlugInv

\* Nothing is left to updateSlugs while it is not under way.
LEMMA NothingLeft ==
  ASSUME \A c \in BagToSet(pending) : c.op # "renumber"
  PROVE  Left = {} /\ \A p : Gets(p) = {p.slug}
BY DEF Left, Gets

\* A slug is chosen while no other is about to be written.
LEMMA SlugChosen ==
  ASSUME IInv, SlugInv, ~SlugsRaced, SlugRace = {}, posts' = posts, NEW d \in Works,
         d.op \in {"replace", "move"} \/ (d.op = "insert" /\ d.seen = None),
         d.post.slug \notin Slugs,
         BagToSet(pending') \subseteq BagToSet(pending) \cup {d},
         d \notin BagToSet(pending) => pending'[d] = 1
  PROVE  SlugInv'
<1>1. \A c \in BagToSet(pending) : c.op \notin {"replace", "move", "insert", "renumber"}
  BY DEF SlugRace
<1>2. Now = posts /\ Now' = posts
  BY <1>1 DEF Now
<1>3. \A c \in BagToSet(pending') : GivesSlug(c) => c = d
  BY <1>1 DEF GivesSlug, Brings
<1>4. d \notin BagToSet(pending)
  BY <1>1
<1>5. OneGivesSlug' /\ NewSlugs'
  BY <1>2, <1>3, <1>4 DEF OneGivesSlug, NewSlugs, GivesSlug, Brings, Slugs
<1>6. \A c \in BagToSet(pending') : c.op # "renumber"
  BY <1>1
<1>7. Left = {} /\ Left' = {}
  BY <1>1, <1>6 DEF Left
<1>8. GoingApart
  BY DEF SlugInv
<1>9. GoingApart'
  BY <1>2, <1>7, <1>8 DEF GoingApart, Gets
<1> QED
  BY <1>5, <1>9 DEF SlugInv

LEMMA SlugRequests ==
  ASSUME IInv, SeenInv, SlugInv, [Next]_vars, ~SlugsRaced', Request \/ GetHomePosts
  PROVE  SlugInv'
<1>1. ~SlugsRaced /\ GoingApart /\ OneGivesSlug /\ NewSlugs
  BY NothingRaced DEF SlugInv
<1>2. Now' = Now /\ posts' = posts
  BY NowCalm DEF Calm
<1>3. ASSUME NEW new, Start(new), \A d \in new : ~GivesSlug(d)
      PROVE  SlugInv'
  <2>1. BagToSet(pending') = BagToSet(pending) \cup new
    BY <1>3, StartCalls DEF IInv, CallsOK
  <2>2. \A d \in BagToSet(pending) \ new : pending'[d] = pending[d]
    BY <1>3, StartCounts DEF IInv, CallsOK
  <2> QED
    BY <1>1, <1>2, <1>3, <2>1, <2>2, KeepSlugs
<1>4. CASE \E p \in posts : Reads(p)
  <2>1. PICK p \in posts : Reads(p)
    BY <1>4
  <2>2. PICK c : Begun(p, c) /\ Start({c})
    BY <2>1, Begins
  <2>3. p # None
    BY NoneAssumption DEF IInv, VarsOK
  <2>4. ~GivesSlug(c)
    BY <2>2, <2>3 DEF Begun, GivesSlug, Brings
  <2>5. \A d \in {c} : ~GivesSlug(d)
    BY <2>4
  <2> QED
    BY <1>3, <2>2, <2>5
<1>5. ASSUME NEW id \in Ids, NEW title \in Titles, NEW category \in Categories,
             NEW content \in Contents \cup {None}, Create(id, title, category, content)
      PROVE  SlugInv'
  <2>1. PICK c \in Works : /\ c.op = "insert" /\ c.seen = None /\ c.post.slug \notin Slugs
                           /\ Start({c})
    BY <1>5, Creates
  <2>2. BagToSet(pending') = BagToSet(pending) \cup {c} /\ (c \notin BagToSet(pending) => pending'[c] = 1)
    BY <2>1, StartCalls, StartCounts DEF IInv, CallsOK
  <2>3. SlugRace = {}
    BY <1>5 DEF Create, SlugRace, SlugsRaced
  <2> QED
    BY <1>1, <1>2, <2>1, <2>2, <2>3, SlugChosen
<1>6. CASE UpdateSlugs
  <2>1. PICK c \in Renumberings :
          /\ Start({c})
          /\ \A p \in posts : \E w \in c.left : w[1] = p
          /\ \A w, v \in c.left : w[2].slug = v[2].slug => w = v
    BY <1>6, Renumbers
  <2>2. BagToSet(pending') = BagToSet(pending) \cup {c} /\ (c \notin BagToSet(pending) => pending'[c] = 1)
    BY <2>1, StartCalls, StartCounts DEF IInv, CallsOK
  <2>3. \A d \in BagToSet(pending) : d.op \notin {"replace", "move", "insert", "renumber"}
    BY <1>6 DEF UpdateSlugs, SlugRace, SlugsRaced
  <2>4. c.op = "renumber" /\ c \notin BagToSet(pending)
    BY <2>3 DEF Renumberings
  <2>5. \A d \in BagToSet(pending') : GivesSlug(d) => d = c /\ ~Brings(d)
    BY <2>2, <2>3, <2>4 DEF GivesSlug, Brings
  <2>6. Left' = c.left /\ Now' = posts
    BY <1>2, <2>2, <2>3, <2>4 DEF Left, Now
  <2>7. GoingApart'
    BY <2>1, <2>6 DEF GoingApart, Gets
  <2>8. OneGivesSlug' /\ NewSlugs'
    BY <2>2, <2>4, <2>5 DEF OneGivesSlug, NewSlugs, GivesSlug, Brings
  <2> QED
    BY <2>7, <2>8 DEF SlugInv
<1>7. CASE SyncAlgolia
  <2> DEFINE new == {IndexCall("save", p) : p \in posts}
  <2>1. Start(new)
    BY <1>7 DEF SyncAlgolia
  <2>2. \A d \in new : ~GivesSlug(d)
    BY DEF IndexCall, GivesSlug, Brings
  <2> HIDE DEF new
  <2> QED
    BY <1>3, <2>1, <2>2
<1>8. ASSUME \/ GetHomePosts
             \/ \E slot \in Slots, id \in Ids : UpdateHomePosts(slot, id)
      PROVE  SlugInv'
  <2>1. PICK new : Start(new) /\ \A d \in new : d.op \in {"assign", "page"}
    <3>1. CASE GetHomePosts
      <4>1. PICK new :
              new = {[op |-> "page", names |-> home, shows |-> [s \in Slots |-> Omitted]]}
        OBVIOUS
      <4>2. Start(new) /\ \A d \in new : d.op = "page"
        BY <3>1, <4>1 DEF GetHomePosts
      <4> QED
        BY <4>2
    <3>2. ASSUME NEW slot \in Slots, NEW id \in Ids, UpdateHomePosts(slot, id)
          PROVE  \E new : Start(new) /\ \A d \in new : d.op \in {"assign", "page"}
      <4>1. PICK new : new = {[op |-> "assign", slot |-> slot, id |-> id]}
        OBVIOUS
      <4>2. Start(new) /\ \A d \in new : d.op = "assign"
        BY <3>2, <4>1 DEF UpdateHomePosts
      <4> QED
        BY <4>2
    <3> QED
      BY <1>8, <3>1, <3>2
  <2> QED
    BY <1>3, <2>1 DEF GivesSlug, Brings
<1> QED
  BY <1>4, <1>5, <1>6, <1>7, <1>8 DEF Request, Reads
\* The answers that go on without another slug.
LEMMA QuietGivesNone ==
  ASSUME IInv, SeenInv, [Next]_vars, NEW c \in BagToSet(pending), Quiet(c) \/ Fail(c), ~ChooseSlug(c)
  PROVE  \E new : Continue(c, new) /\ \A d \in new : ~GivesSlug(d)
<1>1. CASE CheckPostReferences(c) \/ Speak(c)
  <2>1. PICK d, u : /\ GoesOn(c, d) /\ u.op \in {"index", "upload"}
                    /\ Continue(c, {d}) \/ Continue(c, {d, u})
                    /\ d.op \in {"replace", "remove"} /\ d.after \in {"delete", "unawaited"}
    <3>1. CASE CheckPostReferences(c)
      <4>1. IndexCall("delete", c.post).op = "index"
        BY DEF IndexCall
      <4> QED
        BY <3>1, <4>1, Checks
    <3>2. CASE Speak(c)
      BY <3>2, Speaking
    <3> QED
      BY <1>1, <3>1, <3>2
  <2>2. c.op \in WorkOps /\ c.op # "insert"
    BY <1>1 DEF CheckPostReferences, Speak, WorkOps
  <2>3. d.seen # None
    BY <2>1, <2>2, HasSeen DEF GoesOn
  <2>4. d.post.slug = d.seen.slug
    BY <2>1, <2>3 DEF GoesOn, Shape, WorkOps
  <2>5. ~GivesSlug(d) /\ ~GivesSlug(u)
    BY <2>1, <2>3, <2>4 DEF GivesSlug, Brings
  <2> QED
    BY <2>1, <2>5
<1>2. CASE ReadPost(c)
  <2>1. PICK s, slug : Continue(c, {[c EXCEPT !.shows[s] = slug]})
    BY <1>2 DEF ReadPost
  <2> DEFINE d == [c EXCEPT !.shows[s] = slug]
  <2>2. d.op = "page"
    BY <1>2, CallKinds DEF ReadPost, Pages, IInv, CallsOK
  <2>3. Continue(c, {d})
    BY <2>1
  <2> HIDE DEF d
  <2> QED
    BY <2>2, <2>3 DEF GivesSlug, Brings
<1>3. CASE Upload(c) \/ SearchIndex(c) \/ FinishSlugs(c) \/ Assign(c) \/ FillCache(c) \/ Fail(c)
  <2>1. Continue(c, {})
    BY <1>3 DEF Upload, SearchIndex, FinishSlugs, Assign, FillCache, Fail
  <2> QED
    BY <2>1
<1> QED
  BY <1>1, <1>2, <1>3 DEF Quiet

\* A call is answered that writes no slug; no post but one that raced is lost.
LEMMA SlugAnswers ==
  ASSUME IInv, OneGivesSlug, NEW c \in BagToSet(pending), NEW new, Continue(c, new),
         \A d \in new : ~GivesSlug(d),
         GoingApart, NewSlugs, Now' \subseteq Now, c.op # "renumber" \/ c.left = {}
  PROVE  SlugInv'
<1>1. /\ BagToSet(pending') \subseteq BagToSet(pending) \cup new
      /\ BagToSet(pending) \ {c} \subseteq BagToSet(pending')
  BY ContinueCalls DEF IInv, CallsOK
<1>2. /\ pending[c] = 1 /\ c \notin new => c \notin BagToSet(pending')
      /\ \A d \in BagToSet(pending) \ (new \cup {c}) : pending'[d] = pending[d]
  BY ContinueCounts DEF IInv, CallsOK
<1>3. ASSUME NEW d \in BagToSet(pending'), GivesSlug(d)
      PROVE  d \in BagToSet(pending) /\ pending'[d] = pending[d]
  <2>1. d \notin new /\ d \in BagToSet(pending)
    BY <1>1, <1>3
  <2>2. d # c
    BY <1>2, <1>3, <2>1 DEF OneGivesSlug
  <2> QED
    BY <1>2, <2>1, <2>2
<1>4. \A d \in BagToSet(pending) : d.op = "renumber" /\ d.left # {} => d \in BagToSet(pending')
  BY <1>1
<1> QED
  BY <1>3, <1>4, KeepSlugs

LEMMA SlugQuiet ==
  ASSUME IInv, SeenInv, SlugInv, [Next]_vars, ~SlugsRaced', NEW c \in BagToSet(pending),
         Quiet(c) \/ Fail(c)
  PROVE  SlugInv'
<1>1. ~SlugsRaced /\ GoingApart /\ OneGivesSlug /\ NewSlugs
  BY NothingRaced DEF SlugInv
<1>2. posts' = posts
  BY AnswersSend
<1>3. CASE ChooseSlug(c)
  <2>1. PICK d : /\ GoesOn(c, d) /\ d.op \in {"replace", "move"}
                 /\ d.post.slug \notin Slugs /\ Continue(c, {d})
    BY <1>3, Chooses
  <2>2. BagToSet(pending') \subseteq BagToSet(pending) \cup {d}
    BY <2>1, ContinueCalls DEF IInv, CallsOK
  <2>3. d \notin BagToSet(pending) => pending'[d] = 1
    BY <2>1, ContinueCounts DEF IInv, CallsOK
  <2>4. SlugRace = {}
    BY <1>3 DEF ChooseSlug, SlugRace, SlugsRaced
  <2>5. d \in Works
    BY <2>1 DEF GoesOn
  <2> QED
    BY <1>1, <1>2, <2>1, <2>2, <2>3, <2>4, <2>5, SlugChosen
<1>4. CASE ~ChooseSlug(c)
  <2>1. PICK new : Continue(c, new) /\ \A d \in new : ~GivesSlug(d)
    BY <1>4, QuietGivesNone
  <2>2. Now' \subseteq Now
    BY NowCalm, NowLost DEF Calm
  <2>3. c.op # "renumber" \/ c.left = {}
    BY DEF Quiet, Fail, ChooseSlug, CheckPostReferences, Speak, Upload, SearchIndex, FinishSlugs,
           Assign, ReadPost, FillCache
  <2> QED
    BY <1>1, <2>1, <2>2, <2>3, SlugAnswers
<1> QED
  BY <1>3, <1>4

LEMMA SlugRemove ==
  ASSUME IInv, SeenInv, SlugInv, [Next]_vars, ~SlugsRaced', NEW c \in BagToSet(pending), Remove(c)
  PROVE  SlugInv'
<1>1. GoingApart /\ OneGivesSlug /\ NewSlugs
  BY NothingRaced DEF SlugInv
<1>2. Now' \subseteq Now
  BY NowRemove
<1>3. c.op # "renumber" /\ Continue(c, {})
  BY DEF Remove
<1> DEFINE new == {}
<1>4. Continue(c, new) /\ \A d \in new : ~GivesSlug(d)
  BY <1>3
<1> HIDE DEF new
<1> QED
  BY <1>1, <1>2, <1>3, <1>4, SlugAnswers

LEMMA SlugMove ==
  ASSUME IInv, SeenInv, SlugInv, [Next]_vars, ~SlugsRaced', NEW c \in BagToSet(pending), Move(c)
  PROVE  SlugInv'
<1>1. GoingApart /\ OneGivesSlug /\ NewSlugs
  BY NothingRaced DEF SlugInv
<1>2. c.op = "move" /\ c \in Works /\ c.op \in WorkOps /\ c.seen # None
  BY HasSeen DEF Move, WorkOps
<1>3. c.seen \in Now
  BY <1>2, NothingRaced
<1>4. Now' \subseteq Now
  BY <1>3, NowMove
<1> DEFINE d == [c EXCEPT !.op = "insert"]
<1>5. d \in Works /\ d.op = "insert" /\ d.seen = c.seen /\ d.post = c.post
  BY <1>2, OpChanged DEF WorkOps
<1>6. Continue(c, {d})
  BY DEF Move
<1> HIDE DEF d
<1>7. CASE ~Brings(c)
  <2>1. ~GivesSlug(d)
    BY <1>2, <1>5, <1>7 DEF Brings, GivesSlug
  <2> DEFINE new == {d}
  <2>2. Continue(c, new) /\ \A e \in new : ~GivesSlug(e)
    BY <1>6, <2>1
  <2> HIDE DEF new
  <2> QED
    BY <1>1, <1>2, <1>4, <2>2, SlugAnswers
<1>8. CASE Brings(c)
  <2>1. /\ \A e \in BagToSet(pending) : GivesSlug(e) => e = c
        /\ pending[c] = 1
    BY <1>1, <1>8 DEF OneGivesSlug, GivesSlug
  <2>2. d # c /\ d \notin BagToSet(pending)
    BY <1>2, <1>5, <1>8, <2>1 DEF Brings, GivesSlug
  <2>3. /\ BagToSet(pending') \subseteq BagToSet(pending) \cup {d}
        /\ c \notin BagToSet(pending') /\ pending'[d] = 1
    BY <1>6, <2>1, <2>2, ContinueCalls, ContinueCounts DEF IInv, CallsOK
  <2>4. \A e \in BagToSet(pending') : GivesSlug(e) => e = d
    BY <2>1, <2>3
  <2>5. OneGivesSlug' /\ NewSlugs'
    BY <1>1, <1>4, <1>5, <1>8, <2>3, <2>4 DEF OneGivesSlug, NewSlugs, GivesSlug
  <2>6. Left = {} /\ Left' = {}
    <3>1. \A e \in BagToSet(pending) : e.op # "renumber"
      BY <1>2, <2>1 DEF GivesSlug
    <3>2. \A e \in BagToSet(pending') : e.op # "renumber"
      BY <1>5, <2>3, <3>1
    <3> QED
      BY <3>1, <3>2 DEF Left
  <2>7. GoingApart'
    BY <1>1, <1>4, <2>6 DEF GoingApart, Gets
  <2> QED
    BY <2>5, <2>7 DEF SlugInv
<1> QED
  BY <1>7, <1>8
\* A post is written by the one work on it.
LEMMA SlugWrite ==
  ASSUME IInv, SeenInv, SlugInv, [Next]_vars, ~SlugsRaced', NEW c \in BagToSet(pending),
         Replace(c) \/ Insert(c)
  PROVE  SlugInv'
<1>1. GoingApart /\ OneGivesSlug /\ NewSlugs
  BY NothingRaced DEF SlugInv
<1>2. /\ c.op \in {"replace", "insert"} /\ c.op \in WorkOps /\ c \in Works
      /\ c.post.id \in Ids /\ Continue(c, Follow(c))
  BY CallKinds DEF Replace, Insert, AfterWrite, WorkOps, IInv, CallsOK
<1>3. c.seen # None => c.seen \in Now /\ c.seen.id = c.post.id
  BY <1>2, NothingRaced
<1>4. /\ c.post \in Now'
      /\ \A p \in Now' : p = c.post \/ (p \in Now /\ p.id # c.post.id)
  BY NowWrite
<1>5. \A d \in Follow(c) : d.op = "index" /\ ~GivesSlug(d)
  BY <1>2, FollowCall DEF GivesSlug, Brings
<1>6. /\ BagToSet(pending') \subseteq BagToSet(pending) \cup Follow(c)
      /\ BagToSet(pending) \ {c} \subseteq BagToSet(pending')
  BY <1>2, ContinueCalls DEF IInv, CallsOK
<1>7. /\ pending[c] = 1 => c \notin BagToSet(pending')
      /\ \A d \in BagToSet(pending) : d.op # "index" /\ d # c => pending'[d] = pending[d]
  BY <1>2, <1>5, ContinueCounts DEF IInv, CallsOK
<1>8. \A d \in BagToSet(pending') : GivesSlug(d) =>
        d \in BagToSet(pending) /\ d # c /\ pending'[d] = pending[d]
  <2> SUFFICES ASSUME NEW d \in BagToSet(pending'), GivesSlug(d)
               PROVE  d \in BagToSet(pending) /\ d # c /\ pending'[d] = pending[d]
    OBVIOUS
  <2>1. d \in BagToSet(pending) /\ d.op # "index"
    BY <1>5, <1>6 DEF GivesSlug, Brings
  <2>2. d # c
    BY <1>1, <1>7, <2>1 DEF OneGivesSlug
  <2> QED
    BY <1>7, <2>1, <2>2
<1>9. OneGivesSlug'
  BY <1>1, <1>8 DEF OneGivesSlug, GivesSlug, Brings
<1>10. Left' = Left
  BY <1>2, <1>5, <1>6 DEF Left
<1>11. CASE Brings(c)
  <2>1. \A d \in BagToSet(pending') : ~GivesSlug(d)
    BY <1>1, <1>8, <1>11 DEF OneGivesSlug, GivesSlug
  <2>2. NewSlugs'
    BY <2>1 DEF NewSlugs, GivesSlug
  <2>3. Left' = {}
    BY <2>1 DEF Left, GivesSlug
  <2>4. \A p, q \in Now' : p.slug = q.slug => p = q
    BY <1>1, <1>4, <1>10, <1>11, <2>3 DEF NewSlugs, GoingApart, Gets
  <2>5. GoingApart'
    BY <2>3, <2>4 DEF GoingApart, Gets
  <2> QED
    BY <1>9, <2>2, <2>5 DEF SlugInv
<1>12. CASE ~Brings(c)
  <2>1. c.seen # None /\ c.post.slug = c.seen.slug
    BY <1>2, <1>12 DEF Brings
  <2>2. NewSlugs'
    BY <1>1, <1>3, <1>4, <1>8, <2>1 DEF NewSlugs, GivesSlug, Brings
  <2>3. \A w \in Left : w[1].id # c.post.id
    <3> SUFFICES ASSUME NEW d \in BagToSet(pending), d.op = "renumber", NEW w \in d.left,
                        w[1].id = c.post.id
                 PROVE  FALSE
      BY DEF Left
    <3>0. d # c /\ d \in Call /\ IsABag(pending)
      BY <1>2 DEF IInv, CallsOK
    <3>1. d \in Others(c) /\ d \in Call
      BY <3>0, OthersAre DEF Others
    <3>2. c.post.id \in About(d)
      BY <3>1, AboutCalls
    <3>3. Overlap(c, c.post.id, WorkOps \cup {"renumber"}) = {c.post.id}
      BY <3>1, <3>2 DEF Overlap
    <3>4. CASE Replace(c) \/ c.seen # None
      <4>1. c.post.id \in raced'
        BY <3>3 DEF Replace, Insert, AfterWrite
      <4> QED
        BY <1>2, <4>1 DEF SlugsRaced
    <3> QED
      BY <2>1, <3>4
  <2>4. Gets(c.seen) = {c.post.slug} /\ Gets(c.post)' = {c.post.slug}
    BY <1>3, <1>10, <2>1, <2>3 DEF Gets
  <2>5. \A p \in Now' : p = c.post \/ (p \in Now /\ p # c.seen /\ Gets(p)' = Gets(p))
    BY <1>3, <1>4, <1>10, <2>1 DEF Gets
  <2>6. GoingApart'
    <3> SUFFICES ASSUME NEW p \in Now', NEW q \in Now', Gets(p)' \cap Gets(q)' # {}
                 PROVE  p = q
      BY DEF GoingApart
    <3>1. CASE p = c.post /\ q # c.post
      BY <1>1, <1>3, <2>1, <2>4, <2>5, <3>1 DEF GoingApart
    <3>2. CASE q = c.post /\ p # c.post
      BY <1>1, <1>3, <2>1, <2>4, <2>5, <3>2 DEF GoingApart
    <3>3. CASE p # c.post /\ q # c.post
      BY <1>1, <2>5, <3>3 DEF GoingApart
    <3> QED
      BY <3>1, <3>2, <3>3
  <2> QED
    BY <1>9, <2>2, <2>6 DEF SlugInv
<1> QED
  BY <1>11, <1>12

\* updateSlugs writes the next post.
LEMMA SlugRenumber ==
  ASSUME IInv, SeenInv, SlugInv, [Next]_vars, ~SlugsRaced', NEW c \in BagToSet(pending), Renumber(c)
  PROVE  SlugInv'
<1>1. GoingApart /\ OneGivesSlug /\ c.op = "renumber"
  BY NothingRaced DEF SlugInv, Renumber
<1>2. PICK d, w :
        /\ c \in Renumberings /\ d \in Renumberings /\ w \in c.left
        /\ w[1] \in Post /\ w[2] \in Post /\ w[2].id = w[1].id
        /\ d.left = c.left \ {w} /\ Continue(c, {d})
        /\ posts' = (posts \ Stored(w[2])) \cup (IF Stored(w[2]) # {} THEN {w[2]} ELSE {})
        /\ raced' = raced \cup Overlap(c, w[1].id, WorkOps \cup {"renumber"})
                         \cup (IF Stored(w[2]) = {} THEN {"slugs"} ELSE {})
  BY Renumbered
<1>3. d.op = "renumber" /\ d # c
  BY <1>2 DEF Renumberings
<1>4. /\ \A e \in BagToSet(pending) : GivesSlug(e) => e = c
      /\ pending[c] = 1
  BY <1>1 DEF OneGivesSlug, GivesSlug
<1>5. d \notin BagToSet(pending)
  BY <1>3, <1>4 DEF GivesSlug
<1>6. /\ BagToSet(pending') \subseteq BagToSet(pending) \cup {d}
      /\ c \notin BagToSet(pending') /\ d \in BagToSet(pending') /\ pending'[d] = 1
  BY <1>2, <1>3, <1>4, <1>5, ContinueCalls, ContinueCounts DEF IInv, CallsOK
<1>7. \A e \in BagToSet(pending') : GivesSlug(e) => e = d
  BY <1>4, <1>6
<1>8. OneGivesSlug' /\ NewSlugs'
  BY <1>3, <1>6, <1>7 DEF OneGivesSlug, NewSlugs, GivesSlug, Brings
<1>9. Left = c.left /\ Left' = d.left
  <2>1. \A e \in BagToSet(pending) : e.op = "renumber" => e = c
    BY <1>4 DEF GivesSlug
  <2>2. \A e \in BagToSet(pending') : e.op = "renumber" => e = d
    BY <1>7 DEF GivesSlug
  <2> QED
    BY <1>1, <1>3, <1>6, <2>1, <2>2 DEF Left
<1>10. \A v \in c.left : v[1] \in Now /\ (v[1].id = w[1].id => v = w)
  BY <1>1, <1>2, NothingRaced, NowPosts DEF SeenInv, Shape
<1>11. Stored(w[2]) # {}
  BY <1>2 DEF SlugsRaced
<1>12. \A p \in Now' : p = w[2] \/ (p \in Now /\ p.id # w[2].id)
  <2> DEFINE q == w[2]
  <2>1. /\ q \in Post /\ Stored(q) # {}
        /\ posts' = (posts \ Stored(q)) \cup (IF Stored(q) # {} THEN {q} ELSE {})
    BY <1>2, <1>11
  <2> HIDE DEF q
  <2>2. /\ \A p \in Now' : p = q \/ p \in Now
        /\ \A p \in Now' : p.id = q.id => p = q
    BY <1>1, <1>2, <1>3, <2>1, NowRenumber
  <2> QED
    BY <2>2 DEF q
<1>13. Gets(w[2])' = {w[2].slug} /\ w[2].slug \in Gets(w[1])
  BY <1>2, <1>9, <1>10 DEF Gets
<1>14. \A p \in Now : p.id # w[1].id => Gets(p)' = Gets(p)
  BY <1>2, <1>9 DEF Gets
<1>15. GoingApart'
  <2> SUFFICES ASSUME NEW p \in Now', NEW q \in Now', Gets(p)' \cap Gets(q)' # {}
               PROVE  p = q
    BY DEF GoingApart
  <2>1. w[1] \in Now
    BY <1>2, <1>10
  <2>2. CASE p = w[2] /\ q # w[2]
    BY <1>1, <1>2, <1>12, <1>13, <1>14, <2>1, <2>2 DEF GoingApart
  <2>3. CASE q = w[2] /\ p # w[2]
    BY <1>1, <1>2, <1>12, <1>13, <1>14, <2>1, <2>3 DEF GoingApart
  <2>4. CASE p # w[2] /\ q # w[2]
    BY <1>1, <1>2, <1>12, <1>14, <2>4 DEF GoingApart
  <2> QED
    BY <2>2, <2>3, <2>4
<1> QED
  BY <1>8, <1>15 DEF SlugInv

LEMMA SlugInductive == IInv /\ SeenInv /\ SlugInv /\ [Next]_vars => SlugInv'
<1> SUFFICES ASSUME IInv, SeenInv, SlugInv, [Next]_vars, ~SlugsRaced'
             PROVE  SlugInv'
  BY DEF SlugInv
<1>1. CASE Expire \/ UNCHANGED vars
  <2>1. GoingApart /\ OneGivesSlug /\ NewSlugs
    BY NothingRaced DEF SlugInv
  <2>2. pending' = pending /\ Now' = Now
    BY <1>1, NowCalm DEF Expire, vars, Calm
  <2> QED
    BY <2>1, <2>2, KeepSlugs DEF GivesSlug
<1>2. CASE Restart
  <2>1. GoingApart /\ OneGivesSlug /\ NewSlugs
    BY NothingRaced DEF SlugInv
  <2>2. Now' \subseteq Now
    BY <1>2, NowLost
  <2>3. BagToSet(pending') = {}
    BY <1>2, NoCalls DEF Restart
  <2>4. \A c \in BagToSet(pending) : c.op # "renumber"
    BY <1>2 DEF Restart, Lost, SlugsRaced
  <2> QED
    BY <2>1, <2>2, <2>3, <2>4, KeepSlugs
<1> QED
  BY <1>1, <1>2, SlugRequests, SlugQuiet, SlugRemove, SlugMove, SlugWrite, SlugRenumber
     DEF Next, Answer, Quiet

LEMMA SlugAlways == Spec => []SlugInv
<1>1. Init => SlugInv
  BY NoCalls DEF Init, SlugInv, GoingApart, OneGivesSlug, NewSlugs, Now
<1>2. SlugInv /\ IInv /\ SeenInv /\ [Next]_vars => SlugInv'
  BY SlugInductive
<1> QED
  BY <1>1, <1>2, NamedAlways, PTL DEF Spec

\* Two posts have the same slug only if a slug was chosen while another was
\* about to be written, or updateSlugs is halfway, or calls on a post raced
\* (generateUniqueSlug in create, update, updatePostRequest and updateSlugs).
THEOREM SlugsAreApart == Spec => []SlugsUnlessRaced
<1>1. SlugInv /\ IInv => SlugsUnlessRaced
  <2> SUFFICES ASSUME SlugInv, IInv, ~SlugsRaced,
                      \A c \in BagToSet(pending) : c.op # "renumber",
                      NEW p \in posts, NEW q \in posts, p.slug = q.slug
               PROVE  p = q
    BY DEF SlugsUnlessRaced, SlugsRaced
  <2>1. Gets(p) = {p.slug} /\ Gets(q) = {q.slug}
    BY NothingLeft
  <2> QED
    BY <2>1, NowPosts DEF SlugInv, GoingApart
<1> QED
  BY <1>1, SlugAlways, NamedAlways, PTL
-----------------------------------------------------------------------------
(* What callers were told.                                                 *)

\* The calls on a post that what callers were told depends on: those to the
\* index, the uploads of its audio, the replaces nobody waits for, its removal
\* and its creation.
IndexCallsOf(id) == {c \in IndexCalls : c.id = id}

UploadsOf(id) == {c \in Uploads : c.id = id}

WritesOf(id) == {c \in Works : c.op = "replace" /\ c.after = "unawaited" /\ c.post.id = id}

RemovesOf(id) == {c \in Works : c.op = "remove" /\ c.post.id = id}

CreatesOf(id) == {c \in Works : c.op = "insert" /\ c.seen = None /\ c.post.id = id}

Under(kind) == BagToSet(pending) \cap kind

Only(c, kind) == Under(kind) = {c} /\ pending[c] = 1

\* The likes.
LikesTold(id) ==
  /\ Under(WritesOf(id)) = {} => \A p \in Now : p.id = id => p.likes + downs[id] = ups[id]
  /\ \A c \in WritesOf(id) : Only(c, WritesOf(id)) => c.post.likes + downs[id] = ups[id]
  /\ Under(CreatesOf(id)) # {} => ups[id] = 0 /\ downs[id] = 0

\* The record in the index, or the call that is going to make it, is right.
IndexTold(id) ==
  LET calls == Under(IndexCallsOf(id))
      going == Under(RemovesOf(id)) # {}
  IN
  /\ \A e \in calls : Only(e, IndexCallsOf(id))
  /\ ~going => \A p \in Now : p.id = id /\ p.active = TRUE /\ id \notin edited =>
       /\ calls = {} => index[id] = p.slug
       /\ \A e \in calls :
            /\ e.kind # "delete" /\ e.slug = p.slug
            /\ e.kind = "update" => index[id] # None
  /\ going \/ id \in removed =>
       /\ calls = {} => index[id] = None
       /\ \A e \in calls : e.kind = "delete"

\* The audio of a post speaks its content, or is going to.
Speaks(id, post) ==
  LET calls == Under(UploadsOf(id)) IN
  post.audio = TRUE /\ post.content # None /\ id \notin edited =>
    /\ calls = {} => blob[id] = post.content
    /\ \A u \in calls : u.content = post.content

AudioTold(id) ==
  /\ \A u \in Under(UploadsOf(id)) : Only(u, UploadsOf(id))
  /\ \A p \in Now : p.id = id => Speaks(id, p)
  /\ \A c \in Under(WritesOf(id)) : Speaks(id, c.post)

NothingTold == \A id \in Ids \ issued : ups[id] = 0 /\ downs[id] = 0

Told(id) == LikesTold(id) /\ IndexTold(id) /\ AudioTold(id)

ToldInv == NothingTold /\ \A id \in Ids \ raced : Told(id)

\* The calls of a kind are the same before and after a step.
Kept(kind) ==
  /\ BagToSet(pending') \cap kind = BagToSet(pending) \cap kind
  /\ \A c \in BagToSet(pending) \cap kind : pending'[c] = pending[c]

LEMMA StartKeeps ==
  ASSUME IInv, NEW new, Start(new), NEW kind, new \cap kind = {}
  PROVE  Kept(kind)
<1>1. BagToSet(pending') = BagToSet(pending) \cup new
  BY StartCalls DEF IInv, CallsOK
<1>2. \A c \in BagToSet(pending) \ new : pending'[c] = pending[c]
  BY StartCounts DEF IInv, CallsOK
<1> QED
  BY <1>1, <1>2 DEF Kept

LEMMA ContinueKeeps ==
  ASSUME IInv, NEW c \in BagToSet(pending), NEW new, Continue(c, new), NEW kind,
         c \notin kind, new \cap kind = {}
  PROVE  Kept(kind)
<1>1. /\ BagToSet(pending') \subseteq BagToSet(pending) \cup new
      /\ BagToSet(pending) \ {c} \subseteq BagToSet(pending')
  BY ContinueCalls DEF IInv, CallsOK
<1>2. \A d \in BagToSet(pending) \ (new \cup {c}) : pending'[d] = pending[d]
  BY ContinueCounts DEF IInv, CallsOK
<1> QED
  BY <1>1, <1>2 DEF Kept

\* A post that was there had the same likes.
LEMMA LikesStay ==
  ASSUME NEW id, LikesTold(id), Kept(WritesOf(id)), Kept(CreatesOf(id)),
         ups'[id] = ups[id], downs'[id] = downs[id],
         \A p \in Now' : p.id = id => \E q \in Now : q.id = id /\ q.likes = p.likes
  PROVE  LikesTold(id)'
<1>1. Under(WritesOf(id))' = Under(WritesOf(id)) /\ Under(CreatesOf(id))' = Under(CreatesOf(id))
  BY DEF Kept, Under
<1>2. \A c \in WritesOf(id) : Only(c, WritesOf(id))' => Only(c, WritesOf(id))
  BY DEF Kept, Under, Only
<1> QED
  BY <1>1, <1>2 DEF LikesTold

\* It had the same slug.
LEMMA IndexStays ==
  ASSUME NEW id, IndexTold(id), Kept(IndexCallsOf(id)), Kept(RemovesOf(id)),
         index'[id] = index[id], id \in removed' => id \in removed, edited \subseteq edited',
         \A p \in Now' : p.id = id /\ p.active = TRUE /\ id \notin edited' =>
           \E q \in Now : q.id = id /\ q.active = TRUE /\ q.slug = p.slug
  PROVE  IndexTold(id)'
<1>1. /\ Under(IndexCallsOf(id))' = Under(IndexCallsOf(id))
      /\ Under(RemovesOf(id))' = Under(RemovesOf(id))
  BY DEF Kept, Under
<1>2. \A c \in Under(IndexCallsOf(id)) : Only(c, IndexCallsOf(id)) => Only(c, IndexCallsOf(id))'
  BY DEF Kept, Under, Only
<1> QED
  BY <1>1, <1>2 DEF IndexTold

\* The post, or one about to be written, had the same audio of the same content.
HadAudio(id, post) ==
  post.audio = TRUE /\ post.content # None /\ id \notin edited' =>
    \/ \E q \in Now : q.id = id /\ q.audio = TRUE /\ q.content = post.content
    \/ \E c \in Under(WritesOf(id)) : c.post.audio = TRUE /\ c.post.content = post.content

LEMMA AudioStays ==
  ASSUME NEW id, AudioTold(id), Kept(UploadsOf(id)), blob'[id] = blob[id],
         edited \subseteq edited',
         \A p \in Now' : p.id = id => HadAudio(id, p),
         \A c \in BagToSet(pending') \cap WritesOf(id) :
           c \in BagToSet(pending) \/ HadAudio(id, c.post)
  PROVE  AudioTold(id)'
<1>1. Under(UploadsOf(id))' = Under(UploadsOf(id))
  BY DEF Kept, Under
<1>2. \A c \in Under(UploadsOf(id)) : Only(c, UploadsOf(id)) => Only(c, UploadsOf(id))'
  BY DEF Kept, Under, Only
<1>3. ASSUME NEW post, HadAudio(id, post)
      PROVE  Speaks(id, post)'
  <2> SUFFICES ASSUME post.audio = TRUE, post.content # None, id \notin edited'
               PROVE  /\ Under(UploadsOf(id)) = {} => blob[id] = post.content
                      /\ \A u \in Under(UploadsOf(id)) : u.content = post.content
    BY <1>1 DEF Speaks
  <2>1. CASE \E q \in Now : q.id = id /\ q.audio = TRUE /\ q.content = post.content
    BY <2>1 DEF AudioTold, Speaks
  <2>2. CASE \E c \in Under(WritesOf(id)) : c.post.audio = TRUE /\ c.post.content = post.content
    BY <2>2 DEF AudioTold, Speaks
  <2> QED
    BY <1>3, <2>1, <2>2 DEF HadAudio
<1>4. \A c \in Under(WritesOf(id))' : c \in BagToSet(pending) => HadAudio(id, c.post)
  BY DEF HadAudio, Under
<1> QED
  BY <1>1, <1>2, <1>3, <1>4 DEF AudioTold, Under
\* A call what is told of a post depends on.
Tells(c, id) ==
  \/ c \in IndexCallsOf(id) \/ c \in UploadsOf(id) \/ c \in WritesOf(id)
  \/ c \in RemovesOf(id) \/ c \in CreatesOf(id)

AllKept(id) ==
  /\ Kept(IndexCallsOf(id)) /\ Kept(UploadsOf(id)) /\ Kept(WritesOf(id))
  /\ Kept(RemovesOf(id)) /\ Kept(CreatesOf(id))

LEMMA TellsOps ==
  ASSUME NEW c, NEW id
  PROVE  /\ c \in IndexCallsOf(id) => c.op = "index" /\ c.id = id
         /\ c \in UploadsOf(id) => c.op = "upload" /\ c.id = id
         /\ c \in WritesOf(id) => c.op = "replace" /\ c.after = "unawaited" /\ c.post.id = id
         /\ c \in RemovesOf(id) => c.op = "remove" /\ c.post.id = id
         /\ c \in CreatesOf(id) => c.op = "insert" /\ c.seen = None /\ c.post.id = id
BY DEF IndexCallsOf, UploadsOf, WritesOf, RemovesOf, CreatesOf, IndexCalls, Uploads

LEMMA StartKeepsAll ==
  ASSUME IInv, NEW new, Start(new), NEW id, \A d \in new : ~Tells(d, id)
  PROVE  AllKept(id)
<1>1. /\ new \cap IndexCallsOf(id) = {} /\ new \cap UploadsOf(id) = {}
      /\ new \cap WritesOf(id) = {} /\ new \cap RemovesOf(id) = {} /\ new \cap CreatesOf(id) = {}
  BY DEF Tells
<1> QED
  BY <1>1, StartKeeps DEF AllKept

LEMMA ContinueKeepsAll ==
  ASSUME IInv, NEW c \in BagToSet(pending), NEW new, Continue(c, new), NEW id,
         ~Tells(c, id), \A d \in new : ~Tells(d, id)
  PROVE  AllKept(id)
<1>1. /\ new \cap IndexCallsOf(id) = {} /\ new \cap UploadsOf(id) = {}
      /\ new \cap WritesOf(id) = {} /\ new \cap RemovesOf(id) = {} /\ new \cap CreatesOf(id) = {}
  BY DEF Tells
<1> QED
  BY <1>1, ContinueKeeps DEF AllKept, Tells

\* A step that is not about the post, or that callers are told nothing of.
LEMMA ToldStays ==
  ASSUME NEW id, Told(id), AllKept(id),
         index'[id] = index[id], blob'[id] = blob[id], ups'[id] = ups[id], downs'[id] = downs[id],
         id \in removed' => id \in removed, edited \subseteq edited',
         \A p \in Now' : p.id = id => p \in Now
  PROVE  Told(id)'
<1>1. LikesTold(id)'
  BY LikesStay DEF Told, AllKept
<1>2. IndexTold(id)'
  BY IndexStays DEF Told, AllKept
<1>3. AudioTold(id)'
  BY AudioStays DEF Told, AllKept, HadAudio, Kept
<1> QED
  BY <1>1, <1>2, <1>3 DEF Told

\* A like, or one that is taken back.
LEMMA ToldLike ==
  ASSUME IInv, SeenInv, [Next]_vars, NEW p \in posts, NEW c \in Works,
         Begun(p, c), Counted(p, c), Start({c}),
         Told(p.id), c \in WritesOf(p.id), Now' = Now,
         UNCHANGED <<posts, index, blob, removed, edited>>
  PROVE  Told(p.id)'
<1> DEFINE id == p.id
<1>1. /\ c.op = "replace" /\ c.after = "unawaited" /\ c.seen = p /\ c.post \in Post
      /\ c.post.audio = p.audio /\ c.post.content = p.content /\ p # None /\ p \in Post /\ p \in Now
  BY NoneAssumption, TellsOps, NowPosts DEF Begun, Shape, WorkOps, Works, IInv, VarsOK
<1>2. {c} \cap IndexCallsOf(id) = {} /\ {c} \cap UploadsOf(id) = {}
      /\ {c} \cap RemovesOf(id) = {} /\ {c} \cap CreatesOf(id) = {}
  BY <1>1, TellsOps
<1>3. Kept(IndexCallsOf(id)) /\ Kept(UploadsOf(id)) /\ Kept(RemovesOf(id)) /\ Kept(CreatesOf(id))
  BY <1>2, StartKeeps
<1>4. BagToSet(pending') = BagToSet(pending) \cup {c}
  BY StartCalls DEF IInv, CallsOK
<1>5. c \in BagToSet(pending) => pending'[c] > 1
  BY SentTwice DEF IInv, CallsOK
<1>6. IndexTold(id)'
  BY <1>3, IndexStays DEF Told
<1>7. AudioTold(id)'
  BY <1>1, <1>3, <1>4, AudioStays DEF Told, HadAudio
<1>8. LikesTold(id)'
  <2>1. Under(WritesOf(id))' = Under(WritesOf(id)) \cup {c}
    BY <1>4 DEF Under
  <2>2. ASSUME NEW d \in WritesOf(id), Only(d, WritesOf(id))'
        PROVE  d.post.likes + downs'[id] = ups'[id]
    <3>1. d = c /\ c \notin BagToSet(pending)
      BY <1>5, <2>1, <2>2 DEF Only
    <3>2. Under(WritesOf(id)) = {}
      BY <2>1, <2>2, <3>1 DEF Only, Under
    <3>3. p.likes + downs[id] = ups[id]
      BY <1>1, <3>2 DEF Told, LikesTold
    <3>4. c.post.likes + downs'[id] + ups[id] = p.likes + downs[id] + ups'[id]
      BY DEF Counted
    <3>5. /\ p.id \in Ids /\ p.likes \in Int /\ c.post.likes \in Int
          /\ ups[id] \in Nat /\ downs[id] \in Nat
      BY <1>1 DEF Post, IInv, VarsOK
    <3>6. ups'[id] \in Nat /\ downs'[id] \in Nat
      BY <3>5, Inductive DEF IInv, VarsOK
    <3> QED
      BY <3>1, <3>3, <3>4, <3>5, <3>6
  <2>3. Under(CreatesOf(id))' = {}
    <3>1. Under(CreatesOf(id)) = {}
      BY <1>1, TellsOps DEF Under, IInv, Carries
    <3> QED
      BY <1>3, <3>1 DEF Kept, Under
  <2> QED
    BY <2>1, <2>2, <2>3 DEF LikesTold
<1> QED
  BY <1>6, <1>7, <1>8 DEF Told
\* The index is told of every post there is; it was told of none that nothing
\* else is under way about.
LEMMA ToldSync ==
  ASSUME IInv, SeenInv, [Next]_vars, SyncAlgolia, NEW id \in Ids \ raced', Told(id)
  PROVE  Told(id)'
<1> DEFINE new == {IndexCall("save", p) : p \in posts}
<1>1. /\ Start(new) /\ ups' = ups /\ downs' = downs
      /\ UNCHANGED <<index, blob, posts, removed, edited>>
  BY DEF SyncAlgolia, told
<1>2. \A d \in new : \E p \in posts : d.op = "index" /\ d.kind = "save" /\ d.id = p.id /\ d.slug = p.slug
  BY DEF IndexCall
<1>3. \A p \in posts : p.id = id => \A c \in BagToSet(pending) : id \notin About(c)
  BY DEF SyncAlgolia
<1>4. Now' = Now
  BY NowCalm DEF Calm, Request
<1> HIDE DEF new
<1>5. CASE \A p \in posts : p.id # id
  <2>1. \A d \in new : ~Tells(d, id)
    BY <1>2, <1>5, TellsOps DEF Tells
  <2> QED
    BY <1>1, <1>4, <2>1, StartKeepsAll, ToldStays
<1>6. ASSUME NEW p \in posts, p.id = id
      PROVE  Told(id)'
  <2>1. \A c \in BagToSet(pending) :
          /\ c.op \in {"index", "upload"} => c.id # id
          /\ c.op \in WorkOps => c.post.id # id
    BY <1>3, <1>6, AboutCalls DEF IInv, CallsOK
  <2>2. /\ Under(IndexCallsOf(id)) = {} /\ Under(RemovesOf(id)) = {} /\ id \notin removed
    BY <1>6, <2>1, TellsOps DEF Under, WorkOps, IInv, PostsInv, RemovedForGood
  <2>3. /\ new \cap UploadsOf(id) = {} /\ new \cap WritesOf(id) = {}
        /\ new \cap RemovesOf(id) = {} /\ new \cap CreatesOf(id) = {}
    BY <1>2, TellsOps
  <2>4. /\ Kept(UploadsOf(id)) /\ Kept(WritesOf(id)) /\ Kept(RemovesOf(id)) /\ Kept(CreatesOf(id))
    BY <1>1, <2>3, StartKeeps
  <2>5. LikesTold(id)' /\ AudioTold(id)'
    BY <1>1, <1>4, <2>4, LikesStay, AudioStays DEF Told, HadAudio, Kept
  <2>6. \A q \in Now : q.id = id => q = p
    BY <1>6, NowUnique, NowPosts DEF OneOfEach
  <2>7. ASSUME NEW e \in Under(IndexCallsOf(id))'
        PROVE  e.kind = "save" /\ e.slug = p.slug /\ e \in new /\ pending'[e] = 1
    <3>1. e \in new /\ e \notin BagToSet(pending)
      BY <1>1, <2>2, <2>7, StartCalls DEF Under, IInv, CallsOK
    <3>2. pending'[e] = 1
      BY <1>1, <3>1, StartCounts DEF IInv, CallsOK
    <3>3. e.kind = "save" /\ e.slug = p.slug
      BY <1>2, <1>6, <2>7, <3>1, TellsOps DEF Under, IInv, PostsInv, OneCopy
    <3> QED
      BY <3>1, <3>2, <3>3
  <2>8. \A e, f \in Under(IndexCallsOf(id))' : e = f
    <3> SUFFICES ASSUME NEW e \in Under(IndexCallsOf(id))', NEW f \in Under(IndexCallsOf(id))'
                 PROVE  e = f
      OBVIOUS
    <3>1. e \in IndexCalls /\ f \in IndexCalls /\ e.id = id /\ f.id = id
      BY DEF Under, IndexCallsOf
    <3> QED
      BY <2>7, <3>1 DEF IndexCalls
  <2>9. Under(IndexCallsOf(id))' # {}
    <3>1. IndexCall("save", p) \in new /\ IndexCall("save", p) \in IndexCallsOf(id)
      BY <1>6 DEF new, IndexCall, IndexCallsOf, IndexCalls, IInv, VarsOK, Post
    <3> QED
      BY <1>1, <3>1, StartCalls DEF Under, IInv, CallsOK
  <2>10. IndexTold(id)'
    <3>1. Under(RemovesOf(id))' = {} /\ id \notin removed'
      BY <1>1, <2>2, <2>4 DEF Kept, Under
    <3>2. \A e \in Under(IndexCallsOf(id))' : Only(e, IndexCallsOf(id))'
      BY <2>7, <2>8 DEF Only
    <3> QED
      BY <1>4, <2>6, <2>7, <2>9, <3>1, <3>2 DEF IndexTold
  <2> QED
    BY <2>5, <2>10 DEF Told
<1> QED
  BY <1>5, <1>6

\* A post that is created has no likes yet.
LEMMA ToldCreate ==
  ASSUME IInv, SeenInv, [Next]_vars, NEW id \in Ids, Told(id), NothingTold, NEW c \in Works,
         c.op = "insert", c.post.id \notin issued, Start({c}), Now' = Now,
         UNCHANGED <<index, blob, removed, edited, ups, downs>>
  PROVE  Told(id)'
<1>1. /\ {c} \cap IndexCallsOf(id) = {} /\ {c} \cap UploadsOf(id) = {}
      /\ {c} \cap WritesOf(id) = {} /\ {c} \cap RemovesOf(id) = {}
  BY TellsOps
<1>2. Kept(IndexCallsOf(id)) /\ Kept(UploadsOf(id)) /\ Kept(WritesOf(id)) /\ Kept(RemovesOf(id))
  BY <1>1, StartKeeps
<1>3. IndexTold(id)' /\ AudioTold(id)'
  BY <1>2, IndexStays, AudioStays DEF Told, HadAudio, Kept
<1>4. LikesTold(id)'
  <2>1. /\ Under(WritesOf(id))' = Under(WritesOf(id))
        /\ \A d \in WritesOf(id) : Only(d, WritesOf(id))' => Only(d, WritesOf(id))
    BY <1>2 DEF Kept, Under, Only
  <2>2. Under(CreatesOf(id))' \subseteq Under(CreatesOf(id)) \cup {c}
    BY StartCalls DEF Under, IInv, CallsOK
  <2>3. c \in CreatesOf(id) => ups[id] = 0 /\ downs[id] = 0
    BY TellsOps DEF NothingTold
  <2> QED
    BY <2>1, <2>2, <2>3 DEF LikesTold, Told, Under
<1> QED
  BY <1>3, <1>4 DEF Told

LEMMA ToldRequests ==
  ASSUME IInv, SeenInv, [Next]_vars, Request \/ GetHomePosts, NEW id \in Ids \ raced',
         Told(id), NothingTold
  PROVE  Told(id)'
<1>1. UNCHANGED <<posts, index, blob, home, cache, removed, edited>> /\ Now' = Now
  BY RequestsWriteNothing, NowCalm DEF Calm
<1>2. CASE \E p \in posts : Reads(p)
  <2>1. PICK p \in posts : Reads(p)
    BY <1>2
  <2>2. PICK c : Begun(p, c) /\ Counted(p, c) /\ Start({c})
    BY <2>1, Begins
  <2>3. c \in Works /\ c.seen = p /\ c.post.id = p.id
    BY <2>2, NoneAssumption DEF Begun, Shape, IInv, VarsOK, Works
  <2>4. CASE c \in WritesOf(id)
    BY <1>1, <2>2, <2>3, <2>4, TellsOps, ToldLike
  <2>5. CASE c \notin WritesOf(id)
    <3>1. ~Tells(c, id)
      BY <2>2, <2>5, TellsOps DEF Tells, Begun
    <3>2. \A d \in {c} : ~Tells(d, id)
      BY <3>1
    <3>3. ups'[id] = ups[id] /\ downs'[id] = downs[id]
      <4>1. CASE id # p.id
        BY <2>2, <4>1 DEF Counted
      <4>2. CASE id = p.id
        BY <2>2, <2>3, <2>5, <4>2 DEF Counted, WritesOf
      <4> QED
        BY <4>1, <4>2
    <3>4. AllKept(id)
      BY <2>2, <3>2, StartKeepsAll
    <3> QED
      BY <1>1, <3>3, <3>4, ToldStays
  <2> QED
    BY <2>4, <2>5
<1>3. ASSUME NEW i \in Ids, NEW title \in Titles, NEW category \in Categories,
             NEW content \in Contents \cup {None}, Create(i, title, category, content)
      PROVE  Told(id)'
  <2>1. PICK c \in Works : c.op = "insert" /\ c.post.id = i /\ Start({c})
    BY <1>3, Creates
  <2>2. i \notin issued /\ UNCHANGED <<ups, downs>>
    BY <1>3 DEF Create, told
  <2> QED
    BY <1>1, <2>1, <2>2, ToldCreate
<1>4. CASE SyncAlgolia
  BY <1>4, ToldSync
<1>5. ASSUME NEW new, Start(new), UNCHANGED <<ups, downs>>,
             \A d \in new : d.op \in {"renumber", "assign", "page"}
      PROVE  Told(id)'
  <2>1. \A d \in new : ~Tells(d, id)
    BY <1>5, TellsOps DEF Tells
  <2>2. AllKept(id)
    BY <1>5, <2>1, StartKeepsAll
  <2> QED
    BY <1>1, <1>5, <2>2, ToldStays
<1>6. CASE UpdateSlugs
  <2>1. PICK c \in Renumberings : Start({c})
    BY <1>6, Renumbers
  <2>2. \A d \in {c} : d.op \in {"renumber", "assign", "page"}
    BY DEF Renumberings
  <2>3. UNCHANGED <<ups, downs>>
    BY <1>6 DEF UpdateSlugs, told
  <2> QED
    BY <1>5, <2>1, <2>2, <2>3
<1>7. CASE GetHomePosts
  <2>1. PICK new : new = {[op |-> "page", names |-> home, shows |-> [s \in Slots |-> Omitted]]}
    OBVIOUS
  <2>2. Start(new) /\ UNCHANGED <<ups, downs>> /\ \A d \in new : d.op = "page"
    BY <1>7, <2>1 DEF GetHomePosts, told
  <2> QED
    BY <1>5, <2>2
<1>8. ASSUME NEW slot \in Slots, NEW i \in Ids, UpdateHomePosts(slot, i)
      PROVE  Told(id)'
  <2>1. PICK new : new = {[op |-> "assign", slot |-> slot, id |-> i]}
    OBVIOUS
  <2>2. Start(new) /\ UNCHANGED <<ups, downs>> /\ \A d \in new : d.op = "assign"
    BY <1>8, <2>1 DEF UpdateHomePosts, told
  <2> QED
    BY <1>5, <2>2
<1> QED
  BY <1>2, <1>3, <1>4, <1>6, <1>7, <1>8 DEF Request, Reads
\* Answers callers were told nothing of.
LEMMA ToldQuiet ==
  ASSUME IInv, SeenInv, [Next]_vars, NEW c \in BagToSet(pending), NEW id \in Ids \ raced', Told(id),
         \/ ChooseSlug(c) \/ FinishSlugs(c) \/ Assign(c) \/ ReadPost(c) \/ FillCache(c)
         \/ c.op = "deactivate" /\ CheckPostReferences(c)
         \/ Fail(c)
  PROVE  Told(id)'
<1>1. UNCHANGED <<index, blob, removed, ups, downs, edited>>
  BY DEF ChooseSlug, FinishSlugs, Assign, ReadPost, FillCache, CheckPostReferences, Fail, told
<1>2. Now' \subseteq Now
  BY NowCalm, NowLost DEF Calm, Quiet
<1>3. PICK new : Continue(c, new) /\ \A d \in new : ~Tells(d, id)
  <2>1. CASE ChooseSlug(c) \/ (c.op = "deactivate" /\ CheckPostReferences(c))
    <3>1. PICK d : /\ GoesOn(c, d) /\ d.op \in {"replace", "move"} /\ d.after # "unawaited"
                   /\ Continue(c, {d})
      BY <2>1, Chooses, Checks
    <3>2. ~Tells(d, id)
      BY <3>1, TellsOps DEF Tells
    <3> QED
      BY <3>1, <3>2
  <2>2. CASE ReadPost(c)
    <3>1. PICK s, slug : Continue(c, {[c EXCEPT !.shows[s] = slug]})
      BY <2>2 DEF ReadPost
    <3> DEFINE d == [c EXCEPT !.shows[s] = slug]
    <3>2. d.op = "page"
      BY <2>2, CallKinds DEF ReadPost, Pages, IInv, CallsOK
    <3>3. Continue(c, {d})
      BY <3>1
    <3> HIDE DEF d
    <3>4. ~Tells(d, id)
      BY <3>2, TellsOps DEF Tells
    <3> QED
      BY <3>3, <3>4
  <2>3. CASE FinishSlugs(c) \/ Assign(c) \/ FillCache(c) \/ Fail(c)
    <3>1. Continue(c, {})
      BY <2>3 DEF FinishSlugs, Assign, FillCache, Fail
    <3> QED
      BY <3>1
  <2> QED
    BY <2>1, <2>2, <2>3
<1>4. ~Tells(c, id)
  <2>1. CASE Fail(c)
    <3>1. ~Unawaited(c) /\ Lost(c) \subseteq raced'
      BY <2>1 DEF Fail
    <3>2. c.op \in {"insert", "remove"} => c.op \in WorkOps /\ Lost(c) = About(c)
      BY DEF Lost, WorkOps
    <3>3. c.op \in {"insert", "remove"} => c.post.id \in raced'
      BY <3>1, <3>2, AboutCalls DEF IInv, CallsOK
    <3> QED
      BY <3>1, <3>3, TellsOps DEF Tells, Unawaited
  <2>2. CASE ~Fail(c)
    BY <2>2, TellsOps DEF Tells, ChooseSlug, FinishSlugs, Assign, ReadPost, FillCache
  <2> QED
    BY <2>1, <2>2
<1>5. AllKept(id)
  BY <1>3, <1>4, ContinueKeepsAll
<1> QED
  BY <1>1, <1>2, <1>5, ToldStays

\* Another call about a post overlaps, and so does a call that is repeated.
LEMMA Overlaps ==
  ASSUME IInv, NEW c \in BagToSet(pending), NEW d \in BagToSet(pending), d # c \/ pending[c] # 1,
         NEW id, NEW ops, d.op \in ops,
         \/ d.op \in {"index", "upload"} /\ d.id = id
         \/ d.op \in WorkOps /\ d.post.id = id
         \/ d.op = "renumber" /\ \E w \in d.left : w[1].id = id
  PROVE  Overlap(c, id, ops) = {id}
<1>1. d \in Others(c)
  <2>1. IsABag(pending)
    BY DEF IInv, CallsOK
  <2>2. Others(c) = {e \in BagToSet(pending) : e # c \/ pending[e] > 1}
    BY <2>1, OthersAre DEF Others
  <2>3. pending[d] # 1 => pending[d] > 1
    BY <2>1 DEF IsABag, BagToSet
  <2> QED
    BY <2>2, <2>3
<1>2. id \in About(d)
  BY AboutCalls DEF IInv, CallsOK
<1> QED
  BY <1>1, <1>2 DEF Overlap

\* A removal is sent to the index, which is told nothing else.
LEMMA ToldErase ==
  ASSUME IInv, SeenInv, [Next]_vars, NEW c \in BagToSet(pending), NEW id \in Ids \ raced', Told(id),
         c.op = "erase", CheckPostReferences(c)
  PROVE  Told(id)'
<1>1. UNCHANGED <<index, blob, removed, ups, downs, edited>> /\ Now' = Now
  BY NowCalm DEF CheckPostReferences, told, Calm, Quiet
<1>2. PICK d, u : /\ GoesOn(c, d) /\ d.post = c.post /\ d.op = "remove"
                  /\ u = IndexCall("delete", c.post) /\ Continue(c, {d, u})
                  /\ raced' = raced \cup Overlap(c, c.post.id, {"index"})
  BY Checks
<1>3. c \in Works /\ c.post \in Post
  BY HasSeen DEF WorkOps
<1>4. u \in IndexCalls /\ u.op = "index" /\ u.id = c.post.id /\ u.kind = "delete"
  BY <1>2, <1>3 DEF IndexCall, IndexCalls, Post
<1>5. ~Tells(c, id)
  BY TellsOps DEF Tells
<1>6. CASE id # c.post.id
  <2>1. ~Tells(d, id) /\ ~Tells(u, id)
    BY <1>2, <1>4, <1>6, TellsOps DEF Tells
  <2>2. \A e \in {d, u} : ~Tells(e, id)
    BY <2>1
  <2>3. AllKept(id)
    BY <1>2, <1>5, <2>2, ContinueKeepsAll
  <2> QED
    BY <1>1, <2>3, ToldStays
<1>7. CASE id = c.post.id
  <2>1. {d, u} \cap UploadsOf(id) = {} /\ {d, u} \cap WritesOf(id) = {} /\ {d, u} \cap CreatesOf(id) = {}
    BY <1>2, <1>4, TellsOps
  <2>2. Kept(UploadsOf(id)) /\ Kept(WritesOf(id)) /\ Kept(CreatesOf(id))
    BY <1>2, <1>5, <2>1, ContinueKeeps DEF Tells
  <2>3. LikesTold(id)' /\ AudioTold(id)'
    BY <1>1, <2>2, LikesStay, AudioStays DEF Told, HadAudio, Kept
  <2>4. Under(IndexCallsOf(id)) = {}
    <3> SUFFICES ASSUME NEW e \in BagToSet(pending), e \in IndexCallsOf(id)
                 PROVE  FALSE
      BY DEF Under
    <3>1. e.op = "index" /\ e.id = id /\ e # c
      BY TellsOps
    <3>2. Overlap(c, id, {"index"}) = {id}
      BY <3>1, Overlaps
    <3> QED
      BY <1>2, <1>7, <3>2
  <2>5. /\ BagToSet(pending') \subseteq BagToSet(pending) \cup {d, u}
        /\ d \in BagToSet(pending') /\ u \in BagToSet(pending')
        /\ u \notin BagToSet(pending) => pending'[u] = 1
    BY <1>2, ContinueCalls, ContinueCounts DEF IInv, CallsOK
  <2>6. u \in IndexCallsOf(id) /\ d \notin IndexCallsOf(id) /\ d \in RemovesOf(id)
    BY <1>2, <1>4, <1>7, TellsOps DEF IndexCallsOf, RemovesOf, GoesOn
  <2>7. Under(IndexCallsOf(id))' = {u} /\ pending'[u] = 1 /\ Under(RemovesOf(id))' # {}
    BY <2>4, <2>5, <2>6 DEF Under
  <2>8. IndexTold(id)'
    BY <1>4, <2>7 DEF IndexTold, Only
  <2> QED
    BY <2>3, <2>8 DEF Told
<1> QED
  BY <1>6, <1>7

\* The speech and the post are sent; another speech would have raced.
LEMMA ToldSpeak ==
  ASSUME IInv, SeenInv, [Next]_vars, NEW c \in BagToSet(pending), NEW id \in Ids \ raced', Told(id),
         Speak(c)
  PROVE  Told(id)'
<1>1. /\ UNCHANGED <<index, blob, removed, ups, downs, edited>> /\ Now' = Now /\ c.op = "speak"
      /\ raced' = raced \cup Overlap(c, c.post.id, {"upload"})
  BY NowCalm DEF Speak, told, Calm, Quiet
<1>2. PICK d, u : /\ GoesOn(c, d) /\ d.post = c.post /\ d.op = "replace" /\ d.after = "unawaited"
                  /\ u \in Uploads /\ u.op = "upload" /\ u.id = c.post.id /\ u.content = c.post.content
                  /\ Continue(c, {d, u})
                  /\ c.post.likes = c.seen.likes /\ c.post.content = c.seen.content
  BY Speaking
<1>3. /\ c \in Works /\ c.post \in Post /\ c.seen \in Post /\ c.seen # None /\ c.seen.id = c.post.id
      /\ Shape(c) /\ Fresh(c) /\ c.op \in WorkOps
  BY <1>1, HasSeen DEF WorkOps
<1>4. ~Tells(c, id)
  BY <1>1, TellsOps DEF Tells
<1>5. CASE id # c.post.id
  <2>1. ~Tells(d, id) /\ ~Tells(u, id)
    BY <1>2, <1>5, TellsOps DEF Tells, GoesOn
  <2>2. \A e \in {d, u} : ~Tells(e, id)
    BY <2>1
  <2>3. AllKept(id)
    BY <1>2, <1>4, <2>2, ContinueKeepsAll
  <2> QED
    BY <1>1, <2>3, ToldStays
<1>6. CASE id = c.post.id
  <2>1. {d, u} \cap IndexCallsOf(id) = {} /\ {d, u} \cap RemovesOf(id) = {} /\ {d, u} \cap CreatesOf(id) = {}
    BY <1>2, TellsOps
  <2>2. Kept(IndexCallsOf(id)) /\ Kept(RemovesOf(id)) /\ Kept(CreatesOf(id))
    BY <1>2, <1>4, <2>1, ContinueKeeps DEF Tells
  <2>3. IndexTold(id)'
    BY <1>1, <2>2, IndexStays DEF Told
  <2>4. c.seen \in posts /\ c.seen \in Now /\ c.seen.audio = FALSE
    BY <1>1, <1>3, <1>6 DEF Fresh, Shape, Now
  <2>5. \A p \in Now : p.id = id => p = c.seen
    BY <1>3, <1>6, <2>4, NowUnique DEF OneOfEach
  <2>6. /\ BagToSet(pending') \subseteq BagToSet(pending) \cup {d, u}
        /\ d \in BagToSet(pending') /\ u \in BagToSet(pending')
        /\ u \notin BagToSet(pending) => pending'[u] = 1
        /\ \A e \in BagToSet(pending) : e # c /\ e # d /\ e # u => pending'[e] = pending[e]
        /\ BagToSet(pending) \ {c} \subseteq BagToSet(pending')
    BY <1>2, ContinueCalls, ContinueCounts DEF IInv, CallsOK
  <2>7. d \in WritesOf(id) /\ u \in UploadsOf(id) /\ u \notin WritesOf(id) /\ d \notin UploadsOf(id)
    BY <1>2, <1>6, TellsOps DEF WritesOf, UploadsOf, GoesOn
  <2>8. LikesTold(id)'
    <3>1. Under(WritesOf(id))' = Under(WritesOf(id)) \cup {d}
      BY <1>4, <2>6, <2>7 DEF Under, Tells
    <3>2. d \in BagToSet(pending) => pending'[d] > 1
      <4>1. d # c
        BY <1>1, <1>2
      <4> DEFINE new == {d, u}
      <4>2. Continue(c, new) /\ d \in new
        BY <1>2
      <4> HIDE DEF new
      <4> QED
        BY <4>1, <4>2, SentTwice DEF IInv, CallsOK
    <3>3. ASSUME NEW e \in WritesOf(id), Only(e, WritesOf(id))'
          PROVE  e.post.likes + downs'[id] = ups'[id]
      <4>1. e = d /\ d \notin BagToSet(pending)
        BY <3>1, <3>2, <3>3 DEF Only
      <4>2. Under(WritesOf(id)) = {}
        BY <3>1, <3>3, <4>1 DEF Only, Under
      <4>3. c.seen.likes + downs[id] = ups[id]
        BY <1>3, <1>6, <2>4, <4>2 DEF Told, LikesTold
      <4> QED
        BY <1>1, <1>2, <4>1, <4>3
    <3>4. Under(CreatesOf(id))' = Under(CreatesOf(id))
      BY <2>2 DEF Kept, Under
    <3> QED
      BY <1>1, <3>1, <3>3, <3>4 DEF LikesTold, Told
  <2>9. AudioTold(id)'
    <3>1. Under(UploadsOf(id)) = {}
      <4> SUFFICES ASSUME NEW e \in BagToSet(pending), e \in UploadsOf(id)
                   PROVE  FALSE
        BY DEF Under
      <4>1. e.op = "upload" /\ e.id = id /\ e # c
        BY <1>1, TellsOps
      <4>2. Overlap(c, id, {"upload"}) = {id}
        BY <4>1, Overlaps
      <4> QED
        BY <1>1, <1>6, <4>2
    <3>2. Under(UploadsOf(id))' = {u} /\ pending'[u] = 1
      BY <2>6, <2>7, <3>1 DEF Under
    <3>3. \A p \in Now' : p.id = id => p.audio = FALSE
      BY <1>1, <2>4, <2>5
    <3>4. ASSUME NEW e \in Under(WritesOf(id))'
          PROVE  e.post.content = u.content
      <4>1. CASE e = d
        BY <1>2, <4>1
      <4>2. CASE e # d
        <5>1. /\ e \in BagToSet(pending) /\ e \in WritesOf(id) /\ e.op = "replace"
              /\ e.after = "unawaited" /\ e.post.id = id
          BY <2>6, <2>7, <3>4, <4>2, TellsOps DEF Under
        <5>2. e.seen \in Post /\ e.seen # None /\ e.seen.id = id /\ Shape(e) /\ Fresh(e)
          BY <5>1, HasSeen DEF WorkOps
        <5>3. e.seen \in posts
          BY <1>1, <5>1, <5>2 DEF Fresh, WorkOps
        <5>4. e.seen = c.seen
          BY <2>5, <5>2, <5>3 DEF Now
        <5>5. e.post.content = e.seen.content
          BY <5>1, <5>2 DEF Shape, WorkOps
        <5> QED
          BY <1>2, <5>4, <5>5
      <4> QED
        BY <4>1, <4>2
    <3>5. \A p \in Now' : p.id = id => Speaks(id, p)'
      BY <3>3 DEF Speaks
    <3>6. \A e \in Under(WritesOf(id))' : Speaks(id, e.post)'
      BY <3>2, <3>4 DEF Speaks
    <3> QED
      BY <3>2, <3>5, <3>6 DEF AudioTold, Only
  <2> QED
    BY <2>3, <2>8, <2>9 DEF Told
<1> QED
  BY <1>5, <1>6
\* The only call of a kind is answered, and none is left.
LEMMA OnlyAnswered ==
  ASSUME IInv, NEW c \in BagToSet(pending), Continue(c, {}), NEW kind, Only(c, kind)
  PROVE  Under(kind)' = {}
<1>1. /\ BagToSet(pending') \subseteq BagToSet(pending) /\ c \notin BagToSet(pending')
  BY ContinueCalls, ContinueCounts DEF IInv, CallsOK, Only
<1> QED
  BY <1>1 DEF Only, Under

\* The audio is uploaded, or the index is told.
LEMMA ToldUpload ==
  ASSUME IInv, SeenInv, [Next]_vars, NEW c \in BagToSet(pending), NEW id \in Ids \ raced', Told(id),
         Upload(c)
  PROVE  Told(id)'
<1>1. /\ UNCHANGED <<index, removed, ups, downs, edited>> /\ Now' = Now
      /\ c.op = "upload" /\ Continue(c, {}) /\ blob' = [blob EXCEPT ![c.id] = c.content]
  BY NowCalm DEF Upload, told, Calm, Quiet
<1>2. c \in Uploads /\ c.id \in Ids /\ blob \in [Ids -> Contents \cup {None}]
  BY <1>1, CallKinds DEF IInv, CallsOK, VarsOK, Uploads
<1> DEFINE new == {}
<1>3. Continue(c, new) /\ \A d \in new : ~Tells(d, id)
  BY <1>1
<1> HIDE DEF new
<1>4. CASE id # c.id
  <2>1. ~Tells(c, id)
    BY <1>1, <1>4, TellsOps DEF Tells
  <2>2. AllKept(id) /\ blob'[id] = blob[id]
    BY <1>1, <1>2, <1>3, <1>4, <2>1, ContinueKeepsAll
  <2> QED
    BY <1>1, <2>2, ToldStays
<1>5. CASE id = c.id
  <2>1. c \notin IndexCallsOf(id) /\ c \notin RemovesOf(id) /\ c \notin CreatesOf(id) /\ c \notin WritesOf(id)
    BY <1>1, TellsOps
  <2>2. /\ Kept(IndexCallsOf(id)) /\ Kept(RemovesOf(id)) /\ Kept(CreatesOf(id)) /\ Kept(WritesOf(id))
    BY <1>1, <2>1, ContinueKeeps
  <2>3. LikesTold(id)' /\ IndexTold(id)'
    BY <1>1, <2>2, LikesStay, IndexStays DEF Told
  <2>4. c \in UploadsOf(id) /\ c \in Under(UploadsOf(id)) /\ Only(c, UploadsOf(id))
    BY <1>2, <1>5 DEF UploadsOf, Under, Told, AudioTold
  <2>5. Under(UploadsOf(id))' = {} /\ blob'[id] = c.content
    BY <1>1, <1>2, <1>5, <2>4, OnlyAnswered
  <2>6. ASSUME NEW post, Speaks(id, post)
        PROVE  Speaks(id, post)'
    BY <1>1, <2>4, <2>5, <2>6 DEF Speaks
  <2>7. \A d \in Under(WritesOf(id))' : d \in Under(WritesOf(id))
    BY <2>2 DEF Kept, Under
  <2>8. AudioTold(id)'
    BY <1>1, <2>5, <2>6, <2>7 DEF AudioTold, Told
  <2> QED
    BY <2>3, <2>8 DEF Told
<1> QED
  BY <1>4, <1>5

LEMMA ToldSearchIndex ==
  ASSUME IInv, SeenInv, [Next]_vars, NEW c \in BagToSet(pending), NEW id \in Ids \ raced', Told(id),
         SearchIndex(c)
  PROVE  Told(id)'
<1>1. /\ UNCHANGED <<blob, removed, ups, downs, edited>> /\ Now' = Now
      /\ c.op = "index" /\ Continue(c, {})
      /\ \/ c.kind \in {"save", "update"} /\ index' = [index EXCEPT ![c.id] = c.slug]
         \/ c.kind = "update" /\ index[c.id] = None /\ index' = index
         \/ c.kind = "delete" /\ index' = [index EXCEPT ![c.id] = None]
  BY NowCalm DEF SearchIndex, told, Calm, Quiet
<1>2. c \in IndexCalls /\ c.id \in Ids /\ index \in [Ids -> Slug \cup {None}]
  BY <1>1, CallKinds DEF IInv, CallsOK, VarsOK, IndexCalls
<1> DEFINE new == {}
<1>3. Continue(c, new) /\ \A d \in new : ~Tells(d, id)
  BY <1>1
<1> HIDE DEF new
<1>4. CASE id # c.id
  <2>1. ~Tells(c, id)
    BY <1>1, <1>4, TellsOps DEF Tells
  <2>2. AllKept(id) /\ index'[id] = index[id]
    BY <1>1, <1>2, <1>3, <1>4, <2>1, ContinueKeepsAll
  <2> QED
    BY <1>1, <2>2, ToldStays
<1>5. CASE id = c.id
  <2>1. c \notin UploadsOf(id) /\ c \notin RemovesOf(id) /\ c \notin CreatesOf(id) /\ c \notin WritesOf(id)
    BY <1>1, TellsOps
  <2>2. /\ Kept(UploadsOf(id)) /\ Kept(RemovesOf(id)) /\ Kept(CreatesOf(id)) /\ Kept(WritesOf(id))
    BY <1>1, <2>1, ContinueKeeps
  <2>3. LikesTold(id)' /\ AudioTold(id)'
    BY <1>1, <2>2, LikesStay, AudioStays DEF Told, HadAudio, Kept
  <2>4. c \in IndexCallsOf(id) /\ c \in Under(IndexCallsOf(id)) /\ Only(c, IndexCallsOf(id))
    BY <1>2, <1>5 DEF IndexCallsOf, Under, Told, IndexTold
  <2>5. Under(IndexCallsOf(id))' = {} /\ Under(RemovesOf(id))' = Under(RemovesOf(id))
    BY <1>1, <2>2, <2>4, OnlyAnswered DEF Kept, Under
  <2>6. IndexTold(id)'
    BY <1>1, <1>2, <1>5, <2>4, <2>5 DEF IndexTold, Told
  <2> QED
    BY <2>3, <2>6 DEF Told
<1> QED
  BY <1>4, <1>5

\* A post is deleted that is going to be created again.
LEMMA ToldMove ==
  ASSUME IInv, SeenInv, [Next]_vars, NEW c \in BagToSet(pending), NEW id \in Ids \ raced', Told(id),
         Move(c)
  PROVE  Told(id)'
<1>1. UNCHANGED <<index, blob, removed, ups, downs>> /\ edited \subseteq edited' /\ raced \subseteq raced'
  BY EditedGrows DEF Move, told
<1>2. c.op = "move" /\ c \in Works /\ c.op \in WorkOps /\ c.seen # None /\ Fresh(c)
  BY HasSeen DEF Move, WorkOps
<1> DEFINE d == [c EXCEPT !.op = "insert"]
<1>3. d \in Works /\ d.op = "insert" /\ d.seen = c.seen /\ d.post = c.post
  BY <1>2, OpChanged DEF WorkOps
<1>4. Continue(c, {d})
  BY DEF Move
<1> HIDE DEF d
<1>5. ~Tells(c, id) /\ ~Tells(d, id)
  BY <1>2, <1>3, TellsOps DEF Tells
<1> DEFINE new == {d}
<1>6. Continue(c, new) /\ \A e \in new : ~Tells(e, id)
  BY <1>4, <1>5
<1> HIDE DEF new
<1>7. AllKept(id)
  BY <1>5, <1>6, ContinueKeepsAll
<1>8. \A p \in Now' : p.id = id => p \in Now
  <2>1. Now' \subseteq Now \cup {c.seen} /\ c.seen.id = c.post.id
    BY NowMove
  <2>2. id = c.post.id => c.seen \in Now
    BY <1>1, <1>2 DEF Fresh, Now
  <2> QED
    BY <2>1, <2>2
<1> QED
  BY <1>1, <1>7, <1>8, ToldStays

LEMMA ToldRemove ==
  ASSUME IInv, SeenInv, [Next]_vars, NEW c \in BagToSet(pending), NEW id \in Ids \ raced', Told(id),
         Remove(c)
  PROVE  Told(id)'
<1>1. /\ UNCHANGED <<index, blob, ups, downs, edited>> /\ removed' = removed \cup {c.post.id}
      /\ c.op = "remove" /\ Continue(c, {})
  BY DEF Remove
<1>2. c \in Works
  BY <1>1, HasSeen DEF WorkOps
<1>3. /\ Now' \subseteq Now
      /\ \A p \in Now' : p.id # c.post.id
  BY NowRemove
<1> DEFINE new == {}
<1>4. Continue(c, new) /\ \A d \in new : ~Tells(d, id)
  BY <1>1
<1> HIDE DEF new
<1>5. CASE id # c.post.id
  <2>1. ~Tells(c, id)
    BY <1>1, <1>5, TellsOps DEF Tells
  <2>2. AllKept(id)
    BY <1>4, <2>1, ContinueKeepsAll
  <2> QED
    BY <1>1, <1>3, <1>5, <2>2, ToldStays
<1>6. CASE id = c.post.id
  <2>1. c \notin UploadsOf(id) /\ c \notin IndexCallsOf(id) /\ c \notin CreatesOf(id) /\ c \notin WritesOf(id)
    BY <1>1, TellsOps
  <2>2. /\ Kept(UploadsOf(id)) /\ Kept(IndexCallsOf(id)) /\ Kept(CreatesOf(id)) /\ Kept(WritesOf(id))
    BY <1>1, <2>1, ContinueKeeps
  <2>3. LikesTold(id)' /\ AudioTold(id)'
    BY <1>1, <1>3, <2>2, LikesStay, AudioStays DEF Told, HadAudio, Kept
  <2>4. c \in Under(RemovesOf(id))
    BY <1>1, <1>2, <1>6 DEF Under, RemovesOf
  <2>5. /\ Under(IndexCallsOf(id))' = Under(IndexCallsOf(id))
        /\ \A e \in Under(IndexCallsOf(id)) : Only(e, IndexCallsOf(id)) => Only(e, IndexCallsOf(id))'
    BY <2>2 DEF Kept, Under, Only
  <2>6. IndexTold(id)'
    BY <1>1, <1>3, <1>6, <2>4, <2>5 DEF IndexTold, Told
  <2> QED
    BY <2>3, <2>6 DEF Told
<1> QED
  BY <1>5, <1>6

\* updateSlugs changes no likes; the index and the audio are not told of it.
LEMMA ToldRenumber ==
  ASSUME IInv, SeenInv, [Next]_vars, NEW c \in BagToSet(pending), NEW id \in Ids \ raced', Told(id),
         Renumber(c)
  PROVE  Told(id)'
<1>1. /\ UNCHANGED <<index, blob, removed, ups, downs>> /\ edited \subseteq edited'
      /\ c.op = "renumber" /\ raced \subseteq raced'
  BY EditedGrows DEF Renumber, told
<1>2. PICK d, w :
        /\ c \in Renumberings /\ d \in Renumberings /\ w \in c.left
        /\ w[1] \in Post /\ w[2] \in Post /\ w[2].id = w[1].id /\ w[2].likes = w[1].likes
        /\ Continue(c, {d})
        /\ posts' = (posts \ Stored(w[2])) \cup (IF Stored(w[2]) # {} THEN {w[2]} ELSE {})
        /\ edited' = edited \cup {w[1].id}
  BY Renumbered
<1>3. d.op = "renumber"
  BY <1>2 DEF Renumberings
<1>4. ~Tells(c, id) /\ ~Tells(d, id)
  BY <1>1, <1>3, TellsOps DEF Tells
<1> DEFINE new == {d}
<1>5. Continue(c, new) /\ \A e \in new : ~Tells(e, id)
  BY <1>2, <1>4
<1> HIDE DEF new
<1>6. AllKept(id)
  BY <1>4, <1>5, ContinueKeepsAll
<1>7. \A p \in Now' : p = w[2] \/ p \in Now
  <2> DEFINE q == w[2]
  <2>1. /\ q \in Post
        /\ posts' = (posts \ Stored(q)) \cup (IF Stored(q) # {} THEN {q} ELSE {})
    BY <1>2
  <2> HIDE DEF q
  <2>2. \A p \in Now' : p = q \/ p \in Now
    BY <1>1, <1>2, <1>3, <2>1, NowRenumber
  <2> QED
    BY <2>2 DEF q
<1>8. w[1].id = id => w[1] \in Now
  BY <1>1, <1>2 DEF SeenInv, Fresh, Now
<1>9. LikesTold(id)'
  <2>1. \A p \in Now' : p.id = id => \E q \in Now : q.id = id /\ q.likes = p.likes
    BY <1>2, <1>7, <1>8
  <2> QED
    BY <1>1, <1>6, <2>1, LikesStay DEF Told, AllKept
<1>10. IndexTold(id)'
  BY <1>1, <1>2, <1>6, <1>7, IndexStays DEF Told, AllKept
<1>11. AudioTold(id)'
  <2>1. \A p \in Now' : p.id = id => HadAudio(id, p)
    BY <1>2, <1>7 DEF HadAudio
  <2>2. \A e \in BagToSet(pending') \cap WritesOf(id) : e \in BagToSet(pending)
    BY <1>6 DEF AllKept, Kept
  <2> QED
    BY <1>1, <1>6, <2>1, <2>2, AudioStays DEF Told, AllKept
<1> QED
  BY <1>9, <1>10, <1>11 DEF Told

\* What is lost was about posts that have now raced.
LEMMA ToldRestart ==
  ASSUME IInv, SeenInv, [Next]_vars, NEW id \in Ids \ raced', Told(id), Restart
  PROVE  Told(id)'
<1>1. UNCHANGED <<index, blob, removed, ups, downs, edited>> /\ BagToSet(pending') = {}
  BY NoCalls DEF Restart, told
<1>2. Now' \subseteq Now
  BY NowLost
<1>3. ASSUME NEW c \in BagToSet(pending), Tells(c, id)
      PROVE  FALSE
  <2>1. Lost(c) \subseteq raced'
    BY DEF Restart
  <2>2. c.op # "renumber" /\ (Unawaited(c) \/ c.op \in {"insert", "remove"})
    BY <1>3, TellsOps DEF Tells, Unawaited
  <2>3. c.op \in WorkOps \cup {"index", "upload"}
    BY <2>2 DEF Unawaited, WorkOps
  <2>4. id \in About(c)
    BY <1>3, <2>3, AboutCalls, TellsOps DEF Tells, WorkOps, IInv, CallsOK
  <2> QED
    BY <2>1, <2>2, <2>4 DEF Lost
<1>4. AllKept(id)
  BY <1>1, <1>3 DEF AllKept, Kept, Tells
<1> QED
  BY <1>1, <1>2, <1>4, ToldStays
\* A post is written that nothing else is under way about: what was read of it
\* and what callers were told of it since are one.
LEMMA ToldWrite ==
  ASSUME IInv, SeenInv, EditedInv, [Next]_vars, NEW c \in BagToSet(pending),
         NEW id \in Ids \ raced', Told(id), Replace(c) \/ Insert(c)
  PROVE  Told(id)'
<1>1. /\ UNCHANGED <<index, blob, removed, ups, downs>> /\ edited \subseteq edited'
      /\ raced \subseteq raced' /\ Continue(c, Follow(c))
      /\ Overlap(c, c.post.id, WorkOps \cup {"renumber"}) \subseteq raced'
      /\ Follow(c) # {} => Overlap(c, c.post.id, {"index"}) \subseteq raced'
      /\ c.op \in {"replace", "insert"} /\ c.op \in WorkOps
  BY EditedGrows DEF Replace, Insert, AfterWrite, told, WorkOps
<1>2. c \in Works /\ c.post \in Post /\ c.post.id \in Ids /\ Shape(c) /\ Fresh(c)
  BY <1>1, CallKinds DEF IInv, CallsOK, SeenInv
<1>3. /\ c.post \in posts' /\ c.post \in Now'
      /\ \A p \in Now' : p = c.post \/ (p \in Now /\ p.id # c.post.id)
  BY NowWrite
<1>4. \A d \in Follow(c) : d = IndexCall(c.after, c.post) /\ d.op = "index" /\ d.id = c.post.id
                           /\ d.kind = c.after /\ d.slug = c.post.slug
  BY DEF Follow, IndexCall
<1>5. CASE id # c.post.id
  <2>1. ~Tells(c, id) /\ \A d \in Follow(c) : ~Tells(d, id)
    BY <1>1, <1>4, <1>5, TellsOps DEF Tells
  <2>2. AllKept(id)
    BY <1>1, <2>1, ContinueKeepsAll
  <2> QED
    BY <1>1, <1>3, <1>5, <2>2, ToldStays
<1>6. CASE id = c.post.id
  <2>1. \A d \in BagToSet(pending) : d.op \in WorkOps /\ d.post.id = id => d = c /\ pending[c] = 1
    <3> SUFFICES ASSUME NEW d \in BagToSet(pending), d.op \in WorkOps, d.post.id = id,
                        d # c \/ pending[c] # 1
                 PROVE  FALSE
      OBVIOUS
    <3> DEFINE ops == WorkOps \cup {"renumber"}
    <3>1. d.op \in ops
      OBVIOUS
    <3> HIDE DEF ops
    <3>2. Overlap(c, id, ops) = {id}
      BY <3>1, Overlaps
    <3> QED
      BY <1>1, <1>6, <3>2 DEF ops
  <2>2. \A d \in BagToSet(pending') : ~(d.op \in WorkOps /\ d.post.id = id)
    <3>1. pending[c] = 1
      BY <1>1, <1>6, <2>1
    <3>2. c \notin Follow(c)
      BY <1>1, <1>4
    <3>3. c \notin BagToSet(pending')
      BY <1>1, <3>1, <3>2, ContinueCounts DEF IInv, CallsOK
    <3>4. BagToSet(pending') \subseteq BagToSet(pending) \cup Follow(c)
      BY <1>1, ContinueCalls DEF IInv, CallsOK
    <3> QED
      BY <1>4, <2>1, <3>3, <3>4 DEF WorkOps
  <2>3. /\ Under(WritesOf(id))' = {} /\ Under(RemovesOf(id))' = {} /\ Under(CreatesOf(id))' = {}
    BY <2>2, TellsOps DEF Under, WorkOps
  <2>4. Under(RemovesOf(id)) = {}
    BY <1>1, <2>1, TellsOps DEF Under, WorkOps
  <2>5. /\ c.seen # None => c.seen \in Now /\ c.seen \in Post /\ c.seen.id = id
        /\ c.op = "replace" => c.seen # None
    <3>1. c.op = "replace" => c.seen # None /\ c.seen \in posts
      BY <1>1, <1>2, <1>6, HasSeen DEF Fresh
    <3>2. c.seen # None => c.seen \in Now /\ c.seen.id = id
      BY <1>1, <1>2, <1>6, <3>1 DEF Now, Shape
    <3> QED
      BY <3>1, <3>2, NowPosts
  <2>6. c.after = "nothing" => c.post = c.seen \/ id \in edited'
    <3>1. CASE Replace(c)
      BY <1>6, <3>1 DEF Replace, Edit
    <3>2. CASE Insert(c) /\ c.after = "nothing"
      <4>1. c.op = "insert" /\ c.seen # None
        BY <1>2, <3>2 DEF Insert, Shape
      <4> QED
        BY <1>1, <1>6, <3>2, <4>1 DEF EditedInv
    <3> QED
      BY <3>1, <3>2
  <2>7. LikesTold(id)'
    <3>1. c.post.likes + downs[id] = ups[id]
      <4>1. CASE c.after = "unawaited"
        <5>1. c \in WritesOf(id) /\ c.op = "replace"
          BY <1>1, <1>2, <1>6, <2>5, <4>1 DEF WritesOf, Shape
        <5>2. Under(WritesOf(id)) = {c} /\ pending[c] = 1
          BY <1>1, <1>6, <2>1, <5>1, TellsOps DEF Under, WorkOps
        <5> QED
          BY <5>1, <5>2 DEF Told, LikesTold, Only
      <4>2. CASE c.seen = None
        <5>1. c.op = "insert" /\ c \in Under(CreatesOf(id)) /\ c.post.likes = 0
          BY <1>1, <1>2, <1>6, <2>5, <4>2 DEF CreatesOf, Under, Shape
        <5>2. ups[id] = 0 /\ downs[id] = 0
          BY <5>1 DEF Told, LikesTold
        <5> QED
          BY <5>1, <5>2
      <4>3. CASE c.after # "unawaited" /\ c.seen # None
        <5>1. Under(WritesOf(id)) = {}
          BY <2>1, <4>3, TellsOps DEF Under, WorkOps
        <5>2. c.post.likes = c.seen.likes
          BY <1>1, <1>2, <4>3 DEF Shape
        <5> QED
          BY <2>5, <4>3, <5>1, <5>2 DEF Told, LikesTold
      <4> QED
        BY <4>1, <4>2, <4>3
    <3>2. \A p \in Now' : p.id = id => p = c.post
      BY <1>3, <1>6
    <3>3. ~\E d : Only(d, WritesOf(id))'
      BY <2>3 DEF Only
    <3> QED
      BY <1>1, <2>3, <3>1, <3>2, <3>3 DEF LikesTold
  <2>8. AudioTold(id)'
    <3>1. Follow(c) \cap UploadsOf(id) = {} /\ c \notin UploadsOf(id)
      BY <1>1, <1>4, TellsOps
    <3>2. Kept(UploadsOf(id))
      BY <1>1, <3>1, ContinueKeeps
    <3>3. HadAudio(id, c.post)
      <4>1. CASE c.after = "unawaited"
        <5>1. c \in Under(WritesOf(id))
          BY <1>1, <1>2, <1>6, <2>5, <4>1 DEF WritesOf, Under, Shape
        <5> QED
          BY <5>1 DEF HadAudio
      <4>2. CASE c.seen = None
        BY <1>1, <1>2, <2>5, <4>2 DEF HadAudio, Shape
      <4>3. CASE c.after # "unawaited" /\ c.seen # None
        <5>1. c.after \in {"save", "delete"} =>
                c.post.audio = c.seen.audio /\ c.post.content = c.seen.content
          BY <1>1, <1>2, <4>3 DEF Shape
        <5>2. c.after = "update" /\ c.post.audio = TRUE /\ c.post.content # None =>
                c.seen.audio = TRUE /\ c.post.content = c.seen.content
          BY <1>1, <1>2, <4>3 DEF Shape
        <5>3. c.after \in {"save", "delete", "update", "nothing"}
          BY <1>2, <4>3 DEF Works, After
        <5> QED
          BY <2>5, <2>6, <4>3, <5>1, <5>2, <5>3 DEF HadAudio
      <4> QED
        BY <4>1, <4>2, <4>3
    <3>4. \A p \in Now' : p.id = id => HadAudio(id, p)
      BY <1>3, <1>6, <3>3
    <3>5. BagToSet(pending') \cap WritesOf(id) = {}
      BY <2>3 DEF Under
    <3> QED
      BY <1>1, <3>2, <3>4, <3>5, AudioStays DEF Told
  <2>9. CASE Follow(c) = {}
    <3>1. c.after \in {"nothing", "unawaited"} /\ c.seen # None
      BY <1>1, <1>2, <2>5, <2>9 DEF Follow, Works, After, Shape
    <3>2. c \notin IndexCallsOf(id)
      BY <1>1, TellsOps
    <3>3. Kept(IndexCallsOf(id))
      BY <1>1, <2>9, <3>2, ContinueKeeps
    <3>4. Kept(RemovesOf(id))
      BY <2>3, <2>4 DEF Kept, Under
    <3>5. id \notin edited' => c.seen.slug = c.post.slug /\ c.seen.active = c.post.active
      BY <1>1, <1>2, <2>6, <3>1 DEF Shape
    <3>6. \A p \in Now' : p.id = id /\ p.active = TRUE /\ id \notin edited' =>
            \E q \in Now : q.id = id /\ q.active = TRUE /\ q.slug = p.slug
      BY <1>3, <1>6, <2>5, <3>1, <3>5
    <3>7. IndexTold(id)'
      BY <1>1, <3>3, <3>4, <3>6, IndexStays DEF Told
    <3> QED
      BY <2>7, <2>8, <3>7 DEF Told
  <2>10. CASE Follow(c) # {}
    <3>1. PICK u : Follow(c) = {u} /\ u.op = "index" /\ u.id = id /\ u.kind = c.after
                   /\ u.slug = c.post.slug /\ u \in IndexCalls
                   /\ c.after \in {"save", "update", "delete"}
      BY <1>2, <1>4, <1>6, <2>10 DEF Follow, IndexCall, IndexCalls, Post
    <3>2. Under(IndexCallsOf(id)) = {}
      <4> SUFFICES ASSUME NEW e \in BagToSet(pending), e \in IndexCallsOf(id)
                   PROVE  FALSE
        BY DEF Under
      <4>1. e.op = "index" /\ e.id = id /\ e # c
        BY <1>1, TellsOps
      <4>2. Overlap(c, id, {"index"}) = {id}
        BY <4>1, Overlaps
      <4> QED
        BY <1>1, <1>6, <2>10, <4>2
    <3>3. Under(IndexCallsOf(id))' = {u} /\ pending'[u] = 1
      <4>1. u \in IndexCallsOf(id) /\ u \notin BagToSet(pending)
        BY <3>1, <3>2 DEF Under, IndexCallsOf
      <4>2. /\ BagToSet(pending') \subseteq BagToSet(pending) \cup {u}
            /\ u \in BagToSet(pending') /\ pending'[u] = 1
        BY <1>1, <3>1, <4>1, ContinueCalls, ContinueCounts DEF IInv, CallsOK
      <4> QED
        BY <3>2, <4>1, <4>2 DEF Under
    <3>4. id \notin removed'
      BY <1>3, <1>6, Inductive DEF IInv, PostsInv, RemovedForGood
    <3>5. ASSUME c.post.active = TRUE, id \notin edited'
          PROVE  u.kind # "delete" /\ (u.kind = "update" => index[id] # None)
      <4>1. c.after # "delete"
        BY <1>1, <1>2, <2>5, <3>5 DEF Shape
      <4>2. ASSUME c.after = "update"
            PROVE  index[id] # None
        <5>1. c.seen # None /\ c.seen.active = TRUE
          BY <1>1, <1>2, <2>5, <3>5, <4>2 DEF Shape
        <5>2. index[id] = c.seen.slug
          BY <1>1, <2>4, <2>5, <3>2, <3>5, <5>1 DEF Told, IndexTold
        <5>3. c.seen.slug \in Slug
          BY <2>5, <5>1 DEF Post
        <5> QED
          BY <5>2, <5>3, NoneAssumption
      <4> QED
        BY <3>1, <4>1, <4>2
    <3>6. IndexTold(id)'
      BY <1>1, <1>3, <1>6, <2>3, <3>1, <3>3, <3>4, <3>5 DEF IndexTold, Only
    <3> QED
      BY <2>7, <2>8, <3>6 DEF Told
  <2> QED
    BY <2>9, <2>10
<1> QED
  BY <1>5, <1>6
\* Only posts that are there are liked.
LEMMA NothingToldInductive == IInv /\ NothingTold /\ [Next]_vars => NothingTold'
<1> SUFFICES ASSUME IInv, NothingTold, [Next]_vars
             PROVE  NothingTold'
  OBVIOUS
<1>1. CASE \E p \in posts : Reads(p)
  <2>1. PICK p \in posts : Reads(p)
    BY <1>1
  <2>2. PICK c : Begun(p, c) /\ Counted(p, c)
    BY <2>1, Begins
  <2>3. issued' = issued /\ p.id \in issued
    BY <2>1, Begins DEF IInv, PostsInv, Known
  <2> QED
    BY <2>2, <2>3 DEF Counted, NothingTold
<1>2. CASE ~\E p \in posts : Reads(p)
  <2>1. issued \subseteq issued' /\ UNCHANGED <<ups, downs>>
    <3>1. CASE Request \/ GetHomePosts
      BY <1>2, <3>1 DEF Request, Reads, Create, UpdateSlugs, SyncAlgolia, UpdateHomePosts,
                        GetHomePosts, told
    <3>2. CASE Expire \/ Restart \/ UNCHANGED vars
      BY <3>2 DEF Expire, Restart, vars, told
    <3>3. ASSUME NEW c \in BagToSet(pending), Answer(c) \/ Fail(c)
          PROVE  UNCHANGED <<issued, ups, downs>>
      BY <3>3 DEF Answer, Fail, ChooseSlug, CheckPostReferences, Replace, Move, Insert, Remove, Assign,
                  Speak, Upload, SearchIndex, Renumber, FinishSlugs, ReadPost, FillCache, told
    <3> QED
      BY <3>1, <3>2, <3>3 DEF Next
  <2> QED
    BY <2>1 DEF NothingTold
<1> QED
  BY <1>1, <1>2

LEMMA ToldInductive == IInv /\ SeenInv /\ EditedInv /\ ToldInv /\ [Next]_vars => ToldInv'
<1> SUFFICES ASSUME IInv, SeenInv, EditedInv, ToldInv, [Next]_vars, NEW id \in Ids \ raced'
             PROVE  Told(id)'
  BY NothingToldInductive DEF ToldInv
<1>1. Told(id) /\ NothingTold
  BY RacedStays DEF ToldInv
<1>2. CASE Request \/ GetHomePosts
  BY <1>1, <1>2, ToldRequests
<1>3. CASE Expire \/ UNCHANGED vars
  <2>1. UNCHANGED <<index, blob, removed, ups, downs, edited, pending>> /\ Now' = Now
    BY <1>3, NowCalm DEF Expire, vars, told, Calm
  <2>2. AllKept(id)
    BY <2>1 DEF AllKept, Kept
  <2> QED
    BY <1>1, <2>1, <2>2, ToldStays
<1>4. CASE Restart
  BY <1>1, <1>4, ToldRestart
<1>5. ASSUME NEW c \in BagToSet(pending), Answer(c) \/ Fail(c)
      PROVE  Told(id)'
  <2>1. CASE CheckPostReferences(c)
    <3>1. c.op \in {"deactivate", "erase"}
      BY <2>1 DEF CheckPostReferences
    <3> QED
      BY <1>1, <2>1, <3>1, ToldQuiet, ToldErase
  <2>2. CASE ~CheckPostReferences(c)
    BY <1>1, <1>5, <2>2, ToldQuiet, ToldSpeak, ToldUpload, ToldSearchIndex, ToldMove, ToldRemove,
       ToldRenumber, ToldWrite DEF Answer
  <2> QED
    BY <2>1, <2>2
<1> QED
  BY <1>2, <1>3, <1>4, <1>5 DEF Next

LEMMA ToldAlways == Spec => []ToldInv
<1>1. Init => EditedInv /\ ToldInv
  <2> SUFFICES ASSUME Init
               PROVE  EditedInv /\ ToldInv
    OBVIOUS
  <2>1. /\ BagToSet(pending) = {} /\ posts = {} /\ removed = {}
        /\ ups = [id \in Ids |-> 0] /\ downs = [id \in Ids |-> 0]
    BY NoCalls DEF Init
  <2>2. Now = {} /\ \A kind : Under(kind) = {}
    BY <2>1 DEF Now, Under
  <2> QED
    BY <2>1, <2>2 DEF EditedInv, ToldInv, NothingTold, Told, LikesTold, IndexTold, AudioTold, Only
<1>2. EditedInv /\ ToldInv /\ IInv /\ SeenInv /\ [Next]_vars => (EditedInv /\ ToldInv)'
  BY EditedInductive, ToldInductive
<1> QED
  BY <1>1, <1>2, NamedAlways, PTL DEF Spec

\* A post about which no two calls have overlapped and none was lost has the
\* likes callers were told of, is in the index under its slug while it is
\* active, unless a post request or updateSlugs gave it another, and its audio
\* speaks its content, unless a post request changed it; once removed, it is
\* not in the index (create, update, toggleActiveState, remove, updateLikes,
\* getAudio).
THEOREM PostsAreAsTold == Spec => []AsTold
<1>1. ToldInv /\ IInv => AsTold
  <2> SUFFICES ASSUME ToldInv, IInv, NEW id \in Ids, Settled(id)
               PROVE  /\ \A p \in posts : p.id = id =>
                           /\ p.likes + downs[id] = ups[id]
                           /\ p.active /\ id \notin edited => index[id] = p.slug
                           /\ p.audio /\ p.content # None /\ id \notin edited => blob[id] = p.content
                      /\ id \in removed => index[id] = None
    BY DEF AsTold
  <2>1. Told(id)
    BY DEF ToldInv, Settled
  <2>2. ASSUME NEW c \in BagToSet(pending), Tells(c, id)
        PROVE  FALSE
    <3>1. c.op \in WorkOps \cup {"index", "upload"}
      BY <2>2, TellsOps DEF Tells, WorkOps
    <3>2. id \in About(c)
      BY <2>2, <3>1, AboutCalls, TellsOps DEF Tells, WorkOps, IInv, CallsOK
    <3> QED
      BY <3>2 DEF Settled
  <2>3. /\ Under(IndexCallsOf(id)) = {} /\ Under(UploadsOf(id)) = {} /\ Under(WritesOf(id)) = {}
        /\ Under(RemovesOf(id)) = {}
    BY <2>2 DEF Tells, Under
  <2>4. \A p \in posts : p \in Now /\ p \in Post
    BY NowPosts
  <2>5. \A p \in posts : p.id = id => p.likes + downs[id] = ups[id]
    BY <2>1, <2>3, <2>4 DEF Told, LikesTold
  <2>6. \A p \in posts : p.id = id /\ p.active = TRUE /\ id \notin edited => index[id] = p.slug
    BY <2>1, <2>3, <2>4 DEF Told, IndexTold
  <2>7. \A p \in posts : p.id = id /\ p.audio = TRUE /\ p.content # None /\ id \notin edited =>
          blob[id] = p.content
    BY <2>1, <2>3, <2>4 DEF Told, AudioTold, Speaks
  <2>8. id \in removed => index[id] = None
    BY <2>1, <2>3 DEF Told, IndexTold
  <2>9. \A p \in posts : p.active \in BOOLEAN /\ p.audio \in BOOLEAN
    BY <2>4 DEF Post
  <2> QED
    BY <2>5, <2>6, <2>7, <2>8, <2>9
<1> QED
  BY <1>1, ToldAlways, NamedAlways, PTL
=============================================================================
