------------------------------- MODULE Posts -------------------------------
(***************************************************************************)
(* The posts of src/posts, their records in the search index, their audio, *)
(* and the home page that refers to them.                                  *)
(*                                                                         *)
(* A handler reads a whole post, waits for other calls and then writes a   *)
(* whole post; some calls it does not wait for at all: the search index,   *)
(* the upload of an audio, the replace of updateLikes and of getAudio.     *)
(* `pending` (Calls) holds everything under way, awaited or not: each      *)
(* element waits for one call, which may be answered at any time and in    *)
(* any order.  A handler is the action that reads the post and computes,   *)
(* followed by the actions of the calls it makes.                          *)
(*                                                                         *)
(* A post that changes its category, the partition key, is deleted and     *)
(* created again.                                                          *)
(*                                                                         *)
(* Not in the model: fields that are only copied, who may call what, the   *)
(* cache of tags (MCPosts has no tags), and slugs of different titles that *)
(* are nevertheless the same string.                                       *)
(***************************************************************************)
EXTENDS Integers, FiniteSets, Calls, UniqueSlug

CONSTANTS
  Ids,         \* the ids posts get
  Categories,
  Titles,
  Contents,
  Slots,       \* the documents of the home page, each of which names a post
  Omitted,     \* a field an update request does not have
  None         \* no content, no post, no page

ASSUME PostsAssumption ==
  /\ None \notin Contents \cup Ids
  /\ Omitted \notin Categories \cup Titles \cup Contents \cup {None}
  /\ Ids \cap Slots = {} /\ {"slugs", "cache"} \cap (Ids \cup Slots) = {}  \* see raced

\* <<title, n>> is the slug of the title, with the suffix -n if n > 1.
Slug == Titles \X Nat

Post ==
  [id : Ids, category : Categories, slug : Slug, content : Contents \cup {None},
   audio : BOOLEAN, likes : Int, active : BOOLEAN]

ASSUME NoneAssumption == None \notin Post \cup Slug \cup [Slots -> Ids \X Slug]

VARIABLES
  posts,    \* the container of posts
  index,    \* the slug in the search record of each post
  blob,     \* the content each post's audio file speaks
  home,     \* the post each slot of the home page names
  cache,    \* the home page in memory: what each slot names and shows
  issued,   \* the ids given so far
  \* What callers have been told, and what befell the posts:
  removed,  \* posts whose removal was confirmed
  ups,      \* likes confirmed,
  downs,    \*   and taken back,
  unchecked, \* posts a like of which was taken back without the check for zero
  edited,   \* posts a post request or updateSlugs has changed
  raced     \* posts, slots, the slugs, the cache: calls overlapped or were lost

told == <<removed, ups, downs, unchecked>>
vars == <<posts, index, blob, home, cache, pending, issued, told, edited, raced>>

-----------------------------------------------------------------------------
(* What a call under way carries.                                          *)

After == {"save", "update", "delete", "nothing", "unawaited"}

\* Work on a post that was read as `seen`: what it waits for, what it will
\* write, and the call to the search index that follows.
Work(op, seen, post, after) ==
  [op |-> op, seen |-> seen, post |-> post, after |-> after]

WorkOps ==
  {"retitle", "retitleMove", "deactivate", "erase", "speak",
   "replace", "move", "insert", "remove"}

Works == [op : WorkOps, seen : Post \cup {None}, post : Post, after : After]

IndexCall(kind, post) ==
  [op |-> "index", kind |-> kind, id |-> post.id, slug |-> post.slug]

IndexCalls ==
  [op : {"index"}, kind : {"save", "update", "delete"}, id : Ids, slug : Slug]

Uploads == [op : {"upload"}, id : Ids, content : Contents]

Assignments == [op : {"assign"}, slot : Slots, id : Ids]

\* A home page being read: the slots' posts, and what is known of them.
Pages ==
  [op : {"page"}, names : [Slots -> Ids \cup {None}],
   shows : [Slots -> Slug \cup {None, Omitted}]]

Renumberings ==
  [op : {"renumber"}, left : SUBSET (Post \X Post), ok : BOOLEAN]

Call == Works \cup IndexCalls \cup Uploads \cup Assignments \cup Pages \cup Renumberings

TypeOK ==
  /\ posts \subseteq Post
  /\ index \in [Ids -> Slug \cup {None}]
  /\ blob \in [Ids -> Contents \cup {None}]
  /\ home \in [Slots -> Ids \cup {None}]
  /\ cache \in [Slots -> (Ids \cup {None}) \X (Slug \cup {None})] \cup {None}
  /\ IsABag(pending) /\ BagToSet(pending) \subseteq Call
  /\ issued \subseteq Ids
  /\ removed \subseteq Ids
  /\ ups \in [Ids -> Nat] /\ downs \in [Ids -> Nat] /\ unchecked \subseteq Ids
  /\ edited \subseteq Ids
  /\ raced \subseteq Ids \cup Slots \cup {"slugs", "cache"}

Init ==
  /\ posts = {}
  /\ index = [id \in Ids |-> None]
  /\ blob = [id \in Ids |-> None]
  /\ home = [s \in Slots |-> None]
  /\ cache = None
  /\ pending = EmptyBag
  /\ issued = {}
  /\ removed = {}
  /\ ups = [id \in Ids |-> 0] /\ downs = [id \in Ids |-> 0] /\ unchecked = {}
  /\ edited = {} /\ raced = {}

-----------------------------------------------------------------------------
(* What the handlers ask of the containers. *)

Key(post) == <<post.id, post.category>>

Stored(post) == {p \in posts : Key(p) = Key(post)}

Exists(id) == \E p \in posts : p.id = id

Slugs == {p.slug : p \in posts}

(* Faults of the kind this code could have, which the runs must detect; no *)
(* definition uses them.                                                   *)
AnyLikes(post) == TRUE
Overwritten(field, old) == field
IgnoreMissing(post) == TRUE
Upsert(post) == TRUE
KeepAudio(post, category, content) ==
  [post EXCEPT
     !.category = IF category = Omitted THEN @ ELSE category,
     !.content = IF content = Omitted THEN @ ELSE content]
PlainSlug(title) == 1
Unchecked(id) == FALSE
KeepCache(c) == cache
NeverExpire == FALSE

\* item(id).replace: 404 unless the id is stored in that category.
CanReplace(post) == Stored(post) # {}

\* item(id, category).delete: likewise.
CanDelete(post) == Stored(post) # {}

Referenced(id) == \E s \in Slots : home[s] = id

\* generateUniqueSlug: title, title-2, title-3, ...
FreeNumber(title) == UniqueNumber(title, Slugs)

-----------------------------------------------------------------------------
(* What may overlap among the calls under way. *)

\* The posts a call may still change, or leave unchanged if it is lost.
About(c) ==
  CASE c.op \in WorkOps -> {c.post.id}
    [] c.op \in {"index", "upload"} -> {c.id}
    [] c.op = "renumber" -> {w[1].id : w \in c.left}
    [] OTHER -> {}

\* Of two index calls, or two uploads, either may be the last; of two works
\* on a post, the one that writes last has not seen what the other wrote.
Overlap(c, id, ops) ==
  IF \E o \in Others(c) : o.op \in ops /\ id \in About(o) THEN {id} ELSE {}

\* A slug that another call is about to write is not among those read.
SlugRace ==
  IF \E c \in BagToSet(pending) : c.op \in {"replace", "move", "insert", "renumber"}
  THEN {"slugs"} ELSE {}

\* A page that was read before the cache is emptied may be cached after it.
CacheRace ==
  IF \E c \in BagToSet(pending) : c.op = "page" THEN {"cache"} ELSE {}

Follow(c) ==
  IF c.after \in {"save", "update", "delete"} THEN {IndexCall(c.after, c.post)} ELSE {}

CacheAfter(c) == IF c.after = "update" THEN None ELSE cache

\* What follows a write: the index call and, after update, an empty cache.
AfterWrite(c) ==
  /\ Continue(c, Follow(c))
  /\ cache' = CacheAfter(c)
  /\ raced' = raced
       \cup Overlap(c, c.post.id, WorkOps \cup {"renumber"})
       \cup (IF Follow(c) # {} THEN Overlap(c, c.post.id, {"index"}) ELSE {})
       \cup (IF c.after = "update" THEN CacheRace ELSE {})

Edit(c) ==
  edited' = edited \cup
    (IF c.after = "nothing" /\ c.seen # c.post THEN {c.post.id} ELSE {})

-----------------------------------------------------------------------------
(* The endpoints of PostsService. *)

Create(id, title, category, content) ==
  /\ id \notin issued
  /\ issued' = issued \cup {id}
  /\ Start({Work("insert", None,
       [id |-> id, category |-> category, slug |-> <<title, FreeNumber(title)>>,
        content |-> content, audio |-> FALSE, likes |-> 0, active |-> TRUE],
       "save")})
  /\ raced' = raced \cup SlugRace
  /\ UNCHANGED <<posts, index, blob, home, cache, told, edited>>

Given(field, old) == IF field = Omitted THEN old ELSE field

\* The audio speaks the content it was made from.  Only a new content that is
\* not empty removes it.
Revised(post, category, content) ==
  [post EXCEPT
     !.category = Given(category, @),
     !.content = Given(content, @),
     !.audio = @ /\ content \in {Omitted, None, post.content}]

Retitled(post, title) == [post EXCEPT !.slug = <<title, 0>>]

\* The category is compared with the one of the request, so that a request
\* without a category also deletes the post and creates it again.
Update(post, title, category, content) ==
  LET moves == category # post.category
      new == Revised(post, category, content)
  IN /\ Start({IF title \in {Omitted, post.slug[1]}
               THEN Work(IF moves THEN "move" ELSE "replace", post, new, "update")
               ELSE Work(IF moves THEN "retitleMove" ELSE "retitle", post,
                         Retitled(new, title), "update")})
     /\ UNCHANGED <<posts, index, blob, home, cache, issued, told, edited, raced>>

\* updatePostRequest: new data of a pending request, which also chooses a slug
\* when the title stays the same; the audio, the index and the cache stay.
UpdatePostRequest(post, title, category, content) ==
  LET new == [Revised(post, category, content) EXCEPT !.audio = post.audio]
      moves == new.category # post.category
  IN /\ Start({IF title = Omitted
               THEN Work(IF moves THEN "move" ELSE "replace", post, new, "nothing")
               ELSE Work(IF moves THEN "retitleMove" ELSE "retitle", post,
                         Retitled(new, title), "nothing")})
     /\ UNCHANGED <<posts, index, blob, home, cache, issued, told, edited, raced>>

ToggleActiveState(post) ==
  LET new == [post EXCEPT !.active = ~@] IN
  /\ Start({IF new.active THEN Work("replace", post, new, "save")
            ELSE Work("deactivate", post, new, "delete")})
  /\ UNCHANGED <<posts, index, blob, home, cache, issued, told, edited, raced>>

RemovePost(post) ==
  /\ Start({Work("erase", post, post, "delete")})
  /\ UNCHANGED <<posts, index, blob, home, cache, issued, told, edited, raced>>

Liked(post) == [post EXCEPT !.likes = @ + 1]

Unliked(post) == [post EXCEPT !.likes = @ - 1]

Like(post) ==
  /\ Start({Work("replace", post, Liked(post), "unawaited")})
  /\ ups' = [ups EXCEPT ![post.id] = @ + 1]
  /\ UNCHANGED <<posts, index, blob, home, cache, issued, removed, downs, unchecked,
                 edited, raced>>

MayDecrement(post) == post.likes # 0

\* The request names an action; what is none of LikeAction, or null, is not
\* refused and takes a like back without the check.
Unlike(post, action) ==
  /\ action = "decrement" => MayDecrement(post)
  /\ Start({Work("replace", post, Unliked(post), "unawaited")})
  /\ downs' = [downs EXCEPT ![post.id] = @ + 1]
  /\ unchecked' = unchecked \cup (IF action = "decrement" THEN {} ELSE {post.id})
  /\ UNCHANGED <<posts, index, blob, home, cache, issued, removed, ups, edited, raced>>

GetAudio(post) ==
  /\ post.content # None /\ ~post.audio
  /\ Start({Work("speak", post, [post EXCEPT !.audio = TRUE], "unawaited")})
  /\ UNCHANGED <<posts, index, blob, home, cache, issued, told, edited, raced>>

UpdateSlugs ==
  /\ \E number \in [posts -> 1..Cardinality(posts)] :
       /\ \A p \in posts : \A n \in 1..number[p] :
            \E q \in posts : q.slug[1] = p.slug[1] /\ number[q] = n
       /\ \A p, q \in posts :
            p.slug[1] = q.slug[1] /\ number[p] = number[q] => p = q
       /\ Start({[op |-> "renumber", ok |-> TRUE,
            left |-> {<<p, [p EXCEPT !.slug[2] = number[p]]>> : p \in posts}]})
  /\ raced' = raced \cup SlugRace
  /\ UNCHANGED <<posts, index, blob, home, cache, issued, told, edited>>

\* syncAlgolia saves every post it reads, the inactive ones too, and does not
\* wait for the index.
SyncAlgolia ==
  /\ Start({IndexCall("save", p) : p \in posts})
  /\ raced' = raced \cup
       {p.id : p \in {q \in posts : \E c \in BagToSet(pending) : q.id \in About(c)}}
  /\ UNCHANGED <<posts, index, blob, home, cache, issued, told, edited>>

\* The document of the slot is replaced, whether or not the post exists.
UpdateHomePosts(slot, id) ==
  /\ Start({[op |-> "assign", slot |-> slot, id |-> id]})
  /\ UNCHANGED <<posts, index, blob, home, cache, issued, told, edited, raced>>

\* A page that is in the cache is the answer.
GetHomePosts ==
  /\ cache = None
  /\ Start({[op |-> "page", names |-> home, shows |-> [s \in Slots |-> Omitted]]})
  /\ UNCHANGED <<posts, index, blob, home, cache, issued, told, edited, raced>>

-----------------------------------------------------------------------------
(* The calls under way are answered. *)

\* getSlugs
ChooseSlug(c) ==
  /\ c.op \in {"retitle", "retitleMove"}
  /\ Continue(c, {[c EXCEPT
       !.op = IF c.op = "retitle" THEN "replace" ELSE "move",
       !.post.slug[2] = FreeNumber(c.post.slug[1])]})
  /\ raced' = raced \cup SlugRace
  /\ UNCHANGED <<posts, index, blob, home, cache, issued, told, edited>>

\* checkPostReferences.  A removal is sent to the index before the container.
CheckPostReferences(c) ==
  /\ c.op \in {"deactivate", "erase"}
  /\ ~Referenced(c.post.id)
  /\ \/ /\ c.op = "deactivate"
        /\ Continue(c, {[c EXCEPT !.op = "replace"]})
        /\ UNCHANGED raced
     \/ /\ c.op = "erase"
        /\ Continue(c, {[c EXCEPT !.op = "remove"]} \cup Follow(c))
        /\ raced' = raced \cup Overlap(c, c.post.id, {"index"})
  /\ UNCHANGED <<posts, index, blob, home, cache, issued, told, edited>>

Replace(c) ==
  /\ c.op = "replace"
  /\ CanReplace(c.post)
  /\ posts' = (posts \ Stored(c.post)) \cup {c.post}
  /\ AfterWrite(c)
  /\ Edit(c)
  /\ UNCHANGED <<index, blob, home, issued, told>>

\* The delete of a post whose category changes.
Move(c) ==
  /\ c.op = "move"
  /\ CanDelete(c.seen)
  /\ posts' = posts \ Stored(c.seen)
  /\ Continue(c, {[c EXCEPT !.op = "insert"]})
  /\ raced' = raced \cup Overlap(c, c.post.id, WorkOps \cup {"renumber"})
  /\ Edit(c)
  /\ UNCHANGED <<index, blob, home, cache, issued, told>>

\* items.create(post): 409 if the id is stored in that category.
Insert(c) ==
  /\ c.op = "insert"
  /\ Stored(c.post) = {}
  /\ posts' = posts \cup {c.post}
  /\ AfterWrite(c)
  /\ UNCHANGED <<index, blob, home, issued, told, edited>>

Remove(c) ==
  /\ c.op = "remove"
  /\ CanDelete(c.seen)
  /\ posts' = posts \ Stored(c.seen)
  /\ removed' = removed \cup {c.post.id}
  /\ Continue(c, {})
  /\ raced' = raced \cup Overlap(c, c.post.id, WorkOps \cup {"renumber"})
  /\ UNCHANGED <<index, blob, home, cache, issued, ups, downs, unchecked, edited>>

\* getAudioFromText; neither the upload nor the replace is awaited.
Speak(c) ==
  /\ c.op = "speak"
  /\ Continue(c, {[c EXCEPT !.op = "replace"],
                  [op |-> "upload", id |-> c.post.id, content |-> c.post.content]})
  /\ raced' = raced \cup Overlap(c, c.post.id, {"upload"})
  /\ UNCHANGED <<posts, index, blob, home, cache, issued, told, edited>>

Upload(c) ==
  /\ c.op = "upload"
  /\ blob' = [blob EXCEPT ![c.id] = c.content]
  /\ Continue(c, {})
  /\ UNCHANGED <<posts, index, home, cache, issued, told, edited, raced>>

\* Whether a partial update creates a missing record is left to the library.
SearchIndex(c) ==
  /\ c.op = "index"
  /\ \/ c.kind \in {"save", "update"} /\ index' = [index EXCEPT ![c.id] = c.slug]
     \/ c.kind = "update" /\ index[c.id] = None /\ UNCHANGED index
     \/ c.kind = "delete" /\ index' = [index EXCEPT ![c.id] = None]
  /\ Continue(c, {})
  /\ UNCHANGED <<posts, blob, home, cache, issued, told, edited, raced>>

\* One of the replaces updateSlugs has sent; a post that is gone fails them.
Renumber(c) ==
  /\ c.op = "renumber"
  /\ \E w \in c.left :
       /\ posts' = (posts \ Stored(w[2])) \cup (IF Stored(w[2]) # {} THEN {w[2]} ELSE {})
       /\ Continue(c, {[c EXCEPT !.left = @ \ {w}, !.ok = @ /\ Stored(w[2]) # {}]})
       /\ edited' = edited \cup {w[1].id}
       /\ raced' = raced \cup Overlap(c, w[1].id, WorkOps \cup {"renumber"})
                        \cup (IF Stored(w[2]) = {} THEN {"slugs"} ELSE {})
  /\ UNCHANGED <<index, blob, home, cache, issued, told>>

FinishSlugs(c) ==
  /\ c.op = "renumber"
  /\ c.left = {}
  /\ Continue(c, {})
  /\ cache' = IF c.ok THEN None ELSE cache
  /\ raced' = raced \cup (IF c.ok THEN CacheRace ELSE {})
  /\ UNCHANGED <<posts, index, blob, home, issued, told, edited>>

BeingRemoved(id) == \E c \in BagToSet(pending) : c.op = "remove" /\ c.post.id = id

Assign(c) ==
  /\ c.op = "assign"
  /\ home' = [home EXCEPT ![c.slot] = c.id]
  /\ cache' = None
  /\ Continue(c, {})
  /\ raced' = (IF Exists(c.id) /\ ~BeingRemoved(c.id)
               THEN raced \ {c.slot} ELSE raced \cup {c.slot}) \cup CacheRace
  /\ UNCHANGED <<posts, index, blob, issued, told, edited>>

Shown(id) == {p.slug : p \in {q \in posts : q.id = id}}

ReadPost(c) ==
  /\ c.op = "page"
  /\ \E s \in Slots :
       /\ c.shows[s] = Omitted
       /\ \E slug \in IF Exists(c.names[s]) THEN Shown(c.names[s]) ELSE {None} :
            Continue(c, {[c EXCEPT !.shows[s] = slug]})
  /\ UNCHANGED <<posts, index, blob, home, cache, issued, told, edited, raced>>

FillCache(c) ==
  /\ c.op = "page"
  /\ \A s \in Slots : c.shows[s] # Omitted
  /\ cache' = [s \in Slots |-> <<c.names[s], c.shows[s]>>]
  /\ Continue(c, {})
  /\ UNCHANGED <<posts, index, blob, home, issued, told, edited, raced>>

Answer(c) ==
  \/ ChooseSlug(c) \/ CheckPostReferences(c) \/ Replace(c) \/ Move(c) \/ Insert(c)
  \/ Remove(c) \/ Speak(c) \/ Upload(c) \/ SearchIndex(c) \/ Renumber(c)
  \/ FinishSlugs(c) \/ Assign(c) \/ ReadPost(c) \/ FillCache(c)

\* LONG_CACHE_TIME has passed.
Expire ==
  /\ cache # None
  /\ cache' = None
  /\ UNCHANGED <<posts, index, blob, home, pending, issued, told, edited, raced>>

Unawaited(c) ==
  \/ c.op \in {"index", "upload"}
  \/ c.op = "replace" /\ c.after = "unawaited"

\* A call that is lost may leave its post half changed.
Lost(c) ==
  IF c.op = "renumber" THEN About(c) \cup {"slugs"}
  ELSE IF Unawaited(c) \/ c.op \in {"insert", "remove"} THEN About(c) ELSE {}

\* An awaited call fails or is refused, and with it the request.
Fail(c) ==
  /\ ~Unawaited(c) /\ c.op # "renumber"
  /\ Continue(c, {})
  /\ raced' = raced \cup Lost(c)
  /\ UNCHANGED <<posts, index, blob, home, cache, issued, told, edited>>

\* The process restarts: also what a failed call nobody awaits brings about.
Restart ==
  /\ pending' = EmptyBag
  /\ cache' = None
  /\ raced' = raced \cup UNION {Lost(c) : c \in BagToSet(pending)}
  /\ UNCHANGED <<posts, index, blob, home, issued, told, edited>>

Request ==
  \/ \E id \in Ids, title \in Titles, category \in Categories,
        content \in Contents \cup {None} : Create(id, title, category, content)
  \/ \E post \in posts, title \in Titles \cup {Omitted},
        category \in Categories \cup {Omitted}, content \in Contents \cup {None, Omitted} :
       Update(post, title, category, content)
         \/ UpdatePostRequest(post, title, category, content)
  \/ \E post \in posts :
       ToggleActiveState(post) \/ RemovePost(post)
         \/ Like(post) \/ (\E action \in {"decrement", "other"} : Unlike(post, action))
         \/ GetAudio(post)
  \/ UpdateSlugs \/ SyncAlgolia
  \/ \E slot \in Slots, id \in Ids : UpdateHomePosts(slot, id)

Next ==
  \/ Request \/ GetHomePosts
  \/ \E c \in BagToSet(pending) : Answer(c) \/ Fail(c)
  \/ Expire \/ Restart

Spec == Init /\ [][Next]_vars

-----------------------------------------------------------------------------
(* Safety. *)

\* A post is stored once, whatever requests move it between categories.
\* (update and updatePostRequest delete a post before they create it again.)
OneCopy == \A p, q \in posts : p.id = q.id => p = q

\* A post whose removal was confirmed is never stored again, although requests
\* that have read it are still under way.
\* (remove, and the writes of every other handler.)
RemovedForGood == \A p \in posts : p.id \notin removed

\* A post never has more likes than it was given, nor lost more than were taken
\* back, and it is below zero only if a like was taken back unchecked, however
\* stale the posts are that handlers write back.  (updateLikes.)
LikesBounded ==
  \A p \in posts :
    /\ p.likes \in -downs[p.id]..ups[p.id]
    /\ p.likes < 0 => p.id \in unchecked

Settled(id) == id \notin raced /\ \A c \in BagToSet(pending) : id \notin About(c)

\* A post about which no two calls have overlapped and none was lost has the
\* likes callers were told of, and is in the index under its slug while it is
\* active, unless a post request or updateSlugs gave it another; its audio
\* speaks its content, unless a post request changed it.  Once removed, it is
\* not in the index.  (An inactive post may be: update and syncAlgolia save it.)
\* (create, update, toggleActiveState, remove, updateLikes, getAudio.)
AsTold ==
  \A id \in Ids : Settled(id) =>
    /\ \A p \in posts : p.id = id =>
         /\ p.likes + downs[id] = ups[id]
         /\ p.active /\ id \notin edited => index[id] = p.slug
         /\ p.audio /\ p.content # None /\ id \notin edited => blob[id] = p.content
    /\ id \in removed => index[id] = None

\* Two posts have the same slug only if a slug was chosen while another was
\* about to be written, or updateSlugs is halfway, or calls on a post raced.
\* (generateUniqueSlug in create, update, updatePostRequest and updateSlugs.)
SlugsUnlessRaced ==
  raced \cap (Ids \cup {"slugs"}) = {} /\ (\A c \in BagToSet(pending) : c.op # "renumber")
    => \A p, q \in posts : p.slug = q.slug => p = q

\* The home page names no post that does not exist, unless the slot was given
\* to it when it did not exist or was just being removed, or the post was lost
\* while it changed its category.
\* (checkPostReferences in remove; updateHomePosts.)
ReferencesHold ==
  \A s \in Slots : home[s] # None /\ s \notin raced =>
    \/ Exists(home[s])
    \/ \E c \in BagToSet(pending) : c.op = "insert" /\ c.post.id = home[s]
    \/ home[s] \in raced

\* The cached home page names the posts the slots name and shows their present
\* slugs, unless it was being read while the cache was emptied, a post request
\* or updateSlugs changed the post, or the slot names no existing post.
\* (getHomePosts; update and updateHomePosts empty the cache.)
CacheUnlessRaced ==
  cache # None /\ "cache" \notin raced =>
    \A s \in Slots :
      /\ cache[s][1] = home[s]
      /\ home[s] # None /\ {s, home[s]} \cap (raced \cup edited) = {} =>
           \A p \in posts : p.id = home[s] => cache[s][2] = p.slug

\* What checkPostReferences promises (see the finding): when a post is deleted
\* no slot of the home page names it.
NoReferenceToDeleted ==
  \A c \in BagToSet(pending) : c.op = "remove" => ~Referenced(c.post.id)

-----------------------------------------------------------------------------
(* Liveness. *)

\* The database answers, and a cache entry does expire.
Fairness == WF_vars(\E c \in BagToSet(pending) : Answer(c)) /\ WF_vars(Expire)

CurrentPage ==
  [s \in Slots |->
     <<home[s], IF Exists(home[s]) THEN CHOOSE slug \in Shown(home[s]) : TRUE ELSE None>>]

Writing == \E c \in BagToSet(pending) : c.op # "page"

\* Once nothing is written any more, the cached home page is, from some time
\* on, what the containers say: a stale page does not stay.
\* (LONG_CACHE_TIME; getHomePosts.)
HomePageSettles ==
  <>[]~Writing => <>[](cache \in {None, CurrentPage})
=============================================================================
