--------------------------- MODULE CommunityProofs ---------------------------
(***************************************************************************)
(* Proofs about Community for any number of comments, conversations,       *)
(* visits, files and entries, and for any calls under way, or lost.  Each  *)
(* service has an invariant over its documents and its own calls; a step   *)
(* of another service leaves both alone.                                   *)
(***************************************************************************)
EXTENDS Community, CallsProofs, FiniteProofs

-----------------------------------------------------------------------------
(* Catalogues: whatever requests overlap, and whatever else is under way, a *)
(* list shows what was told but for the fields that `lost` names, and       *)
(* nothing comes back that was deleted.                                     *)

\* A stored document is what was told of it, except where a request lost a
\* field; and what was told of is stored, unless it was deleted.
EntriesAsTold ==
  /\ \A e \in entries :
       /\ e.id \notin gone
       /\ told[e.id] # None /\ told[e.id].service = e.service
       /\ \A f \in Fields : e[f] = told[e.id][f] \/ <<e.id, f>> \in lost
       /\ e.deleted => e.service \in Marking
  /\ \A id \in EntryIds : told[id] # None /\ id \notin gone => \E e \in entries : e.id = id
  /\ \A id \in gone : told[id] # None

\* A request under way writes what it has read but for the fields it sets, and
\* marks nothing that its service deletes.
Faithful(c) ==
  /\ c \in CatalogueCall
  /\ c.seen.id = c.entry.id
  /\ told[c.entry.id] # None /\ told[c.entry.id].service = c.entry.service
  /\ \A f \in Fields \ c.set : c.entry[f] = c.seen[f]
  /\ c.entry.deleted => c.entry.service \in Marking

CatalogueOps == {"replaceEntry"}

CatalogueInv ==
  /\ CataloguesTypeOK
  /\ EntriesAsTold
  /\ \A c \in BagToSet(pending) : c.op \in CatalogueOps => Faithful(c)

\* What a step does to the calls under way.
CallsFollow ==
  /\ IsABag(pending')
  /\ BagToSet(pending') \subseteq BagToSet(pending) \cup CatalogueCall
  /\ \A ops : ops \cap CatalogueOps = {} => SameCalls(ops)

-----------------------------------------------------------------------------
(* How calls come and go. *)

LEMMA SendCalls ==
  ASSUME IsABag(pending), NEW call \in CatalogueCall, Start({call})
  PROVE  CallsFollow /\ BagToSet(pending') = BagToSet(pending) \cup {call}
<1>1. IsABag(pending') /\ BagToSet(pending') = BagToSet(pending) \cup {call}
  BY StartCalls
<1>2. call.op = "replaceEntry"
  BY DEF CatalogueCall
<1>3. ASSUME NEW ops, ops \cap CatalogueOps = {}
      PROVE  SameCalls(ops)
  BY <1>2, <1>3, StartOthers DEF CatalogueOps
<1> QED
  BY <1>1, <1>3 DEF CallsFollow

LEMMA AnswerCalls ==
  ASSUME IsABag(pending), NEW c \in BagToSet(pending), c.op \in CatalogueOps, Continue(c, {})
  PROVE  CallsFollow /\ BagToSet(pending') \subseteq BagToSet(pending)
<1>1. IsABag(pending') /\ BagToSet(pending') \subseteq BagToSet(pending)
  BY ContinueCalls
<1>2. ASSUME NEW ops, ops \cap CatalogueOps = {}
      PROVE  SameCalls(ops)
  BY <1>2, ContinueOthers DEF CatalogueOps
<1> QED
  BY <1>1, <1>2 DEF CallsFollow

LEMMA NoSend ==
  ASSUME IsABag(pending), UNCHANGED pending
  PROVE  CallsFollow
BY DEF CallsFollow, SameCalls

-----------------------------------------------------------------------------
(* The documents at the beginning, and when others act. *)

LEMMA CataloguesBegin ==
  ASSUME CataloguesInit, BagToSet(pending) = {}
  PROVE  CatalogueInv
<1>1. PICK name, note \in [Settings -> Texts] :
        LET setting(id) == [id |-> id, service |-> "settings", name |-> name[id],
                            note |-> note[id], deleted |-> FALSE] IN
        /\ entries = {setting(id) : id \in Settings}
        /\ told = [id \in EntryIds |-> IF id \in Settings THEN setting(id) ELSE None]
  BY DEF CataloguesInit
<1> DEFINE setting(id) == [id |-> id, service |-> "settings", name |-> name[id],
                           note |-> note[id], deleted |-> FALSE]
<1>2. \A id \in Settings : setting(id) \in Entry
  BY CataloguesAssumption DEF Entry, Services
<1>3. \A id \in Settings : setting(id) # None
  BY <1>2, CataloguesAssumption
<1>4. /\ \A id \in Settings : /\ setting(id).id = id /\ setting(id).service = "settings"
                              /\ ~setting(id).deleted
      /\ entries = {setting(id) : id \in Settings}
      /\ told = [id \in EntryIds |-> IF id \in Settings THEN setting(id) ELSE None]
  BY <1>1
<1> HIDE DEF setting
<1>5. CataloguesTypeOK
  <2>1. entries \subseteq Entry /\ \A d, e \in entries : d.id = e.id => d = e
    BY <1>2, <1>4
  <2>2. told \in [EntryIds -> Entry \cup {None}]
    BY <1>2, <1>4
  <2> QED
    BY <2>1, <2>2 DEF CataloguesInit, CataloguesTypeOK
<1>6. EntriesAsTold
  BY <1>3, <1>4, CataloguesAssumption DEF CataloguesInit, EntriesAsTold
<1> QED
  BY <1>5, <1>6 DEF CatalogueInv

LEMMA CataloguesApart ==
  ASSUME CatalogueInv, UNCHANGED entryVars,
         \A c \in BagToSet(pending') : c.op \in CatalogueOps => c \in BagToSet(pending)
  PROVE  CatalogueInv'
BY DEF CatalogueInv, CataloguesTypeOK, EntriesAsTold, Faithful, entryVars

-----------------------------------------------------------------------------
(* Requests. *)

\* A document with fields of another is a document.
LEMMA HavingEntry ==
  ASSUME NEW d \in Entry, NEW e \in Entry, NEW set \in SUBSET Fields
  PROVE  /\ Having(d, set, e) \in Entry
         /\ Having(d, set, e).service = d.service
BY DEF Having, Entry, Fields

\* A request that reads a document and sends what it makes of it.
LEMMA SendEntryStep ==
  ASSUME IsABag(pending), CatalogueInv,
         NEW e \in entries, NEW new \in Entry, NEW set \in SUBSET Fields,
         SendEntry(e, new, set),
         new.id = e.id, new.service = e.service,
         \A f \in Fields \ set : new[f] = e[f],
         new.deleted => new.service \in Marking
  PROVE  CatalogueInv' /\ CallsFollow
<1> DEFINE call == [op |-> "replaceEntry", seen |-> e, entry |-> new, set |-> set]
<1>1. call \in CatalogueCall /\ Faithful(call)
  BY DEF CatalogueInv, CataloguesTypeOK, EntriesAsTold, CatalogueCall, Faithful
<1>2. Start({call}) /\ UNCHANGED entryVars
  BY DEF SendEntry
<1> HIDE DEF call
<1>3. CallsFollow /\ BagToSet(pending') = BagToSet(pending) \cup {call}
  BY <1>1, <1>2, SendCalls
<1>4. CataloguesTypeOK' /\ EntriesAsTold'
  BY <1>2 DEF CatalogueInv, CataloguesTypeOK, EntriesAsTold, entryVars
<1>5. \A c \in BagToSet(pending') : c.op \in CatalogueOps => Faithful(c)'
  BY <1>1, <1>2, <1>3 DEF CatalogueInv, Faithful, entryVars
<1> QED
  BY <1>3, <1>4, <1>5 DEF CatalogueInv

LEMMA UpdateEntryStep ==
  ASSUME IsABag(pending), CatalogueInv, NEW e \in entries, UpdateEntry(e)
  PROVE  CatalogueInv' /\ CallsFollow
<1>1. PICK set \in SUBSET Editable(e.service), name \in Texts, note \in Texts :
        SendEntry(e, Changed(e, set, name, note), set)
  BY DEF UpdateEntry
<1> DEFINE new == Changed(e, set, name, note)
<1>2. e \in Entry
  BY DEF CatalogueInv, CataloguesTypeOK
<1>3. /\ new \in Entry /\ new.id = e.id /\ new.service = e.service
      /\ new.deleted = e.deleted
      /\ "name" \notin set => new.name = e.name
      /\ "note" \notin set => new.note = e.note
  BY <1>2 DEF Changed, Entry
<1>4. set \in SUBSET Fields
  BY DEF Editable, Fields
<1>5. \A f \in Fields \ set : new[f] = e[f]
  BY <1>3 DEF Fields
<1>6. new.deleted => new.service \in Marking
  BY <1>3 DEF CatalogueInv, EntriesAsTold
<1> HIDE DEF new
<1> QED
  BY <1>1, <1>3, <1>4, <1>5, <1>6, SendEntryStep DEF new

\* The value of a setting is replaced, or goes.
LEMMA UpdateSettingStep ==
  ASSUME IsABag(pending), CatalogueInv, NEW e \in entries, UpdateSetting(e)
  PROVE  CatalogueInv' /\ CallsFollow
<1>1. PICK note \in Texts \cup {None} : SendEntry(e, [e EXCEPT !.note = note], {"note"})
  BY DEF UpdateSetting
<1> DEFINE new == [e EXCEPT !.note = note]
<1>2. e \in Entry
  BY DEF CatalogueInv, CataloguesTypeOK
<1>3. /\ new \in Entry /\ new.id = e.id /\ new.service = e.service
      /\ new.deleted = e.deleted
  BY <1>2 DEF Entry
<1>4. \A f \in Fields \ {"note"} : new[f] = e[f]
  BY <1>2 DEF Entry, Fields
<1>5. new.deleted => new.service \in Marking
  BY <1>3 DEF CatalogueInv, EntriesAsTold
<1> HIDE DEF new
<1> QED
  BY <1>1, <1>3, <1>4, <1>5, SendEntryStep DEF new, Fields

LEMMA MarkDeletedStep ==
  ASSUME IsABag(pending), CatalogueInv, NEW e \in entries, MarkDeleted(e)
  PROVE  CatalogueInv' /\ CallsFollow
<1> DEFINE new == [e EXCEPT !.deleted = TRUE]
<1>1. e \in Entry
  BY DEF CatalogueInv, CataloguesTypeOK
<1>2. new \in Entry /\ new.id = e.id /\ new.service = e.service
  BY <1>1 DEF Entry
<1>3. \A f \in Fields \ {"deleted"} : new[f] = e[f]
  BY <1>1 DEF Entry, Fields
<1>4. e.service \in Marking /\ SendEntry(e, new, {"deleted"})
  BY DEF MarkDeleted
<1> HIDE DEF new
<1> QED
  BY <1>2, <1>3, <1>4, SendEntryStep DEF Fields

LEMMA CreateEntryStep ==
  ASSUME IsABag(pending), CatalogueInv, NEW id \in EntryIds, NEW service \in Services,
         NEW name \in Texts \cup {None}, NEW note \in Texts \cup {None},
         CreateEntry(id, service, name, note)
  PROVE  CatalogueInv' /\ CallsFollow
<1> DEFINE e == [id |-> id, service |-> service, name |-> name, note |-> note,
                 deleted |-> FALSE]
<1>1. e.id = id /\ e.service = service /\ ~e.deleted
  OBVIOUS
<1>2. e \in Entry /\ e # None
  <2>1. e \in Entry
    BY DEF Entry
  <2> QED
    BY <2>1, CataloguesAssumption
<1>3. told[id] = None /\ entries' = entries \cup {e} /\ told' = [told EXCEPT ![id] = e]
      /\ UNCHANGED <<pending, lost, gone>>
  BY DEF CreateEntry
<1> HIDE DEF e
<1>4. \A d \in entries : d.id # id /\ told'[d.id] = told[d.id]
  BY <1>3 DEF CatalogueInv, CataloguesTypeOK, EntriesAsTold, Entry
<1>5. id \notin gone
  BY <1>3 DEF CatalogueInv, EntriesAsTold
<1>6. CataloguesTypeOK'
  BY <1>1, <1>2, <1>3, <1>4 DEF CatalogueInv, CataloguesTypeOK
<1>7. EntriesAsTold'
  BY <1>1, <1>2, <1>3, <1>4, <1>5 DEF CatalogueInv, CataloguesTypeOK, EntriesAsTold
<1>8. \A c \in BagToSet(pending') : c.op \in CatalogueOps => Faithful(c)'
  BY <1>3 DEF CatalogueInv, CataloguesTypeOK, Faithful, CatalogueCall, Entry
<1> QED
  BY <1>3, <1>6, <1>7, <1>8, NoSend DEF CatalogueInv

LEMMA DeleteEntryStep ==
  ASSUME IsABag(pending), CatalogueInv, NEW e \in entries, DeleteEntry(e)
  PROVE  CatalogueInv' /\ CallsFollow
<1>1. entries' = entries \ {e} /\ gone' = gone \cup {e.id} /\ UNCHANGED <<pending, told, lost>>
  BY DEF DeleteEntry
<1>2. CataloguesTypeOK'
  BY <1>1 DEF CatalogueInv, CataloguesTypeOK, Entry
<1>3. EntriesAsTold'
  BY <1>1 DEF CatalogueInv, CataloguesTypeOK, EntriesAsTold
<1>4. \A c \in BagToSet(pending') : c.op \in CatalogueOps => Faithful(c)'
  BY <1>1 DEF CatalogueInv, Faithful
<1> QED
  BY <1>1, <1>2, <1>3, <1>4, NoSend DEF CatalogueInv

-----------------------------------------------------------------------------
(* Answers. *)

\* A replace of a document that is not there changes nothing; otherwise it
\* stores its copy in the place of the document.
LEMMA ReplaceEntryStep ==
  ASSUME IsABag(pending), CatalogueInv, NEW c \in BagToSet(pending), ReplaceEntry(c)
  PROVE  CatalogueInv' /\ CallsFollow
<1> DEFINE id == c.entry.id
           current == {e \in entries : e.id = id}
           overtaken == {f \in Fields \ c.set : \E d \in current : d[f] # c.seen[f]}
<1>1. c.op \in CatalogueOps /\ Faithful(c)
  BY DEF CatalogueInv, ReplaceEntry, CatalogueOps
<1>2. c.entry \in Entry /\ c.set \subseteq Fields /\ id \in EntryIds
  BY <1>1 DEF Faithful, CatalogueCall, Entry
<1>3. /\ entries' = Replaced(c) /\ UNCHANGED gone
      /\ CallsFollow /\ BagToSet(pending') \subseteq BagToSet(pending)
  BY <1>1, AnswerCalls DEF ReplaceEntry
<1>4. CASE current = {}
  <2>1. UNCHANGED <<entries, told, lost>>
    BY <1>3, <1>4 DEF CatalogueInv, ReplaceEntry, Replaced
  <2> QED
    BY <1>3, <2>1, CataloguesApart DEF entryVars
<1>5. CASE current # {}
  <2>1. PICK d \in entries : d.id = id
    BY <1>5
  <2>2. current = {d}
    BY <2>1 DEF CatalogueInv, CataloguesTypeOK
  <2>3. entries' = (entries \ {d}) \cup {c.entry}
    BY <1>3, <2>2 DEF Replaced
  <2>4. told[id] \in Entry /\ told[id].service = c.entry.service /\ id \notin gone
    BY <1>1, <1>2, <2>1 DEF CatalogueInv, CataloguesTypeOK, Faithful, EntriesAsTold
  <2>5. /\ told' = [told EXCEPT ![id] = Having(told[id], c.set, c.entry)]
        /\ Having(told[id], c.set, c.entry) \in Entry
        /\ Having(told[id], c.set, c.entry).service = told[id].service
    BY <1>1, <1>2, <1>5, <2>4, HavingEntry DEF ReplaceEntry
  <2>6. /\ told'[id] \in Entry /\ told'[id].service = c.entry.service
        /\ told' \in [EntryIds -> Entry \cup {None}]
        /\ \A other \in EntryIds \ {id} : told'[other] = told[other]
    BY <1>1, <1>2, <2>4, <2>5 DEF CatalogueInv, CataloguesTypeOK
  <2>7. \A f \in Fields : told'[id][f] = IF f \in c.set THEN c.entry[f] ELSE told[id][f]
    BY <1>1, <1>2, <2>4, <2>5 DEF CatalogueInv, CataloguesTypeOK, Entry, Fields, Having
  <2>8. lost' = (lost \ ({id} \X c.set)) \cup ({id} \X overtaken)
    BY <1>5 DEF ReplaceEntry
  <2>9. \A f \in Fields : c.entry[f] = told'[id][f] \/ <<id, f>> \in lost'
    <3> SUFFICES ASSUME NEW f \in Fields, f \notin c.set, c.entry[f] # told[id][f]
                 PROVE  <<id, f>> \in lost'
      BY <2>7
    <3>1. c.entry[f] = c.seen[f]
      BY <1>1, <1>2 DEF Faithful
    <3>2. CASE d[f] # c.seen[f]
      BY <2>2, <2>8, <3>2
    <3>3. CASE d[f] = c.seen[f]
      BY <2>1, <2>8, <3>1, <3>3 DEF CatalogueInv, EntriesAsTold
    <3> QED
      BY <3>2, <3>3
  <2>10. \A e \in entries \ {d} : e.id # id /\ e.id \in EntryIds
    BY <2>2 DEF CatalogueInv, CataloguesTypeOK, Entry
  <2>11. CataloguesTypeOK'
    <3>1. \A x, y \in entries' : x.id = y.id => x = y
      BY <2>3, <2>10 DEF CatalogueInv, CataloguesTypeOK
    <3>2. lost' \subseteq EntryIds \X Fields
      BY <1>1, <1>2, <2>8 DEF CatalogueInv, CataloguesTypeOK
    <3> QED
      BY <1>1, <1>2, <1>3, <2>3, <2>6, <3>1, <3>2 DEF CatalogueInv, CataloguesTypeOK
  <2>12. EntriesAsTold'
    <3>1. \A e \in entries \ {d} : \A f \in Fields :
            e[f] = told'[e.id][f] \/ <<e.id, f>> \in lost'
      BY <2>6, <2>8, <2>10 DEF CatalogueInv, EntriesAsTold
    <3>2. c.entry \in entries' /\ told'[id] # None
      BY <2>3, <2>6, CataloguesAssumption
    <3>3. \A i \in EntryIds : told'[i] # None /\ i \notin gone' => \E e \in entries' : e.id = i
      BY <1>3, <2>1, <2>3, <2>6, <3>2 DEF CatalogueInv, EntriesAsTold
    <3>4. \A i \in gone' : told'[i] # None
      BY <1>3, <2>6, <3>2 DEF CatalogueInv, CataloguesTypeOK, EntriesAsTold
    <3>5. \A e \in entries' :
            /\ e.id \notin gone'
            /\ told'[e.id] # None /\ told'[e.id].service = e.service
            /\ e.deleted => e.service \in Marking
      BY <1>1, <1>2, <1>3, <2>3, <2>4, <2>6, <2>10, <3>2 DEF CatalogueInv, EntriesAsTold, Faithful
    <3>6. \A e \in entries' : \A f \in Fields :
            e[f] = told'[e.id][f] \/ <<e.id, f>> \in lost'
      BY <2>3, <2>9, <3>1
    <3> QED
      BY <3>3, <3>4, <3>5, <3>6 DEF EntriesAsTold
  <2>13. \A x \in BagToSet(pending') : x.op \in CatalogueOps => Faithful(x)'
    <3> SUFFICES ASSUME NEW x \in BagToSet(pending), x.op \in CatalogueOps
                 PROVE  Faithful(x)'
      BY <1>3
    <3>1. x.entry.id \in EntryIds /\ Faithful(x)
      BY DEF CatalogueInv, Faithful, CatalogueCall, Entry
    <3>2. told'[x.entry.id] # None /\ told'[x.entry.id].service = told[x.entry.id].service
      BY <2>4, <2>6, <3>1, CataloguesAssumption DEF Faithful
    <3> QED
      BY <3>1, <3>2 DEF Faithful
  <2> QED
    BY <1>3, <2>11, <2>12, <2>13 DEF CatalogueInv
<1> QED
  BY <1>4, <1>5

LEMMA FailEntryStep ==
  ASSUME IsABag(pending), CatalogueInv, NEW c \in BagToSet(pending), FailEntry(c)
  PROVE  CatalogueInv' /\ CallsFollow
<1>1. UNCHANGED entryVars /\ c.op \in CatalogueOps /\ Continue(c, {})
  BY DEF FailEntry, CatalogueOps
<1>2. CallsFollow /\ BagToSet(pending') \subseteq BagToSet(pending)
  BY <1>1, AnswerCalls
<1> QED
  BY <1>1, <1>2, CataloguesApart

CatalogueStep ==
  \/ CatalogueRequest
  \/ \E c \in BagToSet(pending) : ReplaceEntry(c) \/ FailEntry(c)

LEMMA CatalogueSteps ==
  ASSUME IsABag(pending), CatalogueInv, CatalogueStep
  PROVE  CatalogueInv' /\ CallsFollow
<1>1. ASSUME NEW id \in EntryIds \ Settings, NEW service \in Services \ {"settings"},
             NEW name \in Texts \cup {None}, NEW note \in Texts \cup {None},
             CreateEntry(id, service, name, note)
      PROVE  CatalogueInv' /\ CallsFollow
  BY <1>1, CreateEntryStep
<1>2. ASSUME NEW e \in entries, UpdateEntry(e) \/ UpdateSetting(e) \/ MarkDeleted(e) \/ DeleteEntry(e)
      PROVE  CatalogueInv' /\ CallsFollow
  BY <1>2, UpdateEntryStep, UpdateSettingStep, MarkDeletedStep, DeleteEntryStep
<1>3. ASSUME NEW c \in BagToSet(pending), ReplaceEntry(c) \/ FailEntry(c)
      PROVE  CatalogueInv' /\ CallsFollow
  BY <1>3, ReplaceEntryStep, FailEntryStep
<1> QED
  BY <1>1, <1>2, <1>3 DEF CatalogueStep, CatalogueRequest

-----------------------------------------------------------------------------
(* What follows. *)

LEMMA ListsFollow ==
  ASSUME CatalogueInv
  PROVE  ListedAsTold
<1> SUFFICES ASSUME NEW service \in Services
             PROVE  /\ \A e \in ListEntries(service) :
                         /\ e.id \notin gone
                         /\ told[e.id].deleted => <<e.id, "deleted">> \in lost
                         /\ \A f \in Fields \ {"deleted"} :
                              e[f] = told[e.id][f] \/ <<e.id, f>> \in lost
                    /\ \A id \in EntryIds \ gone :
                         told[id] # None /\ told[id].service = service /\ ~told[id].deleted =>
                           \/ <<id, "deleted">> \in lost
                           \/ \E e \in ListEntries(service) : e.id = id
  BY DEF ListedAsTold
<1>1. \A e \in entries :
        /\ e.deleted \in BOOLEAN /\ told[e.id].deleted \in BOOLEAN
        /\ told[e.id].service = e.service
        /\ e.deleted = told[e.id].deleted \/ <<e.id, "deleted">> \in lost
  BY DEF CatalogueInv, CataloguesTypeOK, EntriesAsTold, Entry, Fields
<1>2. ASSUME NEW e \in ListEntries(service)
      PROVE  e \in entries /\ ~e.deleted
  BY <1>2 DEF CatalogueInv, EntriesAsTold, ListEntries
<1>3. ASSUME NEW id \in EntryIds \ gone, told[id] # None, told[id].service = service,
             ~told[id].deleted, <<id, "deleted">> \notin lost
      PROVE  \E e \in ListEntries(service) : e.id = id
  BY <1>1, <1>3 DEF CatalogueInv, EntriesAsTold, ListEntries
<1> QED
  BY <1>1, <1>2, <1>3 DEF CatalogueInv, EntriesAsTold

-----------------------------------------------------------------------------
(* The other services. *)

CommunityCall == CommentCall \cup ConversationCall \cup VisitCall \cup FileCall \cup CatalogueCall

CommentOps == {"insertComment", "listChildren", "replaceComment"}

ConversationOps == TalkOps \cup {"createMessage"}

CallsTyped == IsABag(pending) /\ BagToSet(pending) \subseteq CommunityCall

\* c and d are the same comment, perhaps at different times.
SameNode(c, d) == c.id = d.id /\ c.post = d.post /\ c.parent = d.parent

Hangs(c) ==
  c.parent # NoParent =>
    \E p \in comments : p.id = c.parent /\ p.post = c.post /\ p.parent = NoParent

Inserting(c) ==
  c.op = "insertComment" =>
    /\ pending[c] = 1
    /\ c.comment.id \in commented
    /\ \A d \in comments : d.id # c.comment.id
    /\ \A d \in BagToSet(pending) :
         d.op = "insertComment" /\ d.comment.id = c.comment.id => d = c

\* What a like or a removal has read is still there, as it is now.
Reading(c) ==
  c.op \in {"listChildren", "replaceComment"} =>
    \E d \in comments : SameNode(d, c.comment)

CommentInv ==
  /\ CommentsTypeOK
  /\ \A d \in comments : d.id \in published /\ Hangs(d)
  /\ \A c \in BagToSet(pending) : c.op \in CommentOps =>
       Inserting(c) /\ Reading(c) /\ Hangs(c.comment)

MessageInv == ConversationsTypeOK /\ MessagesHaveConversation

\* A file is being uploaded once, and is not there before.
Uploading(c) ==
  c.op \in {"upload", "insertFile"} =>
    /\ pending[c] = 1
    /\ files[c.file] = "absent"
    /\ \A d \in BagToSet(pending) :
         d.op \in {"upload", "insertFile"} /\ d.file = c.file => d = c

Removing(c) ==
  c.op = "replaceFile" =>
    c.file \in unlisted /\ (c.found => files[c.file] # "absent")

FileInv ==
  /\ FilesTypeOK
  /\ \A f \in FileIds :
       /\ f \in uploaded => files[f] # "absent"
       /\ files[f] = "deleted" => f \in unlisted
       /\ f \in unlisted /\ files[f] # "deleted" =>
            f \in forgotten \cup FilesOf(BagToSet(pending))
  /\ \A c \in BagToSet(pending) : c.op \in FileOps =>
       Uploading(c) /\ Removing(c)

IInv == CallsTyped /\ CommentInv /\ MessageInv /\ VisitsTypeOK /\ FileInv /\ CatalogueInv

-----------------------------------------------------------------------------
(* What a step leaves alone. *)

\* The operation of a call tells whose call it is.
LEMMA CallKinds ==
  ASSUME NEW c \in CommunityCall
  PROVE  /\ c.op \in CommentOps \cup ConversationOps \cup VisitOps \cup FileOps
                      \cup CatalogueOps
         /\ c.op \in CommentOps => c \in CommentCall
         /\ c.op \in TalkOps =>
              c \in [op : {"createConversation", "touchConversation", "closeConversation"},
                     conversation : Conversation]
         /\ c.op = "createMessage" => c \in [op : {"createMessage"}, message : Message]
         /\ c.op \in {"readCounter", "createCounter"} =>
              c \in [op : {"readCounter", "createCounter"}, first : BOOLEAN]
         /\ c.op = "upsertCounter" => c \in [op : {"upsertCounter"}, counter : Counter]
         /\ c.op \in {"upload", "insertFile"} =>
              c \in [op : {"upload", "insertFile"}, file : FileIds]
         /\ c.op = "replaceFile" =>
              c \in [op : {"replaceFile"}, file : FileIds, found : BOOLEAN]
         /\ c.op \in CatalogueOps => c \in CatalogueCall
<1>1. CASE c \in CommentCall
  BY <1>1 DEF CommentCall, CommentOps, ConversationOps, TalkOps, VisitOps, FileOps, CatalogueOps
<1>2. CASE c \in ConversationCall
  BY <1>2 DEF ConversationCall, CommentOps, ConversationOps, TalkOps, VisitOps, FileOps, CatalogueOps
<1>3. CASE c \in VisitCall
  BY <1>3 DEF VisitCall, CommentOps, ConversationOps, TalkOps, VisitOps, FileOps, CatalogueOps
<1>4. CASE c \in FileCall
  BY <1>4 DEF FileCall, CommentOps, ConversationOps, TalkOps, VisitOps, FileOps, CatalogueOps
<1>5. CASE c \in CatalogueCall
  BY <1>5 DEF CatalogueCall, CommentOps, ConversationOps, TalkOps, VisitOps, FileOps, CatalogueOps
<1> QED
  BY <1>1, <1>2, <1>3, <1>4, <1>5 DEF CommunityCall

\* The comments are unaffected by calls of other kinds.
LEMMA CommentsApart ==
  ASSUME CommentInv, UNCHANGED commentVars, SameCalls(CommentOps)
  PROVE  CommentInv'
<1>1. CommentsTypeOK' /\ \A d \in comments' : d.id \in published' /\ Hangs(d)'
  BY DEF CommentInv, CommentsTypeOK, Hangs, commentVars, commentsTold
<1>2. ASSUME NEW c \in BagToSet(pending'), c.op \in CommentOps
      PROVE  Inserting(c)' /\ Reading(c)' /\ Hangs(c.comment)'
  <2>1. c \in BagToSet(pending) /\ pending'[c] = pending[c]
    BY <1>2 DEF SameCalls
  <2>2. Inserting(c) /\ Reading(c) /\ Hangs(c.comment)
    BY <1>2, <2>1 DEF CommentInv
  <2>3. Inserting(c)'
    BY <2>1, <2>2 DEF Inserting, SameCalls, CommentOps, commentVars
  <2> QED
    BY <2>2, <2>3 DEF Reading, Hangs, commentVars
<1> QED
  BY <1>1, <1>2 DEF CommentInv

LEMMA ConversationsApart ==
  ASSUME MessageInv, UNCHANGED conversationVars, SameCalls(ConversationOps)
  PROVE  MessageInv'
<1>1. ConversationsTypeOK'
  BY DEF MessageInv, ConversationsTypeOK, conversationVars, conversationsTold
<1>2. MessagesOf(BagToSet(pending')) \subseteq MessagesOf(BagToSet(pending))
  BY DEF MessagesOf, SameCalls, ConversationOps
<1> QED
  BY <1>1, <1>2 DEF MessageInv, MessagesHaveConversation, conversationVars

LEMMA FilesApart ==
  ASSUME FileInv, UNCHANGED fileVars, SameCalls(FileOps)
  PROVE  FileInv'
<1>1. FilesOf(BagToSet(pending)) \subseteq FilesOf(BagToSet(pending'))
  BY DEF FilesOf, SameCalls, FileOps
<1>2. /\ FilesTypeOK'
      /\ \A f \in FileIds :
           /\ f \in uploaded' => files'[f] # "absent"
           /\ files'[f] = "deleted" => f \in unlisted'
           /\ f \in unlisted' /\ files'[f] # "deleted" =>
                f \in forgotten' \cup FilesOf(BagToSet(pending'))
  BY <1>1 DEF FileInv, FilesTypeOK, fileVars, filesTold
<1>3. ASSUME NEW c \in BagToSet(pending'), c.op \in FileOps
      PROVE  Uploading(c)' /\ Removing(c)'
  <2>1. c \in BagToSet(pending) /\ pending'[c] = pending[c]
    BY <1>3 DEF SameCalls
  <2>2. Uploading(c) /\ Removing(c)
    BY <1>3, <2>1 DEF FileInv
  <2> QED
    BY <2>1, <2>2 DEF Uploading, Removing, SameCalls, FileOps, fileVars, filesTold
<1> QED
  BY <1>2, <1>3 DEF FileInv

-----------------------------------------------------------------------------
(* Comments. *)

CommentStep ==
  \/ CommentRequest
  \/ \E c \in BagToSet(pending) : AnswerComment(c) \/ FailComment(c)

\* A step of the comments sends calls of comments only.
LEMMA CommentCalls ==
  ASSUME CallsTyped, CommentInv, CommentStep
  PROVE  CallsTyped' /\ SameCalls(ConversationOps \cup VisitOps \cup FileOps \cup CatalogueOps)
<1> DEFINE ops == ConversationOps \cup VisitOps \cup FileOps \cup CatalogueOps
<1>1. \A c \in CommentCall : c.op \notin ops
  BY DEF CommentCall, ConversationOps, TalkOps, VisitOps, FileOps, CatalogueOps
<1>2. ASSUME NEW new \in SUBSET CommentCall, Start(new)
      PROVE  CallsTyped' /\ SameCalls(ops)
  <2>1. CallsTyped'
    BY <1>2, StartCalls DEF CallsTyped, CommunityCall
  <2> QED
    BY <1>1, <1>2, <2>1, StartOthers DEF CallsTyped
<1>3. ASSUME NEW c \in BagToSet(pending), NEW new \in SUBSET CommentCall,
             c \in CommentCall, Continue(c, new)
      PROVE  CallsTyped' /\ SameCalls(ops)
  <2>1. CallsTyped'
    BY <1>3, ContinueCalls DEF CallsTyped, CommunityCall
  <2> QED
    BY <1>1, <1>3, <2>1, ContinueOthers DEF CallsTyped
<1> HIDE DEF ops
<1>4. ASSUME NEW id \in CommentIds, NEW post \in CommentedPosts,
             NEW parent \in CommentIds \cup {NoParent}, CreateComment(id, post, parent)
      PROVE  CallsTyped' /\ SameCalls(ops)
  <2> DEFINE call == [op |-> "insertComment", comment |->
               [id |-> id, post |-> post, parent |-> parent, likes |-> {}, deleted |-> FALSE]]
  <2>1. call \in CommentCall
    BY DEF CommentCall, Comment
  <2>2. Start({call})
    BY <1>4 DEF CreateComment
  <2> HIDE DEF call
  <2> QED
    BY <1>2, <2>1, <2>2
<1>5. ASSUME NEW comment \in comments, NEW reader \in Readers, UpdateLikes(comment, reader)
      PROVE  CallsTyped' /\ SameCalls(ops)
  <2>1. Toggled(comment, reader) \in Comment
    BY DEF CommentInv, CommentsTypeOK, Toggled, Comment
  <2> QED
    BY <1>2, <1>5, <2>1 DEF UpdateLikes, ReplaceComment, CommentCall
<1>6. ASSUME NEW comment \in comments, RemoveComment(comment)
      PROVE  CallsTyped' /\ SameCalls(ops)
  BY <1>2, <1>6 DEF RemoveComment, CommentCall, CommentInv, CommentsTypeOK
<1>7. ASSUME NEW c \in BagToSet(pending), c.op \in CommentOps
      PROVE  c \in CommentCall
  BY <1>7, CallKinds DEF CallsTyped
<1>8. ASSUME NEW c \in BagToSet(pending), ListChildren(c)
      PROVE  CallsTyped' /\ SameCalls(ops)
  <2>1. c \in CommentCall
    BY <1>7, <1>8 DEF ListChildren, CommentOps
  <2>2. {c.comment} \cup Children(c.comment.id) \subseteq Comment
    BY <2>1 DEF CommentCall, Children, CommentInv, CommentsTypeOK
  <2>3. \A d \in Comment : ReplaceComment(AsDeleted(d)) \in CommentCall
    BY DEF ReplaceComment, AsDeleted, CommentCall, Comment
  <2> QED
    BY <1>3, <1>8, <2>1, <2>2, <2>3 DEF ListChildren
<1>9. ASSUME NEW c \in BagToSet(pending), InsertComment(c) \/ StoreComment(c) \/ FailComment(c)
      PROVE  CallsTyped' /\ SameCalls(ops)
  BY <1>3, <1>7, <1>9 DEF InsertComment, StoreComment, FailComment, CommentOps
<1> QED
  BY <1>4, <1>5, <1>6, <1>8, <1>9
  DEF CommentStep, CommentRequest, AnswerComment, ops

\* A comment stays where it hangs while every stored comment stays a node.
LEMMA HangsStill ==
  ASSUME NEW c, Hangs(c), \A p \in comments : \E q \in comments' : SameNode(q, p)
  PROVE  Hangs(c)'
BY DEF Hangs, SameNode

\* Sending calls that read the comments, or answering a call: what the
\* comments and the other calls promise is untouched.
LEMMA CommentsRead ==
  ASSUME CallsTyped, CallsTyped', CommentInv, CommentsTypeOK',
         UNCHANGED <<comments, commented, published>>,
         NEW old, NEW new \in SUBSET CommentCall,
         BagToSet(pending') \subseteq BagToSet(pending) \cup new,
         \A c \in BagToSet(pending) : c.op = "insertComment" /\ c # old => pending'[c] = pending[c],
         old \in BagToSet(pending) /\ old.op = "insertComment" => old \notin BagToSet(pending'),
         \A c \in new : c.op # "insertComment" /\ Reading(c) /\ Hangs(c.comment)
  PROVE  CommentInv'
<1>1. \A d \in comments' : d.id \in published' /\ Hangs(d)'
  BY DEF CommentInv, Hangs
<1>2. ASSUME NEW c \in BagToSet(pending'), c.op \in CommentOps
      PROVE  Inserting(c)' /\ Reading(c)' /\ Hangs(c.comment)'
  <2>1. Reading(c)' /\ Hangs(c.comment)'
    BY <1>2 DEF CommentInv, Reading, Hangs
  <2>2. ASSUME c.op = "insertComment"
        PROVE  Inserting(c)'
    <3>1. c \in BagToSet(pending) /\ c # old
      BY <1>2, <2>2
    <3>2. Inserting(c)
      BY <1>2, <3>1 DEF CommentInv
    <3> QED
      BY <2>2, <3>1, <3>2 DEF Inserting
  <2> QED
    BY <2>1, <2>2 DEF Inserting
<1> QED
  BY <1>1, <1>2 DEF CommentInv

LEMMA CreateCommentStep ==
  ASSUME CallsTyped, CallsTyped', CommentInv,
         NEW id \in CommentIds, NEW post \in CommentedPosts,
         NEW parent \in CommentIds \cup {NoParent}, CreateComment(id, post, parent)
  PROVE  CommentInv'
<1> DEFINE comment == [id |-> id, post |-> post, parent |-> parent, likes |-> {}, deleted |-> FALSE]
           call == [op |-> "insertComment", comment |-> comment]
<1>1. /\ BagToSet(pending') = BagToSet(pending) \cup {call}
      /\ call \notin BagToSet(pending) => pending'[call] = 1
      /\ \A c \in BagToSet(pending) \ {call} : pending'[c] = pending[c]
  BY StartCalls, StartCounts DEF CallsTyped, CreateComment
<1>2. /\ id \notin commented /\ commented' = commented \cup {id}
      /\ UNCHANGED <<comments, published, discarded, liking, disturbed>>
      /\ MayReply(post, parent)
  BY DEF CreateComment, commentsTold
<1>3. call.op = "insertComment" /\ call.comment.id = id /\ Hangs(call.comment)
  BY <1>2 DEF MayReply, IsTopLevel, Hangs
<1> HIDE DEF call, comment
<1>4. call \notin BagToSet(pending)
  BY <1>2, <1>3 DEF CommentInv, CommentOps, Inserting
<1>5. CommentsTypeOK'
  BY <1>2 DEF CommentInv, CommentsTypeOK
<1>6. \A d \in comments' : d.id \in published' /\ Hangs(d)'
  BY <1>2 DEF CommentInv, Hangs
<1>7. ASSUME NEW c \in BagToSet(pending), c.op \in CommentOps
      PROVE  Inserting(c)' /\ Reading(c)' /\ Hangs(c.comment)'
  <2>1. Inserting(c) /\ Reading(c) /\ Hangs(c.comment) /\ pending'[c] = pending[c]
    BY <1>1, <1>4, <1>7 DEF CommentInv
  <2>2. Inserting(c)'
    BY <1>1, <1>2, <1>3, <2>1 DEF Inserting
  <2> QED
    BY <1>2, <2>1, <2>2 DEF Reading, Hangs
<1>8. Inserting(call)' /\ Reading(call)' /\ Hangs(call.comment)'
  <2>1. \A d \in comments : d.id # id
    BY <1>2 DEF CommentInv, CommentsTypeOK
  <2>2. \A d \in BagToSet(pending) : d.op = "insertComment" => d.comment.id # id
    BY <1>2 DEF CommentInv, CommentOps, Inserting
  <2>3. Inserting(call)'
    BY <1>1, <1>2, <1>3, <1>4, <2>1, <2>2 DEF Inserting
  <2> QED
    BY <1>2, <1>3, <2>3 DEF Reading, Hangs
<1> QED
  BY <1>1, <1>5, <1>6, <1>7, <1>8 DEF CommentInv

LEMMA InsertCommentStep ==
  ASSUME CallsTyped, CallsTyped', CommentInv, NEW c \in BagToSet(pending), InsertComment(c)
  PROVE  CommentInv'
<1>1. /\ c \in CommentCall /\ c.op = "insertComment" /\ c.op \in CommentOps
      /\ c.comment \in Comment
  BY CallKinds DEF CallsTyped, InsertComment, CommentOps, CommentCall
<1>2. Inserting(c) /\ Hangs(c.comment)
  BY <1>1 DEF CommentInv
<1>3. /\ BagToSet(pending') \subseteq BagToSet(pending)
      /\ c \notin BagToSet(pending')
      /\ \A d \in BagToSet(pending) \ {c} : pending'[d] = pending[d]
  BY <1>1, <1>2, ContinueCalls, ContinueCounts DEF CallsTyped, InsertComment, Inserting
<1>4. /\ comments' = comments \cup {c.comment}
      /\ published' = published \cup {c.comment.id}
      /\ UNCHANGED <<commented, discarded, liking, disturbed>>
  BY DEF InsertComment
<1>5. CommentsTypeOK'
  BY <1>1, <1>2, <1>4 DEF CommentInv, CommentsTypeOK, Inserting
<1>6. \A d \in comments' : d.id \in published' /\ Hangs(d)'
  BY <1>2, <1>4 DEF CommentInv, Hangs
<1>7. ASSUME NEW d \in BagToSet(pending'), d.op \in CommentOps
      PROVE  Inserting(d)' /\ Reading(d)' /\ Hangs(d.comment)'
  <2>1. /\ d \in BagToSet(pending) /\ d # c /\ pending'[d] = pending[d]
        /\ Inserting(d) /\ Reading(d) /\ Hangs(d.comment)
    BY <1>3, <1>7 DEF CommentInv
  <2>2. d.op = "insertComment" => d.comment.id # c.comment.id
    BY <1>1, <1>2, <2>1 DEF Inserting
  <2>3. Inserting(d)'
    BY <1>3, <1>4, <2>1, <2>2 DEF Inserting
  <2> QED
    BY <1>4, <2>1, <2>3 DEF Reading, Hangs
<1> QED
  BY <1>5, <1>6, <1>7 DEF CommentInv

LEMMA StoreCommentStep ==
  ASSUME CallsTyped, CallsTyped', CommentInv, NEW c \in BagToSet(pending), StoreComment(c)
  PROVE  CommentInv'
<1>1. /\ c \in CommentCall /\ c.op = "replaceComment" /\ c.op \in CommentOps
      /\ c.comment \in Comment
  BY CallKinds DEF CallsTyped, StoreComment, CommentOps, CommentCall
<1>2. PICK old \in comments : SameNode(old, c.comment)
  BY <1>1 DEF CommentInv, Reading
<1>3. /\ BagToSet(pending') \subseteq BagToSet(pending)
      /\ \A d \in BagToSet(pending) \ {c} : pending'[d] = pending[d]
  BY ContinueCalls, ContinueCounts DEF CallsTyped, StoreComment
<1>4. /\ comments' = {d \in comments : d.id # c.comment.id} \cup {c.comment}
      /\ UNCHANGED <<commented, published, discarded, liking>>
      /\ disturbed' = disturbed \cup CommentOverlap(c)
  BY DEF StoreComment, commentsTold
<1>5. CommentOverlap(c) \subseteq CommentIds
  BY <1>1 DEF CommentOverlap, Comment
<1>6. CommentsTypeOK'
  BY <1>1, <1>4, <1>5 DEF CommentInv, CommentsTypeOK
<1>7. \A p \in comments : \E q \in comments' : SameNode(q, p)
  BY <1>2, <1>4 DEF CommentInv, CommentsTypeOK, SameNode
<1>8. \A d \in comments' : d.id \in published' /\ Hangs(d)'
  <2>1. \A d \in comments : d.id \in published' /\ Hangs(d)'
    BY <1>4, <1>7, HangsStill DEF CommentInv
  <2>2. Hangs(c.comment)' /\ c.comment.id = old.id
    BY <1>1, <1>2, <1>7, HangsStill DEF CommentInv, SameNode
  <2> QED
    BY <1>2, <1>4, <2>1, <2>2
<1>9. ASSUME NEW d \in BagToSet(pending'), d.op \in CommentOps
      PROVE  Inserting(d)' /\ Reading(d)' /\ Hangs(d.comment)'
  <2>1. d \in BagToSet(pending) /\ Inserting(d) /\ Reading(d) /\ Hangs(d.comment)
    BY <1>3, <1>9 DEF CommentInv
  <2>2. d.op = "insertComment" => d # c /\ pending'[d] = pending[d]
    BY <1>1, <1>3, <2>1
  <2>3. Inserting(d)'
    BY <1>2, <1>3, <1>4, <2>1, <2>2 DEF Inserting, SameNode
  <2>4. Reading(d)'
    BY <1>7, <2>1 DEF Reading, SameNode
  <2>5. Hangs(d.comment)'
    BY <1>7, <2>1, HangsStill
  <2> QED
    BY <2>3, <2>4, <2>5
<1> QED
  BY <1>6, <1>8, <1>9 DEF CommentInv

LEMMA UpdateLikesStep ==
  ASSUME CallsTyped, CallsTyped', CommentInv, NEW comment \in comments,
         NEW reader \in Readers, UpdateLikes(comment, reader)
  PROVE  CommentInv'
<1> DEFINE call == ReplaceComment(Toggled(comment, reader))
<1>1. comment \in Comment /\ Hangs(comment) /\ comment.id \in CommentIds
  BY DEF CommentInv, CommentsTypeOK, Comment
<1>2. /\ Toggled(comment, reader) \in Comment
      /\ SameNode(comment, Toggled(comment, reader))
      /\ Toggled(comment, reader).likes \in SUBSET Readers
  BY <1>1 DEF Toggled, Comment, SameNode
<1>3. /\ call \in CommentCall /\ call.op = "replaceComment"
      /\ call.comment = Toggled(comment, reader)
  BY <1>2 DEF ReplaceComment, CommentCall
<1>4. /\ BagToSet(pending') = BagToSet(pending) \cup {call}
      /\ \A c \in BagToSet(pending) \ {call} : pending'[c] = pending[c]
  BY StartCalls, StartCounts DEF CallsTyped, UpdateLikes
<1>5. CommentsTypeOK' /\ UNCHANGED <<comments, commented, published>>
  BY <1>1, <1>2 DEF CommentInv, CommentsTypeOK, UpdateLikes
<1>6. Reading(call) /\ Hangs(call.comment)
  BY <1>1, <1>2, <1>3 DEF Reading, Hangs, SameNode
<1> HIDE DEF call
<1> DEFINE new == {call}
<1>7. /\ new \in SUBSET CommentCall
      /\ BagToSet(pending') \subseteq BagToSet(pending) \cup new
      /\ \A c \in new : c.op # "insertComment" /\ Reading(c) /\ Hangs(c.comment)
      /\ \A c \in BagToSet(pending) : c.op = "insertComment" => pending'[c] = pending[c]
      /\ call.op # "insertComment"
  BY <1>3, <1>4, <1>6
<1> HIDE DEF new
<1> QED
  BY <1>5, <1>7, CommentsRead

LEMMA RemoveCommentStep ==
  ASSUME CallsTyped, CallsTyped', CommentInv, NEW comment \in comments,
         RemoveComment(comment)
  PROVE  CommentInv'
<1> DEFINE call == [op |-> "listChildren", comment |-> comment]
<1>1. comment \in Comment /\ Hangs(comment)
  BY DEF CommentInv, CommentsTypeOK
<1>2. call \in CommentCall /\ call.op = "listChildren" /\ call.comment = comment
  BY <1>1 DEF CommentCall
<1>3. /\ BagToSet(pending') = BagToSet(pending) \cup {call}
      /\ \A c \in BagToSet(pending) \ {call} : pending'[c] = pending[c]
  BY StartCalls, StartCounts DEF CallsTyped, RemoveComment
<1>4. CommentsTypeOK' /\ UNCHANGED <<comments, commented, published>>
  BY DEF CommentInv, CommentsTypeOK, RemoveComment, commentVars, commentsTold
<1>5. Reading(call) /\ Hangs(call.comment)
  BY <1>1, <1>2 DEF Reading, SameNode
<1> HIDE DEF call
<1> DEFINE new == {call}
<1>7. /\ new \in SUBSET CommentCall
      /\ BagToSet(pending') \subseteq BagToSet(pending) \cup new
      /\ \A c \in new : c.op # "insertComment" /\ Reading(c) /\ Hangs(c.comment)
      /\ \A c \in BagToSet(pending) : c.op = "insertComment" => pending'[c] = pending[c]
      /\ call.op # "insertComment"
  BY <1>2, <1>3, <1>5
<1> HIDE DEF new
<1> QED
  BY <1>4, <1>7, CommentsRead

LEMMA ListChildrenStep ==
  ASSUME CallsTyped, CallsTyped', CommentInv, NEW c \in BagToSet(pending), ListChildren(c)
  PROVE  CommentInv'
<1> DEFINE marked == {c.comment} \cup Children(c.comment.id)
           new == {ReplaceComment(AsDeleted(d)) : d \in marked}
<1>1. /\ c \in CommentCall /\ c.op = "listChildren" /\ c.op \in CommentOps
      /\ c.comment \in Comment
  BY CallKinds DEF CallsTyped, ListChildren, CommentOps, CommentCall
<1>2. /\ Hangs(c.comment)
      /\ \E d \in comments : SameNode(d, c.comment)
  BY <1>1 DEF CommentInv, Reading
<1>3. ASSUME NEW d \in marked
      PROVE  /\ d \in Comment /\ Hangs(d)
             /\ \E e \in comments : SameNode(e, d)
  BY <1>1, <1>2 DEF Children, CommentInv, CommentsTypeOK, SameNode
<1>4. ASSUME NEW d \in marked
      PROVE  LET o == ReplaceComment(AsDeleted(d)) IN
             /\ o \in CommentCall /\ o.op = "replaceComment"
             /\ SameNode(d, o.comment)
  BY <1>3 DEF ReplaceComment, AsDeleted, CommentCall, Comment, SameNode
<1>5. \A o \in new : /\ o \in CommentCall /\ o.op = "replaceComment"
                     /\ Reading(o) /\ Hangs(o.comment)
  BY <1>3, <1>4 DEF Reading, Hangs, SameNode
<1>6. /\ BagToSet(pending') \subseteq BagToSet(pending) \cup new
      /\ \A d \in BagToSet(pending) \ (new \cup {c}) : pending'[d] = pending[d]
  BY ContinueCalls, ContinueCounts DEF CallsTyped, ListChildren
<1>7. CommentsTypeOK' /\ UNCHANGED <<comments, commented, published>>
  <2>1. c.comment.id \in published /\ c.comment.id \in CommentIds
    BY <1>1, <1>2 DEF CommentInv, SameNode, Comment
  <2> QED
    BY <2>1 DEF CommentInv, CommentsTypeOK, ListChildren
<1>8. c.op # "insertComment"
  BY <1>1
<1>9. \A d \in BagToSet(pending) : d.op = "insertComment" => pending'[d] = pending[d]
  BY <1>5, <1>6, <1>8
<1> HIDE DEF new, marked
<1> QED
  BY <1>5, <1>6, <1>7, <1>8, <1>9, CommentsRead

LEMMA FailCommentStep ==
  ASSUME CallsTyped, CallsTyped', CommentInv, NEW c \in BagToSet(pending), FailComment(c)
  PROVE  CommentInv'
<1>1. c \in CommentCall /\ c.op \in CommentOps
  BY CallKinds DEF CallsTyped, FailComment, CommentOps
<1>2. /\ BagToSet(pending') \subseteq BagToSet(pending)
      /\ \A d \in BagToSet(pending) \ {c} : pending'[d] = pending[d]
      /\ pending[c] = 1 => c \notin BagToSet(pending')
  BY ContinueCalls, ContinueCounts DEF CallsTyped, FailComment
<1>3. CommentsTypeOK' /\ UNCHANGED <<comments, commented, published>>
  BY DEF CommentInv, CommentsTypeOK, FailComment, commentVars, commentsTold
<1>4. c.op = "insertComment" => c \notin BagToSet(pending')
  BY <1>1, <1>2 DEF CommentInv, Inserting
<1> DEFINE new == {}
<1>5. /\ new \in SUBSET CommentCall
      /\ BagToSet(pending') \subseteq BagToSet(pending) \cup new
      /\ \A d \in new : d.op # "insertComment" /\ Reading(d) /\ Hangs(d.comment)
      /\ \A d \in BagToSet(pending) : d.op = "insertComment" /\ d # c => pending'[d] = pending[d]
  BY <1>2
<1> HIDE DEF new
<1> QED
  BY <1>3, <1>4, <1>5, CommentsRead

LEMMA CommentSteps ==
  ASSUME CallsTyped, CallsTyped', CommentInv, CommentStep
  PROVE  CommentInv'
BY CreateCommentStep, UpdateLikesStep, RemoveCommentStep, InsertCommentStep,
   ListChildrenStep, StoreCommentStep, FailCommentStep
DEF CommentStep, CommentRequest, AnswerComment

-----------------------------------------------------------------------------
(* Conversations. *)

ConversationStep ==
  \/ ConversationRequest
  \/ \E c \in BagToSet(pending) : AnswerConversation(c) \/ FailConversation(c)

\* What an answer to a call leaves under way.
LEMMA ConversationAnswer ==
  ASSUME CallsTyped, NEW c \in BagToSet(pending), c.op \in ConversationOps, Continue(c, {})
  PROVE  /\ CallsTyped'
         /\ SameCalls(CommentOps \cup VisitOps \cup FileOps \cup CatalogueOps)
         /\ MessagesOf(BagToSet(pending')) \subseteq MessagesOf(BagToSet(pending))
<1>1. BagToSet(pending') \subseteq BagToSet(pending) /\ IsABag(pending')
  BY ContinueCalls DEF CallsTyped
<1>2. c.op \notin CommentOps \cup VisitOps \cup FileOps \cup CatalogueOps
  BY DEF CommentOps, VisitOps, FileOps, ConversationOps, TalkOps, CatalogueOps
<1>3. SameCalls(CommentOps \cup VisitOps \cup FileOps \cup CatalogueOps)
  BY <1>2, ContinueOthers DEF CallsTyped
<1> QED
  BY <1>1, <1>3 DEF CallsTyped, MessagesOf

\* What the calls a request sends add to those under way.
LEMMA ConversationSend ==
  ASSUME CallsTyped, NEW new \in SUBSET ConversationCall, Start(new)
  PROVE  /\ CallsTyped'
         /\ SameCalls(CommentOps \cup VisitOps \cup FileOps \cup CatalogueOps)
         /\ MessagesOf(BagToSet(pending')) =
              MessagesOf(BagToSet(pending)) \cup MessagesOf(new)
<1>1. BagToSet(pending') = BagToSet(pending) \cup new /\ IsABag(pending')
  BY StartCalls DEF CallsTyped
<1>2. \A d \in ConversationCall : d.op \notin CommentOps \cup VisitOps \cup FileOps \cup CatalogueOps
  BY DEF ConversationCall, CommentOps, VisitOps, FileOps, CatalogueOps
<1>3. SameCalls(CommentOps \cup VisitOps \cup FileOps \cup CatalogueOps)
  BY <1>2, StartOthers DEF CallsTyped
<1> QED
  BY <1>1, <1>3 DEF CallsTyped, MessagesOf, CommunityCall

LEMMA ConversationSteps ==
  ASSUME CallsTyped, MessageInv, ConversationStep
  PROVE  /\ CallsTyped' /\ MessageInv'
         /\ SameCalls(CommentOps \cup VisitOps \cup FileOps \cup CatalogueOps)
<1> DEFINE kept == /\ CallsTyped'
                   /\ SameCalls(CommentOps \cup VisitOps \cup FileOps \cup CatalogueOps)
<1>1. ASSUME NEW id \in ConversationIds, NEW owner \in Owners, OpenConversation(id, owner)
      PROVE  kept /\ MessageInv'
  <2> DEFINE talk == [id |-> id, owner |-> owner, at |-> 0, deleted |-> FALSE]
             call == [op |-> "createConversation", conversation |-> talk]
  <2>1. /\ call \in ConversationCall /\ call.op = "createConversation"
        /\ Talk(talk) \in Talks
    BY DEF ConversationCall, Conversation, Talk, Talks
  <2>2. MessagesOf({call}) = {}
    BY <2>1 DEF MessagesOf
  <2>3. Start({call}) /\ opened' = opened \cup {Talk(talk)}
    BY <1>1 DEF OpenConversation
  <2> HIDE DEF call, talk
  <2>4. kept /\ MessagesOf(BagToSet(pending')) = MessagesOf(BagToSet(pending))
    BY <2>1, <2>2, <2>3, ConversationSend
  <2>5. ConversationsTypeOK'
    BY <1>1, <2>1, <2>3 DEF MessageInv, ConversationsTypeOK, OpenConversation
  <2> QED
    BY <1>1, <2>4, <2>5 DEF MessageInv, MessagesHaveConversation, OpenConversation
<1>2. ASSUME NEW id \in ConversationIds, NEW at \in Instants, CreateMessage(id, at)
      PROVE  kept /\ MessageInv'
  <2>1. PICK c \in FindConversation(id) :
          /\ Start({[op |-> "touchConversation", conversation |-> At(c, at)],
                    [op |-> "createMessage", message |-> [conversation |-> id, at |-> at]]})
          /\ touched' = [touched EXCEPT ![Talk(c)] = at]
    BY <1>2 DEF CreateMessage
  <2>2. c \in Conversation /\ c \in conversations /\ c.id = id /\ Talk(c) \in Talks
    BY <2>1 DEF FindConversation, MessageInv, ConversationsTypeOK, Conversation, Talk, Talks
  <2>3. At(c, at) \in Conversation
    BY <2>2 DEF At, Conversation
  <2> DEFINE touch == [op |-> "touchConversation", conversation |-> At(c, at)]
             message == [conversation |-> id, at |-> at]
             store == [op |-> "createMessage", message |-> message]
  <2>4. /\ touch \in ConversationCall /\ store \in ConversationCall
        /\ touch.op # "createMessage" /\ store.message = message
        /\ message \in Message /\ message.conversation = id
    BY <2>3 DEF ConversationCall, Message
  <2>5. Start({touch, store})
    BY <2>1
  <2> HIDE DEF touch, store, message
  <2>6. MessagesOf({touch, store}) \subseteq {message}
    BY <2>4 DEF MessagesOf
  <2>7. /\ kept
        /\ MessagesOf(BagToSet(pending')) \subseteq MessagesOf(BagToSet(pending)) \cup {message}
    BY <2>4, <2>5, <2>6, ConversationSend
  <2>8. ConversationsTypeOK'
    <3>1. sent' = sent \cup {message}
      BY <1>2 DEF CreateMessage, message
    <3> QED
      BY <1>2, <2>1, <2>2, <2>4, <3>1 DEF MessageInv, ConversationsTypeOK, CreateMessage
  <2>9. \A m \in messages \cup MessagesOf(BagToSet(pending)) \cup {message} :
          \E d \in conversations : d.id = m.conversation
    BY <2>2, <2>4 DEF MessageInv, MessagesHaveConversation
  <2> QED
    BY <1>2, <2>7, <2>8, <2>9 DEF MessageInv, MessagesHaveConversation, CreateMessage
<1>3. ASSUME NEW id \in ConversationIds, RemoveConversation(id)
      PROVE  kept /\ MessageInv'
  <2>1. PICK c \in FindConversation(id) :
          Start({[op |-> "closeConversation", conversation |-> [c EXCEPT !.deleted = TRUE]]})
    BY <1>3 DEF RemoveConversation
  <2> DEFINE call == [op |-> "closeConversation", conversation |-> [c EXCEPT !.deleted = TRUE]]
  <2>2. call \in ConversationCall /\ call.op # "createMessage"
    BY DEF FindConversation, MessageInv, ConversationsTypeOK, Conversation, ConversationCall
  <2>3. MessagesOf({call}) = {}
    BY <2>2 DEF MessagesOf
  <2> HIDE DEF call
  <2>4. kept /\ MessagesOf(BagToSet(pending')) = MessagesOf(BagToSet(pending))
    <3>1. Start({call})
      BY <2>1 DEF call
    <3> QED
      BY <2>2, <2>3, <3>1, ConversationSend
  <2>5. UNCHANGED conversationVars
    BY <1>3 DEF RemoveConversation
  <2> QED
    BY <2>4, <2>5
    DEF MessageInv, ConversationsTypeOK, MessagesHaveConversation, conversationVars, conversationsTold
<1>4. ASSUME NEW c \in BagToSet(pending), StoreConversation(c)
      PROVE  kept /\ MessageInv'
  <2>1. c.op \in ConversationOps /\ c.conversation \in Conversation
    BY <1>4, CallKinds DEF CallsTyped, StoreConversation, ConversationOps, TalkOps
  <2>2. kept /\ MessagesOf(BagToSet(pending')) \subseteq MessagesOf(BagToSet(pending))
    BY <1>4, <2>1, ConversationAnswer DEF StoreConversation
  <2>3. ConversationsTypeOK'
    BY <1>4, <2>1 DEF MessageInv, ConversationsTypeOK, StoreConversation, Held, conversationsTold
  <2> QED
    BY <1>4, <2>2, <2>3 DEF MessageInv, MessagesHaveConversation, StoreConversation
<1>5. ASSUME NEW c \in BagToSet(pending), ReplaceConversation(c)
      PROVE  kept /\ MessageInv'
  <2>1. /\ c.op \in ConversationOps /\ c.conversation \in Conversation
        /\ Talk(c.conversation) \in Talks
    BY <1>5, CallKinds
    DEF CallsTyped, ReplaceConversation, ConversationOps, TalkOps, Conversation, Talk, Talks
  <2>2. kept /\ MessagesOf(BagToSet(pending')) \subseteq MessagesOf(BagToSet(pending))
    BY <1>5, <2>1, ConversationAnswer DEF ReplaceConversation
  <2>3. ConversationsTypeOK'
    <3>1. /\ conversations' \subseteq Conversation
          /\ \A d, e \in conversations' : Talk(d) = Talk(e) => d = e
      BY <1>5, <2>1 DEF MessageInv, ConversationsTypeOK, ReplaceConversation, Held
    <3>2. closed' \subseteq Talks /\ crossed' \subseteq Talks
      BY <1>5, <2>1 DEF MessageInv, ConversationsTypeOK, ReplaceConversation, TalkOverlap
    <3> QED
      BY <1>5, <3>1, <3>2 DEF MessageInv, ConversationsTypeOK, ReplaceConversation
  <2>4. \A d \in conversations : \E e \in conversations' : e.id = d.id
    BY <1>5 DEF ReplaceConversation, Held, Talk
  <2> QED
    BY <1>5, <2>2, <2>3, <2>4 DEF MessageInv, MessagesHaveConversation, ReplaceConversation
<1>6. ASSUME NEW c \in BagToSet(pending), StoreMessage(c)
      PROVE  kept /\ MessageInv'
  <2>1. /\ c.op \in ConversationOps /\ c.message \in Message
        /\ c.message \in MessagesOf(BagToSet(pending))
    BY <1>6, CallKinds DEF CallsTyped, StoreMessage, ConversationOps, MessagesOf
  <2>2. kept /\ MessagesOf(BagToSet(pending')) \subseteq MessagesOf(BagToSet(pending))
    BY <1>6, <2>1, ConversationAnswer DEF StoreMessage
  <2>3. ConversationsTypeOK'
    BY <1>6, <2>1 DEF MessageInv, ConversationsTypeOK, StoreMessage, conversationsTold
  <2> QED
    BY <1>6, <2>1, <2>2, <2>3 DEF MessageInv, MessagesHaveConversation, StoreMessage
<1>7. ASSUME NEW c \in BagToSet(pending), FailConversation(c)
      PROVE  kept /\ MessageInv'
  <2>1. c.op \in ConversationOps
    BY <1>7 DEF FailConversation, ConversationOps, TalkOps
  <2>2. kept /\ MessagesOf(BagToSet(pending')) \subseteq MessagesOf(BagToSet(pending))
    BY <1>7, <2>1, ConversationAnswer DEF FailConversation
  <2> QED
    BY <1>7, <2>2
    DEF MessageInv, ConversationsTypeOK, MessagesHaveConversation, FailConversation,
        conversationVars, conversationsTold
<1> QED
  BY <1>1, <1>2, <1>3, <1>4, <1>5, <1>6, <1>7
  DEF ConversationStep, ConversationRequest, AnswerConversation

-----------------------------------------------------------------------------
(* Visits. *)

VisitStep ==
  \/ RegisterVisit
  \/ \E c \in BagToSet(pending) : AnswerVisit(c) \/ FailVisit(c)

LEMMA VisitSteps ==
  ASSUME CallsTyped, VisitsTypeOK, VisitStep
  PROVE  /\ CallsTyped' /\ VisitsTypeOK'
         /\ SameCalls(CommentOps \cup ConversationOps \cup FileOps \cup CatalogueOps)
<1> DEFINE ops == CommentOps \cup ConversationOps \cup FileOps \cup CatalogueOps
<1>1. \A c \in VisitCall : c.op \notin ops
  BY DEF VisitCall, CommentOps, ConversationOps, TalkOps, FileOps, CatalogueOps
<1>2. ASSUME NEW c \in BagToSet(pending), NEW new \in SUBSET VisitCall,
             c.op \in VisitOps, Continue(c, new)
      PROVE  CallsTyped' /\ SameCalls(ops)
  <2>1. CallsTyped'
    BY <1>2, ContinueCalls DEF CallsTyped, CommunityCall
  <2>2. c.op \notin ops
    BY <1>2 DEF VisitOps, CommentOps, ConversationOps, TalkOps, FileOps, CatalogueOps
  <2> QED
    BY <1>1, <1>2, <2>1, <2>2, ContinueOthers DEF CallsTyped
<1>3. CASE RegisterVisit
  <2> DEFINE call == [op |-> "readCounter", first |-> visitsCache = 0]
  <2>1. call \in VisitCall /\ Start({call})
    BY <1>3 DEF RegisterVisit, VisitCall
  <2> HIDE DEF call
  <2>2. CallsTyped' /\ SameCalls(ops)
    BY <1>1, <2>1, StartCalls, StartOthers DEF CallsTyped, CommunityCall
  <2>3. VisitsTypeOK'
    BY <1>3 DEF RegisterVisit, VisitsTypeOK, CountShown
  <2> QED
    BY <2>2, <2>3
<1>4. ASSUME NEW c \in BagToSet(pending), NEW counter \in Counter, VisitsTypeOK,
             c.op \in {"readCounter", "createCounter"}, Increment(c, counter)
      PROVE  /\ CallsTyped' /\ SameCalls(ops)
             /\ visitsCache' \in Nat /\ shownCount' \in Nat
  <2> DEFINE call == [op |-> "upsertCounter", counter |-> [counter EXCEPT !.count = @ + 1]]
  <2>1. call \in VisitCall /\ counter.count \in Nat
    BY DEF VisitCall, Counter
  <2>2. Continue(c, {call})
    BY <1>4 DEF Increment
  <2> HIDE DEF call
  <2>3. CallsTyped' /\ SameCalls(ops)
    BY <1>2, <1>4, <2>1, <2>2 DEF VisitOps
  <2> QED
    BY <1>4, <2>1, <2>3 DEF Increment, CountShown, VisitsTypeOK
<1>5. ASSUME NEW c \in BagToSet(pending), ReadCounter(c)
      PROVE  CallsTyped' /\ VisitsTypeOK' /\ SameCalls(ops)
  <2>1. UNCHANGED <<counters, visits>> /\ overlapped' \in BOOLEAN
    BY <1>5 DEF ReadCounter, VisitsTypeOK
  <2>2. CASE Continue(c, {[c EXCEPT !.op = "createCounter"]})
             /\ UNCHANGED <<visitsCache, shownCount>>
    <3>1. c \in [op : {"readCounter", "createCounter"}, first : BOOLEAN]
      BY <1>5, CallKinds DEF CallsTyped, ReadCounter
    <3>2. [c EXCEPT !.op = "createCounter"] \in VisitCall
      BY <3>1 DEF VisitCall
    <3>3. CallsTyped' /\ SameCalls(ops)
      BY <1>2, <1>5, <2>2, <3>2 DEF ReadCounter, VisitOps
    <3> QED
      BY <2>1, <2>2, <3>3 DEF VisitsTypeOK
  <2>3. CASE \E counter \in counters : Increment(c, counter)
    BY <1>4, <1>5, <2>1, <2>3 DEF ReadCounter, VisitsTypeOK
  <2> QED
    BY <1>5, <2>2, <2>3 DEF ReadCounter
<1>6. ASSUME NEW c \in BagToSet(pending), CreateCounter(c)
      PROVE  CallsTyped' /\ VisitsTypeOK' /\ SameCalls(ops)
  <2>1. PICK id \in CounterIds \ {d.id : d \in counters} :
          /\ counters' = counters \cup {[id |-> id, count |-> FirstCount]}
          /\ Increment(c, [id |-> id, count |-> FirstCount])
    BY <1>6 DEF CreateCounter
  <2>2. [id |-> id, count |-> FirstCount] \in Counter
    BY DEF Counter, FirstCount
  <2>3. /\ counters' \subseteq Counter
        /\ \A d, e \in counters' : d.id = e.id => d = e
    BY <2>1, <2>2 DEF VisitsTypeOK
  <2>4. /\ CallsTyped' /\ SameCalls(ops)
        /\ visitsCache' \in Nat /\ shownCount' \in Nat
    BY <1>4, <1>6, <2>1, <2>2 DEF CreateCounter
  <2> QED
    BY <1>6, <2>3, <2>4 DEF CreateCounter, VisitsTypeOK
<1>7. ASSUME NEW c \in BagToSet(pending), UpsertCounter(c)
      PROVE  CallsTyped' /\ VisitsTypeOK' /\ SameCalls(ops)
  <2>1. c.counter \in Counter
    BY <1>7, CallKinds DEF CallsTyped, UpsertCounter
  <2>2. CallsTyped' /\ SameCalls(ops)
    BY <1>2, <1>7 DEF UpsertCounter, VisitOps
  <2> QED
    BY <1>7, <2>1, <2>2 DEF UpsertCounter, VisitsTypeOK, visitsTold
<1>8. ASSUME NEW c \in BagToSet(pending), FailVisit(c)
      PROVE  CallsTyped' /\ VisitsTypeOK' /\ SameCalls(ops)
  <2>1. CallsTyped' /\ SameCalls(ops)
    BY <1>2, <1>8 DEF FailVisit, VisitOps
  <2> QED
    BY <1>8, <2>1 DEF FailVisit, VisitsTypeOK
<1> QED
  BY <1>3, <1>5, <1>6, <1>7, <1>8 DEF VisitStep, AnswerVisit

-----------------------------------------------------------------------------
(* Files. *)

FileStep ==
  \/ FileRequest
  \/ \E c \in BagToSet(pending) : AnswerFile(c) \/ FailFile(c)

\* A request sends one call.
LEMMA FileSend ==
  ASSUME CallsTyped, NEW call \in FileCall, Start({call})
  PROVE  /\ CallsTyped'
         /\ SameCalls(CommentOps \cup ConversationOps \cup VisitOps \cup CatalogueOps)
         /\ FilesOf(BagToSet(pending)) \subseteq FilesOf(BagToSet(pending'))
         /\ call.op = "replaceFile" => call.file \in FilesOf(BagToSet(pending'))
<1>1. BagToSet(pending') = BagToSet(pending) \cup {call} /\ IsABag(pending')
  BY StartCalls DEF CallsTyped
<1>2. call.op \notin CommentOps \cup ConversationOps \cup VisitOps \cup CatalogueOps
  BY DEF FileCall, CommentOps, ConversationOps, TalkOps, VisitOps, CatalogueOps
<1>3. SameCalls(CommentOps \cup ConversationOps \cup VisitOps \cup CatalogueOps)
  BY <1>2, StartOthers DEF CallsTyped
<1> QED
  BY <1>1, <1>3 DEF CallsTyped, FilesOf, CommunityCall

\* An answer, and what is sent next.
LEMMA FileAnswer ==
  ASSUME CallsTyped, NEW c \in BagToSet(pending), c.op \in FileOps,
         NEW new \in SUBSET FileCall, Continue(c, new)
  PROVE  /\ CallsTyped'
         /\ SameCalls(CommentOps \cup ConversationOps \cup VisitOps \cup CatalogueOps)
         /\ \A f \in FilesOf(BagToSet(pending)) :
              f \in FilesOf(BagToSet(pending')) \/ (c.op = "replaceFile" /\ f = c.file)
<1>1. /\ BagToSet(pending') \subseteq BagToSet(pending) \cup new /\ IsABag(pending')
      /\ BagToSet(pending) \ {c} \subseteq BagToSet(pending')
  BY ContinueCalls DEF CallsTyped
<1>2. /\ c.op \notin CommentOps \cup ConversationOps \cup VisitOps \cup CatalogueOps
      /\ \A d \in FileCall :
           d.op \notin CommentOps \cup ConversationOps \cup VisitOps \cup CatalogueOps
  BY DEF FileCall, FileOps, CommentOps, ConversationOps, TalkOps, VisitOps, CatalogueOps
<1>3. SameCalls(CommentOps \cup ConversationOps \cup VisitOps \cup CatalogueOps)
  BY <1>2, ContinueOthers DEF CallsTyped
<1> QED
  BY <1>1, <1>3 DEF CallsTyped, FilesOf, CommunityCall

LEMMA FileSteps ==
  ASSUME CallsTyped, FileInv, FileStep
  PROVE  /\ CallsTyped' /\ FileInv'
         /\ SameCalls(CommentOps \cup ConversationOps \cup VisitOps \cup CatalogueOps)
<1> DEFINE kept == /\ CallsTyped'
                   /\ SameCalls(CommentOps \cup ConversationOps \cup VisitOps \cup CatalogueOps)
           fit(c) == c.op \in FileOps => Uploading(c) /\ Removing(c)
<1>1. ASSUME NEW f \in FileIds, UploadFile(f)
      PROVE  kept /\ FileInv'
  <2> DEFINE call == [op |-> "upload", file |-> f]
  <2>1. /\ call \in FileCall /\ call.op = "upload" /\ call.file = f
        /\ Start({call}) /\ Unused(f) /\ UNCHANGED fileVars
    BY <1>1 DEF UploadFile, FileCall
  <2> HIDE DEF call
  <2>2. /\ BagToSet(pending') = BagToSet(pending) \cup {call}
        /\ call \notin BagToSet(pending) => pending'[call] = 1
        /\ \A c \in BagToSet(pending) \ {call} : pending'[c] = pending[c]
    BY <2>1, StartCalls, StartCounts DEF CallsTyped
  <2>3. call \notin BagToSet(pending)
    BY <2>1 DEF Unused, FileOps
  <2>4. \A c \in BagToSet(pending') : fit(c)'
    <3>1. ASSUME NEW c \in BagToSet(pending), c.op \in FileOps
          PROVE  Uploading(c)' /\ Removing(c)'
      BY <2>1, <2>2, <2>3, <3>1
      DEF FileInv, FileOps, Unused, Uploading, Removing, fileVars, filesTold
    <3>2. Uploading(call)' /\ Removing(call)'
      BY <2>1, <2>2, <2>3 DEF Uploading, Removing, Unused, FileOps, fileVars
    <3> QED
      BY <2>2, <3>1, <3>2
  <2> QED
    BY <2>1, <2>4, FileSend DEF FileInv, FilesTypeOK, fileVars, filesTold
<1>2. ASSUME NEW f \in FileIds, RemoveFile(f)
      PROVE  kept /\ FileInv'
  <2> DEFINE call == [op |-> "replaceFile", file |-> f, found |-> files[f] # "absent"]
  <2>1. /\ call \in FileCall /\ call.op = "replaceFile" /\ call.file = f
        /\ call.found => files[f] # "absent"
        /\ Start({call}) /\ unlisted' = unlisted \cup {f}
        /\ UNCHANGED <<files, uploaded, forgotten>>
    BY <1>2 DEF RemoveFile, FileCall
  <2> HIDE DEF call
  <2>2. /\ BagToSet(pending') = BagToSet(pending) \cup {call}
        /\ \A c \in BagToSet(pending) \ {call} : pending'[c] = pending[c]
    BY <2>1, StartCalls, StartCounts DEF CallsTyped
  <2>3. \A c \in BagToSet(pending') : fit(c)'
    BY <2>1, <2>2 DEF FileInv, Uploading, Removing
  <2> QED
    BY <2>1, <2>3, FileSend DEF FileInv, FilesTypeOK
<1>3. ASSUME NEW c \in BagToSet(pending), SaveReference(c)
      PROVE  kept /\ FileInv'
  <2> DEFINE call == [c EXCEPT !.op = "insertFile"]
  <2>1. c \in [op : {"upload", "insertFile"}, file : FileIds] /\ c.op = "upload"
    BY <1>3, CallKinds DEF CallsTyped, SaveReference
  <2>2. /\ call \in FileCall /\ call.op = "insertFile" /\ call.file = c.file
        /\ Continue(c, {call}) /\ UNCHANGED fileVars
    BY <1>3, <2>1 DEF SaveReference, FileCall
  <2> HIDE DEF call
  <2>3. Uploading(c) /\ Removing(c)
    BY <2>1 DEF FileInv, FileOps
  <2>4. call \notin BagToSet(pending) /\ call # c
    BY <2>1, <2>2, <2>3 DEF Uploading
  <2>5. /\ BagToSet(pending') \subseteq BagToSet(pending) \cup {call}
        /\ c \notin BagToSet(pending') /\ pending'[call] = 1
        /\ \A d \in BagToSet(pending) \ {c} : pending'[d] = pending[d]
    BY <2>1, <2>2, <2>3, <2>4, ContinueCalls, ContinueCounts DEF CallsTyped, Uploading
  <2>6. \A d \in BagToSet(pending') : fit(d)'
    <3>1. ASSUME NEW d \in BagToSet(pending), d # c, d.op \in FileOps
          PROVE  Uploading(d)' /\ Removing(d)'
      BY <2>1, <2>2, <2>3, <2>5, <3>1
      DEF FileInv, Uploading, Removing, fileVars, filesTold
    <3>2. Uploading(call)' /\ Removing(call)'
      BY <2>1, <2>2, <2>3, <2>5 DEF Uploading, Removing, fileVars
    <3> QED
      BY <2>5, <3>1, <3>2
  <2>7. kept /\ FilesOf(BagToSet(pending)) \subseteq FilesOf(BagToSet(pending'))
    BY <2>1, <2>2, FileAnswer DEF FileOps
  <2> QED
    BY <2>2, <2>6, <2>7 DEF FileInv, FilesTypeOK, fileVars, filesTold
<1>4. ASSUME NEW c \in BagToSet(pending), InsertFile(c)
      PROVE  kept /\ FileInv'
  <2>1. c.op = "insertFile" /\ c.op \in FileOps /\ c.file \in FileIds
    BY <1>4, CallKinds DEF CallsTyped, InsertFile, FileOps
  <2>2. Uploading(c)
    BY <2>1 DEF FileInv
  <2>3. /\ BagToSet(pending') \subseteq BagToSet(pending) \ {c}
        /\ \A d \in BagToSet(pending) \ {c} : pending'[d] = pending[d]
    BY <1>4, <2>1, <2>2, ContinueCalls, ContinueCounts DEF CallsTyped, InsertFile, Uploading
  <2>4. ASSUME NEW d \in BagToSet(pending'), d.op \in FileOps
        PROVE  Uploading(d)' /\ Removing(d)'
    <3>1. /\ d \in BagToSet(pending) /\ d # c /\ pending'[d] = pending[d]
          /\ Uploading(d) /\ Removing(d)
      BY <2>3, <2>4 DEF FileInv
    <3>2. d.op \in {"upload", "insertFile"} => d.file # c.file
      BY <2>1, <2>2, <3>1 DEF Uploading
    <3>3. files' = [files EXCEPT ![c.file] = "listed"] /\ UNCHANGED unlisted
      BY <1>4 DEF InsertFile
    <3>4. Uploading(d)'
      BY <2>3, <3>1, <3>2, <3>3 DEF Uploading, FileInv, FilesTypeOK
    <3> QED
      BY <3>1, <3>3, <3>4 DEF Removing, FileInv, FilesTypeOK
  <2>5. kept /\ FilesOf(BagToSet(pending)) \subseteq FilesOf(BagToSet(pending'))
    BY <1>4, <2>1, FileAnswer DEF InsertFile
  <2>6. files[c.file] = "absent"
    BY <2>1, <2>2 DEF Uploading
  <2> QED
    BY <1>4, <2>1, <2>4, <2>5, <2>6 DEF InsertFile, FileInv, FilesTypeOK
<1>5. ASSUME NEW c \in BagToSet(pending), ReplaceFile(c)
      PROVE  kept /\ FileInv'
  <2>1. /\ c.op = "replaceFile" /\ c.op \in FileOps /\ c.file \in FileIds
        /\ files' = [files EXCEPT ![c.file] = "deleted"]
        /\ UNCHANGED <<uploaded, unlisted, forgotten>>
    BY <1>5, CallKinds DEF CallsTyped, ReplaceFile, FileOps, filesTold
  <2>2. c.file \in unlisted /\ files[c.file] # "absent"
    BY <1>5, <2>1 DEF FileInv, Removing, ReplaceFile
  <2>3. /\ BagToSet(pending') \subseteq BagToSet(pending)
        /\ \A d \in BagToSet(pending) \ {c} : pending'[d] = pending[d]
    BY <1>5, ContinueCalls, ContinueCounts DEF CallsTyped, ReplaceFile
  <2>4. ASSUME NEW d \in BagToSet(pending'), d.op \in FileOps
        PROVE  Uploading(d)' /\ Removing(d)'
    <3>1. d \in BagToSet(pending) /\ Uploading(d) /\ Removing(d)
      BY <2>3, <2>4 DEF FileInv
    <3>2. Uploading(d)'
      BY <2>1, <2>2, <2>3, <3>1 DEF Uploading, FileInv, FilesTypeOK
    <3> QED
      BY <2>1, <3>1, <3>2 DEF Removing, FileInv, FilesTypeOK
  <2>5. kept /\ \A f \in FilesOf(BagToSet(pending)) :
                  f \in FilesOf(BagToSet(pending')) \/ f = c.file
    BY <1>5, <2>1, FileAnswer DEF ReplaceFile
  <2> QED
    BY <2>1, <2>2, <2>4, <2>5 DEF FileInv, FilesTypeOK
<1>6. ASSUME NEW c \in BagToSet(pending), FailFile(c)
      PROVE  kept /\ FileInv'
  <2>1. c.op # "replaceFile" /\ c.op \in FileOps /\ UNCHANGED fileVars
    BY <1>6 DEF FailFile, FileOps
  <2>2. /\ BagToSet(pending') \subseteq BagToSet(pending)
        /\ \A d \in BagToSet(pending) \ {c} : pending'[d] = pending[d]
        /\ c \notin BagToSet(pending')
    BY <1>6, <2>1, ContinueCalls, ContinueCounts DEF CallsTyped, FailFile, FileInv, Uploading
  <2>3. \A d \in BagToSet(pending') : fit(d)'
    BY <2>1, <2>2 DEF FileInv, Uploading, Removing, fileVars, filesTold
  <2>4. kept /\ FilesOf(BagToSet(pending)) \subseteq FilesOf(BagToSet(pending'))
    BY <1>6, <2>1, FileAnswer DEF FailFile
  <2> QED
    BY <2>1, <2>3, <2>4 DEF FileInv, FilesTypeOK, fileVars, filesTold
<1> QED
  BY <1>1, <1>2, <1>3, <1>4, <1>5, <1>6 DEF FileStep, FileRequest, AnswerFile

-----------------------------------------------------------------------------
(* The invariant, and what follows from it. *)

LEMMA InitIInv ==
  ASSUME CommunityInit
  PROVE  IInv
<1>1. CallsTyped /\ BagToSet(pending) = {}
  BY NoCalls DEF CallsTyped, CommunityInit
<1>2. CommentInv
  BY <1>1 DEF CommunityInit, CommentsInit, CommentInv, CommentsTypeOK
<1>3. MessageInv
  BY <1>1 DEF CommunityInit, ConversationsInit, MessageInv, ConversationsTypeOK,
              MessagesHaveConversation, MessagesOf
<1>4. VisitsTypeOK
  BY DEF CommunityInit, VisitsInit, VisitsTypeOK
<1>5. FileInv
  BY <1>1 DEF CommunityInit, FilesInit, FileInv, FilesTypeOK
<1>6. CatalogueInv
  BY <1>1, CataloguesBegin DEF CommunityInit
<1> QED
  BY <1>1, <1>2, <1>3, <1>4, <1>5, <1>6 DEF IInv

\* A crash loses every call: what is stored stays as it is.
LEMMA CrashStep ==
  ASSUME IInv, Crash
  PROVE  IInv'
<1>1. CallsTyped' /\ BagToSet(pending') = {}
  BY NoCalls DEF CallsTyped, Crash
<1>2. CommentInv'
  <2>1. WritesTo(BagToSet(pending)) \subseteq CommentIds
    <3>1. \A c \in BagToSet(pending) : c.op = "replaceComment" => c.comment \in Comment
      BY CallKinds DEF IInv, CallsTyped, CommentOps, CommentCall
    <3> QED
      BY <3>1 DEF WritesTo, Comment
  <2> QED
    BY <1>1, <2>1
    DEF Crash, LoseComments, IInv, CommentInv, CommentsTypeOK, Hangs, commentsTold
<1>3. MessageInv'
  <2> DEFINE calls == {c \in BagToSet(pending) : c.op # "closeConversation"}
  <2>1. TalksOf(calls) \subseteq Talks
    <3>1. \A c \in BagToSet(pending) : c.op \in TalkOps => c.conversation \in Conversation
      BY CallKinds DEF IInv, CallsTyped
    <3> QED
      BY <3>1 DEF TalksOf, Talk, Talks, Conversation
  <2>2. MessagesOf(calls) \subseteq Message
    <3>1. \A c \in BagToSet(pending) : c.op = "createMessage" => c.message \in Message
      BY CallKinds DEF IInv, CallsTyped
    <3> QED
      BY <3>1 DEF MessagesOf
  <2>3. /\ crossed' = crossed \cup TalksOf(calls) /\ mislaid' = mislaid \cup MessagesOf(calls)
        /\ UNCHANGED <<conversations, messages, opened, closed, touched, sent>>
    BY DEF Crash, LoseConversations, conversationsTold
  <2> HIDE DEF calls
  <2>4. ConversationsTypeOK'
    BY <2>1, <2>2, <2>3 DEF IInv, MessageInv, ConversationsTypeOK
  <2> QED
    BY <1>1, <2>3, <2>4 DEF IInv, MessageInv, MessagesHaveConversation, MessagesOf
<1>4. VisitsTypeOK'
  BY DEF Crash, LoseVisits, IInv, VisitsTypeOK
<1>5. FileInv'
  <2>1. FilesOf(BagToSet(pending)) \subseteq FileIds
    <3>1. \A c \in BagToSet(pending) : c.op = "replaceFile" => c.file \in FileIds
      BY CallKinds DEF IInv, CallsTyped
    <3> QED
      BY <3>1 DEF FilesOf
  <2> QED
    BY <1>1, <2>1 DEF Crash, LoseFiles, IInv, FileInv, FilesTypeOK
<1>6. CatalogueInv'
  BY <1>1, CataloguesApart DEF Crash, IInv
<1> QED
  BY <1>1, <1>2, <1>3, <1>4, <1>5, <1>6 DEF IInv

LEMMA NextIInv ==
  ASSUME IInv, [CommunityNext]_communityVars
  PROVE  IInv'
<1>1. ASSUME UNCHANGED entryVars, SameCalls(CatalogueOps)
      PROVE  CatalogueInv'
  BY <1>1, CataloguesApart DEF IInv, SameCalls
<1>2. CASE CommentStep /\ OnlyComments
  BY <1>1, <1>2, CommentCalls, CommentSteps, ConversationsApart, FilesApart
  DEF IInv, OnlyComments, SameCalls, VisitsTypeOK, visitVars, visitsTold
<1>3. CASE ConversationStep /\ OnlyConversations
  BY <1>1, <1>3, ConversationSteps, CommentsApart, FilesApart
  DEF IInv, OnlyConversations, SameCalls, VisitsTypeOK, visitVars, visitsTold
<1>4. CASE VisitStep /\ OnlyVisits
  BY <1>1, <1>4, VisitSteps, CommentsApart, ConversationsApart, FilesApart
  DEF IInv, OnlyVisits, SameCalls
<1>5. CASE FileStep /\ OnlyFiles
  BY <1>1, <1>5, FileSteps, CommentsApart, ConversationsApart
  DEF IInv, OnlyFiles, SameCalls, VisitsTypeOK, visitVars, visitsTold
<1>6. CASE CatalogueStep /\ OnlyCatalogues
  <2>1. CatalogueInv' /\ CallsFollow
    BY <1>6, CatalogueSteps DEF IInv, CallsTyped
  <2>2. CallsTyped'
    BY <2>1 DEF IInv, CallsTyped, CallsFollow, CommunityCall
  <2>3. SameCalls(CommentOps) /\ SameCalls(ConversationOps) /\ SameCalls(FileOps)
    <3>1. /\ CommentOps \cap CatalogueOps = {} /\ ConversationOps \cap CatalogueOps = {}
          /\ FileOps \cap CatalogueOps = {}
      BY DEF CommentOps, ConversationOps, TalkOps, FileOps, CatalogueOps
    <3> QED
      BY <2>1, <3>1 DEF CallsFollow
  <2>4. CommentInv' /\ MessageInv' /\ FileInv'
    BY <1>6, <2>3, CommentsApart, ConversationsApart, FilesApart DEF IInv, OnlyCatalogues
  <2>5. VisitsTypeOK'
    BY <1>6 DEF IInv, OnlyCatalogues, VisitsTypeOK, visitVars, visitsTold
  <2> QED
    BY <2>1, <2>2, <2>4, <2>5 DEF IInv
<1>7. ASSUME UNCHANGED pending
      PROVE  /\ SameCalls(CommentOps) /\ SameCalls(ConversationOps) /\ SameCalls(FileOps)
             /\ SameCalls(CatalogueOps)
  BY <1>7 DEF SameCalls
<1>8. CASE CommunityExpire
  <2>1. CommentInv' /\ MessageInv' /\ FileInv' /\ CatalogueInv'
    BY <1>1, <1>7, <1>8, CommentsApart, ConversationsApart, FilesApart
    DEF IInv, CommunityExpire, OnlyVisits
  <2>2. CallsTyped' /\ VisitsTypeOK'
    BY <1>8 DEF IInv, CallsTyped, CommunityExpire, ExpireVisits, VisitsTypeOK, visitsTold
  <2> QED
    BY <2>1, <2>2 DEF IInv
<1>9. CASE Crash
  BY <1>9, CrashStep
<1>10. CASE UNCHANGED communityVars
  <2>1. CommentInv' /\ MessageInv' /\ FileInv' /\ CatalogueInv'
    BY <1>1, <1>7, <1>10, CommentsApart, ConversationsApart, FilesApart
    DEF IInv, communityVars
  <2>2. CallsTyped' /\ VisitsTypeOK'
    BY <1>10 DEF IInv, CallsTyped, VisitsTypeOK, communityVars, visitVars, visitsTold
  <2> QED
    BY <2>1, <2>2 DEF IInv
<1>11. CASE CommunityRequest \/ \E c \in BagToSet(pending) : Serve(c)
  BY <1>2, <1>3, <1>4, <1>5, <1>6, <1>11
  DEF CommunityRequest, Serve, CommentStep, ConversationStep, VisitStep, FileStep, CatalogueStep
<1> QED
  BY <1>8, <1>9, <1>10, <1>11 DEF CommunityNext

LEMMA CommunityInductive == CommunitySpec => []IInv
<1>1. CommunityInit => IInv
  BY InitIInv
<1>2. IInv /\ [CommunityNext]_communityVars => IInv'
  BY NextIInv
<1> QED
  BY <1>1, <1>2, PTL DEF CommunitySpec

\* The documents, the calls under way and what clients were told are what the
\* code takes them for; two documents never have the same id.
THEOREM CommunityTypes == CommunitySpec => []CommunityTypeOK
<1>1. IInv => CommunityTypeOK
  BY DEF IInv, CommentInv, MessageInv, FileInv, CatalogueInv, CallsTyped, CommunityCall,
         CommunityTypeOK
<1> QED
  BY <1>1, CommunityInductive, PTL

\* Replies hang below comments of the same post that are no replies, whatever
\* likes and removals write back later (create, updateLikes, remove).
THEOREM RepliesHang == CommunitySpec => []RepliesOneDeep
<1>1. IInv => RepliesOneDeep
  BY DEF IInv, CommentInv, Hangs, RepliesOneDeep
<1> QED
  BY <1>1, CommunityInductive, PTL

\* No message without its conversation, although nobody waits for the writes
\* of either (create, createMessage, remove).
THEOREM MessagesBelong == CommunitySpec => []MessagesHaveConversation
<1>1. IInv => MessagesHaveConversation
  BY DEF IInv, MessageInv
<1> QED
  BY <1>1, CommunityInductive, PTL

\* A file is listed from its creation to its removal, and not afterwards but
\* when the removal is under way or was lost (uploadFile, remove, getAll).
THEOREM FilesListed == CommunitySpec => []FilesAsTold
<1>1. IInv => FilesAsTold
  BY DEF IInv, FileInv, FilesTypeOK, FilesAsTold, ListedFiles
<1> QED
  BY <1>1, CommunityInductive, PTL

\* The lists of administrators show what the answered requests left, of a
\* setting updated without a value none, but for fields that a request overwrote
\* which had read them before; and nothing that was deleted comes back (create,
\* update, remove, findAll).
THEOREM ListsTellTheTruth == CommunitySpec => []ListedAsTold
<1>1. IInv => ListedAsTold
  BY ListsFollow DEF IInv
<1> QED
  BY <1>1, CommunityInductive, PTL
-----------------------------------------------------------------------------
(* What clients are told of conversations.  The writes of a conversation   *)
(* that is not crossed arrive one by one, each on its own: until it does,   *)
(* what it has read is what is stored.                                     *)

Stored(t) == \E c \in conversations : Talk(c) = t

CallsOn(t, op) == {o \in BagToSet(pending) : o.op = op /\ Talk(o.conversation) = t}

CallsRight ==
  \A o \in BagToSet(pending) :
    /\ o.op = "createConversation" => o.conversation.at = 0 /\ ~o.conversation.deleted
    /\ o.op \in {"touchConversation", "closeConversation"} => Stored(Talk(o.conversation))

Untouched == \A t \in Talks : ~Stored(t) => touched[t] = 0 /\ t \notin closed

TalkRight(t) ==
  /\ t \in opened => Stored(t) \/ CallsOn(t, "createConversation") # {}
  /\ \A c \in conversations : Talk(c) = t =>
       /\ c.deleted <=> t \in closed
       /\ \A o \in CallsOn(t, "touchConversation") : o.conversation.deleted = c.deleted
       /\ \A o \in CallsOn(t, "closeConversation") :
            o.conversation.at = c.at /\ o.conversation.deleted
       /\ \/ \E o \in CallsOn(t, "touchConversation") : o.conversation.at = touched[t]
          \/ CallsOn(t, "touchConversation") = {} /\ c.at = touched[t]

SentKept == sent \subseteq messages \cup mislaid \cup MessagesOf(BagToSet(pending))

TalkInv ==
  /\ CallsRight /\ Untouched /\ SentKept
  /\ \A t \in Talks \ crossed : TalkRight(t)

\* The conversations are unaffected by calls of other kinds.
LEMMA TalksApart ==
  ASSUME TalkInv, UNCHANGED conversationVars, SameCalls(ConversationOps)
  PROVE  TalkInv'
<1>1. \A o : o.op \in ConversationOps =>
        (o \in BagToSet(pending') <=> o \in BagToSet(pending))
  BY DEF SameCalls
<1>2. \A t : \A op \in TalkOps : CallsOn(t, op)' = CallsOn(t, op)
  BY <1>1 DEF CallsOn, ConversationOps
<1>3. MessagesOf(BagToSet(pending')) = MessagesOf(BagToSet(pending))
  BY <1>1 DEF MessagesOf, ConversationOps
<1>4. CallsRight' /\ Untouched' /\ SentKept'
  BY <1>1, <1>3 DEF TalkInv, CallsRight, Untouched, SentKept, Stored, ConversationOps, TalkOps,
                    conversationVars, conversationsTold
<1>5. \A t \in Talks \ crossed' : TalkRight(t)'
  BY <1>2 DEF TalkInv, TalkRight, Stored, TalkOps, conversationVars, conversationsTold
<1> QED
  BY <1>4, <1>5 DEF TalkInv

LEMMA OpenStep ==
  ASSUME CallsTyped, MessageInv, TalkInv, NEW id \in ConversationIds,
         NEW owner \in Owners, OpenConversation(id, owner)
  PROVE  TalkInv'
<1> DEFINE new == [id |-> id, owner |-> owner, at |-> 0, deleted |-> FALSE]
           call == [op |-> "createConversation", conversation |-> new]
<1>1. /\ call.op = "createConversation" /\ call.conversation = new
      /\ new.at = 0 /\ ~new.deleted
  OBVIOUS
<1>2. Start({call}) /\ opened' = opened \cup {Talk(new)}
      /\ UNCHANGED <<conversations, messages, closed, touched, sent, crossed, mislaid>>
  BY DEF OpenConversation
<1> HIDE DEF call, new
<1>3. BagToSet(pending') = BagToSet(pending) \cup {call}
  BY <1>2, StartCalls DEF CallsTyped
<1>4. CallsRight' /\ Untouched'
  BY <1>1, <1>2, <1>3 DEF TalkInv, CallsRight, Untouched, Stored
<1>5. SentKept'
  BY <1>2, <1>3 DEF TalkInv, SentKept, MessagesOf
<1>6. ASSUME NEW t \in Talks \ crossed'
      PROVE  TalkRight(t)'
  <2>1. TalkRight(t)
    BY <1>2 DEF TalkInv
  <2>2. /\ CallsOn(t, "touchConversation")' = CallsOn(t, "touchConversation")
        /\ CallsOn(t, "closeConversation")' = CallsOn(t, "closeConversation")
        /\ CallsOn(t, "createConversation") \subseteq CallsOn(t, "createConversation")'
        /\ Talk(new) = t => call \in CallsOn(t, "createConversation")'
    BY <1>1, <1>3 DEF CallsOn
  <2> QED
    BY <1>2, <2>1, <2>2 DEF TalkRight, Stored
<1> QED
  BY <1>4, <1>5, <1>6 DEF TalkInv

\* A message touches the conversation as it is stored.
LEMMA MessageStep ==
  ASSUME CallsTyped, MessageInv, TalkInv, NEW id \in ConversationIds,
         NEW at \in Instants, CreateMessage(id, at)
  PROVE  TalkInv'
<1>1. PICK c \in FindConversation(id) :
        /\ Start({[op |-> "touchConversation", conversation |-> At(c, at)],
                  [op |-> "createMessage", message |-> [conversation |-> id, at |-> at]]})
        /\ touched' = [touched EXCEPT ![Talk(c)] = at]
  BY DEF CreateMessage
<1> DEFINE touch == [op |-> "touchConversation", conversation |-> At(c, at)]
           message == [conversation |-> id, at |-> at]
           store == [op |-> "createMessage", message |-> message]
<1>2. c \in conversations /\ c \in Conversation /\ Talk(c) \in Talks
  BY DEF FindConversation, MessageInv, ConversationsTypeOK, Conversation, Talk, Talks
<1>3. /\ touch.op = "touchConversation" /\ store.op = "createMessage"
      /\ touch.conversation.at = at /\ touch.conversation.deleted = c.deleted
      /\ Talk(touch.conversation) = Talk(c) /\ store.message = message
  BY <1>2 DEF At, Conversation, Talk
<1>4. Start({touch, store}) /\ sent' = sent \cup {message}
      /\ UNCHANGED <<conversations, messages, opened, closed, crossed, mislaid>>
  BY <1>1 DEF CreateMessage
<1> HIDE DEF touch, store, message
<1>5. BagToSet(pending') = BagToSet(pending) \cup {touch, store}
  BY <1>4, StartCalls DEF CallsTyped
<1>6. Stored(Talk(c))
  BY <1>2 DEF Stored
<1>7. CallsRight'
  BY <1>3, <1>4, <1>5, <1>6 DEF TalkInv, CallsRight, Stored
<1>8. Untouched'
  BY <1>1, <1>4, <1>6 DEF TalkInv, Untouched, Stored, MessageInv, ConversationsTypeOK
<1>9. SentKept'
  BY <1>3, <1>4, <1>5 DEF TalkInv, SentKept, MessagesOf
<1>10. ASSUME NEW t \in Talks \ crossed'
       PROVE  TalkRight(t)'
  <2>1. TalkRight(t)
    BY <1>4 DEF TalkInv
  <2>2. /\ CallsOn(t, "createConversation")' = CallsOn(t, "createConversation")
        /\ CallsOn(t, "closeConversation")' = CallsOn(t, "closeConversation")
        /\ CallsOn(t, "touchConversation")' =
             CallsOn(t, "touchConversation") \cup (IF Talk(c) = t THEN {touch} ELSE {})
    BY <1>3, <1>5 DEF CallsOn
  <2>3. CASE t = Talk(c)
    <3>1. \A d \in conversations : Talk(d) = t => d = c
      BY <1>2, <2>3 DEF MessageInv, ConversationsTypeOK
    <3>2. touched'[t] = at
      BY <1>1, <2>3 DEF MessageInv, ConversationsTypeOK
    <3> QED
      BY <1>3, <1>4, <2>1, <2>2, <2>3, <3>1, <3>2 DEF TalkRight, Stored
  <2>4. CASE t # Talk(c)
    <3>1. touched'[t] = touched[t]
      BY <1>1, <2>4 DEF MessageInv, ConversationsTypeOK
    <3> QED
      BY <1>4, <2>1, <2>2, <2>4, <3>1 DEF TalkRight, Stored
  <2> QED
    BY <2>3, <2>4
<1> QED
  BY <1>7, <1>8, <1>9, <1>10 DEF TalkInv

LEMMA CloseStep ==
  ASSUME CallsTyped, MessageInv, TalkInv, NEW id \in ConversationIds,
         RemoveConversation(id)
  PROVE  TalkInv'
<1>1. PICK c \in FindConversation(id) :
        Start({[op |-> "closeConversation", conversation |-> [c EXCEPT !.deleted = TRUE]]})
  BY DEF RemoveConversation
<1> DEFINE call == [op |-> "closeConversation", conversation |-> [c EXCEPT !.deleted = TRUE]]
<1>2. c \in conversations /\ c \in Conversation
  BY DEF FindConversation, MessageInv, ConversationsTypeOK
<1>3. /\ call.op = "closeConversation" /\ call.conversation.at = c.at
      /\ call.conversation.deleted /\ Talk(call.conversation) = Talk(c)
  BY <1>2 DEF Conversation, Talk
<1>4. Start({call})
      /\ UNCHANGED <<conversations, messages, opened, closed, touched, sent, crossed, mislaid>>
  BY <1>1 DEF RemoveConversation, conversationVars, conversationsTold
<1> HIDE DEF call
<1>5. BagToSet(pending') = BagToSet(pending) \cup {call}
  BY <1>4, StartCalls DEF CallsTyped
<1>6. Stored(Talk(c))
  BY <1>2 DEF Stored
<1>7. CallsRight' /\ Untouched'
  BY <1>3, <1>4, <1>5, <1>6 DEF TalkInv, CallsRight, Untouched, Stored
<1>8. SentKept'
  BY <1>3, <1>4, <1>5 DEF TalkInv, SentKept, MessagesOf
<1>9. ASSUME NEW t \in Talks \ crossed'
      PROVE  TalkRight(t)'
  <2>1. TalkRight(t)
    BY <1>4 DEF TalkInv
  <2>2. /\ CallsOn(t, "createConversation")' = CallsOn(t, "createConversation")
        /\ CallsOn(t, "touchConversation")' = CallsOn(t, "touchConversation")
        /\ CallsOn(t, "closeConversation")' =
             CallsOn(t, "closeConversation") \cup (IF Talk(c) = t THEN {call} ELSE {})
    BY <1>3, <1>5 DEF CallsOn
  <2>3. \A d \in conversations : Talk(d) = Talk(c) => d = c
    BY <1>2 DEF MessageInv, ConversationsTypeOK
  <2> QED
    BY <1>3, <1>4, <2>1, <2>2, <2>3 DEF TalkRight, Stored
<1> QED
  BY <1>7, <1>8, <1>9 DEF TalkInv
\* A conversation that was not stored is stored as it was created.
LEMMA StoreConversationStep ==
  ASSUME CallsTyped, MessageInv, TalkInv, NEW c \in BagToSet(pending),
         StoreConversation(c)
  PROVE  TalkInv'
<1> DEFINE t0 == Talk(c.conversation)
<1>1. /\ c.op = "createConversation" /\ Held(c.conversation) = {}
      /\ conversations' = conversations \cup {c.conversation}
      /\ BagToSet(pending') = Others(c)
      /\ UNCHANGED <<messages, opened, closed, touched, sent, crossed, mislaid>>
  BY AnswerLeaves DEF StoreConversation, conversationsTold, CallsTyped
<1>2. /\ BagToSet(pending') \subseteq BagToSet(pending)
      /\ \A d \in BagToSet(pending) \ {c} : d \in BagToSet(pending')
  BY ContinueCalls DEF CallsTyped, StoreConversation
<1>3. c.conversation \in Conversation /\ t0 \in Talks
  BY <1>1, CallKinds DEF CallsTyped, TalkOps, Conversation, Talk, Talks
<1>4. ~Stored(t0)
  BY <1>1 DEF Held, Stored
<1>5. c.conversation.at = 0 /\ ~c.conversation.deleted
  BY <1>1 DEF TalkInv, CallsRight
<1>6. touched[t0] = 0 /\ t0 \notin closed
  BY <1>3, <1>4 DEF TalkInv, Untouched
<1>7. \A t \in Talks : Stored(t) => Stored(t)'
  BY <1>1 DEF Stored
<1>8. CallsRight' /\ Untouched'
  BY <1>1, <1>2, <1>7 DEF TalkInv, CallsRight, Untouched, Stored
<1>9. SentKept'
  <2>1. MessagesOf(BagToSet(pending)) \subseteq MessagesOf(BagToSet(pending'))
    BY <1>1, <1>2 DEF MessagesOf
  <2> QED
    BY <1>1, <2>1 DEF TalkInv, SentKept
<1>10. ASSUME NEW t \in Talks \ crossed'
       PROVE  TalkRight(t)'
  <2>1. TalkRight(t)
    BY <1>1 DEF TalkInv
  <2>2. /\ CallsOn(t, "closeConversation")' = CallsOn(t, "closeConversation")
        /\ CallsOn(t, "touchConversation")' = CallsOn(t, "touchConversation")
        /\ t # t0 => CallsOn(t, "createConversation")' = CallsOn(t, "createConversation")
    BY <1>1, <1>2 DEF CallsOn
  <2>3. CASE t # t0
    BY <1>1, <2>1, <2>2, <2>3 DEF TalkRight, Stored
  <2>4. CASE t = t0
    <3>1. /\ CallsOn(t, "closeConversation") = {}
          /\ CallsOn(t, "touchConversation") = {}
      BY <1>4, <2>4 DEF CallsOn, TalkInv, CallsRight
    <3>2. \A d \in conversations' : Talk(d) = t => d = c.conversation
      BY <1>1, <1>4, <2>4 DEF Stored
    <3>3. Stored(t)'
      BY <1>1, <2>4 DEF Stored
    <3> QED
      BY <1>1, <1>5, <1>6, <2>2, <2>4, <3>1, <3>2, <3>3 DEF TalkRight
  <2> QED
    BY <2>3, <2>4
<1> QED
  BY <1>8, <1>9, <1>10 DEF TalkInv

\* A replace that meets no other call of its conversation writes what it has
\* read with its own change; any other one crosses the conversation.
LEMMA ReplaceConversationStep ==
  ASSUME CallsTyped, MessageInv, TalkInv, NEW c \in BagToSet(pending),
         ReplaceConversation(c)
  PROVE  TalkInv'
<1> DEFINE t0 == Talk(c.conversation)
           close == c.op = "closeConversation"
<1>1. /\ c.op \in {"touchConversation", "closeConversation"}
      /\ conversations' = (conversations \ Held(c.conversation)) \cup {c.conversation}
      /\ BagToSet(pending') = Others(c)
      /\ closed' = closed \cup (IF close THEN {t0} ELSE {})
      /\ crossed' = crossed \cup TalkOverlap(c)
      /\ UNCHANGED <<messages, opened, touched, sent, mislaid>>
  BY AnswerLeaves DEF ReplaceConversation, CallsTyped
<1>2. /\ BagToSet(pending') \subseteq BagToSet(pending)
      /\ \A d \in BagToSet(pending) \ {c} : d \in BagToSet(pending')
  BY ContinueCalls DEF CallsTyped, ReplaceConversation
<1>3. c.conversation \in Conversation /\ t0 \in Talks
  BY <1>1, CallKinds DEF CallsTyped, TalkOps, Conversation, Talk, Talks
<1>4. Stored(t0)
  BY <1>1 DEF TalkInv, CallsRight
<1>5. \A t : Stored(t)' <=> Stored(t)
  BY <1>1, <1>4 DEF Stored, Held
<1>6. CallsRight' /\ Untouched'
  BY <1>1, <1>2, <1>4, <1>5 DEF TalkInv, CallsRight, Untouched
<1>7. SentKept'
  <2>1. MessagesOf(BagToSet(pending)) \subseteq MessagesOf(BagToSet(pending'))
    BY <1>1, <1>2 DEF MessagesOf
  <2> QED
    BY <1>1, <2>1 DEF TalkInv, SentKept
<1>8. ASSUME NEW t \in Talks \ crossed'
      PROVE  TalkRight(t)'
  <2>1. TalkRight(t)
    BY <1>1, <1>8 DEF TalkInv
  <2>2. CASE t # t0
    <3>1. \A op : CallsOn(t, op)' = CallsOn(t, op)
      BY <1>2, <2>2 DEF CallsOn
    <3>2. \A d : Talk(d) = t => (d \in conversations' <=> d \in conversations)
      BY <1>1, <2>2 DEF Held
    <3>3. t \in closed' <=> t \in closed
      BY <1>1, <2>2
    <3> QED
      BY <1>1, <1>5, <2>1, <3>1, <3>2, <3>3 DEF TalkRight
  <2>3. CASE t = t0
    <3>1. t0 \notin TalksOf(Others(c))
      BY <1>1, <2>3 DEF TalkOverlap
    <3>2. \A op \in TalkOps : CallsOn(t, op)' = {}
      BY <1>1, <2>3, <3>1 DEF CallsOn, TalksOf
    <3>3. \A op \in TalkOps : CallsOn(t, op) \subseteq {c}
      BY <1>2, <3>2 DEF CallsOn
    <3>4. PICK old \in conversations : Talk(old) = t
      BY <1>4, <2>3 DEF Stored
    <3>5. \A d \in conversations' : Talk(d) = t => d = c.conversation
      BY <1>1, <2>3 DEF Held
    <3>6. CASE c.op = "touchConversation"
      <4>1. c \in CallsOn(t, "touchConversation")
        BY <2>3, <3>6 DEF CallsOn
      <4>2. c.conversation.at = touched[t]
        BY <2>1, <3>3, <3>4, <4>1 DEF TalkRight, TalkOps
      <4>3. c.conversation.deleted <=> t \in closed'
        BY <1>1, <2>1, <3>4, <3>6, <4>1 DEF TalkRight
      <4> QED
        BY <1>1, <1>4, <1>5, <2>3, <3>2, <3>5, <4>2, <4>3 DEF TalkRight, TalkOps
    <3>7. CASE c.op = "closeConversation"
      <4>1. c \in CallsOn(t, "closeConversation")
        BY <2>3, <3>7 DEF CallsOn
      <4>2. CallsOn(t, "touchConversation") = {}
        BY <3>3, <3>7 DEF CallsOn, TalkOps
      <4>3. c.conversation.at = touched[t] /\ c.conversation.deleted
        BY <2>1, <3>4, <4>1, <4>2 DEF TalkRight
      <4>4. t \in closed'
        BY <1>1, <2>3, <3>7
      <4> QED
        BY <1>1, <1>4, <1>5, <2>3, <3>2, <3>5, <4>3, <4>4 DEF TalkRight, TalkOps
    <3> QED
      BY <1>1, <3>6, <3>7
  <2> QED
    BY <2>2, <2>3
<1> QED
  BY <1>6, <1>7, <1>8 DEF TalkInv

LEMMA StoreMessageStep ==
  ASSUME CallsTyped, MessageInv, TalkInv, NEW c \in BagToSet(pending), StoreMessage(c)
  PROVE  TalkInv'
<1>1. /\ c.op = "createMessage" /\ messages' = messages \cup {c.message}
      /\ BagToSet(pending') = Others(c)
      /\ UNCHANGED <<conversations, opened, closed, touched, sent, crossed, mislaid>>
  BY AnswerLeaves DEF StoreMessage, CallsTyped, conversationsTold
<1>2. /\ BagToSet(pending') \subseteq BagToSet(pending)
      /\ \A d \in BagToSet(pending) \ {c} : d \in BagToSet(pending')
  BY ContinueCalls DEF CallsTyped, StoreMessage
<1>3. CallsRight' /\ Untouched'
  BY <1>1, <1>2 DEF TalkInv, CallsRight, Untouched, Stored
<1>4. SentKept'
  <2>1. MessagesOf(BagToSet(pending)) \subseteq {c.message} \cup MessagesOf(BagToSet(pending'))
    BY <1>1, <1>2 DEF MessagesOf
  <2> QED
    BY <1>1, <2>1 DEF TalkInv, SentKept
<1>5. \A t : \A op \in TalkOps : CallsOn(t, op)' = CallsOn(t, op)
  BY <1>1, <1>2 DEF CallsOn, TalkOps
<1>6. \A t \in Talks \ crossed' : TalkRight(t)'
  BY <1>1, <1>5 DEF TalkInv, TalkRight, Stored, TalkOps
<1> QED
  BY <1>3, <1>4, <1>6 DEF TalkInv

LEMMA FailConversationStep ==
  ASSUME CallsTyped, MessageInv, TalkInv, NEW c \in BagToSet(pending), FailConversation(c)
  PROVE  TalkInv'
<1>1. /\ c.op = "closeConversation" /\ BagToSet(pending') = Others(c)
      /\ UNCHANGED <<conversations, messages, opened, closed, touched, sent, crossed, mislaid>>
  BY AnswerLeaves DEF FailConversation, CallsTyped, conversationVars, conversationsTold
<1>2. /\ BagToSet(pending') \subseteq BagToSet(pending)
      /\ \A d \in BagToSet(pending) \ {c} : d \in BagToSet(pending')
  BY ContinueCalls DEF CallsTyped, FailConversation
<1>3. CallsRight' /\ Untouched'
  BY <1>1, <1>2 DEF TalkInv, CallsRight, Untouched, Stored
<1>4. SentKept'
  <2>1. MessagesOf(BagToSet(pending)) \subseteq MessagesOf(BagToSet(pending'))
    BY <1>1, <1>2 DEF MessagesOf
  <2> QED
    BY <1>1, <2>1 DEF TalkInv, SentKept
<1>5. \A t : /\ CallsOn(t, "createConversation")' = CallsOn(t, "createConversation")
             /\ CallsOn(t, "touchConversation")' = CallsOn(t, "touchConversation")
             /\ CallsOn(t, "closeConversation")' \subseteq CallsOn(t, "closeConversation")
  BY <1>1, <1>2 DEF CallsOn
<1>6. \A t \in Talks \ crossed' : TalkRight(t)'
  BY <1>1, <1>5 DEF TalkInv, TalkRight, Stored
<1> QED
  BY <1>3, <1>4, <1>6 DEF TalkInv

\* A crash crosses the conversations with writes under way; that a removal is
\* lost is no harm, nobody was told of it.
LEMMA CrashTalks ==
  ASSUME CallsTyped, MessageInv, TalkInv, Crash
  PROVE  TalkInv'
<1> DEFINE calls == {c \in BagToSet(pending) : c.op # "closeConversation"}
<1>1. /\ BagToSet(pending') = {}
      /\ crossed' = crossed \cup TalksOf(calls) /\ mislaid' = mislaid \cup MessagesOf(calls)
      /\ UNCHANGED <<conversations, messages, opened, closed, touched, sent>>
  BY NoCalls DEF Crash, LoseConversations, conversationsTold
<1>2. CallsRight' /\ Untouched'
  BY <1>1 DEF TalkInv, CallsRight, Untouched, Stored
<1>3. SentKept'
  <2>1. MessagesOf(BagToSet(pending)) \subseteq MessagesOf(calls)
    BY DEF MessagesOf
  <2> QED
    BY <1>1, <2>1 DEF TalkInv, SentKept
<1>4. ASSUME NEW t \in Talks \ crossed'
      PROVE  TalkRight(t)'
  <2>1. TalkRight(t)
    BY <1>1 DEF TalkInv
  <2>2. /\ CallsOn(t, "createConversation") = {}
        /\ CallsOn(t, "touchConversation") = {}
    BY <1>1 DEF CallsOn, TalksOf, TalkOps
  <2>3. \A op : CallsOn(t, op)' = {}
    BY <1>1 DEF CallsOn
  <2> QED
    BY <1>1, <2>1, <2>2, <2>3 DEF TalkRight, Stored
<1> QED
  BY <1>2, <1>3, <1>4 DEF TalkInv

LEMMA TalkSteps ==
  ASSUME CallsTyped, MessageInv, TalkInv, ConversationStep
  PROVE  TalkInv'
BY OpenStep, MessageStep, CloseStep, StoreConversationStep, ReplaceConversationStep,
   StoreMessageStep, FailConversationStep
DEF ConversationStep, ConversationRequest, AnswerConversation
-----------------------------------------------------------------------------
(* What clients are told of comments.  A write that meets no other write to *)
(* its comment brings the likes the clients were told of, and the deletion  *)
(* if they were told of one.                                                *)

Right(c) == c.likes = liking[c.id] /\ (c.id \in discarded => c.deleted)

\* A comment is deleted on its own account or on its parent's.
Explained(c) == c.deleted => discarded \cap {c.id, c.parent} # {}

Unborn ==
  \A id \in CommentIds :
    (\A c \in comments : c.id # id) => liking[id] = {} /\ id \notin discarded

CallTold(c) ==
  /\ c.op = "insertComment" => c.comment.likes = {} /\ ~c.comment.deleted
  /\ c.op \in {"listChildren", "replaceComment"} => Explained(c.comment)
  /\ c.op = "replaceComment" /\ c.comment.id \notin disturbed /\ CommentOverlap(c) = {} =>
       Right(c.comment)

ShownInv ==
  /\ Unborn
  /\ \A c \in comments : Explained(c)
  /\ \A c \in comments : CommentSettled(c.id) => Right(c)
  /\ \A c \in BagToSet(pending) : c.op \in CommentOps => CallTold(c)

\* When a write is alone after a step that answers none, either it was alone
\* before and no write joined it, or it is new and there was none.
LEMMA AloneBefore ==
  ASSUME IsABag(pending), NEW new,
         \/ Start(new)
         \/ \E c \in BagToSet(pending) : c.op # "replaceComment" /\ Continue(c, new),
         NEW o \in BagToSet(pending'), o.op = "replaceComment",
         CommentOverlap(o)' = {}
  PROVE  /\ \A d \in new : d.op = "replaceComment" /\ d # o => d.comment.id # o.comment.id
         /\ o \in new => o.comment.id \notin WritesTo(BagToSet(pending))
         /\ o \notin new => o \in BagToSet(pending) /\ CommentOverlap(o) = {}
<1> DEFINE Kept ==
      /\ IsABag(pending') /\ new \subseteq BagToSet(pending')
      /\ BagToSet(pending') \subseteq BagToSet(pending) \cup new
      /\ \A d \in BagToSet(pending) : d.op = "replaceComment" => d \in BagToSet(pending')
      /\ \A d \in BagToSet(pending) \ new : d.op = "replaceComment" => pending'[d] = pending[d]
<1>1. Kept
  <2>1. CASE Start(new)
    BY <2>1, StartCalls, StartCounts
  <2>2. ASSUME NEW c \in BagToSet(pending), c.op # "replaceComment", Continue(c, new)
        PROVE  Kept
    BY <2>2, ContinueCalls, ContinueCounts
  <2> QED
    BY <2>1, <2>2
<1>2. \A d \in BagToSet(pending') :
        d.op = "replaceComment" /\ d.comment.id = o.comment.id => d = o /\ ~(pending'[d] > 1)
  <2>1. Others(o)' = {d \in BagToSet(pending') : d # o \/ pending'[d] > 1}
    BY <1>1, OthersAre DEF Others
  <2>2. o.comment.id \notin WritesTo(Others(o)')
    BY DEF CommentOverlap
  <2> QED
    BY <2>1, <2>2 DEF WritesTo
<1>3. \A d \in new : d.op = "replaceComment" /\ d # o => d.comment.id # o.comment.id
  BY <1>1, <1>2
<1>4. ASSUME o \in new
      PROVE  o.comment.id \notin WritesTo(BagToSet(pending))
  <2> SUFFICES ASSUME NEW d \in BagToSet(pending), d.op = "replaceComment",
                      d.comment.id = o.comment.id
               PROVE  FALSE
    BY DEF WritesTo
  <2>1. d = o /\ ~(pending'[o] > 1)
    BY <1>1, <1>2
  <2> QED
    BY <1>4, <2>1, SentTwice
<1>5. ASSUME o \notin new
      PROVE  o \in BagToSet(pending) /\ CommentOverlap(o) = {}
  <2>1. o \in BagToSet(pending) /\ pending'[o] = pending[o]
    BY <1>1, <1>5
  <2>2. Others(o) = {d \in BagToSet(pending) : d # o \/ pending[d] > 1}
    BY OthersAre DEF Others
  <2>3. o.comment.id \notin WritesTo(Others(o))
    BY <1>1, <1>2, <2>1, <2>2 DEF WritesTo
  <2> QED
    BY <2>1, <2>3 DEF CommentOverlap
<1> QED
  BY <1>3, <1>4, <1>5

\* Sending calls beside those under way, or answering one that is no write.
LEMMA SendTold ==
  ASSUME CallsTyped, CommentInv, CommentsTypeOK', ShownInv, NEW new,
         \/ Start(new)
         \/ \E c \in BagToSet(pending) : c.op # "replaceComment" /\ Continue(c, new),
         disturbed \subseteq disturbed', discarded \subseteq discarded',
         \A id \in CommentIds : id \notin WritesTo(new) =>
           /\ liking'[id] = liking[id]
           /\ id \in discarded' => id \in discarded \cup disturbed',
         \A d \in new : d.op \in CommentOps =>
           /\ d.comment \in Comment
           /\ d.op = "insertComment" => d.comment.likes = {} /\ ~d.comment.deleted
           /\ d.op # "insertComment" => Explained(d.comment)'
           /\ d.op = "replaceComment" /\ d.comment.id \notin disturbed'
                /\ d.comment.id \notin WritesTo(BagToSet(pending)) => Right(d.comment)',
         comments \subseteq comments',
         \A d \in comments' \ comments : Explained(d)' /\ Right(d)',
         Unborn'
  PROVE  ShownInv'
<1> DEFINE Kept ==
      /\ BagToSet(pending') \subseteq BagToSet(pending) \cup new
      /\ new \subseteq BagToSet(pending')
      /\ \A d \in BagToSet(pending) : d.op = "replaceComment" => d \in BagToSet(pending')
<1>1. Kept
  <2>1. CASE Start(new)
    BY <2>1, StartCalls DEF CallsTyped
  <2>2. ASSUME NEW c \in BagToSet(pending), c.op # "replaceComment", Continue(c, new)
        PROVE  Kept
    BY <2>2, ContinueCalls DEF CallsTyped
  <2> QED
    BY <2>1, <2>2
<1>2. \A d \in BagToSet(pending) : d.op \in CommentOps => d.comment \in Comment
  BY CallKinds DEF CallsTyped, CommentCall
<1>3. \A c \in comments' : Explained(c)'
  BY DEF ShownInv, Explained
<1>4. ASSUME NEW c \in comments', CommentSettled(c.id)'
      PROVE  Right(c)'
  <2>1. c.id \in CommentIds
    BY DEF CommentsTypeOK, Comment
  <2>2. /\ c.id \notin disturbed' /\ c.id \notin WritesTo(new)
        /\ c.id \notin WritesTo(BagToSet(pending))
    BY <1>1, <1>4 DEF CommentSettled, WritesTo
  <2>3. CASE c \in comments
    <3>1. Right(c)
      BY <2>2, <2>3 DEF ShownInv, CommentSettled
    <3> QED
      BY <2>1, <2>2, <3>1 DEF Right
  <2> QED
    BY <2>3
<1>5. ASSUME NEW o \in BagToSet(pending'), o.op \in CommentOps
      PROVE  CallTold(o)'
  <2>1. o.op = "insertComment" => o.comment.likes = {} /\ ~o.comment.deleted
    BY <1>1, <1>5 DEF ShownInv, CallTold
  <2>2. o.op \in {"listChildren", "replaceComment"} => Explained(o.comment)'
    BY <1>1, <1>5 DEF ShownInv, CallTold, Explained
  <2>3. ASSUME o.op = "replaceComment", o.comment.id \notin disturbed',
               CommentOverlap(o)' = {}
        PROVE  Right(o.comment)'
    <3>1. /\ \A d \in new : d.op = "replaceComment" /\ d # o => d.comment.id # o.comment.id
          /\ o \in new => o.comment.id \notin WritesTo(BagToSet(pending))
          /\ o \notin new => o \in BagToSet(pending) /\ CommentOverlap(o) = {}
      BY <2>3, AloneBefore DEF CallsTyped
    <3>2. CASE o \in new
      BY <1>5, <2>3, <3>1, <3>2
    <3>3. CASE o \notin new
      <4>1. Right(o.comment)
        BY <1>5, <2>3, <3>1, <3>3 DEF ShownInv, CallTold
      <4>2. o.comment.id \in CommentIds
        BY <1>2, <1>5, <3>1, <3>3 DEF Comment
      <4>3. o.comment.id \notin WritesTo(new)
        BY <3>1, <3>3 DEF WritesTo
      <4> QED
        BY <2>3, <4>1, <4>2, <4>3 DEF Right
    <3> QED
      BY <3>2, <3>3
  <2> QED
    BY <2>1, <2>2, <2>3 DEF CallTold
<1> QED
  BY <1>3, <1>4, <1>5 DEF ShownInv
\* Calls of other kinds leave what is told of comments alone.
LEMMA ShownApart ==
  ASSUME IsABag(pending), IsABag(pending'), ShownInv, UNCHANGED commentVars,
         SameCalls(CommentOps)
  PROVE  ShownInv'
<1>1. /\ \A o \in BagToSet(pending') : o.op \in CommentOps =>
           o \in BagToSet(pending) /\ pending'[o] = pending[o]
      /\ \A o \in BagToSet(pending) : o.op \in CommentOps => o \in BagToSet(pending')
  BY DEF SameCalls
<1>2. WritesTo(BagToSet(pending')) = WritesTo(BagToSet(pending))
  BY <1>1 DEF WritesTo, CommentOps
<1>3. /\ Unborn' /\ \A c \in comments' : Explained(c)'
      /\ \A c \in comments' : CommentSettled(c.id)' => Right(c)'
  BY <1>2 DEF ShownInv, Unborn, Explained, Right, CommentSettled, commentVars, commentsTold
<1>4. ASSUME NEW o \in BagToSet(pending'), o.op \in CommentOps
      PROVE  CallTold(o)'
  <2>1. CallTold(o)
    BY <1>1, <1>4 DEF ShownInv
  <2>2. /\ Others(o) = {d \in BagToSet(pending) : d # o \/ pending[d] > 1}
        /\ Others(o)' = {d \in BagToSet(pending') : d # o \/ pending'[d] > 1}
    BY OthersAre DEF Others
  <2>3. WritesTo(Others(o)') = WritesTo(Others(o))
    BY <1>1, <2>2 DEF WritesTo, CommentOps
  <2>4. CommentOverlap(o)' = CommentOverlap(o)
    BY <2>3 DEF CommentOverlap, WritesTo
  <2> QED
    BY <2>1, <2>4 DEF CallTold, Explained, Right, commentVars, commentsTold
<1> QED
  BY <1>3, <1>4 DEF ShownInv

LEMMA CreateTold ==
  ASSUME CallsTyped, CommentInv, CommentsTypeOK', ShownInv,
         NEW id \in CommentIds, NEW post \in CommentedPosts,
         NEW parent \in CommentIds \cup {NoParent}, CreateComment(id, post, parent)
  PROVE  ShownInv'
<1> DEFINE comment == [id |-> id, post |-> post, parent |-> parent, likes |-> {}, deleted |-> FALSE]
           call == [op |-> "insertComment", comment |-> comment]
           new == {call}
<1>1. Start(new) /\ UNCHANGED <<comments, commentsTold, disturbed>>
  BY DEF CreateComment
<1>2. \A d \in new : /\ d.op = "insertComment" /\ d.comment \in Comment
                     /\ d.comment.likes = {} /\ ~d.comment.deleted
  <2>1. comment \in Comment /\ comment.likes = {} /\ ~comment.deleted
    BY DEF Comment
  <2>2. call.op = "insertComment" /\ call.comment = comment
    OBVIOUS
  <2> HIDE DEF call, comment
  <2> QED
    BY <2>1, <2>2
<1>3. Unborn'
  BY <1>1 DEF ShownInv, Unborn, commentsTold
<1> HIDE DEF new, call, comment
<1> QED
  BY <1>1, <1>2, <1>3, SendTold DEF commentsTold

LEMMA UpdateLikesTold ==
  ASSUME CallsTyped, CommentInv, CommentsTypeOK', ShownInv, NEW comment \in comments,
         NEW reader \in Readers, UpdateLikes(comment, reader)
  PROVE  ShownInv'
<1> DEFINE toggled == Toggled(comment, reader)
           new == {ReplaceComment(toggled)}
<1>1. /\ Start(new) /\ UNCHANGED <<comments, discarded, disturbed>>
      /\ liking' = [liking EXCEPT ![comment.id] = toggled.likes]
  BY DEF UpdateLikes
<1>2. /\ comment \in Comment /\ comment.id \in CommentIds
      /\ liking \in [CommentIds -> SUBSET Readers]
  BY DEF CommentInv, CommentsTypeOK, Comment
<1>3. /\ toggled \in Comment /\ SameNode(toggled, comment)
      /\ toggled.deleted = comment.deleted
  BY <1>2 DEF Toggled, Comment, SameNode
<1> HIDE DEF toggled
<1>4. \A d \in new : d.op = "replaceComment" /\ d.comment = toggled
  BY DEF ReplaceComment
<1>5. comment.id \in WritesTo(new)
  BY <1>3, <1>4 DEF WritesTo, SameNode
<1>6. Explained(toggled)'
  BY <1>1, <1>3 DEF ShownInv, Explained, SameNode
<1>7. ASSUME toggled.id \notin disturbed', toggled.id \notin WritesTo(BagToSet(pending))
      PROVE  Right(toggled)'
  <2>1. Right(comment)
    BY <1>1, <1>3, <1>7 DEF ShownInv, CommentSettled, SameNode
  <2> QED
    BY <1>1, <1>2, <1>3, <2>1 DEF Right, SameNode
<1>8. Unborn'
  BY <1>1, <1>2 DEF ShownInv, Unborn
<1> HIDE DEF new
<1> QED
  BY <1>1, <1>2, <1>3, <1>4, <1>5, <1>6, <1>7, <1>8, SendTold

LEMMA RemoveTold ==
  ASSUME CallsTyped, CommentInv, CommentsTypeOK', ShownInv, NEW comment \in comments,
         RemoveComment(comment)
  PROVE  ShownInv'
<1> DEFINE new == {[op |-> "listChildren", comment |-> comment]}
<1>1. Start(new) /\ UNCHANGED <<comments, commentsTold, disturbed>>
  BY DEF RemoveComment, commentVars
<1>2. \A d \in new : d.op = "listChildren" /\ d.comment \in Comment /\ Explained(d.comment)'
  BY <1>1 DEF CommentInv, CommentsTypeOK, ShownInv, Explained, commentsTold
<1>3. Unborn'
  BY <1>1 DEF ShownInv, Unborn, commentsTold
<1> HIDE DEF new
<1> QED
  BY <1>1, <1>2, <1>3, SendTold DEF commentsTold

LEMMA InsertTold ==
  ASSUME CallsTyped, CommentInv, CommentsTypeOK', ShownInv, NEW c \in BagToSet(pending),
         InsertComment(c)
  PROVE  ShownInv'
<1>1. /\ c.op = "insertComment" /\ c.op \in CommentOps /\ Continue(c, {})
      /\ comments' = comments \cup {c.comment}
      /\ UNCHANGED <<commented, discarded, liking, disturbed>>
  BY DEF InsertComment, CommentOps
<1>2. /\ c.comment.likes = {} /\ ~c.comment.deleted
      /\ c.comment.id \in CommentIds /\ \A d \in comments : d.id # c.comment.id
  BY <1>1, CallKinds DEF CallsTyped, ShownInv, CallTold, CommentInv, Inserting, CommentCall, Comment
<1>3. Explained(c.comment)' /\ Right(c.comment)' /\ Unborn'
  BY <1>1, <1>2 DEF ShownInv, Unborn, Explained, Right
<1> DEFINE new == {}
<1>4. Continue(c, new) /\ WritesTo(new) = {} /\ \A d \in new : FALSE
  BY <1>1 DEF WritesTo
<1> HIDE DEF new
<1> QED
  BY <1>1, <1>3, <1>4, SendTold

LEMMA ListChildrenTold ==
  ASSUME CallsTyped, CommentInv, CommentsTypeOK', ShownInv, NEW c \in BagToSet(pending),
         ListChildren(c)
  PROVE  ShownInv'
<1> DEFINE marked == {c.comment} \cup Children(c.comment.id)
           new == {ReplaceComment(AsDeleted(d)) : d \in marked}
<1>1. /\ c.op = "listChildren" /\ c.op \in CommentOps /\ Continue(c, new)
      /\ discarded' = discarded \cup {c.comment.id}
      /\ c.comment \notin comments => c.comment.id \in disturbed'
      /\ disturbed \subseteq disturbed'
      /\ UNCHANGED <<comments, published, liking>>
  BY DEF ListChildren, CommentOps
<1>2. /\ c.comment \in Comment
      /\ \E d \in comments : SameNode(d, c.comment)
  BY <1>1, CallKinds DEF CallsTyped, CommentInv, Reading, CommentCall
<1>3. ASSUME NEW d \in marked
      PROVE  d \in Comment /\ (d = c.comment \/ (d \in comments /\ d.parent = c.comment.id))
  <2>1. comments \subseteq Comment
    BY DEF CommentInv, CommentsTypeOK
  <2>2. CASE d = c.comment
    BY <1>2, <2>2
  <2>3. CASE d \in Children(c.comment.id)
    BY <2>1, <2>3 DEF Children
  <2> QED
    BY <2>2, <2>3
<1>4. ASSUME NEW d \in marked
      PROVE  LET o == ReplaceComment(AsDeleted(d)) IN
             /\ o.op = "replaceComment" /\ o.comment \in Comment
             /\ SameNode(o.comment, d) /\ o.comment.likes = d.likes /\ o.comment.deleted
  BY <1>3 DEF ReplaceComment, AsDeleted, Comment, SameNode
<1>5. c.comment.id \in WritesTo(new)
  BY <1>4 DEF WritesTo, SameNode
<1>6. ASSUME NEW d \in marked, d.id \notin disturbed', d.id \notin WritesTo(BagToSet(pending))
      PROVE  d.likes = liking'[d.id]
  BY <1>1, <1>3, <1>6 DEF ShownInv, CommentSettled, Right
<1>7. \A o \in new :
        /\ o.op = "replaceComment" /\ o.comment \in Comment
        /\ Explained(o.comment)'
        /\ o.comment.id \notin disturbed' /\ o.comment.id \notin WritesTo(BagToSet(pending)) =>
             Right(o.comment)'
  BY <1>1, <1>3, <1>4, <1>6 DEF Explained, Right, SameNode
<1>8. Unborn'
  BY <1>1, <1>2 DEF ShownInv, Unborn, SameNode
<1> HIDE DEF new, marked
<1> QED
  BY <1>1, <1>5, <1>7, <1>8, SendTold

LEMMA FailCommentTold ==
  ASSUME CallsTyped, CommentInv, CommentsTypeOK', ShownInv, NEW c \in BagToSet(pending),
         FailComment(c)
  PROVE  ShownInv'
<1>1. c.op # "replaceComment" /\ Continue(c, {}) /\ UNCHANGED commentVars
  BY DEF FailComment
<1>2. Unborn'
  BY <1>1 DEF ShownInv, Unborn, commentVars, commentsTold
<1> DEFINE new == {}
<1>3. Continue(c, new) /\ WritesTo(new) = {} /\ \A d \in new : FALSE
  BY <1>1 DEF WritesTo
<1> HIDE DEF new
<1> QED
  BY <1>1, <1>2, <1>3, SendTold DEF commentVars, commentsTold

\* A write that meets no other is right; one that does disturbs its comment.
LEMMA StoreTold ==
  ASSUME CallsTyped, CommentInv, CommentsTypeOK', ShownInv, NEW c \in BagToSet(pending),
         StoreComment(c)
  PROVE  ShownInv'
<1>1. /\ c.op = "replaceComment" /\ c.op \in CommentOps /\ Continue(c, {})
      /\ comments' = {d \in comments : d.id # c.comment.id} \cup {c.comment}
      /\ disturbed' = disturbed \cup CommentOverlap(c)
      /\ UNCHANGED <<discarded, liking>>
  BY DEF StoreComment, CommentOps, commentsTold
<1>2. /\ CallTold(c) /\ c.comment \in Comment
      /\ \E d \in comments : SameNode(d, c.comment)
  BY <1>1, CallKinds DEF CallsTyped, CommentInv, Reading, CommentCall, ShownInv
<1>3. BagToSet(pending') = Others(c)
  BY <1>1, AnswerLeaves DEF CallsTyped
<1>4. /\ IsABag(pending') /\ BagToSet(pending') \subseteq BagToSet(pending)
      /\ \A d \in BagToSet(pending) \ {c} : d \in BagToSet(pending') /\ pending'[d] = pending[d]
  BY <1>1, ContinueCalls, ContinueCounts DEF CallsTyped
<1>5. Unborn'
  BY <1>1, <1>2 DEF ShownInv, Unborn, SameNode
<1>6. \A d \in comments' : Explained(d)'
  BY <1>1, <1>2 DEF ShownInv, CallTold, Explained
<1>7. ASSUME NEW d \in comments', CommentSettled(d.id)'
      PROVE  Right(d)'
  <2>1. CASE d.id = c.comment.id
    <3>1. d = c.comment /\ c.comment.id \notin disturbed /\ CommentOverlap(c) = {}
      BY <1>1, <1>7, <2>1 DEF CommentSettled, CommentOverlap
    <3> QED
      BY <1>1, <1>2, <3>1 DEF CallTold, Right
  <2>2. CASE d.id # c.comment.id
    <3>1. d \in comments /\ CommentSettled(d.id)
      BY <1>1, <1>4, <1>7, <2>2 DEF CommentSettled, WritesTo
    <3> QED
      BY <1>1, <3>1 DEF ShownInv, Right
  <2> QED
    BY <2>1, <2>2
<1>8. ASSUME NEW o \in BagToSet(pending'), o.op \in CommentOps
      PROVE  CallTold(o)'
  <2>1. CallTold(o)
    BY <1>4, <1>8 DEF ShownInv
  <2>2. ASSUME o.op = "replaceComment", o.comment.id \notin disturbed', CommentOverlap(o)' = {}
        PROVE  Right(o.comment)'
    <3>1. o.comment.id # c.comment.id
      BY <1>1, <1>3, <2>2 DEF CommentOverlap, WritesTo
    <3>2. /\ Others(o) = {d \in BagToSet(pending) : d # o \/ pending[d] > 1}
          /\ Others(o)' = {d \in BagToSet(pending') : d # o \/ pending'[d] > 1}
      BY <1>4, OthersAre DEF Others, CallsTyped
    <3>3. \A d \in Others(o) : d \in Others(o)' \/ d = c
      BY <1>4, <3>2
    <3>4. CommentOverlap(o) = {}
      BY <2>2, <3>1, <3>3 DEF CommentOverlap, WritesTo
    <3>5. Right(o.comment)
      BY <1>1, <2>1, <2>2, <3>4 DEF CallTold
    <3> QED
      BY <1>1, <3>5 DEF Right
  <2> QED
    BY <1>1, <2>1, <2>2 DEF CallTold, Explained
<1> QED
  BY <1>5, <1>6, <1>7, <1>8 DEF ShownInv

LEMMA CrashTold ==
  ASSUME ShownInv, Crash
  PROVE  ShownInv'
<1>1. BagToSet(pending') = {}
  BY NoCalls DEF Crash
<1>2. /\ UNCHANGED <<comments, discarded, liking>>
      /\ disturbed' = disturbed \cup WritesTo(BagToSet(pending))
  BY DEF Crash, LoseComments, commentsTold
<1> QED
  BY <1>1, <1>2 DEF ShownInv, Unborn, Explained, Right, CommentSettled

LEMMA ShownSteps ==
  ASSUME CallsTyped, CommentInv, CommentsTypeOK', ShownInv, CommentStep
  PROVE  ShownInv'
BY CreateTold, UpdateLikesTold, RemoveTold, InsertTold, ListChildrenTold, StoreTold,
   FailCommentTold
DEF CommentStep, CommentRequest, AnswerComment
-----------------------------------------------------------------------------
(* What was told, together with the invariant. *)

ToldInv == IInv /\ TalkInv /\ ShownInv

LEMMA InitTold ==
  ASSUME CommunityInit
  PROVE  ToldInv
<1>1. IInv /\ BagToSet(pending) = {}
  BY InitIInv, NoCalls DEF CommunityInit
<1>2. TalkInv
  BY <1>1 DEF CommunityInit, ConversationsInit, TalkInv, CallsRight, Untouched, SentKept,
              TalkRight, CallsOn, Stored, MessagesOf
<1>3. ShownInv
  BY <1>1 DEF CommunityInit, CommentsInit, ShownInv, Unborn
<1> QED
  BY <1>1, <1>2, <1>3 DEF ToldInv

LEMMA NextTold ==
  ASSUME ToldInv, [CommunityNext]_communityVars
  PROVE  ToldInv'
<1>1. IInv' /\ CallsTyped' /\ CommentsTypeOK'
  BY NextIInv DEF ToldInv, IInv, CommentInv
<1>2. IsABag(pending) /\ IsABag(pending')
  BY <1>1 DEF ToldInv, IInv, CallsTyped
<1>3. ASSUME UNCHANGED conversationVars, SameCalls(ConversationOps)
      PROVE  TalkInv'
  BY <1>3, TalksApart DEF ToldInv
<1>4. ASSUME UNCHANGED commentVars, SameCalls(CommentOps)
      PROVE  ShownInv'
  BY <1>2, <1>4, ShownApart DEF ToldInv
<1>5. CASE CommentStep /\ OnlyComments
  <2>1. SameCalls(ConversationOps)
    BY <1>5, CommentCalls DEF ToldInv, IInv, SameCalls
  <2> QED
    BY <1>1, <1>3, <1>5, <2>1, ShownSteps DEF ToldInv, IInv, OnlyComments
<1>6. CASE ConversationStep /\ OnlyConversations
  <2>1. SameCalls(CommentOps)
    BY <1>6, ConversationSteps DEF ToldInv, IInv, SameCalls
  <2> QED
    BY <1>1, <1>4, <1>6, <2>1, TalkSteps DEF ToldInv, IInv, OnlyConversations
<1>7. CASE VisitStep /\ OnlyVisits
  BY <1>1, <1>3, <1>4, <1>7, VisitSteps DEF ToldInv, IInv, OnlyVisits, SameCalls
<1>8. CASE FileStep /\ OnlyFiles
  BY <1>1, <1>3, <1>4, <1>8, FileSteps DEF ToldInv, IInv, OnlyFiles, SameCalls
<1>9. CASE CatalogueStep /\ OnlyCatalogues
  <2>1. CallsFollow
    BY <1>9, CatalogueSteps DEF ToldInv, IInv, CallsTyped
  <2>2. CommentOps \cap CatalogueOps = {} /\ ConversationOps \cap CatalogueOps = {}
    BY DEF CommentOps, ConversationOps, TalkOps, CatalogueOps
  <2>3. SameCalls(CommentOps) /\ SameCalls(ConversationOps)
    BY <2>1, <2>2 DEF CallsFollow
  <2> QED
    BY <1>1, <1>3, <1>4, <1>9, <2>3 DEF ToldInv, OnlyCatalogues
<1>10. ASSUME UNCHANGED pending
       PROVE  SameCalls(CommentOps) /\ SameCalls(ConversationOps)
  BY <1>10 DEF SameCalls
<1>11. CASE CommunityExpire
  BY <1>1, <1>3, <1>4, <1>10, <1>11 DEF ToldInv, CommunityExpire, OnlyVisits
<1>12. CASE Crash
  BY <1>1, <1>12, CrashTalks, CrashTold DEF ToldInv, IInv
<1>13. CASE UNCHANGED communityVars
  BY <1>1, <1>3, <1>4, <1>10, <1>13 DEF ToldInv, communityVars
<1>14. CASE CommunityRequest \/ \E c \in BagToSet(pending) : Serve(c)
  BY <1>5, <1>6, <1>7, <1>8, <1>9, <1>14
  DEF CommunityRequest, Serve, CommentStep, ConversationStep, VisitStep, FileStep, CatalogueStep
<1> QED
  BY <1>11, <1>12, <1>13, <1>14 DEF CommunityNext

\* What clients were told of comments, conversations and messages follows from
\* what is stored and what is under way, whatever the order in which the writes
\* nobody awaits arrive, and whichever of them a crash loses.
THEOREM WritesBringWhatWasTold == CommunitySpec => []ToldInv
<1>1. CommunityInit => ToldInv
  BY InitTold
<1>2. ToldInv /\ [CommunityNext]_communityVars => ToldInv'
  BY NextTold
<1> QED
  BY <1>1, <1>2, PTL DEF CommunitySpec

\* Once its writes have arrived, a comment is shown exactly if neither it nor
\* the comment it replies to was removed, with the likes its readers were told
\* of; unless two writes to it overlapped or one was lost (updateLikes, remove,
\* findByPostId).
THEOREM CommentsShownAsTold == CommunitySpec => []ShownAsTold
<1>1. ASSUME ToldInv
      PROVE  ShownAsTold
  <2> SUFFICES ASSUME NEW c \in comments, CommentSettled(c.id),
                      c.parent # NoParent => CommentSettled(c.parent)
               PROVE  /\ CommentShown(c.id) <=> discarded \cap {c.id, c.parent} = {}
                      /\ c.likes = liking[c.id]
    BY DEF ShownAsTold
  <2>1. /\ comments \subseteq Comment
        /\ \A d, e \in comments : d.id = e.id => d = e
        /\ discarded \subseteq CommentIds /\ NoParent \notin CommentIds
    BY <1>1, CommentsAssumption DEF ToldInv, IInv, CommentInv, CommentsTypeOK
  <2>2. Hangs(c) /\ Right(c) /\ \A d \in comments : Explained(d)
    BY <1>1 DEF ToldInv, IInv, CommentInv, ShownInv
  <2>3. c.id \in CommentIds /\ c.post \in CommentedPosts
    BY <2>1 DEF Comment
  <2>4. ASSUME CommentShown(c.id)
        PROVE  discarded \cap {c.id, c.parent} = {}
    <3>1. /\ ~c.deleted
          /\ c.parent # NoParent => \E p \in comments : p.id = c.parent /\ ~p.deleted
      BY <2>1, <2>4 DEF CommentShown, Shown, Listed
    <3>2. c.id \notin discarded
      BY <2>2, <3>1 DEF Right
    <3>3. c.parent \notin discarded
      <4>1. CASE c.parent = NoParent
        BY <2>1, <4>1
      <4>2. ASSUME c.parent # NoParent
            PROVE  c.parent \notin discarded
        <5>1. PICK p \in comments : p.id = c.parent /\ ~p.deleted
          BY <3>1, <4>2
        <5>2. Right(p)
          BY <1>1, <4>2, <5>1 DEF ToldInv, ShownInv
        <5> QED
          BY <5>1, <5>2 DEF Right
      <4> QED
        BY <4>1, <4>2
    <3> QED
      BY <3>2, <3>3
  <2>5. ASSUME discarded \cap {c.id, c.parent} = {}
        PROVE  CommentShown(c.id)
    <3>1. c \in Listed(c.post)
      BY <2>2, <2>5 DEF Explained, Listed
    <3>2. ASSUME c.parent # NoParent
          PROVE  \E p \in Listed(c.post) : p.id = c.parent
      <4>1. PICK p \in comments : p.id = c.parent /\ p.post = c.post /\ p.parent = NoParent
        BY <2>2, <3>2 DEF Hangs
      <4>2. discarded \cap {p.id, p.parent} = {}
        BY <2>1, <2>5, <4>1
      <4> QED
        BY <2>2, <4>1, <4>2 DEF Explained, Listed
    <3>3. c \in Shown(c.post)
      BY <3>1, <3>2 DEF Shown
    <3> QED
      BY <2>3, <3>3 DEF CommentShown
  <2> QED
    BY <2>2, <2>4, <2>5 DEF Right
<1> QED
  BY <1>1, WritesBringWhatWasTold, PTL
\* Once the writes to it have arrived, a conversation that was created is
\* stored with the time of its last message and listed unless its removal was
\* confirmed, and an accepted message is stored or on its way; unless two writes
\* to the conversation overlapped or one was lost (create, createMessage, remove).
THEOREM ConversationsToldAreThere == CommunitySpec => []ConversationsAsTold
<1>1. ASSUME ToldInv
      PROVE  ConversationsAsTold
  <2>1. opened \subseteq Talks
    BY <1>1 DEF ToldInv, IInv, MessageInv, ConversationsTypeOK
  <2>2. ASSUME NEW t \in opened, TalkSettled(t)
        PROVE  \E c \in conversations :
                 Talk(c) = t /\ c.at = touched[t] /\ (c.deleted <=> t \in closed)
    <3>1. TalkRight(t)
      BY <1>1, <2>1, <2>2 DEF ToldInv, TalkInv, TalkSettled
    <3>2. \A op \in TalkOps : CallsOn(t, op) = {}
      BY <2>2 DEF TalkSettled, TalksOf, CallsOn
    <3>3. CallsOn(t, "createConversation") = {} /\ CallsOn(t, "touchConversation") = {}
      BY <3>2 DEF TalkOps
    <3> QED
      BY <2>2, <3>1, <3>3 DEF TalkRight, Stored
  <2>3. sent \subseteq messages \cup mislaid \cup MessagesOf(BagToSet(pending))
    BY <1>1 DEF ToldInv, TalkInv, SentKept
  <2> QED
    BY <2>2, <2>3 DEF ConversationsAsTold
<1> QED
  BY <1>1, WritesBringWhatWasTold, PTL
-----------------------------------------------------------------------------
(* Visits. *)

Waits == [op : {"readCounter", "createCounter"}, first : BOOLEAN]

FirstRead == [op |-> "readCounter", first |-> TRUE]
LaterRead == [op |-> "readCounter", first |-> FALSE]
FirstCreate == [op |-> "createCounter", first |-> TRUE]
LaterCreate == [op |-> "createCounter", first |-> FALSE]

\* The visits whose increment is still to come.
Waiting ==
  Copies(FirstRead, pending) + Copies(LaterRead, pending)
    + Copies(FirstCreate, pending) + Copies(LaterCreate, pending)

Creating == {c \in BagToSet(pending) : c.op = "createCounter"}

Upserts == {c \in BagToSet(pending) : c.op = "upsertCounter"}

\* The counts that are stored, or on their way there.
Written == counters \cup {c.counter : c \in Upserts}

\* A count of a counter claims that number and all below it for the counter, and
\* two writes of the same count claim the same numbers.
ClaimedBy(counts) ==
  {u \in CounterIds \X Nat : \E d \in counts : d.id = u[1] /\ u[2] \in 1..d.count}

\* While no visits overlapped, there is one counter, and at most one write to it
\* is under way: every visit is in the count to come, or waits for it.
Exact ==
  /\ \A c, d \in Upserts \cup Creating : c = d /\ pending[c] = 1
  /\ Creating # {} => counters = {}
  /\ counters = {} => Upserts = {} /\ visitsCache = 0 /\ visits = Waiting
  /\ \A d \in counters :
       /\ counters = {d}
       /\ \A c \in Upserts :
            /\ c.counter = [d EXCEPT !.count = @ + 1]
            /\ visits = Waiting + d.count + 1
            /\ visitsCache \in {0, d.count + 1}
       /\ Upserts = {} =>
            d.count >= 1 /\ visits = Waiting + d.count /\ visitsCache \in {0, d.count}

\* A visit that waits has claimed no number yet.
VisitInv ==
  /\ IsFiniteSet(counters) /\ IsFiniteSet(ClaimedBy(Written))
  /\ \A c \in Upserts : \E d \in counters : d.id = c.counter.id
  /\ Cardinality(ClaimedBy(Written)) + Waiting <= visits
  /\ visitsCache <= visits /\ shownCount <= visits
  /\ ~overlapped => Exact

LEMMA WaitsAre ==
  /\ Waits = {FirstRead, LaterRead, FirstCreate, LaterCreate}
  /\ FirstRead # LaterRead /\ FirstRead # FirstCreate /\ FirstRead # LaterCreate
  /\ LaterRead # FirstCreate /\ LaterRead # LaterCreate /\ FirstCreate # LaterCreate
<1>1. Waits \subseteq {FirstRead, LaterRead, FirstCreate, LaterCreate}
  BY DEF Waits, FirstRead, LaterRead, FirstCreate, LaterCreate
<1>2. {FirstRead, LaterRead, FirstCreate, LaterCreate} \subseteq Waits
  BY DEF Waits, FirstRead, LaterRead, FirstCreate, LaterCreate
<1>3. /\ FirstRead.op = "readCounter" /\ LaterRead.op = "readCounter"
      /\ FirstCreate.op = "createCounter" /\ LaterCreate.op = "createCounter"
      /\ FirstRead.first = TRUE /\ LaterRead.first = FALSE
      /\ FirstCreate.first = TRUE /\ LaterCreate.first = FALSE
  BY DEF FirstRead, LaterRead, FirstCreate, LaterCreate
<1> QED
  BY <1>1, <1>2, <1>3

LEMMA WaitingCounts ==
  ASSUME IsABag(pending)
  PROVE  /\ Waiting \in Nat
         /\ \A c \in Waits : c \in BagToSet(pending) => Waiting >= 1
         /\ Waiting # 0 => \E c \in BagToSet(pending) : c.op \in VisitOps
<1>1. \A c : /\ Copies(c, pending) \in Nat
             /\ Copies(c, pending) # 0 <=> c \in BagToSet(pending)
  BY DEF IsABag, BagToSet, Copies
<1>2. \A c \in Waits : c.op \in VisitOps
  BY DEF Waits, VisitOps
<1>3. Waiting \in Nat /\ \A c \in Waits : c \in BagToSet(pending) => Waiting >= 1
  BY <1>1, WaitsAre DEF Waiting
<1>4. Waiting # 0 => \E c \in BagToSet(pending) : c.op \in VisitOps
  <2>1. ASSUME \A c \in Waits : c \notin BagToSet(pending)
        PROVE  Waiting = 0
    <3>1. \A c \in Waits : Copies(c, pending) = 0
      BY <1>1, <2>1
    <3> QED
      BY <3>1, WaitsAre DEF Waiting
  <2> QED
    BY <1>2, <2>1
<1> QED
  BY <1>3, <1>4

LEMMA WaitingKept ==
  ASSUME \A c \in Waits : Copies(c, pending') = Copies(c, pending)
  PROVE  Waiting' = Waiting
BY WaitsAre DEF Waiting

LEMMA WaitingStart ==
  ASSUME IsABag(pending), NEW c \in Waits, Start({c})
  PROVE  Waiting' = Waiting + 1
<1>1. \A d : Copies(d, pending') = Copies(d, pending) + IF d = c THEN 1 ELSE 0
  BY StartCopies
<1>2. \A d : Copies(d, pending) \in Nat
  BY DEF IsABag, BagToSet, Copies
<1> QED
  BY <1>1, <1>2, WaitsAre DEF Waiting

\* A visit that is answered, or sends its count, no longer waits.
LEMMA WaitingEnds ==
  ASSUME IsABag(pending), NEW c \in BagToSet(pending), c \in Waits,
         \/ Continue(c, {})
         \/ \E n : n.op = "upsertCounter" /\ Continue(c, {n})
  PROVE  Waiting' = Waiting - 1
<1>1. ASSUME NEW n, n.op = "upsertCounter", Continue(c, {n})
      PROVE  \A d \in Waits :
               Copies(d, pending') = Copies(d, pending) - IF d = c THEN 1 ELSE 0
  <2>1. n # c /\ \A d \in Waits : d # n
    BY <1>1 DEF Waits
  <2>2. \A d : Copies(d, pending') =
           Copies(d, pending) - (IF d = c THEN 1 ELSE 0) + (IF d = n THEN 1 ELSE 0)
    BY <1>1, <2>1, ContinueCopies
  <2>3. \A d : Copies(d, pending) \in Nat
    BY DEF IsABag, BagToSet, Copies
  <2> QED
    BY <2>1, <2>2, <2>3
<1>2. \A d \in Waits : Copies(d, pending') = Copies(d, pending) - IF d = c THEN 1 ELSE 0
  BY <1>1, AnswerCopies
<1>3. \A d : Copies(d, pending) \in Nat
  BY DEF IsABag, BagToSet, Copies
<1> QED
  BY <1>2, <1>3, WaitsAre DEF Waiting

\* A visit that creates the counter waits as before.
LEMMA WaitingGoesOn ==
  ASSUME IsABag(pending), NEW c \in BagToSet(pending), c \in Waits, NEW n \in Waits, n # c,
         Continue(c, {n})
  PROVE  Waiting' = Waiting
<1>1. \A d : Copies(d, pending') =
         Copies(d, pending) - (IF d = c THEN 1 ELSE 0) + (IF d = n THEN 1 ELSE 0)
  BY ContinueCopies
<1>2. \A d : Copies(d, pending) \in Nat
  BY DEF IsABag, BagToSet, Copies
<1> QED
  BY <1>1, <1>2, WaitsAre DEF Waiting

\* Fewer counts claim no more.
LEMMA ClaimsKept ==
  ASSUME NEW counts, IsFiniteSet(ClaimedBy(counts)), NEW fewer,
         ClaimedBy(fewer) \subseteq ClaimedBy(counts)
  PROVE  /\ IsFiniteSet(ClaimedBy(fewer))
         /\ Cardinality(ClaimedBy(fewer)) <= Cardinality(ClaimedBy(counts))
         /\ Cardinality(ClaimedBy(fewer)) \in Nat /\ Cardinality(ClaimedBy(counts)) \in Nat
<1> DEFINE A == ClaimedBy(fewer)
           B == ClaimedBy(counts)
<1> HIDE DEF A, B
<1>1. IsFiniteSet(B) /\ A \in SUBSET B
  BY DEF A, B
<1>2. IsFiniteSet(A) /\ Cardinality(A) <= Cardinality(B)
  BY <1>1, FS_Subset
<1> QED
  BY <1>1, <1>2, FS_CardinalityType DEF A, B

\* A count that is one more than another of its counter, or than none, claims
\* one number more.
LEMMA ClaimsGrow ==
  ASSUME NEW counts, IsFiniteSet(ClaimedBy(counts)),
         NEW d \in Counter, d.count = 0 \/ d \in counts,
         NEW more, more \subseteq counts \cup {d, [d EXCEPT !.count = @ + 1]}
  PROVE  /\ IsFiniteSet(ClaimedBy(more))
         /\ Cardinality(ClaimedBy(more)) <= Cardinality(ClaimedBy(counts)) + 1
         /\ Cardinality(ClaimedBy(more)) \in Nat /\ Cardinality(ClaimedBy(counts)) \in Nat
<1> DEFINE A == ClaimedBy(more)
           B == ClaimedBy(counts)
           u == <<d.id, d.count + 1>>
<1>1. ASSUME NEW v \in A
      PROVE  v \in B \cup {u}
  <2>1. v \in CounterIds \X Nat
    BY DEF ClaimedBy
  <2>2. PICK e \in more : e.id = v[1] /\ v[2] \in 1..e.count
    BY DEF ClaimedBy
  <2>3. CASE e \in counts
    BY <2>1, <2>2, <2>3 DEF ClaimedBy
  <2>4. CASE e \in {d, [d EXCEPT !.count = @ + 1]}
    <3>1. d.count \in Nat /\ e.id = d.id /\ e.count \in {d.count, d.count + 1}
      BY <2>4 DEF Counter
    <3>2. v[1] = d.id /\ v[2] \in 1..(d.count + 1)
      BY <2>2, <3>1
    <3>3. CASE v[2] = d.count + 1
      BY <2>1, <3>2, <3>3
    <3>4. CASE v[2] # d.count + 1
      <4>1. v[2] \in 1..d.count /\ d.count # 0
        BY <3>1, <3>2, <3>4
      <4> QED
        BY <2>1, <3>2, <4>1 DEF ClaimedBy
    <3> QED
      BY <3>3, <3>4
  <2> QED
    BY <2>2, <2>3, <2>4
<1>2. IsFiniteSet(B)
  OBVIOUS
<1> HIDE DEF A, B, u
<1>3. /\ IsFiniteSet(B \cup {u}) /\ Cardinality(B) \in Nat
      /\ Cardinality(B \cup {u}) <= Cardinality(B) + 1
  <2>1. Cardinality(B) \in Nat
    BY <1>2, FS_CardinalityType
  <2>2. /\ IsFiniteSet(B \cup {u})
        /\ Cardinality(B \cup {u}) = IF u \in B THEN Cardinality(B) ELSE Cardinality(B) + 1
    BY <1>2, FS_AddElement
  <2> QED
    BY <2>1, <2>2
<1>4. IsFiniteSet(A) /\ Cardinality(A) <= Cardinality(B \cup {u})
  BY <1>1, <1>3, FS_Subset
<1> QED
  BY <1>3, <1>4, FS_CardinalityType DEF A, B

\* A count is at most the number of numbers claimed.
LEMMA ClaimsEach ==
  ASSUME NEW counts, IsFiniteSet(ClaimedBy(counts)), NEW d \in counts, d \in Counter
  PROVE  d.count <= Cardinality(ClaimedBy(counts))
<1> DEFINE n == d.count
           B == ClaimedBy(counts)
           g == [k \in 1..n |-> <<d.id, k>>]
<1>1. n \in Nat /\ d.id \in CounterIds
  BY DEF Counter
<1>2. g \in [1..n -> B]
  BY <1>1 DEF ClaimedBy
<1>3. \A j, k \in 1..n : g[j] = g[k] => j = k
  OBVIOUS
<1>4. g \in Injection(1..n, B)
  <2> HIDE DEF g, n, B
  <2> QED
    BY <1>2, <1>3 DEF Injection, IsInjective
<1>5. Cardinality(1..n) = n
  <2> HIDE DEF n
  <2> QED
    BY <1>1, FS_Interval
<1>6. IsFiniteSet(B)
  OBVIOUS
<1> HIDE DEF g, B
<1>7. Cardinality(1..n) <= Cardinality(B)
  BY <1>4, <1>6, FS_Injection
<1> QED
  BY <1>5, <1>7 DEF B

\* What is left under way when a call is answered.
LEMMA CallsLeft ==
  ASSUME IsABag(pending), NEW c, NEW new, Continue(c, new)
  PROVE  /\ BagToSet(pending') =
              {d \in BagToSet(pending) : d # c \/ pending[d] > 1} \cup new
         /\ Others(c) = {d \in BagToSet(pending) : d # c \/ pending[d] > 1}
<1>1. Others(c) = {d \in BagToSet(pending) : d # c \/ pending[d] > 1}
  BY OthersAre DEF Others
<1> QED
  BY <1>1, ContinueLeaves

\* The visits are unaffected by calls of other kinds.
LEMMA VisitsApart ==
  ASSUME VisitInv, UNCHANGED visitVars, SameCalls(VisitOps)
  PROVE  VisitInv'
<1>1. \A c \in Waits : c.op \in VisitOps
  BY DEF Waits, VisitOps
<1>2. Waiting' = Waiting
  <2>1. \A c \in Waits : Copies(c, pending') = Copies(c, pending)
    BY <1>1 DEF SameCalls, Copies
  <2> QED
    BY <2>1, WaitingKept
<1>3. Upserts' = Upserts /\ Creating' = Creating
  BY DEF SameCalls, Upserts, Creating, VisitOps
<1>4. \A c \in Upserts \cup Creating : pending'[c] = pending[c]
  BY DEF SameCalls, Upserts, Creating, VisitOps
<1>5. UNCHANGED <<counters, visitsCache, visits, shownCount, overlapped>>
  BY DEF visitVars, visitsTold
<1>6. Written' = Written
  BY <1>3, <1>5 DEF Written
<1>7. Exact => Exact'
  BY <1>2, <1>3, <1>4, <1>5 DEF Exact
<1> QED
  BY <1>2, <1>3, <1>5, <1>6, <1>7 DEF VisitInv

LEMMA RegisterVisitStep ==
  ASSUME CallsTyped, VisitsTypeOK, VisitInv, RegisterVisit
  PROVE  VisitInv'
<1> DEFINE c == [op |-> "readCounter", first |-> visitsCache = 0]
<1>1. c \in Waits /\ c.op = "readCounter" /\ Start({c})
  BY DEF Waits, RegisterVisit
<1>2. /\ visits' = visits + 1
      /\ UNCHANGED <<counters, visitsCache, overlapped>>
      /\ shownCount' \in {shownCount, visitsCache + 1}
  BY DEF RegisterVisit, CountShown
<1> HIDE DEF c
<1>3. Waiting' = Waiting + 1 /\ Waiting \in Nat
  BY <1>1, WaitingStart, WaitingCounts DEF CallsTyped
<1>4. /\ BagToSet(pending') = BagToSet(pending) \cup {c}
      /\ \A d \in BagToSet(pending) \ {c} : pending'[d] = pending[d]
  BY <1>1, StartCalls, StartCounts DEF CallsTyped
<1>5. Upserts' = Upserts /\ Creating' = Creating
  BY <1>1, <1>4 DEF Upserts, Creating
<1>6. \A d \in Upserts \cup Creating : pending'[d] = pending[d]
  BY <1>1, <1>4 DEF Upserts, Creating
<1>7. Written' = Written
  BY <1>2, <1>5 DEF Written
<1>8. /\ visits \in Nat /\ visitsCache \in Nat /\ shownCount \in Nat
      /\ \A d \in counters : d.count \in Nat
  BY DEF VisitsTypeOK, Counter
<1>9. Cardinality(ClaimedBy(Written)) \in Nat
  BY FS_CardinalityType DEF VisitInv
<1>10. Exact => Exact'
  <2>1. SUFFICES ASSUME Exact
                 PROVE  Exact'
    OBVIOUS
  <2>2. counters' = {} => Upserts' = {} /\ visitsCache' = 0 /\ visits' = Waiting'
    BY <1>2, <1>3, <1>5, <2>1 DEF Exact
  <2>3. ASSUME NEW d \in counters'
        PROVE  /\ counters' = {d}
               /\ \A u \in Upserts' :
                    /\ u.counter = [d EXCEPT !.count = @ + 1]
                    /\ visits' = Waiting' + d.count + 1
                    /\ visitsCache' \in {0, d.count + 1}
               /\ Upserts' = {} => /\ d.count >= 1 /\ visits' = Waiting' + d.count
                                   /\ visitsCache' \in {0, d.count}
    BY <1>2, <1>3, <1>5, <1>8, <2>1, <2>3 DEF Exact
  <2> QED
    BY <1>2, <1>5, <1>6, <2>1, <2>2, <2>3 DEF Exact
<1> QED
  BY <1>2, <1>3, <1>5, <1>7, <1>8, <1>9, <1>10 DEF VisitInv

\* An increment: one visit waits no longer, and its number is claimed.
LEMMA IncrementClaims ==
  ASSUME CallsTyped, VisitsTypeOK, VisitInv, NEW c \in BagToSet(pending), c \in Waits,
         NEW d \in Counter, Increment(c, d),
         \/ d \in counters /\ counters' = counters
         \/ d.count = 0 /\ counters' = counters \cup {d},
         UNCHANGED visits
  PROVE  /\ IsFiniteSet(ClaimedBy(Written))'
         /\ \A u \in Upserts' : \E e \in counters' : e.id = u.counter.id
         /\ (Cardinality(ClaimedBy(Written)) + Waiting <= visits)'
         /\ visitsCache' <= visits' /\ shownCount' <= visits'
         /\ Waiting' = Waiting - 1
         /\ visitsCache' = d.count + 1
<1> DEFINE e == [d EXCEPT !.count = @ + 1]
           n == [op |-> "upsertCounter", counter |-> e]
<1>1. n.op = "upsertCounter" /\ n.counter = e /\ Continue(c, {n})
  BY DEF Increment
<1>2. d.count \in Nat /\ e.id = d.id /\ e.count = d.count + 1
  BY DEF Counter
<1>3. /\ visitsCache' = d.count + 1
      /\ shownCount' \in {shownCount, d.count + 1}
  BY DEF Increment, CountShown
<1>4. /\ Waiting' = Waiting - 1
      /\ Waiting \in Nat /\ Waiting >= 1
  BY <1>1, WaitingEnds, WaitingCounts DEF CallsTyped
<1>5. Upserts' \subseteq Upserts \cup {n}
  BY <1>1, ContinueCalls DEF CallsTyped, Upserts
<1>6. Written' \subseteq Written \cup {d, e}
  BY <1>1, <1>5 DEF Written
<1>7. /\ IsFiniteSet(ClaimedBy(Written'))
      /\ Cardinality(ClaimedBy(Written')) <= Cardinality(ClaimedBy(Written)) + 1
      /\ Cardinality(ClaimedBy(Written')) \in Nat /\ Cardinality(ClaimedBy(Written)) \in Nat
  <2>1. d.count = 0 \/ d \in Written
    BY DEF Written
  <2>2. IsFiniteSet(ClaimedBy(Written))
    BY DEF VisitInv
  <2> QED
    BY <1>6, <2>1, <2>2, ClaimsGrow
<1>8. d.count <= Cardinality(ClaimedBy(Written))
  <2>1. CASE d.count = 0
    BY <1>7, <2>1
  <2>2. CASE d \in counters
    BY <2>2, ClaimsEach DEF Written, VisitInv
  <2> QED
    BY <2>1, <2>2
<1>9. \A u \in Upserts' : \E f \in counters' : f.id = u.counter.id
  BY <1>1, <1>2, <1>5 DEF VisitInv
<1>10. visits \in Nat /\ shownCount \in Nat /\ shownCount <= visits
       /\ Cardinality(ClaimedBy(Written)) + Waiting <= visits
  BY DEF VisitsTypeOK, VisitInv
<1> HIDE DEF e, n
<1> QED
  BY <1>2, <1>3, <1>4, <1>7, <1>8, <1>9, <1>10
LEMMA ReadCounterStep ==
  ASSUME CallsTyped, VisitsTypeOK, VisitInv, NEW c \in BagToSet(pending), ReadCounter(c)
  PROVE  VisitInv'
<1>1. c \in Waits /\ c.op = "readCounter" /\ c \notin Upserts \cup Creating
  BY CallKinds DEF CallsTyped, ReadCounter, Waits, Upserts, Creating
<1>2. UNCHANGED <<counters, visits>>
  BY DEF ReadCounter
<1>3. Waiting \in Nat /\ \A d \in counters : d.count \in Nat
  BY WaitingCounts DEF CallsTyped, VisitsTypeOK, Counter
<1>4. ASSUME ~overlapped'
      PROVE  /\ Exact /\ Upserts = {} /\ Creating = {}
             /\ \A d \in Others(c) : d.op # "createCounter" /\ d.op # "upsertCounter"
  <2>1. ~overlapped /\ ~Counting(Others(c))
    BY <1>4 DEF ReadCounter, VisitsTypeOK
  <2>2. Upserts \cup Creating \subseteq Others(c)
    <3>1. Others(c) = {d \in BagToSet(pending) : d # c \/ pending[d] > 1}
      BY OthersAre DEF Others, CallsTyped
    <3> QED
      BY <1>1, <3>1 DEF Upserts, Creating
  <2> QED
    BY <2>1, <2>2 DEF VisitInv, Counting, Upserts, Creating
<1>5. CASE /\ counters = {} /\ Continue(c, {[c EXCEPT !.op = "createCounter"]})
           /\ UNCHANGED <<visitsCache, shownCount>>
  <2> DEFINE n == [c EXCEPT !.op = "createCounter"]
  <2>1. n \in Waits /\ n.op = "createCounter" /\ n # c /\ Continue(c, {n})
    BY <1>1, <1>5 DEF Waits
  <2> HIDE DEF n
  <2>2. Waiting' = Waiting
    BY <1>1, <2>1, WaitingGoesOn DEF CallsTyped
  <2>3. BagToSet(pending') = Others(c) \cup {n}
    BY <2>1, ContinueLeaves DEF CallsTyped
  <2>4. Upserts' \subseteq Upserts
    BY <2>1, ContinueCalls DEF CallsTyped, Upserts
  <2>5. Written' \subseteq Written
    BY <1>2, <2>4 DEF Written
  <2>6. /\ IsFiniteSet(ClaimedBy(Written'))
        /\ Cardinality(ClaimedBy(Written')) <= Cardinality(ClaimedBy(Written))
        /\ Cardinality(ClaimedBy(Written')) \in Nat /\ Cardinality(ClaimedBy(Written)) \in Nat
    <3>1. ClaimedBy(Written') \subseteq ClaimedBy(Written)
      BY <2>5 DEF ClaimedBy
    <3> QED
      BY <3>1, ClaimsKept DEF VisitInv
  <2>7. ASSUME ~overlapped'
        PROVE  Exact'
    <3>1. Upserts' = {} /\ Creating' \subseteq {n}
      BY <1>4, <2>1, <2>3, <2>7 DEF Upserts, Creating
    <3>2. n \notin BagToSet(pending)
      BY <1>4, <2>1, <2>7 DEF Creating
    <3>3. pending'[n] = 1
      BY <2>1, <3>2, ContinueCounts DEF CallsTyped
    <3> QED
      BY <1>2, <1>4, <1>5, <2>2, <2>7, <3>1, <3>3 DEF Exact
  <2> QED
    BY <1>2, <1>3, <1>5, <2>2, <2>4, <2>6, <2>7 DEF VisitInv, VisitsTypeOK
<1>6. ASSUME NEW d \in counters, Increment(c, d)
      PROVE  VisitInv'
  <2> DEFINE n == [op |-> "upsertCounter", counter |-> [d EXCEPT !.count = @ + 1]]
  <2>1. /\ n.op = "upsertCounter" /\ n.counter = [d EXCEPT !.count = @ + 1]
        /\ Continue(c, {n})
    BY <1>6 DEF Increment
  <2> HIDE DEF n
  <2>2. d \in Counter
    BY DEF VisitsTypeOK
  <2>3. /\ IsFiniteSet(ClaimedBy(Written))'
        /\ \A u \in Upserts' : \E e \in counters' : e.id = u.counter.id
        /\ (Cardinality(ClaimedBy(Written)) + Waiting <= visits)'
        /\ visitsCache' <= visits' /\ shownCount' <= visits'
        /\ Waiting' = Waiting - 1
        /\ visitsCache' = d.count + 1
    BY <1>1, <1>2, <1>6, <2>2, IncrementClaims
  <2>4. ASSUME ~overlapped'
        PROVE  Exact'
    <3>1. BagToSet(pending') = Others(c) \cup {n}
      BY <2>1, ContinueLeaves DEF CallsTyped
    <3>2. Upserts' = {n} /\ Creating' = {}
      BY <1>4, <2>1, <2>4, <3>1 DEF Upserts, Creating
    <3>3. n \notin BagToSet(pending)
      BY <1>4, <2>1, <2>4 DEF Upserts
    <3>4. pending'[n] = 1
      BY <2>1, <3>3, ContinueCounts DEF CallsTyped
    <3>5. counters = {d} /\ visits = Waiting + d.count
      BY <1>4, <2>4 DEF Exact
    <3>6. visits' = Waiting' + d.count + 1
      BY <1>2, <1>3, <2>3, <3>5
    <3>7. counters' = {d}
      BY <1>2, <3>5
    <3> QED
      BY <2>1, <2>3, <3>2, <3>4, <3>6, <3>7 DEF Exact
  <2> QED
    BY <1>2, <2>3, <2>4 DEF VisitInv
<1> QED
  BY <1>5, <1>6 DEF ReadCounter

LEMMA CreateCounterStep ==
  ASSUME CallsTyped, VisitsTypeOK, VisitInv, NEW c \in BagToSet(pending), CreateCounter(c)
  PROVE  VisitInv'
<1>1. c \in Waits /\ c.op = "createCounter" /\ c \in Creating
  BY CallKinds DEF CallsTyped, CreateCounter, Waits, Creating
<1>2. PICK id \in CounterIds \ {d.id : d \in counters} :
        /\ counters' = counters \cup {[id |-> id, count |-> FirstCount]}
        /\ Increment(c, [id |-> id, count |-> FirstCount])
  BY DEF CreateCounter
<1> DEFINE d == [id |-> id, count |-> FirstCount]
           n == [op |-> "upsertCounter", counter |-> [d EXCEPT !.count = @ + 1]]
<1>3. d \in Counter /\ d.count = 0 /\ Increment(c, d) /\ counters' = counters \cup {d}
  BY <1>2 DEF FirstCount, Counter
<1>4. UNCHANGED <<visits, overlapped>>
  BY DEF CreateCounter
<1>5. /\ n.op = "upsertCounter" /\ n.counter = [d EXCEPT !.count = @ + 1]
      /\ Continue(c, {n})
  BY <1>3 DEF Increment
<1> HIDE DEF d, n
<1>6. /\ IsFiniteSet(ClaimedBy(Written))'
      /\ \A u \in Upserts' : \E e \in counters' : e.id = u.counter.id
      /\ (Cardinality(ClaimedBy(Written)) + Waiting <= visits)'
      /\ visitsCache' <= visits' /\ shownCount' <= visits'
      /\ Waiting' = Waiting - 1
      /\ visitsCache' = d.count + 1
  BY <1>1, <1>3, <1>4, IncrementClaims
<1>7. IsFiniteSet(counters')
  BY <1>3, FS_AddElement DEF VisitInv
<1>8. ASSUME ~overlapped'
      PROVE  Exact'
  <2>1. Exact
    BY <1>4, <1>8 DEF VisitInv, VisitsTypeOK
  <2>2. Creating = {c} /\ Upserts = {} /\ pending[c] = 1 /\ counters = {} /\ visits = Waiting
    BY <1>1, <2>1 DEF Exact
  <2>3. BagToSet(pending') = (BagToSet(pending) \ {c}) \cup {n}
    BY <1>5, <2>2, CallsLeft DEF CallsTyped
  <2>4. Upserts' = {n} /\ Creating' = {}
    <3>1. ASSUME NEW e \in BagToSet(pending'), e.op = "upsertCounter"
          PROVE  e = n
      BY <2>2, <2>3, <3>1 DEF Upserts
    <3>2. ASSUME NEW e \in BagToSet(pending'), e.op = "createCounter"
          PROVE  FALSE
      BY <1>5, <2>2, <2>3, <3>2 DEF Creating
    <3> QED
      BY <1>5, <2>3, <3>1, <3>2 DEF Upserts, Creating
  <2>5. n \notin BagToSet(pending)
    BY <1>5, <2>2 DEF Upserts
  <2>6. pending'[n] = 1
    BY <1>5, <2>5, ContinueCounts DEF CallsTyped
  <2>7. counters' = {d}
    BY <1>3, <2>2
  <2>8. visits' = Waiting' + d.count + 1
    BY <1>3, <1>4, <1>6, <2>2, WaitingCounts DEF CallsTyped
  <2> QED
    BY <1>5, <1>6, <2>4, <2>6, <2>7, <2>8 DEF Exact
<1> QED
  BY <1>4, <1>6, <1>7, <1>8 DEF VisitInv

LEMMA UpsertCounterStep ==
  ASSUME CallsTyped, VisitsTypeOK, VisitInv, NEW c \in BagToSet(pending), UpsertCounter(c)
  PROVE  VisitInv'
<1>1. c \in Upserts /\ c.op = "upsertCounter" /\ c.counter \in Counter
  BY CallKinds DEF CallsTyped, UpsertCounter, Upserts
<1>2. /\ counters' = {d \in counters : d.id # c.counter.id} \cup {c.counter}
      /\ Continue(c, {}) /\ UNCHANGED <<visitsCache, visits, shownCount, overlapped>>
  BY DEF UpsertCounter, visitsTold
<1>3. Waiting' = Waiting
  <2>1. \A d : Copies(d, pending') = Copies(d, pending) - IF d = c THEN 1 ELSE 0
    BY <1>2, AnswerCopies DEF CallsTyped
  <2>2. \A d : Copies(d, pending) \in Nat
    BY DEF CallsTyped, IsABag, BagToSet, Copies
  <2>3. c \notin Waits
    BY <1>1 DEF Waits
  <2>4. \A d \in Waits : Copies(d, pending') = Copies(d, pending)
    BY <2>1, <2>2, <2>3
  <2> QED
    BY <2>4, WaitingKept
<1>4. BagToSet(pending') \subseteq BagToSet(pending)
  BY <1>2, ContinueCalls DEF CallsTyped
<1>5. Upserts' \subseteq Upserts
  BY <1>4 DEF Upserts
<1>6. Written' \subseteq Written
  BY <1>1, <1>2, <1>5 DEF Written
<1>7. /\ IsFiniteSet(ClaimedBy(Written'))
      /\ Cardinality(ClaimedBy(Written')) <= Cardinality(ClaimedBy(Written))
      /\ Cardinality(ClaimedBy(Written')) \in Nat /\ Cardinality(ClaimedBy(Written)) \in Nat
  <2>1. ClaimedBy(Written') \subseteq ClaimedBy(Written)
    BY <1>6 DEF ClaimedBy
  <2> QED
    BY <2>1, ClaimsKept DEF VisitInv
<1>8. IsFiniteSet(counters')
  <2> DEFINE left == {d \in counters : d.id # c.counter.id}
  <2>1. IsFiniteSet(left)
    BY FS_Subset DEF VisitInv
  <2> HIDE DEF left
  <2>2. counters' = left \cup {c.counter}
    BY <1>2 DEF left
  <2> QED
    BY <2>1, <2>2, FS_AddElement
<1>9. \A u \in Upserts' : \E e \in counters' : e.id = u.counter.id
  BY <1>2, <1>5 DEF VisitInv
<1>10. ASSUME ~overlapped'
       PROVE  Exact'
  <2>1. Exact
    BY <1>2, <1>10 DEF VisitInv
  <2>2. Upserts = {c} /\ Creating = {} /\ pending[c] = 1
    <3>1. \A e \in Upserts \cup Creating : e = c /\ pending[c] = 1
      BY <1>1, <2>1 DEF Exact
    <3> QED
      BY <1>1, <3>1 DEF Creating
  <2>3. c \notin BagToSet(pending')
    BY <1>2, <2>2, ContinueCounts DEF CallsTyped
  <2>4. Upserts' = {} /\ Creating' = {}
    BY <1>4, <2>2, <2>3 DEF Upserts, Creating
  <2>5. PICK d \in counters : d.id = c.counter.id
    BY <1>1 DEF VisitInv
  <2>6. /\ counters = {d} /\ c.counter = [d EXCEPT !.count = @ + 1]
        /\ visits = Waiting + d.count + 1 /\ visitsCache \in {0, d.count + 1}
    BY <1>1, <2>1, <2>5 DEF Exact
  <2>7. d \in Counter
    BY DEF VisitsTypeOK
  <2>8. counters' = {c.counter} /\ c.counter.count = d.count + 1 /\ d.count \in Nat
    BY <1>2, <2>5, <2>6, <2>7 DEF Counter
  <2>9. Waiting \in Nat
    BY WaitingCounts DEF CallsTyped
  <2>10. /\ c.counter.count >= 1 /\ visits' = Waiting' + c.counter.count
         /\ visitsCache' \in {0, c.counter.count}
    BY <1>2, <1>3, <2>6, <2>8, <2>9
  <2> QED
    BY <2>4, <2>8, <2>10 DEF Exact
<1>11. Waiting \in Nat /\ visits \in Nat
  BY WaitingCounts DEF CallsTyped, VisitsTypeOK
<1> QED
  BY <1>2, <1>3, <1>7, <1>8, <1>9, <1>10, <1>11 DEF VisitInv
LEMMA FailVisitStep ==
  ASSUME CallsTyped, VisitsTypeOK, VisitInv, NEW c \in BagToSet(pending), FailVisit(c)
  PROVE  VisitInv'
<1>1. c \in Waits /\ Continue(c, {})
  BY CallKinds DEF CallsTyped, FailVisit, Waits
<1>2. overlapped' = TRUE /\ UNCHANGED <<counters, visitsCache, visits, shownCount>>
  BY DEF FailVisit
<1>3. Waiting' = Waiting - 1 /\ Waiting \in Nat /\ visits \in Nat
  BY <1>1, WaitingEnds, WaitingCounts DEF CallsTyped, VisitsTypeOK
<1>4. Upserts' = Upserts
  <2>1. /\ BagToSet(pending') \subseteq BagToSet(pending)
        /\ BagToSet(pending) \ {c} \subseteq BagToSet(pending')
    BY <1>1, ContinueCalls DEF CallsTyped
  <2>2. c.op # "upsertCounter"
    BY <1>1 DEF Waits
  <2> QED
    BY <2>1, <2>2 DEF Upserts
<1>5. Written' = Written /\ Cardinality(ClaimedBy(Written)) \in Nat
  BY <1>2, <1>4, FS_CardinalityType DEF Written, VisitInv
<1> QED
  BY <1>2, <1>3, <1>4, <1>5 DEF VisitInv

LEMMA ExpireVisitsStep ==
  ASSUME VisitsTypeOK, VisitInv, ExpireVisits, UNCHANGED pending
  PROVE  VisitInv'
<1>1. visitsCache' = 0 /\ UNCHANGED <<counters, visits, shownCount, overlapped, pending>>
  BY DEF ExpireVisits, visitsTold
<1>2. Waiting' = Waiting /\ Upserts' = Upserts /\ Creating' = Creating /\ Written' = Written
  BY <1>1 DEF Waiting, Upserts, Creating, Written
<1>3. Exact => Exact'
  BY <1>1, <1>2 DEF Exact
<1>4. visitsCache' <= visits'
  BY <1>1 DEF VisitsTypeOK
<1> QED
  BY <1>1, <1>2, <1>3, <1>4 DEF VisitInv

\* A crash loses the visits that waited, and the count on its way.
LEMMA CrashVisits ==
  ASSUME CallsTyped, VisitsTypeOK, VisitInv, Crash
  PROVE  VisitInv'
<1>1. /\ visitsCache' = 0 /\ UNCHANGED <<counters, visits, shownCount>>
      /\ overlapped' = (overlapped \/ \E c \in BagToSet(pending) : c.op \in VisitOps)
      /\ IsABag(pending') /\ BagToSet(pending') = {}
  BY NoCalls DEF Crash, LoseVisits
<1>2. Waiting' = 0
  BY <1>1 DEF Waiting, Copies
<1>3. Upserts' = {} /\ Creating' = {}
  BY <1>1 DEF Upserts, Creating
<1>4. Written' \subseteq Written
  BY <1>1, <1>3 DEF Written
<1>5. /\ IsFiniteSet(ClaimedBy(Written'))
      /\ Cardinality(ClaimedBy(Written')) <= Cardinality(ClaimedBy(Written))
      /\ Cardinality(ClaimedBy(Written')) \in Nat /\ Cardinality(ClaimedBy(Written)) \in Nat
  <2>1. ClaimedBy(Written') \subseteq ClaimedBy(Written)
    BY <1>4 DEF ClaimedBy
  <2> QED
    BY <2>1, ClaimsKept DEF VisitInv
<1>6. Waiting \in Nat /\ visits \in Nat
  BY WaitingCounts DEF CallsTyped, VisitsTypeOK
<1>7. ASSUME ~overlapped'
      PROVE  Exact'
  <2>1. Exact /\ ~ \E c \in BagToSet(pending) : c.op \in VisitOps
    BY <1>1, <1>7 DEF VisitInv
  <2>2. Waiting = 0 /\ Upserts = {}
    BY <2>1, WaitingCounts DEF CallsTyped, Upserts, VisitOps
  <2> QED
    BY <1>1, <1>2, <1>3, <2>1, <2>2 DEF Exact
<1> QED
  BY <1>1, <1>2, <1>3, <1>5, <1>6, <1>7 DEF VisitInv

LEMMA InitVisits ==
  ASSUME CommunityInit
  PROVE  VisitInv
<1>1. /\ counters = {} /\ visitsCache = 0 /\ visits = 0 /\ shownCount = 0
      /\ IsABag(pending) /\ BagToSet(pending) = {}
  BY NoCalls DEF CommunityInit, VisitsInit
<1>2. Waiting = 0
  BY <1>1, WaitingCounts
<1>3. Upserts = {} /\ Creating = {} /\ Written = {} /\ ClaimedBy(Written) = {}
  BY <1>1 DEF Upserts, Creating, Written, ClaimedBy
<1>4. Exact
  BY <1>1, <1>2, <1>3 DEF Exact
<1> QED
  BY <1>1, <1>2, <1>3, <1>4, FS_EmptySet DEF VisitInv

LEMMA NextVisits ==
  ASSUME IInv, VisitInv, [CommunityNext]_communityVars
  PROVE  VisitInv'
<1>1. CallsTyped /\ VisitsTypeOK /\ CommentInv /\ MessageInv /\ FileInv /\ CatalogueInv
      /\ IsABag(pending)
  BY DEF IInv, CallsTyped
<1>2. ASSUME UNCHANGED visitVars, SameCalls(VisitOps)
      PROVE  VisitInv'
  BY <1>2, VisitsApart
<1>3. CASE CommentStep /\ OnlyComments
  BY <1>1, <1>2, <1>3, CommentCalls DEF OnlyComments, SameCalls
<1>4. CASE ConversationStep /\ OnlyConversations
  BY <1>1, <1>2, <1>4, ConversationSteps DEF OnlyConversations, SameCalls
<1>5. CASE VisitStep /\ OnlyVisits
  BY <1>1, <1>5, RegisterVisitStep, ReadCounterStep, CreateCounterStep, UpsertCounterStep,
     FailVisitStep DEF VisitStep, AnswerVisit
<1>6. CASE FileStep /\ OnlyFiles
  BY <1>1, <1>2, <1>6, FileSteps DEF OnlyFiles, SameCalls
<1>7. CASE CatalogueStep /\ OnlyCatalogues
  <2>1. CallsFollow
    BY <1>1, <1>7, CatalogueSteps DEF CallsTyped
  <2>2. VisitOps \cap CatalogueOps = {}
    BY DEF VisitOps, CatalogueOps
  <2>3. SameCalls(VisitOps)
    BY <2>1, <2>2 DEF CallsFollow
  <2> QED
    BY <1>2, <1>7, <2>3 DEF OnlyCatalogues
<1>8. CASE CommunityExpire
  BY <1>1, <1>8, ExpireVisitsStep DEF CommunityExpire
<1>9. CASE Crash
  BY <1>1, <1>9, CrashVisits
<1>10. CASE UNCHANGED communityVars
  BY <1>2, <1>10 DEF communityVars, SameCalls
<1>11. CASE CommunityRequest \/ \E c \in BagToSet(pending) : Serve(c)
  BY <1>3, <1>4, <1>5, <1>6, <1>7, <1>11
  DEF CommunityRequest, Serve, CommentStep, ConversationStep, VisitStep, FileStep, CatalogueStep
<1> QED
  BY <1>8, <1>9, <1>10, <1>11 DEF CommunityNext

\* The sum of the counters is at most the number of what they claim.
LEMMA CountersSum ==
  ASSUME VisitsTypeOK, VisitInv
  PROVE  /\ MapThenSumSet(LAMBDA d : d.count, counters) \in Nat
         /\ MapThenSumSet(LAMBDA d : d.count, counters) <= Cardinality(ClaimedBy(Written))
<1> DEFINE f == [d \in counters |-> d.count]
           B == ClaimedBy(Written)
           U == Units(f, counters)
           g == [u \in U |-> <<u[1].id, u[2]>>]
<1>1. \A d \in counters : f[d] \in Nat /\ f[d] = d.count /\ d.id \in CounterIds
  BY DEF VisitsTypeOK, Counter
<1>2. MapThenSumSet(LAMBDA d : d.count, counters) = Cardinality(U)
  <2> DEFINE sum == CHOOSE s : Sums(s, f, counters)
             same == CHOOSE s : s = [S \in SUBSET counters |->
                       IF S = {} THEN 0 ELSE Pick(S).count + s[S \ {Pick(S)}]]
  <2>1. MapThenSumSet(LAMBDA d : d.count, counters) = same[counters]
    BY DEF MapThenSumSet, MapThenFoldSet, Pick
  <2>2. ASSUME NEW s
        PROVE  [S \in SUBSET counters |-> IF S = {} THEN 0 ELSE Pick(S).count + s[S \ {Pick(S)}]]
                 = [S \in SUBSET counters |-> IF S = {} THEN 0 ELSE f[Pick(S)] + s[S \ {Pick(S)}]]
    <3>1. \A S \in SUBSET counters : S # {} => Pick(S) \in counters
      BY DEF Pick
    <3>2. \A S \in SUBSET counters : S # {} => f[Pick(S)] = Pick(S).count
      BY <3>1
    <3> HIDE DEF f
    <3> QED
      BY <3>2
  <2>3. same = sum
    <3> HIDE DEF f
    <3>1. \A s : s = [S \in SUBSET counters |->
                        IF S = {} THEN 0 ELSE Pick(S).count + s[S \ {Pick(S)}]]
                   <=> Sums(s, f, counters)
      BY <2>2 DEF Sums
    <3> QED
      BY <3>1
  <2>4. \E s : Sums(s, f, counters)
    <3> HIDE DEF f
    <3> QED
      BY <1>1, UnitsSum DEF VisitInv
  <2>5. Sums(sum, f, counters)
    BY <2>4
  <2> HIDE DEF sum, same, f
  <2> QED
    BY <1>1, <2>1, <2>3, <2>5, SumIsCount DEF VisitInv
<1>3. g \in [U -> B]
  <2>1. ASSUME NEW u \in U
        PROVE  <<u[1].id, u[2]>> \in B
    <3>1. u[1] \in counters /\ u[2] \in 1..f[u[1]] /\ u[2] \in Nat
      BY DEF Units
    <3> QED
      BY <1>1, <3>1 DEF ClaimedBy, Written
  <2> HIDE DEF B, U
  <2> QED
    BY <2>1
<1>4. \A u, v \in U : g[u] = g[v] => u = v
  <2>1. \A d, e \in counters : d.id = e.id => d = e
    BY DEF VisitsTypeOK
  <2>2. \A u \in U : u[1] \in counters /\ u = <<u[1], u[2]>>
    BY DEF Units
  <2> QED
    BY <2>1, <2>2
<1>5. g \in Injection(U, B)
  <2> HIDE DEF g, U, B
  <2> QED
    BY <1>3, <1>4 DEF Injection, IsInjective
<1>6. IsFiniteSet(B)
  BY DEF VisitInv
<1> HIDE DEF g, U, B
<1>7. Cardinality(U) <= Cardinality(B) /\ Cardinality(U) \in Nat
  BY <1>5, <1>6, FS_Injection, FS_CardinalityType
<1> QED
  BY <1>2, <1>7 DEF B

\* However visits overlap, and whatever counts are overwritten, lost in a crash
\* or dropped from the cache: the counters together, the number in the cache and
\* every number shown are at most the visits there were, and exact while none
\* overlapped (registerVisit, incrementVisitWebCount).
THEOREM VisitsAreCounted == CommunitySpec => []VisitsCounted
<1>1. CommunityInit => IInv /\ VisitInv
  BY InitIInv, InitVisits
<1>2. (IInv /\ VisitInv) /\ [CommunityNext]_communityVars => (IInv /\ VisitInv)'
  BY NextIInv, NextVisits
<1>3. ASSUME IInv, VisitInv
      PROVE  VisitsCounted
  <2>1. CallsTyped /\ VisitsTypeOK /\ IsABag(pending)
    BY <1>3 DEF IInv, CallsTyped
  <2>2. /\ Waiting \in Nat /\ visits \in Nat
        /\ Cardinality(ClaimedBy(Written)) \in Nat
        /\ Cardinality(ClaimedBy(Written)) + Waiting <= visits
    BY <1>3, <2>1, WaitingCounts, FS_CardinalityType DEF VisitInv, VisitsTypeOK
  <2>3. MapThenSumSet(LAMBDA d : d.count, counters) <= visits
    <3>1. MapThenSumSet(LAMBDA d : d.count, counters) <= Cardinality(ClaimedBy(Written))
      BY <1>3, <2>1, CountersSum
    <3>2. MapThenSumSet(LAMBDA d : d.count, counters) \in Nat
      BY <1>3, <2>1, CountersSum
    <3> QED
      BY <2>2, <3>1, <3>2
  <2>4. ASSUME ~overlapped, ~VisitsUnderWay
        PROVE  /\ counters = {} <=> visits = 0
               /\ \A d \in counters : d.count = visits /\ counters = {d}
               /\ visitsCache \in {0, visits}
    <3>1. Waiting = 0 /\ Upserts = {}
      BY <2>1, <2>4, WaitingCounts DEF VisitsUnderWay, Upserts, VisitOps
    <3>2. Exact /\ \A d \in counters : d.count \in Nat
      BY <1>3, <2>1, <2>4 DEF VisitInv, VisitsTypeOK, Counter
    <3>3. \A d \in counters : d.count = visits /\ counters = {d} /\ d.count >= 1
                              /\ visitsCache \in {0, visits}
      BY <3>1, <3>2 DEF Exact
    <3>4. counters = {} => visits = 0 /\ visitsCache = 0
      BY <3>1, <3>2 DEF Exact
    <3> QED
      BY <3>3, <3>4
  <2> QED
    BY <1>3, <2>3, <2>4 DEF VisitsCounted, VisitInv
<1> QED
  BY <1>1, <1>2, <1>3, PTL DEF CommunitySpec
=============================================================================
