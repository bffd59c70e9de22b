----------------------------- MODULE Catalogues -----------------------------
(***************************************************************************)
(* The lists that administrators edit: schools, semesters, competencies,   *)
(* authorities and the settings of the application (src/schools,           *)
(* src/semesters, src/competencies, src/authorities,                       *)
(* src/app-configuration).                                                 *)
(*                                                                         *)
(* An update reads a document, changes some fields and replaces the whole; *)
(* so does the removal of a semester or competency, which only marks it.   *)
(* Schools and authorities are deleted.  That semesters are stored in      *)
(* upper case, which only those who look for them notice, is in Registry.  *)
(***************************************************************************)
EXTENDS Naturals, FiniteSets, Calls

CONSTANTS
  EntryIds, \* of the documents
  Settings, \* those of the settings, which nobody creates or removes
  Texts,    \* what an administrator writes: a name or anything else
  None

Services == {"schools", "semesters", "competencies", "authorities", "settings"}

\* What the services with a field deletedAt do not delete.
Marking == {"semesters", "competencies"}

Fields == {"name", "note", "deleted"}

Entry ==
  [id : EntryIds, service : Services, name : Texts \cup {None},
   note : Texts \cup {None}, deleted : BOOLEAN]

ASSUME CataloguesAssumption ==
  /\ Settings \subseteq EntryIds
  /\ None \notin Texts \cup Entry /\ Texts # {}

VARIABLES
  entries,   \* the five containers
  \* History:
  told,      \* each document as the answered requests made it,
  lost,      \* fields overwritten by a request that did not set them,
  gone       \* documents whose deletion was confirmed

entryVars == <<entries, told, lost, gone>>

CatalogueCall == [op : {"replaceEntry"}, seen : Entry, entry : Entry, set : SUBSET Fields]

CataloguesTypeOK ==
  /\ entries \subseteq Entry
  /\ \A d, e \in entries : d.id = e.id => d = e
  /\ told \in [EntryIds -> Entry \cup {None}]
  /\ lost \subseteq EntryIds \X Fields
  /\ gone \subseteq EntryIds

\* The settings are there from the beginning.
CataloguesInit ==
  /\ \E name, note \in [Settings -> Texts] :
       LET setting(id) == [id |-> id, service |-> "settings", name |-> name[id],
                           note |-> note[id], deleted |-> FALSE] IN
       /\ entries = {setting(id) : id \in Settings}
       /\ told = [id \in EntryIds |-> IF id \in Settings THEN setting(id) ELSE None]
  /\ lost = {} /\ gone = {}

-----------------------------------------------------------------------------
(* Faults of the kind this code could have, for the runs to detect. *)
Unmarked(e, set, name, note) == [e EXCEPT !.name = name, !.deleted = FALSE]
AnyEntry(service) == {e \in entries : e.service = service}
Upserted(c) == {e \in entries : e.id # c.entry.id} \cup {c.entry}

\* findAll of each service.
ListEntries(service) ==
  {e \in entries : e.service = service /\ (service \in Marking => ~e.deleted)}

\* What the DTO of an update may set.
Editable(service) == IF service = "authorities" THEN {"name", "note"} ELSE {"name"}

\* A document with the fields of the DTO in place of its own.
Changed(e, set, name, note) ==
  [e EXCEPT !.name = IF "name" \in set THEN name ELSE @,
            !.note = IF "note" \in set THEN note ELSE @]

SendEntry(e, new, set) ==
  /\ Start({[op |-> "replaceEntry", seen |-> e, entry |-> new, set |-> set]})
  /\ UNCHANGED entryVars

-----------------------------------------------------------------------------

\* Only an authority has a note, and only an authority needs no name.
CreateEntry(id, service, name, note) ==
  LET e == [id |-> id, service |-> service, name |-> name, note |-> note,
            deleted |-> FALSE] IN
  /\ service # "authorities" => name # None /\ note = None
  /\ told[id] = None
  /\ entries' = entries \cup {e}
  /\ told' = [told EXCEPT ![id] = e]
  /\ UNCHANGED <<pending, lost, gone>>

\* A document is found by its id although it is marked as deleted; the DTO may
\* set nothing.
UpdateEntry(e) ==
  /\ e.service # "settings"
  /\ \E set \in SUBSET Editable(e.service), name, note \in Texts :
       SendEntry(e, Changed(e, set, name, note), set)

\* The value of a setting is assigned whether or not the request has one: an
\* update without a value leaves the setting without one, and answers so.
UpdateSetting(e) ==
  /\ e.service = "settings"
  /\ \E note \in Texts \cup {None} : SendEntry(e, [e EXCEPT !.note = note], {"note"})

\* remove of semesters and competencies.
MarkDeleted(e) ==
  /\ e.service \in Marking
  /\ SendEntry(e, [e EXCEPT !.deleted = TRUE], {"deleted"})

\* remove of schools and authorities.
DeleteEntry(e) ==
  /\ e.service \in {"schools", "authorities"}
  /\ entries' = entries \ {e}
  /\ gone' = gone \cup {e.id}
  /\ UNCHANGED <<pending, told, lost>>

CatalogueRequest ==
  \/ \E id \in EntryIds \ Settings, service \in Services \ {"settings"},
       name, note \in Texts \cup {None} : CreateEntry(id, service, name, note)
  \/ \E e \in entries :
       UpdateEntry(e) \/ UpdateSetting(e) \/ MarkDeleted(e) \/ DeleteEntry(e)

\* What the container holds after the replace: of a document that is not there
\* any more, nothing.
Replaced(c) ==
  {e \in entries : e.id # c.entry.id}
    \cup {c.entry : d \in {e \in entries : e.id = c.entry.id}}

\* A document with some fields of another.
Having(d, set, e) == [f \in DOMAIN d |-> IF f \in set THEN e[f] ELSE d[f]]

\* The replace of an update or removal is answered.
ReplaceEntry(c) ==
  LET current == {e \in entries : e.id = c.entry.id}
      overtaken == {f \in Fields \ c.set : \E d \in current : d[f] # c.seen[f]} IN
  /\ c.op = "replaceEntry"
  /\ entries' = Replaced(c)
  /\ told' = IF current = {} THEN told
             ELSE [told EXCEPT ![c.entry.id] = Having(@, c.set, c.entry)]
  /\ lost' = IF current = {} THEN lost
             ELSE (lost \ ({c.entry.id} \X c.set)) \cup ({c.entry.id} \X overtaken)
  /\ Continue(c, {})
  /\ UNCHANGED gone

\* The database rejects it; the client who waits for it is told so.
FailEntry(c) ==
  /\ c.op = "replaceEntry"
  /\ Continue(c, {})
  /\ UNCHANGED entryVars

-----------------------------------------------------------------------------
(* Safety. *)

\* The lists show the documents as the last answered request to set each field
\* left it, and not those whose removal was answered, but for fields that a
\* request overwrote which had read the document before they were set.  An
\* update of a document that is marked as deleted does not bring it back, nor
\* does one that has read a school or authority which is deleted meanwhile.  An
\* update of a setting without a value sets it to none.
\* (create, update, remove, findAll.)
ListedAsTold ==
  \A service \in Services :
    /\ \A e \in ListEntries(service) :
         /\ e.id \notin gone
         /\ told[e.id].deleted => <<e.id, "deleted">> \in lost
         /\ \A f \in Fields \ {"deleted"} : e[f] = told[e.id][f] \/ <<e.id, f>> \in lost
    /\ \A id \in EntryIds \ gone :
         told[id] # None /\ told[id].service = service /\ ~told[id].deleted =>
           <<id, "deleted">> \in lost \/ \E e \in ListEntries(service) : e.id = id
=============================================================================
