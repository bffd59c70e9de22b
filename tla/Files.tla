-------------------------------- MODULE Files --------------------------------
(***************************************************************************)
(* References to uploaded files, of src/storage/storage.service.ts: stored *)
(* after the upload, removed by a deletion date that nobody waits for.     *)
(***************************************************************************)
EXTENDS Naturals, FiniteSets, Calls

CONSTANT FileIds

VARIABLES
  files,      \* the container: the id of a reference, and whether it is deleted
  \* What clients have been told:
  uploaded,   \* references that were created
  unlisted,   \* references that were removed
  forgotten   \* references whose removal was lost

filesTold == <<uploaded, unlisted, forgotten>>
fileVars == <<files, filesTold>>

FileCall ==
  [op : {"upload", "insertFile"}, file : FileIds]
    \cup [op : {"replaceFile"}, file : FileIds, found : BOOLEAN]

FilesTypeOK ==
  /\ files \in [FileIds -> {"absent", "listed", "deleted"}]
  /\ uploaded \subseteq FileIds /\ unlisted \subseteq FileIds /\ forgotten \subseteq FileIds

FilesInit ==
  /\ files = [f \in FileIds |-> "absent"]
  /\ uploaded = {} /\ unlisted = {} /\ forgotten = {}

-----------------------------------------------------------------------------
(* Faults of the kind this code could have, for the runs to detect. *)
EveryFile == {f \in FileIds : files[f] # "absent"}

\* getAll
ListedFiles == {f \in FileIds : files[f] = "listed"}

FilesOf(calls) == {o.file : o \in {c \in calls : c.op = "replaceFile"}}

FileOps == {"upload", "insertFile", "replaceFile"}

Unused(f) ==
  /\ files[f] = "absent"
  /\ \A c \in BagToSet(pending) : c.op \in FileOps => c.file # f

-----------------------------------------------------------------------------

\* Without saveReference the file is uploaded and nothing else happens.
UploadFile(f) ==
  /\ Unused(f)
  /\ Start({[op |-> "upload", file |-> f]})
  /\ UNCHANGED fileVars

\* remove reads the reference and does not look whether there is one: it
\* replaces what it has by that and a deletion date, and answers.
RemoveFile(f) ==
  /\ Start({[op |-> "replaceFile", file |-> f, found |-> files[f] # "absent"]})
  /\ unlisted' = unlisted \cup {f}
  /\ UNCHANGED <<files, uploaded, forgotten>>

FileRequest == \E f \in FileIds : UploadFile(f) \/ RemoveFile(f)

SaveReference(c) ==
  /\ c.op = "upload"
  /\ Continue(c, {[c EXCEPT !.op = "insertFile"]})
  /\ UNCHANGED fileVars

InsertFile(c) ==
  /\ c.op = "insertFile"
  /\ files' = [files EXCEPT ![c.file] = "listed"]
  /\ uploaded' = uploaded \cup {c.file}
  /\ Continue(c, {})
  /\ UNCHANGED <<unlisted, forgotten>>

\* The replace of a reference that was not found is refused, and nobody waits
\* for it: nothing but the end of the process can happen to that call.
ReplaceFile(c) ==
  /\ c.op = "replaceFile"
  /\ c.found
  /\ files' = [files EXCEPT ![c.file] = "deleted"]
  /\ Continue(c, {})
  /\ UNCHANGED filesTold

AnswerFile(c) == SaveReference(c) \/ InsertFile(c) \/ ReplaceFile(c)

FailFile(c) ==
  /\ c.op \in {"upload", "insertFile"}
  /\ Continue(c, {})
  /\ UNCHANGED fileVars

LoseFiles ==
  /\ forgotten' = forgotten \cup FilesOf(BagToSet(pending))
  /\ UNCHANGED <<files, uploaded, unlisted>>

-----------------------------------------------------------------------------
(* Safety. *)

\* A reference that was created is listed until its removal is answered, and
\* not listed any more once the removal has arrived, unless it was lost.
\* (uploadFile, remove, getAll.)
FilesAsTold ==
  \A f \in uploaded : f \notin forgotten \cup FilesOf(BagToSet(pending)) =>
    (f \in ListedFiles <=> f \notin unlisted)
=============================================================================
