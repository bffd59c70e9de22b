# A TLA+ model of the Observatorio backend

The repository is a NestJS server that keeps its state in Azure Cosmos DB
containers. This directory models the parts of it in which requests share that
state, checks them with TLC and proves the most important facts with TLAPS.

All paths below are relative to the repository; the code is under `src/`
(`src/training/...` is `src/src/training/...` in the map of PROJECT.json, whose
paths start at the checkout).

## 1. The system

### How it runs

One Node process serves all requests. Between two `await`s a handler runs alone;
at every `await` (a query, a `replace`, a `create`, speech synthesis, a cache
access) any other handler may run. Several calls are not awaited at all: the
handler answers its client while they are under way, and they arrive in any
order. No write uses an etag: a `replace` writes the *whole* document its handler
read earlier, whatever was stored since. A rejected promise that nobody awaits
ends the process, which is then restarted; everything in memory (caches,
verification codes, calls under way) is gone, the containers stay.

These four facts are the whole difficulty of the code, and the reason a test, which
runs one handler after the other, hardly reaches what can go wrong.

### Components

| Component | State | Operations | Talks to | Hard part |
|---|---|---|---|---|
| Trainings, participants, certificates (`training/`) | one document per training, with executions (and their attendance) and participants (and their certificates) inside | create, update, remove, addParticipant, updateParticipant, removeParticipant, addAttendanceToExecution, completeTraining, generateCertificate | users, mail | every handler replaces the whole training; checks are made on copies; ids handed out in QR codes must stay good |
| Posts and post requests (`posts/`) | post documents partitioned by category; slugs; likes; audio | create, update, updatePostRequest, toggleActiveState, remove, like, unlike, getAudio, updateSlugs | search index, blob storage, home page, speech synthesis | a change of category deletes and creates; un-awaited replaces and index calls; slow speech synthesis between read and write |
| Home page (`posts/`) | slots that name posts; a cached rendering with a 3 h lifetime | updateHomePosts, getHomePosts | posts, cache | references checked before the delete; cache filled with what was read before it was emptied |
| Search index (`common/services/algolia.service`, `scripts/`) | one record per active post (external) | save, partial update, delete, syncAlgolia | posts | calls in any order |
| Accounts (`users/`, `auth/`, `common/services/otp.service`) | user documents; reset tokens; codes in memory | sendOtp, register, create, update, toggleActiveState, acceptChangeRoleRequest, sendResetPasswordOtp, resetPassword, updateSlugs, signIn | mail | check-then-create; whole-document replaces; response documents written back |
| Comments (`posts/services/post-comments.service`) | comments, replies, likes, deletion dates | create, updateLikes, remove | posts | un-awaited replaces of a parent and its replies |
| Conversations (`conversations/`) | conversations and messages, in two containers | create, createMessage, remove | | un-awaited create and replace; ids chosen by clients |
| Visit counter (`statistics/`) | a counter document and a cached number | registerVisit | cache | read-increment-write without awaiting |
| File storage (`storage/`) | references to uploaded files | uploadFile, remove, getAll | blob storage | a removal nobody awaits, of a file that may not be there |
| Migration (`training/services/migration.service`) | a spreadsheet with marks for its rows; a file with the users processed, a file with all users | sendMails, updateMails, migrateFromExcel | accounts, trainings, catalogues, mail, Google Sheets | dozens of calls one after the other, any of which may fail; marks written once at the end; two jobs at a time; restarts |
| Schools, semesters, competencies, authorities, settings (`schools/`, `semesters/`, `competencies/`, `authorities/`, `app-configuration/`) | a container each | create, update, remove, findAll, getByName | migration, reports | find-then-create; removal without looking who refers to it; a deletion mark that an update writes back or wipes out |
| Reports (`reports/`, `professor-reports.repository`, `training.service`) | none | participation by school, type of employment, semester; trainings by competency; asistance of one training | trainings, users, schools | three ways to count the same; documents read at different times |
| Tags, mail, OpenAI, HTTP wiring, templates | a cached list, or none | output | | none that involves two requests and is not in another component |

### What correctness means

- **Trainings.** A user is in a training once; an attendance and a certificate
  exist once; the participant id on a credential names one user and one training
  for ever; a removed training stays removed; whoever was told that he was added,
  removed or marked present is, unless a request holding an older copy wrote after.
- **Posts.** A post exists once although it moves between partitions; it stays removed;
  its likes never exceed those given, nor are more lost than were taken back; index, audio and slug follow the post when
  nothing overlapped.
- **Home page.** It names posts that exist; the cached page agrees with it, and a stale
  one goes away.
- **Accounts.** Nobody loses a password, shares an address or a slug, or becomes a professor
  without the fields professors need; whoever was told he has an account can sign in,
  and only as himself.
- **Comments.** A confirmed removal removes the comment and its replies, and stays.
- **Conversations.** A message belongs to a conversation that is stored; it is kept; a confirmed
  deletion stays.
- **Visits.** No number shown or stored exceeds the visits; there is one counter.
- **Files.** A reference is listed until its removal is confirmed.
- **Migration.** A user is mailed one password, the one that is stored; the marks of the
  spreadsheet say what was done; repeating a job repeats nothing it completed.
- **Catalogues.** A list shows what the answered requests left; what was removed is not in it, what was deleted stays away.
- **Reports.** Reports of the same documents agree, but for what they leave out by design, and are answered.

## 2. Modules

| Module | What it is |
|---|---|
| `Training` | the training documents and all requests that change them |
| `Enrolment` | what trainings promise to the holder of a credential (abstract specification) |
| `MCTraining` | instance of `Training` for TLC |
| `TrainingProofs` | theorems about `Training`, and that it implements `Enrolment` |
| `Calls` | the calls a process has sent and not seen answered: a bag |
| `CallsProofs` | what sending and answering does to that bag |
| `UniqueSlug` | the number `generateUniqueSlug` appends |
| `FiniteProofs` | sums over finite sets, and other folds, as cardinalities; the loop of `generateUniqueSlug` ends, with a new slug |
| `Posts` | posts, index, audio, home page, cache |
| `MCPosts` | instances of `Posts` for TLC |
| `PostsProofs` | theorems about `Posts` |
| `Accounts` | users, codes, tokens, sign-in |
| `MCAccounts` | instance of `Accounts` for TLC |
| `AccountsProofs` | theorems about `Accounts` |
| `Comments`, `Conversations`, `Visits`, `Files` | the four small services that answer before their writes arrive |
| `Catalogues` | the lists administrators edit: schools, semesters, competencies, authorities, settings |
| `Community` | the composition of the five in one process, which ends for all of them together |
| `MCCommunity` | instance of `Community` for TLC |
| `CommunityProofs` | theorems about `Community`, with the lemmas about `Catalogues` |
| `Registry` | the users, trainings and catalogues that the jobs of the migration and the reports share |
| `Spreadsheet` | its sheets and marks, and the walk over them that two jobs take |
| `Mailing` | sendMails and updateMails |
| `Importing` | migrateFromExcel |
| `Reports` | the reports as operators, two of them also step by step |
| `Migration` | the composition: jobs, reports, edits by hand, restarts |
| `MCMigration` | instance of `Migration` for TLC |
| `MigrationProofs` | theorems about the jobs of `Migration` |
| `ReportsProofs` | theorems about its reports and what they rely on |

Each module names its source functions; the full correspondence is `map` in
PROJECT.json.

### Training

State: `store` maps an id to a training document or `Absent`; `request` holds, for
each request in flight, the document it computed and what it waits for. All the
handlers have one shape: find a training (404), check something on the copy (400),
change the copy, `container.item(id).replace(copy)`. So a handler is two actions: one
that reads, checks and computes (`AddParticipant`, `UpdateParticipant`, ...), and the
common `Replace`. `CreateTraining` and `Update` wait once more, for the query in
`CheckCode`. Both may add any number of executions. `RemoveTraining` deletes; a replace of a deleted training fails with 404.
`Fail` is a call that fails. Ids from `uuid` are taken from a set of ids that were not
given before. Ghost variables record what clients were told (`added`, `removed`, `attended`),
to whom each id was given (`owner`), and what was raced (`overwritten`, `rescheduled`,
`codeRace`).

### Calls

Requests of posts and accounts have several calls under way, and leave some
un-awaited, so the model keeps no "program counter per request". `pending` is the bag
of calls sent and not yet answered. A handler is the action that reads and sends
(`Start`); each answer (`Continue`) takes one call out of the bag and adds those that what waited
for it sends next. Any call may be answered at any time: this is the event loop, and
it also gives un-awaited calls the freedom to arrive in any order. `Restart` empties
the bag.

### Posts

State: `posts` (a set of documents; two with one id may exist in two partitions),
`index`, `blob`, `home`, `cache`, `pending`; ghosts for what callers were told.
Requests: `Create`, `Update`, `UpdatePostRequest`, `ToggleActiveState`, `RemovePost`,
`Like`, `Unlike`, `GetAudio`, `UpdateSlugs`, `SyncAlgolia`, `UpdateHomePosts`,
`GetHomePosts`. Answers: `ChooseSlug`, `CheckPostReferences`, `Replace`, `Move` (delete,
then `Insert`), `Insert`, `Remove`, `Speak`, `Upload`, `SearchIndex`, `Renumber`,
`FinishSlugs`, `Assign`, `ReadPost`, `FillCache`. Environment: `Expire`, `Fail`,
`Restart`. A partial update of a missing index record may or may not create it: that
is the service's business.

The `action` of a like request is any string (`update-likes.dto.ts`): `Like` stands for 'increment', `Unlike` takes
the rest. Only 'decrement' is refused for a post without likes; any other action, or none, takes one like without that check,
so the number of likes is an integer, and the ghost `unchecked` has the posts it happened to.

### Accounts

State: `users`, `tokens`, `otp` (in memory), `pending`; ghosts: `told` (each user as the answered
requests made him), `lost` (fields overwritten by a request that did not set them),
`excused`, `aged`. Registration is three calls (`ChooseSlug`, `FindDuplicate`, `Insert`); a
change is a read and a `Replace`; `UpdateStatus` and `Reset` read the user a second time. `UpdateStatus`
writes what `ToJson` leaves of the user, as the code does. `SignIn` is an operator: the set of
answers a sign-in may get. An email is an address and whether it was typed in lower case, which is all that
`findByEmail` and `create` distinguish; a password is stored as its hash; `document` stands for
all the fields a professor must have; it may be missing (`None`) or empty (`Blank`), which `create` both counts as missing. `update`
copies an empty one without that check, and `excused` then has the user.

### Comments, Conversations, Visits, Files and their composition, Community

Built on `Calls`: each service sends its writes and answers at once, so an action that reads
(`UpdateLikes`, `CreateMessage`, `ListChildren`, `RemoveFile`, `ReadCounter`) starts calls, and
`StoreComment`, `ReplaceConversation`, `UpsertCounter`, ... are their arrival, in any order. Awaited
calls may fail (`FailComment`, ...). A rejection that nobody awaits ends the process: a second
create with the id of a stored conversation and a removal of a file that is not there stay in the bag, since they
can never succeed, until `Crash`, which empties the bag for all the services, the catalogues included. The ghosts say what clients were told
(`published`, `discarded`, `liking`, `opened`, `closed`, `sent`, `uploaded`, ...) and which documents
had writes that overlapped or were lost (`disturbed`, `crossed`, `overlapped`, `forgotten`).
What is shown (`findByPostId`, `findAll`, `getAll`) are operators.

### Catalogues

Five services, one shape: `entries` is what their containers hold, of each document its name, whatever else may be edited and
whether it is marked as deleted. An `UpdateEntry`, and the removal of a semester or competency (`MarkDeleted`), reads, sends
a call with the whole new document, and is answered by `ReplaceEntry`; `CreateEntry` and `DeleteEntry` are one call each. All of them are awaited. `Editable`
is what the DTO of each service lets an update set. An update keeps what it does not set, except that of a setting (`UpdateSetting`),
which stores its value or, if it has none, none. `told` and `lost` are as for accounts.

### Registry, Spreadsheet, Mailing, Importing, Reports, Migration

A job is one call under way, a record with everything the job holds in memory: the positions of the rows that are left in
the sheet (a set, of which the least is next), the results it will write back, the user or training it is at. Each `await` of the code is one value of `op`, each action
answers it and sends the next. `Spreadsheet` has the walk that `sendMails` and `migrateFromExcel` have in common:
over the rows of the first sheet, for each over those of the participants, marks collected in
`results` and written by `WriteBack`, which nobody awaits. For every call there is
`FailMail` or `FailImport`, which goes where the code's `catch` goes: the next participant, the next training or the end.
`Interrupt` ends the process; what `writeFile` was writing may then be unreadable (`readable`, `backup`).

An e-mail address is an address and a form: plain, with upper case, with spaces, or the digits of a password. That is what
`findByEmail` (lower case), `getDuplicatedUser` (as it is) and the jobs (lower case, trimmed) tell apart. A name of the catalogues has letters, a
case and maybe spaces around it, since semesters are stored in upper case and trimmed, but looked for as written. A user may have no
document, no school and no type of employment: the code asks them of professors only, when they are created. `CatalogueRequest` is an administrator
who deletes a school or marks a competency as deleted; neither looks for those who refer to it. Rows hold what
decides their way: `fault` names what makes a row fail and where. `EmploymentType` keeps that the
values of the spreadsheet's enum are swapped. `Misplaced` is the text 'Tiempo Completo', for
which `create` accepts duplicates.

`migrateFromExcel` is called by no endpoint at this commit (`training.controller.ts:329-343`, "migrate", calls
`sendMails`); it is modelled as the third job, since the other two work on what it leaves.

`met` is the set of pairs of kinds of requests that were under way together; properties that
hold only for jobs that run alone name the pair that breaks them.

## 3. Runs

| Run | Bounds | Shows |
|---|---|---|
| `training` | 2 requests in flight, 5 accepted, 2 trainings, 1 execution, 2 participant ids, 2 users, 2 codes, 2 roles; 321,707 states | the invariants below survive all interleavings; losses only through an overtaking replace; `Enrolment` is implemented |
| `training_lost_participant` | as above | **violated**: an added user is there |
| `training_attendance_dropped` | as above | **violated**: the attendance is an array |
| `posts` | 2 ids, 2 categories, 1 title, 2 contents, 4 requests, no slots; 3.5 M states | one copy, removal is final, likes accounted for, index/audio/likes as told, slugs |
| `home_page` | 1 id, 2 categories, 1 slot, 4 requests, 1 page read at a time; 1.03 M states | references and cache; a stale cached page does not stay (liveness) |
| `home_page_reference` | 2 ids, else as `home_page` | **violated**: no reference to a deleted post |
| `accounts` | 2 ids, 1 name, 2 addresses in 2 spellings, 2 passwords, 1 document and an empty one, 3 roles, 1 code, 1 token, 5 requests, 3 calls; 5.1 M states | users as told, sign-in, duplicates, slugs, professors |
| `accounts_password` | 3 requests | **violated**: every user has a password |
| `accounts_codes` | 3 requests | **violated**: codes expire |
| `community` | 3 comments on 1 post, 2 readers, 1 conversation id, 2 owners, 2 instants, 2 counters, 1 file, 1 setting and 1 other entry, 2 texts, 5 requests; 561 k states | comments shown, conversations, messages, files and lists as told, counts never too high |
| `migration` | 2 trainings in sheets C10 and C1, 5 rows each, 3 users at first, none with a school, 2 new ones, events that cost 5 together; 1.9 M states | one mail each with the stored password, marks as done, no one enrolled twice, catalogues without doubles, reports that agree and are answered |
| `migration_sign_in` | one request | **violated**: the mailed password opens an account |

### The properties

Many guarantees of this code hold *unless requests overlapped*. The properties say
exactly which overlap: a ghost variable records that a replace wrote an older copy over
something (`overwritten`, `lost`, `raced`), and the property demands the guarantee for all the
rest. So `ParticipantsAsTold`, `AttendanceAsTold`, `AsTold`, `UserAsTold`, `SignInAsTold`, `ListedAsTold`, `CodesUnlessRaced`,
`SlugsUnlessRaced`, `NoDuplicatesUnlessRaced` and `CacheUnlessRaced` fail as soon as a handler forgets
a field, applies a write to the wrong document or drops a check, and they show which
overlaps the code does tolerate. For example, a profile update that runs beside a password reset loses the
reset, but a registration beside anything loses nothing. `lost` is kept per field:
a replace excuses only the fields that another request set while it was under way.

`DoneAsMarked` has an excuse that the attempt to prove it brought to light. An import holds a training in memory from its first
participant to the last, and a participant whose write is rejected stays in that copy (`migration.service.ts:433-455`). His row is an error,
which the next import repeats; but a second row of the same person in the same sheet finds him in the copy, writes nothing and is marked as
done. So a row may be marked although its person takes part in nothing, and the property demands then that another row of his
is not marked. The fourth row of the sheets in `migration` is such a second row.

The others hold without any excuse: `OneParticipantPerUser`,
`NothingTwice`, `CredentialNamesItsOwner`, `RemovedForGood`, `OneCopy`, `LikesBounded`,
`KeepsThePromise`, and, apart from roles and empty documents that an `update` sets, `ProfessorsAreComplete`. They hold although writes are lost,
because every write is a whole document that its own request checked. (`LikesBounded` names the posts of `unchecked`, the only ones whose likes may
be below zero.)

`ReportsAgree` says what two ways of counting differ by, and by nothing else: the report by competency leaves out the trainings whose competency
is marked as deleted, since it goes through the list of competencies, which leaves out those; the asistance of a training counts participants whose
user was deleted, that by school does not; the report by type of employment is wrong as a whole if a professor has none. `ReportsAnswered`
names who makes a report fail: a participant without a school, which the code lets everybody be who is no professor
when he is created. `CatalogueUnlessRaced` excuses semesters that the spreadsheet writes otherwise than they are stored, and no others.

### Why the bounds are enough

Every hazard listed in PROJECT.json needs at most two requests on one document and
one that set it up. Two requests in flight (trainings) and four or five
requests in a behaviour leave room for a creation, two overlapping changes and a
third that reads the result; three calls (accounts) leave room for two registrations and a change. Five
requests (community) leave room for a comment, its reply, a like and a removal of the one beside a request to another service, and for
a creation, two overlapping changes, a removal and an update after it of one entry; a crash needs no request. Requests to the catalogues
come only beside those to files, since catalogues meet the other services in a crash alone. The events of `migration` cost one
(a request alone), two (a failure, a restart, a row paused, a school or a competency removed by hand) or three (a request beside
another): three jobs one after the other with a failure between, or one before two that run together. Its rows are chosen so that every
step fires: a user who is no professor, one whose address belongs to another document, a new school, an address
that is not valid, a row without all its fields, a person who has two rows, a professor without a school, a semester with a space at its end, a sheet whose name includes that of the other. Two ids are needed for slugs,
codes and duplicates; two categories for moves; two values wherever "the
older one came back" must be visible (contents, passwords, spellings). One execution and one slot are enough, since
no handler relates two of them (the theorems have any number of executions in a request). Ids, users, codes, categories and contents are interchangeable, which the
symmetry sets use; `home_page`, the only run with a liveness property, uses no symmetry. The
`Max...` constants bound the requests of a behaviour in the MC modules only: the
specifications themselves are unbounded, except that ids are given once and come from a constant set.

### Fairness

Only `HomePageSettles` needs fairness: weak fairness of the answers (the database and the
services answer or fail) and of `Expire` (the cache manager drops an entry after its
lifetime; an entry that stays is enabled to expire continuously). No request is fair: nobody has to send one.
The other properties are safety properties of specifications without fairness.

### Disagreements found

1. `participants.service.ts:99` — two users who join at once: both are told "The participant
   has been successfully added." (`training.controller.ts:120`), one is not in the training.
2. `training.service.ts:226` — an update that keeps an execution stores it without its
   `attendance`, which `training.entity.ts:17` declares as an array; later requests fail on it.
3. `posts.service.ts:259` — a post can be deleted while the home page names it, in spite of
   the check that answers with the message of line 367.
4. `users.service.ts:279` — toggling the active state of a user writes back the document prepared for
   a response, without the password (`user.entity.ts:28` declares one).
5. `migration.service.ts:504` — after the mail with a new password, which says to sign in with one's address
   and that password (`mail.service.ts:173`), the user's stored address is the password.
6. `otp.service.ts:34` — a verification code never expires; line 10 says five minutes, and clients are told so.

Seen while modelling, and part of the model, but without a run of their own, since no document or test says otherwise:

- `posts.service.ts:273` — an action that is neither 'increment' nor 'decrement' takes a like from a post that has none:
  its likes become negative.
- `users.service.ts:212` — an update with an empty document leaves a professor without one, which `create` refuses.
- `app-configuration.service.ts:38` — an update without a value erases the setting.
- `semesters.service.ts:21` — a semester that the spreadsheet writes in lower case or with spaces is created again by every import.
- `reports.service.ts:23` — the trainings of a competency that was removed are missing in the report by competency.
- `training.service.ts:337` — one participant without a school makes the asistance of a training by school fail.

## 4. Proofs

TLAPS proves for all values of the constants that satisfy the assumptions below, with no bound on requests. Every safety property that
the passing runs check is a theorem, the action property and the refinement included; what is left to TLC is the one liveness property, `HomePageSettles`.

The assumptions are `ASSUME`s of the modules of the model, so that TLC evaluates them for its instances: a constant that stands for "none" or "absent" is
none of the values (`TrainingAssumption`, `AbsentAssumption`, `NoneAssumption`, `CommentsAssumption`, `CataloguesAssumption`); what requests may ask of users is a value of its type for
each field they set, an empty document included (`AccountsAssumption`: other fields are never empty or null, see section 5); ids, slots and the names of what is raced are different things (`PostsAssumption`); the users and the schools at the start
have ids of their own and are finitely many (`RegistryAssumption`); the spreadsheet is one the parser can return: sequences of rows, each with a
`fault` or none (`SpreadsheetAssumption`), and marks go to sheets that have the rows (`RowsFit`). Three theorems have a hypothesis
besides, on the documents there are before the first job: `CatalogueHasNoTwins` has `StartsApart`, `ReferencesAreStored` and `ReportsDoNotFail` have
`SchoolsKnown` (whoever has a school has one that is stored). Both hold of the instance that `migration` checks.

**TrainingProofs.** The inductive invariant is `CopiesStayFit`: not only each stored training but
also each copy in the hands of a request is `Consistent`, lists participants only
under ids whose `owner` is that user and that training, and belongs to an id that was issued. The second half is
what makes it inductive: a `Replace` stores whatever copy it holds. From it follow
`TypeCorrect`, `NoDoubleParticipant`, `NoDoubleEntry`, `CredentialsAreStable`,
`RemovalIsFinal` (a step never stores a training that is issued and absent: a replace of an absent document
fails, and a creation uses a new id), and `TrainingImplementsEnrolment`, step by step: `CreateTraining`'s insert is `Open`, a
handler that draws an id is `Grant`, a `Replace` is `Change`, `RemoveTraining` is `Close`, all others
stutter.

What clients are told needs a second invariant, `AnswersAreTrue`. A document that waits to be written differs from the one its request read by
exactly what the answer will say (`EffectsHold`); of a participant who is still to be stored no document, no other request and no
client knows (`NewcomersUnknown`), so that a replace which stores him contradicts no removal; and unless requests
chose codes together or overwrote one another, a code that was found free is free until it is written
(`CodesChecked`). From it follow `ToldParticipantsAreThere`, `ToldAttendanceIsThere` and `CodesAreDistinct`.

**CallsProofs.** A fact about the calls under way is a fact about `BagToSet(pending)`. The lemmas reduce every step to "at most these calls were
added"; and to "the calls of a kind, and how often each is in the bag, are as before", for the kinds a step is not about. `StartCopies`, `AnswerCopies` and `ContinueCopies`
say how often a call is in the bag afterwards, where that is counted.

**FiniteProofs.** A sum or a report is a fold, and a fold is a function that is defined by itself: nothing can be said of its value before it is known that there is such a
function. So each fold is given one in advance, the cardinality of a set: `x` counts as often as its summand says, in the set of pairs
`<<x, i>>` with `i` up to that summand (`Units`). That cardinality satisfies the recursion (`Units...`), and two functions which satisfy it are the same (`SameFold`), by an induction over finite subsets that is stated with the set of the good ones
instead of a predicate (`SetInduction`), and rests on a smallest counterexample. Hence `SumIsCount`: a sum is a cardinality, and what is known of cardinalities,
of disjoint unions and of parts (`UnitsSum`, `PartsSum`), holds of sums.

`UniqueSlugIsNew` is of finite sets as well. The loop of `generateUniqueSlug` ends, and with the first number
that is free, for every finite set of slugs: by the pigeonhole principle one of |slugs| + 1 numbers is free,
and the set of numbers below which all are taken is an initial segment.

**AccountsProofs.** As for trainings, the invariant is about copies (`CopiesStayComplete`): stored users and every user document a call under way
is going to write have the fields of a professor if they are, or ask to be, one, unless an update set that role or emptied those fields; each of them was
once created. The lemmas `SendStep`, `AnswerStep` and `StoreStep` treat the actions that send, that go on and
that store in one place each. From it follow `AccountsTypeCorrect` and
`ProfessorsKeepTheirDocument`.

`AnswersAreKept` is the invariant of what clients were told. A replace under way writes in the fields it was asked to set what it was asked, and in the others
what the last answered request said, or that field is in `lost` (`AsToldInv`). For slugs, and for addresses and documents together
(`KeyInv`): two users whom nothing excuses do not clash, and a registration that has passed the check clashes with none of them and is the
only one that has, or else the two excuse each other. The addresses of those users are in lower case (`NormalInv`), which is what `findByEmail` looks for. From it follow
`UsersAreAsTold`, `DuplicatesAreExcused`, `SharedSlugsAreExcused` and, from all of its parts together, `UsersSignIn`.

**PostsProofs.** `OneCopy` is not inductive: between the deletion
and the creation of a move a post is nowhere but in a call. The invariant `IInv` therefore also says of every call
under way that an `insert` is there once, alone has its id, and that neither `posts` nor `removed` has it
(`Carries`); and that what a call will write is a post that was created, with no more likes than were given so far and no
fewer lost than were taken back, below zero only if it is in `unchecked` (`Fit`). From `IInv` follow
`PostsTypeCorrect`, `PostsStoredOnce`, `RemovedPostsStayAway` and `LikesNeverInvented`.

Everything else is about what calls have read. `SeenInv` says how what a call is about to write differs from what it read, by handler (`Shape`), and that
unless calls on its post overlapped, what it read is what is stored (`Fresh`). On it rest four invariants:

- `NamedInv`: the posts there are, `Now`, are the stored ones and those between the two halves of a move; the home page names those, unless the slot is
  excused (`HomePageNamesPosts`).
- `PageInv`: the cached page, and a page that is being read, show what slots and posts say (`CachedPageIsRight`).
- `SlugInv`: the posts there are, with the slugs that updateSlugs has still to write, have different slugs, at most one call gives a new one, and
  it is no post's (`SlugsAreApart`).
- Likes, index and audio are as callers were told, in a state in which a call may still be about to make them so (`PostsAreAsTold`).

**CommunityProofs.** `IInv` has a part for each service and one for the calls. For comments it says that a comment
to be inserted has an id nobody else has, that what a like or removal has read is still stored, at the same place
in the thread, and that the parent of a reply is stored already when the reply is sent (`CommentInv`). For messages, `MessagesHaveConversation` itself
is inductive. For files it says that a file is uploaded by one call
only, and that a removal under way was asked for (`FileInv`). A step of one service leaves the parts of
the others as they are, since the calls of a kind are the same before and after; a crash empties the bag. From it
follow `CommunityTypes`, `RepliesHang`, `MessagesBelong` and `FilesListed`.

`WritesBringWhatWasTold` adds that the calls under way bring what clients were told already. A replace of a comment that no other write to it
overlaps has the likes its readers were told of, and its deletion if that was confirmed (`ShownInv`). A conversation that is not `crossed` is stored or about to be; if a message has touched it,
then either it has that time or a write with it is under way; it is deleted exactly if its removal was confirmed (`TalkInv`). When
nothing is under way any more, this is `CommentsShownAsTold` and `ConversationsToldAreThere`.

Visits are counted with `VisitInv`. A visit waits until it claims a number, by an upsert it sends or by creating the counter; the numbers that are claimed, stored or
under way, one set for each counter, and the visits that wait make together at most the visits. That counts how often a call is in the bag, and counters by a sum
over a set that changes with every step. As long as nothing overlapped, one call or one counter accounts for all visits (`Exact`). From it
follows `VisitsAreCounted`.

For the catalogues, `CatalogueInv` says of stored documents what `ListedAsTold` says of lists, also of those marked as
deleted (`EntriesAsTold`), and of each request under way that it writes what it has read but for the fields it sets (`Faithful`). A `ReplaceEntry` then either sets a field,
or stores what was there when it read, which is what is there now or else is entered in `lost`. `ListsTellTheTruth` follows.

**MigrationProofs.** Jobs are long: a fact has to be carried from call to call through the walk over the spreadsheet, and every call can fail into the
next row. Each invariant below therefore has a lemma for the end of a line and one for the failures, and then one for each action.

- `NobodyTwice`: imports replace whole trainings from memory, so two of them overwrite each other's
  participants; but what each holds is `Tidy`, and so is what each stores.
- `MigrationTypes`: the types need more than types. A call is at a row of the sheet it reads, the marks it has
  collected are as long as the sheet they go to, an answer fits the operation (`CallFits`). `MigrationTypeOK` itself is part of the invariant.
- `AloneInv`: while `met` does not have the pair of a kind of job with itself, at most one call of that kind is under way. The three
  invariants that excuse jobs which run together rest on it.
- `OneMail`, by `MailedInv`: what a job has read of the file of processed users is what is in it, until its own write; who was mailed is in it, or halfway, or
  in the hands of the one job.
- `MailedPasswordsWork`, by `KeptInv` (an id keeps its document and its role and is never given again) and `PasswordInv`: a job that has set a password,
  or read the user since, holds the password that is stored. The proof showed that users under way need no excuse, and the property has lost it.
- `CatalogueHasNoTwins`, by `CatInv`: what an import has looked for and not found is still not there, at each of the calls between the search and the creation.
  Its hypothesis `StartsApart` says that no two of the users and schools in the database before the first job have one document (but none) or one
  name; the imports remove no doubles, so nothing weaker would do. The instance of the run satisfies it.
- `MarksSayWhatWasDone`, by `MailMarksInv` and `EnrolledInv`: every mark that a job holds or has written is justified. For imports this relates the training
  in memory to the stored one: they have the same participants but for those of rows that failed and the one being written (`Holds`), and
  stored trainings only grow, since professors stay (`Grows`).

**ReportsProofs.** The reports run beside the jobs, and the proofs continue those of `MigrationProofs`.

- `ReportsAlwaysAgree`: for each report there is a set that its fold counts. That of professors by school, which goes through the
  participants of all trainings and leaves out whom it has met, is a `Tally` of those present, whatever the order; the figures by type of employment and in
  total are cardinalities of parts of the same set, and so are those of one training, to which the participants without a user belong as well. It rests on `StockInv`: containers stay finite, and the
  semester, competency and school that a training refers to, stored or in the hands of an import, are stored, be the competency marked as deleted, or the school was removed.
- `ReferencesAreStored`: `SchoolInv` says the same of users who have a school, and of the copies of users that the mails hold and write back later. The hypothesis is that the
  users there are before the first job have no school or one that is stored; the code checks only that a professor has one when he is created (`users.repository.ts:104`).
- `ReportsDoNotFail`, with the same hypothesis: a report reads trainings, users and schools in any order. While no import is under way beside it (`ApartInv`) and no school has been
  removed, the schools are the same whenever they are read, and whoever is read before or after belongs to one of them, or to none, and then he is the reason (`ReportInv`).

The invariants of all three were checked by TLC on the instance of `migration` before they were proved.

Only model-checked is `HomePageSettles`, for it is a liveness property.

## 5. Not modelled

- **Everywhere:** a write that was applied although its answer was lost. A call that fails (`Fail`, `FailComment`, `FailMail`, ...) has had no effect on
  what is stored. (When the process ends, `Restart`, `Crash` and `Interrupt`, a call may have been applied or not, since the end may come before or after its arrival.)
- **In trainings:** the `userId` and `participantId` request fields (requests that have them
  are refused in every configuration the guards allow); the order of arrays; a client
  that invents or repeats execution ids; a role repeated in one list; fields that are only copied; reads. The run has one execution, so at most one is new in a request.
- **In posts:** who may call what; the cache of tags; different titles with one slug;
  fields only copied; a database error on one of the
  replaces of `updateSlugs`.
- **In accounts:** who may call what; mail; fields of requests that are null, or empty, other than the document; fields only copied; several server
  instances (the codes in memory are then not shared); deletion of users, which only
  the migration does.
- **In comments, conversations, visits, files:** the body of a comment, message or file; who may
  remove what; posts that are removed while they have comments (nothing looks for them).
- **In the migration:** the container of migration events and `passwords-backup.json`, which nothing
  reads; the slug of a new user, which `Posts` and `Accounts` model; an edit of the spreadsheet other than a
  pause; sheets whose rows are fewer than those their marks come from (`RowsFit`); the trainings' own
  requests beside a job, of which a second import is the model; those of accounts too, so the only users without a document or a school
  are there from the start, and in the run no participant's user is deleted (an import deletes none but those who are no professors, and enrols only professors): the
  theorems cover such participants, the run does not.
- **In the reports:** the report by years (`getParticipation` for a year in place of a semester); the names and addresses listed with the figures.
  `getAsistanceBySchool` reads its participants one by one, here in one step.
- **In the catalogues:** the cached list of tags, whose race is that of the cached home page; a client that picks the id of
  what it creates; the case and spaces of names outside semesters (a school or competency is stored as it is written).
- **Not at all:** the other mails, OpenAI, templates, wiring (no state in
  the process); the cache, the database, Google Sheets and the file system themselves, which are taken to do what the code relies on.

## 6. Plan

Done: all modules of section 2 and the proofs of section 4.

Worth adding, in this order:

1. An abstract specification of what a mailing promises (each person once, in any order, some never), which `Migration`
   implements while `sendMails` runs alone; its proof would rest on `MailedInv`.
2. Action properties of the catalogues and the accounts: what an answered request may never take back.
3. The list queries of posts and trainings with their paging, as operators; the report by years.
