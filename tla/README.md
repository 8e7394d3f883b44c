# Talk2Docs in TLA+

TLA+ models of the Talk2Docs backend (FastAPI, Celery on Redis, Postgres,
Chroma): the ingestion of uploads, the secondary indexes built from them, the
three-tier answer cache, the two AIs with their repairs and tools, the vector
stores a user gets, and sessions. TLC checks them on small instances; TLAPS
proves their safety properties for any number of uploads, polls, requests,
conversations, logins and retries.

Every query of the backend filters on `user_id` and every store is per user, so
each module describes **one user**; several uploads, polls, requests and tasks
of that user run at once.

## The system

| Component | State it keeps | Operations | Module |
|---|---|---|---|
| Upload route, validation (`take_doc_route.py`, `ai_services.py`) | none of its own | `upload_doc`: five refusals, duplicate check by hash, publish task 1 | `DocPipeline` |
| Task 1 (`ai_worker.py:109`) | stored file, `documents` row | write, insert, refresh, publish task 2; on failure roll back, unlink, retry, if these do not fail too | `DocPipeline` |
| Task 2 (`ai_worker.py:67`, `ai_services.py:399-514`) | `documents.status`, chunks in Chroma, `bm25_resources.status` | parse, chunk, embed, commit READY and STALE; on failure commit FAILED, retry | `DocPipeline` |
| Poll route and index starter (`doc_verification_utils.py`) | status columns of the three indexes | read document, read or insert and refresh the BM25 row, decide, commit PROCESSING, publish | `IndexBuild` |
| Summary/explanation task (`ai_worker.py:157`) | two Chroma collections, two status columns | read, build twice, write both statuses | `IndexBuild` |
| BM25 task (`ai_worker.py:324`) | pickles on disk, version, status | read READY documents, read the version, gather, write and rename two pickles, commit | `IndexBuild` |
| Three-tier cache (`cache_system.py`, `question_services.py`) | Redis keys (T1), Redis hashes (T2), Chroma collection (T3) | look up, backfill | `TriCache` |
| Question routes (`question_route.py`) | `conversation_data` rows, asyncio tasks | `/question`, `/convo` | `TriCache` |
| Cache push task (`ai_worker.py:603`) | T3 | tag with versions, add | `TriCache` |
| Vector-store initiators and creation tasks (`question_inishiators.py`, `ai_worker.py:512-591, 814-891`) | a resource row and a collection for each of two stores | insert, lock as PROCESSING, publish; make, mark READY or FAILED, retry | `VectorStores` |
| AnswerAI (`Talk2Doc.py`, `query_construction/`) | a background task for the `ai_responses` row | classify, retrieve by a strategy, rerank, generate, repair, store, push | `AnswerAI` |
| ConvoAI (`convo_ai.py`) | the same | intent, context, model and tools, store, push twice, repair | `ConvoAI` |
| Parsing and repair of model output (`retry_logic.py`, `raw_and_parsed_clean.py`) | none | parse, `safe_parse` | `ModelOutput` |
| Sessions (`auth_service.py`, `auth_route.py`, `Oauth2.py`) | a key per session and a set per user in Redis | login, verify, logout, logout everywhere, revoke, expiry | `Sessions` |
| BM25 lookup (`vector_db/chroma.py`) | bytes cached in Redis per version | look up version, fall back | its outcomes, in `AnswerAI` |
| Users | `users` rows | register, change password, read | not modelled: single-row operations |
| Summariser, explainer | none | one model call each | a nondeterministic outcome where it is used |
| Migrations, logging, limits, proxy, settings | | | not modelled: no state of their own |

Interaction: `upload_doc` publishes task 1, task 1 publishes task 2, task 2 ends
in `status = READY`. Nothing tells anybody: the client's poll notices READY and
starts the index builders, and task 2 of the *next* document marks the BM25 row
STALE so that a later poll rebuilds it. Questions read what retrieval finds and
which rows exist; the cache relates an answer to the latter. Both question routes
first run the two initiators, whose tasks make the stores that the cache's T3 and
the long-term memory live in; ConvoAI may call AnswerAI as one of its tools.

What is hard in it: steps of independent Celery workers and routes interleave
around unlocked reads; tasks are retried from the start, after any prefix of
their effects; messages are acknowledged early, so a crash loses the task;
statuses are committed before or after the effect they describe; the cache
serves entries tagged at another time than they were made; a model may reply
anything, and each of eight callers treats what it cannot parse in its own way;
Redis has the truth about a session in two places. `PROJECT.json` lists
each hazard at its line with the properties that watch it.

## Modules

| Module | What it is |
|---|---|
| `DocPipeline` | upload, task 1, task 2; `IndexerMoves` is the abstract indexer |
| `DocPipelineProofs` | its theorems |
| `IndexBuild` | the index starter and the two builders, composed with `DocPipeline` |
| `IndexBuildProofs` | that it implements `DocPipeline`, and its invariants |
| `OnePollProofs` | what holds of it when polls do not overlap |
| `BuildHistory`, `BuildHistoryProofs` | `IndexBuild` with a history of the races of builds with task 2 and with one another; theorems |
| `Corpus` | what the cache takes for granted about rows and chunks; `DocPipeline` implements it, `TriCache` takes its steps from it |
| `TriCache` | question routes and the three cache tiers |
| `TriCacheProofs` | its theorems |
| `ModelOutput` | what callers make of a model's reply, and the repair loop |
| `AnswerAI` | a call of AnswerAI; extends `ModelOutput` |
| `ConvoAI` | a conversation turn; extends `AnswerAI`, whose calls are one of its tools |
| `ConvoProofs` | theorems about both |
| `VectorStores`, `VectorStoresProofs` | the two stores, their rows and creation tasks; theorems |
| `Sessions`, `SessionsProofs` | logins, logouts and revocations in Redis; theorems |
| `MC*` | the TLC instances |

An operator marked *Mutant* in a comment is an altered copy of the definition
after it. No specification uses it: `PROJECT.json` pairs each with the property
that fails once it takes its definition's place.

### DocPipeline

`doc[r]` is `Document.status` of the row a request made (`NONE` without row),
`files` the stored files, `t1`/`t2` the state of the two tasks with Celery's retry
count, `chunks[r]` how often the chunk set went into Chroma, `bm25` the status of
the user's BM25 row and `seen[r]` that status as `embeding_stage` read it before
its commit. There is one action for each `await` that leaves an effect behind
and one for each way it fails:

- *Upload.* The route does not yield between the duplicate query's answer and
  `.delay`, so the check and the publication are one action. The publication may
  raise with or without the message having left. The refusals of steps 1 to 5
  are one.
- *Task 1.* `T1Write`, `T1Commit`, `T1StartTask2`, and the failures of each.
  All failures inside the service run `SaveFails`: roll back, unlink, and raise
  the exception the task retries. The rollback of a session that has been used
  (`DbFaults`) and the unlink of a file (`StageFaults`) may raise themselves; that
  exception nobody retries: the task ends (`raised`) and the file stays.
  A retry after a commit meets the unique `request_id`: `T1CommitFails`.
- *Task 2.* `T2Parse`, `T2Chunk`, `T2EmbedStore`, `T2ReadBm25`, `T2EmbedCommit`.
  A stage that raises commits FAILED and retries (`StageFails`); a database that
  raises in the handler too ends the task (`T2DbFails`).
- *Celery.* `RetryOutcomes` is `self.retry`: one more try, FAILURE when they are
  used up, or a message lost to the broker. `Crash` loses a task, since without
  `acks_late` nothing redelivers it.

`ChunkerPresent` is FALSE in the code as it stands: `ai_services.py:407` is
commented out and `chunking_stage` raises NameError on each call. With FALSE the
states after PARSED are unreachable, so `upload_never_ready` shows that and every
other run restores the line with TRUE. The theorems hold for both values.

### IndexBuild

A poll reads the document, then the BM25 row (or inserts it and reads it again,
`PollRefresh`), decides on what it read, commits PROCESSING, and publishes, an
action each. Task slots (`MultiTasks`, `Bm25Tasks`) hold the outstanding tasks. The
multi-index task remembers the two statuses it read and writes both back at the
end.

A BM25 task fixes its document set in one query (`BmList`) and its version in the
next (`BmRead`), with an await between them. Then, file by file, as in
`save_pickles_safely`: it opens the temporary file of the documents and writes it
(`BmOpen`, `BmWrite`), does the same for the retriever, and renames the two
(`BmMove`); `BmCommit` points the row to the version. `tmp` and `pickle` hold the files
under the temporary and the final names. A file knows who has it open (`by`),
whose documents went into it and whether it may be a mixture (`torn`). The names
depend on the version only, so a builder that opens a file another one writes
tears it; a rename takes along the writers, as POSIX does, and a builder whose
file was renamed by another breaks off (`BmBreaks`). Opening a file nobody has open
starts it anew. An error or a crash in the middle leaves what was open torn
(`Broken`).

The branches of the BM25 task for an empty corpus are left out, as are those
of the multi-index task for a document without chunks: `BuildersNeedReadyDocs` and
`ReadyIsSearchable` show that no started task reaches them.

`BuildHistory` adds three variables that constrain nothing: `raced`, the documents
task 2 was about to commit while a builder had collected its documents and not
committed yet; `shared`, the versions two builders worked on at once; `gaveUp`, whose
task ran out of retries, which leaves PROCESSING behind.

`IndexBuild` has the variables of `DocPipeline` among its own and instantiates it.
`PipelineRefined` says that each step of the composition is a step of the
pipeline or its `IndexerMoves`: the pipeline's properties carry over.

### TriCache

A request is one client's call with its awaits: T1 lookup, cache policy, versions,
T2, T3, generation, tagging. `bg` holds what will write a tier later: asyncio tasks
for T1 and T2 and the Celery push for T3, each of which may run late, be lost, or
(T3) run twice. An answer carries its `basis`, the documents retrieval could see
when it was made; the code does not store this, the properties compare it with
the `source_versions` it does store. No code changes `Document.version` or deletes a
row, so a version map is a set of documents, identified by file name. T1 keys,
T2 keys, the merge of hash fields by HSET and the fields each search filters on
are as in the code. The similarity gates are two relations between question
texts: `Near`, T2's cosine distance of 0.20 at most, and `Relevant`, a score of 0.85
or more by T3's reranker. Neither is transitive, nor are they assumed to agree.
`NewRow` and `NewChunks`, the pipeline seen from here, are the steps of `Corpus`,
and `CorpusGrows` says that the pipeline takes no others.

### ModelOutput, AnswerAI, ConvoAI

A reply of a model is `valid`, `garbled`, `blank`, or the call raises (`quota`,
`error`). Every caller has a row in `ModelOutput` that says which of use, repair,
failure response and exception follows; the rows differ, and are read off the
handlers: the step-back strategy parses under the handler of the call and never
reaches its repair, HyDE parses nothing, some callers ask `check_provider_quota`
about a parse error whose text quotes the reply. `SafeParse` is one attempt of
`safe_parse`.

`call[a]` is a call of `Answer_ai`. The retriever and the classifier run beside each
other (`BuildRetriever`, `Classify`, `RepairClass`, then `Join`); the strategy
finds documents, or returns a failure and the call goes on with plain retrieval
(`fallback`), or raises, and the call with it. The failure returns of five
techniques and of the runner itself name enum members that do not exist, so they
raise (`Strategy`, `MultiIndex`, `Search`): of a search that fails or finds nothing
only HyDE's comes back as a failure, and `MULTI_INDEXING` with a retriever of
vectors alone, which a tool always has, never reaches an answer. `Generate` does
all that happens without an await once the answer validates: it creates the task
that writes the row (`pending`) and publishes to the cache worker. `RepairAnswer`
raises where the code calls the function the failed parse never got to define.
`tool` separates calls of the `/question` route from those a conversation makes.

`turn[t]` is a call of `continue_convo`: intent, the latest rows as context, then
the model, whose reply is an answer (`FinalReply`) or a list of tool calls
(`ToolReply`), three rounds at most. The tool calls are run in order; a call of
`tool_answer_ai` starts a call of `AnswerAI` and waits for it. `Remember` stores and
publishes; a broker error there sends the turn to repair, which may store the
answer a second time and then raise, as in the code. Four of the five tools only
read and are one name, `search`.

### VectorStores

A request runs the initiator of the cache store, then that of the long-term
memory: `SelectRow`, `InsertRow`, `RefreshRow`, `Lock`, `Publish`, one action for
each await, with the decision on the status that was read at the latest of them.
A creation task makes its collection and reads the row (`MakeStore`), commits READY
and the path (`MarkReady`), or reads the row again and commits FAILED
(`MarkFailed`), and is retried. SQLAlchemy writes the columns that changed since
the row was loaded, so a task that loaded READY and writes READY leaves a status
that changed meanwhile: `seen` and `Written` keep that. Resource rows are never
deleted, so the branch for a missing row is left out. What the push tasks write
*into* the stores is in `TriCache` (T3) and, as a count, in `ConvoAI`.

### Sessions

Every Redis command of a login, logout, logout-all or revocation is an action;
keys expire at any time, the set does not. `raced` remembers the logins whose SADD
came while some request was between the read it decided on and its DEL of the
set. A command that fails is taken not to have run. The counts of active
sessions read only.

## Properties

Each module has a type invariant `TypeOK`, proved for every value of the constants
(`*TypeCorrect`); TLC checks it for the pipeline, as a part of `PipelineInv`.

Pipeline (checked and, but for the last, proved):

- `PipelineInv`, the inductive invariant, and its consequences
  `ReadyIsSearchable`, `OneTask2PerUpload`, `NoStrayFile`, `ChunksPerAttempt`.
- `ReadyIsFinal`, about steps; `StaleComesWithReady`, another, is proved and has no run.
- `OutcomeIsRecorded`: where an upload rests that neither a crash nor the broker
  took, the row says READY or FAILED if task 2 was ever started; if not, task 1 has
  failed, the row is missing or UPLOADED, and that is all the client can see. It
  assumes that Postgres works: with database faults task 2 may end without having
  committed FAILED.
- `OneRowPerContent`, for uploads whose tasks 1 do not overlap (`SerialSpec`): the duplicate
  check does what it is for unless two uploads race.
- `CorpusGrows`: the pipeline implements `Corpus`.
- `WorkRunsDown`: each step of a task leaves its upload less to do.
- `RetriesRunOut`: an accepted upload comes to rest.

Indexes (checked; all but `BuildsEnd` proved):

- `OnlySharedBroken`: the row's version has both its files, and a file in place is
  complete and closed unless two builders worked on its version at once.
- `OnlyRacedMissing`: no file of a READY BM25 index lacks a READY document but those
  whose look at the row or commit fell into a build (a torn file aside);
  `HistoryInv` is the reason.
- `IndexedAreReady`: no file holds a document that is not READY, with overlapping
  polls and builders.
- `ProcessingIsWorking`, with overlapping polls and builders, but without faults and
  crashes: a refused publication does leave PROCESSING without a worker.
- `OneMultiTaskPerDocument` and `BuiltStaysBuilt` when polls do not overlap, since
  overlapping ones may start two tasks for a document.
- `ReadyIndexExists`, `BuildersNeedReadyDocs`; `PipelineRefined`.
- `BuildsRunDown`: polls and builders run down and the builders are started by a
  poll's last step only.
- `BuildsEnd`: each of the three statuses leaves PROCESSING, or its task ran out of
  retries; for polls that do not overlap (see `MarkedIsBuilt` below).

Cache (checked, but for `TwoGatesAtMost`, and proved):

- `ConvoStaysPrivate`: a conversation's answer is never served outside it, though
  both routes write the same T2 keys and, without a `convo_id`, the same T1 keys.
- `T2StaysInScope`: T3 has no scope and its hits are written to T2 under the scope
  of the asker; the comparison of version maps keeps T2 from serving them.
- `ProvenanceCovers`: stored versions name every document the answer used, because
  they are read after generation and a row precedes its chunks.
- `TwoGatesAtMost`: reuse does not drift. A hit of T2 goes to T1 and a hit of T3 to
  both, under the question just asked, so similarity could add up; but T3 keeps an
  answer under its own question, T2 is filled from T3 and T1 is exact. It takes three question texts to
  break it, for which the instances have no room; they check `CacheInv`.
- `CacheInv`, the inductive invariant the four follow from.

Answers and conversations (checked; all but the last proved):

- `AnswerKept`, `TurnKept`: what is answered was stored and published, what failed
  was not, what is cached is reusable and not a tool's, whichever parse, repair
  or publication decided the outcome.
- `ToolCallsAnswered`: the messages the model is asked with again answer each tool
  call that names a tool.
- `RowsAccounted`: rows, background tasks and what their writers saved add up, and
  every row is of its writer's conversation.
- `RequestsRunDown`: every step of a call or a turn leaves it less to do, whatever
  the models reply, and `RequestsEnd`: every call and turn ends.

Vector stores (checked; all but `ProcessingEnds` proved):

- `PathIsOnDisk`: a READY row has a path and a path a collection; the readers in
  `chroma.py` and the push tasks rely on it.
- `ProcessingIsWorked`: PROCESSING is never left behind but by a lost process or
  task; `ProcessingEnds` says that it comes to an end, `CreationRunsDown` that requests
  and creation tasks run down.
- `ReadyOutlivesItsMaker`: READY is only undone by another request's doing, such as
  the second of two racing requests that lock.

Sessions (checked and proved): `UnlistedIsRaced`, that a live session is in the
set, but for a login between its two writes or failed there, and for the one race
that `raced` names; `OutIsOut`, that what a successful logout or logout-all ended
stays ended.

## Runs

| Run | Instance | What it shows |
|---|---|---|
| `pipeline_safety` | 2 uploads of 1 content, 1 retry, all faults and crashes | the safety and action properties of the pipeline |
| `pipeline_retries` | 2 uploads of 1 content, one task 1 at a time, 3 retries, crashes, all faults but the database's, fair | retries run out, outcomes are recorded, one row per content |
| `index_polls` | `LateSpec`: 2 uploads, 2 pollers, 2 BM25 tasks, 1 multi-index task, 2 versions, no faults, symmetry | interleaved polls and builders, files shared and not; what a READY index may lack |
| `index_faults` | 1 upload, 1 poller, 2 multi-index tasks, 2 BM25 tasks, 1 version, 1 retry, all faults and crashes of polls and builders | late and failing builders run down; what they leave; refinement |
| `index_live` | 1 upload, 1 poller, 2 multi-index tasks, 1 BM25 task, 2 versions, 1 retry, failing stages, fair | builds end |
| `cache_scopes` | 2 documents, 1 question, scopes "all" and one document, 1 generated answer, 1 client | scope and provenance across tiers |
| `cache_convos` | 1 document, 1 question, 1 conversation id, 3 answers, 2 clients | separation of routes and conversations |
| `convo_turn` | 1 turn, 1 call of AnswerAI, 1 conversation, all techniques and replies, two shapes of tool calls, 3 rounds, 3 repair attempts, fair | answers, rows, tool messages; every request ends |
| `vector_stores` | 2 requests, 2 stores, 1 retry, all faults, fair | rows, collections and tasks; PROCESSING ends |
| `sessions` | 3 logins, 3 requests, expiry and failures, symmetry | set and keys agree, logouts take effect |
| `upload_never_ready` | violated | claim `PipelineReachesReady` (README.md:240) |
| `cache_stale_reuse` | violated | claim `T2HitIsCurrent` (README.md:835) |

Bounds. Two uploads of one content are what the duplicate check and the shared
BM25 row need; a third adds no relation between uploads, and the theorems cover
any number. One retry per task (three in `pipeline_retries`) lets an attempt follow
each prefix of an earlier one. `MaxVersion = 2` allows a rebuild, and two builders of
one version, or of two. `index_polls` starts where indexes begin to matter
(`LateInit` in `MCBuildHistory`, two kinds of reachable states): one upload is READY,
and either nobody has polled it, or two overlapping polls have had version 1 built
twice, the loser marked the row FAILED, and a second upload is about to look at it.
Only the first upload's client
polls there (`OnlyFirstPolled`), as any poll serves the BM25 row. The proofs start
from `Init` and have none of these bounds. `MaxAnswers`
bounds generation: one answer moves through all tiers in `cache_scopes`; three let
two routes and a conversation overwrite one another's hash in `cache_convos`.
`convo_turn` has the code's own limits of rounds and attempts; its one call is a
tool's in some behaviours and the route's in others. Two turns add only the
interleaving of their background commits, which the theorems cover. Two requests
are what the race of the initiators needs; with three sessions and requests a
logout-all meets a logout and a login at once.
Runs disable deadlock checking because the system may rest: all uploads are
made, all retries used up, all bounded versions built.

Fairness. Workers consume their queues and a started request is carried on (weak
fairness on the task steps, the poll steps and the builders); nobody must upload
or poll, and no fault must happen. It is what a running Celery worker and event
loop provide. In `convo_turn` a started call or turn is carried on, since the
clients of providers have time limits; the background commits need not run. In
`vector_stores` requests and creation tasks run. `index_live` has failing stages and
retries, but no crash, no refused publication and no failing database, each of
which leaves PROCESSING for good.

## Proofs

`DocPipelineProofs` proves, for all finite or infinite sets of requests and
contents, any `MaxRetries` and any combination of faults (from `PipelineAssumption`
alone):

- `TypeCorrect`, `PipelineCorrect`, and from these `ReadySearchable`, `SingleTask2`,
  `StrayFiles`, `ChunkSets`;
- `ReadyStays` and `StaleTogether`, action properties;
- `CorpusImplemented`, the refinement of `Corpus`, from `ReadySearchable`'s invariant and
  from the fact that neither a row nor its chunks are taken back;
- `OneRowWhenSerial`, for uploads whose tasks 1 do not overlap, with any number of
  retries and crashes: of the requests with one content at most one is past the check;
- `WorkEnds` (see *Finite work*);
- `OutcomesRecorded`, under `~DbFaults`.

The argument. None of the safety properties is inductive: that READY implies
chunks needs that a task in its last stage has stored them; that a task 2 is
never published twice needs that task 1 is past its insert only if no message was
sent yet; the bound on chunk sets needs to know in which stages the current
attempt has not stored anything. `RequestInv` states what row, file, store and
message counter say about the two task states of one request. As a step of one
request changes only that request's entries (`bm25` aside), the proof goes
request by request: a step of another request leaves `RequestInv(r)` alone, a step
of `r` is treated action by action.

`IndexBuildProofs` proves, for any number of documents, polls and tasks at once and
any combination of faults (from `IndexAssumption`):

- `PipelineImplemented`, the refinement of `DocPipeline`, whose own theorems
  therefore hold of the composition;
- `IndexTypeCorrect`, `VersionsOnDisk` (both files of the row's version have been
  renamed), `OnlyReadyIndexed`, `ReadyIndexesExist`,
  `BuildersHaveDocs`;
- `ProcessingWorks`, without crashes and faults.

The argument. `PP` is `DocPipelineProofs` for the pipeline inside this module, so
that its lemmas can be cited; the first lemmas identify it with the instance the
refinement is stated with. `IndexInv` says what each poll and task has read: a
poll that decided to build saw a READY document and a BM25 row, a task works on
a READY document, a BM25 task indexes READY documents and commits a version after
it has renamed both files; no step takes a file from its final name, only replaces
it (`FilesOf`, `BmRecords` and `TmpInv` say what each step does to the files). It is inductive only because READY is never taken back, and that is a fact about the
pipeline which needs the pipeline's invariant; `Joint` is the conjunction of the
two. A step of a builder then is an `IndexerMoves` or a stutter: where it changes
`bm25`, the row exists.

`BuildHistoryProofs` proves `OnlySharedVersionsBreak`, `HistoryCorrect` and
`MissedOnlyInARace` for any number of documents, polls and builders and any faults.

For the first, `CleanInv` says that whoever has a file open is at the step that
writes it; that a version two builders are at work on is in `shared`; and of a
version that is not, that no file in place is torn or open, and that a file its
builder has opened is absent (renamed) or whole and open to nobody else. A file that
a failed or crashed builder left torn under a temporary name is opened anew before
it can be renamed. Each kind of step on the files has its lemma (`QuietKeepsFiles` to
`MoveKeepsFiles`), which a second builder of the same version would break.

A document can be missing from a
READY index in two ways: the builder collected before it was READY, or its task 2
read a row that was not READY and so did not write STALE. In the first case the
builder was at work when the document was committed; in the second, the row can
have become READY after the look only by a builder that had collected before.
`HistoryInv` says this of builders that have collected, of the files they have opened
and renamed (which another builder may have torn, or may have overwritten with
documents of its own, all due), and of tasks between look and commit.

`OnePollProofs` proves `OneTaskPerDocument` and `BuiltStays` under `OnePoll`, that the
client waits for an answer before it polls again. Then no other request comes between
what a poll reads and its commit of PROCESSING, so that commit works as a lock:
who builds a document has claimed it (`AloneInv`). Without the assumption two polls
may both claim, and neither theorem holds.

`TriCacheProofs` proves, for all sets of documents, questions, scopes, conversations
and clients, any relations of similarity that let a text be near itself, and any
bound on generated answers (from `CacheAssumption`):

- `CacheTypeCorrect` and `CacheCorrect`;
- from these `ConversationsApart`, `ScopedReuse`, `ProvenanceComplete` and `NoDrift`.

The argument. The safety properties speak of what a tier serves; that depends on
what was written there, which depends on background writes made from requests long
gone. `CacheInv` states what must be true of an answer at each of these places: a
one-shot answer has no conversation and was made from documents its versions
name (`OneShot`), an entry of T1 repeats only the conversation in its key, a T2
hash is a one-shot answer that its versions cover or an answer of the conversation
it names. Two facts keep it inductive: rows are only added and precede chunks, so
versions read after generation cover what generation saw; and the type of a hash
is always overwritten together with the field that type is checked by, so the
fields HSET leaves from the other route do no harm (`MergeFits`).

`ConvoProofs` proves, for any sets of calls, turns and conversations, any tool
replies and any limits of rounds and context (from `AnswerAssumption` and
`ConvoAIAssumption`): `ConvoTypeCorrect`, `AnswersAreKept`, `TurnsAreKept`,
`ToolCallsAreAnswered`, `RowsAreAccounted`. The invariant relates the place of a turn
to what it has saved, published and answered so far: no row before the repair but
one, messages for exactly the tool calls before the one at hand. Calls and turns
touch one another only when a tool starts a call, so each step is shown to move
one well-formed record to another. `RowsAccounted` needs cardinalities: a commit
adds one row at a number no row has, and takes one from the tasks.

`VectorStoresProofs` proves, for any number of requests and retries (from
`StoresAssumption`): `StoresTypeCorrect`, `StorePathsAreOnDisk`,
`StoreProcessingIsWorked`, and `StoreReadyOutlives`, an action property. PROCESSING is
owed by whoever locked last and by the tasks still to write; that a task's own
write pays its debt although its session may leave the status column out needs
what the task has `seen`.

`SessionsProofs` proves, for any sets of logins and requests: `SessionsTypeCorrect`,
`SessionsAreListed`, `LogoutsTakeEffect`. While a request is about to drop the set,
every member that still has a key was added behind its back, which is what
`raced` collects; while it deletes, such a member may also be one it has left.

*Finite work.* That something ends has two halves: nothing goes on for ever, and
nothing gets stuck. The first is a safety property and is proved for each
component whose liveness is checked: a measure in the naturals (`Work1`, `Work2`;
`PollLeft`, `MiLeft`, `BmLeft`; `StepsLeft`, `TriesLeft`; `CallLeft`, `RoundsLeft`,
`ToolsLeft`), with a whole attempt for each retry, round or repair still allowed, and
a theorem that each step of the component decreases it, lexicographically where
there are two. `WorkEnds`, `BuildsTakeFiniteWork`, `RequestsTakeFiniteWork` and
`CreationEnds` state this for every value of the constants. They need the type
invariants alone, since the counters of retries and rounds are in the types.

Only model-checked is the second half, that a measure above its minimum has a
step that is taken: `RetriesRunOut`, `BuildsEnd`, `RequestsEnd` and `ProcessingEnds`.
It takes ENABLED and fairness, which are beyond the prover.

## What the checks say about the code

Two runs keep a claim of the repository that the code violates. Others were found
the same way and are kept as findings without a run; their claims stay as
definitions, and TLC refutes each when it takes the place of the properties of
the configuration named, as an INVARIANT:

| Claim | Configuration | What breaks it |
|---|---|---|
| `OneRowPerContent` (tables.py:60) | `pipeline_safety` | two uploads validated before either row is committed |
| `UploadedIsOnDisk` (schemas.py:216) | `pipeline_retries` | a retry of task 1 after its commit unlinks the file |
| `PollBeforeSaveAnswered` (worker_utils.py:105) | `index_faults` | a poll before task 1 has committed |
| `ReadyIsCurrent` (schemas.py:293) | `index_polls` | a slow BM25 builder overwrites STALE |
| `PublishedIsComplete` (ai_worker.py:441) | `index_polls` | two builders of one version share the temporary files |
| `MarkedIsBuilt` (doc_verification_utils.py:119) | `index_live` with `HSpec` and two pollers | a task writes PROCESSING back over another's READY |
| `RecoveredIsUsed` (README.md:1437) | `convo_turn` | a repaired answer meets an unbound function |
| `ConvoHasId` (question_route.py:268) | `cache_convos` | a first `/convo` without `convo_id` |

`PROJECT.json` also lists as findings the enum members that do not exist, because
of which most failures of retrieval raise; `app.state.redis_binary`, which `main.py`
never sets, so that **at this commit no call of the two chat routes gets past its
dependencies** (`core/redis.py:9`) and `TriCache`, `AnswerAI`, `ConvoAI` and
`VectorStores` say what the routes do where it is set, as in `code2.py:80`; the lock of the vector stores that locks
nobody out, the login whose `finally` fails for an unknown e-mail, and the session
set that may miss a live session. Under *hazards* are behaviours visible in the
models though no line promises otherwise: overlapping polls start two builders;
PROCESSING outlives a broker failure, a crash or the last retry; T1 is served for a day without any check; T3
ignores the scope of the question; a turn may be stored twice; the context of a
turn may miss the answer before it.

## Not modelled, and what is left

- The byte cache of BM25 pickles in Redis and the fallback loop around it
  (`chroma.py:160-260`): only the outcomes of the lookup are modelled.
- The ranks reciprocal rank fusion computes: no property of the system looks at
  an order of documents.
- What the long-term memory holds; prompts, wording, limits, logging, migrations,
  user accounts.
- No property covers that T1 serves an exact match for a day, and that a turn may
  read its context before the last answer's row is there: the code promises
  nothing else.
- What the properties leave open is noted with the hazards in `PROJECT.json`:
  `OneRowPerContent` excludes overlapping uploads, `ProcessingIsWorking` faults and
  crashes, `OneMultiTaskPerDocument`, `BuiltStaysBuilt` and `BuildsEnd` overlapping polls;
  duplicates from a retried cache push and the drift of reused answers are proved
  harmless and occur in no run.
- Celery redelivers nothing here (early acknowledgement), so a task runs again by its
  own retry only.
- Not proved: that what has work left takes a step, which stays with TLC.
