---------------------------- MODULE DocPipeline ----------------------------
(***************************************************************************)
(* The ingestion of one user's uploads: the upload_doc route, Celery task 1 *)
(* (save the file, insert the documents row, start task 2) and Celery      *)
(* task 2 (parse, chunk, embed, mark READY).  Every query of this code     *)
(* filters on user_id, so one user is all of it.                           *)
(*                                                                         *)
(* A request stands for one call of upload_doc; its request_id is the key  *)
(* of the documents row, of the stored file and of both tasks.             *)
(***************************************************************************)
EXTENDS Naturals, FiniteSets

CONSTANTS
    Requests,        \* upload requests
    Contents,        \* distinct file contents (values of file_hash)
    NoContent,       \* request not yet made, or refused before hashing
    MaxRetries,      \* max_retries of both tasks (3 in the code)
    ChunkerPresent,  \* FALSE: ai_services.py:407 is commented out (this commit)
    StageFaults,     \* the file system, Docling, the chunker, Chroma may raise
    DbFaults,        \* Postgres may raise in a worker
    BrokerFaults,    \* Redis may raise in .delay or self.retry
    Crashes          \* a worker process may die

ASSUME PipelineAssumption ==
    /\ NoContent \notin Contents
    /\ MaxRetries \in Nat
    /\ {ChunkerPresent, StageFaults, DbFaults, BrokerFaults, Crashes}
            \subseteq BOOLEAN

VARIABLES
    answer,   \* [Requests -> what upload_doc answered]
    content,  \* [Requests -> content hashed by the validation service]
    doc,      \* [Requests -> Document.status of the row, "NONE" without one]
    files,    \* requests whose stored file is on disk
    t1, t2,   \* [Requests -> state of the request's task 1 / task 2]
    sent,     \* [Requests -> task 2 messages published for the request]
    chunks,   \* [Requests -> times its chunk set was written to Chroma]
    bm25,     \* BM25Resource.status of the user's row, "NONE" without one
    seen      \* [Requests -> bm25 as embeding_stage read it, until its commit]

taskVars == <<t1, t2, sent>>
vars == <<answer, content, doc, files, taskVars, chunks, bm25, seen>>

Answers == {"none", "accepted", "INVALID", "DUPLICATE_FILE",
            "FILE_VALIDATION_FAILED", "ERROR"}
DocStatus == {"NONE", "UPLOADED", "PARSED", "CHUNKED", "READY", "FAILED"}
Bm25Status == {"NONE", "PENDING", "PROCESSING", "READY", "FAILED", "STALE"}

\* A task that is over failed for good after its last try ("failure"), or at
\* once with an exception that its retry list does not name ("raised"); it or
\* its message may be lost.
AtRest == {"none", "success", "failure", "raised", "lost"}
State1 == AtRest \cup {"queued", "written", "saved"}
State2 == AtRest \cup {"queued", "parsed", "chunked", "stored", "read"}
Task1 == [st: State1, tries: 0..MaxRetries]
Task2 == [st: State2, tries: 0..MaxRetries]

Fresh(st) == [st |-> st, tries |-> 0]

TypeOK ==
    /\ answer \in [Requests -> Answers]
    /\ content \in [Requests -> Contents \cup {NoContent}]
    /\ doc \in [Requests -> DocStatus]
    /\ files \in SUBSET Requests
    /\ t1 \in [Requests -> Task1]
    /\ t2 \in [Requests -> Task2]
    /\ sent \in [Requests -> Nat]
    /\ chunks \in [Requests -> Nat]
    /\ bm25 \in Bm25Status
    /\ seen \in [Requests -> Bm25Status]

Init ==
    /\ answer = [r \in Requests |-> "none"]
    /\ content = [r \in Requests |-> NoContent]
    /\ doc = [r \in Requests |-> "NONE"]
    /\ files = {}
    /\ t1 = [r \in Requests |-> Fresh("none")]
    /\ t2 = [r \in Requests |-> Fresh("none")]
    /\ sent = [r \in Requests |-> 0]
    /\ chunks = [r \in Requests |-> 0]
    /\ bm25 = "NONE"
    /\ seen = [r \in Requests |-> "NONE"]

-----------------------------------------------------------------------------
UncountedRetry(task) == {[task EXCEPT !.st = "queued"]}   \* mutant

(* Celery's retry: republish with one more try, or give up with FAILURE.   *)
(* Tasks are acknowledged when a worker takes them, so a message the       *)
(* broker refuses is gone.                                                 *)
RetryOutcomes(task) ==
    (IF task.tries < MaxRetries
        THEN {[st |-> "queued", tries |-> task.tries + 1]}
        ELSE {[task EXCEPT !.st = "failure"]})
    \cup (IF BrokerFaults THEN {[task EXCEPT !.st = "lost"]} ELSE {})

Retry1(r) == \E t \in RetryOutcomes(t1[r]) : t1' = [t1 EXCEPT ![r] = t]
Retry2(r) == \E t \in RetryOutcomes(t2[r]) : t2' = [t2 EXCEPT ![r] = t]
Goto1(r, st) == t1' = [t1 EXCEPT ![r].st = st]
Goto2(r, st) == t2' = [t2 EXCEPT ![r].st = st]

-----------------------------------------------------------------------------
(* upload_doc.  The duplicate check and the publication of task 1 are one  *)
(* action: the route does not yield between the query's answer and .delay. *)

RowsOf(c) == {q \in Requests : doc[q] # "NONE" /\ content[q] = c}

\* Steps 1-5: name, extension, MIME type, size, magic bytes.
UploadInvalid(r) ==
    /\ answer[r] = "none"
    /\ answer' = [answer EXCEPT ![r] = "INVALID"]
    /\ UNCHANGED <<content, doc, files, taskVars, chunks, bm25, seen>>

\* Step 6: scalar_one_or_none raises on two rows, and the service's handler
\* turns that into FILE_VALIDATION_FAILED.
UploadRefused(r, c) ==
    /\ answer[r] = "none"
    /\ RowsOf(c) # {}
    /\ answer' = [answer EXCEPT ![r] = IF Cardinality(RowsOf(c)) = 1
                                        THEN "DUPLICATE_FILE"
                                        ELSE "FILE_VALIDATION_FAILED"]
    /\ content' = [content EXCEPT ![r] = c]
    /\ UNCHANGED <<doc, files, taskVars, chunks, bm25, seen>>

\* Mutant: the hash is stored and not looked up.
UploadUnchecked(r, c) ==
    /\ answer[r] = "none"
    /\ content' = [content EXCEPT ![r] = c]
    /\ answer' = [answer EXCEPT ![r] = "accepted"]
    /\ Goto1(r, "queued")
    /\ UNCHANGED <<doc, files, t2, sent, chunks, bm25, seen>>

\* .delay may raise, with or without the message having reached the broker.
UploadAccepted(r, c) ==
    /\ answer[r] = "none"
    /\ RowsOf(c) = {}
    /\ content' = [content EXCEPT ![r] = c]
    /\ \/ /\ answer' = [answer EXCEPT ![r] = "accepted"]
          /\ Goto1(r, "queued")
       \/ /\ BrokerFaults
          /\ answer' = [answer EXCEPT ![r] = "ERROR"]
          /\ Goto1(r, "queued") \/ UNCHANGED t1
    /\ UNCHANGED <<doc, files, t2, sent, chunks, bm25, seen>>

-----------------------------------------------------------------------------
(* Task 1, save_validated_doc_task.                                        *)

\* Mutant: the file is left behind.
SaveFailsKeepingFile(r, disk) ==
    /\ files' = disk
    /\ Retry1(r)
    /\ UNCHANGED <<answer, content, doc, t2, sent, chunks, bm25, seen>>

\* Mutant: the row an earlier attempt committed goes too.
SaveFailsDeletingRow(r, disk) ==
    /\ files' = disk \ {r}
    /\ doc' = [doc EXCEPT ![r] = "NONE"]
    /\ Retry1(r)
    /\ UNCHANGED <<answer, content, t2, sent, chunks, bm25, seen>>

\* The except branch of the service, with disk the stored files it meets: roll
\* back, unlink the file, raise SavingValidatedFileException, which the task
\* retries.  The rollback of a begun transaction or the unlink may raise
\* instead; then the file stays and nothing retries.
SaveFails(r, disk) ==
    /\ \/ files' = disk \ {r} /\ Retry1(r)
       \/ /\ \/ DbFaults /\ t1[r].st # "queued"
             \/ StageFaults /\ r \in disk
          /\ files' = disk
          /\ Goto1(r, "raised")
    /\ UNCHANGED <<answer, content, doc, t2, sent, chunks, bm25, seen>>

T1Write(r) ==
    /\ t1[r].st = "queued"
    /\ files' = files \cup {r}
    /\ Goto1(r, "written")
    /\ UNCHANGED <<answer, content, doc, t2, sent, chunks, bm25, seen>>

\* open() raises, or the write does when the file is there.
T1WriteFails(r) ==
    /\ StageFaults
    /\ t1[r].st = "queued"
    /\ SaveFails(r, files) \/ SaveFails(r, files \cup {r})

\* Mutant: request_id is not unique, a second insert succeeds.
T1CommitAgain(r) ==
    /\ t1[r].st = "written"
    /\ doc' = [doc EXCEPT ![r] = "UPLOADED"]
    /\ Goto1(r, "saved")
    /\ UNCHANGED <<answer, content, files, t2, sent, chunks, bm25, seen>>

T1Commit(r) ==
    /\ t1[r].st = "written"
    /\ doc[r] = "NONE"
    /\ doc' = [doc EXCEPT ![r] = "UPLOADED"]
    /\ Goto1(r, "saved")
    /\ UNCHANGED <<answer, content, files, t2, sent, chunks, bm25, seen>>

\* IntegrityError: request_id and stored_filename are unique, and the row of
\* an earlier attempt is there; or the database fails.
T1CommitFails(r) ==
    /\ t1[r].st = "written"
    /\ doc[r] # "NONE" \/ DbFaults
    /\ SaveFails(r, files)

\* db.refresh raises after the row is committed.
T1RefreshFails(r) == DbFaults /\ t1[r].st = "saved" /\ SaveFails(r, files)

PublishTask2(r) ==
    /\ t2' = [t2 EXCEPT ![r] = Fresh("queued")]
    /\ sent' = [sent EXCEPT ![r] = @ + 1]

T1StartTask2(r) ==
    /\ t1[r].st = "saved"
    /\ PublishTask2(r)
    /\ Goto1(r, "success")
    /\ UNCHANGED <<answer, content, doc, files, chunks, bm25, seen>>

\* .delay raises, with or without the message having reached the broker;
\* TokenizationWorkerStarterException makes the whole task retry.
T1StartTask2Fails(r) ==
    /\ BrokerFaults
    /\ t1[r].st = "saved"
    /\ PublishTask2(r) \/ UNCHANGED <<t2, sent>>
    /\ Retry1(r)
    /\ UNCHANGED <<answer, content, doc, files, chunks, bm25, seen>>

-----------------------------------------------------------------------------
(* Task 2, parse_chunk_embed_saved_doc_task2_inishiator.                   *)

\* Mutant: the reason is logged and not committed.
StageFailsSilently(r) ==
    /\ Retry2(r)
    /\ UNCHANGED <<answer, content, doc, files, t1, sent, bm25, seen>>

\* failed_case: commit FAILED with the reason; the stage's exception retries.
StageFails(r) ==
    /\ doc' = [doc EXCEPT ![r] = "FAILED"]
    /\ Retry2(r)
    /\ UNCHANGED <<answer, content, files, t1, sent, bm25, seen>>

T2Parse(r) ==
    /\ t2[r].st = "queued"
    /\ r \in files
    /\ doc' = [doc EXCEPT ![r] = "PARSED"]
    /\ Goto2(r, "parsed")
    /\ UNCHANGED <<answer, content, files, t1, sent, chunks, bm25, seen>>

\* Mutant: the parser's exception does not use up a try.
T2ParseFailsForFree(r) ==
    /\ t2[r].st = "queued"
    /\ r \notin files \/ StageFaults
    /\ doc' = [doc EXCEPT ![r] = "FAILED"]
    /\ UNCHANGED <<answer, content, files, taskVars, chunks, bm25, seen>>

T2ParseFails(r) ==
    /\ t2[r].st = "queued"
    /\ r \notin files \/ StageFaults
    /\ StageFails(r)
    /\ UNCHANGED chunks

T2Chunk(r) ==
    /\ ChunkerPresent
    /\ t2[r].st = "parsed"
    /\ doc' = [doc EXCEPT ![r] = "CHUNKED"]
    /\ Goto2(r, "chunked")
    /\ UNCHANGED <<answer, content, files, t1, sent, chunks, bm25, seen>>

\* Without line 407 the name "chunks" is unbound: NameError on every call.
T2ChunkFails(r) ==
    /\ t2[r].st = "parsed"
    /\ ~ChunkerPresent \/ StageFaults
    /\ StageFails(r)
    /\ UNCHANGED chunks

\* Mutant: the call to Chroma is lost and the stage goes on.
T2EmbedNothing(r) ==
    /\ t2[r].st = "chunked"
    /\ Goto2(r, "stored")
    /\ UNCHANGED <<answer, content, doc, files, t1, sent, chunks, bm25, seen>>

\* Chroma.from_documents is given no ids: each call adds the chunks again.
T2EmbedStore(r) ==
    /\ t2[r].st = "chunked"
    /\ chunks' = [chunks EXCEPT ![r] = @ + 1]
    /\ Goto2(r, "stored")
    /\ UNCHANGED <<answer, content, doc, files, t1, sent, bm25, seen>>

\* It adds in batches, so it may raise with part of the chunks in the store.
T2EmbedFails(r) ==
    /\ StageFaults
    /\ t2[r].st = "chunked"
    /\ StageFails(r)
    /\ \/ chunks' = [chunks EXCEPT ![r] = @ + 1]
       \/ UNCHANGED chunks

T2ReadBm25(r) ==
    /\ t2[r].st = "stored"
    /\ seen' = [seen EXCEPT ![r] = bm25]
    /\ Goto2(r, "read")
    /\ UNCHANGED <<answer, content, doc, files, t1, sent, chunks, bm25>>

\* Mutant: the row is read and not written.
T2EmbedCommitAlone(r) ==
    /\ t2[r].st = "read"
    /\ doc' = [doc EXCEPT ![r] = "READY"]
    /\ Goto2(r, "success") \/ (DbFaults /\ Goto2(r, "raised"))
    /\ UNCHANGED <<answer, content, files, t1, sent, chunks, bm25, seen>>

\* READY and, when the row was read READY, STALE go out in one commit.  A
\* connection lost in the commit may leave it done and end the task.
T2EmbedCommit(r) ==
    /\ t2[r].st = "read"
    /\ doc' = [doc EXCEPT ![r] = "READY"]
    /\ bm25' = IF seen[r] = "READY" THEN "STALE" ELSE bm25
    /\ Goto2(r, "success") \/ (DbFaults /\ Goto2(r, "raised"))
    /\ seen' = [seen EXCEPT ![r] = "NONE"]
    /\ UNCHANGED <<answer, content, files, t1, sent, chunks>>

\* A query or commit raises: failed_case cannot commit either, and what it
\* raises is not in the task's retry list.  Only a refused first connection
\* (ConnectionError from db.get) is retried.
T2DbFails(r) ==
    /\ DbFaults
    /\ t2[r].st \notin AtRest
    /\ Goto2(r, "raised") \/ (t2[r].st = "queued" /\ Retry2(r))
    /\ UNCHANGED <<answer, content, doc, files, t1, sent, chunks, bm25, seen>>

-----------------------------------------------------------------------------
\* A worker dies with the task it had taken; no acks_late, so nothing returns
\* the message to the queue.
Crash(r) ==
    /\ Crashes
    /\ \/ t1[r].st \notin AtRest /\ Goto1(r, "lost") /\ UNCHANGED t2
       \/ t2[r].st \notin AtRest /\ Goto2(r, "lost") /\ UNCHANGED t1
    /\ UNCHANGED <<answer, content, doc, files, sent, chunks, bm25, seen>>

\* What the poll route and the BM25 builder may do to the user's row between
\* the steps of the pipeline; module IndexBuild has the code of it.
IndexerMoves ==
    /\ \E r \in Requests : doc[r] = "READY"
    /\ bm25' \in IF bm25 = "NONE" THEN {"PENDING"}
                                   ELSE {"PROCESSING", "READY", "FAILED"}
    /\ UNCHANGED <<answer, content, doc, files, taskVars, chunks, seen>>

Upload(r) ==
    \/ UploadInvalid(r)
    \/ \E c \in Contents : UploadRefused(r, c) \/ UploadAccepted(r, c)

Task1Step(r) ==
    \/ T1Write(r) \/ T1WriteFails(r)
    \/ T1Commit(r) \/ T1CommitFails(r) \/ T1RefreshFails(r)
    \/ T1StartTask2(r) \/ T1StartTask2Fails(r)

Task2Step(r) ==
    \/ T2Parse(r) \/ T2ParseFails(r)
    \/ T2Chunk(r) \/ T2ChunkFails(r)
    \/ T2EmbedStore(r) \/ T2EmbedFails(r)
    \/ T2ReadBm25(r) \/ T2EmbedCommit(r)
    \/ T2DbFails(r)

PipelineStep(r) == Upload(r) \/ Task1Step(r) \/ Task2Step(r) \/ Crash(r)

Next == (\E r \in Requests : PipelineStep(r)) \/ IndexerMoves

Spec == Init /\ [][Next]_vars

\* Celery workers keep taking messages and running what they took; nobody is
\* obliged to upload, and nothing is obliged to fail.
Fairness == \A r \in Requests : WF_vars(Task1Step(r)) /\ WF_vars(Task2Step(r))

FairSpec == Spec /\ Fairness

\* What the two refusals of a second upload take for granted: a request is let
\* through only when no task 1 of the user is under way.
OneAtATime ==
    \A r \in Requests : answer[r] = "none" /\ answer'[r] # "none" =>
        \A q \in Requests : t1[q].st \in AtRest

SerialSpec == Init /\ [][Next /\ OneAtATime]_vars

SerialFairSpec == SerialSpec /\ Fairness

-----------------------------------------------------------------------------
(* Safety                                                                  *)

\* A document offered as READY has its chunks in the vector store, however
\* many attempts, faults or crashes it took (embeding_stage's order).
ReadyIsSearchable == \A r \in Requests : doc[r] = "READY" => chunks[r] > 0

\* Retrying task 1 after its commit, the start of task 2 included, never
\* starts a second pipeline for the upload: the unique request_id stops it.
OneTask2PerUpload == \A r \in Requests : sent[r] <= 1

\* A stored file without a row is work in progress, or was left by a worker
\* that died or by the failure path of task 1 when that failed itself (raised):
\* no retry and no last try leaves one behind.
NoStrayFile ==
    \A r \in Requests :
        r \in files /\ doc[r] = "NONE" => t1[r].st \in {"written", "raised", "lost"}

\* Each set of chunks in the store was paid for by one attempt of task 2: a
\* document is indexed at most once more per retry.
ChunksPerAttempt ==
    \A r \in Requests :
        chunks[r] <= t2[r].tries + (IF sent[r] > 0 THEN 1 ELSE 0)

\* ai_services.py:290, "You have already uploaded this document.": the query
\* before it expects at most one row of a content.  Two uploads at once break
\* that (SerialSpec says what it needs): both look before either has a row.
OneRowPerContent == \A c \in Contents : Cardinality(RowsOf(c)) <= 1

\* A document that became READY is never taken back by a late retry.
ReadyIsFinal ==
    [][\A r \in Requests : doc[r] = "READY" => doc'[r] = "READY"]_vars

\* The BM25 row is marked STALE only in the commit that makes a document
\* READY: no one sees one without the other.
StaleComesWithReady ==
    [][bm25' = "STALE" /\ bm25 # "STALE" =>
        \E r \in Requests : doc[r] # "READY" /\ doc'[r] = "READY"]_vars

(* How much work the pipeline may still do for a request: the steps left   *)
(* in this attempt, and a whole attempt for each retry left.               *)

Work1(r) ==
    IF t1[r].st \in AtRest THEN 0
    ELSE 3 * (MaxRetries - t1[r].tries)
         + (CASE t1[r].st = "queued" -> 3 [] t1[r].st = "written" -> 2
              [] t1[r].st = "saved" -> 1)

Work2(r) ==
    IF t2[r].st \in AtRest THEN 0
    ELSE 5 * (MaxRetries - t2[r].tries)
         + (CASE t2[r].st = "queued" -> 5 [] t2[r].st = "parsed" -> 4
              [] t2[r].st = "chunked" -> 3 [] t2[r].st = "stored" -> 2
              [] t2[r].st = "read" -> 1)

\* The upload is answered; or task 1 has less to do; or it is as it was and
\* task 2 has less to do.
Spends(r) ==
    \/ answer[r] = "none" /\ answer'[r] # "none"
    \/ /\ UNCHANGED answer[r]
       /\ \/ Work1(r)' \in 0..(Work1(r) - 1)
          \/ UNCHANGED t1[r] /\ Work2(r)' \in 0..(Work2(r) - 1)

LeftAlone(r) ==
    UNCHANGED <<answer[r], content[r], doc[r], r \in files, t1[r], t2[r],
                sent[r], chunks[r], seen[r]>>

\* No step is free: whatever touches a request's row, file, tasks or chunks,
\* failures, retries and crashes included, uses up some of a finite budget.
WorkRunsDown == [][\A r \in Requests : LeftAlone(r) \/ Spends(r)]_vars

\* Seen by the rest of the system, the rows and the chunks in the store only
\* grow, and the row is there before the first chunk.
C == INSTANCE Corpus WITH
        Docs <- Requests,
        rows <- {r \in Requests : doc[r] # "NONE"},
        searchable <- {r \in Requests : chunks[r] > 0}
CorpusGrows == C!CorpusSpec

(* The inductive invariant behind them: what the rows, the file and the    *)
(* store of a request say about the state of its two tasks.                *)

BeforeStore == {"queued", "parsed", "chunked"}

RequestInv(r) ==
    /\ answer[r] = "none" => t1[r].st = "none"
    /\ sent[r] = 0 => /\ t2[r] = Fresh("none")
                      /\ chunks[r] = 0
                      /\ doc[r] \in {"NONE", "UPLOADED"}
    /\ doc[r] = "NONE" \/ t1[r].st = "saved" => sent[r] = 0
    /\ sent[r] <= 1
    /\ t2[r].st \notin AtRest => doc[r] # "READY"
    /\ t2[r].st \in BeforeStore => chunks[r] <= t2[r].tries
    /\ chunks[r] <= t2[r].tries + 1
    /\ t2[r].st \in {"stored", "read"} \/ doc[r] = "READY" => chunks[r] > 0
    /\ t1[r].st = "saved" => doc[r] # "NONE"
    /\ r \in files /\ doc[r] = "NONE" => t1[r].st \in {"written", "raised", "lost"}

\* What task 1 and task 2 of one upload know of each other through the row,
\* the file and the broker, at every step, whatever has failed so far.
PipelineInv == TypeOK /\ \A r \in Requests : RequestInv(r)

Rested(r) == t1[r].st \in AtRest /\ t2[r].st \in AtRest
Lost(r) == "lost" \in {t1[r].st, t2[r].st}

\* Where an upload rests that neither a crash nor the broker took.  Once task 2
\* was started, the row says READY or FAILED, however the attempts of both
\* tasks mixed.  Where it was not, task 1 itself has failed, and only its
\* Celery result says so: there is no row, or one that stays UPLOADED, whose
\* file the failure path may have taken away.  Postgres has to work for it:
\* without, task 2 may end before it could write FAILED.
OutcomeIsRecorded ==
    \A r \in Requests :
        t1[r].st # "none" /\ Rested(r) /\ ~Lost(r) =>
            IF sent[r] > 0
                THEN doc[r] \in {"READY", "FAILED"}
                ELSE /\ doc[r] \in {"NONE", "UPLOADED"}
                     /\ t1[r].st \in {"failure", "raised"}

(* Liveness                                                                *)

\* Whatever fails, an upload whose task 1 was published stops being worked on:
\* retries run out.
RetriesRunOut == \A r \in Requests : t1[r].st # "none" ~> Rested(r)

(* Claims of the repository the code does not keep                         *)

\* README.md:240: the pipeline of an accepted upload ends in Document = READY
\* (when nothing fails).
PipelineReachesReady ==
    \A r \in Requests : answer[r] = "accepted" ~> doc[r] = "READY"

\* schemas.py:216: the file of a document that is UPLOADED was saved to disk.
UploadedIsOnDisk == \A r \in Requests : doc[r] = "UPLOADED" => r \in files
=============================================================================
