----------------------------- MODULE IndexBuild -----------------------------
(***************************************************************************)
(* The secondary indexes of one user's documents, composed with the        *)
(* pipeline that uploads them: the poll route, which starts the builders   *)
(* when a document is READY, the summary/explanation task of a document    *)
(* and the BM25 task of the whole corpus.  The pipeline is module          *)
(* DocPipeline with its variables; its IndexerMoves is what this module    *)
(* does to the BM25 row.                                                   *)
(***************************************************************************)
EXTENDS Naturals, FiniteSets

CONSTANTS Requests, Contents, NoContent, MaxRetries, ChunkerPresent,
          StageFaults, DbFaults, BrokerFaults, Crashes

CONSTANTS
    PipelineFaults, \* FALSE: the pipeline itself has none of the faults
    Pollers,      \* polls that may be in progress at the same time
    MultiTasks,   \* bound: multi-index tasks outstanding at the same time
    Bm25Tasks,    \* bound: BM25 tasks outstanding at the same time
    MaxVersion    \* bound: BM25 versions ever built

VARIABLES answer, content, doc, files, t1, t2, sent, chunks, bm25, seen

P == INSTANCE DocPipeline WITH
        StageFaults <- PipelineFaults /\ StageFaults,
        DbFaults <- PipelineFaults /\ DbFaults,
        BrokerFaults <- PipelineFaults /\ BrokerFaults,
        Crashes <- PipelineFaults /\ Crashes

ASSUME IndexAssumption ==
    /\ P!PipelineAssumption
    /\ PipelineFaults \in BOOLEAN
    /\ MaxVersion \in Nat

VARIABLES
    summary,      \* [Requests -> Document.summary_vdb_status]
    explanation,  \* [Requests -> Document.explanation_vdb_status]
    built,        \* <<document, "s" or "e">>: indexes written to Chroma
    version,      \* BM25Resource.version (and the version of index_path)
    tmp,          \* [Names -> files of BM25 versions under the .tmp names]
    pickle,       \* [Names -> files of BM25 versions under the final names]
    poll,         \* [Pollers -> progress of a poll]
    mi,           \* [MultiTasks -> multi_index_db_creation_task]
    bm            \* [Bm25Tasks -> global_bm25_build_task]

pipeVars == <<answer, content, doc, files, t1, t2, sent, chunks, bm25, seen>>
rowVars == <<summary, explanation>>
bmVars == <<version, tmp, pickle, bm>>
indexVars == <<rowVars, built, bmVars, poll, mi>>
vars == <<pipeVars, indexVars>>

MultiStatus == {"PENDING", "PROCESSING", "READY", "FAILED"}
Todo == {"PENDING", "FAILED"}
Bm25Todo == {"PENDING", "FAILED", "STALE"}

\* Between two calls a poller or a task slot holds nothing.
NoPoll == [st |-> "idle"]
Raised == [st |-> "raised"]      \* the last poll ended in an error
NoTask == [st |-> "none"]

\* A version has a file of its documents and one of the prebuilt retriever.
Kinds == {"docs", "retriever"}
Names == Kinds \X (1..MaxVersion)

\* A file: the builders that have it open for writing, the documents they and
\* those before them put into it, and whether its bytes are those of one
\* builder ("whole" once nobody writes) or may be a broken mixture ("torn").
NoFile == [st |-> "absent", docs |-> {}, by |-> {}]
FileState == [st: {"absent", "whole", "torn"}, docs: SUBSET Requests,
              by: SUBSET Bm25Tasks]

PollState ==
    {NoPoll, Raised}
    \cup [st: {"bm25", "insert", "refresh"}, r: Requests, s: MultiStatus, e: MultiStatus]
    \cup [st: {"decide"}, r: Requests, s: MultiStatus, e: MultiStatus,
          b: P!Bm25Status]
    \cup [st: {"fire"}, r: Requests, cs: BOOLEAN, ce: BOOLEAN, cb: BOOLEAN]
MiState ==
    {NoTask}
    \cup [st: {"queued"}, r: Requests, cs: BOOLEAN, ce: BOOLEAN,
          tries: 0..MaxRetries]
    \cup [st: {"read", "summed", "explained"}, r: Requests, cs: BOOLEAN,
          ce: BOOLEAN, tries: 0..MaxRetries, s: MultiStatus, e: MultiStatus]

\* From the second of its two queries on a builder works on a version.
Works == {"open", "write", "move", "published"}
BmState ==
    {NoTask}
    \cup [st: {"queued", "failing"}, tries: 0..MaxRetries]
    \cup [st: {"listed"}, tries: 0..MaxRetries, docs: SUBSET Requests]
    \cup [st: Works, k: Kinds, tries: 0..MaxRetries, docs: SUBSET Requests,
          v: 1..MaxVersion]

TypeOK ==
    /\ P!TypeOK
    /\ summary \in [Requests -> MultiStatus]
    /\ explanation \in [Requests -> MultiStatus]
    /\ built \subseteq Requests \X {"s", "e"}
    /\ version \in 0..MaxVersion
    /\ tmp \in [Names -> FileState]
    /\ pickle \in [Names -> FileState]
    /\ poll \in [Pollers -> PollState]
    /\ mi \in [MultiTasks -> MiState]
    /\ bm \in [Bm25Tasks -> BmState]

NothingRuns ==
    /\ version = 0
    /\ tmp = [n \in Names |-> NoFile]
    /\ pickle = [n \in Names |-> NoFile]
    /\ poll = [p \in Pollers |-> NoPoll]
    /\ mi = [m \in MultiTasks |-> NoTask]
    /\ bm = [b \in Bm25Tasks |-> NoTask]

Init ==
    /\ P!Init
    /\ summary = [r \in Requests |-> "PENDING"]
    /\ explanation = [r \in Requests |-> "PENDING"]
    /\ built = {}
    /\ NothingRuns

-----------------------------------------------------------------------------
(* The poll route: get_upload_worker_result and the inishiator it calls.   *)

Answers(p) == poll' = [poll EXCEPT ![p] = NoPoll]
Raises(p) == poll' = [poll EXCEPT ![p] = Raised]

\* Mutant: the builders are started whatever the status of the document.
PollDocumentAny(p, r) ==
    /\ poll[p] \in {NoPoll, Raised}
    /\ answer[r] = "accepted"
    /\ poll' = [poll EXCEPT ![p] = [st |-> "bm25", r |-> r, s |-> summary[r],
                                    e |-> explanation[r]]]
    /\ UNCHANGED <<pipeVars, rowVars, built, bmVars, mi>>

\* The client polls an accepted upload.  An unsaved document is an error of
\* the inishiator, which the route raises; one not READY is left alone.
PollDocument(p, r) ==
    /\ poll[p] \in {NoPoll, Raised}
    /\ answer[r] = "accepted"
    /\ \/ doc[r] = "NONE" /\ Raises(p)
       \/ doc[r] \notin {"NONE", "READY"} /\ Answers(p)
       \/ /\ doc[r] = "READY"
          /\ poll' = [poll EXCEPT ![p] = [st |-> "bm25", r |-> r,
                                s |-> summary[r], e |-> explanation[r]]]
    /\ UNCHANGED <<pipeVars, rowVars, built, bmVars, mi>>

PollBm25(p) ==
    /\ poll[p].st = "bm25"
    /\ poll' = [poll EXCEPT ![p] =
            IF bm25 = "NONE"
                THEN [poll[p] EXCEPT !.st = "insert"]
                ELSE [st |-> "decide", r |-> @.r, s |-> @.s, e |-> @.e, b |-> bm25]]
    /\ UNCHANGED <<pipeVars, rowVars, built, bmVars, mi>>

\* user_id is unique in bm25_resources: the second of two inserts raises.
PollInsert(p) ==
    /\ poll[p].st = "insert"
    /\ \/ /\ bm25 = "NONE"
          /\ bm25' = "PENDING"
          /\ poll' = [poll EXCEPT ![p].st = "refresh"]
       \/ /\ bm25 # "NONE"
          /\ Raises(p)
          /\ UNCHANGED bm25
    /\ UNCHANGED <<answer, content, doc, files, t1, t2, sent, chunks, seen,
                   rowVars, built, bmVars, mi>>

\* The row is read again; another poll may have claimed it by now.
PollRefresh(p) ==
    /\ poll[p].st = "refresh"
    /\ poll' = [poll EXCEPT ![p] = [st |-> "decide", r |-> @.r, s |-> @.s,
                                    e |-> @.e, b |-> bm25]]
    /\ UNCHANGED <<pipeVars, rowVars, built, bmVars, mi>>

\* Mutant: the document's statuses are not claimed.
PollMarkBm25Only(p) ==
    /\ poll[p].st = "decide"
    /\ bm25' = IF poll[p].b \in Bm25Todo THEN "PROCESSING" ELSE bm25
    /\ poll' = [poll EXCEPT ![p] = [st |-> "fire", r |-> @.r, cs |-> @.s \in Todo,
                                ce |-> @.e \in Todo, cb |-> @.b \in Bm25Todo]]
    /\ UNCHANGED <<answer, content, doc, files, t1, t2, sent, chunks, seen,
                   rowVars, built, bmVars, mi>>

\* Mutant: one index to build claims both.
PollMarkBoth(p) ==
    /\ poll[p].st = "decide"
    /\ LET q == poll[p]
           c == q.s \in Todo \/ q.e \in Todo
       IN /\ summary' = IF c THEN [summary EXCEPT ![q.r] = "PROCESSING"] ELSE summary
          /\ explanation' = IF c THEN [explanation EXCEPT ![q.r] = "PROCESSING"]
                                 ELSE explanation
          /\ poll' = [poll EXCEPT ![p] = [st |-> "fire", r |-> q.r, cs |-> c,
                                          ce |-> c, cb |-> FALSE]]
    /\ UNCHANGED <<pipeVars, built, bmVars, mi>>

\* Decide on the statuses read, and commit PROCESSING for what is to be built.
PollMark(p) ==
    /\ poll[p].st = "decide"
    /\ LET q  == poll[p]
           cs == q.s \in Todo
           ce == q.e \in Todo
           cb == q.b \in Bm25Todo
       IN IF cs \/ ce \/ cb
            THEN /\ summary' = IF cs THEN [summary EXCEPT ![q.r] = "PROCESSING"]
                                     ELSE summary
                 /\ explanation' =
                        IF ce THEN [explanation EXCEPT ![q.r] = "PROCESSING"]
                              ELSE explanation
                 /\ bm25' = IF cb THEN "PROCESSING" ELSE bm25
                 /\ poll' = [poll EXCEPT ![p] = [st |-> "fire", r |-> q.r,
                                        cs |-> cs, ce |-> ce, cb |-> cb]]
            ELSE Answers(p) /\ UNCHANGED <<rowVars, bm25>>
    /\ UNCHANGED <<answer, content, doc, files, t1, t2, sent, chunks, seen,
                   built, bmVars, mi>>

PollDbFails(p) ==
    /\ DbFaults
    /\ poll[p].st \in {"bm25", "insert", "refresh", "decide"}
    /\ Raises(p)
    /\ UNCHANGED <<pipeVars, rowVars, built, bmVars, mi>>

QueueMulti(m, q) ==
    /\ mi[m] = NoTask
    /\ mi' = [mi EXCEPT ![m] = [st |-> "queued", r |-> q.r, cs |-> q.cs,
                                ce |-> q.ce, tries |-> 0]]

QueueBm25(b) ==
    /\ bm[b] = NoTask
    /\ bm' = [bm EXCEPT ![b] = [st |-> "queued", tries |-> 0]]

\* Mutant: the BM25 task is forgotten when the multi-index task is started.
PollFireOne(p) ==
    /\ poll[p].st = "fire"
    /\ IF poll[p].cs \/ poll[p].ce
         THEN (\E m \in MultiTasks : QueueMulti(m, poll[p])) /\ UNCHANGED bm
         ELSE (\E b \in Bm25Tasks : QueueBm25(b)) /\ UNCHANGED mi
    /\ Answers(p)
    /\ UNCHANGED <<pipeVars, rowVars, built, version, tmp, pickle>>

\* Publish the tasks, the multi-index task first; a broker error keeps what
\* has been published and fails the request.
PollFire(p) ==
    /\ poll[p].st = "fire"
    /\ LET q == poll[p] IN
       \/ /\ IF q.cs \/ q.ce THEN \E m \in MultiTasks : QueueMulti(m, q)
                             ELSE UNCHANGED mi
          /\ \/ /\ IF q.cb THEN \E b \in Bm25Tasks : QueueBm25(b)
                           ELSE UNCHANGED bm
                /\ Answers(p)
             \/ BrokerFaults /\ q.cb /\ UNCHANGED bm /\ Raises(p)
       \/ BrokerFaults /\ UNCHANGED <<mi, bm>> /\ Raises(p)
    /\ UNCHANGED <<pipeVars, rowVars, built, version, tmp, pickle>>

-----------------------------------------------------------------------------
(* multi_index_db_creation_task: one document's summaries and explanations *)

MiDone(m) == mi' = [mi EXCEPT ![m] = NoTask]

\* Mutant: the retries are not counted.
MiRetryForever(m) ==
    mi' = [mi EXCEPT ![m] = [st |-> "queued", r |-> @.r, cs |-> @.cs, ce |-> @.ce,
                             tries |-> @.tries]]

\* An exception outside the two builds: retry, or give up with the statuses
\* where they are.  The slot of a task that gave up is free.
MiRetry(m) ==
    mi' = [mi EXCEPT ![m] =
              IF @.tries < MaxRetries
                 THEN [st |-> "queued", r |-> @.r, cs |-> @.cs, ce |-> @.ce,
                       tries |-> @.tries + 1]
                 ELSE NoTask]

MiRead(m) ==
    /\ mi[m].st = "queued"
    /\ LET q == mi[m] IN
       mi' = [mi EXCEPT ![m] = [st |-> "read", r |-> q.r, cs |-> q.cs,
                     ce |-> q.ce, tries |-> q.tries,
                     s |-> summary[q.r], e |-> explanation[q.r]]]
    /\ UNCHANGED <<pipeVars, rowVars, built, bmVars, poll>>

\* Mutant: an exception of the build is swallowed and READY returned.
BuildReportsReady(wanted, status, index) ==
    IF wanted /\ status # "READY"
        THEN {<<"READY", {index}>>, <<"READY", {}>>}
        ELSE {<<status, {}>>}

\* Outcomes of one build: the status to write back, and what the vector store
\* got (a build that fails may leave an index behind, in part or whole).
BuildOutcomes(wanted, status, index) ==
    IF wanted /\ status # "READY"
        THEN {<<"READY", {index}>>}
             \cup (IF StageFaults THEN {<<"FAILED", {}>>, <<"FAILED", {index}>>}
                                  ELSE {})
        ELSE {<<status, {}>>}

MiSummary(m) ==
    /\ mi[m].st = "read"
    /\ \E o \in BuildOutcomes(mi[m].cs, mi[m].s, <<mi[m].r, "s">>) :
        /\ mi' = [mi EXCEPT ![m] = [mi[m] EXCEPT !.st = "summed", !.s = o[1]]]
        /\ built' = built \cup o[2]
    /\ UNCHANGED <<pipeVars, rowVars, bmVars, poll>>

MiExplanation(m) ==
    /\ mi[m].st = "summed"
    /\ \E o \in BuildOutcomes(mi[m].ce, mi[m].e, <<mi[m].r, "e">>) :
        /\ mi' = [mi EXCEPT ![m] = [mi[m] EXCEPT !.st = "explained", !.e = o[1]]]
        /\ built' = built \cup o[2]
    /\ UNCHANGED <<pipeVars, rowVars, bmVars, poll>>

\* Both statuses are written, also the one this task did not build.
MiWrite(m) ==
    /\ mi[m].st = "explained"
    /\ summary' = [summary EXCEPT ![mi[m].r] = mi[m].s]
    /\ explanation' = [explanation EXCEPT ![mi[m].r] = mi[m].e]
    /\ MiDone(m)
    /\ UNCHANGED <<pipeVars, built, bmVars, poll>>

MiFails(m) ==
    /\ \/ DbFaults /\ mi[m].st \in {"queued", "explained"}
       \/ StageFaults /\ mi[m].st = "read"
    /\ MiRetry(m)
    /\ UNCHANGED <<pipeVars, rowVars, built, bmVars, poll>>

-----------------------------------------------------------------------------
(* global_bm25_build_task: one index over all READY documents.             *)

BmDone(b) == bm' = [bm EXCEPT ![b] = NoTask]
BmBreaks(b) == bm' = [bm EXCEPT ![b] = [st |-> "failing", tries |-> @.tries]]

BmLists(b, docs) ==
    /\ bm[b].st = "queued"
    /\ bm' = [bm EXCEPT ![b] = [st |-> "listed", tries |-> @.tries, docs |-> docs]]
    /\ UNCHANGED <<pipeVars, rowVars, built, version, tmp, pickle, poll, mi>>

\* Mutant: the query forgets status = READY.
BmListAll(b) == BmLists(b, {r \in Requests : doc[r] # "NONE"})

\* Mutant: the documents of the last version are taken to be indexed.
BmListNew(b) ==
    BmLists(b, {r \in Requests : doc[r] = "READY" /\
                    (version > 0 => r \notin pickle["docs", version].docs)})

\* The query of the documents; the row, with its version, is another query.
BmList(b) == BmLists(b, {r \in Requests : doc[r] = "READY"})

BmRead(b) ==
    /\ bm[b].st = "listed"
    /\ version < MaxVersion
    /\ bm' = [bm EXCEPT ![b] = [st |-> "open", k |-> "docs", tries |-> @.tries,
                                docs |-> @.docs, v |-> version + 1]]
    /\ UNCHANGED <<pipeVars, rowVars, built, version, tmp, pickle, poll, mi>>

\* Before the build proper, an exception makes the task retry.
BmFails(b) ==
    /\ \/ DbFaults /\ bm[b].st \in {"queued", "listed"}
       \/ StageFaults /\ bm[b].st = "open" /\ bm[b].k = "docs"
    /\ bm' = [bm EXCEPT ![b] = IF @.tries < MaxRetries
                                THEN [st |-> "queued", tries |-> @.tries + 1]
                                ELSE NoTask]
    /\ UNCHANGED <<pipeVars, rowVars, built, version, tmp, pickle, poll, mi>>

\* The builder's next file.
Mine(b) == <<bm[b].k, bm[b].v>>

\* The files when b has written its file to the end, or leaves it broken.  A
\* file that was renamed meanwhile is still the one b writes to.
Closed(F, b) == [n \in Names |-> [F[n] EXCEPT !.by = @ \ {b}]]
Broken(F, b) ==
    [n \in Names |-> IF b \in F[n].by
                        THEN [F[n] EXCEPT !.by = @ \ {b}, !.st = "torn"]
                        ELSE F[n]]

\* Mutant: the file is opened under its final name.
BmOpenFinal(b) ==
    /\ bm[b].st = "open"
    /\ pickle' = [pickle EXCEPT ![Mine(b)] =
                    [st |-> "whole", docs |-> bm[b].docs, by |-> {b}]]
    /\ tmp' = [tmp EXCEPT ![Mine(b)] =
                    [st |-> "whole", docs |-> bm[b].docs, by |-> {}]]
    /\ bm' = [bm EXCEPT ![b].st = "write"]
    /\ UNCHANGED <<pipeVars, rowVars, built, version, poll, mi>>

\* Open the temporary file, and truncate it: its name depends on the version
\* only, so another builder of this version may just write to it.
BmOpen(b) ==
    /\ bm[b].st = "open"
    /\ LET f == tmp[Mine(b)] IN
       tmp' = [tmp EXCEPT ![Mine(b)] =
                 IF f.by = {}
                   THEN [st |-> "whole", docs |-> bm[b].docs, by |-> {b}]
                   ELSE [st |-> "torn", docs |-> f.docs \cup bm[b].docs,
                         by |-> f.by \cup {b}]]
    /\ bm' = [bm EXCEPT ![b].st = "write"]
    /\ UNCHANGED <<pipeVars, rowVars, built, version, pickle, poll, mi>>

\* Both files are written before the first is renamed.
BmWrite(b) ==
    /\ bm[b].st = "write"
    /\ tmp' = Closed(tmp, b)
    /\ pickle' = Closed(pickle, b)
    /\ bm' = [bm EXCEPT ![b] = IF @.k = "docs"
                        THEN [@ EXCEPT !.st = "open", !.k = "retriever"]
                        ELSE [@ EXCEPT !.st = "move", !.k = "docs"]]
    /\ UNCHANGED <<pipeVars, rowVars, built, version, poll, mi>>

\* Mutant: the files keep their temporary names.
BmMoveNothing(b) ==
    /\ bm[b].st = "move"
    /\ bm' = [bm EXCEPT ![b].st = "published"]
    /\ UNCHANGED <<pipeVars, rowVars, built, version, tmp, pickle, poll, mi>>

\* The renames, the documents first.  Another builder may have renamed the file
\* already: then replace raises.
BmMove(b) ==
    /\ bm[b].st = "move"
    /\ LET n == Mine(b) IN
       IF tmp[n].st # "absent"
         THEN /\ pickle' = [pickle EXCEPT ![n] = tmp[n]]
              /\ tmp' = [tmp EXCEPT ![n] = NoFile]
              /\ bm' = [bm EXCEPT ![b] = IF @.k = "docs"
                                  THEN [@ EXCEPT !.k = "retriever"]
                                  ELSE [@ EXCEPT !.st = "published"]]
         ELSE BmBreaks(b) /\ UNCHANGED <<tmp, pickle>>
    /\ UNCHANGED <<pipeVars, rowVars, built, version, poll, mi>>

\* An exception while the retriever is built, or a file written or renamed.
BmBuildFails(b) ==
    /\ StageFaults
    /\ bm[b].st \in {"open", "write", "move"}
    /\ BmBreaks(b)
    /\ tmp' = Broken(tmp, b)
    /\ pickle' = Broken(pickle, b)
    /\ UNCHANGED <<pipeVars, rowVars, built, version, poll, mi>>

\* Mutant: the new version is committed without the status.
BmCommitVersionOnly(b) ==
    /\ bm[b].st = "published"
    /\ version' = bm[b].v
    /\ BmDone(b)
    /\ UNCHANGED <<pipeVars, rowVars, built, tmp, pickle, poll, mi>>

BmCommit(b) ==
    /\ bm[b].st = "published"
    /\ \/ bm25' = "READY" /\ version' = bm[b].v /\ BmDone(b)
       \/ DbFaults /\ BmBreaks(b) /\ UNCHANGED <<bm25, version>>
    /\ UNCHANGED <<answer, content, doc, files, t1, t2, sent, chunks, seen,
                   rowVars, built, tmp, pickle, poll, mi>>

\* The task's own handler: FAILED, or nothing if the database is down too.
BmMarkFailed(b) ==
    /\ bm[b].st = "failing"
    /\ bm25' = "FAILED" \/ (DbFaults /\ UNCHANGED bm25)
    /\ BmDone(b)
    /\ UNCHANGED <<answer, content, doc, files, t1, t2, sent, chunks, seen,
                   rowVars, built, version, tmp, pickle, poll, mi>>

-----------------------------------------------------------------------------
\* An API process or a worker dies in the middle of its work.
IndexCrash ==
    /\ Crashes
    /\ \/ \E p \in Pollers : poll[p] \notin {NoPoll, Raised} /\ Raises(p)
                             /\ UNCHANGED <<mi, bm, tmp, pickle>>
       \/ \E m \in MultiTasks : mi[m] # NoTask /\ MiDone(m)
                             /\ UNCHANGED <<poll, bm, tmp, pickle>>
       \/ \E b \in Bm25Tasks : /\ bm[b] # NoTask
                              /\ BmDone(b)
                              /\ tmp' = Broken(tmp, b)
                              /\ pickle' = Broken(pickle, b)
                              /\ UNCHANGED <<poll, mi>>
    /\ UNCHANGED <<pipeVars, rowVars, built, version>>

PollStep(p) == PollBm25(p) \/ PollInsert(p) \/ PollRefresh(p) \/ PollMark(p)
               \/ PollDbFails(p) \/ PollFire(p)
MiStep(m) == MiRead(m) \/ MiSummary(m) \/ MiExplanation(m) \/ MiWrite(m)
             \/ MiFails(m)
BmStep(b) == BmList(b) \/ BmRead(b) \/ BmFails(b) \/ BmOpen(b) \/ BmWrite(b)
             \/ BmMove(b) \/ BmBuildFails(b) \/ BmCommit(b) \/ BmMarkFailed(b)

Next ==
    \/ \E r \in Requests : P!PipelineStep(r) /\ UNCHANGED indexVars
    \/ \E p \in Pollers : PollStep(p) \/ \E r \in Requests : PollDocument(p, r)
    \/ \E m \in MultiTasks : MiStep(m)
    \/ \E b \in Bm25Tasks : BmStep(b)
    \/ IndexCrash

Spec == Init /\ [][Next]_vars

\* A request that was started is carried on and workers take their messages;
\* nobody has to start a poll.
Fairness ==
    /\ \A r \in Requests : WF_vars(P!Task1Step(r) /\ UNCHANGED indexVars)
                           /\ WF_vars(P!Task2Step(r) /\ UNCHANGED indexVars)
    /\ \A p \in Pollers : WF_vars(PollStep(p))
    /\ \A m \in MultiTasks : WF_vars(MiStep(m))
    /\ \A b \in Bm25Tasks : WF_vars(BmStep(b))

FairSpec == Spec /\ Fairness

-----------------------------------------------------------------------------
(* Safety                                                                  *)

ReadyDocs == {r \in Requests : doc[r] = "READY"}
IsBuilder(b) == bm[b] # NoTask
WillBuild(p) == poll[p].st = "fire" /\ poll[p].cb

\* The BM25 row never points to a version one of whose files is not on disk.
VersionIsOnDisk ==
    version > 0 => \A k \in Kinds : pickle[k, version].st # "absent"

\* No BM25 index holds a document that is not READY.
IndexedAreReady == \A n \in Names : pickle[n].docs \subseteq ReadyDocs

\* A summary or explanation index marked READY was built at least once.
ReadyIndexExists ==
    \A r \in Requests : /\ summary[r] = "READY" => <<r, "s">> \in built
                        /\ explanation[r] = "READY" => <<r, "e">> \in built

\* The poll never starts a builder for a document that is not READY.
BuildersNeedReadyDocs ==
    /\ \A m \in MultiTasks : mi[m] # NoTask => doc[mi[m].r] = "READY"
    /\ \A b \in Bm25Tasks : IsBuilder(b) => ReadyDocs # {}

\* Polls one after the other never have two tasks building the indexes of one
\* document (two polls at once may: nothing locks what PollDocument read).
OneMultiTaskPerDocument ==
    \A m, n \in MultiTasks :
        m # n /\ mi[m] # NoTask /\ mi[n] # NoTask => mi[m].r # mi[n].r

\* Under one poll at a time a built index stays READY: the late write-back of
\* a task never overwrites it with an older status.
BuiltStaysBuilt ==
    [][\A r \in Requests : /\ summary[r] = "READY" => summary'[r] = "READY"
                           /\ explanation[r] = "READY" => explanation'[r] = "READY"]_vars

\* How much a poll, and a task of either kind, may still do: the steps of this
\* attempt, and a whole attempt for each retry left.
PollLeft(q) ==
    CASE q.st = "bm25" -> 5 [] q.st = "insert" -> 4 [] q.st = "refresh" -> 3
      [] q.st = "decide" -> 2 [] q.st = "fire" -> 1 [] OTHER -> 0
MiLeft(q) ==
    IF q = NoTask THEN 0
    ELSE 4 * (MaxRetries - q.tries)
         + (CASE q.st = "queued" -> 4 [] q.st = "read" -> 3 [] q.st = "summed" -> 2
              [] q.st = "explained" -> 1)
BmLeft(q) ==
    IF q = NoTask THEN 0
    ELSE 10 * (MaxRetries - q.tries)
         + (CASE q.st = "queued" -> 10 [] q.st = "listed" -> 9
              [] q.st = "open" -> IF q.k = "docs" THEN 8 ELSE 6
              [] q.st = "write" -> IF q.k = "docs" THEN 7 ELSE 5
              [] q.st = "move" -> IF q.k = "docs" THEN 4 ELSE 3
              [] q.st = "published" -> 2 [] q.st = "failing" -> 1)

\* Once a client has polled, nothing goes on by itself for ever: a step of a
\* poll or of a task leaves it less to do, only the last step of a poll starts
\* tasks, and what changes a row, an index or a pickle is one of these steps,
\* whatever fails, is retried or dies.
Fewer(m, n) == m \in 0..(n - 1)
Fires(p) == poll[p].st = "fire" /\ Fewer(PollLeft(poll'[p]), PollLeft(poll[p]))
BuildsRunDown ==
    [][/\ \A p \in Pollers : \/ UNCHANGED poll[p]
                             \/ poll[p] \in {NoPoll, Raised}
                             \/ Fewer(PollLeft(poll'[p]), PollLeft(poll[p]))
       /\ \A m \in MultiTasks : \/ UNCHANGED mi[m]
                                \/ mi[m] = NoTask /\ \E p \in Pollers : Fires(p)
                                \/ Fewer(MiLeft(mi'[m]), MiLeft(mi[m]))
       /\ \A b \in Bm25Tasks : \/ UNCHANGED bm[b]
                               \/ bm[b] = NoTask /\ \E p \in Pollers : Fires(p)
                               \/ Fewer(BmLeft(bm'[b]), BmLeft(bm[b]))
       /\ UNCHANGED <<poll, mi, bm>> => UNCHANGED indexVars]_vars

\* Without crashes and faults, PROCESSING on the BM25 row means that a task
\* builds, or a poll is about to start one (BM25Status: "in working!").
ProcessingIsWorking ==
    bm25 = "PROCESSING" => \/ \E b \in Bm25Tasks : IsBuilder(b)
                           \/ \E p \in Pollers : WillBuild(p)

\* The composition implements the pipeline with its abstract indexer.
PipelineRefined == P!Spec

(* Claims of the repository the code does not keep                         *)

\* schemas.py:293: an index that is old because a new document has come by is
\* STALE.  So a READY one has every READY document.
ReadyIsCurrent ==
    bm25 = "READY" => version > 0 /\ ReadyDocs \subseteq pickle["docs", version].docs

\* ai_worker.py:441: a pickle is published under its final name only when it
\* is complete.
PublishedIsComplete ==
    \A n \in Names : pickle[n].st = "absent"
                    \/ (pickle[n].st = "whole" /\ pickle[n].by = {})

\* worker_utils.py:105: a poll may come before task 1 has saved the document;
\* it is answered PENDING_SAVE.
PollBeforeSaveAnswered == \A p \in Pollers : poll[p] # Raised
=============================================================================
