------------------------- MODULE DocPipelineProofs -------------------------
(***************************************************************************)
(* Proofs about the ingestion pipeline, for every set of requests and      *)
(* contents, every retry limit and every combination of faults.            *)
(***************************************************************************)
EXTENDS DocPipeline, FiniteSetTheorems, TLAPS

\* What a failed attempt leaves of its task: queued with one more try within
\* the limit, given up, or lost with its message.
LEMMA RetryType ==
    ASSUME NEW S, {"queued", "failure", "lost"} \subseteq S,
           NEW task \in [st: S, tries: 0..MaxRetries],
           NEW t \in RetryOutcomes(task)
    PROVE  /\ t \in [st: S, tries: 0..MaxRetries]
           /\ t.st \in {"queued", "failure", "lost"}
           /\ t.st = "queued" => t.tries = task.tries + 1
           /\ t.st # "queued" => t.tries = task.tries
  BY PipelineAssumption DEF RetryOutcomes

\* Moving task 1 or task 2 to a state of its own, or retrying it, leaves
\* every other request's task alone and the tasks well typed.
LEMMA TaskMoves ==
    ASSUME TypeOK, NEW r \in Requests
    PROVE  /\ \A st \in State1 : Goto1(r, st) => t1' \in [Requests -> Task1]
           /\ \A st \in State2 : Goto2(r, st) => t2' \in [Requests -> Task2]
           /\ Retry1(r) => t1' \in [Requests -> Task1]
           /\ Retry2(r) => t2' \in [Requests -> Task2]
<1>1. t1 \in [Requests -> Task1] /\ t2 \in [Requests -> Task2]
  BY DEF TypeOK
<1>2. ASSUME NEW st \in State1, Goto1(r, st) PROVE t1' \in [Requests -> Task1]
  <2>1. [t1[r] EXCEPT !.st = st] \in Task1
    BY <1>1 DEF Task1
  <2>2. t1' = [t1 EXCEPT ![r] = [t1[r] EXCEPT !.st = st]]
    BY <1>2, <1>1 DEF Goto1
  <2>3. QED
    BY <1>1, <2>1, <2>2
<1>3. ASSUME NEW st \in State2, Goto2(r, st) PROVE t2' \in [Requests -> Task2]
  <2>1. [t2[r] EXCEPT !.st = st] \in Task2
    BY <1>1 DEF Task2
  <2>2. t2' = [t2 EXCEPT ![r] = [t2[r] EXCEPT !.st = st]]
    BY <1>3, <1>1 DEF Goto2
  <2>3. QED
    BY <1>1, <2>1, <2>2
<1>4. ASSUME Retry1(r) PROVE t1' \in [Requests -> Task1]
  <2>1. \A t \in RetryOutcomes(t1[r]) : t \in Task1
    BY <1>1, RetryType DEF Task1, State1, AtRest
  <2>2. QED
    BY <1>1, <1>4, <2>1 DEF Retry1
<1>5. ASSUME Retry2(r) PROVE t2' \in [Requests -> Task2]
  <2>1. \A t \in RetryOutcomes(t2[r]) : t \in Task2
    BY <1>1, RetryType DEF Task2, State2, AtRest
  <2>2. QED
    BY <1>1, <1>5, <2>1 DEF Retry2
<1>6. QED
  BY <1>2, <1>3, <1>4, <1>5

\* A task that was just published is well typed.
LEMMA FreshType == Fresh("queued") \in Task2 /\ Fresh("none") \in Task1 \cap Task2
  BY PipelineAssumption DEF Fresh, Task1, Task2, State1, State2, AtRest

\* Every variable starts in its type.
LEMMA InitType == ASSUME Init PROVE TypeOK
  BY FreshType DEF Init, TypeOK, Answers, DocStatus, Bm25Status

\* Every step keeps every variable in its type.
LEMMA TypeStep == ASSUME TypeOK, [Next]_vars PROVE TypeOK'
<1> USE DEF TypeOK
<1>1. ASSUME NEW r \in Requests, Upload(r) PROVE TypeOK'
  <2>1. CASE UploadInvalid(r)
    BY <2>1 DEF UploadInvalid, Answers, taskVars
  <2>2. ASSUME NEW c \in Contents, UploadRefused(r, c) PROVE TypeOK'
    BY <2>2 DEF UploadRefused, Answers, taskVars
  <2>3. ASSUME NEW c \in Contents, UploadAccepted(r, c) PROVE TypeOK'
    BY <2>3, TaskMoves DEF UploadAccepted, Answers, State1
  <2>4. QED
    BY <1>1, <2>1, <2>2, <2>3 DEF Upload
<1>2. ASSUME NEW r \in Requests, Task1Step(r) PROVE TypeOK'
  <2>1. ASSUME NEW disk \in {files, files \cup {r}}, SaveFails(r, disk) PROVE TypeOK'
    BY <2>1, TaskMoves DEF SaveFails, State1, AtRest
  <2>2. CASE T1Write(r)
    BY <2>2, TaskMoves DEF T1Write, State1
  <2>3. CASE T1Commit(r)
    BY <2>3, TaskMoves DEF T1Commit, State1, DocStatus
  <2>4. CASE T1StartTask2(r)
    BY <2>4, TaskMoves, FreshType DEF T1StartTask2, PublishTask2, State1, AtRest
  <2>5. CASE T1StartTask2Fails(r)
    BY <2>5, TaskMoves, FreshType DEF T1StartTask2Fails, PublishTask2
  <2>6. QED
    BY <1>2, <2>1, <2>2, <2>3, <2>4, <2>5
       DEF Task1Step, T1WriteFails, T1CommitFails, T1RefreshFails
<1>3. ASSUME NEW r \in Requests, Task2Step(r) PROVE TypeOK'
  <2>1. CASE T2Parse(r)
    BY <2>1, TaskMoves DEF T2Parse, State2, DocStatus
  <2>2. CASE T2Chunk(r)
    BY <2>2, TaskMoves DEF T2Chunk, State2, DocStatus
  <2>3. CASE T2EmbedStore(r)
    BY <2>3, TaskMoves DEF T2EmbedStore, State2
  <2>4. CASE StageFails(r) /\ chunks' \in [Requests -> Nat]
    BY <2>4, TaskMoves DEF StageFails, DocStatus
  <2>5. CASE T2ReadBm25(r)
    BY <2>5, TaskMoves DEF T2ReadBm25, State2
  <2>6. CASE T2EmbedCommit(r)
    BY <2>6, TaskMoves DEF T2EmbedCommit, State2, AtRest, DocStatus, Bm25Status
  <2>7. CASE T2DbFails(r)
    BY <2>7, TaskMoves DEF T2DbFails, State2, AtRest
  <2>8. T2EmbedFails(r) => StageFails(r) /\ chunks' \in [Requests -> Nat]
    BY DEF T2EmbedFails
  <2>9. QED
    BY <1>3, <2>1, <2>2, <2>3, <2>4, <2>5, <2>6, <2>7, <2>8
       DEF Task2Step, T2ParseFails, T2ChunkFails
<1>4. ASSUME NEW r \in Requests, Crash(r) PROVE TypeOK'
  BY <1>4, TaskMoves DEF Crash, State1, State2, AtRest
<1>5. CASE IndexerMoves
  BY <1>5 DEF IndexerMoves, taskVars, Bm25Status
<1>6. CASE UNCHANGED vars
  BY <1>6 DEF vars, taskVars
<1>7. QED
  BY <1>1, <1>2, <1>3, <1>4, <1>5, <1>6 DEF Next, PipelineStep

\* The statuses are those of the enums and no task is tried more often than
\* max_retries allows.
THEOREM TypeCorrect == Spec => []TypeOK
  BY InitType, TypeStep, PTL DEF Spec

-----------------------------------------------------------------------------
(* The inductive invariant.                                                *)

\* A step that leaves a request's share alone keeps its invariant.
LEMMA SameKeepsInv ==
    ASSUME NEW q \in Requests, RequestInv(q), LeftAlone(q)
    PROVE  RequestInv(q)'
  BY DEF LeftAlone, RequestInv, Fresh

\* Where a step of request r leaves r's task 1: in the state it names, with
\* the tries it had; or as a retry leaves it.  Other requests keep theirs.
LEMMA Move1 ==
    ASSUME TypeOK, NEW r \in Requests
    PROVE  /\ \A st : Goto1(r, st) => /\ t1'[r].st = st
                                      /\ t1'[r].tries = t1[r].tries
           /\ Retry1(r) => /\ t1'[r].st \in {"queued", "failure", "lost"}
                           /\ t1'[r].st = "queued" =>
                                  t1'[r].tries = t1[r].tries + 1
           /\ (Retry1(r) \/ \E st : Goto1(r, st)) =>
                  \A q \in Requests \ {r} : t1'[q] = t1[q]
<1>1. t1 \in [Requests -> Task1]
  BY DEF TypeOK
<1>2. \A t \in RetryOutcomes(t1[r]) :
          /\ t.st \in {"queued", "failure", "lost"}
          /\ t.st = "queued" => t.tries = t1[r].tries + 1
  BY <1>1, PipelineAssumption DEF RetryOutcomes, Task1
<1>3. QED
  BY <1>1, <1>2 DEF Goto1, Retry1, Task1

\* The same of task 2.
LEMMA Move2 ==
    ASSUME TypeOK, NEW r \in Requests
    PROVE  /\ \A st : Goto2(r, st) => /\ t2'[r].st = st
                                      /\ t2'[r].tries = t2[r].tries
           /\ Retry2(r) => /\ t2'[r].st \in {"queued", "failure", "lost"}
                           /\ t2'[r].st = "queued" =>
                                  t2'[r].tries = t2[r].tries + 1
                           /\ t2'[r].st # "queued" =>
                                  t2'[r].tries = t2[r].tries
           /\ (Retry2(r) \/ \E st : Goto2(r, st)) =>
                  \A q \in Requests \ {r} : t2'[q] = t2[q]
<1>1. t2 \in [Requests -> Task2]
  BY DEF TypeOK
<1>2. \A t \in RetryOutcomes(t2[r]) :
          /\ t.st \in {"queued", "failure", "lost"}
          /\ t.st = "queued" => t.tries = t2[r].tries + 1
          /\ t.st # "queued" => t.tries = t2[r].tries
  BY <1>1, PipelineAssumption DEF RetryOutcomes, Task2
<1>3. QED
  BY <1>1, <1>2 DEF Goto2, Retry2, Task2

\* The invariant of a request survives every step of its own, and such a step
\* leaves the other requests alone.
LEMMA OwnStep ==
    ASSUME TypeOK, NEW r \in Requests, RequestInv(r), PipelineStep(r)
    PROVE  RequestInv(r)' /\ \A q \in Requests \ {r} : LeftAlone(q)
<1> DEFINE Goal == RequestInv(r)' /\ \A q \in Requests \ {r} : LeftAlone(q)
<1>t. /\ answer \in [Requests -> Answers] /\ doc \in [Requests -> DocStatus]
      /\ content \in [Requests -> Contents \cup {NoContent}]
      /\ seen \in [Requests -> Bm25Status] /\ files \in SUBSET Requests
      /\ sent \in [Requests -> Nat] /\ chunks \in [Requests -> Nat]
      /\ t2[r] \in Task2 /\ t2[r].tries \in Nat
      /\ t1 \in [Requests -> Task1] /\ t2 \in [Requests -> Task2]
  BY PipelineAssumption DEF TypeOK, Task2
<1>1. CASE Upload(r)
  <2>1. CASE /\ UNCHANGED <<doc, files, taskVars, chunks>>
             /\ \E a \in Answers \ {"none"} : answer' = [answer EXCEPT ![r] = a]
             /\ UNCHANGED seen
             /\ \E c \in Contents \cup {NoContent} :
                    content' = [content EXCEPT ![r] = c] \/ UNCHANGED content
    BY <2>1, <1>t DEF LeftAlone, RequestInv, Fresh, taskVars
  <2>2. ASSUME NEW c \in Contents, UploadAccepted(r, c) PROVE Goal
    BY <2>2, <1>t, Move1 DEF UploadAccepted, LeftAlone, RequestInv, Fresh
  <2>3. QED
    BY <1>1, <2>1, <2>2 DEF Upload, UploadInvalid, UploadRefused, Answers
<1>2. CASE Task1Step(r)
  <2>1. ASSUME NEW disk \in {files, files \cup {r}}, SaveFails(r, disk),
               t1[r].st \notin AtRest
        PROVE  Goal
    BY <2>1, <1>t, Move1 DEF SaveFails, LeftAlone, RequestInv, Fresh, AtRest
  <2>2. CASE T1Write(r)
    BY <2>2, <1>t, Move1 DEF T1Write, LeftAlone, RequestInv, Fresh
  <2>3. CASE T1Commit(r)
    BY <2>3, <1>t, Move1 DEF T1Commit, LeftAlone, RequestInv, Fresh, AtRest
  <2>4. CASE T1StartTask2(r)
    BY <2>4, <1>t, Move1
       DEF T1StartTask2, PublishTask2, LeftAlone, RequestInv, Fresh, BeforeStore, AtRest
  <2>5. CASE T1StartTask2Fails(r)
    BY <2>5, <1>t, Move1
       DEF T1StartTask2Fails, PublishTask2, LeftAlone, RequestInv, Fresh, BeforeStore, AtRest
  <2>6. QED
    BY <1>2, <2>1, <2>2, <2>3, <2>4, <2>5
       DEF Task1Step, T1WriteFails, T1CommitFails, T1RefreshFails, AtRest
<1>3. CASE Task2Step(r)
  <2> USE DEF LeftAlone, RequestInv, Fresh, BeforeStore, AtRest
  <2>1. CASE T2Parse(r)
    BY <2>1, <1>t, Move2 DEF T2Parse
  <2>2. CASE T2Chunk(r)
    BY <2>2, <1>t, Move2 DEF T2Chunk
  <2>3. CASE T2EmbedStore(r)
    BY <2>3, <1>t, Move2 DEF T2EmbedStore
  <2>4. CASE T2ParseFails(r)
    BY <2>4, <1>t, Move2 DEF T2ParseFails, StageFails
  <2>5. CASE T2ChunkFails(r)
    BY <2>5, <1>t, Move2 DEF T2ChunkFails, StageFails
  <2>6. CASE T2EmbedFails(r)
    BY <2>6, <1>t, Move2 DEF T2EmbedFails, StageFails
  <2>7. CASE T2ReadBm25(r)
    BY <2>7, <1>t, Move2 DEF T2ReadBm25
  <2>8. CASE T2EmbedCommit(r)
    BY <2>8, <1>t, Move2 DEF T2EmbedCommit
  <2>9. CASE T2DbFails(r)
    BY <2>9, <1>t, Move2 DEF T2DbFails
  <2>10. QED
    BY <1>3, <2>1, <2>2, <2>3, <2>4, <2>5, <2>6, <2>7, <2>8, <2>9 DEF Task2Step
<1>4. CASE Crash(r)
  BY <1>4, <1>t, Move1, Move2
     DEF Crash, LeftAlone, RequestInv, Fresh, BeforeStore, AtRest
<1>5. QED
  BY <1>1, <1>2, <1>3, <1>4 DEF PipelineStep

\* The invariant holds before the first upload.
LEMMA InitInv == ASSUME Init PROVE PipelineInv
  BY InitType DEF Init, PipelineInv, RequestInv, Fresh, BeforeStore, AtRest

\* Every step, of whichever request, keeps the invariant of all of them.
LEMMA InvStep == ASSUME TypeOK, PipelineInv, [Next]_vars PROVE PipelineInv'
<1> SUFFICES ASSUME NEW q \in Requests
             PROVE  RequestInv(q)'
  BY TypeStep DEF PipelineInv
<1>1. ASSUME NEW r \in Requests, PipelineStep(r) PROVE RequestInv(q)'
  BY <1>1, OwnStep, SameKeepsInv DEF PipelineInv
<1>2. CASE IndexerMoves \/ UNCHANGED vars
  BY <1>2, SameKeepsInv DEF IndexerMoves, vars, taskVars, LeftAlone, PipelineInv
<1>3. QED
  BY <1>1, <1>2 DEF Next

\* Whatever fails, retries or dies, the row, the file, the vector store and
\* the broker of an upload agree on how far its two tasks have come.
THEOREM PipelineCorrect == Spec => []PipelineInv
  BY InitInv, InvStep, TypeCorrect, PTL DEF Spec

\* A READY document has chunks in the store, in every behaviour.
THEOREM ReadySearchable == Spec => []ReadyIsSearchable
<1>1. PipelineInv => ReadyIsSearchable
  BY DEF PipelineInv, RequestInv, ReadyIsSearchable
<1>2. QED
  BY <1>1, PipelineCorrect, PTL

\* No retry of task 1 starts a second pipeline for its upload.
THEOREM SingleTask2 == Spec => []OneTask2PerUpload
<1>1. PipelineInv => OneTask2PerUpload
  BY DEF PipelineInv, RequestInv, OneTask2PerUpload
<1>2. QED
  BY <1>1, PipelineCorrect, PTL

\* Only work in progress, a dead worker or a failure of the failure path keeps
\* a file without a row, whatever is retried.
THEOREM StrayFiles == Spec => []NoStrayFile
<1>1. PipelineInv => NoStrayFile
  BY DEF PipelineInv, RequestInv, NoStrayFile
<1>2. QED
  BY <1>1, PipelineCorrect, PTL

\* A chunk set enters the store at most once per attempt of task 2.
THEOREM ChunkSets == Spec => []ChunksPerAttempt
<1>1. TypeOK /\ PipelineInv => ChunksPerAttempt
  BY PipelineAssumption
     DEF PipelineInv, RequestInv, ChunksPerAttempt, TypeOK, Task2, Fresh
<1>2. QED
  BY <1>1, TypeCorrect, PipelineCorrect, PTL

\* A step out of a state of the pipeline leaves a READY row READY.
LEMMA ReadyStep ==
    ASSUME TypeOK, PipelineInv, [Next]_vars, NEW r \in Requests, doc[r] = "READY"
    PROVE  doc'[r] = "READY"
<1>t. doc \in [Requests -> DocStatus] /\ RequestInv(r)
  BY DEF TypeOK, PipelineInv
<1>1. ASSUME NEW q \in Requests, PipelineStep(q), q # r PROVE doc'[r] = "READY"
  BY <1>1, OwnStep DEF LeftAlone, PipelineInv
<1>2. CASE PipelineStep(r)
  <2>1. t2[r].st \in AtRest
    BY <1>t DEF RequestInv
  <2>2. CASE Upload(r)
    BY <2>2 DEF Upload, UploadInvalid, UploadRefused, UploadAccepted
  <2>3. CASE Task1Step(r)
    BY <2>3, <1>t DEF Task1Step, T1Write, T1WriteFails, T1Commit, T1CommitFails,
        T1RefreshFails, T1StartTask2, T1StartTask2Fails, SaveFails
  <2>4. CASE Task2Step(r)
    BY <2>1, <2>4 DEF Task2Step, AtRest, T2Parse, T2ParseFails, T2Chunk,
        T2ChunkFails, T2EmbedStore, T2EmbedFails, T2ReadBm25, T2EmbedCommit,
        T2DbFails
  <2>5. CASE Crash(r)
    BY <2>5 DEF Crash
  <2>6. QED
    BY <1>2, <2>2, <2>3, <2>4, <2>5 DEF PipelineStep
<1>3. CASE IndexerMoves
  BY <1>3 DEF IndexerMoves
<1>4. CASE UNCHANGED vars
  BY <1>4 DEF vars
<1>5. QED
  BY <1>1, <1>2, <1>3, <1>4 DEF Next

\* No step of any task takes a READY document back.
THEOREM ReadyStays == Spec => ReadyIsFinal
<1>1. TypeOK /\ PipelineInv /\ [Next]_vars =>
        [\A r \in Requests : doc[r] = "READY" => doc'[r] = "READY"]_vars
  BY ReadyStep
<1>2. QED
  BY <1>1, TypeCorrect, PipelineCorrect, PTL DEF Spec, ReadyIsFinal

\* The tasks of the pipeline touch the BM25 row only to mark it STALE.
LEMMA RowStep ==
    ASSUME NEW r \in Requests, PipelineStep(r) PROVE bm25' \in {bm25, "STALE"}
  BY DEF PipelineStep, Upload, UploadInvalid, UploadRefused, UploadAccepted,
      Task1Step, T1Write, T1WriteFails, T1Commit, T1CommitFails, T1RefreshFails,
      T1StartTask2, T1StartTask2Fails, SaveFails, Task2Step, T2Parse,
      T2ParseFails, T2Chunk, T2ChunkFails, T2EmbedStore, T2EmbedFails,
      T2ReadBm25, T2EmbedCommit, T2DbFails, StageFails, Crash

\* A document becomes READY out of the state in which task 2 has looked at the
\* row, and what it saw decides about STALE; it sees the row as it is.
LEMMA LookAndCommit ==
    ASSUME TypeOK, PipelineInv, NEW r \in Requests, PipelineStep(r), NEW q \in Requests
    PROVE  /\ doc'[q] = "READY" /\ doc[q] # "READY" =>
                 /\ t2[q].st = "read"
                 /\ bm25' = IF seen[q] = "READY" THEN "STALE" ELSE bm25
           /\ t2'[q].st = "read" => \/ t2[q].st = "read" /\ seen'[q] = seen[q]
                                    \/ seen'[q] = bm25 /\ bm25' = bm25
<1>t. /\ doc \in [Requests -> DocStatus] /\ seen \in [Requests -> Bm25Status]
      /\ t2 \in [Requests -> Task2] /\ RequestInv(q)
  BY DEF TypeOK, PipelineInv
<1>1. CASE q # r
  BY <1>1, OwnStep DEF PipelineInv, LeftAlone
<1>2. CASE q = r /\ T2EmbedCommit(r)
  BY <1>2, <1>t, Move2 DEF T2EmbedCommit
<1>3. CASE q = r /\ T2ReadBm25(r)
  BY <1>3, <1>t DEF T2ReadBm25
<1>4. CASE q = r /\ ~T2EmbedCommit(r) /\ ~T2ReadBm25(r)
  <2>1. CASE Upload(r) \/ Task1Step(r)
    <3>1. UNCHANGED seen /\ (doc'[r] = "READY" => doc[r] = "READY")
      BY <1>t, <1>4, <2>1 DEF Upload, UploadInvalid, UploadRefused, UploadAccepted,
          Task1Step, T1Write, T1WriteFails, T1Commit, T1CommitFails, T1RefreshFails,
          T1StartTask2, T1StartTask2Fails, SaveFails
    <3>2. t2'[r] = t2[r] \/ t2'[r] = Fresh("queued")
      BY <1>t, <2>1 DEF Upload, UploadInvalid, UploadRefused, UploadAccepted,
          Task1Step, T1Write, T1WriteFails, T1Commit, T1CommitFails, T1RefreshFails,
          T1StartTask2, T1StartTask2Fails, SaveFails, PublishTask2, taskVars
    <3>3. QED
      BY <1>4, <3>1, <3>2 DEF Fresh
  <2>2. CASE Task2Step(r)
    <3>1. UNCHANGED seen /\ (doc'[r] = "READY" => doc[r] = "READY")
      BY <1>t, <1>4, <2>2 DEF Task2Step, T2Parse, T2ParseFails, T2Chunk,
          T2ChunkFails, T2EmbedStore, T2EmbedFails, T2DbFails, StageFails
    <3>2. \/ Retry2(r)
          \/ \E st \in {"parsed", "chunked", "stored", "raised"} : Goto2(r, st)
      BY <1>4, <2>2 DEF Task2Step, T2Parse, T2ParseFails, T2Chunk,
          T2ChunkFails, T2EmbedStore, T2EmbedFails, T2DbFails, StageFails
    <3>3. t2'[r].st # "read"
      BY <3>2, Move2
    <3>4. QED
      BY <1>4, <3>1, <3>3
  <2>3. CASE Crash(r)
    BY <1>4, <1>t, <2>3, Move2 DEF Crash
  <2>4. QED
    BY <1>4, <2>1, <2>2, <2>3 DEF PipelineStep
<1>5. QED
  BY <1>1, <1>2, <1>3, <1>4

\* Only the commit that makes a document READY marks the BM25 row STALE.
THEOREM StaleTogether == Spec => StaleComesWithReady
<1>1. TypeOK /\ PipelineInv /\ [Next]_vars =>
        [bm25' = "STALE" /\ bm25 # "STALE" =>
            \E r \in Requests : doc[r] # "READY" /\ doc'[r] = "READY"]_vars
  <2> SUFFICES ASSUME TypeOK, PipelineInv, Next,
                      bm25' = "STALE", bm25 # "STALE"
               PROVE  \E r \in Requests : doc[r] # "READY" /\ doc'[r] = "READY"
    OBVIOUS
  <2>1. ~IndexerMoves
    BY DEF IndexerMoves
  <2>2. PICK r \in Requests : PipelineStep(r)
    BY <2>1 DEF Next
  <2>t. doc \in [Requests -> DocStatus] /\ RequestInv(r)
    BY DEF TypeOK, PipelineInv
  <2>3. T2EmbedCommit(r)
    BY <2>2 DEF PipelineStep, Upload, UploadInvalid, UploadRefused,
        UploadAccepted, Task1Step, T1Write, T1WriteFails, T1Commit,
        T1CommitFails, T1RefreshFails, T1StartTask2, T1StartTask2Fails,
        SaveFails, Task2Step, T2Parse, T2ParseFails, T2Chunk, T2ChunkFails,
        T2EmbedStore, T2EmbedFails, T2ReadBm25, T2DbFails, StageFails, Crash
  <2>4. doc[r] # "READY" /\ doc'[r] = "READY"
    BY <2>t, <2>3 DEF T2EmbedCommit, RequestInv, AtRest
  <2>5. QED
    BY <2>4
<1>2. QED
  BY <1>1, TypeCorrect, PipelineCorrect, PTL DEF Spec, StaleComesWithReady

\* How task 2 of an upload ended is what its row says, and task 1 ended well
\* only after it had published task 2.
OutcomeInv(r) ==
    /\ t2[r].st = "failure" => doc[r] = "FAILED"
    /\ t2[r].st = "success" => doc[r] = "READY"
    /\ t2[r].st # "raised"
    /\ sent[r] > 0 => t2[r].st # "none"
    /\ t1[r].st = "success" => sent[r] > 0

\* A step of the upload keeps this while the database answers.
LEMMA OutcomeStep ==
    ASSUME ~DbFaults, TypeOK, TypeOK', NEW r \in Requests, RequestInv(r),
           OutcomeInv(r), PipelineStep(r)
    PROVE  OutcomeInv(r)'
<1>t. /\ doc \in [Requests -> DocStatus] /\ sent \in [Requests -> Nat]
      /\ t1 \in [Requests -> Task1] /\ t2 \in [Requests -> Task2]
  BY DEF TypeOK
<1> USE DEF OutcomeInv
<1>1. CASE Upload(r)
  BY <1>1, <1>t, Move1 DEF Upload, UploadInvalid, UploadRefused, UploadAccepted, taskVars
<1>2. CASE Task1Step(r)
  <2>1. ASSUME NEW disk \in {files, files \cup {r}}, SaveFails(r, disk)
        PROVE  OutcomeInv(r)'
    BY <2>1, <1>t, Move1 DEF SaveFails
  <2>2. CASE T1Write(r)
    BY <2>2, <1>t, Move1 DEF T1Write
  <2>3. CASE T1Commit(r)
    BY <2>3, <1>t, Move1 DEF T1Commit, RequestInv, Fresh
  <2>4. CASE T1StartTask2(r)
    BY <2>4, <1>t, Move1 DEF T1StartTask2, PublishTask2, Fresh
  <2>5. CASE T1StartTask2Fails(r)
    BY <2>5, <1>t, Move1 DEF T1StartTask2Fails, PublishTask2, Fresh
  <2>6. QED
    BY <1>2, <2>1, <2>2, <2>3, <2>4, <2>5
       DEF Task1Step, T1WriteFails, T1CommitFails, T1RefreshFails
<1>3. CASE Task2Step(r)
  <2>1. CASE StageFails(r)
    BY <2>1, <1>t, Move2 DEF StageFails
  <2>2. CASE T2EmbedCommit(r)
    BY <2>2, <1>t, Move2 DEF T2EmbedCommit
  <2>3. CASE ~StageFails(r) /\ ~T2EmbedCommit(r)
    <3>1. /\ UNCHANGED <<t1, sent>>
          /\ \E st \in {"parsed", "chunked", "stored", "read"} : Goto2(r, st)
      BY <1>3, <2>3 DEF Task2Step, T2Parse, T2ParseFails, T2Chunk, T2ChunkFails,
          T2EmbedStore, T2EmbedFails, T2ReadBm25, T2DbFails
    <3>2. QED
      BY <3>1, Move2
  <2>4. QED
    BY <2>1, <2>2, <2>3
<1>4. CASE Crash(r)
  BY <1>4, <1>t, Move1, Move2 DEF Crash, AtRest
<1>5. QED
  BY <1>1, <1>2, <1>3, <1>4 DEF PipelineStep

\* While the database answers, an upload that comes to rest with its messages and
\* workers ended READY or FAILED in the row, or never got beyond task 1.
THEOREM OutcomesRecorded == ASSUME ~DbFaults PROVE Spec => []OutcomeIsRecorded
<1> DEFINE Inv == \A r \in Requests : OutcomeInv(r)
<1>1. Init => Inv
  BY DEF Init, OutcomeInv, Fresh
<1>2. TypeOK /\ TypeOK' /\ PipelineInv /\ Inv /\ [Next]_vars => Inv'
  <2> SUFFICES ASSUME TypeOK, TypeOK', PipelineInv, Inv, [Next]_vars,
                      NEW q \in Requests
               PROVE  OutcomeInv(q)'
    OBVIOUS
  <2>1. ASSUME NEW r \in Requests, PipelineStep(r) PROVE OutcomeInv(q)'
    <3>1. CASE r = q
      BY <2>1, <3>1, OutcomeStep DEF PipelineInv
    <3>2. CASE r # q
      BY <2>1, <3>2, OwnStep DEF LeftAlone, PipelineInv, OutcomeInv
    <3>3. QED
      BY <3>1, <3>2
  <2>2. CASE IndexerMoves \/ UNCHANGED vars
    BY <2>2 DEF IndexerMoves, vars, taskVars, OutcomeInv
  <2>3. QED
    BY <2>1, <2>2 DEF Next
<1>3. TypeOK /\ PipelineInv /\ Inv => OutcomeIsRecorded
  <2> SUFFICES ASSUME TypeOK, PipelineInv, Inv, NEW r \in Requests,
                      t1[r].st # "none", Rested(r), ~Lost(r)
               PROVE  IF sent[r] > 0
                        THEN doc[r] \in {"READY", "FAILED"}
                        ELSE /\ doc[r] \in {"NONE", "UPLOADED"}
                             /\ t1[r].st \in {"failure", "raised"}
    BY DEF OutcomeIsRecorded
  <2>1. sent[r] \in Nat /\ OutcomeInv(r) /\ RequestInv(r)
    BY DEF TypeOK, PipelineInv
  <2>2. QED
    BY <2>1 DEF OutcomeInv, RequestInv, Rested, Lost, AtRest
<1>4. QED
  BY <1>1, <1>2, <1>3, TypeCorrect, PipelineCorrect, PTL DEF Spec

-----------------------------------------------------------------------------
(* Every step of a request uses up some of the work it has left.           *)

\* A task that comes to rest, moves on within its attempt, or is queued again
\* with one more try has less to do than before.
LEMMA Less1 ==
    ASSUME NEW r \in Requests, t1[r] \in Task1, t1'[r] \in Task1,
           t1[r].st \notin AtRest,
           \/ t1'[r].st \in AtRest
           \/ t1[r].st = "queued" /\ t1'[r].st = "written" /\ t1'[r].tries = t1[r].tries
           \/ t1[r].st = "written" /\ t1'[r].st = "saved" /\ t1'[r].tries = t1[r].tries
           \/ t1'[r].st = "queued" /\ t1'[r].tries = t1[r].tries + 1
    PROVE  Work1(r)' \in 0..(Work1(r) - 1)
<1>1. /\ t1[r].st \in {"queued", "written", "saved"}
      /\ t1[r].tries \in 0..MaxRetries /\ t1'[r].tries \in 0..MaxRetries
  BY DEF Task1, State1
<1>2. CASE t1'[r].st \in AtRest
  BY <1>1, <1>2, PipelineAssumption DEF Work1, AtRest
<1>3. CASE t1'[r].st \notin AtRest
  BY <1>1, <1>3, PipelineAssumption DEF Work1, AtRest
<1>4. QED
  BY <1>2, <1>3

\* The same of task 2 and its five stages.
LEMMA Less2 ==
    ASSUME NEW r \in Requests, t2[r] \in Task2, t2'[r] \in Task2,
           t2[r].st \notin AtRest,
           \/ t2'[r].st \in AtRest
           \/ /\ t2'[r].tries = t2[r].tries
              /\ <<t2[r].st, t2'[r].st>> \in
                    {<<"queued", "parsed">>, <<"parsed", "chunked">>,
                     <<"chunked", "stored">>, <<"stored", "read">>}
           \/ t2'[r].st = "queued" /\ t2'[r].tries = t2[r].tries + 1
    PROVE  Work2(r)' \in 0..(Work2(r) - 1)
<1>1. /\ t2[r].st \in {"queued", "parsed", "chunked", "stored", "read"}
      /\ t2[r].tries \in 0..MaxRetries /\ t2'[r].tries \in 0..MaxRetries
  BY DEF Task2, State2
<1>2. CASE t2'[r].st \in AtRest
  BY <1>1, <1>2, PipelineAssumption DEF Work2, AtRest
<1>3. CASE t2'[r].tries = t2[r].tries /\ t2'[r].st \notin AtRest
  BY <1>1, <1>3, PipelineAssumption DEF Work2, AtRest
<1>4. CASE t2'[r].st = "queued" /\ t2'[r].tries = t2[r].tries + 1
  BY <1>1, <1>4, PipelineAssumption DEF Work2, AtRest
<1>5. QED
  BY <1>2, <1>3, <1>4

\* A step of a request answers it, or works one of its tasks down.
LEMMA StepSpends ==
    ASSUME TypeOK, TypeOK', NEW r \in Requests, PipelineStep(r)
    PROVE  Spends(r)
<1>t. /\ t1[r] \in Task1 /\ t1'[r] \in Task1 /\ t2[r] \in Task2 /\ t2'[r] \in Task2
      /\ answer \in [Requests -> Answers]
  BY DEF TypeOK
<1>1. CASE Upload(r)
  BY <1>1, <1>t DEF Upload, UploadInvalid, UploadRefused, UploadAccepted, Spends
<1>2. CASE Task1Step(r)
  <2>1. UNCHANGED answer[r]
    BY <1>2 DEF Task1Step, T1Write, T1WriteFails, T1Commit, T1CommitFails,
        T1RefreshFails, T1StartTask2, T1StartTask2Fails, SaveFails
  <2>2. /\ t1[r].st \notin AtRest
        /\ \/ Retry1(r)
           \/ t1[r].st = "queued" /\ Goto1(r, "written")
           \/ t1[r].st = "written" /\ Goto1(r, "saved")
           \/ Goto1(r, "success") \/ Goto1(r, "raised")
    BY <1>2 DEF Task1Step, T1Write, T1WriteFails, T1Commit, T1CommitFails,
        T1RefreshFails, T1StartTask2, T1StartTask2Fails, SaveFails, AtRest
  <2>3. Work1(r)' \in 0..(Work1(r) - 1)
    BY <1>t, <2>2, Move1, Less1 DEF AtRest
  <2>4. QED
    BY <2>1, <2>3 DEF Spends
<1>3. CASE Task2Step(r)
  <2>1. UNCHANGED <<answer[r], t1[r]>>
    BY <1>3 DEF Task2Step, T2Parse, T2ParseFails, T2Chunk, T2ChunkFails,
        T2EmbedStore, T2EmbedFails, T2ReadBm25, T2EmbedCommit, T2DbFails, StageFails
  <2>2. /\ t2[r].st \notin AtRest
        /\ \/ Retry2(r)
           \/ t2[r].st = "queued" /\ Goto2(r, "parsed")
           \/ t2[r].st = "parsed" /\ Goto2(r, "chunked")
           \/ t2[r].st = "chunked" /\ Goto2(r, "stored")
           \/ t2[r].st = "stored" /\ Goto2(r, "read")
           \/ Goto2(r, "success") \/ Goto2(r, "raised")
    BY <1>3 DEF Task2Step, T2Parse, T2ParseFails, T2Chunk, T2ChunkFails,
        T2EmbedStore, T2EmbedFails, T2ReadBm25, T2EmbedCommit, T2DbFails,
        StageFails, AtRest
  <2>3. Work2(r)' \in 0..(Work2(r) - 1)
    BY <1>t, <2>2, Move2, Less2 DEF AtRest
  <2>4. QED
    BY <2>1, <2>3 DEF Spends
<1>4. CASE Crash(r)
  <2>1. CASE t1[r].st \notin AtRest /\ Goto1(r, "lost")
    <3>1. Work1(r)' \in 0..(Work1(r) - 1)
      BY <1>t, <2>1, Move1, Less1 DEF AtRest
    <3>2. QED
      BY <1>4, <3>1 DEF Crash, Spends
  <2>2. CASE t2[r].st \notin AtRest /\ Goto2(r, "lost") /\ UNCHANGED t1
    <3>1. Work2(r)' \in 0..(Work2(r) - 1)
      BY <1>t, <2>2, Move2, Less2 DEF AtRest
    <3>2. QED
      BY <1>4, <2>2, <3>1 DEF Crash, Spends
  <2>3. QED
    BY <1>4, <2>1, <2>2 DEF Crash
<1>5. QED
  BY <1>1, <1>2, <1>3, <1>4 DEF PipelineStep

\* No step touches an upload without using up some of its work: whatever
\* fails, is retried or dies, only finitely many steps are left for it.
THEOREM WorkEnds == Spec => WorkRunsDown
<1>1. /\ TypeOK /\ TypeOK' /\ PipelineInv /\ [Next]_vars =>
            [\A r \in Requests : LeftAlone(r) \/ Spends(r)]_vars
  <2> SUFFICES ASSUME TypeOK, TypeOK', PipelineInv, [Next]_vars, NEW r \in Requests
               PROVE  LeftAlone(r) \/ Spends(r)
    OBVIOUS
  <2>1. ASSUME NEW q \in Requests, PipelineStep(q) PROVE LeftAlone(r) \/ Spends(r)
    BY <2>1, OwnStep, StepSpends DEF PipelineInv
  <2>2. CASE IndexerMoves \/ UNCHANGED vars
    BY <2>2 DEF IndexerMoves, vars, taskVars, LeftAlone
  <2>3. QED
    BY <2>1, <2>2 DEF Next
<1>2. QED
  BY <1>1, TypeCorrect, PipelineCorrect, PTL DEF Spec, WorkRunsDown

-----------------------------------------------------------------------------
(* The pipeline implements Corpus.                                         *)

\* A step of a request gives it its row, or its first chunks once it has a
\* row, or changes neither.
LEMMA StepGrows ==
    ASSUME TypeOK, PipelineInv, NEW r \in Requests, PipelineStep(r)
    PROVE  /\ \/ doc[r] = "NONE" /\ UNCHANGED chunks[r]
              \/ doc[r] # "NONE" /\ doc'[r] # "NONE"
           /\ \/ UNCHANGED chunks[r]
              \/ doc[r] # "NONE" /\ chunks'[r] = chunks[r] + 1
<1>t. /\ doc \in [Requests -> DocStatus] /\ chunks \in [Requests -> Nat]
      /\ RequestInv(r)
  BY DEF TypeOK, PipelineInv
<1>1. CASE Upload(r)
  BY <1>1, <1>t DEF Upload, UploadInvalid, UploadRefused, UploadAccepted
<1>2. CASE Task1Step(r)
  BY <1>2, <1>t DEF Task1Step, T1Write, T1WriteFails, T1Commit, T1CommitFails,
      T1RefreshFails, T1StartTask2, T1StartTask2Fails, SaveFails
<1>3. CASE Task2Step(r)
  <2>1. doc[r] # "NONE"
    <3>1. t2[r].st \notin AtRest
      BY <1>3 DEF Task2Step, T2Parse, T2ParseFails, T2Chunk, T2ChunkFails,
          T2EmbedStore, T2EmbedFails, T2ReadBm25, T2EmbedCommit, T2DbFails, AtRest
    <3>2. QED
      BY <1>t, <3>1 DEF RequestInv, Fresh, AtRest
  <2>2. doc'[r] # "NONE"
    BY <1>3, <1>t, <2>1 DEF Task2Step, T2Parse, T2ParseFails, T2Chunk, T2ChunkFails,
        T2EmbedStore, T2EmbedFails, T2ReadBm25, T2EmbedCommit, T2DbFails, StageFails
  <2>3. UNCHANGED chunks[r] \/ chunks'[r] = chunks[r] + 1
    BY <1>3, <1>t DEF Task2Step, T2Parse, T2ParseFails, T2Chunk, T2ChunkFails,
        T2EmbedStore, T2EmbedFails, T2ReadBm25, T2EmbedCommit, T2DbFails
  <2>4. QED
    BY <2>1, <2>2, <2>3
<1>4. CASE Crash(r)
  BY <1>4 DEF Crash
<1>5. QED
  BY <1>1, <1>2, <1>3, <1>4 DEF PipelineStep

\* Whatever fails, rows and chunks only come, a row before its chunks: what
\* the answer cache takes for granted of the ingestion.
THEOREM CorpusImplemented == Spec => CorpusGrows
<1> DEFINE Rows == {r \in Requests : doc[r] # "NONE"}
           Found == {r \in Requests : chunks[r] > 0}
<1>1. Init => C!CorpusInit
  BY DEF Init, C!CorpusInit
<1>2. TypeOK /\ PipelineInv /\ [Next]_vars => [C!Grow]_(C!corpusVars)
  <2> SUFFICES ASSUME TypeOK, PipelineInv, [Next]_vars
               PROVE  C!Grow \/ (Rows' = Rows /\ Found' = Found)
    BY DEF C!corpusVars
  <2>t. chunks \in [Requests -> Nat]
    BY DEF TypeOK
  <2>1. ASSUME NEW r \in Requests, PipelineStep(r)
        PROVE  C!Grow \/ (Rows' = Rows /\ Found' = Found)
    <3>1. \A q \in Requests \ {r} : doc'[q] = doc[q] /\ chunks'[q] = chunks[q]
      BY <2>1, OwnStep DEF PipelineInv, LeftAlone
    <3>2. CASE UNCHANGED chunks[r] /\ doc'[r] # "NONE" /\ doc[r] = "NONE"
      <4>1. Rows' = Rows \cup {r} /\ r \notin Rows /\ Found' = Found
        BY <3>1, <3>2
      <4>2. C!NewRow(r)
        BY <4>1 DEF C!NewRow
      <4>3. QED
        BY <4>2 DEF C!Grow
    <3>3. CASE doc'[r] # "NONE" /\ doc[r] # "NONE" /\ chunks[r] = 0 /\ chunks'[r] > 0
      <4>1. Found' = Found \cup {r} /\ r \in Rows \ Found /\ Rows' = Rows
        BY <3>1, <3>3
      <4>2. C!NewChunks(r)
        BY <4>1 DEF C!NewChunks
      <4>3. QED
        BY <4>2 DEF C!Grow
    <3>4. CASE /\ (doc'[r] # "NONE") = (doc[r] # "NONE")
               /\ (chunks'[r] > 0) = (chunks[r] > 0)
      <4>1. Rows' = Rows /\ Found' = Found
        BY <3>1, <3>4
      <4>2. QED
        BY <4>1
    <3>5. QED
      BY <2>1, <2>t, <3>2, <3>3, <3>4, StepGrows
  <2>2. CASE IndexerMoves \/ UNCHANGED vars
    BY <2>2 DEF IndexerMoves, vars
  <2>3. QED
    BY <2>1, <2>2 DEF Next
<1>3. QED
  BY <1>1, <1>2, TypeCorrect, PipelineCorrect, PTL
     DEF Spec, CorpusGrows, C!CorpusSpec

-----------------------------------------------------------------------------
(* Uploads one at a time.                                                  *)

\* The request has a row, or task 1 is at work on one.
Holds(r) == doc[r] # "NONE" \/ t1[r].st \notin AtRest

\* No two requests hold the same content, and none holds one before it has
\* been answered.
SerialInv ==
    /\ \A r \in Requests : answer[r] = "none" => ~Holds(r)
    /\ \A r, q \in Requests :
        Holds(r) /\ Holds(q) /\ content[r] = content[q] => r = q

\* Once it has been answered, a request comes to hold nothing new, and keeps
\* its content.
LEMMA HoldsStep ==
    ASSUME TypeOK, PipelineInv, NEW r \in Requests, PipelineStep(r), answer[r] # "none"
    PROVE  answer'[r] # "none" /\ UNCHANGED content /\ (Holds(r)' => Holds(r))
<1>t. /\ t1[r] \in Task1 /\ t2[r] \in Task2 /\ RequestInv(r)
      /\ doc \in [Requests -> DocStatus]
  BY DEF TypeOK, PipelineInv
<1>1. ~Upload(r)
  BY DEF Upload, UploadInvalid, UploadRefused, UploadAccepted
<1>2. CASE Task1Step(r)
  BY <1>2, <1>t DEF Task1Step, T1Write, T1WriteFails, T1Commit, T1CommitFails,
      T1RefreshFails, T1StartTask2, T1StartTask2Fails, SaveFails, Holds, AtRest
<1>3. CASE Task2Step(r)
  <2>1. t2[r].st \notin AtRest
    BY <1>3 DEF Task2Step, T2Parse, T2ParseFails, T2Chunk, T2ChunkFails,
        T2EmbedStore, T2EmbedFails, T2ReadBm25, T2EmbedCommit, T2DbFails, AtRest
  <2>2. doc[r] # "NONE"
    BY <1>t, <2>1 DEF RequestInv, Fresh, AtRest
  <2>3. UNCHANGED <<answer, content>>
    BY <1>3 DEF Task2Step, T2Parse, T2ParseFails, T2Chunk, T2ChunkFails,
        T2EmbedStore, T2EmbedFails, T2ReadBm25, T2EmbedCommit, T2DbFails, StageFails
  <2>4. QED
    BY <2>2, <2>3 DEF Holds
<1>4. CASE Crash(r)
  BY <1>4, <1>t, Move1 DEF Crash, Holds, AtRest
<1>5. QED
  BY <1>1, <1>2, <1>3, <1>4 DEF PipelineStep

\* The first step of a request is the route's, and answers it.
LEMMA FirstStep ==
    ASSUME TypeOK, PipelineInv, SerialInv, NEW r \in Requests,
           PipelineStep(r), answer[r] = "none"
    PROVE  /\ answer'[r] # "none"
           /\ Holds(r)' => \E c \in Contents : UploadAccepted(r, c)
<1>t. /\ answer \in [Requests -> Answers] /\ doc \in [Requests -> DocStatus]
      /\ t1 \in [Requests -> Task1] /\ RequestInv(r) /\ ~Holds(r)
  BY DEF TypeOK, PipelineInv, SerialInv
<1>1. sent[r] = 0 /\ t2[r].st \in AtRest
  BY <1>t DEF RequestInv, Holds, Fresh, AtRest
<1>2. ~Task1Step(r) /\ ~Task2Step(r)
  BY <1>t, <1>1 DEF Task1Step, T1Write, T1WriteFails, T1Commit, T1CommitFails,
      T1RefreshFails, T1StartTask2, T1StartTask2Fails, Task2Step, T2Parse,
      T2ParseFails, T2Chunk, T2ChunkFails, T2EmbedStore, T2EmbedFails,
      T2ReadBm25, T2EmbedCommit, T2DbFails, Holds, AtRest
<1>3. ~Crash(r)
  BY <1>t, <1>1 DEF Crash, Holds
<1>4. Upload(r)
  BY <1>2, <1>3 DEF PipelineStep
<1>5. answer'[r] # "none"
  BY <1>4, <1>t DEF Upload, UploadInvalid, UploadRefused, UploadAccepted
<1>6. Holds(r)' => \E c \in Contents : UploadAccepted(r, c)
  BY <1>4, <1>t DEF Upload, UploadInvalid, UploadRefused, Holds, taskVars
<1>7. QED
  BY <1>5, <1>6

\* A request that is answered while no task 1 is under way comes to hold a
\* content only when nobody has it.
LEMMA AnswerStep ==
    ASSUME TypeOK, PipelineInv, SerialInv, OneAtATime, NEW r \in Requests,
           PipelineStep(r), answer[r] = "none", Holds(r)'
    PROVE  \A q \in Requests \ {r} : Holds(q) => content[q] # content'[r]
<1>1. PICK c \in Contents : UploadAccepted(r, c)
  BY FirstStep
<1>2. answer'[r] # "none" /\ content'[r] = c /\ RowsOf(c) = {}
  BY <1>1, FirstStep DEF UploadAccepted, TypeOK
<1>3. \A q \in Requests : t1[q].st \in AtRest
  BY <1>2 DEF OneAtATime
<1>4. QED
  BY <1>2, <1>3 DEF Holds, RowsOf

\* While a user's uploads wait for each other's task 1, no content gets a
\* second row, and the duplicate query finds at most one.
THEOREM OneRowWhenSerial == SerialSpec => []OneRowPerContent
<1>1. Init => SerialInv
  BY DEF Init, SerialInv, Holds, Fresh, AtRest
<1>2. TypeOK /\ PipelineInv /\ SerialInv /\ [Next /\ OneAtATime]_vars => SerialInv'
  <2> SUFFICES ASSUME TypeOK, PipelineInv, SerialInv, [Next /\ OneAtATime]_vars
               PROVE  SerialInv'
    OBVIOUS
  <2>1. ASSUME NEW r \in Requests, PipelineStep(r), OneAtATime PROVE SerialInv'
    <3>1. \A q \in Requests \ {r} : /\ Holds(q)' <=> Holds(q)
                                     /\ answer'[q] = answer[q] /\ content'[q] = content[q]
      BY <2>1, OwnStep DEF PipelineInv, LeftAlone, Holds
    <3>2. answer'[r] = "none" => ~Holds(r)'
      BY <2>1, HoldsStep, FirstStep
    <3>3. Holds(r)' => \A q \in Requests \ {r} : Holds(q) => content[q] # content'[r]
      BY <2>1, HoldsStep, AnswerStep DEF SerialInv
    <3>4. QED
      BY <3>1, <3>2, <3>3 DEF SerialInv
  <2>2. CASE IndexerMoves \/ UNCHANGED vars
    BY <2>2 DEF IndexerMoves, vars, taskVars, SerialInv, Holds
  <2>3. QED
    BY <2>1, <2>2 DEF Next
<1>3. ASSUME SerialInv PROVE OneRowPerContent
  <2> SUFFICES ASSUME NEW c \in Contents PROVE Cardinality(RowsOf(c)) <= 1
    BY DEF OneRowPerContent
  <2>1. \A r, q \in RowsOf(c) : r = q
    BY <1>3 DEF SerialInv, RowsOf, Holds
  <2>2. RowsOf(c) = {} \/ \E r : RowsOf(c) = {r}
    BY <2>1
  <2>3. Cardinality(RowsOf(c)) \in {0, 1}
    BY <2>2, FS_EmptySet, FS_Singleton
  <2>4. QED
    BY <2>3
<1>4. SerialSpec => Spec
  BY PTL DEF SerialSpec, Spec
<1>5. QED
  BY <1>1, <1>2, <1>3, <1>4, TypeCorrect, PipelineCorrect, PTL DEF SerialSpec
=============================================================================
