-------------------------- MODULE IndexBuildProofs --------------------------
(***************************************************************************)
(* Proofs about the index builders composed with the pipeline, for any     *)
(* number of documents, polls and tasks at once, and every combination of  *)
(* faults: the composition implements the pipeline's specification, and    *)
(* its indexes are built from READY documents and are where the rows say.  *)
(***************************************************************************)
EXTENDS IndexBuild, TLAPS

\* The pipeline's lemmas, for the pipeline inside this module.
PP == INSTANCE DocPipelineProofs WITH
        StageFaults <- PipelineFaults /\ StageFaults,
        DbFaults <- PipelineFaults /\ DbFaults,
        BrokerFaults <- PipelineFaults /\ BrokerFaults,
        Crashes <- PipelineFaults /\ Crashes

-----------------------------------------------------------------------------
(* P and PP are the same instance of DocPipeline.                          *)

\* What the pipeline assumes of its constants holds here.
LEMMA SameAssumption == PP!PipelineAssumption
  BY IndexAssumption DEF P!PipelineAssumption, PP!PipelineAssumption

\* The same steps of a request ...
LEMMA SameStep ==
    ASSUME NEW r \in Requests PROVE P!PipelineStep(r) <=> PP!PipelineStep(r)
<1>0. ASSUME NEW S PROVE P!Cardinality(S) = PP!Cardinality(S)
  BY DEF P!Cardinality, PP!Cardinality
<1>1. P!Upload(r) <=> PP!Upload(r)
  BY <1>0 DEF P!Upload, PP!Upload, P!UploadInvalid, PP!UploadInvalid,
      P!UploadRefused, PP!UploadRefused, P!UploadAccepted,
      PP!UploadAccepted, P!RowsOf, PP!RowsOf, P!Goto1, PP!Goto1,
      P!taskVars, PP!taskVars
<1>2. P!Task1Step(r) <=> PP!Task1Step(r)
  BY DEF P!Task1Step, PP!Task1Step, P!T1Write, PP!T1Write, P!T1WriteFails,
      PP!T1WriteFails, P!T1Commit, PP!T1Commit, P!T1CommitFails,
      PP!T1CommitFails, P!T1RefreshFails, PP!T1RefreshFails,
      P!T1StartTask2, PP!T1StartTask2, P!T1StartTask2Fails,
      PP!T1StartTask2Fails, P!SaveFails, PP!SaveFails, P!PublishTask2,
      PP!PublishTask2, P!Goto1, PP!Goto1, P!Retry1, PP!Retry1,
      P!RetryOutcomes, PP!RetryOutcomes, P!Fresh, PP!Fresh
<1>3. P!Task2Step(r) <=> PP!Task2Step(r)
  BY DEF P!Task2Step, PP!Task2Step, P!T2Parse, PP!T2Parse, P!T2ParseFails,
      PP!T2ParseFails, P!T2Chunk, PP!T2Chunk, P!T2ChunkFails,
      PP!T2ChunkFails, P!T2EmbedStore, PP!T2EmbedStore, P!T2EmbedFails,
      PP!T2EmbedFails, P!T2ReadBm25, PP!T2ReadBm25, P!T2EmbedCommit,
      PP!T2EmbedCommit, P!T2DbFails, PP!T2DbFails, P!StageFails,
      PP!StageFails, P!Goto2, PP!Goto2, P!Retry2, PP!Retry2,
      P!RetryOutcomes, PP!RetryOutcomes, P!AtRest, PP!AtRest, P!taskVars,
      PP!taskVars
<1>4. P!Crash(r) <=> PP!Crash(r)
  BY DEF P!Crash, PP!Crash, P!Goto1, PP!Goto1, P!Goto2, PP!Goto2,
      P!AtRest, PP!AtRest
<1>5. QED
  BY <1>1, <1>2, <1>3, <1>4 DEF P!PipelineStep, PP!PipelineStep

\* ... the same next-state relation ...
LEMMA SameNext == P!Next <=> PP!Next
  BY SameStep
     DEF P!Next, PP!Next, P!IndexerMoves, PP!IndexerMoves, P!taskVars, PP!taskVars

\* ... the same initial states ...
LEMMA SameInit == P!Init <=> PP!Init
  BY DEF P!Init, PP!Init, P!Fresh, PP!Fresh

\* ... and the same types.
LEMMA SameType == P!TypeOK <=> PP!TypeOK
  BY DEF P!TypeOK, PP!TypeOK, P!Answers, PP!Answers, P!DocStatus,
      PP!DocStatus, P!Task1, PP!Task1, P!Task2, PP!Task2, P!State1,
      PP!State1, P!State2, PP!State2, P!AtRest, PP!AtRest, P!Bm25Status,
      PP!Bm25Status

-----------------------------------------------------------------------------
(* Types.                                                                  *)

\* The variables of this module, without those of the pipeline.
OwnTypeOK ==
    /\ summary \in [Requests -> MultiStatus]
    /\ explanation \in [Requests -> MultiStatus]
    /\ built \subseteq Requests \X {"s", "e"}
    /\ version \in 0..MaxVersion
    /\ tmp \in [Names -> FileState]
    /\ pickle \in [Names -> FileState]
    /\ poll \in [Pollers -> PollState]
    /\ mi \in [MultiTasks -> MiState]
    /\ bm \in [Bm25Tasks -> BmState]

\* A poll holds the fields of the step it has reached.
LEMMA PollTypes ==
    ASSUME NEW p \in Pollers, OwnTypeOK, bm25 \in P!Bm25Status,
           PollStep(p) \/ \E r \in Requests : PollDocument(p, r)
    PROVE  poll' \in [Pollers -> PollState]
<1> USE DEF OwnTypeOK
<1>1. CASE Answers(p) \/ Raises(p)
  BY <1>1 DEF Answers, Raises, PollState
<1>2. ASSUME NEW r \in Requests, PollDocument(p, r)
      PROVE  poll' \in [Pollers -> PollState]
  <2>1. [st |-> "bm25", r |-> r, s |-> summary[r], e |-> explanation[r]]
            \in PollState
    BY DEF PollState
  <2>2. QED
    BY <1>1, <1>2, <2>1 DEF PollDocument
<1>3. CASE PollBm25(p)
  <2>1. poll[p] \in [st: {"bm25", "insert", "refresh"}, r: Requests,
                     s: MultiStatus, e: MultiStatus]
    BY <1>3 DEF PollBm25, PollState, NoPoll, Raised
  <2>2. [poll[p] EXCEPT !.st = "insert"] \in PollState
    BY <2>1 DEF PollState
  <2>3. [st |-> "decide", r |-> poll[p].r, s |-> poll[p].s, e |-> poll[p].e,
         b |-> bm25] \in PollState
    BY <2>1 DEF PollState
  <2>4. QED
    BY <1>3, <2>2, <2>3 DEF PollBm25
<1>4. CASE PollInsert(p)
  <2>1. poll[p] \in [st: {"bm25", "insert", "refresh"}, r: Requests,
                     s: MultiStatus, e: MultiStatus]
    BY <1>4 DEF PollInsert, PollState, NoPoll, Raised
  <2>2. [poll[p] EXCEPT !.st = "refresh"] \in PollState
    BY <2>1 DEF PollState
  <2>3. QED
    BY <1>1, <1>4, <2>2 DEF PollInsert
<1>r. CASE PollRefresh(p)
  <2>1. poll[p] \in [st: {"bm25", "insert", "refresh"}, r: Requests,
                     s: MultiStatus, e: MultiStatus]
    BY <1>r DEF PollRefresh, PollState, NoPoll, Raised
  <2>2. [st |-> "decide", r |-> poll[p].r, s |-> poll[p].s, e |-> poll[p].e,
         b |-> bm25] \in PollState
    BY <2>1 DEF PollState
  <2>3. QED
    BY <1>r, <2>2 DEF PollRefresh
<1>5. CASE PollMark(p)
  <2>1. poll[p].r \in Requests
    BY <1>5 DEF PollMark, PollState, NoPoll, Raised
  <2>2. [st |-> "fire", r |-> poll[p].r, cs |-> poll[p].s \in Todo,
         ce |-> poll[p].e \in Todo, cb |-> poll[p].b \in Bm25Todo] \in PollState
    BY <2>1 DEF PollState
  <2>3. \/ Answers(p)
        \/ poll' = [poll EXCEPT ![p] =
                [st |-> "fire", r |-> poll[p].r, cs |-> poll[p].s \in Todo,
                 ce |-> poll[p].e \in Todo, cb |-> poll[p].b \in Bm25Todo]]
    BY <1>5 DEF PollMark
  <2>4. QED
    BY <1>1, <2>2, <2>3
<1>6. QED
  BY <1>1, <1>2, <1>3, <1>4, <1>r, <1>5 DEF PollStep, PollDbFails, PollFire

\* A build reports READY only of an index that is there: READY before, or
\* written by it.
LEMMA Outcomes ==
    \A w, i : \A s \in MultiStatus : \A o \in BuildOutcomes(w, s, i) :
        /\ o[1] \in MultiStatus /\ o[2] \subseteq {i}
        /\ o[1] = "READY" => s = "READY" \/ i \in o[2]
  BY DEF BuildOutcomes, MultiStatus

\* The same of the tasks: of one document's indexes ...
LEMMA MiTypes ==
    ASSUME NEW m \in MultiTasks, OwnTypeOK, MiStep(m)
    PROVE  /\ mi' \in [MultiTasks -> MiState]
           /\ built' \subseteq Requests \X {"s", "e"}
           /\ summary' \in [Requests -> MultiStatus]
           /\ explanation' \in [Requests -> MultiStatus]
<1> USE DEF OwnTypeOK
<1>n. MaxRetries \in Nat
  BY SameAssumption DEF PP!PipelineAssumption
<1>1. CASE MiRead(m)
  <2>1. mi[m] \in [st: {"queued"}, r: Requests, cs: BOOLEAN, ce: BOOLEAN,
                   tries: 0..MaxRetries]
    BY <1>1 DEF MiRead, MiState, NoTask
  <2>2. [st |-> "read", r |-> mi[m].r, cs |-> mi[m].cs, ce |-> mi[m].ce,
         tries |-> mi[m].tries, s |-> summary[mi[m].r],
         e |-> explanation[mi[m].r]] \in MiState
    BY <2>1 DEF MiState
  <2>3. QED
    BY <1>1, <2>2 DEF MiRead, rowVars
<1>2. ASSUME mi[m].st \in {"read", "summed", "explained"}
      PROVE  mi[m] \in [st: {"read", "summed", "explained"}, r: Requests,
                        cs: BOOLEAN, ce: BOOLEAN, tries: 0..MaxRetries,
                        s: MultiStatus, e: MultiStatus]
  BY <1>2 DEF MiState, NoTask
<1>4. CASE MiSummary(m)
  <2>1. PICK o \in BuildOutcomes(mi[m].cs, mi[m].s, <<mi[m].r, "s">>) :
            /\ mi' = [mi EXCEPT ![m] = [mi[m] EXCEPT !.st = "summed", !.s = o[1]]]
            /\ built' = built \cup o[2]
    BY <1>4 DEF MiSummary
  <2>a. mi[m].s \in MultiStatus /\ mi[m].r \in Requests
    BY <1>2, <1>4 DEF MiSummary
  <2>2. o[1] \in MultiStatus /\ o[2] \subseteq {<<mi[m].r, "s">>}
    BY Outcomes, <2>a
  <2>3. [mi[m] EXCEPT !.st = "summed", !.s = o[1]] \in MiState
    BY <1>2, <1>4, <2>2 DEF MiSummary, MiState
  <2>4. QED
    BY <1>2, <1>4, <2>1, <2>2, <2>3 DEF MiSummary, rowVars
<1>5. CASE MiExplanation(m)
  <2>1. PICK o \in BuildOutcomes(mi[m].ce, mi[m].e, <<mi[m].r, "e">>) :
            /\ mi' = [mi EXCEPT ![m] =
                        [mi[m] EXCEPT !.st = "explained", !.e = o[1]]]
            /\ built' = built \cup o[2]
    BY <1>5 DEF MiExplanation
  <2>a. mi[m].e \in MultiStatus /\ mi[m].r \in Requests
    BY <1>2, <1>5 DEF MiExplanation
  <2>2. o[1] \in MultiStatus /\ o[2] \subseteq {<<mi[m].r, "e">>}
    BY Outcomes, <2>a
  <2>3. [mi[m] EXCEPT !.st = "explained", !.e = o[1]] \in MiState
    BY <1>2, <1>5, <2>2 DEF MiExplanation, MiState
  <2>4. QED
    BY <1>2, <1>5, <2>1, <2>2, <2>3 DEF MiExplanation, rowVars
<1>6. CASE MiWrite(m)
  BY <1>2, <1>6 DEF MiWrite, MiDone, MiState
<1>7. CASE MiFails(m)
  <2>1. /\ mi[m].r \in Requests /\ mi[m].cs \in BOOLEAN /\ mi[m].ce \in BOOLEAN
        /\ mi[m].tries \in 0..MaxRetries
    BY <1>7 DEF MiFails, MiState, NoTask
  <2>2. mi[m].tries < MaxRetries =>
          [st |-> "queued", r |-> mi[m].r, cs |-> mi[m].cs, ce |-> mi[m].ce,
           tries |-> mi[m].tries + 1] \in MiState
    BY <1>n, <2>1 DEF MiState
  <2>3. QED
    BY <1>7, <2>2 DEF MiFails, MiRetry, MiState, rowVars
<1>8. QED
  BY <1>1, <1>4, <1>5, <1>6, <1>7 DEF MiStep

\* What closing or breaking the files of a builder does to each of them.
LEMMA FilesOf ==
    ASSUME NEW F \in [Names -> FileState], NEW b \in Bm25Tasks
    PROVE  /\ Closed(F, b) \in [Names -> FileState]
           /\ Broken(F, b) \in [Names -> FileState]
           /\ \A n \in Names :
                /\ Closed(F, b)[n].st = F[n].st
                /\ Broken(F, b)[n].st = IF b \in F[n].by THEN "torn" ELSE F[n].st
                /\ \A G \in {Closed(F, b), Broken(F, b)} :
                      G[n].docs = F[n].docs /\ G[n].by = F[n].by \ {b}
<1>1. ASSUME NEW n \in Names
      PROVE  /\ F[n] \in FileState
             /\ [F[n] EXCEPT !.by = @ \ {b}] \in FileState
             /\ [F[n] EXCEPT !.by = @ \ {b}, !.st = "torn"] \in FileState
  BY DEF FileState
<1>2. ASSUME NEW n \in Names
      PROVE  /\ Closed(F, b)[n] = [F[n] EXCEPT !.by = @ \ {b}]
             /\ Broken(F, b)[n] = IF b \in F[n].by
                                    THEN [F[n] EXCEPT !.by = @ \ {b}, !.st = "torn"]
                                    ELSE F[n]
  BY DEF Closed, Broken
<1>3. ASSUME NEW n \in Names
      PROVE  /\ Closed(F, b)[n].st = F[n].st
             /\ Broken(F, b)[n].st = IF b \in F[n].by THEN "torn" ELSE F[n].st
             /\ Closed(F, b)[n].docs = F[n].docs
             /\ Broken(F, b)[n].docs = F[n].docs
             /\ Closed(F, b)[n].by = F[n].by \ {b}
             /\ Broken(F, b)[n].by = F[n].by \ {b}
  <2>1. F[n] \in [st: {"absent", "whole", "torn"}, docs: SUBSET Requests,
                 by: SUBSET Bm25Tasks]
    BY DEF FileState
  <2> DEFINE c == [F[n] EXCEPT !.by = @ \ {b}]
             t == [F[n] EXCEPT !.by = @ \ {b}, !.st = "torn"]
  <2>2. /\ c.st = F[n].st /\ c.docs = F[n].docs /\ c.by = F[n].by \ {b}
        /\ t.st = "torn" /\ t.docs = F[n].docs /\ t.by = F[n].by \ {b}
    BY <2>1
  <2>3. Closed(F, b)[n] = c /\ Broken(F, b)[n] = IF b \in F[n].by THEN t ELSE F[n]
    BY <1>2
  <2>4. b \notin F[n].by => F[n].by = F[n].by \ {b}
    OBVIOUS
  <2> HIDE DEF c, t
  <2>5. QED
    BY <2>2, <2>3, <2>4
<1>4. Closed(F, b) \in [Names -> FileState] /\ Broken(F, b) \in [Names -> FileState]
  BY <1>1 DEF Closed, Broken
<1>5. QED
  BY <1>3, <1>4

\* A builder goes on to step st, and to its file of kind k.
GoesOn(b, st, k) ==
    /\ bm[b] # NoTask
    /\ bm'[b].st = st /\ bm'[b].k = k
    /\ bm'[b].tries = bm[b].tries /\ bm'[b].docs = bm[b].docs
    /\ bm'[b].v = bm[b].v /\ bm[b].v \in 1..MaxVersion
    /\ bm[b].k \in Kinds /\ Mine(b) \in Names

\* What each step of the BM25 task makes of its record.
LEMMA BmRecords ==
    ASSUME OwnTypeOK, NEW b \in Bm25Tasks
    PROVE  /\ BmStep(b) => /\ bm[b] # NoTask /\ bm' \in [Bm25Tasks -> BmState]
                           /\ \A c \in Bm25Tasks : c # b => bm'[c] = bm[c]
           /\ BmList(b) => /\ bm'[b].st = "listed" /\ bm'[b].docs = ReadyDocs
                           /\ bm'[b].tries = bm[b].tries
           /\ BmRead(b) => /\ bm'[b].st = "open" /\ bm'[b].k = "docs"
                           /\ bm'[b].docs = bm[b].docs /\ bm'[b].v = version + 1
                           /\ bm'[b].tries = bm[b].tries
           /\ BmFails(b) => \/ bm'[b] = NoTask
                            \/ /\ bm'[b].st = "queued"
                               /\ bm'[b].tries = bm[b].tries + 1
           /\ BmOpen(b) => GoesOn(b, "write", bm[b].k)
           /\ BmWrite(b) => IF bm[b].k = "docs" THEN GoesOn(b, "open", "retriever")
                                               ELSE GoesOn(b, "move", "docs")
           /\ BmMove(b) /\ tmp[Mine(b)].st # "absent" =>
                  IF bm[b].k = "docs" THEN GoesOn(b, "move", "retriever")
                                      ELSE GoesOn(b, "published", "retriever")
           /\ bm[b].st \in Works => /\ Mine(b) \in Names /\ bm[b].k \in Kinds
                                    /\ bm[b].v \in 1..MaxVersion
                                    /\ bm[b].docs \subseteq Requests
           /\ BmBuildFails(b) \/ (BmMove(b) /\ tmp[Mine(b)].st = "absent") =>
                  bm'[b].st = "failing" /\ bm'[b].tries = bm[b].tries
           /\ BmCommit(b) => \/ bm'[b] = NoTask
                             \/ /\ bm'[b].st = "failing"
                                /\ bm'[b].tries = bm[b].tries
           /\ BmMarkFailed(b) => bm'[b] = NoTask
<1> USE DEF OwnTypeOK
<1>n. MaxRetries \in Nat /\ MaxVersion \in Nat
  BY SameAssumption, IndexAssumption DEF PP!PipelineAssumption
<1>s. ASSUME NEW x \in BmState, bm' = [bm EXCEPT ![b] = x]
      PROVE  /\ bm' \in [Bm25Tasks -> BmState] /\ bm'[b] = x
             /\ \A c \in Bm25Tasks : c # b => bm'[c] = bm[c]
  BY <1>s
<1>t. bm[b].st # "none" => bm[b] # NoTask /\ bm[b].tries \in 0..MaxRetries
  BY DEF BmState, NoTask
<1>w. ASSUME bm[b].st \in Works
      PROVE  /\ bm[b] \in [st: Works, k: Kinds, tries: 0..MaxRetries,
                           docs: SUBSET Requests, v: 1..MaxVersion]
             /\ Mine(b) \in Names
  BY <1>w DEF Works, BmState, NoTask, Mine, Names
<1>e. ASSUME NEW st \in Works, NEW k \in Kinds, bm[b].st \in Works,
             bm' = [bm EXCEPT ![b] = [bm[b] EXCEPT !.st = st, !.k = k]]
      PROVE  /\ GoesOn(b, st, k) /\ bm' \in [Bm25Tasks -> BmState]
             /\ \A c \in Bm25Tasks : c # b => bm'[c] = bm[c]
  <2> DEFINE x == [bm[b] EXCEPT !.st = st, !.k = k]
  <2>1. x \in BmState
    BY <1>e, <1>w DEF BmState
  <2>2. /\ x.st = st /\ x.k = k /\ x.tries = bm[b].tries
        /\ x.docs = bm[b].docs /\ x.v = bm[b].v
    BY <1>e, <1>w
  <2>3. QED
    BY <1>e, <1>s, <1>w, <2>1, <2>2 DEF GoesOn, NoTask, Works
<1>f. ASSUME BmBreaks(b), bm[b].st # "none"
      PROVE  /\ bm'[b].st = "failing" /\ bm'[b].tries = bm[b].tries
             /\ bm' \in [Bm25Tasks -> BmState]
             /\ \A c \in Bm25Tasks : c # b => bm'[c] = bm[c]
  <2>1. [st |-> "failing", tries |-> bm[b].tries] \in BmState
    BY <1>f, <1>t DEF BmState
  <2>2. QED
    BY <1>f, <1>s, <2>1 DEF BmBreaks
<1>d. ASSUME BmDone(b)
      PROVE  /\ bm'[b] = NoTask /\ bm' \in [Bm25Tasks -> BmState]
             /\ \A c \in Bm25Tasks : c # b => bm'[c] = bm[c]
  BY <1>d, <1>s DEF BmDone, BmState
<1> DEFINE Kept == /\ bm[b] # NoTask /\ bm' \in [Bm25Tasks -> BmState]
                   /\ \A c \in Bm25Tasks : c # b => bm'[c] = bm[c]
<1>1. ASSUME BmList(b)
      PROVE  /\ bm'[b].st = "listed" /\ bm'[b].docs = ReadyDocs
             /\ bm'[b].tries = bm[b].tries /\ Kept
  <2>1. bm' = [bm EXCEPT ![b] = [st |-> "listed", tries |-> bm[b].tries,
                                 docs |-> ReadyDocs]]
    BY <1>1 DEF BmList, BmLists, ReadyDocs
  <2>2. [st |-> "listed", tries |-> bm[b].tries, docs |-> ReadyDocs] \in BmState
    BY <1>1, <1>t DEF BmList, BmLists, BmState, ReadyDocs
  <2>3. QED
    BY <1>1, <1>s, <1>t, <2>1, <2>2 DEF BmList, BmLists
<1>2. ASSUME BmRead(b)
      PROVE  /\ bm'[b].st = "open" /\ bm'[b].k = "docs"
             /\ bm'[b].docs = bm[b].docs /\ bm'[b].v = version + 1
             /\ bm'[b].tries = bm[b].tries /\ Kept
  <2> DEFINE x == [st |-> "open", k |-> "docs", tries |-> bm[b].tries,
                   docs |-> bm[b].docs, v |-> version + 1]
  <2>1. bm[b].docs \subseteq Requests /\ version + 1 \in 1..MaxVersion
    BY <1>2, <1>n DEF BmRead, BmState, NoTask, Works
  <2>2. x \in BmState
    BY <1>2, <1>t, <2>1 DEF BmRead, BmState, Works, Kinds
  <2>3. bm' = [bm EXCEPT ![b] = x]
    BY <1>2 DEF BmRead
  <2>4. QED
    BY <1>2, <1>s, <1>t, <2>2, <2>3 DEF BmRead
<1>3. ASSUME BmFails(b)
      PROVE  /\ \/ bm'[b] = NoTask
                \/ bm'[b].st = "queued" /\ bm'[b].tries = bm[b].tries + 1
             /\ Kept
  <2>1. bm[b].tries < MaxRetries =>
          [st |-> "queued", tries |-> bm[b].tries + 1] \in BmState
    BY <1>n, <1>t, <1>3 DEF BmFails, BmState
  <2>2. NoTask \in BmState
    BY DEF BmState
  <2>3. QED
    BY <1>s, <1>t, <1>3, <2>1, <2>2 DEF BmFails
<1>4. ASSUME BmOpen(b) PROVE GoesOn(b, "write", bm[b].k) /\ Kept
  <2>1. bm' = [bm EXCEPT ![b] = [bm[b] EXCEPT !.st = "write", !.k = bm[b].k]]
    BY <1>4, <1>w DEF BmOpen, Works
  <2>2. QED
    BY <1>4, <1>e, <1>w, <2>1 DEF BmOpen, Works, GoesOn
<1>5. ASSUME BmWrite(b)
      PROVE  /\ IF bm[b].k = "docs" THEN GoesOn(b, "open", "retriever")
                                   ELSE GoesOn(b, "move", "docs")
             /\ Kept
  BY <1>5, <1>e DEF BmWrite, Works, Kinds, GoesOn
<1>6. ASSUME BmMove(b), tmp[Mine(b)].st # "absent"
      PROVE  /\ IF bm[b].k = "docs" THEN GoesOn(b, "move", "retriever")
                                   ELSE GoesOn(b, "published", "retriever")
             /\ Kept
  <2>1. bm[b].st = "move" /\ bm[b].k \in Kinds
    BY <1>6, <1>w DEF BmMove, Works
  <2>2. bm' = [bm EXCEPT ![b] = IF bm[b].k = "docs"
                  THEN [bm[b] EXCEPT !.k = "retriever"]
                  ELSE [bm[b] EXCEPT !.st = "published"]]
    BY <1>6 DEF BmMove
  <2>3. /\ bm[b].k = "docs" => [bm[b] EXCEPT !.k = "retriever"] =
                [bm[b] EXCEPT !.st = "move", !.k = "retriever"]
        /\ bm[b].k # "docs" => [bm[b] EXCEPT !.st = "published"] =
                [bm[b] EXCEPT !.st = "published", !.k = "retriever"]
    BY <1>w, <2>1 DEF Works, Kinds
  <2>4. QED
    BY <1>e, <2>1, <2>2, <2>3 DEF Works, Kinds, GoesOn
<1>7. ASSUME BmBuildFails(b) \/ (BmMove(b) /\ tmp[Mine(b)].st = "absent")
      PROVE  bm'[b].st = "failing" /\ bm'[b].tries = bm[b].tries /\ Kept
  BY <1>7, <1>f, <1>t DEF BmBuildFails, BmMove
<1>8. ASSUME BmCommit(b)
      PROVE  /\ bm'[b] = NoTask \/ (bm'[b].st = "failing" /\ bm'[b].tries = bm[b].tries)
             /\ Kept
  BY <1>8, <1>d, <1>f, <1>t DEF BmCommit
<1>9. ASSUME BmMarkFailed(b) PROVE bm'[b] = NoTask /\ Kept
  BY <1>9, <1>d, <1>t DEF BmMarkFailed
<1>10. BmStep(b) => Kept
  BY <1>1, <1>2, <1>3, <1>4, <1>5, <1>6, <1>7, <1>8, <1>9 DEF BmStep
<1> HIDE DEF Kept, OwnTypeOK
<1>11. bm[b].st \in Works => /\ Mine(b) \in Names /\ bm[b].k \in Kinds
                             /\ bm[b].v \in 1..MaxVersion
                             /\ bm[b].docs \subseteq Requests
  BY <1>w
<1>12. BmStep(b) => /\ bm[b] # NoTask /\ bm' \in [Bm25Tasks -> BmState]
                    /\ \A c \in Bm25Tasks : c # b => bm'[c] = bm[c]
  BY <1>10 DEF Kept
<1>13. QED
  BY <1>1, <1>2, <1>3, <1>4, <1>5, <1>6, <1>7, <1>8, <1>9, <1>11, <1>12

\* ... and of the BM25 index.
LEMMA BmTypes ==
    ASSUME NEW b \in Bm25Tasks, OwnTypeOK, BmStep(b)
    PROVE  /\ bm' \in [Bm25Tasks -> BmState]
           /\ version' \in 0..MaxVersion
           /\ tmp' \in [Names -> FileState]
           /\ pickle' \in [Names -> FileState]
<1> USE DEF OwnTypeOK
<1>1. bm' \in [Bm25Tasks -> BmState]
  BY BmRecords
<1>2. version' \in 0..MaxVersion
  <2>1. BmCommit(b) => bm[b].v \in 1..MaxVersion
    BY BmRecords DEF BmCommit, Works
  <2>2. CASE BmCommit(b) /\ version' = bm[b].v
    BY <2>1, <2>2, IndexAssumption
  <2>3. QED
    BY <2>2 DEF BmStep, BmList, BmLists, BmRead, BmFails, BmOpen, BmWrite, BmMove,
        BmBuildFails, BmCommit, BmMarkFailed
<1>3. CASE BmOpen(b)
  <2> DEFINE f == tmp[Mine(b)]
             x == IF f.by = {}
                    THEN [st |-> "whole", docs |-> bm[b].docs, by |-> {b}]
                    ELSE [st |-> "torn", docs |-> f.docs \cup bm[b].docs,
                          by |-> f.by \cup {b}]
  <2>1. f \in FileState /\ bm[b].docs \subseteq Requests
    BY <1>3, BmRecords DEF BmOpen, Works
  <2>2. x \in FileState
    BY <2>1 DEF FileState
  <2>3. tmp' = [tmp EXCEPT ![Mine(b)] = x] /\ pickle' = pickle
    BY <1>3 DEF BmOpen
  <2>4. QED
    BY <1>1, <1>2, <2>2, <2>3
<1>4. CASE BmMove(b)
  <2>1. NoFile \in FileState /\ Mine(b) \in Names
    BY <1>4, BmRecords DEF BmMove, Works, NoFile, FileState
  <2>2. QED
    BY <1>1, <1>2, <1>4, <2>1 DEF BmMove
<1>5. CASE BmWrite(b) \/ BmBuildFails(b)
  BY <1>1, <1>2, <1>5, FilesOf DEF BmWrite, BmBuildFails
<1>6. CASE UNCHANGED <<tmp, pickle>>
  BY <1>1, <1>2, <1>6
<1>7. QED
  BY <1>3, <1>4, <1>5, <1>6 DEF BmStep, BmList, BmLists, BmRead, BmFails, BmCommit,
      BmMarkFailed

-----------------------------------------------------------------------------
(* The inductive invariant.                                                *)

\* A poll past its first step is about a READY document; past its second the
\* user has a BM25 row.
PollInv ==
    \A p \in Pollers : poll[p] \notin {NoPoll, Raised} =>
        /\ doc[poll[p].r] = "READY"
        /\ poll[p].st \in {"refresh", "decide", "fire"} => bm25 # "NONE"

\* A multi-index task is about a READY document, and what it is going to
\* write back as READY has been built.
MiInv ==
    \A m \in MultiTasks : mi[m] # NoTask =>
        /\ doc[mi[m].r] = "READY"
        /\ mi[m].st \in {"read", "summed", "explained"} =>
              /\ mi[m].s = "READY" => <<mi[m].r, "s">> \in built
              /\ mi[m].e = "READY" => <<mi[m].r, "e">> \in built

\* A BM25 task has a row and a READY document to work on; it indexes READY
\* documents only, and what it has renamed is on disk.
BmInv ==
    \A b \in Bm25Tasks : bm[b] # NoTask =>
        /\ bm25 # "NONE" /\ ReadyDocs # {}
        /\ bm[b].st \in Works \cup {"listed"} => bm[b].docs \subseteq ReadyDocs
        /\ bm[b].st = "published" \/ (bm[b].st = "move" /\ bm[b].k = "retriever") =>
              pickle["docs", bm[b].v].st # "absent"
        /\ bm[b].st = "published" => pickle["retriever", bm[b].v].st # "absent"

\* So do the files being written.
TmpInv == \A n \in Names : tmp[n].docs \subseteq ReadyDocs

\* What polls, tasks, rows and files know of each other; the three below it
\* are properties of the module and part of the argument.
IndexInv == /\ PollInv /\ MiInv /\ BmInv /\ TmpInv
            /\ VersionIsOnDisk /\ IndexedAreReady /\ ReadyIndexExists

\* The pipeline's part of the state is as its proofs have it.
PipeInv == PP!TypeOK /\ PP!PipelineInv

-----------------------------------------------------------------------------
(* Every step is one of the pipeline, or none.                             *)

\* PENDING is a status of the BM25 row that only an insert gives it; all the
\* builders do else is what IndexerMoves allows.
LEMMA StepRefines ==
    ASSUME PipeInv, OwnTypeOK, IndexInv, [Next]_vars PROVE [PP!Next]_PP!vars
<1> DEFINE Rest == UNCHANGED <<answer, content, doc, files, t1, t2, sent,
                               chunks, seen>>
<1>1. ASSUME ReadyDocs # {}, bm25 # "NONE", Rest,
             bm25' \in {"PROCESSING", "READY", "FAILED"}
      PROVE  PP!Next
  BY <1>1 DEF PP!Next, PP!IndexerMoves, PP!taskVars, ReadyDocs
<1>2. ASSUME UNCHANGED pipeVars PROVE UNCHANGED PP!vars
  BY <1>2 DEF pipeVars, PP!vars, PP!taskVars
<1>3. ASSUME Rest, UNCHANGED bm25 PROVE UNCHANGED PP!vars
  BY <1>3 DEF PP!vars, PP!taskVars
<1>4. ASSUME NEW p \in Pollers, poll[p].st \in {"insert", "decide"}
      PROVE  /\ ReadyDocs # {}
             /\ poll[p].st = "decide" => bm25 # "NONE"
  <2>1. poll[p] \notin {NoPoll, Raised}
    BY <1>4 DEF NoPoll, Raised
  <2>2. poll[p].r \in Requests
    BY <1>4 DEF OwnTypeOK, PollState, NoPoll, Raised
  <2>3. QED
    BY <1>4, <2>1, <2>2 DEF IndexInv, PollInv, ReadyDocs
<1>5. ASSUME NEW p \in Pollers, PollInsert(p) PROVE [PP!Next]_PP!vars
  <2>1. CASE bm25 = "NONE" /\ bm25' = "PENDING"
    BY <1>4, <1>5, <2>1
       DEF PollInsert, PP!Next, PP!IndexerMoves, PP!taskVars, ReadyDocs
  <2>2. CASE UNCHANGED bm25
    BY <1>3, <1>5, <2>2 DEF PollInsert
  <2>3. QED
    BY <1>5, <2>1, <2>2 DEF PollInsert
<1>6. ASSUME NEW p \in Pollers, PollMark(p) PROVE [PP!Next]_PP!vars
  <2>1. Rest /\ bm25' \in {"PROCESSING", bm25}
    BY <1>6 DEF PollMark
  <2>2. ReadyDocs # {} /\ bm25 # "NONE"
    BY <1>4, <1>6 DEF PollMark
  <2>3. QED
    BY <1>1, <1>3, <2>1, <2>2
<1>7. ASSUME NEW b \in Bm25Tasks, BmCommit(b) \/ BmMarkFailed(b)
      PROVE  [PP!Next]_PP!vars
  <2>1. Rest /\ bm25' \in {"READY", "FAILED", bm25}
    BY <1>7 DEF BmCommit, BmMarkFailed
  <2>2. bm[b] # NoTask
    BY <1>7 DEF BmCommit, BmMarkFailed, NoTask
  <2>3. ReadyDocs # {} /\ bm25 # "NONE"
    BY <2>2 DEF IndexInv, BmInv
  <2>4. QED
    BY <1>1, <1>3, <2>1, <2>3
<1>8. CASE \E r \in Requests : P!PipelineStep(r) /\ UNCHANGED indexVars
  BY <1>8, SameStep DEF PP!Next
<1>9. ASSUME NEW p \in Pollers,
             PollStep(p) \/ \E r \in Requests : PollDocument(p, r)
      PROVE  [PP!Next]_PP!vars
  BY <1>2, <1>5, <1>6, <1>9
     DEF PollStep, PollDocument, PollBm25, PollRefresh, PollDbFails, PollFire
<1>10. ASSUME NEW m \in MultiTasks, MiStep(m) PROVE UNCHANGED PP!vars
  BY <1>2, <1>10 DEF MiStep, MiRead, MiSummary, MiExplanation, MiWrite, MiFails
<1>11. ASSUME NEW b \in Bm25Tasks, BmStep(b) PROVE [PP!Next]_PP!vars
  BY <1>2, <1>7, <1>11 DEF BmStep, BmList, BmLists, BmRead, BmFails, BmOpen, BmWrite,
      BmMove, BmBuildFails
<1>12. CASE IndexCrash \/ UNCHANGED vars
  BY <1>2, <1>12 DEF IndexCrash, vars
<1>13. QED
  BY <1>8, <1>9, <1>10, <1>11, <1>12 DEF Next

-----------------------------------------------------------------------------
(* Every step keeps the invariant.                                         *)

\* What a step of the pipeline, or of somebody else here, must leave alone.
Grows == /\ ReadyDocs \subseteq ReadyDocs'
         /\ bm25 # "NONE" => bm25' # "NONE"

\* No step takes a READY document or the user's BM25 row away.
LEMMA StepGrows ==
    ASSUME PipeInv, OwnTypeOK, IndexInv, [Next]_vars PROVE Grows
<1>1. [PP!Next]_PP!vars
  BY StepRefines
<1>2. ASSUME NEW r \in Requests, doc[r] = "READY" PROVE doc'[r] = "READY"
  BY <1>1, <1>2, SameAssumption, PP!ReadyStep DEF PipeInv
<1>3. ASSUME bm25 # "NONE" PROVE bm25' # "NONE"
  <2>1. ASSUME NEW r \in Requests, PP!PipelineStep(r) PROVE bm25' # "NONE"
    BY <1>3, <2>1, SameAssumption, PP!RowStep
  <2>2. CASE PP!IndexerMoves
    BY <1>3, <2>2 DEF PP!IndexerMoves
  <2>3. CASE UNCHANGED PP!vars
    BY <1>3, <2>3 DEF PP!vars
  <2>4. QED
    BY <1>1, <2>1, <2>2, <2>3 DEF PP!Next
<1>4. QED
  BY <1>2, <1>3 DEF Grows, ReadyDocs

\* Polls, tasks and pickles keep their types.
LEMMA OwnTypeStep ==
    ASSUME PP!TypeOK, OwnTypeOK, [Next]_vars PROVE OwnTypeOK'
<1>1. ASSUME NEW p \in Pollers,
             PollStep(p) \/ \E r \in Requests : PollDocument(p, r)
      PROVE  OwnTypeOK'
  <2>1. bm25 \in P!Bm25Status
    BY SameType DEF P!TypeOK
  <2>2. poll' \in [Pollers -> PollState]
    BY <1>1, <2>1, PollTypes
  <2>3. mi' \in [MultiTasks -> MiState] /\ bm' \in [Bm25Tasks -> BmState]
    <3>1. CASE PollFire(p)
      <4>1. 0 \in 0..MaxRetries
        BY SameAssumption DEF PP!PipelineAssumption
      <4>2. ASSUME NEW m \in MultiTasks, QueueMulti(m, poll[p])
            PROVE  mi' \in [MultiTasks -> MiState]
        <5>1. poll[p] \in [st: {"fire"}, r: Requests, cs: BOOLEAN,
                           ce: BOOLEAN, cb: BOOLEAN]
          BY <3>1 DEF PollFire, OwnTypeOK, PollState, NoPoll, Raised
        <5>2. [st |-> "queued", r |-> poll[p].r, cs |-> poll[p].cs,
               ce |-> poll[p].ce, tries |-> 0] \in MiState
          BY <4>1, <5>1 DEF MiState
        <5>3. QED
          BY <4>2, <5>2 DEF QueueMulti, OwnTypeOK
      <4>3. ASSUME NEW b \in Bm25Tasks, QueueBm25(b)
            PROVE  bm' \in [Bm25Tasks -> BmState]
        <5>1. [st |-> "queued", tries |-> 0] \in BmState
          BY <4>1 DEF BmState
        <5>2. QED
          BY <4>3, <5>1 DEF QueueBm25, OwnTypeOK
      <4>4. QED
        BY <3>1, <4>2, <4>3 DEF PollFire, OwnTypeOK
    <3>2. CASE UNCHANGED <<mi, bm>>
      BY <3>2 DEF OwnTypeOK
    <3>3. QED
      BY <1>1, <3>1, <3>2 DEF PollStep, PollDocument, PollBm25, PollInsert,
          PollRefresh, PollMark, PollDbFails, bmVars
  <2>4. /\ UNCHANGED <<built, version, tmp, pickle>>
        /\ summary' \in [Requests -> MultiStatus]
        /\ explanation' \in [Requests -> MultiStatus]
    <3>1. CASE PollMark(p)
      BY <3>1 DEF PollMark, OwnTypeOK, MultiStatus, bmVars, rowVars
    <3>2. CASE UNCHANGED <<rowVars, built, version, tmp, pickle>>
      BY <3>2 DEF OwnTypeOK, rowVars
    <3>3. QED
      BY <1>1, <3>1, <3>2 DEF PollStep, PollDocument, PollBm25, PollInsert,
          PollRefresh, PollDbFails, PollFire, bmVars
  <2>5. QED
    BY <2>2, <2>3, <2>4 DEF OwnTypeOK
<1>2. ASSUME NEW m \in MultiTasks, MiStep(m) PROVE OwnTypeOK'
  <2>1. UNCHANGED <<version, tmp, pickle, poll, bm>>
    BY <1>2 DEF MiStep, MiRead, MiSummary, MiExplanation, MiWrite, MiFails, bmVars
  <2>2. QED
    BY <1>2, <2>1, MiTypes DEF OwnTypeOK
<1>3. ASSUME NEW b \in Bm25Tasks, BmStep(b) PROVE OwnTypeOK'
  <2>1. UNCHANGED <<summary, explanation, built, poll, mi>>
    BY <1>3 DEF BmStep, BmList, BmLists, BmRead, BmFails, BmOpen, BmWrite, BmMove,
        BmBuildFails, BmCommit, BmMarkFailed, rowVars
  <2>2. QED
    BY <1>3, <2>1, BmTypes DEF OwnTypeOK
<1>4. CASE IndexCrash
  <2>1. /\ poll' \in [Pollers -> PollState] /\ mi' \in [MultiTasks -> MiState]
        /\ bm' \in [Bm25Tasks -> BmState]
    BY <1>4 DEF IndexCrash, Raises, MiDone, BmDone, OwnTypeOK, PollState, MiState,
        BmState
  <2>2. tmp' \in [Names -> FileState] /\ pickle' \in [Names -> FileState]
    BY <1>4, FilesOf DEF IndexCrash, OwnTypeOK
  <2>3. QED
    BY <1>4, <2>1, <2>2 DEF IndexCrash, OwnTypeOK, rowVars
<1>5. CASE UNCHANGED indexVars
  BY <1>5 DEF indexVars, rowVars, bmVars, OwnTypeOK
<1>6. QED
  BY <1>1, <1>2, <1>3, <1>4, <1>5 DEF Next, vars

\* While documents stay READY and the row stays, the polls' part holds.
LEMMA PollInvStep ==
    ASSUME PipeInv, OwnTypeOK, IndexInv, Grows, [Next]_vars PROVE PollInv'
<1>1. SUFFICES ASSUME NEW p \in Pollers, poll'[p] \notin {NoPoll, Raised}
               PROVE  /\ doc'[poll'[p].r] = "READY"
                      /\ poll'[p].st \in {"refresh", "decide", "fire"} => bm25' # "NONE"
  BY DEF PollInv
<1>2. ASSUME poll'[p] = poll[p]
      PROVE  /\ doc'[poll'[p].r] = "READY"
             /\ poll'[p].st \in {"refresh", "decide", "fire"} => bm25' # "NONE"
  <2>1. poll[p].r \in Requests
    BY <1>1, <1>2 DEF OwnTypeOK, PollState
  <2>2. QED
    BY <1>1, <1>2, <2>1 DEF IndexInv, PollInv, Grows, ReadyDocs
<1>3. ASSUME NEW q \in Pollers,
             PollStep(q) \/ \E r \in Requests : PollDocument(q, r)
      PROVE  \/ poll'[p] = poll[p]
             \/ q = p
  BY <1>3 DEF PollStep, PollDocument, PollBm25, PollInsert, PollRefresh, PollMark,
      PollDbFails, PollFire, Answers, Raises, OwnTypeOK
<1>4. ASSUME NEW r \in Requests, PollDocument(p, r)
      PROVE  doc'[poll'[p].r] = "READY" /\ poll'[p].st = "bm25"
  BY <1>1, <1>4
     DEF PollDocument, Answers, Raises, OwnTypeOK, NoPoll, Raised, pipeVars
<1>5. ASSUME PollStep(p)
      PROVE  /\ poll'[p].r = poll[p].r /\ poll[p] \notin {NoPoll, Raised}
             /\ poll'[p].st \in {"refresh", "decide", "fire"} => bm25' # "NONE"
  <2>1. poll[p] \notin {NoPoll, Raised}
    BY <1>5 DEF PollStep, PollBm25, PollInsert, PollRefresh, PollMark, PollDbFails,
        PollFire, NoPoll, Raised
  <2>2. CASE PollBm25(p)
    BY <2>1, <2>2 DEF PollBm25, OwnTypeOK, pipeVars
  <2>3. CASE PollInsert(p)
    <3>1. [poll[p] EXCEPT !.st = "refresh"].r = poll[p].r
      BY <2>3 DEF PollInsert, OwnTypeOK, PollState, NoPoll, Raised
    <3>2. bm25' # "NONE"
      BY <2>3 DEF PollInsert
    <3>3. poll' = [poll EXCEPT ![p] = [poll[p] EXCEPT !.st = "refresh"]]
      BY <1>1, <2>3 DEF PollInsert, OwnTypeOK, Raises
    <3>4. QED
      BY <2>1, <3>1, <3>2, <3>3 DEF OwnTypeOK
  <2>r. CASE PollRefresh(p)
    <3>1. bm25' # "NONE"
      BY <2>1, <2>r DEF PollRefresh, IndexInv, PollInv, pipeVars
    <3>2. QED
      BY <2>1, <2>r, <3>1 DEF PollRefresh, OwnTypeOK
  <2>4. CASE PollMark(p)
    <3>1. bm25 # "NONE"
      BY <2>1, <2>4 DEF PollMark, IndexInv, PollInv
    <3>2. bm25' \in {"PROCESSING", bm25}
      BY <2>4 DEF PollMark
    <3>3. \/ Answers(p)
          \/ poll' = [poll EXCEPT ![p] =
                [st |-> "fire", r |-> poll[p].r, cs |-> poll[p].s \in Todo,
                 ce |-> poll[p].e \in Todo, cb |-> poll[p].b \in Bm25Todo]]
      BY <2>4 DEF PollMark
    <3>4. QED
      BY <1>1, <2>1, <3>1, <3>2, <3>3 DEF OwnTypeOK, Answers
  <2>5. CASE PollDbFails(p) \/ PollFire(p)
    BY <1>1, <2>5 DEF PollDbFails, PollFire, OwnTypeOK, Answers, Raises
  <2>6. QED
    BY <1>5, <2>1, <2>2, <2>3, <2>r, <2>4, <2>5 DEF PollStep
<1>6. ASSUME NEW q \in Pollers,
             PollStep(q) \/ \E r \in Requests : PollDocument(q, r)
      PROVE  /\ doc'[poll'[p].r] = "READY"
             /\ poll'[p].st \in {"refresh", "decide", "fire"} => bm25' # "NONE"
  <2>1. CASE PollStep(p)
    <3>1. poll[p].r \in Requests
      BY <1>5, <2>1 DEF OwnTypeOK, PollState
    <3>2. QED
      BY <1>5, <2>1, <3>1 DEF IndexInv, PollInv, Grows, ReadyDocs
  <2>2. QED
    BY <1>2, <1>3, <1>4, <1>6, <2>1
<1>7. CASE IndexCrash
  <2>1. poll'[p] = poll[p]
    BY <1>1, <1>7 DEF IndexCrash, Raises, OwnTypeOK
  <2>2. QED
    BY <1>2, <2>1
<1>8. CASE UNCHANGED poll
  BY <1>2, <1>8
<1>9. QED
  BY <1>6, <1>7, <1>8 DEF Next, indexVars, vars, MiStep, MiRead, MiSummary,
      MiExplanation, MiWrite, MiFails, BmStep, BmList, BmLists, BmRead, BmFails,
      BmOpen, BmWrite, BmMove, BmBuildFails, BmCommit, BmMarkFailed

\* Nothing in Chroma is ever dropped, and a READY status is written only by
\* MiWrite.
LEMMA BuiltStep ==
    ASSUME OwnTypeOK, IndexInv, [Next]_vars
    PROVE  built \subseteq built' /\ ReadyIndexExists'
<1>1. built \subseteq built'
  BY DEF Next, indexVars, vars, PollStep, PollDocument, PollBm25, PollInsert, PollRefresh,
      PollMark, PollDbFails, PollFire, MiStep, MiRead, MiSummary, MiExplanation,
      MiWrite, MiFails, BmStep, BmList, BmLists, BmRead, BmFails,
      BmOpen, BmWrite, BmMove, BmBuildFails, BmCommit, BmMarkFailed, IndexCrash
<1>2. CASE UNCHANGED rowVars
  BY <1>1, <1>2 DEF rowVars, IndexInv, ReadyIndexExists
<1>3. ASSUME NEW p \in Pollers, PollMark(p) PROVE ReadyIndexExists'
  <2>1. \A r \in Requests : /\ summary'[r] \in {summary[r], "PROCESSING"}
                            /\ explanation'[r] \in {explanation[r], "PROCESSING"}
    BY <1>3 DEF PollMark, OwnTypeOK, rowVars
  <2>2. QED
    BY <1>1, <2>1 DEF IndexInv, ReadyIndexExists
<1>4. ASSUME NEW m \in MultiTasks, MiWrite(m) PROVE ReadyIndexExists'
  <2>1. /\ mi[m].s = "READY" => <<mi[m].r, "s">> \in built
        /\ mi[m].e = "READY" => <<mi[m].r, "e">> \in built
    BY <1>4 DEF MiWrite, NoTask, IndexInv, MiInv
  <2>2. QED
    BY <1>1, <1>4, <2>1 DEF MiWrite, OwnTypeOK, IndexInv, ReadyIndexExists
<1>5. QED
  BY <1>1, <1>2, <1>3, <1>4 DEF Next, indexVars, vars, PollStep, PollDocument,
      PollBm25, PollInsert, PollRefresh, PollDbFails, PollFire, MiStep, MiRead, MiSummary,
      MiExplanation, MiFails, BmStep, BmList, BmLists, BmRead, BmFails,
      BmOpen, BmWrite, BmMove, BmBuildFails, BmCommit, BmMarkFailed, IndexCrash

\* The invariant of a multi-index task is kept, its own steps included.
LEMMA MiInvStep ==
    ASSUME PipeInv, OwnTypeOK, IndexInv, Grows, [Next]_vars PROVE MiInv'
<1> DEFINE Fine(t) == /\ doc'[t.r] = "READY"
                      /\ t.st \in {"read", "summed", "explained"} =>
                            /\ t.s = "READY" => <<t.r, "s">> \in built'
                            /\ t.e = "READY" => <<t.r, "e">> \in built'
<1>1. SUFFICES ASSUME NEW n \in MultiTasks, mi'[n] # NoTask PROVE Fine(mi'[n])
  BY DEF MiInv
<1>g. built \subseteq built'
  BY BuiltStep
<1>2. ASSUME mi[n] # NoTask
      PROVE  Fine(mi[n]) /\ mi[n].r \in Requests
  <2>1. mi[n].r \in Requests
    BY <1>2 DEF OwnTypeOK, MiState
  <2>2. QED
    BY <1>2, <1>g, <2>1 DEF IndexInv, MiInv, Grows, ReadyDocs
<1>3. ASSUME NEW p \in Pollers, PollFire(p) PROVE Fine(mi'[n])
  <2>1. CASE QueueMulti(n, poll[p])
    <3>1. poll[p] \notin {NoPoll, Raised} /\ poll[p].r \in Requests
      BY <1>3 DEF PollFire, NoPoll, Raised, OwnTypeOK, PollState
    <3>2. mi'[n].r = poll[p].r /\ mi'[n].st = "queued"
      BY <2>1 DEF QueueMulti, OwnTypeOK
    <3>3. QED
      BY <3>1, <3>2 DEF IndexInv, PollInv, Grows, ReadyDocs
  <2>2. CASE mi'[n] = mi[n]
    BY <1>1, <1>2, <2>2
  <2>3. QED
    BY <1>3, <2>1, <2>2 DEF PollFire, QueueMulti, OwnTypeOK
<1>4. CASE MiRead(n)
  <2>1. mi[n] # NoTask
    BY <1>4 DEF MiRead, NoTask
  <2>2. /\ mi'[n].r = mi[n].r /\ mi'[n].s = summary[mi[n].r]
        /\ mi'[n].e = explanation[mi[n].r]
    BY <1>4 DEF MiRead, OwnTypeOK
  <2>3. QED
    BY <1>2, <1>g, <2>1, <2>2 DEF IndexInv, ReadyIndexExists
<1>5. ASSUME mi[n].st \in {"read", "summed"}
      PROVE  mi[n] # NoTask /\ mi[n].s \in MultiStatus /\ mi[n].e \in MultiStatus
             /\ mi[n] = [st |-> mi[n].st, r |-> mi[n].r, cs |-> mi[n].cs,
                         ce |-> mi[n].ce, tries |-> mi[n].tries, s |-> mi[n].s,
                         e |-> mi[n].e]
  BY <1>5 DEF OwnTypeOK, MiState, NoTask
<1>6. CASE MiSummary(n)
  <2>0. mi[n].st = "read"
    BY <1>6 DEF MiSummary
  <2>1. PICK o \in BuildOutcomes(mi[n].cs, mi[n].s, <<mi[n].r, "s">>) :
            /\ mi' = [mi EXCEPT ![n] = [mi[n] EXCEPT !.st = "summed", !.s = o[1]]]
            /\ built' = built \cup o[2]
    BY <1>6 DEF MiSummary
  <2>2. o[1] = "READY" => mi[n].s = "READY" \/ <<mi[n].r, "s">> \in o[2]
    BY <1>5, <2>0, Outcomes
  <2>3. mi'[n].r = mi[n].r /\ mi'[n].s = o[1] /\ mi'[n].e = mi[n].e
    BY <1>5, <2>0, <2>1 DEF OwnTypeOK
  <2>4. QED
    BY <1>2, <1>5, <2>0, <2>1, <2>2, <2>3
<1>7. CASE MiExplanation(n)
  <2>0. mi[n].st = "summed"
    BY <1>7 DEF MiExplanation
  <2>1. PICK o \in BuildOutcomes(mi[n].ce, mi[n].e, <<mi[n].r, "e">>) :
            /\ mi' = [mi EXCEPT ![n] =
                        [mi[n] EXCEPT !.st = "explained", !.e = o[1]]]
            /\ built' = built \cup o[2]
    BY <1>7 DEF MiExplanation
  <2>2. o[1] = "READY" => mi[n].e = "READY" \/ <<mi[n].r, "e">> \in o[2]
    BY <1>5, <2>0, Outcomes
  <2>3. mi'[n].r = mi[n].r /\ mi'[n].e = o[1] /\ mi'[n].s = mi[n].s
    BY <1>5, <2>0, <2>1 DEF OwnTypeOK
  <2>4. QED
    BY <1>2, <1>5, <2>0, <2>1, <2>2, <2>3
<1>8. CASE MiFails(n)
  <2>1. mi[n] # NoTask
    BY <1>8 DEF MiFails, NoTask
  <2>2. mi'[n].r = mi[n].r /\ mi'[n].st = "queued"
    BY <1>1, <1>8 DEF MiFails, MiRetry, OwnTypeOK
  <2>3. QED
    BY <1>2, <2>1, <2>2
<1>9. CASE mi'[n] \in {mi[n], NoTask}
  BY <1>1, <1>2, <1>9
<1>10. ASSUME NEW m \in MultiTasks, MiStep(m)
       PROVE  (m = n /\ ~MiWrite(m)) \/ mi'[n] \in {mi[n], NoTask}
  BY <1>10 DEF MiStep, MiRead, MiSummary, MiExplanation, MiWrite, MiFails, MiDone,
      MiRetry, OwnTypeOK
<1>11. ASSUME NEW m \in MultiTasks, MiStep(m) PROVE Fine(mi'[n])
  BY <1>4, <1>6, <1>7, <1>8, <1>9, <1>10, <1>11 DEF MiStep
<1>12. CASE IndexCrash
  <2>1. mi'[n] \in {mi[n], NoTask}
    BY <1>12 DEF IndexCrash, MiDone, OwnTypeOK
  <2>2. QED
    BY <1>9, <2>1
<1>13. CASE UNCHANGED mi
  BY <1>9, <1>13
<1>14. QED
  BY <1>3, <1>11, <1>12, <1>13 DEF Next, indexVars, vars, PollStep, PollDocument,
      PollBm25, PollInsert, PollRefresh, PollMark, PollDbFails, BmStep, BmList, BmLists,
      BmRead, BmFails, BmOpen, BmWrite, BmMove, BmBuildFails, BmCommit,
      BmMarkFailed

\* A file in place is never lost, and is replaced only by another of READY
\* documents.
LEMMA PickleStep ==
    ASSUME OwnTypeOK, IndexInv, Grows, [Next]_vars
    PROVE  /\ \A n \in Names : pickle[n].st # "absent" => pickle'[n].st # "absent"
           /\ VersionIsOnDisk' /\ IndexedAreReady' /\ TmpInv'
<1> DEFINE Kept == \A n \in Names : pickle[n].st # "absent" => pickle'[n].st # "absent"
           FilesReady == \A n \in Names : /\ pickle'[n].docs \subseteq ReadyDocs
                                          /\ tmp'[n].docs \subseteq ReadyDocs
<1>0. /\ tmp \in [Names -> FileState] /\ pickle \in [Names -> FileState]
      /\ \A n \in Names : /\ pickle[n].docs \subseteq ReadyDocs
                          /\ tmp[n].docs \subseteq ReadyDocs
  BY DEF OwnTypeOK, IndexInv, IndexedAreReady, TmpInv
<1>1. ASSUME UNCHANGED <<tmp, pickle>> PROVE Kept /\ FilesReady
  BY <1>0, <1>1
<1>2. ASSUME NEW b \in Bm25Tasks, tmp' \in {Closed(tmp, b), Broken(tmp, b)},
             pickle' \in {Closed(pickle, b), Broken(pickle, b)}
      PROVE  Kept /\ FilesReady
  <2>1. ASSUME NEW n \in Names
        PROVE  /\ tmp'[n].docs = tmp[n].docs /\ pickle'[n].docs = pickle[n].docs
               /\ pickle'[n].st \in {pickle[n].st, "torn"}
    BY <1>0, <1>2, FilesOf
  <2>2. QED
    BY <1>0, <2>1
<1>3. ASSUME NEW b \in Bm25Tasks, BmOpen(b) PROVE Kept /\ FilesReady
  <2>1. Mine(b) \in Names /\ bm[b].docs \subseteq ReadyDocs
    <3>1. bm[b].st = "open" /\ bm[b] # NoTask
      BY <1>3 DEF BmOpen, NoTask
    <3>2. Mine(b) \in Names
      BY <3>1, BmRecords DEF Works
    <3>3. QED
      BY <3>1, <3>2 DEF IndexInv, BmInv, Works
  <2>2. pickle' = pickle /\ \A n \in Names \ {Mine(b)} : tmp'[n] = tmp[n]
    BY <1>0, <1>3 DEF BmOpen
  <2>3. tmp'[Mine(b)].docs \subseteq tmp[Mine(b)].docs \cup bm[b].docs
    BY <1>0, <1>3, <2>1 DEF BmOpen
  <2>4. QED
    BY <1>0, <2>1, <2>2, <2>3
<1>4. ASSUME NEW b \in Bm25Tasks, BmMove(b) PROVE Kept /\ FilesReady
  <2>1. Mine(b) \in Names /\ NoFile.docs = {}
    BY <1>4, BmRecords DEF BmMove, Works, NoFile
  <2>2. CASE tmp[Mine(b)].st # "absent"
    <3>1. /\ pickle' = [pickle EXCEPT ![Mine(b)] = tmp[Mine(b)]]
          /\ tmp' = [tmp EXCEPT ![Mine(b)] = NoFile]
      BY <1>4, <2>2 DEF BmMove
    <3>2. QED
      BY <1>0, <2>1, <2>2, <3>1
  <2>3. QED
    BY <1>1, <1>4, <2>2 DEF BmMove
<1>5. Kept /\ FilesReady
  BY <1>1, <1>2, <1>3, <1>4 DEF Next, indexVars, vars, bmVars, PollStep, PollDocument,
      PollBm25, PollInsert, PollRefresh, PollMark, PollDbFails, PollFire, MiStep,
      MiRead, MiSummary, MiExplanation, MiWrite, MiFails, BmStep, BmList, BmLists,
      BmRead, BmFails, BmWrite, BmBuildFails, BmCommit, BmMarkFailed, IndexCrash
<1>6. IndexedAreReady' /\ TmpInv'
  BY <1>5 DEF IndexedAreReady, TmpInv, Grows
<1>7. VersionIsOnDisk'
  <2>0. \A v \in 1..MaxVersion : \A k \in Kinds : <<k, v>> \in Names
    BY DEF Names
  <2>1. ASSUME UNCHANGED version PROVE VersionIsOnDisk'
    <3>1. version > 0 => version \in 1..MaxVersion
      BY IndexAssumption DEF OwnTypeOK
    <3>2. QED
      BY <1>5, <2>0, <2>1, <3>1 DEF IndexInv, VersionIsOnDisk
  <2>2. ASSUME NEW b \in Bm25Tasks, BmCommit(b), version' # version
        PROVE  VersionIsOnDisk'
    <3>1. bm[b].st = "published" /\ bm[b] # NoTask /\ version' = bm[b].v
      BY <2>2 DEF BmCommit, NoTask
    <3>2. bm[b].v \in 1..MaxVersion
      BY <3>1, BmRecords DEF Works
    <3>3. \A k \in Kinds : pickle[k, bm[b].v].st # "absent"
      BY <3>1 DEF IndexInv, BmInv, Kinds
    <3>4. QED
      BY <1>5, <2>0, <3>1, <3>2, <3>3 DEF VersionIsOnDisk
  <2>3. QED
    BY <2>1, <2>2 DEF Next, indexVars, vars, bmVars, PollStep, PollDocument, PollBm25,
        PollInsert, PollRefresh, PollMark, PollDbFails, PollFire, MiStep, MiRead,
        MiSummary, MiExplanation, MiWrite, MiFails, BmStep, BmList, BmLists, BmRead,
        BmFails, BmOpen, BmWrite, BmMove, BmBuildFails, BmMarkFailed, IndexCrash
<1>8. QED
  BY <1>5, <1>6, <1>7

\* The invariant of a BM25 task is kept, its own steps included.
LEMMA BmInvStep ==
    ASSUME PipeInv, OwnTypeOK, IndexInv, Grows, [Next]_vars PROVE BmInv'
<1> DEFINE Fine(t) ==
        /\ bm25' # "NONE" /\ ReadyDocs' # {}
        /\ t.st \in Works \cup {"listed"} => t.docs \subseteq ReadyDocs'
        /\ t.st = "published" \/ (t.st = "move" /\ t.k = "retriever") =>
              pickle'["docs", t.v].st # "absent"
        /\ t.st = "published" => pickle'["retriever", t.v].st # "absent"
<1>1. SUFFICES ASSUME NEW n \in Bm25Tasks, bm'[n] # NoTask PROVE Fine(bm'[n])
  BY DEF BmInv
<1>g. \A m \in Names : pickle[m].st # "absent" => pickle'[m].st # "absent"
  BY PickleStep
<1>n. bm[n].st \in Works =>
          <<"docs", bm[n].v>> \in Names /\ <<"retriever", bm[n].v>> \in Names
  BY BmRecords DEF Names, Kinds
<1>2. ASSUME bm[n] # NoTask PROVE Fine(bm[n])
  BY <1>2, <1>g, <1>n DEF IndexInv, BmInv, Grows, Works
<1>3. ASSUME NEW p \in Pollers, PollFire(p) PROVE Fine(bm'[n])
  <2>1. CASE QueueBm25(n)
    <3>1. poll[p] \notin {NoPoll, Raised} /\ poll[p].r \in Requests
      BY <1>3 DEF PollFire, NoPoll, Raised, OwnTypeOK, PollState
    <3>2. doc[poll[p].r] = "READY" /\ bm25 # "NONE"
      BY <1>3, <3>1 DEF PollFire, IndexInv, PollInv
    <3>3. bm'[n].st = "queued"
      BY <2>1 DEF QueueBm25, OwnTypeOK
    <3>4. QED
      BY <3>1, <3>2, <3>3 DEF Grows, ReadyDocs, Works
  <2>2. CASE bm'[n] = bm[n]
    BY <1>1, <1>2, <2>2
  <2>3. QED
    BY <1>3, <2>1, <2>2 DEF PollFire, QueueBm25, OwnTypeOK
<1>4. ASSUME BmStep(n) PROVE bm[n] # NoTask /\ Fine(bm[n])
  BY <1>2, <1>4, BmRecords
<1>5. CASE BmList(n)
  BY <1>4, <1>5, BmRecords DEF BmStep, Grows, Works
<1>6. CASE BmRead(n)
  BY <1>4, <1>6, BmRecords DEF BmStep, BmRead
<1>7. CASE BmFails(n)
  BY <1>1, <1>4, <1>7, BmRecords DEF BmStep, Works
<1>8. CASE BmOpen(n)
  BY <1>4, <1>8, BmRecords DEF BmStep, BmOpen, GoesOn, Works
<1>9. CASE BmWrite(n)
  BY <1>4, <1>9, BmRecords DEF BmStep, BmWrite, GoesOn, Works
<1>10. CASE BmMove(n)
  <2>1. CASE tmp[Mine(n)].st = "absent"
    BY <1>4, <1>10, <2>1, BmRecords DEF BmStep, Works
  <2>2. CASE tmp[Mine(n)].st # "absent"
    <3>1. Mine(n) \in Names /\ bm[n].st = "move" /\ bm[n].k \in Kinds
      BY <1>10, BmRecords DEF BmMove, Works
    <3>2. pickle'[Mine(n)].st # "absent"
      BY <1>10, <2>2, <3>1 DEF BmMove, OwnTypeOK
    <3>3. CASE bm[n].k = "docs"
      BY <1>4, <1>10, <2>2, <3>1, <3>2, <3>3, BmRecords
         DEF BmStep, GoesOn, Works, Mine
    <3>4. CASE bm[n].k = "retriever"
      BY <1>4, <1>10, <2>2, <3>1, <3>2, <3>4, BmRecords
         DEF BmStep, GoesOn, Works, Mine
    <3>5. QED
      BY <3>1, <3>3, <3>4 DEF Kinds
  <2>3. QED
    BY <2>1, <2>2
<1>11. CASE BmBuildFails(n) \/ BmCommit(n) \/ BmMarkFailed(n)
  BY <1>1, <1>4, <1>11, BmRecords DEF BmStep, Works
<1>12. CASE bm'[n] \in {bm[n], NoTask}
  BY <1>1, <1>2, <1>12
<1>13. ASSUME NEW b \in Bm25Tasks, BmStep(b) PROVE Fine(bm'[n])
  <2>1. CASE b = n
    BY <1>5, <1>6, <1>7, <1>8, <1>9, <1>10, <1>11, <1>13, <2>1 DEF BmStep
  <2>2. CASE b # n
    BY <1>12, <1>13, <2>2, BmRecords
  <2>3. QED
    BY <2>1, <2>2
<1>14. CASE IndexCrash
  <2>1. bm'[n] \in {bm[n], NoTask}
    BY <1>14 DEF IndexCrash, BmDone, OwnTypeOK
  <2>2. QED
    BY <1>12, <2>1
<1>15. CASE UNCHANGED bm
  BY <1>12, <1>15
<1>16. QED
  BY <1>3, <1>13, <1>14, <1>15 DEF Next, indexVars, vars, bmVars, PollStep,
      PollDocument, PollBm25, PollInsert, PollRefresh, PollMark, PollDbFails, MiStep,
      MiRead, MiSummary, MiExplanation, MiWrite, MiFails

-----------------------------------------------------------------------------
(* The properties.                                                         *)

\* The two invariants together: the pipeline's is needed for READY to stay.
Joint == PipeInv /\ OwnTypeOK /\ IndexInv

\* It holds at the start.
LEMMA InitJoint == ASSUME Init PROVE Joint
<1>1. PP!Init
  BY SameInit DEF Init
<1>2. PipeInv
  BY <1>1, SameAssumption, PP!InitType, PP!InitInv DEF PipeInv
<1>3. OwnTypeOK
  BY IndexAssumption DEF Init, NothingRuns, OwnTypeOK, MultiStatus, PollState, MiState,
      BmState, NoFile, FileState
<1>4. IndexInv
  BY <1>3 DEF Init, NothingRuns, IndexInv, PollInv, MiInv, BmInv, TmpInv, NoFile,
      VersionIsOnDisk, IndexedAreReady, ReadyIndexExists
<1>5. QED
  BY <1>2, <1>3, <1>4 DEF Joint

\* A step keeps it, and is a step of the pipeline or none.
LEMMA JointStep ==
    ASSUME Joint, [Next]_vars PROVE Joint' /\ [PP!Next]_PP!vars
<1> USE DEF Joint
<1>1. [PP!Next]_PP!vars
  BY StepRefines
<1>2. PP!TypeOK' /\ PP!PipelineInv'
  BY <1>1, SameAssumption, PP!TypeStep, PP!InvStep DEF PipeInv
<1>3. OwnTypeOK'
  BY OwnTypeStep DEF PipeInv
<1>4. IndexInv'
  BY StepGrows, PollInvStep, MiInvStep, BmInvStep, PickleStep, BuiltStep
     DEF IndexInv
<1>5. QED
  BY <1>1, <1>2, <1>3, <1>4 DEF PipeInv

\* In every behaviour.
LEMMA AlwaysJoint == Spec => []Joint
  BY InitJoint, JointStep, PTL DEF Spec

\* The rows, polls, tasks and pickles of the builders keep their types, and so
\* does the pipeline under them.
THEOREM IndexTypeCorrect == Spec => []TypeOK
<1>1. Joint => TypeOK
  BY SameType DEF Joint, PipeInv, OwnTypeOK, TypeOK
<1>2. QED
  BY <1>1, AlwaysJoint, PTL

\* With the builders at work the pipeline is still the pipeline: whatever
\* polls and builders do to the BM25 row is a move of its indexer, and what is
\* proved of DocPipeline holds of the composition.
THEOREM PipelineImplemented == Spec => PipelineRefined
<1>1. ASSUME Joint, [Next]_vars PROVE [P!Next]_P!vars
  <2>1. [PP!Next]_PP!vars
    BY <1>1, JointStep
  <2>2. QED
    BY <2>1, SameNext DEF P!vars, PP!vars, P!taskVars, PP!taskVars
<1>2. Init => P!Init
  BY DEF Init
<1>3. QED
  BY <1>1, <1>2, AlwaysJoint, PTL DEF Spec, PipelineRefined, P!Spec

\* The version on the BM25 row has both its files, whichever of several
\* builders committed it and whatever failed before.
THEOREM VersionsOnDisk == Spec => []VersionIsOnDisk
<1>1. Joint => VersionIsOnDisk
  BY DEF Joint, IndexInv
<1>2. QED
  BY <1>1, AlwaysJoint, PTL

\* No pickle ever holds a document that is not READY.
THEOREM OnlyReadyIndexed == Spec => []IndexedAreReady
<1>1. Joint => IndexedAreReady
  BY DEF Joint, IndexInv
<1>2. QED
  BY <1>1, AlwaysJoint, PTL

\* A READY summary or explanation status is never a status alone.
THEOREM ReadyIndexesExist == Spec => []ReadyIndexExists
<1>1. Joint => ReadyIndexExists
  BY DEF Joint, IndexInv
<1>2. QED
  BY <1>1, AlwaysJoint, PTL

\* No builder is ever started, or left over, without a READY document.
THEOREM BuildersHaveDocs == Spec => []BuildersNeedReadyDocs
<1>1. Joint => BuildersNeedReadyDocs
  BY DEF Joint, IndexInv, MiInv, BmInv, BuildersNeedReadyDocs, IsBuilder
<1>2. QED
  BY <1>1, AlwaysJoint, PTL

\* A step that nothing can fail keeps somebody at work on a PROCESSING row.
LEMMA WorkingStep ==
    ASSUME ~StageFaults, ~DbFaults, ~BrokerFaults, ~Crashes,
           Joint, ProcessingIsWorking, [Next]_vars
    PROVE  ProcessingIsWorking'
<1> DEFINE Busy == \/ \E b \in Bm25Tasks : bm'[b] # NoTask
                   \/ \E q \in Pollers : poll'[q].st = "fire" /\ poll'[q].cb
<1>0. /\ poll \in [Pollers -> PollState] /\ bm \in [Bm25Tasks -> BmState]
      /\ bm25 \in P!Bm25Status
  BY SameType DEF Joint, OwnTypeOK, PipeInv, P!TypeOK
<1>1. SUFFICES ASSUME bm25' = "PROCESSING" PROVE Busy
  BY DEF ProcessingIsWorking, IsBuilder, WillBuild
<1>2. ASSUME UNCHANGED <<poll, bm>>, bm25 = "PROCESSING" PROVE Busy
  BY <1>2 DEF ProcessingIsWorking, IsBuilder, WillBuild
<1>3. ASSUME NEW r \in Requests, P!PipelineStep(r), UNCHANGED indexVars
      PROVE  Busy
  <2>1. bm25' \in {bm25, "STALE"}
    BY <1>3, SameStep, SameAssumption, PP!RowStep
  <2>2. QED
    BY <1>1, <1>2, <1>3, <2>1 DEF indexVars, bmVars
<1>4. ASSUME NEW p \in Pollers,
             \/ PollBm25(p) \/ PollInsert(p) \/ PollRefresh(p)
             \/ \E r \in Requests : PollDocument(p, r)
      PROVE  Busy
  <2>1. bm25 = "PROCESSING" /\ bm' = bm
    BY <1>1, <1>4 DEF PollBm25, PollInsert, PollRefresh, PollDocument, pipeVars, bmVars
  <2>2. poll[p].st # "fire"
    BY <1>4 DEF PollBm25, PollInsert, PollRefresh, PollDocument, NoPoll, Raised
  <2>3. \A q \in Pollers \ {p} : poll'[q] = poll[q]
    BY <1>0, <1>4 DEF PollBm25, PollInsert, PollRefresh, PollDocument, Answers, Raises
  <2>4. QED
    BY <2>1, <2>2, <2>3 DEF ProcessingIsWorking, IsBuilder, WillBuild
<1>5. ASSUME NEW p \in Pollers, PollMark(p) PROVE Busy
  <2>1. CASE poll[p].b \in Bm25Todo
    <3>1. poll' = [poll EXCEPT ![p] =
                [st |-> "fire", r |-> poll[p].r, cs |-> poll[p].s \in Todo,
                 ce |-> poll[p].e \in Todo, cb |-> poll[p].b \in Bm25Todo]]
      BY <1>5, <2>1 DEF PollMark
    <3>2. poll'[p].st = "fire" /\ poll'[p].cb
      BY <1>0, <2>1, <3>1
    <3>3. QED
      BY <3>2
  <2>2. CASE poll[p].b \notin Bm25Todo
    <3>1. bm25 = "PROCESSING" /\ bm' = bm
      BY <1>1, <1>5, <2>2 DEF PollMark, bmVars
    <3>2. poll[p].st # "fire" /\ \A q \in Pollers \ {p} : poll'[q] = poll[q]
      BY <1>0, <1>5 DEF PollMark, Answers
    <3>3. QED
      BY <3>1, <3>2 DEF ProcessingIsWorking, IsBuilder, WillBuild
  <2>3. QED
    BY <2>1, <2>2
<1>6. ASSUME NEW p \in Pollers, PollFire(p) PROVE Busy
  <2>1. bm25 = "PROCESSING" /\ \A q \in Pollers \ {p} : poll'[q] = poll[q]
    BY <1>0, <1>1, <1>6 DEF PollFire, Answers, Raises, pipeVars
  <2>2. CASE poll[p].cb
    <3>1. PICK b \in Bm25Tasks : QueueBm25(b)
      BY <1>6, <2>2 DEF PollFire
    <3>2. bm'[b] # NoTask
      BY <1>0, <3>1 DEF QueueBm25, NoTask
    <3>3. QED
      BY <3>2
  <2>3. CASE ~poll[p].cb
    <3>1. bm' = bm
      BY <1>6, <2>3 DEF PollFire
    <3>2. QED
      BY <2>1, <2>3, <3>1 DEF ProcessingIsWorking, IsBuilder, WillBuild
  <2>4. QED
    BY <2>2, <2>3
<1>7. ASSUME NEW m \in MultiTasks, MiStep(m) PROVE Busy
  BY <1>1, <1>2, <1>7 DEF MiStep, MiRead, MiSummary, MiExplanation, MiWrite,
      MiFails, pipeVars, bmVars
<1>8. ASSUME NEW b \in Bm25Tasks, BmStep(b), ~BmFails(b), ~BmCommit(b),
             ~BmMarkFailed(b)
      PROVE  Busy
  <2>1. bm'[b].st \in {"listed", "open", "write", "move", "published", "failing"}
    BY <1>8, BmRecords DEF BmStep, GoesOn, Joint
  <2>2. QED
    BY <2>1 DEF NoTask
<1>9. ASSUME NEW b \in Bm25Tasks, BmStep(b) PROVE Busy
  BY <1>1, <1>8, <1>9 DEF BmFails, BmCommit, BmMarkFailed
<1>10. CASE UNCHANGED vars
  BY <1>1, <1>2, <1>10 DEF vars, pipeVars, indexVars, bmVars
<1>11. QED
  BY <1>3, <1>4, <1>5, <1>6, <1>7, <1>9, <1>10
     DEF Next, PollStep, PollDbFails, IndexCrash

\* Where nothing fails, a row that says PROCESSING is worked on, for any number
\* of polls and builders at once.
THEOREM ProcessingWorks ==
    ASSUME ~StageFaults, ~DbFaults, ~BrokerFaults, ~Crashes
    PROVE  Spec => []ProcessingIsWorking
<1>1. Init => ProcessingIsWorking
  BY DEF Init, P!Init, ProcessingIsWorking
<1>2. Joint /\ ProcessingIsWorking /\ [Next]_vars => ProcessingIsWorking'
  BY WorkingStep
<1>3. QED
  BY <1>1, <1>2, AlwaysJoint, PTL DEF Spec
-----------------------------------------------------------------------------
(* Polls and tasks run down.                                               *)

\* A multi-index task that goes on in its attempt, ends, or starts its next.
LEMMA MiFewer ==
    ASSUME NEW q \in MiState, NEW x \in MiState, q # NoTask,
           \/ x = NoTask
           \/ x.st = "queued" /\ x.tries = q.tries + 1
           \/ /\ <<q.st, x.st>> \in {<<"queued", "read">>, <<"read", "summed">>,
                                     <<"summed", "explained">>}
              /\ x.tries = q.tries
    PROVE  Fewer(MiLeft(x), MiLeft(q))
<1>1. q.tries \in 0..MaxRetries /\ MaxRetries \in Nat
  BY SameAssumption DEF PP!PipelineAssumption, MiState
<1>2. q.st \in {"queued", "read", "summed", "explained"}
  BY DEF MiState
<1>3. MiLeft(q) = 4 * (MaxRetries - q.tries)
                  + (CASE q.st = "queued" -> 4 [] q.st = "read" -> 3
                       [] q.st = "summed" -> 2 [] q.st = "explained" -> 1)
  BY DEF MiLeft
<1>4. CASE x = NoTask
  <2>1. MiLeft(x) = 0
    BY <1>4 DEF MiLeft
  <2>2. MiLeft(q) \in Nat \ {0}
    BY <1>1, <1>2, <1>3
  <2>3. QED
    BY <2>1, <2>2 DEF Fewer
<1>5. CASE x # NoTask
  <2>1. x.tries \in 0..MaxRetries
    BY <1>5 DEF MiState
  <2>2. MiLeft(x) = 4 * (MaxRetries - x.tries)
                    + (CASE x.st = "queued" -> 4 [] x.st = "read" -> 3
                         [] x.st = "summed" -> 2 [] x.st = "explained" -> 1)
    BY <1>5 DEF MiLeft
  <2>3. CASE x.st = "queued" /\ x.tries = q.tries + 1
    BY <1>1, <1>2, <1>3, <2>1, <2>2, <2>3 DEF Fewer
  <2>4. CASE /\ <<q.st, x.st>> \in {<<"queued", "read">>, <<"read", "summed">>,
                                    <<"summed", "explained">>}
             /\ x.tries = q.tries
    BY <1>1, <1>3, <2>2, <2>4 DEF Fewer
  <2>5. QED
    BY <1>5, <2>3, <2>4
<1>6. QED
  BY <1>4, <1>5

\* The steps of a BM25 task that are left in its attempt.
BmRank(q) ==
    CASE q.st = "queued" -> 10 [] q.st = "listed" -> 9
      [] q.st = "open" -> IF q.k = "docs" THEN 8 ELSE 6
      [] q.st = "write" -> IF q.k = "docs" THEN 7 ELSE 5
      [] q.st = "move" -> IF q.k = "docs" THEN 4 ELSE 3
      [] q.st = "published" -> 2 [] q.st = "failing" -> 1

\* The same of a BM25 task.
LEMMA BmFewer ==
    ASSUME NEW q \in BmState, NEW x \in BmState, q # NoTask,
           \/ x = NoTask
           \/ x.st = "queued" /\ x.tries = q.tries + 1
           \/ x # NoTask /\ BmRank(x) < BmRank(q) /\ x.tries = q.tries
    PROVE  Fewer(BmLeft(x), BmLeft(q))
<1>1. q.tries \in 0..MaxRetries /\ MaxRetries \in Nat
  BY SameAssumption DEF PP!PipelineAssumption, BmState
<1>2. ASSUME NEW y \in BmState, y # NoTask
      PROVE  /\ BmRank(y) \in 1..10 /\ BmLeft(y) = 10 * (MaxRetries - y.tries) + BmRank(y)
             /\ y.st = "queued" => BmRank(y) = 10
  <2>1. y.st \in {"queued", "listed", "open", "write", "move", "published", "failing"}
    BY <1>2 DEF BmState, Works
  <2>2. BmRank(y) \in 1..10 /\ (y.st = "queued" => BmRank(y) = 10)
    BY <2>1 DEF BmRank
  <2>3. BmLeft(y) = 10 * (MaxRetries - y.tries) + BmRank(y)
    BY <1>2 DEF BmLeft, BmRank
  <2>4. QED
    BY <2>2, <2>3
<1>3. CASE x = NoTask
  <2>1. BmLeft(x) = 0
    BY <1>3 DEF BmLeft
  <2>2. BmLeft(q) \in Nat \ {0}
    BY <1>1, <1>2
  <2>3. QED
    BY <2>1, <2>2 DEF Fewer
<1>4. CASE x # NoTask
  <2>1. x.tries \in 0..MaxRetries
    BY <1>4 DEF BmState
  <2>2. CASE x.st = "queued" /\ x.tries = q.tries + 1
    BY <1>1, <1>2, <1>4, <2>1, <2>2 DEF Fewer
  <2>3. CASE BmRank(x) < BmRank(q) /\ x.tries = q.tries
    BY <1>1, <1>2, <1>4, <2>3 DEF Fewer
  <2>4. QED
    BY <1>4, <2>2, <2>3
<1>5. QED
  BY <1>3, <1>4

\* A step of a poll brings it nearer to its answer.
LEMMA PollFewer ==
    ASSUME OwnTypeOK, NEW p \in Pollers, PollStep(p)
    PROVE  Fewer(PollLeft(poll'[p]), PollLeft(poll[p]))
<1>1. \A x : poll' = [poll EXCEPT ![p] = x] => poll'[p] = x
  BY DEF OwnTypeOK
<1>2. PollLeft(NoPoll) = 0 /\ PollLeft(Raised) = 0
  BY DEF PollLeft, NoPoll, Raised
<1>3. Answers(p) \/ Raises(p) => PollLeft(poll'[p]) = 0
  BY <1>1, <1>2 DEF Answers, Raises
<1>4. poll[p].st \in {"bm25", "insert", "refresh", "decide", "fire"} =>
          PollLeft(poll[p]) \in 1..5
  BY DEF PollLeft
<1>5. CASE PollBm25(p)
  <2>1. /\ poll[p].st = "bm25"
        /\ poll[p] \in [st: {"bm25", "insert", "refresh"}, r: Requests,
                        s: MultiStatus, e: MultiStatus]
    BY <1>5 DEF PollBm25, OwnTypeOK, PollState, NoPoll, Raised
  <2> DEFINE x == [poll[p] EXCEPT !.st = "insert"]
             y == [st |-> "decide", r |-> poll[p].r, s |-> poll[p].s,
                   e |-> poll[p].e, b |-> bm25]
  <2>2. x.st = "insert" /\ y.st = "decide"
    BY <2>1
  <2>3. poll' = [poll EXCEPT ![p] = x] \/ poll' = [poll EXCEPT ![p] = y]
    BY <1>5 DEF PollBm25, OwnTypeOK
  <2>4. poll'[p] = x \/ poll'[p] = y
    BY <1>1, <2>3
  <2>5. poll'[p].st \in {"insert", "decide"}
    <3> HIDE DEF x, y
    <3> QED
      BY <2>2, <2>4
  <2>6. PollLeft(poll[p]) = 5 /\ PollLeft(poll'[p]) \in {4, 2}
    BY <2>1, <2>5 DEF PollLeft
  <2>7. QED
    BY <2>6 DEF Fewer
<1>6. CASE PollInsert(p)
  <2>1. poll[p] \in [st: {"bm25", "insert", "refresh"}, r: Requests,
                     s: MultiStatus, e: MultiStatus]
    BY <1>6 DEF PollInsert, OwnTypeOK, PollState, NoPoll, Raised
  <2>2. [poll[p] EXCEPT !.st = "refresh"].st = "refresh"
    BY <2>1
  <2>3. Raises(p) \/ poll'[p].st = "refresh"
    BY <1>1, <1>6, <2>2 DEF PollInsert
  <2>4. PollLeft(poll[p]) = 4 /\ PollLeft(poll'[p]) \in {3, 0}
    BY <1>3, <1>6, <2>3 DEF PollInsert, PollLeft
  <2>5. QED
    BY <2>4 DEF Fewer
<1>r. CASE PollRefresh(p)
  <2>1. poll'[p].st = "decide"
    BY <1>1, <1>r DEF PollRefresh
  <2>2. PollLeft(poll[p]) = 3 /\ PollLeft(poll'[p]) = 2
    BY <1>r, <2>1 DEF PollRefresh, PollLeft
  <2>3. QED
    BY <2>2 DEF Fewer
<1>7. CASE PollMark(p)
  <2>1. Answers(p) \/ poll'[p].st = "fire"
    BY <1>1, <1>7 DEF PollMark
  <2>2. PollLeft(poll[p]) = 2 /\ PollLeft(poll'[p]) \in {1, 0}
    BY <1>3, <1>7, <2>1 DEF PollMark, PollLeft
  <2>3. QED
    BY <2>2 DEF Fewer
<1>8. CASE PollDbFails(p) \/ PollFire(p)
  <2>1. Answers(p) \/ Raises(p)
    BY <1>8 DEF PollDbFails, PollFire
  <2>2. PollLeft(poll[p]) \in 1..5
    BY <1>4, <1>8 DEF PollDbFails, PollFire
  <2>3. QED
    BY <1>3, <2>1, <2>2 DEF Fewer
<1>9. QED
  BY <1>5, <1>6, <1>r, <1>7, <1>8 DEF PollStep

\* So does a step of a task on the summaries and explanations ...
LEMMA MiStepFewer ==
    ASSUME OwnTypeOK, NEW m \in MultiTasks, MiStep(m)
    PROVE  /\ mi[m] # NoTask
           /\ Fewer(MiLeft(mi'[m]), MiLeft(mi[m]))
           /\ \A n \in MultiTasks : n # m => mi'[n] = mi[n]
           /\ UNCHANGED <<poll, bm>>
<1>1. mi[m].st \in {"queued", "read", "summed", "explained"}
  BY DEF MiStep, MiRead, MiSummary, MiExplanation, MiWrite, MiFails
<1>2. mi[m] \in MiState /\ mi[m] # NoTask /\ mi'[m] \in MiState
  BY <1>1, MiTypes DEF OwnTypeOK, NoTask
<1>3. \A x : mi' = [mi EXCEPT ![m] = x] =>
          mi'[m] = x /\ \A n \in MultiTasks : n # m => mi'[n] = mi[n]
  BY DEF OwnTypeOK
<1>4. CASE MiRead(m)
  <2> DEFINE x == [st |-> "read", r |-> mi[m].r, cs |-> mi[m].cs, ce |-> mi[m].ce,
                   tries |-> mi[m].tries, s |-> summary[mi[m].r],
                   e |-> explanation[mi[m].r]]
  <2>1. mi' = [mi EXCEPT ![m] = x]
    BY <1>4 DEF MiRead
  <2>a. x.st = "read" /\ x.tries = mi[m].tries
    OBVIOUS
  <2>2. mi[m].st = "queued" /\ UNCHANGED <<poll, bm>>
    BY <1>4 DEF MiRead, bmVars
  <2>3. QED
    BY <1>2, <1>3, <2>1, <2>a, <2>2, MiFewer
<1>5. ASSUME mi[m].st \in {"read", "summed", "explained"}
      PROVE  mi[m] \in [st: {"read", "summed", "explained"}, r: Requests,
                        cs: BOOLEAN, ce: BOOLEAN, tries: 0..MaxRetries,
                        s: MultiStatus, e: MultiStatus]
  BY <1>2, <1>5 DEF MiState, NoTask
<1>6. CASE MiSummary(m)
  <2>1. PICK y : mi' = [mi EXCEPT ![m] = [mi[m] EXCEPT !.st = "summed", !.s = y]]
    BY <1>6 DEF MiSummary
  <2>2. mi[m].st = "read" /\ UNCHANGED <<poll, bm>>
    BY <1>6 DEF MiSummary, bmVars
  <2>3. mi'[m] = [mi[m] EXCEPT !.st = "summed", !.s = y]
    BY <1>3, <2>1
  <2>4. mi'[m].st = "summed" /\ mi'[m].tries = mi[m].tries
    BY <1>5, <2>2, <2>3
  <2>5. QED
    BY <1>2, <1>3, <2>1, <2>2, <2>4, MiFewer
<1>7. CASE MiExplanation(m)
  <2>1. PICK y : mi' = [mi EXCEPT ![m] = [mi[m] EXCEPT !.st = "explained", !.e = y]]
    BY <1>7 DEF MiExplanation
  <2>2. mi[m].st = "summed" /\ UNCHANGED <<poll, bm>>
    BY <1>7 DEF MiExplanation, bmVars
  <2>3. mi'[m] = [mi[m] EXCEPT !.st = "explained", !.e = y]
    BY <1>3, <2>1
  <2>4. mi'[m].st = "explained" /\ mi'[m].tries = mi[m].tries
    BY <1>5, <2>2, <2>3
  <2>5. QED
    BY <1>2, <1>3, <2>1, <2>2, <2>4, MiFewer
<1>8. CASE MiWrite(m)
  BY <1>2, <1>3, <1>8, MiFewer DEF MiWrite, MiDone, bmVars
<1>9. CASE MiFails(m)
  <2> DEFINE x == [st |-> "queued", r |-> mi[m].r, cs |-> mi[m].cs, ce |-> mi[m].ce,
                   tries |-> mi[m].tries + 1]
  <2>1. mi'[m] \in {x, NoTask} /\ \A n \in MultiTasks : n # m => mi'[n] = mi[n]
    BY <1>9 DEF MiFails, MiRetry, OwnTypeOK
  <2>a. x.st = "queued" /\ x.tries = mi[m].tries + 1
    OBVIOUS
  <2>2. QED
    BY <1>2, <1>9, <2>1, <2>a, MiFewer DEF MiFails, bmVars
<1>10. QED
  BY <1>2, <1>4, <1>6, <1>7, <1>8, <1>9 DEF MiStep

\* ... and a step of a BM25 task.
LEMMA BmStepFewer ==
    ASSUME OwnTypeOK, NEW b \in Bm25Tasks, BmStep(b)
    PROVE  /\ bm[b] # NoTask
           /\ Fewer(BmLeft(bm'[b]), BmLeft(bm[b]))
           /\ \A c \in Bm25Tasks : c # b => bm'[c] = bm[c]
           /\ UNCHANGED <<poll, mi>>
<1>1. /\ bm[b] \in BmState /\ bm[b] # NoTask /\ bm'[b] \in BmState
      /\ \A c \in Bm25Tasks : c # b => bm'[c] = bm[c]
  BY BmRecords DEF OwnTypeOK
<1>2. UNCHANGED <<poll, mi>>
  BY DEF BmStep, BmList, BmLists, BmRead, BmFails, BmOpen, BmWrite, BmMove,
      BmBuildFails, BmCommit, BmMarkFailed
<1>g. SUFFICES Fewer(BmLeft(bm'[b]), BmLeft(bm[b]))
  BY <1>1, <1>2
<1>3. ASSUME bm'[b].st # "none", BmRank(bm'[b]) < BmRank(bm[b]), bm'[b].tries = bm[b].tries
      PROVE  Fewer(BmLeft(bm'[b]), BmLeft(bm[b]))
  BY <1>1, <1>3, BmFewer DEF NoTask
<1>4. CASE BmList(b)
  <2>1. bm[b].st = "queued"
    BY <1>4 DEF BmList, BmLists
  <2>2. bm'[b].st = "listed" /\ bm'[b].tries = bm[b].tries
    BY <1>4, BmRecords
  <2>3. BmRank(bm[b]) = 10 /\ BmRank(bm'[b]) = 9
    BY <2>1, <2>2 DEF BmRank
  <2>4. QED
    BY <1>3, <2>2, <2>3
<1>5. CASE BmRead(b)
  BY <1>3, <1>5, BmRecords DEF BmRead, BmRank
<1>6. CASE BmOpen(b)
  BY <1>3, <1>6, BmRecords DEF BmOpen, BmRank, GoesOn
<1>7. CASE BmWrite(b)
  <2>1. bm[b].st = "write" /\ bm[b].k \in Kinds
    BY <1>7, BmRecords DEF BmWrite, Works
  <2>2. IF bm[b].k = "docs" THEN GoesOn(b, "open", "retriever")
                            ELSE GoesOn(b, "move", "docs")
    BY <1>7, BmRecords
  <2>3. CASE GoesOn(b, "open", "retriever") /\ bm[b].k = "docs"
    BY <1>3, <2>1, <2>3 DEF BmRank, GoesOn
  <2>4. CASE GoesOn(b, "move", "docs") /\ bm[b].k = "retriever"
    BY <1>3, <2>1, <2>4 DEF BmRank, GoesOn
  <2>5. QED
    BY <2>1, <2>2, <2>3, <2>4 DEF Kinds
<1>8. ASSUME bm[b].st \in Works, bm'[b].st = "failing", bm'[b].tries = bm[b].tries
      PROVE  Fewer(BmLeft(bm'[b]), BmLeft(bm[b]))
  <2>1. BmRank(bm'[b]) = 1 /\ BmRank(bm[b]) \in 2..8
    BY <1>8 DEF BmRank, Works
  <2>2. QED
    BY <1>3, <1>8, <2>1
<1>9. CASE BmMove(b)
  <2>1. bm[b].st = "move" /\ bm[b].k \in Kinds
    BY <1>9, BmRecords DEF BmMove, Works
  <2>2. CASE tmp[Mine(b)].st = "absent"
    <3>1. bm'[b].st = "failing" /\ bm'[b].tries = bm[b].tries
      BY <1>9, <2>2, BmRecords
    <3>2. QED
      BY <1>8, <2>1, <3>1 DEF Works
  <2>3. CASE tmp[Mine(b)].st # "absent"
    <3>1. IF bm[b].k = "docs" THEN GoesOn(b, "move", "retriever")
                              ELSE GoesOn(b, "published", "retriever")
      BY <1>9, <2>3, BmRecords
    <3>2. CASE GoesOn(b, "move", "retriever") /\ bm[b].k = "docs"
      BY <1>3, <2>1, <3>2 DEF BmRank, GoesOn
    <3>3. CASE GoesOn(b, "published", "retriever") /\ bm[b].k = "retriever"
      BY <1>3, <2>1, <3>3 DEF BmRank, GoesOn
    <3>4. QED
      BY <2>1, <3>1, <3>2, <3>3 DEF Kinds
  <2>4. QED
    BY <2>2, <2>3
<1>10. CASE BmBuildFails(b)
  BY <1>8, <1>10, BmRecords DEF BmBuildFails, Works
<1>11. CASE BmFails(b)
  <2>1. \/ bm'[b] = NoTask
        \/ bm'[b].st = "queued" /\ bm'[b].tries = bm[b].tries + 1
    BY <1>11, BmRecords
  <2>2. QED
    BY <1>1, <2>1, BmFewer
<1>12. CASE BmCommit(b)
  BY <1>1, <1>8, <1>12, BmRecords, BmFewer DEF BmCommit, Works
<1>13. CASE BmMarkFailed(b)
  <2>1. bm'[b] = NoTask
    BY <1>13, BmRecords
  <2>2. QED
    BY <1>1, <2>1, BmFewer
<1>14. QED
  BY <1>4, <1>5, <1>6, <1>7, <1>9, <1>10, <1>11, <1>12, <1>13 DEF BmStep

\* What a poll starts it starts in a free slot, with its last step.
LEMMA StartsOnlyAtTheEnd ==
    ASSUME OwnTypeOK, NEW p \in Pollers, PollStep(p)
    PROVE  /\ \A m \in MultiTasks : mi'[m] = mi[m] \/ (mi[m] = NoTask /\ Fires(p))
           /\ \A b \in Bm25Tasks : bm'[b] = bm[b] \/ (bm[b] = NoTask /\ Fires(p))
<1>1. CASE PollFire(p)
  <2>1. Fires(p)
    BY <1>1, PollFewer DEF Fires, PollFire
  <2>2. \A m \in MultiTasks : mi'[m] = mi[m] \/ mi[m] = NoTask
    BY <1>1 DEF PollFire, QueueMulti, OwnTypeOK
  <2>3. \A b \in Bm25Tasks : bm'[b] = bm[b] \/ bm[b] = NoTask
    BY <1>1 DEF PollFire, QueueBm25, OwnTypeOK
  <2>4. QED
    BY <2>1, <2>2, <2>3
<1>2. CASE PollBm25(p) \/ PollInsert(p) \/ PollRefresh(p) \/ PollMark(p) \/ PollDbFails(p)
  BY <1>2 DEF PollBm25, PollInsert, PollRefresh, PollMark, PollDbFails, bmVars
<1>3. QED
  BY <1>1, <1>2 DEF PollStep

\* No step of a poll concerns another poll.
LEMMA OnePollMoves ==
    ASSUME OwnTypeOK, NEW p \in Pollers,
           PollStep(p) \/ \E r \in Requests : PollDocument(p, r)
    PROVE  \A q \in Pollers : q # p => poll'[q] = poll[q]
<1>1. ASSUME NEW x, poll' = [poll EXCEPT ![p] = x]
      PROVE  \A q \in Pollers : q # p => poll'[q] = poll[q]
  BY <1>1 DEF OwnTypeOK
<1>2. ASSUME NEW r \in Requests, PollDocument(p, r)
      PROVE  \A q \in Pollers : q # p => poll'[q] = poll[q]
  BY <1>1, <1>2 DEF PollDocument, Answers, Raises
<1>3. ASSUME PollStep(p) PROVE \A q \in Pollers : q # p => poll'[q] = poll[q]
  BY <1>1, <1>3 DEF PollStep, PollBm25, PollInsert, PollRefresh, PollMark, PollDbFails, PollFire,
                    Answers, Raises
<1>4. QED
  BY <1>2, <1>3

\* What is over leaves nothing to do; what is not leaves something.
LEMMA GivesUp ==
    ASSUME OwnTypeOK
    PROVE  /\ \A m \in MultiTasks : mi[m] # NoTask =>
                  Fewer(MiLeft(NoTask), MiLeft(mi[m]))
           /\ \A b \in Bm25Tasks : bm[b] # NoTask =>
                  Fewer(BmLeft(NoTask), BmLeft(bm[b]))
           /\ \A p \in Pollers : poll[p] \notin {NoPoll, Raised} =>
                  Fewer(PollLeft(Raised), PollLeft(poll[p]))
<1>1. \A m \in MultiTasks : mi[m] \in MiState /\ NoTask \in MiState
  BY DEF OwnTypeOK, MiState
<1>2. \A b \in Bm25Tasks : bm[b] \in BmState /\ NoTask \in BmState
  BY DEF OwnTypeOK, BmState
<1>3. ASSUME NEW p \in Pollers, poll[p] \notin {NoPoll, Raised}
      PROVE  Fewer(PollLeft(Raised), PollLeft(poll[p]))
  <2>1. poll[p].st \in {"bm25", "insert", "refresh", "decide", "fire"}
    BY <1>3 DEF OwnTypeOK, PollState
  <2>2. PollLeft(poll[p]) \in 1..5 /\ PollLeft(Raised) = 0
    BY <2>1 DEF PollLeft, Raised
  <2>3. QED
    BY <2>2 DEF Fewer
<1>4. QED
  BY <1>1, <1>2, <1>3, MiFewer, BmFewer

\* After a client's request, polls and builders have a bounded amount of work:
\* whatever is retried, dies or interleaves, each step leaves less to do, and
\* the polls cannot keep each other or the workers busy.
THEOREM BuildsTakeFiniteWork == Spec => BuildsRunDown
<1> DEFINE PollsRun == \A p \in Pollers :
               \/ UNCHANGED poll[p]
               \/ poll[p] \in {NoPoll, Raised}
               \/ Fewer(PollLeft(poll'[p]), PollLeft(poll[p]))
           TasksRun == /\ \A m \in MultiTasks :
                             \/ UNCHANGED mi[m]
                             \/ mi[m] = NoTask /\ \E p \in Pollers : Fires(p)
                             \/ Fewer(MiLeft(mi'[m]), MiLeft(mi[m]))
                       /\ \A b \in Bm25Tasks :
                             \/ UNCHANGED bm[b]
                             \/ bm[b] = NoTask /\ \E p \in Pollers : Fires(p)
                             \/ Fewer(BmLeft(bm'[b]), BmLeft(bm[b]))
           Rests == UNCHANGED <<poll, mi, bm>> => UNCHANGED indexVars
<1>1. ASSUME Joint, [Next]_vars PROVE PollsRun /\ TasksRun /\ Rests
  <2> USE <1>1 DEF Joint
  <2>1. ASSUME UNCHANGED indexVars PROVE PollsRun /\ TasksRun /\ Rests
    BY <2>1 DEF indexVars, bmVars
  <2>2. ASSUME NEW p \in Pollers, PollStep(p) PROVE PollsRun /\ TasksRun /\ Rests
    <3>1. PollsRun
      BY <2>2, PollFewer, OnePollMoves
    <3>2. TasksRun
      BY <2>2, StartsOnlyAtTheEnd
    <3>3. PollLeft(poll'[p]) \in 0..(PollLeft(poll[p]) - 1) /\ PollLeft(poll[p]) \in 0..5
      BY <2>2, PollFewer DEF Fewer, PollLeft
    <3>4. QED
      BY <3>1, <3>2, <3>3
  <2>3. ASSUME NEW p \in Pollers, NEW r \in Requests, PollDocument(p, r)
        PROVE  PollsRun /\ TasksRun /\ Rests
    BY <2>3, OnePollMoves DEF PollDocument, indexVars, bmVars
  <2>4. ASSUME NEW m \in MultiTasks, MiStep(m) PROVE PollsRun /\ TasksRun /\ Rests
    <3>1. PollsRun /\ TasksRun
      BY <2>4, MiStepFewer
    <3>2. mi[m] \in MiState /\ mi'[m] # mi[m]
      <4>1. mi[m] \in MiState /\ mi[m] # NoTask
        BY <2>4, MiStepFewer DEF OwnTypeOK
      <4>2. MiLeft(mi[m]) \in Nat
        BY <4>1, SameAssumption DEF PP!PipelineAssumption, MiState, MiLeft
      <4>3. QED
        BY <2>4, <4>1, <4>2, MiStepFewer DEF Fewer
    <3>3. QED
      BY <3>1, <3>2
  <2>5. ASSUME NEW b \in Bm25Tasks, BmStep(b) PROVE PollsRun /\ TasksRun /\ Rests
    <3>1. PollsRun /\ TasksRun
      BY <2>5, BmStepFewer
    <3>2. bm'[b] # bm[b]
      <4>1. bm[b] \in BmState /\ bm[b] # NoTask
        BY <2>5, BmStepFewer DEF OwnTypeOK
      <4>2. BmLeft(bm[b]) \in Nat
        BY <4>1, SameAssumption DEF PP!PipelineAssumption, BmState, BmLeft, Works
      <4>3. QED
        BY <2>5, <4>2, BmStepFewer DEF Fewer
    <3>3. QED
      BY <3>1, <3>2
  <2>6. ASSUME IndexCrash PROVE PollsRun /\ TasksRun /\ Rests
    <3>1. /\ \A p, q \in Pollers : Raises(p) =>
                 poll'[q] = IF q = p THEN Raised ELSE poll[q]
          /\ \A m, n \in MultiTasks : MiDone(m) =>
                 mi'[n] = IF n = m THEN NoTask ELSE mi[n]
          /\ \A b, c \in Bm25Tasks : BmDone(b) =>
                 bm'[c] = IF c = b THEN NoTask ELSE bm[c]
      BY DEF OwnTypeOK, Raises, MiDone, BmDone
    <3>2. PollsRun /\ TasksRun
      BY <2>6, <3>1, GivesUp DEF IndexCrash
    <3>3. ~UNCHANGED <<poll, mi, bm>>
      BY <2>6, <3>1 DEF IndexCrash
    <3>4. QED
      BY <3>2, <3>3
  <2>7. QED
    BY <2>1, <2>2, <2>3, <2>4, <2>5, <2>6 DEF Next, vars
<1>2. Joint /\ [Next]_vars => [PollsRun /\ TasksRun /\ Rests]_vars
  BY <1>1
<1>3. QED
  BY <1>2, AlwaysJoint, PTL DEF Spec, BuildsRunDown
=============================================================================
