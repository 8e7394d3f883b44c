---------------------------- MODULE OnePollProofs ----------------------------
(***************************************************************************)
(* Proofs about the index builders when the client polls one request after *)
(* the other: the claim that PollMark commits then is a lock, for any      *)
(* number of documents and tasks and every combination of faults.          *)
(***************************************************************************)
EXTENDS IndexBuildProofs

\* The client waits for the answer before it polls again.
OnePoll == \A p, q \in Pollers : p = q

\* Nobody builds the indexes of r; none of them is to be built.
TaskFree(r) == \A m \in MultiTasks : mi[m] # NoTask => mi[m].r # r
Claimed(r) == summary[r] \notin Todo /\ explanation[r] \notin Todo

\* A poll that is going to claim a document read statuses that are still those
\* of the row, and nobody works on it; a task's document is claimed, and a
\* task that has read READY has it still.
PollsAlone ==
    \A p \in Pollers :
        /\ (/\ poll[p].st \in {"bm25", "insert", "refresh", "decide"}
            /\ poll[p].s \in Todo \/ poll[p].e \in Todo) =>
                /\ summary[poll[p].r] = poll[p].s
                /\ explanation[poll[p].r] = poll[p].e
                /\ TaskFree(poll[p].r)
        /\ poll[p].st = "fire" /\ (poll[p].cs \/ poll[p].ce) =>
                TaskFree(poll[p].r) /\ Claimed(poll[p].r)
TasksAlone ==
    \A m \in MultiTasks : mi[m] # NoTask =>
        /\ Claimed(mi[m].r)
        /\ mi[m].st \in {"read", "summed", "explained"} =>
              /\ summary[mi[m].r] = "READY" => mi[m].s = "READY"
              /\ explanation[mi[m].r] = "READY" => mi[m].e = "READY"
\* What BuiltStaysBuilt says of one step.
StillBuilt ==
    \A r \in Requests : /\ summary[r] = "READY" => summary'[r] = "READY"
                        /\ explanation[r] = "READY" => explanation'[r] = "READY"

AloneInv == PollsAlone /\ TasksAlone /\ OneMultiTaskPerDocument

\* A poll's step, where it is the only one: it claims what nobody works on,
\* and queues one task for it.
LEMMA AlonePoll ==
    ASSUME OnePoll, OwnTypeOK, AloneInv, NEW p \in Pollers,
           PollStep(p) \/ \E r \in Requests : PollDocument(p, r)
    PROVE  /\ AloneInv'
           /\ StillBuilt
<1> USE DEF AloneInv, StillBuilt
<1>0. \A q \in Pollers : q = p
  BY DEF OnePoll
<1>1. CASE Answers(p) \/ Raises(p)
  <2>1. poll'[p] \in {NoPoll, Raised}
    BY <1>1 DEF Answers, Raises, OwnTypeOK
  <2>2. PollsAlone'
    BY <1>0, <2>1 DEF PollsAlone, NoPoll, Raised
  <2>3. CASE UNCHANGED <<mi, summary, explanation>>
    BY <2>2, <2>3 DEF TasksAlone, OneMultiTaskPerDocument, Claimed
  <2>4. CASE PollFire(p) /\ mi' # mi
    <3>1. PICK m \in MultiTasks : QueueMulti(m, poll[p])
      BY <2>4 DEF PollFire
    <3>2. TaskFree(poll[p].r) /\ Claimed(poll[p].r)
      BY <2>4 DEF PollFire, PollsAlone
    <3>3. /\ mi'[m].r = poll[p].r /\ mi'[m].st = "queued"
          /\ \A n \in MultiTasks \ {m} : mi'[n] = mi[n]
      BY <3>1 DEF QueueMulti, OwnTypeOK
    <3>4. UNCHANGED <<summary, explanation>>
      BY <2>4 DEF PollFire, rowVars
    <3>5. TasksAlone'
      BY <3>2, <3>3, <3>4 DEF TasksAlone, Claimed
    <3>6. OneMultiTaskPerDocument'
      BY <3>2, <3>3 DEF OneMultiTaskPerDocument, TaskFree
    <3>7. QED
      BY <2>2, <3>4, <3>5, <3>6
  <2>5. ASSUME PollMark(p) PROVE UNCHANGED <<mi, summary, explanation>>
    <3>1. \/ UNCHANGED rowVars
          \/ poll' = [poll EXCEPT ![p] =
                [st |-> "fire", r |-> poll[p].r, cs |-> poll[p].s \in Todo,
                 ce |-> poll[p].e \in Todo, cb |-> poll[p].b \in Bm25Todo]]
      BY <2>5 DEF PollMark
    <3>2. UNCHANGED rowVars
      BY <2>1, <3>1 DEF OwnTypeOK, NoPoll, Raised
    <3>3. QED
      BY <2>5, <3>2 DEF PollMark, rowVars
  <2>6. UNCHANGED <<summary, explanation>>
    BY <2>5 DEF PollStep, PollDocument, PollBm25, PollInsert, PollRefresh,
        PollDbFails, PollFire, rowVars
  <2>7. mi' = mi \/ PollFire(p)
    BY <2>5 DEF PollStep, PollDocument, PollBm25, PollInsert, PollRefresh, PollDbFails
  <2>8. QED
    BY <2>3, <2>4, <2>6, <2>7
<1>2. ASSUME NEW r \in Requests, PollDocument(p, r),
             poll' = [poll EXCEPT ![p] = [st |-> "bm25", r |-> r,
                                s |-> summary[r], e |-> explanation[r]]]
      PROVE  AloneInv'
  <2>1. /\ poll'[p].st = "bm25" /\ poll'[p].r = r
        /\ poll'[p].s = summary[r] /\ poll'[p].e = explanation[r]
    BY <1>2 DEF OwnTypeOK
  <2>2. UNCHANGED <<mi, summary, explanation>>
    BY <1>2 DEF PollDocument, rowVars
  <2>3. summary[r] \in Todo \/ explanation[r] \in Todo => TaskFree(r)
    BY DEF TasksAlone, Claimed, TaskFree
  <2>4. PollsAlone'
    BY <1>0, <2>1, <2>2, <2>3 DEF PollsAlone, TaskFree
  <2>5. QED
    BY <2>2, <2>4 DEF TasksAlone, OneMultiTaskPerDocument, Claimed
<1>3. ASSUME PollBm25(p) \/ PollInsert(p) \/ PollRefresh(p), ~Raises(p) PROVE AloneInv'
  <2>1. poll[p] \in [st: {"bm25", "insert", "refresh"}, r: Requests, s: MultiStatus,
                     e: MultiStatus]
    BY <1>3 DEF PollBm25, PollInsert, PollRefresh, OwnTypeOK, PollState, NoPoll, Raised
  <2>2. /\ poll'[p].st \in {"insert", "refresh", "decide"} /\ poll'[p].r = poll[p].r
        /\ poll'[p].s = poll[p].s /\ poll'[p].e = poll[p].e
    BY <1>3, <2>1 DEF PollBm25, PollInsert, PollRefresh, OwnTypeOK
  <2>3. UNCHANGED <<mi, summary, explanation>>
    BY <1>3 DEF PollBm25, PollInsert, PollRefresh, rowVars
  <2>4. PollsAlone'
    BY <1>0, <2>1, <2>2, <2>3 DEF PollsAlone, TaskFree
  <2>5. QED
    BY <2>3, <2>4 DEF TasksAlone, OneMultiTaskPerDocument, Claimed
<1>4. ASSUME PollMark(p), ~Answers(p)
      PROVE  /\ AloneInv'
             /\ StillBuilt
  <2> DEFINE q == poll[p]
  <2>1. /\ q.st = "decide" /\ q.r \in Requests
        /\ q.s \in MultiStatus /\ q.e \in MultiStatus
    BY <1>4 DEF PollMark, OwnTypeOK, PollState, NoPoll, Raised
  <2>2. poll' = [poll EXCEPT ![p] =
                [st |-> "fire", r |-> q.r, cs |-> q.s \in Todo,
                 ce |-> q.e \in Todo, cb |-> q.b \in Bm25Todo]]
    BY <1>4 DEF PollMark
  <2>3. /\ poll'[p].st = "fire" /\ poll'[p].r = q.r
        /\ poll'[p].cs <=> q.s \in Todo
        /\ poll'[p].ce <=> q.e \in Todo
    BY <2>2 DEF OwnTypeOK
  <2>4. mi' = mi
    BY <1>4 DEF PollMark
  <2>5. /\ \A r \in Requests \ {q.r} :
              summary'[r] = summary[r] /\ explanation'[r] = explanation[r]
        /\ summary'[q.r] = IF q.s \in Todo THEN "PROCESSING" ELSE summary[q.r]
        /\ explanation'[q.r] = IF q.e \in Todo THEN "PROCESSING"
                                                ELSE explanation[q.r]
    BY <1>4, <2>1 DEF PollMark, OwnTypeOK
  <2>6. q.s \in Todo \/ q.e \in Todo =>
            summary[q.r] = q.s /\ explanation[q.r] = q.e /\ TaskFree(q.r)
    BY <2>1 DEF PollsAlone
  <2>7. PollsAlone'
    BY <1>0, <2>3, <2>4, <2>5, <2>6 DEF PollsAlone, TaskFree, Claimed, Todo
  <2>8. \A m \in MultiTasks : mi[m] # NoTask => mi[m].r \in Requests
    BY DEF OwnTypeOK, MiState
  <2>9. TasksAlone'
    BY <2>4, <2>5, <2>6, <2>8 DEF TasksAlone, TaskFree, Claimed
  <2>10. QED
    BY <2>4, <2>5, <2>6, <2>7, <2>9 DEF OneMultiTaskPerDocument, Todo
<1>5. PollMark(p) \/ UNCHANGED <<summary, explanation>>
  BY DEF PollStep, PollDocument, PollBm25, PollInsert, PollRefresh, PollDbFails,
      PollFire, rowVars
<1>6. CASE PollMark(p)
  BY <1>1, <1>4, <1>6 DEF PollMark, rowVars
<1>7. QED
  BY <1>1, <1>2, <1>3, <1>5, <1>6 DEF PollStep, PollDocument, PollDbFails, PollFire

\* A task's step: what it writes back is what it read or has built since, of a
\* document nobody else has changed.
LEMMA AloneTask ==
    ASSUME OwnTypeOK, AloneInv, NEW m \in MultiTasks, MiStep(m)
    PROVE  /\ AloneInv'
           /\ StillBuilt
<1> USE DEF AloneInv, StillBuilt
<1> DEFINE d == mi[m].r
<1>0. mi[m] # NoTask /\ poll' = poll /\ d \in Requests
  <2>1. mi[m].st \in {"queued", "read", "summed", "explained"}
    BY DEF MiStep, MiRead, MiSummary, MiExplanation, MiWrite, MiFails
  <2>2. poll' = poll
    BY DEF MiStep, MiRead, MiSummary, MiExplanation, MiWrite, MiFails
  <2>3. mi[m] # NoTask
    BY <2>1 DEF NoTask
  <2>4. QED
    BY <2>2, <2>3 DEF OwnTypeOK, MiState
<1>1. \A n \in MultiTasks \ {m} : mi'[n] = mi[n]
  <2>1. MiSummary(m) => \E t : mi' = [mi EXCEPT ![m] = t]
    BY DEF MiSummary
  <2>2. MiExplanation(m) => \E t : mi' = [mi EXCEPT ![m] = t]
    BY DEF MiExplanation
  <2>3. MiRead(m) \/ MiWrite(m) \/ MiFails(m) => \E t : mi' = [mi EXCEPT ![m] = t]
    BY DEF MiRead, MiWrite, MiFails, MiDone, MiRetry
  <2>4. QED
    BY <2>1, <2>2, <2>3 DEF MiStep, OwnTypeOK
<1>t. ASSUME mi[m].st \in {"read", "summed"}
      PROVE  mi[m] \in [st: {"read", "summed", "explained"}, r: Requests,
                        cs: BOOLEAN, ce: BOOLEAN, tries: 0..MaxRetries,
                        s: MultiStatus, e: MultiStatus]
  BY <1>t DEF OwnTypeOK, MiState, NoTask
<1>2. mi'[m] # NoTask => mi'[m].r = d
  <2>1. CASE MiSummary(m)
    <3>1. PICK x : mi' = [mi EXCEPT ![m] = [mi[m] EXCEPT !.st = "summed", !.s = x]]
      BY <2>1 DEF MiSummary
    <3>2. [mi[m] EXCEPT !.st = "summed", !.s = x].r = d
      BY <1>t, <2>1 DEF MiSummary
    <3>3. QED
      BY <3>1, <3>2 DEF OwnTypeOK
  <2>2. CASE MiExplanation(m)
    <3>1. PICK x :
            mi' = [mi EXCEPT ![m] = [mi[m] EXCEPT !.st = "explained", !.e = x]]
      BY <2>2 DEF MiExplanation
    <3>2. [mi[m] EXCEPT !.st = "explained", !.e = x].r = d
      BY <1>t, <2>2 DEF MiExplanation
    <3>3. QED
      BY <3>1, <3>2 DEF OwnTypeOK
  <2>3. CASE MiRead(m) \/ MiWrite(m) \/ MiFails(m)
    BY <2>3 DEF MiRead, MiWrite, MiFails, MiDone, MiRetry, OwnTypeOK
  <2>4. QED
    BY <2>1, <2>2, <2>3 DEF MiStep
<1>3. OneMultiTaskPerDocument'
  BY <1>0, <1>1, <1>2 DEF OneMultiTaskPerDocument
<1>4. \A r : TaskFree(r) => TaskFree(r)'
  BY <1>0, <1>1, <1>2 DEF TaskFree
<1>5. \A r \in Requests \ {d} :
          summary'[r] = summary[r] /\ explanation'[r] = explanation[r]
  BY DEF MiStep, MiRead, MiSummary, MiExplanation, MiWrite, MiFails, OwnTypeOK,
      rowVars
<1>6. PollsAlone'
  <2>1. \A p \in Pollers : poll[p].st \in {"bm25", "insert", "refresh", "decide", "fire"}
            => poll[p].r \in Requests
    BY DEF OwnTypeOK, PollState, NoPoll, Raised
  <2>2. ~TaskFree(d)
    BY <1>0 DEF TaskFree
  <2>3. QED
    BY <1>0, <1>4, <1>5, <2>1, <2>2 DEF PollsAlone, Claimed
<1>7. \A n \in MultiTasks \ {m} :
          mi[n] # NoTask => mi[n].r \in Requests \ {d}
  BY <1>0 DEF OneMultiTaskPerDocument, OwnTypeOK, MiState
<1>8. CASE MiWrite(m)
  <2>1. mi'[m] = NoTask
    BY <1>8 DEF MiWrite, MiDone, OwnTypeOK
  <2>2. TasksAlone'
    BY <1>1, <1>5, <1>7, <2>1 DEF TasksAlone, Claimed
  <2>3. /\ summary[d] = "READY" => mi[m].s = "READY"
        /\ explanation[d] = "READY" => mi[m].e = "READY"
    BY <1>0, <1>8 DEF MiWrite, TasksAlone
  <2>4. /\ summary[d] = "READY" => summary'[d] = "READY"
        /\ explanation[d] = "READY" => explanation'[d] = "READY"
    BY <1>0, <1>8, <2>3 DEF MiWrite, OwnTypeOK
  <2>5. QED
    BY <1>3, <1>5, <1>6, <2>2, <2>4
<1>9. ASSUME ~MiWrite(m) PROVE UNCHANGED <<summary, explanation>>
  BY <1>9 DEF MiStep, MiRead, MiSummary, MiExplanation, MiFails, rowVars
<1>10. CASE MiRead(m)
  <2>1. mi'[m].s = summary[d] /\ mi'[m].e = explanation[d]
    BY <1>10 DEF MiRead, OwnTypeOK
  <2>2. TasksAlone'
    BY <1>0, <1>1, <1>2, <1>10, <2>1 DEF MiRead, TasksAlone, Claimed, rowVars
  <2>3. QED
    BY <1>3, <1>6, <1>10, <2>2 DEF MiRead, rowVars
<1>11. \A w, i : \A o \in BuildOutcomes(w, "READY", i) : o[1] = "READY"
  BY DEF BuildOutcomes
<1>12. CASE MiSummary(m)
  <2>0. mi[m].st = "read"
    BY <1>12 DEF MiSummary
  <2>1. PICK o \in BuildOutcomes(mi[m].cs, mi[m].s, <<d, "s">>) :
            mi' = [mi EXCEPT ![m] = [mi[m] EXCEPT !.st = "summed", !.s = o[1]]]
    BY <1>12 DEF MiSummary
  <2>2. mi[m].s = "READY" => o[1] = "READY"
    BY <1>11
  <2>3. mi'[m].s = o[1] /\ mi'[m].e = mi[m].e
    BY <1>t, <2>0, <2>1 DEF OwnTypeOK
  <2>4. UNCHANGED <<summary, explanation>>
    BY <1>12 DEF MiSummary, rowVars
  <2>5. TasksAlone'
    BY <1>0, <1>1, <1>2, <2>0, <2>2, <2>3, <2>4 DEF TasksAlone, Claimed
  <2>6. QED
    BY <1>3, <1>6, <2>4, <2>5
<1>13. CASE MiExplanation(m)
  <2>0. mi[m].st = "summed"
    BY <1>13 DEF MiExplanation
  <2>1. PICK o \in BuildOutcomes(mi[m].ce, mi[m].e, <<d, "e">>) :
            mi' = [mi EXCEPT ![m] =
                        [mi[m] EXCEPT !.st = "explained", !.e = o[1]]]
    BY <1>13 DEF MiExplanation
  <2>2. mi[m].e = "READY" => o[1] = "READY"
    BY <1>11
  <2>3. mi'[m].e = o[1] /\ mi'[m].s = mi[m].s
    BY <1>t, <2>0, <2>1 DEF OwnTypeOK
  <2>4. UNCHANGED <<summary, explanation>>
    BY <1>13 DEF MiExplanation, rowVars
  <2>5. TasksAlone'
    BY <1>0, <1>1, <1>2, <2>0, <2>2, <2>3, <2>4 DEF TasksAlone, Claimed
  <2>6. QED
    BY <1>3, <1>6, <2>4, <2>5
<1>14. CASE MiFails(m)
  <2>1. mi'[m] = NoTask \/ mi'[m].st = "queued"
    BY <1>14 DEF MiFails, MiRetry, OwnTypeOK
  <2>2. UNCHANGED <<summary, explanation>>
    BY <1>14 DEF MiFails, rowVars
  <2>3. TasksAlone'
    BY <1>0, <1>1, <1>2, <2>1, <2>2 DEF TasksAlone, Claimed
  <2>4. QED
    BY <1>3, <1>6, <2>2, <2>3
<1>15. QED
  BY <1>8, <1>10, <1>12, <1>13, <1>14 DEF MiStep

\* Any step, where there is one poll at a time.
LEMMA AloneStep ==
    ASSUME OnePoll, OwnTypeOK, AloneInv, [Next]_vars
    PROVE  /\ AloneInv'
           /\ StillBuilt
<1>1. CASE UNCHANGED <<summary, explanation, poll, mi>>
  BY <1>1 DEF AloneInv, PollsAlone, TasksAlone, OneMultiTaskPerDocument, TaskFree,
      Claimed, StillBuilt
<1>2. CASE IndexCrash
  <2>1. \A p \in Pollers : poll'[p] \in {poll[p], Raised}
    BY <1>2 DEF IndexCrash, Raises, OwnTypeOK
  <2>2. \A m \in MultiTasks : mi'[m] \in {mi[m], NoTask}
    BY <1>2 DEF IndexCrash, MiDone, OwnTypeOK
  <2>3. UNCHANGED <<summary, explanation>>
    BY <1>2 DEF IndexCrash, rowVars
  <2>4. PollsAlone'
    BY <2>1, <2>2, <2>3 DEF AloneInv, PollsAlone, TaskFree, Claimed, Raised
  <2>5. TasksAlone' /\ OneMultiTaskPerDocument'
    BY <2>2, <2>3 DEF AloneInv, TasksAlone, OneMultiTaskPerDocument, Claimed
  <2>6. QED
    BY <2>3, <2>4, <2>5 DEF AloneInv, StillBuilt
<1>3. ASSUME NEW b \in Bm25Tasks, BmStep(b)
      PROVE  UNCHANGED <<summary, explanation, poll, mi>>
  BY <1>3 DEF BmStep, BmList, BmLists, BmRead, BmFails, BmOpen, BmWrite, BmMove,
      BmBuildFails, BmCommit, BmMarkFailed, rowVars
<1>4. CASE UNCHANGED indexVars
  BY <1>1, <1>4 DEF indexVars, rowVars
<1>5. CASE \E p \in Pollers : PollStep(p) \/ \E r \in Requests : PollDocument(p, r)
  <2>1. PICK p \in Pollers : PollStep(p) \/ \E r \in Requests : PollDocument(p, r)
    BY <1>5
  <2>2. QED
    BY <2>1, AlonePoll
<1>6. CASE \E m \in MultiTasks : MiStep(m)
  BY <1>6, AloneTask
<1>7. QED
  BY <1>1, <1>2, <1>3, <1>4, <1>5, <1>6 DEF Next, vars

\* In every behaviour with one poll at a time.
LEMMA AlwaysAlone == ASSUME OnePoll PROVE Spec => []AloneInv
<1>1. Init => AloneInv
  BY DEF Init, NothingRuns, AloneInv, PollsAlone, TasksAlone, OneMultiTaskPerDocument, NoPoll
<1>2. Joint /\ AloneInv /\ [Next]_vars => AloneInv'
  BY AloneStep DEF Joint
<1>3. QED
  BY <1>1, <1>2, AlwaysJoint, PTL DEF Spec

\* With one poll at a time no document ever has two tasks building its
\* indexes, whatever fails, is retried or dies.
THEOREM OneTaskPerDocument ==
    ASSUME OnePoll PROVE Spec => []OneMultiTaskPerDocument
<1>1. AloneInv => OneMultiTaskPerDocument
  BY DEF AloneInv
<1>2. QED
  BY <1>1, AlwaysAlone, PTL

\* With one poll at a time no late write-back takes READY from an index.
THEOREM BuiltStays == ASSUME OnePoll PROVE Spec => BuiltStaysBuilt
<1>1. Joint /\ AloneInv /\ [Next]_vars =>
        [StillBuilt]_vars
  BY AloneStep DEF Joint
<1>2. QED
  BY <1>1, AlwaysJoint, AlwaysAlone, PTL DEF Spec, BuiltStaysBuilt, StillBuilt
=============================================================================
