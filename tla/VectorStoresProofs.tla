------------------------- MODULE VectorStoresProofs -------------------------
\* Proofs about VectorStores for any number of requests and retries, with and
\* without faults.
EXTENDS VectorStores, TLAPS

\* A request has a task only for a store whose initiator it has left.
NoTaskYet ==
    \A r \in Requests, s \in Stores : task[<<r, s>>].st # "none" =>
        /\ request[r].st # "idle"
        /\ request[r].st \in Initiating => s = "cache" /\ request[r].store = "ltm"

\* A row becomes READY only by the commit of a task, and that task is over.
ReadyWasMade ==
    \A s \in Stores : row[s].status = "READY" =>
        \E r \in Requests : task[<<r, s>>].st = "ready"

\* What PathIsOnDisk needs: a task that is past the creation left its collection.
LoadedIsMade ==
    \A r \in Requests, s \in Stores : task[<<r, s>>].st = "loaded" => s \in disk

\* What ProcessingIsWorked needs: of the requests that owe the store, one (the
\* last that locked) has not read the status that would make its write a no-op.
WillWrite(r, s) ==
    /\ Owes(r, s)
    /\ task[<<r, s>>].st = "loaded" => task[<<r, s>>].seen # "READY"
    /\ task[<<r, s>>].st = "failing" => task[<<r, s>>].seen # "FAILED"
ProcessingIsOwed ==
    \A s \in Stores : row[s].status = "PROCESSING" => \E r \in Requests : WillWrite(r, s)

IInv == TypeOK /\ PathIsOnDisk /\ LoadedIsMade /\ NoTaskYet /\ ReadyWasMade /\ ProcessingIsOwed

-----------------------------------------------------------------------------
\* The invariant holds at first.
LEMMA InitIInv == Init => IInv
<1> SUFFICES ASSUME Init PROVE IInv  OBVIOUS
<1> USE DEF Init
<1>1. TypeOK
  BY StoresAssumption
     DEF TypeOK, NoTask, Stores, Creations, Statuses, RowState, RequestState, TaskState
<1>2. PathIsOnDisk /\ LoadedIsMade
  BY DEF PathIsOnDisk, LoadedIsMade, NoTask, Creations
<1>3. NoTaskYet
  BY DEF NoTaskYet, NoTask, Creations
<1>4. ReadyWasMade /\ ProcessingIsOwed
  BY DEF ReadyWasMade, ProcessingIsOwed
<1> QED  BY <1>1, <1>2, <1>3, <1>4 DEF IInv

-----------------------------------------------------------------------------
\* Which moves leave a request, or a task, less to do.
Onward(a, b) ==
    \/ b \in {"served", "refused", "stranded"}
    \/ <<a, b>> \in {<<"select", "insert">>, <<"select", "lock">>, <<"insert", "refresh">>,
                     <<"refresh", "lock">>, <<"lock", "publish">>}

\* A request that goes on within an initiator, to the next one, or ends.
LEMMA FewerSteps ==
    ASSUME NEW a \in RequestState, NEW x \in RequestState,
           \/ a.st = "idle" /\ x.st = "select"
           \/ a.st \in Initiating /\ Onward(a.st, x.st) /\ x.store = a.store
           \/ a.st \in Initiating /\ a.store = "cache" /\ x = [st |-> "select", store |-> "ltm"]
           \/ a.st \in Initiating /\ x.st = "served"
    PROVE  StepsLeft(x) \in 0..(StepsLeft(a) - 1)
<1>1. StepsLeft(a) \in Nat /\ StepsLeft(x) \in Nat
  BY DEF StepsLeft, RequestState, Initiating
<1>2. StepsLeft(x) < StepsLeft(a)
  <2>1. CASE a.st = "idle" /\ x.st = "select"
    BY <2>1 DEF StepsLeft, Initiating
  <2>2. CASE a.st \in Initiating /\ Onward(a.st, x.st) /\ x.store = a.store
    BY <2>2 DEF StepsLeft, Initiating, Onward
  <2>3. CASE /\ a.st \in Initiating /\ a.store = "cache"
             /\ x = [st |-> "select", store |-> "ltm"]
    BY <2>3 DEF StepsLeft, Initiating
  <2>4. CASE a.st \in Initiating /\ x.st = "served"
    BY <2>4 DEF StepsLeft, Initiating
  <2> QED  BY <2>1, <2>2, <2>3, <2>4
<1> QED  BY <1>1, <1>2

\* A task that goes on in its attempt, ends, or starts its next attempt.
LEMMA FewerTries ==
    ASSUME NEW a \in TaskState, NEW t \in TaskState,
           a.st \in {"queued", "loaded", "failing"},
           \/ t.st \in {"ready", "failed", "lost"}
           \/ t.st = "queued" /\ t.tries = a.tries + 1
           \/ t.st = "loaded" /\ a.st = "queued" /\ t.tries = a.tries
           \/ t.st = "failing" /\ a.st \in {"queued", "loaded"} /\ t.tries = a.tries
    PROVE  TriesLeft(t) \in 0..(TriesLeft(a) - 1)
<1>1. a.tries \in 0..MaxRetries /\ t.tries \in 0..MaxRetries /\ MaxRetries \in Nat
  BY StoresAssumption DEF TaskState
<1>2. TriesLeft(a) \in Nat /\ TriesLeft(t) \in Nat
  BY <1>1 DEF TriesLeft, TaskState
<1>3. TriesLeft(t) < TriesLeft(a)
  BY <1>1 DEF TriesLeft
<1> QED  BY <1>2, <1>3

-----------------------------------------------------------------------------
\* What a step that only moves one request leaves alone.
LEMMA MoveShape ==
    ASSUME TypeOK, NEW r \in Requests, NEW st, To(r, st)
    PROVE  request' = [request EXCEPT ![r] = [st |-> st, store |-> Store(r)]]
<1>1. request[r] = [st |-> request[r].st, store |-> request[r].store]
  BY DEF TypeOK, RequestState
<1>2. [request[r] EXCEPT !.st = st] = [st |-> st, store |-> Store(r)]
  BY <1>1 DEF Store
<1> QED  BY <1>2 DEF To

\* What a step of a request is: it passes on, inserts, locks, publishes or is
\* stranded.
Moves(r, x) ==
    /\ x \in RequestState
    /\ StepsLeft(x) \in 0..(StepsLeft(request[r]) - 1)
    /\ request' = [request EXCEPT ![r] = x]
Follows(r, x) ==
    x.st \in Initiating \ {"publish"} =>
        \/ At(r, "idle")
        \/ x.store = request[r].store
        \/ request[r].store = "cache" /\ x.store = "ltm"
OffPublish(x) == x.st \notin {"publish", "stranded"}

Passes(r, x) ==
    /\ Moves(r, x) /\ OffPublish(x) /\ x.st # "idle" /\ Follows(r, x)
    /\ request[r].st \in (Initiating \ {"publish"}) \cup {"idle"}
    /\ UNCHANGED <<row, disk, task>>
Inserts(r, x) ==
    /\ Moves(r, x) /\ x = [st |-> "refresh", store |-> Store(r)]
    /\ At(r, "insert") /\ row[Store(r)].status = "none"
    /\ row' = [row EXCEPT ![Store(r)] = [status |-> "PENDING", path |-> FALSE]]
    /\ UNCHANGED <<disk, task>>
Locks(r, x) ==
    /\ Moves(r, x) /\ x = [st |-> "publish", store |-> Store(r)]
    /\ At(r, "lock")
    /\ row' = [row EXCEPT ![Store(r)].status = "PROCESSING"]
    /\ UNCHANGED <<disk, task>>
Publishes(r, x) ==
    /\ Moves(r, x) /\ OffPublish(x) /\ x.st # "idle" /\ At(r, "publish")
    /\ x.st \in Initiating => Store(r) = "cache" /\ x.store = "ltm"
    /\ task' = [task EXCEPT ![<<r, Store(r)>>] = [NoTask EXCEPT !.st = "queued"]]
    /\ UNCHANGED <<row, disk>>
Strands(r, x) ==
    /\ Moves(r, x) /\ x = [st |-> "stranded", store |-> Store(r)]
    /\ At(r, "publish")
    /\ UNCHANGED <<row, disk, task>>

\* Each step of a request, as one of the shapes below.
LEMMA RequestShape ==
    ASSUME TypeOK, NEW r \in Requests, Ask(r) \/ RequestStep(r)
    PROVE  \E x : Passes(r, x) \/ Inserts(r, x) \/ Locks(r, x) \/ Publishes(r, x) \/ Strands(r, x)
<1> DEFINE Goal == \E x : Passes(r, x) \/ Inserts(r, x) \/ Locks(r, x) \/ Publishes(r, x)
                          \/ Strands(r, x)
<1>1. request[r] \in RequestState
  BY DEF TypeOK
<1>2. ASSUME NEW st \in (Initiating \ {"publish"}) \cup {"served", "refused"},
             request[r].st \in Initiating \ {"publish"}, Onward(request[r].st, st),
             To(r, st), UNCHANGED <<row, disk, task>>
      PROVE  Goal
  <2> DEFINE x == [request[r] EXCEPT !.st = st]
  <2>1. x \in RequestState /\ x.st = st /\ x.store = request[r].store
    BY <1>1, <1>2 DEF RequestState, Initiating
  <2>2. Moves(r, x) /\ OffPublish(x) /\ x.st # "idle" /\ Follows(r, x)
    BY <1>1, <1>2, <2>1, FewerSteps DEF Moves, OffPublish, Follows, To, Initiating
  <2> QED  BY <2>2, <1>2 DEF Passes
<1>3. ASSUME request[r].st \in Initiating, NextStore(r)
      PROVE  \E x : /\ Moves(r, x) /\ OffPublish(x) /\ x.st # "idle" /\ Follows(r, x)
                    /\ x.st \in Initiating => Store(r) = "cache" /\ x.store = "ltm"
  <2> DEFINE x == IF Store(r) = "cache" THEN [st |-> "select", store |-> "ltm"]
                                       ELSE [st |-> "served", store |-> "ltm"]
  <2>1. request' = [request EXCEPT ![r] = x]
    BY <1>1, <1>3 DEF NextStore, Store
  <2>2. x \in RequestState /\ StepsLeft(x) \in 0..(StepsLeft(request[r]) - 1)
    BY <1>1, <1>3, FewerSteps DEF RequestState, Initiating, Stores, Store
  <2>3. OffPublish(x) /\ x.st # "idle" /\ Follows(r, x)
        /\ (x.st \in Initiating => Store(r) = "cache" /\ x.store = "ltm")
    BY DEF OffPublish, Follows, Initiating, Store
  <2> QED  BY <2>1, <2>2, <2>3 DEF Moves
<1>4. ASSUME request[r].st \in {"select", "refresh"}, Decide(r), UNCHANGED <<row, disk, task>>
      PROVE  Goal
  BY <1>2, <1>3, <1>4 DEF Decide, Passes, Initiating, Onward
<1>5. CASE Ask(r)
  <2> DEFINE x == [st |-> "select", store |-> "cache"]
  <2>1. Moves(r, x) /\ OffPublish(x) /\ x.st # "idle"
    BY <1>1, <1>5, FewerSteps DEF Ask, At, Moves, OffPublish, RequestState, Initiating, Stores
  <2>2. Follows(r, x)
    BY <1>5 DEF Follows, Ask
  <2> QED  BY <2>1, <2>2, <1>5 DEF Ask, At, Passes
<1>6. CASE SelectRow(r)
  BY <1>6, <1>2, <1>4 DEF SelectRow, At, Initiating, Onward
<1>7. CASE InsertRow(r)
  <2>1. CASE row[Store(r)].status = "none"
    <3> DEFINE x == [st |-> "refresh", store |-> Store(r)]
    <3>1. Moves(r, x)
      BY <1>1, <1>7, <2>1, MoveShape, FewerSteps
         DEF InsertRow, At, Moves, Store, RequestState, Initiating, Onward
    <3> QED  BY <3>1, <1>7, <2>1 DEF InsertRow, Inserts
  <2> QED  BY <1>7, <2>1, <1>2 DEF InsertRow, At, Initiating, Onward
<1>8. CASE RefreshRow(r)
  BY <1>8, <1>4 DEF RefreshRow, At, Initiating
<1>9. CASE Lock(r)
  <2> DEFINE x == [st |-> "publish", store |-> Store(r)]
  <2>1. Moves(r, x)
    BY <1>1, <1>9, MoveShape, FewerSteps
       DEF Lock, At, Moves, Store, RequestState, Initiating, Onward
  <2> QED  BY <2>1, <1>9 DEF Lock, Locks
<1>10. CASE Publish(r)
  BY <1>10, <1>3 DEF Publish, Publishes, At, Initiating
<1>11. CASE Abort(r)
  <2>1. CASE At(r, "publish")
    <3> DEFINE x == [st |-> "stranded", store |-> Store(r)]
    <3>1. Moves(r, x)
      BY <1>1, <1>11, <2>1, MoveShape, FewerSteps
         DEF Abort, Moves, Store, RequestState, Onward
    <3> QED  BY <3>1, <1>11, <2>1 DEF Abort, Strands
  <2> QED  BY <1>11, <2>1, <1>2 DEF Abort, At, Initiating, Onward
<1> QED  BY <1>5, <1>6, <1>7, <1>8, <1>9, <1>10, <1>11 DEF RequestStep

-----------------------------------------------------------------------------
\* What a step of a creation task is: it loads the row, fails, marks it READY or
\* FAILED, or gives the row up as it is.
Becomes(w, t) ==
    /\ t \in TaskState
    /\ TriesLeft(t) \in 0..(TriesLeft(task[w]) - 1)
    /\ task' = [task EXCEPT ![w] = t]
    /\ UNCHANGED request

Loads(w, t) ==
    /\ Becomes(w, t) /\ Doing(w, "queued")
    /\ t.st = "loaded" /\ t.seen = row[w[2]].status
    /\ disk' = disk \cup {w[2]} /\ UNCHANGED row
Fails(w, t) ==
    /\ Becomes(w, t) /\ task[w].st \in {"queued", "loaded"}
    /\ t.st \in {"failing", "queued", "lost"}
    /\ t.st = "failing" => t.seen = row[w[2]].status
    /\ disk' \in {disk, disk \cup {w[2]}} /\ UNCHANGED row
Readies(w, t) ==
    /\ Becomes(w, t) /\ Doing(w, "loaded") /\ t.st = "ready"
    /\ Ready(w) /\ UNCHANGED disk
Marks(w, t) ==
    /\ Becomes(w, t) /\ Doing(w, "failing") /\ t.st \in {"queued", "failed"}
    /\ row' = [row EXCEPT ![w[2]].status = Written(w, "FAILED")] /\ UNCHANGED disk
GivesUp(w, t) ==
    /\ Becomes(w, t) /\ task[w].st \in {"queued", "loaded", "failing"}
    /\ t.st \in {"queued", "lost"}
    /\ UNCHANGED <<row, disk>>

\* Each step of a creation task, as one of the shapes below.
LEMMA TaskShape ==
    ASSUME TypeOK, NEW w \in Creations, TaskStep(w) \/ Die(w)
    PROVE  \E t : Loads(w, t) \/ Fails(w, t) \/ Readies(w, t) \/ Marks(w, t) \/ GivesUp(w, t)
<1>1. task[w] \in TaskState /\ row[w[2]] \in RowState /\ w[2] \in Stores
  BY DEF TypeOK, Creations
<1>2. ASSUME NEW st \in {"ready", "failed", "lost"}, End(w, st), UNCHANGED request,
             task[w].st \in {"queued", "loaded", "failing"}
      PROVE  \E t : Becomes(w, t) /\ t.st = st
  <2> DEFINE t == [NoTask EXCEPT !.st = st]
  <2>1. t \in TaskState /\ t.st = st
    BY StoresAssumption DEF NoTask, TaskState, Statuses
  <2>2. TriesLeft(t) \in 0..(TriesLeft(task[w]) - 1)
    BY <1>1, <1>2, <2>1, FewerTries
  <2> QED  BY <2>1, <2>2, <1>2 DEF End, Becomes
<1>3. ASSUME NEW st \in {"loaded", "failing"}, Read(w, st), UNCHANGED <<row, request>>,
             task[w].st \in {"queued", "loaded"}, st = "loaded" => task[w].st = "queued"
      PROVE  \E t : Becomes(w, t) /\ t.st = st /\ t.seen = row[w[2]].status
  <2> DEFINE t == [st |-> st, tries |-> task[w].tries, seen |-> row[w[2]].status]
  <2>1. t \in TaskState
    BY <1>1 DEF TaskState, RowState
  <2>2. t.st = st /\ t.seen = row[w[2]].status
    OBVIOUS
  <2>3. TriesLeft(t) \in 0..(TriesLeft(task[w]) - 1)
    BY <1>1, <1>3, <2>1, FewerTries
  <2>4. Becomes(w, t)
    BY <2>1, <2>3, <1>3 DEF Read, Becomes
  <2> QED  BY <2>2, <2>4
<1>4. ASSUME NEW last \in {"failed", "lost"}, RetryTask(w, last), UNCHANGED request,
             task[w].st \in {"queued", "loaded", "failing"}
      PROVE  \E t : Becomes(w, t) /\ t.st \in {"queued", last}
  <2>1. CASE task[w].tries < MaxRetries
    <3> DEFINE t == [st |-> "queued", tries |-> task[w].tries + 1, seen |-> "none"]
    <3>1. t \in TaskState
      BY <1>1, <2>1, StoresAssumption DEF TaskState, Statuses
    <3>2. TriesLeft(t) \in 0..(TriesLeft(task[w]) - 1)
      BY <1>1, <1>4, <3>1, FewerTries
    <3> QED  BY <3>1, <3>2, <2>1, <1>4 DEF RetryTask, Becomes
  <2> QED  BY <2>1, <1>2, <1>4 DEF RetryTask
<1>5. ASSUME Fail(w), UNCHANGED <<row, request>>, task[w].st \in {"queued", "loaded"}
      PROVE  \E t : /\ Becomes(w, t) /\ t.st \in {"failing", "queued", "lost"}
                    /\ t.st = "failing" => t.seen = row[w[2]].status
  <2>1. CASE Read(w, "failing")
    <3>1. \E t : Becomes(w, t) /\ t.st = "failing" /\ t.seen = row[w[2]].status
      BY <1>3, <1>5, <2>1
    <3> QED  BY <3>1
  <2>2. CASE RetryTask(w, "lost")
    BY <1>4, <1>5, <2>2
  <2> QED  BY <1>5, <2>1, <2>2 DEF Fail
<1>6. CASE MakeStore(w)
  <2>1. CASE Read(w, "loaded") /\ disk' = disk \cup {w[2]}
    <3>1. Doing(w, "queued") /\ UNCHANGED <<row, request>>
      BY <1>6 DEF MakeStore
    <3>2. \E t : Becomes(w, t) /\ t.st = "loaded" /\ t.seen = row[w[2]].status
      BY <1>3, <2>1, <3>1 DEF Doing
    <3> QED  BY <2>1, <3>1, <3>2 DEF Loads
  <2>2. CASE Fail(w) /\ disk' \in {disk, disk \cup {w[2]}}
    BY <1>5, <1>6, <2>2 DEF MakeStore, Doing, Fails
  <2> QED  BY <1>6, <2>1, <2>2 DEF MakeStore
<1>7. CASE MarkReady(w)
  BY <1>2, <1>5, <1>7 DEF MarkReady, Doing, Readies, Fails
<1>8. CASE MarkFailed(w)
  BY <1>4, <1>8 DEF MarkFailed, Doing, Marks, GivesUp
<1>9. CASE Die(w)
  BY <1>2, <1>9 DEF Die, GivesUp
<1> QED  BY <1>6, <1>7, <1>8, <1>9 DEF TaskStep


-----------------------------------------------------------------------------
\* The steps, entry by entry.
LEMMA MoveFacts ==
    ASSUME TypeOK, NEW r \in Requests, NEW x, Moves(r, x)
    PROVE  /\ request' \in [Requests -> RequestState] /\ request'[r] = x
           /\ \A q \in Requests \ {r} : request'[q] = request[q]
           /\ Store(r) \in Stores /\ x.store \in Stores
BY DEF TypeOK, Moves, RequestState, Store

\* A request goes on without writing anything.
LEMMA PassFacts ==
    ASSUME TypeOK, NEW r \in Requests, NEW x, Passes(r, x)
    PROVE  /\ row' = row /\ disk' = disk /\ task' = task
           /\ request' \in [Requests -> RequestState] /\ request'[r] = x
           /\ \A q \in Requests \ {r} : request'[q] = request[q]
           /\ Store(r) \in Stores /\ x.store \in Stores
           /\ OffPublish(x) /\ x.st # "idle" /\ Follows(r, x)
           /\ request[r].st \in (Initiating \ {"publish"}) \cup {"idle"}
BY MoveFacts DEF Passes

\* The first request inserts the row, PENDING and without a path.
LEMMA InsertFacts ==
    ASSUME TypeOK, NEW r \in Requests, NEW x, Inserts(r, x)
    PROVE  /\ disk' = disk /\ task' = task
           /\ request' \in [Requests -> RequestState] /\ request'[r] = x
           /\ \A q \in Requests \ {r} : request'[q] = request[q]
           /\ Store(r) \in Stores /\ x.store \in Stores
           /\ x.st = "refresh" /\ x.store = Store(r)
           /\ At(r, "insert") /\ row[Store(r)].status = "none"
           /\ row' \in [Stores -> RowState]
           /\ row'[Store(r)].status = "PENDING" /\ ~row'[Store(r)].path
           /\ \A s \in Stores \ {Store(r)} : row'[s] = row[s]
<1>1. Store(r) \in Stores
  BY DEF TypeOK, RequestState, Store
<1>2. [status |-> "PENDING", path |-> FALSE] \in RowState
  BY DEF RowState, Statuses
<1> QED  BY <1>1, <1>2, MoveFacts DEF TypeOK, Inserts

\* A request writes PROCESSING, and owes a task.
LEMMA LockFacts ==
    ASSUME TypeOK, NEW r \in Requests, NEW x, Locks(r, x)
    PROVE  /\ disk' = disk /\ task' = task
           /\ request' \in [Requests -> RequestState] /\ request'[r] = x
           /\ \A q \in Requests \ {r} : request'[q] = request[q]
           /\ Store(r) \in Stores /\ x.store \in Stores
           /\ x.st = "publish" /\ x.store = Store(r) /\ At(r, "lock")
           /\ row' \in [Stores -> RowState]
           /\ row'[Store(r)].status = "PROCESSING"
           /\ row'[Store(r)].path = row[Store(r)].path
           /\ \A s \in Stores \ {Store(r)} : row'[s] = row[s]
<1>1. Store(r) \in Stores
  BY DEF TypeOK, RequestState, Store
<1>2. [row[Store(r)] EXCEPT !.status = "PROCESSING"] \in RowState
  BY <1>1 DEF TypeOK, RowState, Statuses
<1>3. row[Store(r)] \in RowState
  BY <1>1 DEF TypeOK
<1>4. /\ row' \in [Stores -> RowState]
      /\ row'[Store(r)].status = "PROCESSING"
      /\ row'[Store(r)].path = row[Store(r)].path
      /\ \A s \in Stores \ {Store(r)} : row'[s] = row[s]
  BY <1>1, <1>2, <1>3 DEF TypeOK, Locks, RowState
<1> QED  BY <1>4, MoveFacts DEF Locks

\* A request creates its task.
LEMMA PublishFacts ==
    ASSUME TypeOK, NEW r \in Requests, NEW x, Publishes(r, x)
    PROVE  /\ row' = row /\ disk' = disk
           /\ request' \in [Requests -> RequestState] /\ request'[r] = x
           /\ \A q \in Requests \ {r} : request'[q] = request[q]
           /\ Store(r) \in Stores /\ x.store \in Stores
           /\ OffPublish(x) /\ x.st # "idle" /\ At(r, "publish")
           /\ x.st \in Initiating => Store(r) = "cache" /\ x.store = "ltm"
           /\ task' \in [Creations -> TaskState]
           /\ task'[<<r, Store(r)>>].st = "queued"
           /\ \A q \in Requests, s \in Stores :
                 q # r \/ s # Store(r) => task'[<<q, s>>] = task[<<q, s>>]
<1>1. <<r, Store(r)>> \in Creations
  BY DEF TypeOK, RequestState, Store, Creations
<1>2. [NoTask EXCEPT !.st = "queued"] \in TaskState
  BY StoresAssumption DEF NoTask, TaskState, Statuses
<1>3. task' = [task EXCEPT ![<<r, Store(r)>>] = [NoTask EXCEPT !.st = "queued"]]
  BY DEF Publishes
<1>4. [NoTask EXCEPT !.st = "queued"].st = "queued"
  BY DEF NoTask
<1>5. /\ task' \in [Creations -> TaskState]
      /\ task'[<<r, Store(r)>>].st = "queued"
      /\ \A q \in Requests, s \in Stores :
            q # r \/ s # Store(r) => task'[<<q, s>>] = task[<<q, s>>]
  BY <1>1, <1>2, <1>3, <1>4 DEF TypeOK, Creations
<1> QED  BY <1>5, MoveFacts DEF Publishes

\* A request that locked ends without a task.
LEMMA StrandFacts ==
    ASSUME TypeOK, NEW r \in Requests, NEW x, Strands(r, x)
    PROVE  /\ row' = row /\ disk' = disk /\ task' = task
           /\ request' \in [Requests -> RequestState] /\ request'[r] = x
           /\ \A q \in Requests \ {r} : request'[q] = request[q]
           /\ Store(r) \in Stores /\ x.store \in Stores
           /\ x.st = "stranded" /\ x.store = Store(r) /\ At(r, "publish")
BY MoveFacts DEF Strands

\* A task changes its state only.
LEMMA BecomeFacts ==
    ASSUME TypeOK, NEW p \in Requests, NEW z \in Stores, NEW t, Becomes(<<p, z>>, t)
    PROVE  /\ task' \in [Creations -> TaskState] /\ task'[<<p, z>>] = t
           /\ \A q \in Requests, s \in Stores :
                 q # p \/ s # z => task'[<<q, s>>] = task[<<q, s>>]
           /\ request' = request
<1>1. <<p, z>> \in Creations
  BY DEF Creations
<1> QED  BY <1>1 DEF TypeOK, Becomes, Creations

\* A task reads the row.
LEMMA LoadFacts ==
    ASSUME TypeOK, NEW p \in Requests, NEW z \in Stores, NEW t, Loads(<<p, z>>, t)
    PROVE  /\ row' = row /\ disk' = disk \cup {z} /\ task[<<p, z>>].st = "queued"
           /\ t.st = "loaded" /\ t.seen = row[z].status
           /\ task' \in [Creations -> TaskState] /\ task'[<<p, z>>] = t
           /\ \A q \in Requests, s \in Stores :
                 q # p \/ s # z => task'[<<q, s>>] = task[<<q, s>>]
           /\ request' = request
BY BecomeFacts DEF Loads, Doing

\* A task fails, and is retried or gives up.
LEMMA FailFacts ==
    ASSUME TypeOK, NEW p \in Requests, NEW z \in Stores, NEW t, Fails(<<p, z>>, t)
    PROVE  /\ row' = row /\ disk' \in {disk, disk \cup {z}}
           /\ task[<<p, z>>].st \in {"queued", "loaded"}
           /\ t.st \in {"failing", "queued", "lost"}
           /\ t.st = "failing" => t.seen = row[z].status
           /\ task' \in [Creations -> TaskState] /\ task'[<<p, z>>] = t
           /\ \A q \in Requests, s \in Stores :
                 q # p \/ s # z => task'[<<q, s>>] = task[<<q, s>>]
           /\ request' = request
BY BecomeFacts DEF Fails

\* A task has its collection and is about to write READY.
LEMMA ReadyFacts ==
    ASSUME TypeOK, NEW p \in Requests, NEW z \in Stores, NEW t, Readies(<<p, z>>, t)
    PROVE  /\ disk' = disk /\ task[<<p, z>>].st = "loaded" /\ t.st = "ready"
           /\ row' \in [Stores -> RowState] /\ row'[z].path
           /\ row'[z].status = IF task[<<p, z>>].seen = "READY" THEN row[z].status ELSE "READY"
           /\ \A s \in Stores \ {z} : row'[s] = row[s]
           /\ task' \in [Creations -> TaskState] /\ task'[<<p, z>>] = t
           /\ \A q \in Requests, s \in Stores :
                 q # p \/ s # z => task'[<<q, s>>] = task[<<q, s>>]
           /\ request' = request
<1>1. row[z] \in RowState
  BY DEF TypeOK
<1>2. [status |-> Written(<<p, z>>, "READY"), path |-> TRUE] \in RowState
  BY <1>1 DEF Written, RowState, Statuses
<1>3. /\ row' \in [Stores -> RowState] /\ row'[z].path
      /\ row'[z].status = Written(<<p, z>>, "READY")
      /\ \A s \in Stores \ {z} : row'[s] = row[s]
  BY <1>1, <1>2 DEF TypeOK, Readies, Ready
<1> QED  BY <1>3, BecomeFacts DEF Readies, Doing, Written

\* A task writes READY or FAILED.
LEMMA MarkFacts ==
    ASSUME TypeOK, NEW p \in Requests, NEW z \in Stores, NEW t, Marks(<<p, z>>, t)
    PROVE  /\ disk' = disk /\ task[<<p, z>>].st = "failing" /\ t.st \in {"queued", "failed"}
           /\ row' \in [Stores -> RowState] /\ row'[z].path = row[z].path
           /\ row'[z].status = IF task[<<p, z>>].seen = "FAILED" THEN row[z].status ELSE "FAILED"
           /\ \A s \in Stores \ {z} : row'[s] = row[s]
           /\ task' \in [Creations -> TaskState] /\ task'[<<p, z>>] = t
           /\ \A q \in Requests, s \in Stores :
                 q # p \/ s # z => task'[<<q, s>>] = task[<<q, s>>]
           /\ request' = request
<1>1. row[z] \in RowState
  BY DEF TypeOK
<1>2. Written(<<p, z>>, "FAILED") \in Statuses
  BY <1>1 DEF Written, RowState, Statuses
<1>3. [row[z] EXCEPT !.status = Written(<<p, z>>, "FAILED")] \in RowState
  BY <1>1, <1>2 DEF RowState
<1>4. row' = [row EXCEPT ![z].status = Written(<<p, z>>, "FAILED")]
  BY DEF Marks
<1>5. /\ row' \in [Stores -> RowState] /\ row'[z].path = row[z].path
      /\ row'[z].status = Written(<<p, z>>, "FAILED")
      /\ \A s \in Stores \ {z} : row'[s] = row[s]
  BY <1>1, <1>3, <1>4 DEF TypeOK, RowState
<1> QED  BY <1>5, BecomeFacts DEF Marks, Doing, Written

\* A task ends with its store marked or not.
LEMMA GiveUpFacts ==
    ASSUME TypeOK, NEW p \in Requests, NEW z \in Stores, NEW t, GivesUp(<<p, z>>, t)
    PROVE  /\ row' = row /\ disk' = disk
           /\ task[<<p, z>>].st \in {"queued", "loaded", "failing"}
           /\ t.st \in {"queued", "lost"}
           /\ task' \in [Creations -> TaskState] /\ task'[<<p, z>>] = t
           /\ \A q \in Requests, s \in Stores :
                 q # p \/ s # z => task'[<<q, s>>] = task[<<q, s>>]
           /\ request' = request
BY BecomeFacts DEF GivesUp

\* A step is a step of a request, of a task, or none.
LEMMA NextShape ==
    ASSUME TypeOK, [Next]_vars
    PROVE  \/ \E r \in Requests, x \in RequestState :
                 \/ Passes(r, x) \/ Inserts(r, x) \/ Locks(r, x) \/ Publishes(r, x) \/ Strands(r, x)
           \/ \E p \in Requests, z \in Stores : \E t \in TaskState :
                 \/ Loads(<<p, z>>, t) \/ Fails(<<p, z>>, t) \/ Readies(<<p, z>>, t)
                 \/ Marks(<<p, z>>, t) \/ GivesUp(<<p, z>>, t)
           \/ row' = row /\ disk' = disk /\ request' = request /\ task' = task
<1>1. CASE \E r \in Requests : Ask(r) \/ RequestStep(r)
  BY <1>1, RequestShape DEF Passes, Inserts, Locks, Publishes, Strands, Moves
<1>2. CASE \E w \in Creations : TaskStep(w) \/ Die(w)
  <2>1. PICK w \in Creations : TaskStep(w) \/ Die(w)
    BY <1>2
  <2>2. PICK p \in Requests, z \in Stores : w = <<p, z>>
    BY DEF Creations
  <2>3. PICK t : Loads(w, t) \/ Fails(w, t) \/ Readies(w, t) \/ Marks(w, t) \/ GivesUp(w, t)
    BY <2>1, TaskShape
  <2>4. t \in TaskState
    BY <2>3 DEF Loads, Fails, Readies, Marks, GivesUp, Becomes
  <2> QED  BY <2>2, <2>3, <2>4
<1>3. CASE UNCHANGED vars
  BY <1>3 DEF vars
<1> QED  BY <1>1, <1>2, <1>3 DEF Next

-----------------------------------------------------------------------------
\* Every step keeps the types.
LEMMA StepTypeOK ==
    ASSUME TypeOK, [Next]_vars
    PROVE  TypeOK'
<1>1. ASSUME NEW r \in Requests, NEW x \in RequestState, Passes(r, x) PROVE TypeOK'
  BY <1>1, PassFacts DEF TypeOK
<1>2. ASSUME NEW r \in Requests, NEW x \in RequestState, Inserts(r, x) PROVE TypeOK'
  BY <1>2, InsertFacts DEF TypeOK
<1>3. ASSUME NEW r \in Requests, NEW x \in RequestState, Locks(r, x) PROVE TypeOK'
  BY <1>3, LockFacts DEF TypeOK
<1>4. ASSUME NEW r \in Requests, NEW x \in RequestState, Publishes(r, x) PROVE TypeOK'
  BY <1>4, PublishFacts DEF TypeOK
<1>5. ASSUME NEW r \in Requests, NEW x \in RequestState, Strands(r, x) PROVE TypeOK'
  BY <1>5, StrandFacts DEF TypeOK
<1>6. ASSUME NEW p \in Requests, NEW z \in Stores, NEW t \in TaskState, Loads(<<p, z>>, t)
      PROVE  TypeOK'
  BY <1>6, LoadFacts DEF TypeOK
<1>7. ASSUME NEW p \in Requests, NEW z \in Stores, NEW t \in TaskState, Fails(<<p, z>>, t)
      PROVE  TypeOK'
  BY <1>7, FailFacts DEF TypeOK
<1>8. ASSUME NEW p \in Requests, NEW z \in Stores, NEW t \in TaskState, Readies(<<p, z>>, t)
      PROVE  TypeOK'
  BY <1>8, ReadyFacts DEF TypeOK
<1>9. ASSUME NEW p \in Requests, NEW z \in Stores, NEW t \in TaskState, Marks(<<p, z>>, t)
      PROVE  TypeOK'
  BY <1>9, MarkFacts DEF TypeOK
<1>10. ASSUME NEW p \in Requests, NEW z \in Stores, NEW t \in TaskState, GivesUp(<<p, z>>, t)
      PROVE  TypeOK'
  BY <1>10, GiveUpFacts DEF TypeOK
<1>11. ASSUME row' = row, disk' = disk, request' = request, task' = task PROVE TypeOK'
  BY <1>11 DEF TypeOK
<1> QED
  BY <1>1, <1>2, <1>3, <1>4, <1>5, <1>6,
     <1>7, <1>8, <1>9, <1>10, <1>11, NextShape

\* A path is written only by a task whose collection exists.
LEMMA StepPathIsOnDisk ==
    ASSUME TypeOK, PathIsOnDisk, LoadedIsMade, [Next]_vars
    PROVE  PathIsOnDisk'
<1>1. ASSUME NEW r \in Requests, NEW x \in RequestState, Passes(r, x) PROVE PathIsOnDisk'
  BY <1>1, PassFacts DEF PathIsOnDisk
<1>2. ASSUME NEW r \in Requests, NEW x \in RequestState, Inserts(r, x) PROVE PathIsOnDisk'
  <2> SUFFICES ASSUME NEW s \in Stores
               PROVE  /\ row'[s].status = "READY" => row'[s].path
                      /\ row'[s].path => s \in disk'
    BY DEF PathIsOnDisk
  <2>1. CASE s = Store(r)
    BY <2>1, <1>2, InsertFacts
  <2>2. CASE s # Store(r)
    BY <2>2, <1>2, InsertFacts DEF PathIsOnDisk
  <2> QED  BY <2>1, <2>2
<1>3. ASSUME NEW r \in Requests, NEW x \in RequestState, Locks(r, x) PROVE PathIsOnDisk'
  BY <1>3, LockFacts DEF PathIsOnDisk
<1>4. ASSUME NEW r \in Requests, NEW x \in RequestState, Publishes(r, x) PROVE PathIsOnDisk'
  BY <1>4, PublishFacts DEF PathIsOnDisk
<1>5. ASSUME NEW r \in Requests, NEW x \in RequestState, Strands(r, x) PROVE PathIsOnDisk'
  BY <1>5, StrandFacts DEF PathIsOnDisk
<1>6. ASSUME NEW p \in Requests, NEW z \in Stores, NEW t \in TaskState, Loads(<<p, z>>, t)
      PROVE  PathIsOnDisk'
  BY <1>6, LoadFacts DEF PathIsOnDisk, LoadedIsMade
<1>7. ASSUME NEW p \in Requests, NEW z \in Stores, NEW t \in TaskState, Fails(<<p, z>>, t)
      PROVE  PathIsOnDisk'
  BY <1>7, FailFacts DEF PathIsOnDisk, LoadedIsMade
<1>8. ASSUME NEW p \in Requests, NEW z \in Stores, NEW t \in TaskState, Readies(<<p, z>>, t)
      PROVE  PathIsOnDisk'
  BY <1>8, ReadyFacts DEF PathIsOnDisk, LoadedIsMade
<1>9. ASSUME NEW p \in Requests, NEW z \in Stores, NEW t \in TaskState, Marks(<<p, z>>, t)
      PROVE  PathIsOnDisk'
  BY <1>9, MarkFacts DEF PathIsOnDisk, LoadedIsMade
<1>10. ASSUME NEW p \in Requests, NEW z \in Stores, NEW t \in TaskState, GivesUp(<<p, z>>, t)
      PROVE  PathIsOnDisk'
  BY <1>10, GiveUpFacts DEF PathIsOnDisk, LoadedIsMade
<1>11. ASSUME row' = row, disk' = disk, request' = request, task' = task PROVE PathIsOnDisk'
  BY <1>11 DEF PathIsOnDisk
<1> QED
  BY <1>1, <1>2, <1>3, <1>4, <1>5, <1>6,
     <1>7, <1>8, <1>9, <1>10, <1>11, NextShape

\* A collection is never removed.
LEMMA StepLoadedIsMade ==
    ASSUME TypeOK, LoadedIsMade, [Next]_vars
    PROVE  LoadedIsMade'
<1>1. ASSUME NEW r \in Requests, NEW x \in RequestState, Passes(r, x) PROVE LoadedIsMade'
  BY <1>1, PassFacts DEF LoadedIsMade
<1>2. ASSUME NEW r \in Requests, NEW x \in RequestState, Inserts(r, x) PROVE LoadedIsMade'
  BY <1>2, InsertFacts DEF LoadedIsMade
<1>3. ASSUME NEW r \in Requests, NEW x \in RequestState, Locks(r, x) PROVE LoadedIsMade'
  BY <1>3, LockFacts DEF LoadedIsMade
<1>4. ASSUME NEW r \in Requests, NEW x \in RequestState, Publishes(r, x) PROVE LoadedIsMade'
  <2> SUFFICES ASSUME NEW q \in Requests, NEW s \in Stores, task'[<<q, s>>].st = "loaded"
               PROVE  s \in disk'
    BY DEF LoadedIsMade
  <2>1. q # r \/ s # Store(r)
    BY <1>4, PublishFacts
  <2>2. task'[<<q, s>>] = task[<<q, s>>] /\ disk' = disk
    BY <2>1, <1>4, PublishFacts
  <2> QED  BY <2>2 DEF LoadedIsMade
<1>5. ASSUME NEW r \in Requests, NEW x \in RequestState, Strands(r, x) PROVE LoadedIsMade'
  BY <1>5, StrandFacts DEF LoadedIsMade
<1>6. ASSUME NEW p \in Requests, NEW z \in Stores, NEW t \in TaskState, Loads(<<p, z>>, t)
      PROVE  LoadedIsMade'
  BY <1>6, LoadFacts DEF LoadedIsMade
<1>7. ASSUME NEW p \in Requests, NEW z \in Stores, NEW t \in TaskState, Fails(<<p, z>>, t)
      PROVE  LoadedIsMade'
  BY <1>7, FailFacts DEF LoadedIsMade
<1>8. ASSUME NEW p \in Requests, NEW z \in Stores, NEW t \in TaskState, Readies(<<p, z>>, t)
      PROVE  LoadedIsMade'
  BY <1>8, ReadyFacts DEF LoadedIsMade
<1>9. ASSUME NEW p \in Requests, NEW z \in Stores, NEW t \in TaskState, Marks(<<p, z>>, t)
      PROVE  LoadedIsMade'
  BY <1>9, MarkFacts DEF LoadedIsMade
<1>10. ASSUME NEW p \in Requests, NEW z \in Stores, NEW t \in TaskState, GivesUp(<<p, z>>, t)
      PROVE  LoadedIsMade'
  BY <1>10, GiveUpFacts DEF LoadedIsMade
<1>11. ASSUME row' = row, disk' = disk, request' = request, task' = task PROVE LoadedIsMade'
  BY <1>11 DEF LoadedIsMade
<1> QED
  BY <1>1, <1>2, <1>3, <1>4, <1>5, <1>6,
     <1>7, <1>8, <1>9, <1>10, <1>11, NextShape

\* A task appears when its request moves on.
LEMMA StepNoTaskYet ==
    ASSUME TypeOK, NoTaskYet, [Next]_vars
    PROVE  NoTaskYet'
<1>1. ASSUME NEW r \in Requests, NEW x \in RequestState, Passes(r, x) PROVE NoTaskYet'
  BY <1>1, PassFacts DEF NoTaskYet, OffPublish, Follows, Initiating, At, Store
<1>2. ASSUME NEW r \in Requests, NEW x \in RequestState, Inserts(r, x) PROVE NoTaskYet'
  BY <1>2, InsertFacts DEF NoTaskYet, OffPublish, Follows, Initiating, At, Store
<1>3. ASSUME NEW r \in Requests, NEW x \in RequestState, Locks(r, x) PROVE NoTaskYet'
  BY <1>3, LockFacts DEF NoTaskYet, OffPublish, Follows, Initiating, At, Store
<1>4. ASSUME NEW r \in Requests, NEW x \in RequestState, Publishes(r, x) PROVE NoTaskYet'
  <2> SUFFICES ASSUME NEW q \in Requests, NEW s \in Stores, task'[<<q, s>>].st # "none"
               PROVE  /\ request'[q].st # "idle"
                      /\ request'[q].st \in Initiating => s = "cache" /\ request'[q].store = "ltm"
    BY DEF NoTaskYet
  <2>1. CASE q = r
    <3>1. /\ request'[r] = x /\ x.st # "idle"
          /\ x.st \in Initiating => Store(r) = "cache" /\ x.store = "ltm"
      BY <1>4, PublishFacts
    <3>2. ASSUME s # Store(r) PROVE s = "cache" /\ Store(r) = "ltm"
      <4>1. task'[<<r, s>>] = task[<<r, s>>]
        BY <3>2, <1>4, PublishFacts
      <4>2. task[<<r, s>>].st # "none"
        BY <2>1, <4>1
      <4>3. request[r].st \in Initiating
        BY <1>4, PublishFacts DEF At, Initiating
      <4> QED  BY <4>2, <4>3 DEF NoTaskYet, Store
    <3> QED  BY <2>1, <3>1, <3>2
  <2>3. CASE q # r
    <3>1. request'[q] = request[q] /\ task'[<<q, s>>] = task[<<q, s>>]
      BY <2>3, <1>4, PublishFacts
    <3> QED  BY <3>1 DEF NoTaskYet
  <2> QED  BY <2>1, <2>3
<1>5. ASSUME NEW r \in Requests, NEW x \in RequestState, Strands(r, x) PROVE NoTaskYet'
  BY <1>5, StrandFacts DEF NoTaskYet, OffPublish, Follows, Initiating, At, Store
<1>6. ASSUME NEW p \in Requests, NEW z \in Stores, NEW t \in TaskState, Loads(<<p, z>>, t)
      PROVE  NoTaskYet'
  BY <1>6, LoadFacts DEF NoTaskYet
<1>7. ASSUME NEW p \in Requests, NEW z \in Stores, NEW t \in TaskState, Fails(<<p, z>>, t)
      PROVE  NoTaskYet'
  BY <1>7, FailFacts DEF NoTaskYet
<1>8. ASSUME NEW p \in Requests, NEW z \in Stores, NEW t \in TaskState, Readies(<<p, z>>, t)
      PROVE  NoTaskYet'
  BY <1>8, ReadyFacts DEF NoTaskYet
<1>9. ASSUME NEW p \in Requests, NEW z \in Stores, NEW t \in TaskState, Marks(<<p, z>>, t)
      PROVE  NoTaskYet'
  BY <1>9, MarkFacts DEF NoTaskYet
<1>10. ASSUME NEW p \in Requests, NEW z \in Stores, NEW t \in TaskState, GivesUp(<<p, z>>, t)
      PROVE  NoTaskYet'
  BY <1>10, GiveUpFacts DEF NoTaskYet
<1>11. ASSUME row' = row, disk' = disk, request' = request, task' = task PROVE NoTaskYet'
  BY <1>11 DEF NoTaskYet, OffPublish, Follows, Initiating, At, Store
<1> QED
  BY <1>1, <1>2, <1>3, <1>4, <1>5, <1>6,
     <1>7, <1>8, <1>9, <1>10, <1>11, NextShape

\* The task that made a store stays finished.
LEMMA StepReadyWasMade ==
    ASSUME TypeOK, NoTaskYet, ReadyWasMade, [Next]_vars
    PROVE  ReadyWasMade'
<1>1. ASSUME NEW r \in Requests, NEW x \in RequestState, Passes(r, x) PROVE ReadyWasMade'
  <2> SUFFICES ASSUME NEW s \in Stores, row'[s].status = "READY"
               PROVE  \E q \in Requests : task'[<<q, s>>].st = "ready"
    BY DEF ReadyWasMade
  <2>1. row[s].status = "READY"
    BY <1>1, PassFacts
  <2>2. PICK q \in Requests : task[<<q, s>>].st = "ready"
    BY <2>1 DEF ReadyWasMade
  <2> QED  BY <2>2, <1>1, PassFacts
<1>2. ASSUME NEW r \in Requests, NEW x \in RequestState, Inserts(r, x) PROVE ReadyWasMade'
  <2> SUFFICES ASSUME NEW s \in Stores, row'[s].status = "READY"
               PROVE  \E q \in Requests : task'[<<q, s>>].st = "ready"
    BY DEF ReadyWasMade
  <2>1. row[s].status = "READY"
    BY <1>2, InsertFacts
  <2>2. PICK q \in Requests : task[<<q, s>>].st = "ready"
    BY <2>1 DEF ReadyWasMade
  <2> QED  BY <2>2, <1>2, InsertFacts
<1>3. ASSUME NEW r \in Requests, NEW x \in RequestState, Locks(r, x) PROVE ReadyWasMade'
  <2> SUFFICES ASSUME NEW s \in Stores, row'[s].status = "READY"
               PROVE  \E q \in Requests : task'[<<q, s>>].st = "ready"
    BY DEF ReadyWasMade
  <2>1. row[s].status = "READY"
    BY <1>3, LockFacts
  <2>2. PICK q \in Requests : task[<<q, s>>].st = "ready"
    BY <2>1 DEF ReadyWasMade
  <2> QED  BY <2>2, <1>3, LockFacts
<1>4. ASSUME NEW r \in Requests, NEW x \in RequestState, Publishes(r, x) PROVE ReadyWasMade'
  <2> SUFFICES ASSUME NEW s \in Stores, row'[s].status = "READY"
               PROVE  \E q \in Requests : task'[<<q, s>>].st = "ready"
    BY DEF ReadyWasMade
  <2>1. row[s].status = "READY"
    BY <1>4, PublishFacts
  <2>2. PICK q \in Requests : task[<<q, s>>].st = "ready"
    BY <2>1 DEF ReadyWasMade
  <2>3. q # r \/ s # Store(r)
    BY <2>2, <1>4, PublishFacts DEF NoTaskYet, At, Store, Initiating
  <2> QED  BY <2>2, <2>3, <1>4, PublishFacts
<1>5. ASSUME NEW r \in Requests, NEW x \in RequestState, Strands(r, x) PROVE ReadyWasMade'
  <2> SUFFICES ASSUME NEW s \in Stores, row'[s].status = "READY"
               PROVE  \E q \in Requests : task'[<<q, s>>].st = "ready"
    BY DEF ReadyWasMade
  <2>1. row[s].status = "READY"
    BY <1>5, StrandFacts
  <2>2. PICK q \in Requests : task[<<q, s>>].st = "ready"
    BY <2>1 DEF ReadyWasMade
  <2> QED  BY <2>2, <1>5, StrandFacts
<1>6. ASSUME NEW p \in Requests, NEW z \in Stores, NEW t \in TaskState, Loads(<<p, z>>, t)
      PROVE  ReadyWasMade'
  <2> SUFFICES ASSUME NEW s \in Stores, row'[s].status = "READY"
               PROVE  \E q \in Requests : task'[<<q, s>>].st = "ready"
    BY DEF ReadyWasMade
  <2>1. row[s].status = "READY"
    BY <1>6, LoadFacts
  <2>2. PICK q \in Requests : task[<<q, s>>].st = "ready"
    BY <2>1 DEF ReadyWasMade
  <2> QED  BY <2>2, <1>6, LoadFacts
<1>7. ASSUME NEW p \in Requests, NEW z \in Stores, NEW t \in TaskState, Fails(<<p, z>>, t)
      PROVE  ReadyWasMade'
  <2> SUFFICES ASSUME NEW s \in Stores, row'[s].status = "READY"
               PROVE  \E q \in Requests : task'[<<q, s>>].st = "ready"
    BY DEF ReadyWasMade
  <2>1. row[s].status = "READY"
    BY <1>7, FailFacts
  <2>2. PICK q \in Requests : task[<<q, s>>].st = "ready"
    BY <2>1 DEF ReadyWasMade
  <2> QED  BY <2>2, <1>7, FailFacts
<1>8. ASSUME NEW p \in Requests, NEW z \in Stores, NEW t \in TaskState, Readies(<<p, z>>, t)
      PROVE  ReadyWasMade'
  <2> SUFFICES ASSUME NEW s \in Stores, row'[s].status = "READY"
               PROVE  \E q \in Requests : task'[<<q, s>>].st = "ready"
    BY DEF ReadyWasMade
  <2>1. CASE s = z
    BY <2>1, <1>8, ReadyFacts
  <2>2. CASE s # z
    <3>1. PICK q \in Requests : task[<<q, s>>].st = "ready"
      BY <2>2, <1>8, ReadyFacts DEF ReadyWasMade
    <3> QED  BY <3>1, <2>2, <1>8, ReadyFacts
  <2> QED  BY <2>1, <2>2
<1>9. ASSUME NEW p \in Requests, NEW z \in Stores, NEW t \in TaskState, Marks(<<p, z>>, t)
      PROVE  ReadyWasMade'
  <2> SUFFICES ASSUME NEW s \in Stores, row'[s].status = "READY"
               PROVE  \E q \in Requests : task'[<<q, s>>].st = "ready"
    BY DEF ReadyWasMade
  <2>1. row[s].status = "READY"
    BY <1>9, MarkFacts
  <2>2. PICK q \in Requests : task[<<q, s>>].st = "ready"
    BY <2>1 DEF ReadyWasMade
  <2> QED  BY <2>2, <1>9, MarkFacts
<1>10. ASSUME NEW p \in Requests, NEW z \in Stores, NEW t \in TaskState, GivesUp(<<p, z>>, t)
      PROVE  ReadyWasMade'
  <2> SUFFICES ASSUME NEW s \in Stores, row'[s].status = "READY"
               PROVE  \E q \in Requests : task'[<<q, s>>].st = "ready"
    BY DEF ReadyWasMade
  <2>1. row[s].status = "READY"
    BY <1>10, GiveUpFacts
  <2>2. PICK q \in Requests : task[<<q, s>>].st = "ready"
    BY <2>1 DEF ReadyWasMade
  <2> QED  BY <2>2, <1>10, GiveUpFacts
<1>11. ASSUME row' = row, disk' = disk, request' = request, task' = task PROVE ReadyWasMade'
  BY <1>11 DEF ReadyWasMade
<1> QED
  BY <1>1, <1>2, <1>3, <1>4, <1>5, <1>6,
     <1>7, <1>8, <1>9, <1>10, <1>11, NextShape

\* A lock makes its request owe the store; a task pays by its write.
LEMMA StepProcessingIsOwed ==
    ASSUME TypeOK, NoTaskYet, ProcessingIsOwed, [Next]_vars
    PROVE  ProcessingIsOwed'
<1>1. ASSUME NEW r \in Requests, NEW x \in RequestState, Passes(r, x) PROVE ProcessingIsOwed'
  <2> SUFFICES ASSUME NEW s \in Stores, row'[s].status = "PROCESSING"
               PROVE  \E q \in Requests : WillWrite(q, s)'
    BY DEF ProcessingIsOwed
  <2>1. row[s].status = "PROCESSING"
    BY <1>1, PassFacts
  <2>2. PICK q \in Requests : WillWrite(q, s)
    BY <2>1 DEF ProcessingIsOwed
  <2>3. CASE q = r
    <3>1. request[r].st \notin {"publish", "stranded"} /\ task' = task
      BY <1>1, PassFacts DEF At, Initiating
    <3> QED  BY <2>2, <2>3, <3>1 DEF WillWrite, Owes
  <2>4. CASE q # r
    <3>1. request'[q] = request[q] /\ task'[<<q, s>>] = task[<<q, s>>]
      BY <2>4, <1>1, PassFacts
    <3> QED  BY <2>2, <3>1 DEF WillWrite, Owes, Store
  <2> QED  BY <2>3, <2>4
<1>2. ASSUME NEW r \in Requests, NEW x \in RequestState, Inserts(r, x) PROVE ProcessingIsOwed'
  <2> SUFFICES ASSUME NEW s \in Stores, row'[s].status = "PROCESSING"
               PROVE  \E q \in Requests : WillWrite(q, s)'
    BY DEF ProcessingIsOwed
  <2>1. row[s].status = "PROCESSING"
    BY <1>2, InsertFacts
  <2>2. PICK q \in Requests : WillWrite(q, s)
    BY <2>1 DEF ProcessingIsOwed
  <2>3. CASE q = r
    <3>1. request[r].st \notin {"publish", "stranded"} /\ task' = task
      BY <1>2, InsertFacts DEF At, Initiating
    <3> QED  BY <2>2, <2>3, <3>1 DEF WillWrite, Owes
  <2>4. CASE q # r
    <3>1. request'[q] = request[q] /\ task'[<<q, s>>] = task[<<q, s>>]
      BY <2>4, <1>2, InsertFacts
    <3> QED  BY <2>2, <3>1 DEF WillWrite, Owes, Store
  <2> QED  BY <2>3, <2>4
<1>3. ASSUME NEW r \in Requests, NEW x \in RequestState, Locks(r, x) PROVE ProcessingIsOwed'
  <2> SUFFICES ASSUME NEW s \in Stores, row'[s].status = "PROCESSING"
               PROVE  \E q \in Requests : WillWrite(q, s)'
    BY DEF ProcessingIsOwed
  <2>1. CASE s = Store(r)
    <3>1. Owes(r, s)'
      BY <2>1, <1>3, LockFacts DEF Owes, Store
    <3>2. task'[<<r, s>>].st = "none"
      BY <2>1, <1>3, LockFacts DEF NoTaskYet, At, Store, Initiating
    <3> QED  BY <3>1, <3>2 DEF WillWrite
  <2>2. CASE s # Store(r)
    <3>1. PICK q \in Requests : WillWrite(q, s)
      BY <2>2, <1>3, LockFacts DEF ProcessingIsOwed
    <3>2. WillWrite(q, s)'
      BY <3>1, <2>2, <1>3, LockFacts DEF WillWrite, Owes, Store, At
    <3> QED  BY <3>2
  <2> QED  BY <2>1, <2>2
<1>4. ASSUME NEW r \in Requests, NEW x \in RequestState, Publishes(r, x) PROVE ProcessingIsOwed'
  <2> SUFFICES ASSUME NEW s \in Stores, row'[s].status = "PROCESSING"
               PROVE  \E q \in Requests : WillWrite(q, s)'
    BY DEF ProcessingIsOwed
  <2>1. row[s].status = "PROCESSING"
    BY <1>4, PublishFacts
  <2>2. PICK q \in Requests : WillWrite(q, s)
    BY <2>1 DEF ProcessingIsOwed
  <2>3. CASE q = r
    <3>1. CASE s = Store(r)
      <4>1. task'[<<r, s>>].st = "queued"
        BY <3>1, <1>4, PublishFacts
      <4> QED  BY <2>3, <4>1 DEF WillWrite, Owes
    <3>2. CASE s # Store(r)
      <4>1. task'[<<r, s>>] = task[<<r, s>>]
        BY <3>2, <1>4, PublishFacts
      <4> QED  BY <2>2, <2>3, <3>2, <4>1 DEF WillWrite, Owes
    <3> QED  BY <3>1, <3>2
  <2>4. CASE q # r
    <3>1. request'[q] = request[q] /\ task'[<<q, s>>] = task[<<q, s>>]
      BY <2>4, <1>4, PublishFacts
    <3> QED  BY <2>2, <3>1 DEF WillWrite, Owes, Store
  <2> QED  BY <2>3, <2>4
<1>5. ASSUME NEW r \in Requests, NEW x \in RequestState, Strands(r, x) PROVE ProcessingIsOwed'
  <2> SUFFICES ASSUME NEW s \in Stores, row'[s].status = "PROCESSING"
               PROVE  \E q \in Requests : WillWrite(q, s)'
    BY DEF ProcessingIsOwed
  <2>1. row[s].status = "PROCESSING"
    BY <1>5, StrandFacts
  <2>2. PICK q \in Requests : WillWrite(q, s)
    BY <2>1 DEF ProcessingIsOwed
  <2>3. CASE q = r
    <3>1. /\ request'[r].st = "stranded" /\ request'[r].store = Store(r)
          /\ At(r, "publish") /\ task' = task
      BY <1>5, StrandFacts
    <3> QED  BY <2>2, <2>3, <3>1 DEF WillWrite, Owes, Store, At
  <2>4. CASE q # r
    <3>1. request'[q] = request[q] /\ task'[<<q, s>>] = task[<<q, s>>]
      BY <2>4, <1>5, StrandFacts
    <3> QED  BY <2>2, <3>1 DEF WillWrite, Owes, Store
  <2> QED  BY <2>3, <2>4
<1>6. ASSUME NEW p \in Requests, NEW z \in Stores, NEW t \in TaskState, Loads(<<p, z>>, t)
      PROVE  ProcessingIsOwed'
  <2> SUFFICES ASSUME NEW s \in Stores, row'[s].status = "PROCESSING"
               PROVE  \E q \in Requests : WillWrite(q, s)'
    BY DEF ProcessingIsOwed
  <2>1. row[s].status = "PROCESSING"
    BY <1>6, LoadFacts
  <2>2. PICK q \in Requests : WillWrite(q, s)
    BY <2>1 DEF ProcessingIsOwed
  <2>3. CASE q = p /\ s = z
    BY <2>1, <2>2, <2>3, <1>6, LoadFacts DEF WillWrite, Owes, Store
  <2>4. CASE q # p \/ s # z
    BY <2>2, <2>4, <1>6, LoadFacts DEF WillWrite, Owes, Store
  <2> QED  BY <2>3, <2>4
<1>7. ASSUME NEW p \in Requests, NEW z \in Stores, NEW t \in TaskState, Fails(<<p, z>>, t)
      PROVE  ProcessingIsOwed'
  <2> SUFFICES ASSUME NEW s \in Stores, row'[s].status = "PROCESSING"
               PROVE  \E q \in Requests : WillWrite(q, s)'
    BY DEF ProcessingIsOwed
  <2>1. row[s].status = "PROCESSING"
    BY <1>7, FailFacts
  <2>2. PICK q \in Requests : WillWrite(q, s)
    BY <2>1 DEF ProcessingIsOwed
  <2>3. CASE q = p /\ s = z
    BY <2>1, <2>2, <2>3, <1>7, FailFacts DEF WillWrite, Owes, Store
  <2>4. CASE q # p \/ s # z
    BY <2>2, <2>4, <1>7, FailFacts DEF WillWrite, Owes, Store
  <2> QED  BY <2>3, <2>4
<1>8. ASSUME NEW p \in Requests, NEW z \in Stores, NEW t \in TaskState, Readies(<<p, z>>, t)
      PROVE  ProcessingIsOwed'
  <2> SUFFICES ASSUME NEW s \in Stores, row'[s].status = "PROCESSING"
               PROVE  \E q \in Requests : WillWrite(q, s)'
    BY DEF ProcessingIsOwed
  <2>1. row[s].status = "PROCESSING"
    BY <1>8, ReadyFacts
  <2>2. PICK q \in Requests : WillWrite(q, s)
    BY <2>1 DEF ProcessingIsOwed
  <2>3. CASE q = p /\ s = z
    BY <2>1, <2>2, <2>3, <1>8, ReadyFacts DEF WillWrite, Owes, Store
  <2>4. CASE q # p \/ s # z
    BY <2>2, <2>4, <1>8, ReadyFacts DEF WillWrite, Owes, Store
  <2> QED  BY <2>3, <2>4
<1>9. ASSUME NEW p \in Requests, NEW z \in Stores, NEW t \in TaskState, Marks(<<p, z>>, t)
      PROVE  ProcessingIsOwed'
  <2> SUFFICES ASSUME NEW s \in Stores, row'[s].status = "PROCESSING"
               PROVE  \E q \in Requests : WillWrite(q, s)'
    BY DEF ProcessingIsOwed
  <2>1. row[s].status = "PROCESSING"
    BY <1>9, MarkFacts
  <2>2. PICK q \in Requests : WillWrite(q, s)
    BY <2>1 DEF ProcessingIsOwed
  <2>3. CASE q = p /\ s = z
    BY <2>1, <2>2, <2>3, <1>9, MarkFacts DEF WillWrite, Owes, Store
  <2>4. CASE q # p \/ s # z
    BY <2>2, <2>4, <1>9, MarkFacts DEF WillWrite, Owes, Store
  <2> QED  BY <2>3, <2>4
<1>10. ASSUME NEW p \in Requests, NEW z \in Stores, NEW t \in TaskState, GivesUp(<<p, z>>, t)
      PROVE  ProcessingIsOwed'
  <2> SUFFICES ASSUME NEW s \in Stores, row'[s].status = "PROCESSING"
               PROVE  \E q \in Requests : WillWrite(q, s)'
    BY DEF ProcessingIsOwed
  <2>1. row[s].status = "PROCESSING"
    BY <1>10, GiveUpFacts
  <2>2. PICK q \in Requests : WillWrite(q, s)
    BY <2>1 DEF ProcessingIsOwed
  <2>3. CASE q = p /\ s = z
    BY <2>1, <2>2, <2>3, <1>10, GiveUpFacts DEF WillWrite, Owes, Store
  <2>4. CASE q # p \/ s # z
    BY <2>2, <2>4, <1>10, GiveUpFacts DEF WillWrite, Owes, Store
  <2> QED  BY <2>3, <2>4
<1>11. ASSUME row' = row, disk' = disk, request' = request, task' = task PROVE ProcessingIsOwed'
  BY <1>11 DEF NoTaskYet, ProcessingIsOwed, WillWrite, Owes, OffPublish, At, Store, Initiating
<1> QED
  BY <1>1, <1>2, <1>3, <1>4, <1>5, <1>6,
     <1>7, <1>8, <1>9, <1>10, <1>11, NextShape

-----------------------------------------------------------------------------
\* Every step keeps the invariant.
LEMMA StepIInv == IInv /\ [Next]_vars => IInv'
BY StepTypeOK, StepPathIsOnDisk, StepLoadedIsMade, StepNoTaskYet, StepReadyWasMade,
   StepProcessingIsOwed DEF IInv

\* IInv is an invariant of the vector stores.
LEMMA IInvAlways == Spec => []IInv
BY InitIInv, StepIInv, PTL DEF Spec

\* Types, for any number of requests and retries.
THEOREM StoresTypeCorrect == Spec => []TypeOK
<1>1. IInv => TypeOK
  BY DEF IInv
<1> QED  BY <1>1, IInvAlways, PTL

\* A READY row has a path and a path leads to a collection: a task writes both in
\* one commit, after the creation it awaited, and no step removes either.
THEOREM StorePathsAreOnDisk == Spec => []PathIsOnDisk
<1>1. IInv => PathIsOnDisk
  BY DEF IInv
<1> QED  BY <1>1, IInvAlways, PTL

\* No PROCESSING without somebody who owes the store, whatever fails, and in
\* spite of writes the session leaves out.
THEOREM StoreProcessingIsWorked == Spec => []ProcessingIsWorked
<1>1. IInv => ProcessingIsWorked
  BY DEF IInv, ProcessingIsOwed, WillWrite, ProcessingIsWorked
<1> QED  BY <1>1, IInvAlways, PTL

\* The other hand in a step that ends READY: the request that made the store is
\* not the one that locks it again, nor the one whose task marks it FAILED.
LEMMA StepOutlives ==
    ASSUME IInv, [Next]_vars, NEW s \in Stores,
           row[s].status = "READY", row'[s].status # "READY"
    PROVE  \E r1, r2 \in Makers(s)' : r1 # r2
<1>1. PICK m \in Requests : task[<<m, s>>].st = "ready"
  BY DEF IInv, ReadyWasMade
<1>2. TypeOK /\ NoTaskYet
  BY DEF IInv
<1>3. ASSUME NEW r \in Requests, NEW x \in RequestState, Locks(r, x)
      PROVE  \E r1, r2 \in Makers(s)' : r1 # r2
  <2>1. s = Store(r)
    BY <1>2, <1>3, LockFacts
  <2>2. m # r
    BY <1>1, <1>2, <1>3, <2>1, LockFacts DEF NoTaskYet, At, Store, Initiating
  <2>3. task' = task /\ request'[r].st = "publish" /\ request'[r].store = s
    BY <1>2, <1>3, <2>1, LockFacts
  <2>4. m \in Makers(s)' /\ r \in Makers(s)'
    BY <1>1, <2>3 DEF Makers, At, Store
  <2> QED  BY <2>2, <2>4
<1>4. ASSUME NEW p \in Requests, NEW z \in Stores, NEW t \in TaskState, Marks(<<p, z>>, t)
      PROVE  \E r1, r2 \in Makers(s)' : r1 # r2
  <2>1. s = z
    BY <1>2, <1>4, MarkFacts
  <2>2. m # p
    BY <1>1, <1>2, <1>4, <2>1, MarkFacts
  <2>3. task'[<<p, s>>].st # "none" /\ task'[<<m, s>>].st = "ready"
    BY <1>1, <1>2, <1>4, <2>1, <2>2, MarkFacts
  <2>4. m \in Makers(s)' /\ p \in Makers(s)'
    BY <2>3 DEF Makers
  <2> QED  BY <2>2, <2>4
<1>5. ASSUME NEW r \in Requests, NEW x \in RequestState,
             Passes(r, x) \/ Publishes(r, x) \/ Strands(r, x) PROVE FALSE
  BY <1>2, <1>5, PassFacts, PublishFacts, StrandFacts
<1>6. ASSUME NEW r \in Requests, NEW x \in RequestState, Inserts(r, x) PROVE FALSE
  BY <1>2, <1>6, InsertFacts
<1>7. ASSUME NEW p \in Requests, NEW z \in Stores, NEW t \in TaskState,
             Loads(<<p, z>>, t) \/ Fails(<<p, z>>, t) \/ GivesUp(<<p, z>>, t) PROVE FALSE
  BY <1>2, <1>7, LoadFacts, FailFacts, GiveUpFacts
<1>8. ASSUME NEW p \in Requests, NEW z \in Stores, NEW t \in TaskState, Readies(<<p, z>>, t)
      PROVE  FALSE
  BY <1>2, <1>8, ReadyFacts
<1> QED
  BY <1>2, <1>3, <1>4, <1>5, <1>6, <1>7, <1>8, NextShape

\* A store leaves READY only by the hand of another request than its maker.
THEOREM StoreReadyOutlives == Spec => ReadyOutlivesItsMaker
<1>1. IInv /\ [Next]_vars =>
        [\A s \in Stores : row[s].status = "READY" /\ row'[s].status # "READY" =>
            \E r1, r2 \in Makers(s)' : r1 # r2]_vars
  BY StepOutlives
<1> QED  BY <1>1, IInvAlways, PTL DEF Spec, ReadyOutlivesItsMaker
-----------------------------------------------------------------------------
\* A step of a request leaves it less to do.
LEMMA RequestAdvances ==
    ASSUME TypeOK, NEW r \in Requests, NEW x \in RequestState,
           Passes(r, x) \/ Inserts(r, x) \/ Locks(r, x) \/ Publishes(r, x) \/ Strands(r, x)
    PROVE  Advances(r) /\ \A q \in Requests \ {r} : Stays(q)
<1>1. Moves(r, x)
  BY DEF Passes, Inserts, Locks, Publishes, Strands
<1>2. /\ request'[r] = x
      /\ \A q \in Requests \ {r} : request'[q] = request[q]
  BY <1>1, MoveFacts
<1>3. Advances(r)
  BY <1>1, <1>2 DEF Moves, Advances
<1>4. ASSUME NEW q \in Requests \ {r}, NEW s \in Stores PROVE task'[<<q, s>>] = task[<<q, s>>]
  <2>1. CASE Publishes(r, x)
    <3>1. \A o \in Requests, z \in Stores :
            o # r \/ z # Store(r) => task'[<<o, z>>] = task[<<o, z>>]
      BY <2>1, PublishFacts
    <3> QED  BY <3>1
  <2>2. CASE task' = task
    BY <2>2
  <2> QED  BY <2>1, <2>2 DEF Passes, Inserts, Locks, Strands
<1> QED  BY <1>2, <1>3, <1>4 DEF Stays

\* A step of a task leaves that task less to do, and everything else of the
\* requests as it was.
LEMMA TaskAdvances ==
    ASSUME TypeOK, NEW p \in Requests, NEW z \in Stores, NEW t \in TaskState,
           \/ Loads(<<p, z>>, t) \/ Fails(<<p, z>>, t) \/ Readies(<<p, z>>, t)
           \/ Marks(<<p, z>>, t) \/ GivesUp(<<p, z>>, t)
    PROVE  Advances(p) /\ \A q \in Requests \ {p} : Stays(q)
<1>1. Becomes(<<p, z>>, t)
  BY DEF Loads, Fails, Readies, Marks, GivesUp
<1>2. /\ request' = request /\ task'[<<p, z>>] = t
      /\ \A q \in Requests, s \in Stores :
            q # p \/ s # z => task'[<<q, s>>] = task[<<q, s>>]
  BY <1>1, BecomeFacts
<1>3. Advances(p)
  BY <1>1, <1>2 DEF Becomes, Advances
<1>4. ASSUME NEW q \in Requests \ {p} PROVE Stays(q)
  BY <1>2 DEF Stays
<1> QED  BY <1>3, <1>4

\* Every step uses up some of what one request may still do: whatever fails, is
\* retried or dies, a request and its tasks take finitely many steps.
THEOREM CreationEnds == Spec => CreationRunsDown
<1>1. IInv /\ [Next]_vars =>
        [\E r \in Requests : Advances(r) /\ \A q \in Requests \ {r} : Stays(q)]_vars
  <2> SUFFICES ASSUME IInv, [Next]_vars
               PROVE  \/ \E r \in Requests : Advances(r) /\ \A q \in Requests \ {r} : Stays(q)
                      \/ UNCHANGED vars
    OBVIOUS
  <2>1. TypeOK
    BY DEF IInv
  <2> QED  BY <2>1, NextShape, RequestAdvances, TaskAdvances DEF vars
<1> QED  BY <1>1, IInvAlways, PTL DEF Spec, CreationRunsDown
=============================================================================
