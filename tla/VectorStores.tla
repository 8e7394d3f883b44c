---------------------------- MODULE VectorStores ----------------------------
\* The two vector stores a user gets on the first question: the question cache
\* and the long-term memory.  Each has a resource row, an initiator the question
\* routes call (question_inishiators.py), a Celery worker that makes the store
\* (ai_worker.py).  One user; the rows are never deleted, so the worker always
\* finds the one its request committed.
EXTENDS Naturals

CONSTANTS
    Requests,     \* requests to /question and /convo
    MaxRetries,   \* retries Celery grants a task
    Faults        \* may databases, the broker, stores and processes fail?

ASSUME StoresAssumption == MaxRetries \in Nat /\ Faults \in BOOLEAN

Stores == {"cache", "ltm"}

VARIABLES
    row,      \* CacheVDBResource and LTMVDBResource: status ("none": no row), path
    disk,     \* the collections that exist in the user's directory
    request,  \* where each request is, and the initiator it runs
    task      \* the creation tasks: place, retries, status of the row when read

vars == <<row, disk, request, task>>

Statuses == {"none", "PENDING", "PROCESSING", "READY", "FAILED"}
Initiating == {"select", "insert", "refresh", "lock", "publish"}

RowState == [status : Statuses, path : BOOLEAN]
RequestState ==
    [st : Initiating \cup {"idle", "served", "refused", "stranded"}, store : Stores]
TaskState ==
    [st : {"none", "queued", "loaded", "failing", "ready", "failed", "lost"},
     tries : 0..MaxRetries, seen : Statuses]

NoTask == [st |-> "none", tries |-> 0, seen |-> "none"]
Creations == Requests \X Stores

-----------------------------------------------------------------------------
\* The initiators.  A request runs the cache one, then the long-term-memory one,
\* and goes on to the cache tiers.

At(r, st) == request[r].st = st
Store(r) == request[r].store
To(r, st) == request' = [request EXCEPT ![r].st = st]

\* The next initiator, or the rest of the request.
NextStore(r) ==
    request' = [request EXCEPT ![r] =
        IF @.store = "cache" THEN [st |-> "select", store |-> "ltm"]
                             ELSE [st |-> "served", store |-> "ltm"]]

\* PENDING and FAILED proceed to the lock, PROCESSING and READY are left alone.
Decide(r) ==
    IF row[Store(r)].status \in {"PENDING", "FAILED"} THEN To(r, "lock") ELSE NextStore(r)

Ask(r) ==
    /\ At(r, "idle")
    /\ request' = [request EXCEPT ![r] = [st |-> "select", store |-> "cache"]]
    /\ UNCHANGED <<row, disk, task>>

SelectRow(r) ==
    /\ At(r, "select")
    /\ IF row[Store(r)].status = "none" THEN To(r, "insert") ELSE Decide(r)
    /\ UNCHANGED <<row, disk, task>>

\* Mutant: the row is inserted as PROCESSING, which no request takes up.
InsertLocked(r) ==
    /\ At(r, "insert")
    /\ IF row[Store(r)].status = "none"
       THEN /\ row' = [row EXCEPT ![Store(r)] = [status |-> "PROCESSING", path |-> FALSE]]
            /\ To(r, "refresh")
       ELSE To(r, "refused") /\ UNCHANGED row
    /\ UNCHANGED <<disk, task>>

\* user_id is unique: the second of two concurrent inserts raises.
InsertRow(r) ==
    /\ At(r, "insert")
    /\ IF row[Store(r)].status = "none"
       THEN /\ row' = [row EXCEPT ![Store(r)] = [status |-> "PENDING", path |-> FALSE]]
            /\ To(r, "refresh")
       ELSE To(r, "refused") /\ UNCHANGED row
    /\ UNCHANGED <<disk, task>>

RefreshRow(r) ==
    /\ At(r, "refresh")
    /\ Decide(r)
    /\ UNCHANGED <<row, disk, task>>

\* The write has no condition on the status it replaces.
Lock(r) ==
    /\ At(r, "lock")
    /\ row' = [row EXCEPT ![Store(r)].status = "PROCESSING"]
    /\ To(r, "publish")
    /\ UNCHANGED <<disk, task>>

Publish(r) ==
    /\ At(r, "publish")
    /\ task' = [task EXCEPT ![<<r, Store(r)>>] = [NoTask EXCEPT !.st = "queued"]]
    /\ NextStore(r)
    /\ UNCHANGED <<row, disk>>

\* A database error, a refusal of the broker or the end of the process; what was
\* committed stays.
Abort(r) ==
    /\ Faults
    /\ request[r].st \in Initiating
    /\ To(r, IF At(r, "publish") THEN "stranded" ELSE "refused")
    /\ UNCHANGED <<row, disk, task>>
-----------------------------------------------------------------------------
\* The creation workers.

Doing(w, st) == task[w].st = st
Read(w, st) == task' = [task EXCEPT ![w] =
    [st |-> st, tries |-> @.tries, seen |-> row'[w[2]].status]]
End(w, st) == task' = [task EXCEPT ![w] = [NoTask EXCEPT !.st = st]]

\* Mutant: the retries are not counted.
RetryForever(w, last) ==
    task' = [task EXCEPT ![w] = [st |-> "queued", tries |-> @.tries + 1, seen |-> "none"]]

\* self.retry: the task is queued again, or raises the error when its retries are
\* used up.
RetryTask(w, last) ==
    IF task[w].tries < MaxRetries
    THEN task' = [task EXCEPT ![w] = [st |-> "queued", tries |-> @.tries + 1, seen |-> "none"]]
    ELSE End(w, last)

\* The handler reads the row again to mark it; an error of its own replaces the
\* first one, and the task is retried all the same.
Fail(w) == Faults /\ (Read(w, "failing") \/ RetryTask(w, "lost"))

\* Mutant: the creation of the collection is not awaited.
MakeStoreUnawaited(w) ==
    /\ Doing(w, "queued")
    /\ UNCHANGED <<row, request>>
    /\ disk' \in {disk, disk \cup {w[2]}}
    /\ Read(w, "loaded") \/ Fail(w)

\* mkdir and the first Chroma() on the directory, then the row; the creation is
\* awaited.
MakeStore(w) ==
    /\ Doing(w, "queued")
    /\ UNCHANGED <<row, request>>
    /\ \/ Read(w, "loaded") /\ disk' = disk \cup {w[2]}
       \/ Fail(w) /\ disk' \in {disk, disk \cup {w[2]}}

\* The session writes the columns that differ from what it loaded: a row loaded
\* with the status to be written keeps the status it has by now.
Written(w, status) ==
    IF task[w].seen = status THEN row[w[2]].status ELSE status
Ready(w) == row' = [row EXCEPT ![w[2]] = [status |-> Written(w, "READY"), path |-> TRUE]]

\* Mutant: a step that can fail follows the commit.
MarkReadyAndGoOn(w) ==
    /\ Doing(w, "loaded")
    /\ \/ Ready(w) /\ (End(w, "ready") \/ Fail(w))
       \/ UNCHANGED row /\ Fail(w)
    /\ UNCHANGED <<disk, request>>

MarkReady(w) ==
    /\ Doing(w, "loaded")
    /\ \/ Ready(w) /\ End(w, "ready")
       \/ UNCHANGED row /\ Fail(w)
    /\ UNCHANGED <<disk, request>>

\* Mutant: a failure before the collection exists is not marked.
MarkFailedIfMade(w) ==
    /\ Doing(w, "failing")
    /\ row' = IF w[2] \in disk THEN [row EXCEPT ![w[2]].status = Written(w, "FAILED")] ELSE row
    /\ RetryTask(w, "failed")
    /\ UNCHANGED <<disk, request>>

MarkFailed(w) ==
    /\ Doing(w, "failing")
    /\ \/ row' = [row EXCEPT ![w[2]].status = Written(w, "FAILED")] /\ RetryTask(w, "failed")
       \/ UNCHANGED row /\ RetryTask(w, "lost")
    /\ UNCHANGED <<disk, request>>

\* A task is acknowledged before it runs: it is lost with its process, and when
\* the broker refuses its retry.
Die(w) ==
    /\ Faults
    /\ task[w].st \in {"queued", "loaded", "failing"}
    /\ End(w, "lost")
    /\ UNCHANGED <<row, disk, request>>

-----------------------------------------------------------------------------
RequestStep(r) ==
    SelectRow(r) \/ InsertRow(r) \/ RefreshRow(r) \/ Lock(r) \/ Publish(r) \/ Abort(r)

TaskStep(w) ==
    MakeStore(w) \/ MarkReady(w) \/ MarkFailed(w)

Init ==
    /\ row = [s \in Stores |-> [status |-> "none", path |-> FALSE]]
    /\ disk = {}
    /\ request = [r \in Requests |-> [st |-> "idle", store |-> "cache"]]
    /\ task = [w \in Creations |-> NoTask]

Next ==
    \/ \E r \in Requests : Ask(r) \/ RequestStep(r)
    \/ \E w \in Creations : TaskStep(w) \/ Die(w)

Spec == Init /\ [][Next]_vars

\* The event loop runs every request; the workers take every queued task.
FairSpec ==
    /\ Spec
    /\ \A r \in Requests : WF_vars(RequestStep(r))
    /\ \A w \in Creations : WF_vars(TaskStep(w))

-----------------------------------------------------------------------------
TypeOK ==
    /\ row \in [Stores -> RowState]
    /\ disk \subseteq Stores
    /\ request \in [Requests -> RequestState]
    /\ task \in [Creations -> TaskState]

\* A READY row has a path, and a path leads to a collection that was created,
\* also after a failure or a second creation: get_user_cache_vdb and the push
\* workers open what the row says without looking at the disk.
PathIsOnDisk ==
    \A s \in Stores :
        /\ row[s].status = "READY" => row[s].path
        /\ row[s].path => s \in disk

\* PROCESSING is a promise: a request is about to publish a creation task, or one
\* is under way, or it was lost with a process or to the broker.  It is never left
\* behind by the initiators and workers themselves.
Owes(r, s) ==
    \/ request[r].st \in {"publish", "stranded"} /\ Store(r) = s
    \/ task[<<r, s>>].st \notin {"none", "ready", "failed"}
ProcessingIsWorked ==
    \A s \in Stores : row[s].status = "PROCESSING" => \E r \in Requests : Owes(r, s)

\* A store that is READY leaves that status only by the hand of another request
\* than the one that had it made: no creation task takes back its own success.
Makers(s) ==
    {r \in Requests : task[<<r, s>>].st # "none" \/ (At(r, "publish") /\ Store(r) = s)}
ReadyOutlivesItsMaker ==
    [][\A s \in Stores :
        row[s].status = "READY" /\ row'[s].status # "READY" => \E r1, r2 \in Makers(s)' : r1 # r2]_vars

\* How much a request, and a creation task, may still do: the steps of the
\* initiators that are left, the steps of this attempt and four for each retry.
StepsLeft(x) ==
    IF x.st = "idle" THEN 12
    ELSE IF x.st \in Initiating
    THEN (IF x.store = "cache" THEN 6 ELSE 0)
         + (CASE x.st = "select" -> 5 [] x.st = "insert" -> 4 [] x.st = "refresh" -> 3
              [] x.st = "lock" -> 2 [] x.st = "publish" -> 1)
    ELSE 0

TriesLeft(t) ==
    IF t.st \in {"queued", "loaded", "failing"}
    THEN 4 * (MaxRetries - t.tries)
         + (CASE t.st = "queued" -> 3 [] t.st = "loaded" -> 2 [] t.st = "failing" -> 1)
    ELSE 0

\* The request has less to do; or it is where it was, and a task of its has less
\* to do.
Advances(r) ==
    \/ StepsLeft(request'[r]) \in 0..(StepsLeft(request[r]) - 1)
    \/ /\ UNCHANGED request[r]
       /\ \E s \in Stores :
            /\ TriesLeft(task'[<<r, s>>]) \in 0..(TriesLeft(task[<<r, s>>]) - 1)
            /\ \A z \in Stores \ {s} : UNCHANGED task[<<r, z>>]
Stays(r) == UNCHANGED request[r] /\ \A s \in Stores : UNCHANGED task[<<r, s>>]

\* Every step, failures, retries and deaths included, is one request's and uses up
\* some of what that request and its tasks may still do: creating the stores ends.
CreationRunsDown ==
    [][\E r \in Requests : Advances(r) /\ \A q \in Requests \ {r} : Stays(q)]_vars

\* Every PROCESSING ends unless a process died or the broker refused a task.
Lost(s) ==
    \E r \in Requests : task[<<r, s>>].st = "lost" \/ (At(r, "stranded") /\ Store(r) = s)
ProcessingEnds ==
    \A s \in Stores : row[s].status = "PROCESSING" ~> row[s].status # "PROCESSING" \/ Lost(s)
=============================================================================
