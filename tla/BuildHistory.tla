---------------------------- MODULE BuildHistory ----------------------------
(***************************************************************************)
(* IndexBuild with a history of what happened at the same time.  Nothing   *)
(* locks a build against task 2, which looks at the BM25 row and later     *)
(* commits READY for its document (and STALE for the row, if that was      *)
(* READY when it looked), nor against another build of the same version,   *)
(* which writes the same temporary files.  The history records the         *)
(* documents and versions this happened to, and who gave up.               *)
(***************************************************************************)
EXTENDS IndexBuild

VARIABLES
    raced,    \* documents between look and commit while an index was built
    shared,   \* BM25 versions two builders worked on at the same time
    gaveUp    \* documents, and "bm25", whose task ran out of retries

hist == <<raced, shared, gaveUp>>

\* From its first query to its commit a builder may still report READY.
Builds == Works \cup {"listed"}
Building == \E b \in Bm25Tasks : bm[b].st \in Builds
Worked == {v \in 1..MaxVersion : \E b, c \in Bm25Tasks :
              /\ b # c
              /\ bm[b].st \in Works /\ bm[b].v = v
              /\ bm[c].st \in Works /\ bm[c].v = v}

Races == {r \in Requests : t2[r].st = "read"}

GivingUp ==
    {mi[m].r : m \in {n \in MultiTasks : MiFails(n) /\ mi[n].tries = MaxRetries}}
    \cup (IF \E b \in Bm25Tasks : BmFails(b) /\ bm[b].tries = MaxRetries
            THEN {"bm25"} ELSE {})

HistInit == raced = {} /\ shared = {} /\ gaveUp = {}
HInit == Init /\ HistInit
HNext ==
    /\ Next
    /\ raced' = IF Building THEN raced \cup Races ELSE raced
    /\ shared' = shared \cup Worked'
    /\ gaveUp' = gaveUp \cup GivingUp
HSpec == HInit /\ [][HNext]_<<vars, hist>>
HFairSpec == HSpec /\ Fairness

-----------------------------------------------------------------------------
(* Safety                                                                  *)

\* The version on the row has both its files, and a file in place is complete,
\* but for versions two builders worked on at once: no crash, no failed write
\* and no retry publishes a part of a file.
OnlySharedBroken ==
    /\ VersionIsOnDisk
    /\ \A k \in Kinds, v \in (1..MaxVersion) \ shared :
          pickle[k, v].st = "absent" \/ (pickle[k, v].st = "whole"
                                         /\ pickle[k, v].by = {})

\* The documents an index may not lack.
Due == ReadyDocs \ raced

\* Neither file of an index that is READY lacks a READY document, but those
\* whose commit raced with a build (unless it is torn): faults, retries,
\* crashes and builders at the same time lose no other.
HasAllDue(f) == f.st = "torn" \/ Due \subseteq f.docs
OnlyRacedMissing ==
    bm25 = "READY" => version > 0 /\ \A k \in Kinds : HasAllDue(pickle[k, version])

\* A builder has opened, or renamed, its file of this kind.
Opened(b, k) ==
    \/ bm[b].st \in {"move", "published"}
    \/ bm[b].st \in {"open", "write"} /\ bm[b].k = "retriever" /\ k = "docs"
    \/ bm[b].st = "write" /\ bm[b].k = k
Moved(b, k) ==
    \/ bm[b].st = "published"
    \/ bm[b].st = "move" /\ bm[b].k = "retriever" /\ k = "docs"

\* Why: what a builder has collected, and the files it has opened and renamed
\* have them all; and a document about to be committed while nobody builds
\* knows of a READY index.
HistoryInv ==
    /\ \A b \in Bm25Tasks : bm[b].st \in Builds => Due \subseteq bm[b].docs
    /\ \A b \in Bm25Tasks, k \in Kinds :
          /\ Opened(b, k) => tmp[k, bm[b].v].st = "absent" \/ HasAllDue(tmp[k, bm[b].v])
          /\ Moved(b, k) => HasAllDue(pickle[k, bm[b].v])
    /\ \A r \in Races \ raced : bm25 = "READY" => Building \/ seen[r] = "READY"
    /\ OnlyRacedMissing

-----------------------------------------------------------------------------
(* Liveness                                                                *)

\* Without crashes and lost calls, a build in progress ends in its status, also
\* when the stages fail and the task is retried, unless it ran out of retries
\* (that status stays PROCESSING).
BuildsEnd ==
    /\ bm25 = "PROCESSING" ~> bm25 # "PROCESSING" \/ "bm25" \in gaveUp
    /\ \A r \in Requests :
        /\ summary[r] = "PROCESSING" ~>
                summary[r] \in {"READY", "FAILED"} \/ r \in gaveUp
        /\ explanation[r] = "PROCESSING" ~>
                explanation[r] \in {"READY", "FAILED"} \/ r \in gaveUp

-----------------------------------------------------------------------------
(* A claim of the repository the code does not keep                        *)

\* doc_verification_utils.py:119: only what is about to be built is marked as
\* PROCESSING.  A task that writes both statuses back may mark what it does not
\* build, when another poll's task has just built it.
MarkedIsBuilt ==
    \A r \in Requests \ gaveUp :
        summary[r] = "PROCESSING" \/ explanation[r] = "PROCESSING" =>
            \/ \E m \in MultiTasks : mi[m] # NoTask /\ mi[m].r = r
            \/ \E p \in Pollers :
                  poll[p].st = "fire" /\ poll[p].r = r /\ (poll[p].cs \/ poll[p].ce)
=============================================================================
