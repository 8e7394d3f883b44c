-------------------------- MODULE MCBuildHistory --------------------------
\* TLC instances of BuildHistory: those of IndexBuild, with its history.
EXTENDS MCIndexBuild, BuildHistory

\* States in which the indexes of two uploads begin to matter; the pipeline's
\* own runs have what comes before.  The first upload is READY.  Either nobody
\* has polled it, and the second upload failed; or two polls at once had its
\* indexes built, where of two BM25 builders one published version 1 and the
\* other then failed (to rename), and the second upload is about to look at the
\* row.
NobodyPolled ==
    /\ NothingRuns /\ HistInit
    /\ bm25 = "NONE"
    /\ summary = [r \in Requests |-> "PENDING"]
    /\ explanation = [r \in Requests |-> "PENDING"]
    /\ built = {}
    /\ doc = [r \in Requests |-> IF r = r1 THEN "READY" ELSE "FAILED"]
    /\ t2 = [r \in Requests |-> P!Fresh(IF r = r1 THEN "success" ELSE "failure")]
    /\ chunks = [r \in Requests |-> IF r = r1 THEN 1 ELSE 0]

OneOfTwoFailed ==
    /\ bm25 = "FAILED" /\ version = 1
    /\ raced = {} /\ shared = {1} /\ gaveUp = {}
    /\ tmp = [n \in Names |-> NoFile]
    /\ pickle = [n \in Names |->
                    IF n[2] = 1 THEN [st |-> "whole", docs |-> {r1}, by |-> {}]
                                ELSE NoFile]
    /\ poll = [p \in Pollers |-> NoPoll]
    /\ mi = [m \in MultiTasks |-> NoTask]
    /\ bm = [c \in Bm25Tasks |-> NoTask]
    /\ summary = [r \in Requests |-> IF r = r1 THEN "READY" ELSE "PENDING"]
    /\ explanation = [r \in Requests |-> IF r = r1 THEN "READY" ELSE "PENDING"]
    /\ built = {r1} \X {"s", "e"}
    /\ doc = [r \in Requests |-> IF r = r1 THEN "READY" ELSE "CHUNKED"]
    /\ t2 = [r \in Requests |-> P!Fresh(IF r = r1 THEN "success" ELSE "stored")]
    /\ chunks = [r \in Requests |-> 1]

LateInit ==
    /\ answer = [r \in Requests |-> "accepted"]
    /\ content = [r \in Requests |-> IF r = r1 THEN a ELSE b]
    /\ files = Requests
    /\ t1 = [r \in Requests |-> P!Fresh("success")]
    /\ sent = [r \in Requests |-> 1]
    /\ seen = [r \in Requests |-> "NONE"]
    /\ NobodyPolled \/ OneOfTwoFailed

\* The second upload's client does not poll: any poll serves the BM25 index.
OnlyFirstPolled == \A p \in Pollers : poll'[p].st = "bm25" => poll'[p].r = r1

LateSpec == LateInit /\ [][HNext /\ OnlyFirstPolled]_<<vars, hist>>

\* Pollers and BM25 task slots are interchangeable.
SymLate == Permutations(TwoPollers) \cup Permutations(TwoBm25Tasks)
=============================================================================
