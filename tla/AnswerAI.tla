------------------------------ MODULE AnswerAI ------------------------------
(***************************************************************************)
(* Answer_ai (Ai/Talk2Doc.py) with what it calls: the query classifier     *)
(* beside the construction of the retriever, a retrieval strategy that     *)
(* falls back to plain retrieval, the reranker, the model, the repair of   *)
(* its output, the ai_responses row written by a background task and the   *)
(* push of a reusable answer to the cache worker.                          *)
(*                                                                         *)
(* A call runs for the /question route or as a tool of a conversation      *)
(* (module ConvoAI).  Its steps end where the code awaits; only the        *)
(* background tasks of calls, not their reads, meet each other.            *)
(***************************************************************************)
EXTENDS ModelOutput, FiniteSets

CONSTANTS
    Calls,     \* bound: calls of Answer_ai, of the route and of the tool
    Selected,  \* bound: techniques the classifier selects
    Convos,    \* bound: conversations
    NoConvo    \* the convo_id None of the /question route

VARIABLES
    call,      \* [Calls -> progress of the call]
    rows,      \* ai_responses, numbered in the order of their commits
    pending    \* [Calls -> persist_response_background tasks not yet run]

answerVars == <<call, rows, pending>>

Techniques == {"HYDE", "MULTI_QUERY", "ADVANCED_TRANSLATION", "STEP_BACK",
               "MULTI_INDEXING", "QUERY_DECOMPOSITION", "NONE"}
Outcomes == {"success", "failed", "raised"}

ASSUME AnswerAssumption == NoConvo \notin Convos /\ Selected \subseteq Techniques

\* st     where the call is
\* tool   from_tool
\* convo  convo_id
\* hot    cache_policy is "cacheable"
\* ret    the retriever of the call
\* cls    what became of the classification
\* tech   selected_technique
\* n      attempt of the repair in progress, fresh: its text is a new one
\* saves  persist tasks created, pushes: cache tasks published
\* good   the repair returned a validated output
\* out    how the call ended
Idle == [st |-> "idle", tool |-> FALSE, convo |-> NoConvo, hot |-> FALSE,
         ret |-> "none", cls |-> "none", tech |-> "NONE", n |-> 1, fresh |-> TRUE,
         saves |-> 0, pushes |-> 0, good |-> FALSE, out |-> "none"]

CallPlaces == {"idle", "gather", "strategy", "multi", "expand", "reexpand", "search",
               "fallback", "rerank", "generate", "repair", "done"}
CallState ==
    [st: CallPlaces,
     tool: BOOLEAN, convo: Convos \cup {NoConvo}, hot: BOOLEAN,
     ret: {"none", "building", "vector", "hybrid"},
     cls: {"none", "asking", "repair", "ok", "failed"},
     tech: Techniques, n: 1..MaxAttempts, fresh: BOOLEAN,
     saves: 0..1, pushes: 0..1, good: BOOLEAN, out: Outcomes \cup {"none"}]

\* The call of a: its step, and the fields that change with it.
Step(a, c) == call' = [call EXCEPT ![a] = c]
Goto(a, st) == Step(a, [call[a] EXCEPT !.st = st])
\* The end of a call in state c: what only its steps needed is forgotten.
Ended(c, out) == [c EXCEPT !.st = "done", !.out = out, !.ret = "none", !.cls = "none",
                           !.tech = "NONE", !.n = 1, !.fresh = TRUE]
Ends(a, out) == Step(a, Ended(call[a], out))

-----------------------------------------------------------------------------
\* Before its first await.  An empty question fails at once.
Started(tool, convo, hot) ==
    [Idle EXCEPT !.st = "gather", !.tool = tool, !.convo = convo, !.hot = hot,
                 !.ret = "building", !.cls = "asking"]

\* The /question route after a miss of the cache.
Question(a, hot) ==
    /\ call[a] = Idle
    /\ \/ Step(a, Started(FALSE, NoConvo, hot))
       \/ Step(a, Ended([Idle EXCEPT !.hot = hot], "failed"))
    /\ UNCHANGED <<rows, pending>>

\* build_get_retriever: hybrid, or of vectors alone without a BM25 retriever;
\* the tool builds the latter itself.  The lookup may raise.
BuildRetriever(a) ==
    /\ call[a].st = "gather"
    /\ call[a].ret = "building"
    /\ \/ \E r \in IF call[a].tool THEN {"vector"} ELSE {"vector", "hybrid", "none"} :
            Step(a, [call[a] EXCEPT !.ret = r])
       \/ Ends(a, "raised")
    /\ UNCHANGED <<rows, pending>>

Classified(a, t) == Step(a, [call[a] EXCEPT !.cls = "ok", !.tech = t,
                                            !.n = 1, !.fresh = TRUE])
NotClassified(a) == Step(a, [call[a] EXCEPT !.cls = "failed",
                                            !.n = 1, !.fresh = TRUE])

\* query_classifier: refused by the deterministic check, or by the verdict of a
\* parsed reply; a verdict "unknown" is refused too, or taken for a document
\* question without technique.
Classify(a) ==
    /\ call[a].st = "gather"
    /\ call[a].cls = "asking"
    /\ \/ NotClassified(a)
       \/ \E reply \in Replies : \E to \in QueryClassifier[reply] :
            \/ to = "use" /\ (NotClassified(a) \/ \E t \in Selected : Classified(a, t))
            \/ to = "repair" /\ Step(a, [call[a] EXCEPT !.cls = "repair"])
            \/ to = "fail" /\ NotClassified(a)
            \/ to = "raise" /\ Ends(a, "raised")
    /\ UNCHANGED <<rows, pending>>

\* A repaired classification is used as it is, whatever its verdict.
RepairClass(a) ==
    /\ call[a].st = "gather"
    /\ call[a].cls = "repair"
    /\ \E o \in SafeParse(call[a].n, call[a].fresh) :
        \/ o.to = "recovered" /\ \E t \in Selected : Classified(a, t)
        \/ o.to = "lost" /\ NotClassified(a)
        \/ o.to = "again" /\ Step(a, [call[a] EXCEPT !.n = o.n, !.fresh = o.fresh])
    /\ UNCHANGED <<rows, pending>>

\* asyncio.gather has both.
Join(a) ==
    /\ call[a].st = "gather"
    /\ call[a].ret # "building"
    /\ \/ call[a].cls = "failed" /\ Ends(a, "failed")
       \/ /\ call[a].cls = "ok"
          /\ call[a].ret = "none"
          /\ Ends(a, IF call[a].tool THEN "failed" ELSE "raised")
       \/ /\ call[a].cls = "ok"
          /\ call[a].ret # "none"
          /\ Goto(a, IF call[a].tech = "NONE" THEN "fallback" ELSE "strategy")
    /\ UNCHANGED <<rows, pending>>

-----------------------------------------------------------------------------
(* execute_retrieval_strategy.  A failure it returns sends Answer_ai to     *)
(* plain retrieval; what it raises ends the call.  Most failures meant to  *)
(* be returned raise: their error codes are not members of the enums.      *)

\* MULTI_INDEXING with the retriever of vectors falls out of every branch, and
\* the failure at the end raises.  With the hybrid one it needs the READY
\* documents it was asked for, then their two indexes; without these it is
\* exchanged for MULTI_QUERY.
Strategy(a) ==
    /\ call[a].st = "strategy"
    /\ \/ call[a].tech # "MULTI_INDEXING" /\ Goto(a, "expand")
       \/ call[a].tech = "MULTI_INDEXING" /\ Ends(a, "raised")
       \/ /\ call[a].tech = "MULTI_INDEXING"
          /\ call[a].ret = "hybrid"
          /\ \/ Goto(a, "fallback")
             \/ Step(a, [call[a] EXCEPT !.st = "expand", !.tech = "MULTI_QUERY"])
             \/ Goto(a, "multi")
    /\ UNCHANGED <<rows, pending>>

\* multi_indexing_function searches the three indexes and fuses the ranks.  Each
\* of its failures raises, so MULTI_QUERY does not follow them.
MultiIndex(a) ==
    /\ call[a].st = "multi"
    /\ Goto(a, "rerank") \/ Ends(a, "raised")
    /\ UNCHANGED <<rows, pending>>

Expansion ==
    [t \in Techniques |->
        CASE t = "HYDE" -> HyDE
          [] t = "STEP_BACK" -> StepBack
          [] t = "ADVANCED_TRANSLATION" -> Translation
          [] t = "QUERY_DECOMPOSITION" -> Decomposition
          [] OTHER -> MultiQuery]

\* The model writes the queries.
Expand(a) ==
    /\ call[a].st = "expand"
    /\ \E reply \in Replies : \E to \in Expansion[call[a].tech][reply] :
        \/ to = "use" /\ Goto(a, "search")
        \/ to = "repair" /\ Goto(a, "reexpand")
        \/ to = "fail" /\ Goto(a, "fallback")
        \/ to = "raise" /\ Ends(a, "raised")
    /\ UNCHANGED <<rows, pending>>

RepairExpansion(a) ==
    /\ call[a].st = "reexpand"
    /\ \E o \in SafeParse(call[a].n, call[a].fresh) :
        \/ o.to = "recovered" /\ Step(a, [call[a] EXCEPT !.st = "search",
                                                    !.n = 1, !.fresh = TRUE])
        \/ o.to = "lost" /\ Step(a, [call[a] EXCEPT !.st = "fallback",
                                                    !.n = 1, !.fresh = TRUE])
        \/ o.to = "again" /\ Step(a, [call[a] EXCEPT !.n = o.n, !.fresh = o.fresh])
    /\ UNCHANGED <<rows, pending>>

\* One search for each query.  An error of one, or no document, is a failure
\* that only use_HYDE returns; the others raise on the way to returning it.
Search(a) ==
    /\ call[a].st = "search"
    /\ \/ Goto(a, "rerank")
       \/ call[a].tech = "HYDE" /\ Goto(a, "fallback")
       \/ call[a].tech # "HYDE" /\ Ends(a, "raised")
    /\ UNCHANGED <<rows, pending>>

\* safe_retrieve with the question itself; here an error is not caught.
Fallback(a) ==
    /\ call[a].st = "fallback"
    /\ \/ Goto(a, "rerank")
       \/ Ends(a, IF call[a].tool THEN "failed" ELSE "raised")
       \/ Ends(a, "raised")
    /\ UNCHANGED <<rows, pending>>

\* cohere_rerank: its failures leave the first five documents, but it raises on
\* an error of the provider.
Rerank(a) ==
    /\ call[a].st = "rerank"
    /\ Goto(a, "generate") \/ Ends(a, "raised")
    /\ UNCHANGED <<rows, pending>>

-----------------------------------------------------------------------------
\* A validated answer: the task that stores it is created, and a reusable one
\* is published to the cache worker; what the broker raises is swallowed.
\* Neither awaits anything that yields.
Saved(a, pushed) == [call[a] EXCEPT !.saves = 1, !.pushes = pushed]

\* Mutant: an answer given as a tool is cached too.
ReusableAnyCaller(a) == call[a].hot

Reusable(a) == call[a].hot /\ ~call[a].tool

Generate(a) ==
    /\ call[a].st = "generate"
    /\ \E reply \in Replies : \E to \in AnswerReply[reply] :
        \/ /\ to = "use"
           /\ \E p \in IF Reusable(a) THEN {0, 1} ELSE {0} :
                Step(a, Ended(Saved(a, p), "success"))
           /\ pending' = [pending EXCEPT ![a] = 1]
        \/ to = "repair" /\ Goto(a, "repair") /\ UNCHANGED pending
        \/ to = "fail" /\ Ends(a, "failed") /\ UNCHANGED pending
    /\ UNCHANGED rows

\* A repaired answer is validated, and then the function that would store it is
\* not bound: its definition stands after the parse that failed.
RepairAnswer(a) ==
    /\ call[a].st = "repair"
    /\ \E o \in SafeParse(call[a].n, call[a].fresh) :
        \/ o.to = "recovered" /\ Step(a, Ended([call[a] EXCEPT !.good = TRUE], "raised"))
        \/ o.to = "lost" /\ Ends(a, "failed")
        \/ o.to = "again" /\ Step(a, [call[a] EXCEPT !.n = o.n, !.fresh = o.fresh])
    /\ UNCHANGED <<rows, pending>>

Row(by, source, convo) ==
    [n |-> Cardinality(rows) + 1, by |-> by, source |-> source, convo |-> convo]

\* The background task commits the row, or swallows the error.
Persist(a) ==
    /\ pending[a] > 0
    /\ pending' = [pending EXCEPT ![a] = @ - 1]
    /\ \/ rows' = rows \cup {Row(a, "answer_ai", call[a].convo)}
       \/ UNCHANGED rows
    /\ UNCHANGED call

-----------------------------------------------------------------------------
\* Every step a call takes once it has begun.
CallStep(a) ==
    \/ BuildRetriever(a) \/ Classify(a) \/ RepairClass(a) \/ Join(a)
    \/ Strategy(a) \/ MultiIndex(a) \/ Expand(a) \/ RepairExpansion(a)
    \/ Search(a) \/ Fallback(a) \/ Rerank(a) \/ Generate(a) \/ RepairAnswer(a)

AnswerInit ==
    /\ call = [a \in Calls |-> Idle]
    /\ rows = {}
    /\ pending = [a \in Calls |-> 0]

-----------------------------------------------------------------------------
\* A call answers with what it has handed to the store, and a call that fails or
\* raises stores and publishes nothing, whichever of its two parses and of its
\* repair attempts decided (Talk2Doc.py, Answer_ai).  What a tool answers, and
\* what the cache policy excludes, stays out of the cache.
AnswerKept ==
    \A a \in Calls :
        /\ call[a].saves = IF call[a].out = "success" THEN 1 ELSE 0
        /\ call[a].pushes > 0 => /\ call[a].out = "success"
                                 /\ call[a].hot
                                 /\ ~call[a].tool

\* README.md: structured output that fails to validate is recovered, validated
\* again and then used, for answer generation among others.
RecoveredIsUsed == \A a \in Calls : call[a].good => call[a].out = "success"
=============================================================================
