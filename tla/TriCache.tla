------------------------------ MODULE TriCache ------------------------------
(***************************************************************************)
(* The three-tier answer cache of one user: the routes /question and       *)
(* /convo, the lookup through the exact Redis tier (T1), the Redis vector  *)
(* tier (T2) and the Chroma tier (T3), and the background writes that fill *)
(* them.  Each database read, Redis call and model call of a request is an *)
(* await: other requests, the background writes and the ingestion of new   *)
(* documents run in between.                                               *)
(*                                                                         *)
(* No code changes Document.version or deletes a document, so a            *)
(* source_versions map is the set of its document ids.  A scope is the     *)
(* list doc_name of a question; the empty list means the whole corpus.     *)
(***************************************************************************)
EXTENDS Naturals, FiniteSets

CONSTANTS
    Docs,         \* the user's documents, by file name
    Questions,    \* normalised question texts
    Near,         \* <<asked, stored>>: within T2's distance of 0.20
    Relevant,     \* <<asked, stored>>: T3's reranker may score it 0.85 or more
    Scopes,       \* doc_name lists clients send
    Convos,       \* conversation ids handed out by /convo-id
    NoConvo,      \* convo_id is None
    NoAnswer,     \* a key that is not in a Redis tier
    Clients,      \* bound: requests in progress at the same time
    MaxAnswers    \* bound: answers generated by a model

ASSUME CacheAssumption ==
    /\ Scopes \subseteq SUBSET Docs
    /\ \A q \in Questions : <<q, q>> \in Near
    /\ NoConvo \notin Convos
    /\ MaxAnswers \in Nat

VARIABLES
    rows,        \* documents with a row, whatever their status
    searchable,  \* documents whose chunks retrieval can find
    latest,      \* convo_id of the newest ConversationData row, or NoConvo
    t1,          \* exact key -> answer
    t2,          \* redis_key -> the hash stored there
    t3,          \* documents of the Chroma collection question_cache
    bg,          \* asyncio tasks and Celery messages that will write a tier
    req,         \* [Clients -> the request in progress]
    made         \* answers generated so far

vars == <<rows, searchable, latest, t1, t2, t3, bg, req, made>>

Kinds == {"answer_ai", "continue_convo"}
ConvoIds == Convos \cup {NoConvo}

\* What a model answered: to what, for whom, and the documents it could see
\* (not tracked for a conversation, whose entries carry no provenance).
Answers == [kind: Kinds, q: Questions, scope: Scopes \cup {{}}, convo: ConvoIds,
            basis: SUBSET Docs]
Keys1 == [q: Questions, scope: Scopes \cup {{}}, convo: ConvoIds]
Keys2 == [q: Questions, scope: Scopes \cup {{}}]
Hashes == [ans: Answers, ai_type: Kinds, convo: ConvoIds, versions: SUBSET Docs]
Entries3 == [q: Questions, ans: Answers, versions: SUBSET Docs]
Asked == [kind: Kinds, q: Questions, scope: Scopes \cup {{}}, convo: ConvoIds]

NoRequest == [st |-> "none"]     \* answered, failed or not made
Jobs ==
    [tier: {"T1"}, key: Keys1, ans: Answers]
    \cup [tier: {"T2"}, key: Keys2, ans: Answers, versions: SUBSET Docs]
    \cup [tier: {"T3"}, ans: Answers]
Requests ==
    {NoRequest}
    \cup [st: {"policy", "T3", "generate"}, ask: Asked, cacheable: BOOLEAN]
    \cup [st: {"T2"}, ask: Asked, cacheable: BOOLEAN, versions: SUBSET Docs]
    \cup [st: {"tag"}, ask: Asked, ans: Answers]

TypeOK ==
    /\ rows \subseteq Docs
    /\ searchable \subseteq Docs
    /\ latest \in ConvoIds
    /\ t1 \in [Keys1 -> Answers \cup {NoAnswer}]
    /\ t2 \in [Keys2 -> Hashes \cup {NoAnswer}]
    /\ t3 \subseteq Entries3
    /\ bg \subseteq Jobs
    /\ req \in [Clients -> Requests]
    /\ made \in 0..MaxAnswers

Init ==
    /\ rows = {}
    /\ searchable = {}
    /\ latest = NoConvo
    /\ t1 = [k \in Keys1 |-> NoAnswer]
    /\ t2 = [k \in Keys2 |-> NoAnswer]
    /\ t3 = {}
    /\ bg = {}
    /\ req = [c \in Clients |-> NoRequest]
    /\ made = 0

-----------------------------------------------------------------------------
\* Mutant: an empty list of names selects no document.
SourceVersionsNamed(scope) == rows \cap scope

\* get_corpus_source_versions_by_id: every row counts, READY or not.
InScope(scope) == IF scope = {} THEN Docs ELSE scope
SourceVersions(scope) == rows \cap InScope(scope)

\* What the retrievers of Answer_ai find: both filter on the file names.
Visible(scope) == searchable \cap InScope(scope)

\* The scope of T2: /convo passes None for doc_names and doc_name.
T2Scope(ask) == IF ask.kind = "continue_convo" THEN {} ELSE ask.scope

Key1(ask) == [q |-> ask.q, scope |-> ask.scope, convo |-> ask.convo]
Key2(ask) == [q |-> ask.q, scope |-> T2Scope(ask)]

WriteT1(ask, ans) == [tier |-> "T1", key |-> Key1(ask), ans |-> ans]
WriteT2(ask, ans, versions) ==
    [tier |-> "T2", key |-> Key2(ask), ans |-> ans, versions |-> versions]

Goto(c, state) == req' = [req EXCEPT ![c] = state]
Ends(c) == Goto(c, NoRequest)

-----------------------------------------------------------------------------
(* A request up to its first await with an effect: the T1 lookup.  Only an *)
(* ask without a convo_id goes on to the other tiers.                      *)

\* The answers T1 gives to an ask: one or none.
T1Serves(ask) == {t1[Key1(ask)]} \ {NoAnswer}

LookT1(c, ask) ==
    IF T1Serves(ask) # {}
        THEN Ends(c)
        ELSE Goto(c, [st |-> IF ask.convo = NoConvo THEN "policy" ELSE "generate",
                      ask |-> ask, cacheable |-> FALSE])

AskQuestion(c, q, scope) ==
    /\ req[c] = NoRequest
    /\ rows # {}
    /\ LookT1(c, [kind |-> "answer_ai", q |-> q, scope |-> scope,
                  convo |-> NoConvo])
    /\ UNCHANGED <<rows, searchable, latest, t1, t2, t3, bg, made>>

\* A convo_id starts a conversation; without one the newest goes on.
AskConvo(c, q, scope, convo) ==
    /\ req[c] = NoRequest
    /\ rows # {}
    /\ latest' = IF convo # NoConvo THEN convo ELSE latest
    /\ LookT1(c, [kind |-> "continue_convo", q |-> q, scope |-> scope,
                  convo |-> latest'])
    /\ UNCHANGED <<rows, searchable, t1, t2, t3, bg, made>>

\* get_cache_classification, then the versions of the asked scope.
Classify(c) ==
    /\ req[c].st = "policy"
    /\ \/ Goto(c, [req[c] EXCEPT !.st = "generate"])
       \/ Goto(c, [st |-> "T2", ask |-> req[c].ask, cacheable |-> TRUE,
                   versions |-> SourceVersions(T2Scope(req[c].ask))])
    /\ UNCHANGED <<rows, searchable, latest, t1, t2, t3, bg, made>>

\* Mutant: the query leaves convo_id out.
MatchesAnyConvo(k, ask) ==
    /\ t2[k] # NoAnswer
    /\ k.scope = T2Scope(ask)
    /\ t2[k].ai_type = ask.kind

\* The query filters on scope and ai_type, and for a conversation on convo_id.
Matches(k, ask) ==
    /\ t2[k] # NoAnswer
    /\ k.scope = T2Scope(ask)
    /\ t2[k].ai_type = ask.kind
    /\ ask.kind = "continue_convo" => t2[k].convo = ask.convo

\* The one nearest neighbour: the question itself when it is there.
Nearest(ask) ==
    LET found == {k \in Keys2 : Matches(k, ask)}
        same  == {k \in found : k.q = ask.q}
    IN IF same # {} THEN same ELSE found

\* Mutant: the stored provenance is not compared.
T2AcceptsUnchecked(k, r) == <<r.ask.q, k.q>> \in Near

T2Accepts(k, r) ==
    /\ <<r.ask.q, k.q>> \in Near
    /\ r.ask.kind = "answer_ai" => r.versions # {} /\ t2[k].versions = r.versions

T2Serves(r) == {t2[k].ans : k \in {n \in Nearest(r.ask) : T2Accepts(n, r)}}

\* The hit goes up to T1 under the question asked, and not back into T2.
HitT2(c) ==
    /\ req[c].st = "T2"
    /\ \E ans \in T2Serves(req[c]) : bg' = bg \cup {WriteT1(req[c].ask, ans)}
    /\ Ends(c)
    /\ UNCHANGED <<rows, searchable, latest, t1, t2, t3, made>>

\* No acceptable neighbour, no index yet, or any error of the search.
MissT2(c) ==
    /\ req[c].st = "T2"
    /\ Goto(c, [st |-> "T3", ask |-> req[c].ask, cacheable |-> TRUE])
    /\ UNCHANGED <<rows, searchable, latest, t1, t2, t3, bg, made>>

\* The search filters on ai_type alone; an entry is valid when each document
\* it names is still there.  The winner goes up to T1 and T2 under the key and
\* scope of the request.
T3Hits(ask) ==
    {e \in t3 : /\ ask.kind = "answer_ai"
                /\ <<ask.q, e.q>> \in Relevant
                /\ e.versions \subseteq rows}

HitT3(c) ==
    /\ req[c].st = "T3"
    /\ \E e \in T3Hits(req[c].ask) :
        bg' = bg \cup {WriteT1(req[c].ask, e.ans),
                       WriteT2(req[c].ask, e.ans, e.versions)}
    /\ Ends(c)
    /\ UNCHANGED <<rows, searchable, latest, t1, t2, t3, made>>

\* No collection, no valid candidate, a low score, the 10% deliberate miss.
MissT3(c) ==
    /\ req[c].st = "T3"
    /\ Goto(c, [st |-> "generate", ask |-> req[c].ask, cacheable |-> TRUE])
    /\ UNCHANGED <<rows, searchable, latest, t1, t2, t3, bg, made>>

-----------------------------------------------------------------------------
\* Answer_ai: without a retrieved chunk it raises; a cacheable answer is sent
\* to the T3 worker.
Generate(c) ==
    /\ req[c].st = "generate"
    /\ req[c].ask.kind = "answer_ai"
    /\ made < MaxAnswers
    /\ made' = made + 1
    /\ LET ask == req[c].ask
           ans == [kind |-> "answer_ai", q |-> ask.q, scope |-> ask.scope,
                   convo |-> ask.convo, basis |-> Visible(ask.scope)]
       IN /\ ans.basis # {}
          /\ Goto(c, [st |-> "tag", ask |-> ask, ans |-> ans])
          /\ bg' = IF req[c].cacheable
                     THEN bg \cup {[tier |-> "T3", ans |-> ans]} ELSE bg
    /\ UNCHANGED <<rows, searchable, latest, t1, t2, t3>>

\* The versions are read once the answer is there; then T1 and T2 are written
\* in the background, whatever the cache policy.
Tag(c) ==
    /\ req[c].st = "tag"
    /\ LET ask == req[c].ask
       IN bg' = bg \cup {WriteT1(ask, req[c].ans),
                         WriteT2(ask, req[c].ans, SourceVersions(ask.scope))}
    /\ Ends(c)
    /\ UNCHANGED <<rows, searchable, latest, t1, t2, t3, made>>

\* continue_convo, with its tools; T1 and T2 are written without versions.
\* What it may send to T3 is never found: there is no convo_id to look for.
Converse(c) ==
    /\ req[c].st = "generate"
    /\ req[c].ask.kind = "continue_convo"
    /\ made < MaxAnswers
    /\ made' = made + 1
    /\ LET ask == req[c].ask
           ans == [kind |-> "continue_convo", q |-> ask.q, scope |-> ask.scope,
                   convo |-> ask.convo, basis |-> {}]
       IN bg' = bg \cup {WriteT1(ask, ans), WriteT2(ask, ans, {})}
    /\ Ends(c)
    /\ UNCHANGED <<rows, searchable, latest, t1, t2, t3>>

\* The database, Redis (T1) or the model raises.
Fail(c) ==
    /\ req[c] # NoRequest
    /\ Ends(c)
    /\ UNCHANGED <<rows, searchable, latest, t1, t2, t3, bg, made>>

-----------------------------------------------------------------------------
(* The background writes.                                                  *)

RunT1(j) ==
    /\ j.tier = "T1"
    /\ t1' = [t1 EXCEPT ![j.key] = j.ans]
    /\ bg' = bg \ {j}
    /\ UNCHANGED <<rows, searchable, latest, t2, t3, req, made>>

\* Mutant: the hash keeps the convo_id it has.
MergeKeepsConvo(h, j) ==
    [ans |-> j.ans, ai_type |-> j.ans.kind,
     convo |-> IF h # NoAnswer THEN h.convo ELSE j.ans.convo,
     versions |-> j.versions]

\* HSET overwrites the fields it is given and keeps the others: convo_id is
\* given for a conversation only, source_versions for an answer only.
Merge(h, j) ==
    LET keep == h # NoAnswer IN
    [ans |-> j.ans, ai_type |-> j.ans.kind,
     convo |-> IF j.ans.kind = "continue_convo" THEN j.ans.convo
               ELSE IF keep THEN h.convo ELSE NoConvo,
     versions |-> IF j.ans.kind = "answer_ai" THEN j.versions
                  ELSE IF keep THEN h.versions ELSE {}]

RunT2(j) ==
    /\ j.tier = "T2"
    /\ t2' = [t2 EXCEPT ![j.key] = Merge(@, j)]
    /\ bg' = bg \ {j}
    /\ UNCHANGED <<rows, searchable, latest, t1, t3, req, made>>

\* push_responce_in_cache_worker reads the versions when it runs; the task is
\* retried when it fails, also after it has added the document.
RunT3(j) ==
    /\ j.tier = "T3"
    /\ t3' = t3 \cup {[q |-> j.ans.q, ans |-> j.ans,
                       versions |-> SourceVersions(j.ans.scope)]}
    /\ bg' = bg \ {j} \/ UNCHANGED bg
    /\ UNCHANGED <<rows, searchable, latest, t1, t2, req, made>>

\* A write raises for good, or its process dies.
LoseJob(j) ==
    /\ bg' = bg \ {j}
    /\ UNCHANGED <<rows, searchable, latest, t1, t2, t3, req, made>>

\* After 24 hours.
Expire ==
    /\ \/ \E k \in Keys1 : /\ t1[k] # NoAnswer
                           /\ t1' = [t1 EXCEPT ![k] = NoAnswer]
                           /\ UNCHANGED t2
       \/ \E k \in Keys2 : /\ t2[k] # NoAnswer
                           /\ t2' = [t2 EXCEPT ![k] = NoAnswer]
                           /\ UNCHANGED t1
    /\ UNCHANGED <<rows, searchable, latest, t3, bg, req, made>>

-----------------------------------------------------------------------------
(* The ingestion of documents, as module Corpus promises it and module     *)
(* DocPipeline does it.                                                    *)

C == INSTANCE Corpus

NewRow(d) == C!NewRow(d) /\ UNCHANGED <<latest, t1, t2, t3, bg, req, made>>
NewChunks(d) == C!NewChunks(d) /\ UNCHANGED <<latest, t1, t2, t3, bg, req, made>>

RequestStep(c) ==
    \/ Classify(c) \/ HitT2(c) \/ MissT2(c) \/ HitT3(c) \/ MissT3(c)
    \/ Generate(c) \/ Tag(c) \/ Converse(c) \/ Fail(c)

Next ==
    \/ \E c \in Clients, q \in Questions, scope \in Scopes :
        \/ AskQuestion(c, q, scope)
        \/ \E convo \in ConvoIds : AskConvo(c, q, scope, convo)
    \/ \E c \in Clients : RequestStep(c)
    \/ \E j \in bg : RunT1(j) \/ RunT2(j) \/ RunT3(j) \/ LoseJob(j)
    \/ Expire
    \/ \E d \in Docs : NewRow(d) \/ NewChunks(d)

Spec == Init /\ [][Next]_vars

-----------------------------------------------------------------------------
(* Safety                                                                  *)

\* What was said in a conversation is only ever repeated in that conversation,
\* from whatever tier, although both routes share the Redis keys.
ConvoStaysPrivate ==
    /\ \A ask \in Asked : \A ans \in T1Serves(ask) :
        ans.convo # NoConvo => ask.convo = ans.convo
    /\ \A c \in Clients : req[c].st = "T2" =>
        \A ans \in T2Serves(req[c]) :
            ans.convo # NoConvo => req[c].ask.convo = ans.convo

\* The answer T2 would give to a scoped question was made from the documents
\* of that scope only, although entries come from T3 too, which has no scope.
T2StaysInScope ==
    \A c \in Clients : req[c].st = "T2" /\ req[c].ask.kind = "answer_ai" =>
        \A ans \in T2Serves(req[c]) : ans.basis \subseteq InScope(req[c].ask.scope)

\* The provenance stored with an answer names every document it used, so that
\* a check of it can notice when one of them is gone.
Covers(ans, versions) == ans.kind = "answer_ai" => ans.basis \subseteq versions
ProvenanceCovers ==
    /\ \A k \in Keys2 : t2[k] # NoAnswer => Covers(t2[k].ans, t2[k].versions)
    /\ \A e \in t3 : Covers(e.ans, e.versions)

\* What passed the gates on the way from the question an answer was made for
\* to the one it is given to.
OneGate(asked, ans) == asked = ans.q \/ <<asked, ans.q>> \in Relevant
TwoGates(asked, ans) ==
    \E q \in Questions : <<asked, q>> \in Near /\ OneGate(q, ans)

\* Reuse does not drift: however often answers are reused and written back
\* under new questions, what is served is one T3 gate and one T2 gate away
\* from its own question at most.
TwoGatesAtMost ==
    /\ \A ask \in Asked : \A ans \in T1Serves(ask) : TwoGates(ask.q, ans)
    /\ \A c \in Clients : req[c].st = "T2" =>
        \A ans \in T2Serves(req[c]) : TwoGates(req[c].ask.q, ans)
    /\ \A ask \in Asked : \A e \in T3Hits(ask) : OneGate(ask.q, e.ans)

-----------------------------------------------------------------------------
(* Why they hold: what is true of answers, jobs and entries wherever they  *)
(* are.  The conjunction is inductive (module TriCacheProofs).             *)

\* An answer repeats nothing of a conversation other than convo.
Repeatable(ans, convo) == ans.convo # NoConvo => ans.convo = convo

\* A one-shot answer, and the documents it may have been made from.
OneShot(ans, docs) == /\ ans.kind = "answer_ai"
                      /\ ans.convo = NoConvo
                      /\ ans.basis \subseteq docs

RequestFits(r) ==
    /\ r # NoRequest /\ r.ask.kind = "answer_ai" => r.ask.convo = NoConvo
    /\ r.st = "T2" => r.versions \subseteq InScope(T2Scope(r.ask))
    /\ r.st = "tag" => /\ OneShot(r.ans, SourceVersions(r.ask.scope))
                       /\ r.ans.q = r.ask.q

\* An entry of T2, or the write of one: a one-shot answer with a provenance
\* that covers it, or what was said in the conversation named.
EntryFits(ans, convo, versions) ==
    \/ OneShot(ans, versions)
    \/ ans.kind = "continue_convo" /\ ans.convo = convo

JobFits(j) ==
    /\ j.tier = "T1" => /\ Repeatable(j.ans, j.key.convo)
                        /\ TwoGates(j.key.q, j.ans)
    /\ j.tier = "T2" => /\ EntryFits(j.ans, j.ans.convo, j.versions)
                        /\ OneGate(j.key.q, j.ans)
    /\ j.tier = "T3" => OneShot(j.ans, SourceVersions(j.ans.scope))

\* The inductive invariant: what every request, background write and entry of
\* a tier keeps to while both routes share the keys of T1 and T2.
CacheInv ==
    /\ searchable \subseteq rows
    /\ \A c \in Clients : RequestFits(req[c])
    /\ \A j \in bg : JobFits(j)
    /\ \A k \in Keys1 : t1[k] # NoAnswer =>
        /\ Repeatable(t1[k], k.convo)
        /\ TwoGates(k.q, t1[k])
    /\ \A k \in Keys2 : t2[k] # NoAnswer =>
        /\ t2[k].ai_type = t2[k].ans.kind
        /\ EntryFits(t2[k].ans, t2[k].convo, t2[k].versions)
        /\ OneGate(k.q, t2[k].ans)
    /\ \A e \in t3 : OneShot(e.ans, e.versions) /\ e.q = e.ans.q

(* Claims of the repository the code does not keep                         *)

\* README.md:835: checking the source versions prevents an answer from being
\* reused after its source has changed.  So what T2 reuses saw the corpus as
\* it is now.
T2HitIsCurrent ==
    \A c \in Clients : req[c].st = "T2" /\ req[c].ask.kind = "answer_ai" =>
        \A ans \in T2Serves(req[c]) :
            Visible(req[c].ask.scope) \subseteq ans.basis

\* question_route.py:268: at this point convo_id is guaranteed to exist.
ConvoHasId ==
    \A c \in Clients : req[c] # NoRequest /\ req[c].ask.kind = "continue_convo" =>
        req[c].ask.convo # NoConvo
=============================================================================
