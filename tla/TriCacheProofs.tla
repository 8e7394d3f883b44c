--------------------------- MODULE TriCacheProofs ---------------------------
(***************************************************************************)
(* Proofs about the answer cache, for every set of documents, questions,   *)
(* scopes, conversations and clients, and whatever questions the two       *)
(* similarity gates let pass.                                              *)
(***************************************************************************)
EXTENDS TriCache, TLAPS

\* Versions and retrieved chunks are of the user's documents, and of those in
\* the scope.
LEMMA ScopeFacts ==
    ASSUME TypeOK, NEW scope
    PROVE  /\ SourceVersions(scope) \subseteq Docs
           /\ SourceVersions(scope) \subseteq rows
           /\ SourceVersions(scope) \subseteq InScope(scope)
           /\ Visible(scope) \subseteq Docs
           /\ searchable \subseteq rows => Visible(scope) \subseteq SourceVersions(scope)
  BY DEF TypeOK, SourceVersions, Visible, InScope

\* The keys of an ask and the background writes made from it have their types.
LEMMA KeyTypes ==
    ASSUME NEW ask \in Asked, NEW ans \in Answers, NEW versions \in SUBSET Docs
    PROVE  /\ Key1(ask) \in Keys1 /\ Key2(ask) \in Keys2
           /\ WriteT1(ask, ans) \in Jobs /\ WriteT2(ask, ans, versions) \in Jobs
<1>1. T2Scope(ask) \in Scopes \cup {{}}
  BY DEF T2Scope, Asked
<1>2. Key1(ask) \in Keys1
  BY DEF Key1, Keys1, Asked
<1>3. Key2(ask) \in Keys2
  BY <1>1 DEF Key2, Keys2, Asked
<1>4. QED
  BY <1>2, <1>3 DEF WriteT1, WriteT2, Jobs

\* What a request is made of, by the state it is in.
LEMMA RequestTypes ==
    ASSUME NEW r \in Requests, r # NoRequest
    PROVE  /\ r.ask \in Asked
           /\ r.st \in {"policy", "T2", "T3", "generate", "tag"}
           /\ r.st = "T2" => r.versions \in SUBSET Docs
           /\ r.st = "tag" => r.ans \in Answers
  BY DEF Requests

\* And of a background write.
LEMMA JobTypes ==
    ASSUME NEW j \in Jobs
    PROVE  /\ j.ans \in Answers
           /\ j.tier \in {"T1", "T2", "T3"}
           /\ j.tier = "T1" => j.key \in Keys1
           /\ j.tier = "T2" => j.key \in Keys2 /\ j.versions \in SUBSET Docs
  BY DEF Jobs

\* Whatever the tiers serve is an answer some model gave.
LEMMA ServedTypes ==
    ASSUME TypeOK, NEW c \in Clients
    PROVE  /\ req[c].st = "T2" => T2Serves(req[c]) \subseteq Answers
           /\ \A ask : T3Hits(ask) \subseteq Entries3
<1>1. t2 \in [Keys2 -> Hashes \cup {NoAnswer}] /\ t3 \subseteq Entries3
  BY DEF TypeOK
<1>2. \A k \in Nearest(req[c].ask) : k \in Keys2 /\ t2[k] # NoAnswer
  BY DEF Nearest, Matches
<1>3. \A k \in Nearest(req[c].ask) : t2[k].ans \in Answers
  BY <1>1, <1>2 DEF Hashes
<1>4. QED
  BY <1>1, <1>3 DEF T2Serves, T3Hits

\* HSET keeps a hash a hash.
LEMMA MergeType ==
    ASSUME NEW h \in Hashes \cup {NoAnswer}, NEW j \in Jobs, j.tier = "T2"
    PROVE  Merge(h, j) \in Hashes
<1>1. /\ j.ans \in Answers /\ j.ans.kind \in Kinds /\ j.ans.convo \in ConvoIds
      /\ j.versions \in SUBSET Docs
  BY JobTypes DEF Answers
<1>2. h # NoAnswer => h.convo \in ConvoIds /\ h.versions \in SUBSET Docs
  BY DEF Hashes
<1>3. NoConvo \in ConvoIds
  BY DEF ConvoIds
<1>4. QED
  BY <1>1, <1>2, <1>3 DEF Merge, Hashes

\* A request that moves to a state of the type leaves the others typed.
LEMMA GotoType ==
    ASSUME TypeOK, NEW c \in Clients
    PROVE  /\ \A r \in Requests : Goto(c, r) => req' \in [Clients -> Requests]
           /\ Ends(c) => req' \in [Clients -> Requests]
  BY DEF TypeOK, Goto, Ends, Requests

\* A lookup in T1 answers, or starts the request.
LEMMA LookType ==
    ASSUME TypeOK, NEW c \in Clients, NEW ask \in Asked, LookT1(c, ask)
    PROVE  req' \in [Clients -> Requests]
<1>1. \A cb \in BOOLEAN : /\ [st |-> "policy", ask |-> ask, cacheable |-> cb] \in Requests
                          /\ [st |-> "generate", ask |-> ask, cacheable |-> cb] \in Requests
  BY DEF Requests
<1>2. QED
  BY <1>1, GotoType DEF LookT1

\* A step of a request keeps every variable in its type.
LEMMA RequestStepType ==
    ASSUME TypeOK, NEW c \in Clients, RequestStep(c)
    PROVE  TypeOK'
<1>1. req[c] \in Requests
  BY DEF TypeOK
<1>2. CASE Classify(c)
  <2>1. req[c].ask \in Asked /\ req[c].cacheable \in BOOLEAN
    BY <1>1, <1>2 DEF Classify, Requests, NoRequest
  <2>2. [req[c] EXCEPT !.st = "generate"] \in Requests
    BY <1>1, <1>2 DEF Classify, Requests, NoRequest
  <2>3. [st |-> "T2", ask |-> req[c].ask, cacheable |-> TRUE,
         versions |-> SourceVersions(T2Scope(req[c].ask))] \in Requests
    BY <2>1, ScopeFacts DEF Requests
  <2>4. req' \in [Clients -> Requests]
    BY <1>2, <2>2, <2>3, GotoType DEF Classify
  <2>5. QED
    BY <1>2, <2>4 DEF Classify, TypeOK
<1>3. CASE HitT2(c)
  <2>1. req[c].ask \in Asked
    BY <1>1, <1>3, RequestTypes DEF HitT2, NoRequest
  <2>2. bg' \subseteq Jobs
    BY <1>3, <2>1, ServedTypes, KeyTypes DEF HitT2, TypeOK
  <2>3. QED
    BY <1>3, <2>2, GotoType DEF HitT2, TypeOK
<1>4. CASE MissT2(c)
  <2>1. [st |-> "T3", ask |-> req[c].ask, cacheable |-> TRUE] \in Requests
    BY <1>1, <1>4, RequestTypes DEF MissT2, NoRequest, Requests
  <2>2. QED
    BY <1>4, <2>1, GotoType DEF MissT2, TypeOK
<1>5. CASE HitT3(c)
  <2>1. req[c].ask \in Asked
    BY <1>1, <1>5, RequestTypes DEF HitT3, NoRequest
  <2>2. \A e \in T3Hits(req[c].ask) : e.ans \in Answers /\ e.versions \in SUBSET Docs
    BY ServedTypes DEF Entries3
  <2>3. bg' \subseteq Jobs
    BY <1>5, <2>1, <2>2, KeyTypes DEF HitT3, TypeOK
  <2>4. QED
    BY <1>5, <2>3, GotoType DEF HitT3, TypeOK
<1>6. CASE MissT3(c)
  <2>1. [st |-> "generate", ask |-> req[c].ask, cacheable |-> TRUE] \in Requests
    BY <1>1, <1>6, RequestTypes DEF MissT3, NoRequest, Requests
  <2>2. QED
    BY <1>6, <2>1, GotoType DEF MissT3, TypeOK
<1>7. CASE Generate(c)
  <2> DEFINE ask == req[c].ask
             ans == [kind |-> "answer_ai", q |-> ask.q, scope |-> ask.scope,
                     convo |-> ask.convo, basis |-> Visible(ask.scope)]
  <2>1. ask \in Asked
    BY <1>1, <1>7, RequestTypes DEF Generate, NoRequest
  <2>2. ans \in Answers
    BY <2>1, ScopeFacts DEF Asked, Answers, Kinds
  <2>3. [st |-> "tag", ask |-> ask, ans |-> ans] \in Requests
    BY <2>1, <2>2 DEF Requests
  <2>4. [tier |-> "T3", ans |-> ans] \in Jobs
    BY <2>2 DEF Jobs
  <2>5. bg' \subseteq Jobs
    BY <1>7, <2>4 DEF Generate, TypeOK
  <2>6. req' \in [Clients -> Requests]
    BY <1>7, <2>3, GotoType DEF Generate
  <2>7. made' \in 0..MaxAnswers
    BY <1>7, CacheAssumption DEF Generate, TypeOK
  <2>8. QED
    BY <1>7, <2>5, <2>6, <2>7 DEF Generate, TypeOK
<1>8. CASE Tag(c)
  <2>1. req[c].ask \in Asked /\ req[c].ans \in Answers
    BY <1>1, <1>8, RequestTypes DEF Tag, NoRequest
  <2>2. bg' \subseteq Jobs
    BY <1>8, <2>1, KeyTypes, ScopeFacts DEF Tag, TypeOK
  <2>3. QED
    BY <1>8, <2>2, GotoType DEF Tag, TypeOK
<1>9. CASE Converse(c)
  <2> DEFINE ask == req[c].ask
             ans == [kind |-> "continue_convo", q |-> ask.q, scope |-> ask.scope,
                     convo |-> ask.convo, basis |-> {}]
  <2>1. ask \in Asked
    BY <1>1, <1>9, RequestTypes DEF Converse, NoRequest
  <2>2. ans \in Answers
    BY <2>1 DEF Asked, Answers, Kinds
  <2>3. bg' \subseteq Jobs
    BY <1>9, <2>1, <2>2, KeyTypes DEF Converse, TypeOK
  <2>4. made' \in 0..MaxAnswers
    BY <1>9, CacheAssumption DEF Converse, TypeOK
  <2>5. QED
    BY <1>9, <2>3, <2>4, GotoType DEF Converse, TypeOK
<1>10. CASE Fail(c)
  BY <1>10, GotoType DEF Fail, TypeOK
<1>11. QED
  BY <1>2, <1>3, <1>4, <1>5, <1>6, <1>7, <1>8, <1>9, <1>10 DEF RequestStep

\* The background writes put answers and hashes under keys of the tiers.
LEMMA JobType ==
    ASSUME TypeOK, NEW j \in bg, RunT1(j) \/ RunT2(j) \/ RunT3(j) \/ LoseJob(j)
    PROVE  TypeOK'
<1>1. j \in Jobs
  BY DEF TypeOK
<1>2. CASE RunT1(j)
  BY <1>1, <1>2, JobTypes DEF RunT1, TypeOK
<1>3. CASE RunT2(j)
  <2>1. j.key \in Keys2 /\ Merge(t2[j.key], j) \in Hashes
    BY <1>1, <1>3, JobTypes, MergeType DEF RunT2, TypeOK
  <2>2. t2' \in [Keys2 -> Hashes \cup {NoAnswer}]
    BY <1>3, <2>1 DEF RunT2, TypeOK
  <2>3. QED
    BY <1>3, <2>2 DEF RunT2, TypeOK
<1>4. CASE RunT3(j)
  <2>1. [q |-> j.ans.q, ans |-> j.ans, versions |-> SourceVersions(j.ans.scope)]
            \in Entries3
    BY <1>1, JobTypes, ScopeFacts DEF Entries3, Answers
  <2>2. QED
    BY <1>4, <2>1 DEF RunT3, TypeOK
<1>5. CASE LoseJob(j)
  BY <1>5 DEF LoseJob, TypeOK
<1>6. QED
  BY <1>2, <1>3, <1>4, <1>5

\* Every step keeps every variable in its type.
THEOREM CacheTypeCorrect == Spec => []TypeOK
<1>1. Init => TypeOK
  BY CacheAssumption DEF Init, TypeOK, ConvoIds, Requests
<1>2. TypeOK /\ [Next]_vars => TypeOK'
  <2> SUFFICES ASSUME TypeOK, [Next]_vars PROVE TypeOK'
    OBVIOUS
  <2>1. ASSUME NEW c \in Clients, NEW q \in Questions, NEW scope \in Scopes,
               AskQuestion(c, q, scope)
        PROVE TypeOK'
    <3>1. [kind |-> "answer_ai", q |-> q, scope |-> scope, convo |-> NoConvo] \in Asked
      BY DEF Asked, Kinds, ConvoIds
    <3>2. QED
      BY <2>1, <3>1, LookType DEF AskQuestion, TypeOK
  <2>2. ASSUME NEW c \in Clients, NEW q \in Questions, NEW scope \in Scopes,
               NEW convo \in ConvoIds, AskConvo(c, q, scope, convo)
        PROVE TypeOK'
    <3>1. latest' \in ConvoIds
      BY <2>2 DEF AskConvo, TypeOK
    <3>2. [kind |-> "continue_convo", q |-> q, scope |-> scope, convo |-> latest']
              \in Asked
      BY <3>1 DEF Asked, Kinds
    <3>3. QED
      BY <2>2, <3>1, <3>2, LookType DEF AskConvo, TypeOK
  <2>3. CASE Expire
    BY <2>3 DEF Expire, TypeOK
  <2>4. ASSUME NEW d \in Docs, NewRow(d) \/ NewChunks(d) PROVE TypeOK'
    BY <2>4 DEF NewRow, NewChunks, C!NewRow, C!NewChunks, TypeOK
  <2>5. CASE UNCHANGED vars
    BY <2>5 DEF vars, TypeOK
  <2>6. QED
    BY <2>1, <2>2, <2>3, <2>4, <2>5, RequestStepType, JobType DEF Next
<1>3. QED
  BY <1>1, <1>2, PTL DEF Spec

-----------------------------------------------------------------------------
(* CacheInv is inductive under TypeOK.                                     *)

\* Documents are only ever added, so what was covered stays covered.
LEMMA MoreRows ==
    ASSUME NEW scope, rows \subseteq rows'
    PROVE  SourceVersions(scope) \subseteq SourceVersions(scope)'
  BY DEF SourceVersions, InScope

\* An answer to the very question asked has passed whatever gates there are,
\* and one that T3 took may be taken by T2 for the same question.
LEMMA GateFacts ==
    ASSUME NEW q \in Questions, NEW ans
    PROVE  /\ ans.q = q => OneGate(q, ans)
           /\ OneGate(q, ans) => TwoGates(q, ans)
  BY CacheAssumption DEF OneGate, TwoGates

\* A request or a job that fits goes on fitting while documents come by.
LEMMA FitsStay ==
    ASSUME rows \subseteq rows'
    PROVE  /\ \A r : RequestFits(r) => RequestFits(r)'
           /\ \A j : JobFits(j) => JobFits(j)'
  BY MoreRows DEF RequestFits, JobFits, OneShot, Repeatable, EntryFits, InScope,
                  T2Scope, OneGate, TwoGates

\* A request moves on and adds writes of its own; nothing else changes.
LEMMA Moves ==
    ASSUME TypeOK, CacheInv, NEW c \in Clients, NEW r \in Requests, RequestFits(r),
           req' = [req EXCEPT ![c] = r],
           \A j \in bg' \ bg : JobFits(j),
           UNCHANGED <<rows, searchable, t1, t2, t3>>
    PROVE  CacheInv'
<1>1. \A x \in Clients : RequestFits(req'[x])
  BY DEF CacheInv, TypeOK
<1>2. \A x \in Clients : RequestFits(req[x])'
  BY <1>1, FitsStay
<1>3. \A j \in bg' : JobFits(j)'
  BY FitsStay DEF CacheInv
<1>4. QED
  BY <1>2, <1>3 DEF CacheInv, Repeatable, EntryFits, OneShot, OneGate, TwoGates

\* A client with no request in progress fits.
LEMMA NoRequestFits == NoRequest \in Requests /\ RequestFits(NoRequest)
  BY DEF NoRequest, RequestFits, Requests

\* What T2 serves for an ask may be written to T1 under the key of that ask.
LEMMA ServedFits ==
    ASSUME TypeOK, CacheInv, NEW c \in Clients, req[c].st = "T2",
           NEW ans \in T2Serves(req[c])
    PROVE  /\ Repeatable(ans, req[c].ask.convo)
           /\ TwoGates(req[c].ask.q, ans)
           /\ req[c].ask.kind = "answer_ai" => OneShot(ans, req[c].versions)
<1>1. PICK k \in Nearest(req[c].ask) : T2Accepts(k, req[c]) /\ ans = t2[k].ans
  BY DEF T2Serves
<1>2. k \in Keys2 /\ Matches(k, req[c].ask)
  BY <1>1 DEF Nearest
<1>3. t2[k].ai_type = req[c].ask.kind /\ t2[k] # NoAnswer
  BY <1>2 DEF Matches
<1>4. ans.kind = req[c].ask.kind /\ EntryFits(ans, t2[k].convo, t2[k].versions)
  BY <1>1, <1>2, <1>3 DEF CacheInv
<1>g. TwoGates(req[c].ask.q, ans)
  <2>1. k.q \in Questions /\ OneGate(k.q, ans) /\ <<req[c].ask.q, k.q>> \in Near
    BY <1>1, <1>2, <1>3 DEF CacheInv, Keys2, T2Accepts
  <2>2. QED
    BY <2>1 DEF TwoGates
<1>5. CASE req[c].ask.kind = "answer_ai"
  BY <1>1, <1>4, <1>5, <1>g DEF EntryFits, OneShot, T2Accepts, Repeatable
<1>6. CASE req[c].ask.kind # "answer_ai"
  <2>1. ans.kind = "continue_convo" /\ ans.convo = t2[k].convo
    BY <1>4, <1>6 DEF EntryFits, OneShot
  <2>2. t2[k].convo = req[c].ask.convo
    BY <1>2, <1>4, <2>1 DEF Matches
  <2>3. QED
    BY <1>6, <2>1, <2>2, <1>g DEF Repeatable
<1>7. QED
  BY <1>5, <1>6

\* The start of a request keeps the invariant, whose lookup in T1 writes nothing.
LEMMA LookKeepsInv ==
    ASSUME TypeOK, CacheInv, NEW c \in Clients, NEW ask \in Asked, LookT1(c, ask),
           ask.kind = "answer_ai" => ask.convo = NoConvo,
           UNCHANGED <<rows, searchable, t1, t2, t3, bg>>
    PROVE  CacheInv'
<1> DEFINE r(st) == [st |-> st, ask |-> ask, cacheable |-> FALSE]
<1>1. \A st \in {"policy", "generate"} : r(st) \in Requests /\ RequestFits(r(st))
  BY DEF Requests, RequestFits
<1>2. CASE T1Serves(ask) # {}
  BY <1>2, NoRequestFits, Moves DEF LookT1, Ends, Goto
<1>3. CASE T1Serves(ask) = {}
  <2>1. PICK st \in {"policy", "generate"} : req' = [req EXCEPT ![c] = r(st)]
    BY <1>3 DEF LookT1, Goto
  <2>2. QED
    BY <1>1, <2>1, Moves
<1>4. QED
  BY <1>2, <1>3

\* A request goes through the tiers, or a model answers it.
LEMMA RequestKeepsInv ==
    ASSUME TypeOK, CacheInv, NEW c \in Clients, RequestStep(c)
    PROVE  CacheInv'
<1> DEFINE ask == req[c].ask
<1>1. req[c] \in Requests /\ RequestFits(req[c])
  BY DEF TypeOK, CacheInv
<1>2. req[c] # NoRequest => ask \in Asked /\ (ask.kind = "answer_ai" => ask.convo = NoConvo)
  BY <1>1, RequestTypes DEF RequestFits
<1>4. CASE Classify(c)
  <2>1. req[c] # NoRequest
    BY <1>4 DEF Classify, NoRequest
  <2> DEFINE gen == [req[c] EXCEPT !.st = "generate"]
             t == [st |-> "T2", ask |-> ask, cacheable |-> TRUE,
                   versions |-> SourceVersions(T2Scope(ask))]
  <2>2. gen \in Requests /\ RequestFits(gen)
    BY <1>1, <1>2, <1>4, <2>1 DEF Classify, Requests, NoRequest, RequestFits
  <2>3. t \in Requests /\ RequestFits(t)
    BY <1>2, <2>1, ScopeFacts DEF Requests, RequestFits
  <2>4. req' = [req EXCEPT ![c] = gen] \/ req' = [req EXCEPT ![c] = t]
    BY <1>4 DEF Classify, Goto
  <2>5. bg' \ bg = {} /\ UNCHANGED <<rows, searchable, t1, t2, t3>>
    BY <1>4 DEF Classify
  <2>6. QED
    BY <2>2, <2>3, <2>4, <2>5, Moves
<1>5. CASE HitT2(c)
  <2>1. PICK ans \in T2Serves(req[c]) : bg' = bg \cup {WriteT1(ask, ans)}
    BY <1>5 DEF HitT2
  <2>2. JobFits(WriteT1(ask, ans))
    BY <1>5, ServedFits DEF HitT2, JobFits, WriteT1, Key1
  <2>3. QED
    BY <1>5, <2>1, <2>2, NoRequestFits, Moves DEF HitT2, Ends, Goto
<1>6. CASE MissT2(c) \/ MissT3(c)
  <2>1. req[c] # NoRequest
    BY <1>6 DEF MissT2, MissT3, NoRequest
  <2> DEFINE r(st) == [st |-> st, ask |-> ask, cacheable |-> TRUE]
  <2>2. \A st \in {"T3", "generate"} : r(st) \in Requests /\ RequestFits(r(st))
    BY <1>2, <2>1 DEF Requests, RequestFits
  <2>3. PICK st \in {"T3", "generate"} : req' = [req EXCEPT ![c] = r(st)]
    BY <1>6 DEF MissT2, MissT3, Goto
  <2>4. QED
    BY <1>6, <2>2, <2>3, Moves DEF MissT2, MissT3
<1>7. CASE HitT3(c)
  <2>1. PICK e \in T3Hits(ask) :
            bg' = bg \cup {WriteT1(ask, e.ans), WriteT2(ask, e.ans, e.versions)}
    BY <1>7 DEF HitT3
  <2>2. OneShot(e.ans, e.versions) /\ OneGate(ask.q, e.ans)
    BY DEF T3Hits, CacheInv, OneGate
  <2>3. TwoGates(ask.q, e.ans)
    BY <1>2, <1>7, <2>2, GateFacts DEF HitT3, NoRequest, Asked
  <2>4. JobFits(WriteT1(ask, e.ans)) /\ JobFits(WriteT2(ask, e.ans, e.versions))
    BY <2>2, <2>3 DEF JobFits, WriteT1, WriteT2, Key1, Key2, Repeatable, EntryFits, OneShot
  <2>5. QED
    BY <1>7, <2>1, <2>4, NoRequestFits, Moves DEF HitT3, Ends, Goto
<1>8. CASE Generate(c)
  <2> DEFINE ans == [kind |-> "answer_ai", q |-> ask.q, scope |-> ask.scope,
                     convo |-> ask.convo, basis |-> Visible(ask.scope)]
             tag == [st |-> "tag", ask |-> ask, ans |-> ans]
  <2>1. req[c] # NoRequest /\ ask.kind = "answer_ai"
    BY <1>8 DEF Generate, NoRequest
  <2>2. ans \in Answers
    BY <1>2, <2>1, ScopeFacts DEF Asked, Answers, Kinds
  <2>3. OneShot(ans, SourceVersions(ask.scope))
    BY <1>2, <2>1, ScopeFacts DEF OneShot, CacheInv
  <2>4. tag \in Requests /\ RequestFits(tag)
    BY <1>2, <2>1, <2>2, <2>3 DEF Requests, RequestFits
  <2>5. JobFits([tier |-> "T3", ans |-> ans])
    BY <2>3 DEF JobFits
  <2>6. req' = [req EXCEPT ![c] = tag] /\ bg' \subseteq bg \cup {[tier |-> "T3", ans |-> ans]}
    BY <1>8 DEF Generate, Goto
  <2>7. QED
    BY <1>8, <2>4, <2>5, <2>6, Moves DEF Generate
<1>9. CASE Tag(c)
  <2>1. OneShot(req[c].ans, SourceVersions(ask.scope)) /\ req[c].ans.q = ask.q
    BY <1>1, <1>9 DEF Tag, RequestFits
  <2>g. OneGate(ask.q, req[c].ans) /\ TwoGates(ask.q, req[c].ans)
    BY <1>2, <1>9, <2>1, GateFacts DEF Tag, NoRequest, Asked
  <2>2. /\ JobFits(WriteT1(ask, req[c].ans))
        /\ JobFits(WriteT2(ask, req[c].ans, SourceVersions(ask.scope)))
    BY <2>1, <2>g DEF JobFits, WriteT1, WriteT2, Key1, Key2, Repeatable, EntryFits, OneShot
  <2>3. QED
    BY <1>9, <2>2, NoRequestFits, Moves DEF Tag, Ends, Goto
<1>10. CASE Converse(c)
  <2> DEFINE ans == [kind |-> "continue_convo", q |-> ask.q, scope |-> ask.scope,
                     convo |-> ask.convo, basis |-> {}]
  <2>1. OneGate(ask.q, ans) /\ TwoGates(ask.q, ans)
    BY <1>2, <1>10, GateFacts DEF Converse, NoRequest, Asked
  <2>2. JobFits(WriteT1(ask, ans)) /\ JobFits(WriteT2(ask, ans, {}))
    BY <2>1 DEF JobFits, WriteT1, WriteT2, Repeatable, EntryFits, Key1, Key2
  <2>3. QED
    BY <1>10, <2>2, NoRequestFits, Moves DEF Converse, Ends, Goto
<1>11. CASE Fail(c)
  BY <1>11, NoRequestFits, Moves DEF Fail, Ends, Goto
<1>12. QED
  BY <1>4, <1>5, <1>6, <1>7, <1>8, <1>9, <1>10, <1>11 DEF RequestStep

\* The fields HSET keeps of an older hash never make the new one unfit.
LEMMA MergeFits ==
    ASSUME NEW h, NEW j, JobFits(j), j.tier = "T2"
    PROVE  /\ Merge(h, j).ai_type = Merge(h, j).ans.kind
           /\ EntryFits(Merge(h, j).ans, Merge(h, j).convo, Merge(h, j).versions)
<1>1. Merge(h, j).ai_type = j.ans.kind /\ Merge(h, j).ans = j.ans
  BY DEF Merge
<1>2. j.ans.kind = "continue_convo" => Merge(h, j).convo = j.ans.convo
  BY DEF Merge
<1>3. j.ans.kind = "answer_ai" => Merge(h, j).versions = j.versions
  BY DEF Merge
<1>4. EntryFits(j.ans, j.ans.convo, j.versions)
  BY DEF JobFits
<1>5. QED
  BY <1>1, <1>2, <1>3, <1>4 DEF EntryFits, OneShot

\* A background write puts into its tier what fits there.
LEMMA JobKeepsInv ==
    ASSUME TypeOK, CacheInv, NEW j \in bg,
           RunT1(j) \/ RunT2(j) \/ RunT3(j) \/ LoseJob(j)
    PROVE  CacheInv'
<1>1. JobFits(j) /\ j \in Jobs
  BY DEF CacheInv, TypeOK
<1>2. rows' = rows /\ searchable' = searchable /\ req' = req /\ bg' \subseteq bg
  BY DEF RunT1, RunT2, RunT3, LoseJob
<1>3. /\ searchable' \subseteq rows'
      /\ \A c \in Clients : RequestFits(req'[c])
      /\ \A i \in bg' : JobFits(i)
  BY <1>2 DEF CacheInv
<1>4. /\ \A c \in Clients : RequestFits(req[c])'
      /\ \A i \in bg' : JobFits(i)'
  BY <1>2, <1>3, FitsStay
<1>5. \A k \in Keys1 : t1'[k] # NoAnswer =>
         Repeatable(t1'[k], k.convo) /\ TwoGates(k.q, t1'[k])
  <2>1. CASE RunT1(j)
    <3>1. /\ Repeatable(j.ans, j.key.convo) /\ TwoGates(j.key.q, j.ans)
          /\ t1' = [t1 EXCEPT ![j.key] = j.ans]
      BY <1>1, <2>1 DEF RunT1, JobFits
    <3>2. QED
      BY <3>1 DEF CacheInv, TypeOK
  <2>2. CASE ~RunT1(j)
    BY <2>2 DEF RunT2, RunT3, LoseJob, CacheInv
  <2>3. QED
    BY <2>1, <2>2
<1>6. \A k \in Keys2 : t2'[k] # NoAnswer =>
         /\ t2'[k].ai_type = t2'[k].ans.kind
         /\ EntryFits(t2'[k].ans, t2'[k].convo, t2'[k].versions)
         /\ OneGate(k.q, t2'[k].ans)
  <2>1. CASE RunT2(j)
    <3>1. t2' = [t2 EXCEPT ![j.key] = Merge(t2[j.key], j)]
      BY <2>1 DEF RunT2
    <3>2. OneGate(j.key.q, Merge(t2[j.key], j).ans)
      BY <1>1, <2>1 DEF RunT2, JobFits, Merge
    <3>3. QED
      BY <1>1, <2>1, <3>1, <3>2, MergeFits DEF RunT2, CacheInv, TypeOK
  <2>2. CASE ~RunT2(j)
    BY <2>2 DEF RunT1, RunT3, LoseJob, CacheInv
  <2>3. QED
    BY <2>1, <2>2
<1>7. \A e \in t3' : OneShot(e.ans, e.versions) /\ e.q = e.ans.q
  BY <1>1 DEF RunT1, RunT2, RunT3, LoseJob, CacheInv, JobFits
<1>8. QED
  BY <1>3, <1>4, <1>5, <1>6, <1>7 DEF CacheInv, Repeatable, EntryFits, OneShot, OneGate, TwoGates

\* The invariant of the cache: conversations are told apart and provenance
\* covers the answer, in requests, background writes and all three tiers.
THEOREM CacheCorrect == Spec => []CacheInv
<1>1. Init => CacheInv
  BY NoRequestFits DEF Init, CacheInv
<1>2. TypeOK /\ CacheInv /\ [Next]_vars => CacheInv'
  <2> SUFFICES ASSUME TypeOK, CacheInv, [Next]_vars PROVE CacheInv'
    OBVIOUS
  <2>1. ASSUME NEW c \in Clients, NEW q \in Questions, NEW scope \in Scopes,
               AskQuestion(c, q, scope)
        PROVE CacheInv'
    <3>1. [kind |-> "answer_ai", q |-> q, scope |-> scope, convo |-> NoConvo] \in Asked
      BY DEF Asked, Kinds, ConvoIds
    <3>2. QED
      BY <2>1, <3>1, LookKeepsInv DEF AskQuestion
  <2>2. ASSUME NEW c \in Clients, NEW q \in Questions, NEW scope \in Scopes,
               NEW convo \in ConvoIds, AskConvo(c, q, scope, convo)
        PROVE CacheInv'
    <3>1. [kind |-> "continue_convo", q |-> q, scope |-> scope, convo |-> latest']
              \in Asked
      BY <2>2 DEF AskConvo, TypeOK, Asked, Kinds
    <3>2. QED
      BY <2>2, <3>1, LookKeepsInv DEF AskConvo
  <2>3. CASE Expire
    <3>1. UNCHANGED <<rows, searchable, bg, req, t3>>
      BY <2>3 DEF Expire
    <3>2. \A c \in Clients : RequestFits(req[c])'
      BY <3>1, FitsStay DEF CacheInv
    <3>3. \A j \in bg' : JobFits(j)'
      BY <3>1, FitsStay DEF CacheInv
    <3>4. \A k \in Keys1 : t1'[k] \in {t1[k], NoAnswer}
      BY <2>3 DEF Expire, TypeOK
    <3>5. \A k \in Keys2 : t2'[k] \in {t2[k], NoAnswer}
      BY <2>3 DEF Expire, TypeOK
    <3>6. \A k \in Keys1 : t1'[k] # NoAnswer =>
             Repeatable(t1'[k], k.convo) /\ TwoGates(k.q, t1'[k])
      BY <3>4 DEF CacheInv
    <3>7. \A k \in Keys2 : t2'[k] # NoAnswer =>
             /\ t2'[k].ai_type = t2'[k].ans.kind
             /\ EntryFits(t2'[k].ans, t2'[k].convo, t2'[k].versions)
             /\ OneGate(k.q, t2'[k].ans)
      BY <3>5 DEF CacheInv
    <3>8. QED
      BY <3>1, <3>2, <3>3, <3>6, <3>7
         DEF CacheInv, Repeatable, EntryFits, OneShot, OneGate, TwoGates
  <2>4. ASSUME NEW d \in Docs, NewRow(d) \/ NewChunks(d) PROVE CacheInv'
    <3>1. rows \subseteq rows' /\ searchable' \subseteq rows'
      BY <2>4 DEF NewRow, NewChunks, C!NewRow, C!NewChunks, CacheInv
    <3>2. UNCHANGED <<t1, t2, t3, bg, req>>
      BY <2>4 DEF NewRow, NewChunks, C!NewRow, C!NewChunks
    <3>3. \A c \in Clients : RequestFits(req[c])'
      BY <3>1, <3>2, FitsStay DEF CacheInv
    <3>4. \A j \in bg' : JobFits(j)'
      BY <3>1, <3>2, FitsStay DEF CacheInv
    <3>5. QED
      BY <3>1, <3>2, <3>3, <3>4 DEF CacheInv, Repeatable, EntryFits, OneShot, OneGate, TwoGates
  <2>5. CASE UNCHANGED vars
    BY <2>5 DEF vars, CacheInv, RequestFits, JobFits, Repeatable, EntryFits, OneShot,
                OneGate, TwoGates, SourceVersions, InScope, T2Scope
  <2>6. QED
    BY <2>1, <2>2, <2>3, <2>4, <2>5, RequestKeepsInv, JobKeepsInv DEF Next
<1>3. QED
  BY <1>1, <1>2, CacheTypeCorrect, PTL DEF Spec

\* Neither route, from neither tier, repeats a conversation elsewhere.
THEOREM ConversationsApart == Spec => []ConvoStaysPrivate
<1>1. TypeOK /\ CacheInv => ConvoStaysPrivate
  <2> SUFFICES ASSUME TypeOK, CacheInv PROVE ConvoStaysPrivate
    OBVIOUS
  <2>1. ASSUME NEW ask \in Asked, NEW ans \in T1Serves(ask)
        PROVE  Repeatable(ans, ask.convo)
    <3>1. Key1(ask) \in Keys1 /\ Key1(ask).convo = ask.convo
      BY DEF Key1, Keys1, Asked
    <3>2. QED
      BY <2>1, <3>1 DEF T1Serves, CacheInv
  <2>2. QED
    BY <2>1, ServedFits DEF ConvoStaysPrivate, Repeatable
<1>2. QED
  BY <1>1, CacheTypeCorrect, CacheCorrect, PTL

\* An answer T2 gives to a scoped question saw no document out of the scope.
THEOREM ScopedReuse == Spec => []T2StaysInScope
<1>1. TypeOK /\ CacheInv => T2StaysInScope
  <2> SUFFICES ASSUME TypeOK, CacheInv, NEW c \in Clients, req[c].st = "T2",
                      req[c].ask.kind = "answer_ai", NEW ans \in T2Serves(req[c])
               PROVE  ans.basis \subseteq InScope(req[c].ask.scope)
    BY DEF T2StaysInScope
  <2>1. ans.basis \subseteq req[c].versions
    BY ServedFits DEF OneShot
  <2>2. req[c].versions \subseteq InScope(req[c].ask.scope)
    BY DEF CacheInv, RequestFits, T2Scope
  <2>3. QED
    BY <2>1, <2>2
<1>2. QED
  BY <1>1, CacheTypeCorrect, CacheCorrect, PTL

\* Whoever checks the provenance of an entry of T2 or T3 checks every document
\* its answer was made from.
THEOREM ProvenanceComplete == Spec => []ProvenanceCovers
<1>1. CacheInv => ProvenanceCovers
  BY DEF CacheInv, ProvenanceCovers, Covers, EntryFits, OneShot
<1>2. QED
  BY <1>1, CacheCorrect, PTL

\* Reuse and write-back never carry an answer further than one T3 gate and one
\* T2 gate from the question it was made for.
THEOREM NoDrift == Spec => []TwoGatesAtMost
<1>1. TypeOK /\ CacheInv => TwoGatesAtMost
  <2> SUFFICES ASSUME TypeOK, CacheInv PROVE TwoGatesAtMost
    OBVIOUS
  <2>1. ASSUME NEW ask \in Asked, NEW ans \in T1Serves(ask)
        PROVE  TwoGates(ask.q, ans)
    <3>1. Key1(ask) \in Keys1 /\ Key1(ask).q = ask.q
      BY DEF Key1, Keys1, Asked
    <3>2. QED
      BY <2>1, <3>1 DEF T1Serves, CacheInv
  <2>2. ASSUME NEW ask \in Asked, NEW e \in T3Hits(ask)
        PROVE  OneGate(ask.q, e.ans)
    BY DEF T3Hits, CacheInv, OneGate
  <2>3. QED
    BY <2>1, <2>2, ServedFits DEF TwoGatesAtMost
<1>2. QED
  BY <1>1, CacheTypeCorrect, CacheCorrect, PTL
=============================================================================
