------------------------------ MODULE ConvoAI ------------------------------
(***************************************************************************)
(* continue_convo (Ai/convo_ai/convo_ai.py): the intent classifier, the    *)
(* latest answers of the conversation as context, the loop of model and    *)
(* tools, and the answer that is stored, pushed to long-term memory and    *)
(* to the cache.  One of the tools is Answer_ai, whose steps are those of  *)
(* AnswerAI.  Turns of one conversation may overlap; they meet in the      *)
(* ai_responses table, which background tasks write.                       *)
(***************************************************************************)
EXTENDS AnswerAI, Sequences

CONSTANTS
    Turns,          \* bound: calls of continue_convo
    Recent,         \* 5 in the code
    MaxToolRounds,  \* 3 in the code
    ToolReplies,    \* bound: the tool calls a reply of the model may ask for
    NoCall

\* search stands for search_duckduckgo, the two memory searches and the general
\* classifier: each returns a text or raises, and reads only.
Tools == {"search", "tool_answer_ai"}

ASSUME ConvoAIAssumption ==
    /\ Recent \in Nat /\ MaxToolRounds \in Nat
    /\ ToolReplies \subseteq Seq(Tools \cup {"unknown"}) \ {<< >>}
    /\ NoCall \notin Calls /\ Calls \cap Turns = {}

VARIABLES
    turn,      \* [Turns -> progress of the turn]
    unsaved    \* [Turns -> persist_response_background tasks not yet run]

vars == <<call, rows, pending, turn, unsaved>>

\* st        where the turn is
\* convo     convo_id, hot: cache_policy is "cacheable"
\* n, fresh  the attempt of the repair in progress
\* context   the rows in the prompt
\* called    tool_calls of the latest reply, next: the one at hand
\* messages  those of them that have a ToolMessage
\* waits     the call of Answer_ai the tool at hand waits for
\* round     tool_round
\* raw       content of raw_response
\* bound     persist_response_background has been defined
\* saves     persist tasks created, ltm and cached: tasks published
\* out       how the turn ended
IdleTurn == [st |-> "idle", convo |-> NoConvo, hot |-> FALSE, n |-> 1, fresh |-> TRUE,
             context |-> {}, called |-> << >>, next |-> 1, messages |-> {},
             waits |-> NoCall, round |-> 0, raw |-> "none", bound |-> FALSE,
             saves |-> 0, ltm |-> 0, cached |-> 0, out |-> "none"]

RowState == [n: Nat, by: Calls \cup Turns, source: {"answer_ai", "continue_convo"},
             convo: Convos \cup {NoConvo}]
TurnPlaces == {"idle", "intent", "reintent", "read", "ask", "tools", "waiting",
               "repair", "done"}
TurnState ==
    [st: TurnPlaces,
     convo: Convos \cup {NoConvo}, hot: BOOLEAN, n: 1..MaxAttempts, fresh: BOOLEAN,
     context: SUBSET RowState, called: ToolReplies \cup {<< >>}, next: Nat \ {0},
     messages: SUBSET Nat, waits: Calls \cup {NoCall}, round: 0..MaxToolRounds,
     raw: {"none", "blank", "text"}, bound: BOOLEAN, saves: 0..2, ltm: 0..1,
     cached: 0..1, out: Outcomes \cup {"none"}]

Move(t, c) == turn' = [turn EXCEPT ![t] = c]
EndedTurn(c, out) ==
    [IdleTurn EXCEPT !.st = "done", !.convo = c.convo, !.hot = c.hot, !.out = out,
                     !.bound = c.bound, !.saves = c.saves, !.ltm = c.ltm,
                     !.cached = c.cached]
EndTurn(t, out) == Move(t, EndedTurn(turn[t], out))
ToRepair(c) == [c EXCEPT !.st = "repair", !.n = 1, !.fresh = TRUE]

-----------------------------------------------------------------------------
\* The route calls with a conversation; an empty question fails at once.
StartTurn(t, k, hot) ==
    /\ turn[t] = IdleTurn
    /\ LET c == [IdleTurn EXCEPT !.st = "intent", !.convo = k, !.hot = hot]
       IN  Move(t, c) \/ Move(t, EndedTurn(c, "failed"))
    /\ UNCHANGED <<answerVars, unsaved>>

\* get_user_intent: its deterministic check or the verdict of the model ends the
\* turn; both of the parsed and of the repaired reply.
Intent(t) ==
    /\ turn[t].st = "intent"
    /\ \/ EndTurn(t, "failed")
       \/ \E reply \in Replies : \E to \in UserIntent[reply] :
            \/ to = "use" /\ Move(t, [turn[t] EXCEPT !.st = "read"])
            \/ to = "repair" /\ Move(t, [turn[t] EXCEPT !.st = "reintent"])
            \/ to = "raise" /\ EndTurn(t, "raised")
    /\ UNCHANGED <<answerVars, unsaved>>

RepairIntent(t) ==
    /\ turn[t].st = "reintent"
    /\ \/ EndTurn(t, "failed")
       \/ \E o \in SafeParse(turn[t].n, turn[t].fresh) :
            \/ /\ o.to = "recovered"
               /\ Move(t, [turn[t] EXCEPT !.st = "read", !.n = 1, !.fresh = TRUE])
            \/ /\ o.to = "again"
               /\ Move(t, [turn[t] EXCEPT !.n = o.n, !.fresh = o.fresh])
    /\ UNCHANGED <<answerVars, unsaved>>

\* get_latest_five_ai_responses.
Said(k) == {r \in rows : r.source = "continue_convo" /\ r.convo = k}
Latest(k) == {r \in Said(k) : Cardinality({s \in Said(k) : s.n > r.n}) < Recent}

\* An error of the query leaves the turn without context.
ReadContext(t) ==
    /\ turn[t].st = "read"
    /\ \E c \in {Latest(turn[t].convo), {}} :
            Move(t, [turn[t] EXCEPT !.st = "ask", !.context = c])
    /\ UNCHANGED <<answerVars, unsaved>>

-----------------------------------------------------------------------------
\* The answer is handed to the store, then published to the long-term memory,
\* then, if reusable, to the cache.  An error of the broker is swallowed for the
\* cache only.
Remembered(t, pushed) ==
    EndedTurn([turn[t] EXCEPT !.bound = TRUE, !.saves = @ + 1, !.ltm = 1,
                              !.cached = pushed], "success")
Unpublished(t) == [turn[t] EXCEPT !.bound = TRUE, !.saves = @ + 1]

\* Mutant: an error of the long-term memory is swallowed like the cache's.
RememberSwallowing(t, failure) ==
    /\ unsaved' = [unsaved EXCEPT ![t] = @ + 1]
    /\ \/ Move(t, Remembered(t, 0))
       \/ Move(t, EndedTurn(Unpublished(t), "success"))

Remember(t, failure) ==
    /\ unsaved' = [unsaved EXCEPT ![t] = @ + 1]
    /\ \/ \E p \in IF turn[t].hot THEN {0, 1} ELSE {0} : Move(t, Remembered(t, p))
       \/ Move(t, failure)

\* What is left of an earlier reply is repaired, if there is text in it.
Salvage(t, raw) ==
    IF raw = "text" THEN Move(t, ToRepair([turn[t] EXCEPT !.raw = raw]))
                    ELSE EndTurn(t, "failed")

ConvoReply == Handles({"use"}, OrQuota("repair"), {"fail"}, {"salvage"})

\* The model answers.  An answer that cannot be published is repaired like one
\* that cannot be parsed.
FinalReply(t) ==
    \E reply \in Replies : \E to \in ConvoReply[reply] :
        \/ /\ to = "use"
           /\ Remember(t, ToRepair([Unpublished(t) EXCEPT !.raw = "text"]))
        \/ to = "repair" /\ Salvage(t, "text") /\ UNCHANGED unsaved
        \/ to = "salvage" /\ Salvage(t, turn[t].raw) /\ UNCHANGED unsaved
        \/ to = "fail" /\ EndTurn(t, "failed") /\ UNCHANGED unsaved

\* Mutant: the rounds are not counted against the limit.
ToolReplyUnlimited(t) ==
    \E s \in ToolReplies, raw \in {"blank", "text"} :
        /\ Move(t, [turn[t] EXCEPT !.st = "tools", !.round = @ + 1, !.raw = raw,
                        !.called = s, !.next = 1, !.messages = {}])
        /\ UNCHANGED unsaved

\* The model calls tools, with or without a text beside the calls.
ToolReply(t) ==
    \E s \in ToolReplies, raw \in {"blank", "text"} :
        /\ IF turn[t].round < MaxToolRounds
             THEN Move(t, [turn[t] EXCEPT !.st = "tools", !.round = @ + 1, !.raw = raw,
                                !.called = s, !.next = 1, !.messages = {}])
             ELSE Salvage(t, raw)
        /\ UNCHANGED unsaved

AskModel(t) ==
    /\ turn[t].st = "ask"
    /\ FinalReply(t) \/ ToolReply(t)
    /\ UNCHANGED answerVars

\* The tool call at hand is over, with a ToolMessage or without.
ToolOver(t, messages) ==
    Move(t, [turn[t] EXCEPT !.messages = messages, !.next = @ + 1, !.waits = NoCall,
                !.st = IF turn[t].next = Len(turn[t].called) THEN "ask" ELSE "tools"])
Answered(t) == ToolOver(t, turn[t].messages \cup {turn[t].next})
Tool(t) == turn[t].called[turn[t].next]

\* Mutant: a tool that raises leaves no ToolMessage.
RunToolSilently(t) ==
    /\ turn[t].st = "tools"
    /\ ToolOver(t, turn[t].messages) \/ Answered(t)
    /\ UNCHANGED <<answerVars, unsaved>>

\* A tool returns or raises, and there is a ToolMessage for both.  A name that
\* is not dispatched gets none.
RunTool(t) ==
    /\ turn[t].st = "tools"
    /\ IF Tool(t) = "unknown" THEN ToolOver(t, turn[t].messages) ELSE Answered(t)
    /\ UNCHANGED <<answerVars, unsaved>>

CallAnswerAI(t, a) ==
    /\ turn[t].st = "tools"
    /\ Tool(t) = "tool_answer_ai"
    /\ call[a] = Idle
    /\ Step(a, Started(TRUE, turn[t].convo, turn[t].hot))
    /\ Move(t, [turn[t] EXCEPT !.st = "waiting", !.waits = a])
    /\ UNCHANGED <<rows, pending, unsaved>>

ToolReturns(t) ==
    /\ turn[t].st = "waiting"
    /\ call[turn[t].waits].st = "done"
    /\ Answered(t)
    /\ UNCHANGED <<answerVars, unsaved>>

\* A repaired answer is stored and published again; that raises where the first
\* attempt did not get to define the function that stores it.
RepairTurn(t) ==
    /\ turn[t].st = "repair"
    /\ \E o \in SafeParse(turn[t].n, turn[t].fresh) :
        \/ /\ o.to = "recovered"
           /\ turn[t].bound
           /\ Remember(t, EndedTurn(Unpublished(t), "raised"))
        \/ o.to = "recovered" /\ ~turn[t].bound /\ EndTurn(t, "raised") /\ UNCHANGED unsaved
        \/ o.to = "lost" /\ EndTurn(t, "failed") /\ UNCHANGED unsaved
        \/ /\ o.to = "again"
           /\ Move(t, [turn[t] EXCEPT !.n = o.n, !.fresh = o.fresh])
           /\ UNCHANGED unsaved
    /\ UNCHANGED answerVars

\* Mutant: the task is run again after a commit.
PersistTurnAgain(t) ==
    /\ unsaved[t] > 0
    /\ rows' = rows \cup {Row(t, "continue_convo", turn[t].convo)}
    /\ Cardinality(rows) < 4
    /\ UNCHANGED <<call, pending, turn, unsaved>>

PersistTurn(t) ==
    /\ unsaved[t] > 0
    /\ unsaved' = [unsaved EXCEPT ![t] = @ - 1]
    /\ \/ rows' = rows \cup {Row(t, "continue_convo", turn[t].convo)}
       \/ UNCHANGED rows
    /\ UNCHANGED <<call, pending, turn>>

-----------------------------------------------------------------------------
TurnStep(t) ==
    \/ Intent(t) \/ RepairIntent(t) \/ ReadContext(t) \/ AskModel(t) \/ RunTool(t)
    \/ (\E a \in Calls : CallAnswerAI(t, a)) \/ ToolReturns(t) \/ RepairTurn(t)

Init ==
    /\ AnswerInit
    /\ turn = [t \in Turns |-> IdleTurn]
    /\ unsaved = [t \in Turns |-> 0]

Next ==
    \/ \E a \in Calls :
        \/ \E hot \in BOOLEAN : Question(a, hot) /\ UNCHANGED <<turn, unsaved>>
        \/ CallStep(a) /\ UNCHANGED <<turn, unsaved>>
        \/ Persist(a) /\ UNCHANGED <<turn, unsaved>>
    \/ \E t \in Turns :
        \/ \E k \in Convos, hot \in BOOLEAN : StartTurn(t, k, hot)
        \/ TurnStep(t)
        \/ PersistTurn(t)

Spec == Init /\ [][Next]_vars

\* Everything a request awaits comes back or raises: providers and stores are
\* called with the time limits of their clients, and the event loop runs every
\* task that is ready.  That the background tasks run is not needed.
FairSpec ==
    /\ Spec
    /\ \A a \in Calls : WF_vars(CallStep(a) /\ UNCHANGED <<turn, unsaved>>)
    /\ \A t \in Turns : WF_vars(TurnStep(t))

-----------------------------------------------------------------------------
TypeOK ==
    /\ call \in [Calls -> CallState]
    /\ rows \subseteq RowState
    /\ pending \in [Calls -> 0..1]
    /\ turn \in [Turns -> TurnState]
    /\ unsaved \in [Turns -> 0..2]

\* A turn that answers has been stored and is on its way to the long-term
\* memory; one that fails or raises has published nothing, though its row may
\* be stored when it was the publication that failed (convo_ai.py,
\* continue_convo).  Only what the cache policy includes is cached.
TurnKept ==
    \A t \in Turns :
        /\ turn[t].ltm = IF turn[t].out = "success" THEN 1 ELSE 0
        /\ turn[t].out = "success" => turn[t].saves > 0
        /\ turn[t].cached > 0 => turn[t].hot /\ turn[t].out = "success"

\* When the model is asked again, every tool call of its last reply that names a
\* tool has its ToolMessage, also when the tool raised or Answer_ai failed, and
\* no other has one.
ToolCallsAnswered ==
    \A t \in Turns : turn[t].st = "ask" =>
        turn[t].messages = {i \in DOMAIN turn[t].called : turn[t].called[i] \in Tools}

\* ai_responses and the tasks on their way to it hold what was handed to them,
\* however repairs and turns interleave: no writer has more rows than it saved,
\* and each row carries the conversation of its writer.
RowsOf(w) == {r \in rows : r.by = w}
RowsAccounted ==
    /\ \A a \in Calls : Cardinality(RowsOf(a)) + pending[a] <= call[a].saves
    /\ \A t \in Turns : Cardinality(RowsOf(t)) + unsaved[t] <= turn[t].saves
    /\ \A r \in rows : r.convo = IF r.by \in Calls THEN call[r.by].convo
                                                  ELSE turn[r.by].convo

\* How much a call and a turn may still do.  A repair has its attempts; the model
\* is asked once more than there are rounds of tools; a round has its tool calls,
\* and a tool that is Answer_ai is waited for.
RepairLeft(c) == MaxAttempts + 1 - c.n
CallLeft(c) ==
    CASE c.st = "idle" -> 20
      [] c.st = "gather" ->
            14 + (IF c.ret = "building" THEN 1 ELSE 0)
               + (CASE c.cls = "asking" -> 4 [] c.cls = "repair" -> RepairLeft(c) [] OTHER -> 0)
      [] c.st = "strategy" -> 13 [] c.st = "multi" -> 12 [] c.st = "expand" -> 11
      [] c.st = "reexpand" -> 7 + RepairLeft(c)
      [] c.st = "search" -> 7 [] c.st = "fallback" -> 6 [] c.st = "rerank" -> 5
      [] c.st = "generate" -> 4 [] c.st = "repair" -> RepairLeft(c)
      [] c.st = "done" -> 0

Phase(c) ==
    CASE c.st = "idle" -> 10 [] c.st = "intent" -> 9
      [] c.st = "reintent" -> 5 + RepairLeft(c)
      [] c.st = "read" -> 5 [] c.st \in {"ask", "tools", "waiting"} -> 4
      [] c.st = "repair" -> RepairLeft(c) [] c.st = "done" -> 0
RoundsLeft(c) == MaxToolRounds - c.round
ToolsLeft(c) ==
    CASE c.st = "tools" -> 2 * (Len(c.called) - c.next) + 2
      [] c.st = "waiting" -> 2 * (Len(c.called) - c.next) + 1
      [] OTHER -> 0

Fewer(m, n) == m \in 0..(n - 1)
TurnFewer(d, c) ==
    \/ Fewer(Phase(d), Phase(c))
    \/ /\ Phase(d) = Phase(c)
       /\ \/ Fewer(RoundsLeft(d), RoundsLeft(c))
          \/ RoundsLeft(d) = RoundsLeft(c) /\ Fewer(ToolsLeft(d), ToolsLeft(c))

CallAdvances(a) ==
    \/ Fewer(CallLeft(call'[a]), CallLeft(call[a]))
    \/ UNCHANGED call[a] /\ Fewer(pending'[a], pending[a])
CallRests(a) == UNCHANGED <<call[a], pending[a], RowsOf(a)>>
TurnAdvances(t) ==
    \/ TurnFewer(turn'[t], turn[t])
    \/ UNCHANGED turn[t] /\ Fewer(unsaved'[t], unsaved[t])
TurnRests(t) == UNCHANGED <<turn[t], unsaved[t], RowsOf(t)>>

\* No step is free: whatever the models reply and whichever tools they ask for,
\* a step that touches a call, a turn or their rows leaves it less to do.
RequestsRunDown ==
    [][/\ \A a \in Calls : CallRests(a) \/ CallAdvances(a)
       /\ \A t \in Turns : TurnRests(t) \/ TurnAdvances(t)]_vars

\* Every request comes to an end, whatever the models reply: repairs and tool
\* rounds are bounded, and a turn that waits for Answer_ai gets its result.
RequestsEnd ==
    /\ \A a \in Calls : call[a].st # "idle" ~> call[a].st = "done"
    /\ \A t \in Turns : turn[t].st # "idle" ~> turn[t].st = "done"
=============================================================================
