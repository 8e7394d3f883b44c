---------------------------- MODULE ConvoProofs ----------------------------
(***************************************************************************)
(* Proofs about Answer_ai and continue_convo, for every set of calls,      *)
(* turns and conversations, every size of the context, every limit of the  *)
(* tool rounds and whatever tools the model asks for.                      *)
(***************************************************************************)
EXTENDS ConvoAI, FiniteSetTheorems, TLAPS

\* A call has an outcome when it is done, and has saved and published what that
\* outcome allows.
CallOK(c) ==
    /\ c \in CallState
    /\ c.st = "done" <=> c.out # "none"
    /\ c.saves = IF c.out = "success" THEN 1 ELSE 0
    /\ c.pushes > 0 => c.out = "success" /\ c.hot /\ ~c.tool

\* What a reply's tool calls have got so far.
Dispatched(c, last) == {i \in 1..last : c.called[i] \in Tools}

\* A turn saves when it answers, and once more when it repairs an answer that
\* it could not publish.  The tool calls before the one at hand are over.
TurnOK(c) ==
    /\ c \in TurnState
    /\ c.st = "done" <=> c.out # "none"
    /\ c.ltm = IF c.out = "success" THEN 1 ELSE 0
    /\ c.out = "success" => c.saves > 0
    /\ c.cached > 0 => c.hot /\ c.out = "success"
    /\ c.st \notin {"repair", "done"} => c.saves = 0
    /\ c.st = "repair" => c.saves \in 0..1
    /\ c.st \in {"idle", "intent", "reintent", "read"} => c.called = << >> /\ c.messages = {}
    /\ c.st = "ask" => c.messages = Dispatched(c, Len(c.called))
    /\ c.st \in {"tools", "waiting"} =>
            /\ c.called # << >>
            /\ c.next <= Len(c.called)
            /\ c.messages = Dispatched(c, c.next - 1)
    /\ c.st = "waiting" => c.waits \in Calls /\ c.called[c.next] = "tool_answer_ai"

IInv ==
    /\ call \in [Calls -> CallState]
    /\ turn \in [Turns -> TurnState]
    /\ pending \in [Calls -> 0..1]
    /\ unsaved \in [Turns -> 0..2]
    /\ rows \subseteq RowState
    /\ IsFiniteSet(rows)
    /\ \A a \in Calls : CallOK(call[a]) /\ pending[a] <= call[a].saves
    /\ \A t \in Turns : TurnOK(turn[t]) /\ unsaved[t] <= turn[t].saves

-----------------------------------------------------------------------------
\* A repair is told to go on at an attempt of the range only.
LEMMA RepairTypes ==
    ASSUME NEW n, NEW fresh, NEW o \in SafeParse(n, fresh), o.to = "again"
    PROVE  o.n \in 1..MaxAttempts /\ o.fresh \in BOOLEAN
  BY DEF SafeParse, RepairSteps, Recovered, Lost, Again, MaxAttempts

\* A repair may make at least one attempt.
LEMMA FirstAttempt == 1 \in 1..MaxAttempts
  BY DEF MaxAttempts

\* A call that has not started is well formed.
LEMMA IdleOK == CallOK(Idle) /\ Idle \in CallState
  BY DEF CallOK, Idle, CallState, CallPlaces, Techniques, MaxAttempts, Outcomes

\* A call that is not done yet has an end for each outcome.
LEMMA EndedOK ==
    ASSUME NEW c, CallOK(c), c.st # "done", NEW out \in {"failed", "raised"}
    PROVE  CallOK(Ended(c, out)) /\ Ended(c, out).saves = c.saves
<1> DEFINE e == Ended(c, out)
<1>1. c \in CallState
  BY DEF CallOK
<1>2. e.st = "done" /\ e.out = out /\ e.saves = c.saves /\ e.pushes = c.pushes
  BY <1>1 DEF Ended, CallState
<1>3. e \in CallState
  <2>1. /\ "NONE" \in Techniques /\ 1 \in 1..MaxAttempts /\ out \in Outcomes
        /\ "done" \in CallPlaces
    BY DEF Techniques, MaxAttempts, Outcomes, CallPlaces
  <2>2. QED
    BY <1>1, <2>1 DEF Ended, CallState
<1>4. c.pushes \in 0..1 /\ ~(c.pushes > 0) /\ c.saves = 0
  BY <1>1 DEF CallOK, CallState
<1>5. QED
  BY <1>2, <1>3, <1>4 DEF CallOK

\* A step of a call that has begun leaves it well formed.  Only an answer
\* creates a task that stores it.
LEMMA CallStepOK ==
    ASSUME IInv, NEW a \in Calls, CallStep(a)
    PROVE  \E c \in CallState :
              /\ CallOK(c)
              /\ Step(a, c)
              /\ rows' = rows
              /\ \/ pending' = pending /\ c.saves = call[a].saves
                 \/ pending' = [pending EXCEPT ![a] = 1] /\ c.saves = 1
<1> DEFINE Fits(c) == /\ c \in CallState /\ CallOK(c) /\ c.saves = call[a].saves
<1>1. CallOK(call[a]) /\ call[a] \in CallState
  BY DEF IInv
<1>2. SUFFICES ASSUME ~(\E c : Fits(c) /\ Step(a, c) /\ UNCHANGED <<rows, pending>>)
               PROVE  \E c \in CallState :
                        /\ CallOK(c) /\ Step(a, c) /\ rows' = rows
                        /\ pending' = [pending EXCEPT ![a] = 1] /\ c.saves = 1
  OBVIOUS
<1>3. \A out \in {"failed", "raised"} :
        call[a].st # "done" => ~(Ends(a, out) /\ UNCHANGED <<rows, pending>>)
  BY <1>1, <1>2, EndedOK DEF Ends, CallOK
\* The updates the steps are made of.
<1> DEFINE Moves(c) == call[a].st # "done" => ~(Step(a, c) /\ UNCHANGED <<rows, pending>>)
<1>u1. \A st \in CallPlaces \ {"done"} : Moves([call[a] EXCEPT !.st = st])
  BY <1>1, <1>2 DEF CallOK, CallState
<1>u2. \A n \in 1..MaxAttempts, f \in BOOLEAN : Moves([call[a] EXCEPT !.n = n, !.fresh = f])
  BY <1>1, <1>2 DEF CallOK, CallState
<1>u3. \A st \in CallPlaces \ {"done"} :
            Moves([call[a] EXCEPT !.st = st, !.n = 1, !.fresh = TRUE])
  BY <1>1, <1>2, FirstAttempt DEF CallOK, CallState
<1>u4. \A st \in CallPlaces \ {"done"}, t \in Techniques :
            Moves([call[a] EXCEPT !.st = st, !.tech = t])
  BY <1>1, <1>2 DEF CallOK, CallState
<1>4. CASE BuildRetriever(a)
  BY <1>1, <1>2, <1>3, <1>4 DEF BuildRetriever, Step, CallOK, CallState
<1>5. \A t \in Selected : call[a].st # "done" =>
            ~(Classified(a, t) /\ UNCHANGED <<rows, pending>>)
  BY <1>1, <1>2, AnswerAssumption, FirstAttempt
     DEF Classified, Step, CallOK, CallState
<1>6. call[a].st # "done" => ~(NotClassified(a) /\ UNCHANGED <<rows, pending>>)
  BY <1>1, <1>2, FirstAttempt DEF NotClassified, Step, CallOK, CallState
<1>7. CASE Classify(a)
  <2>1. Moves([call[a] EXCEPT !.cls = "repair"])
    BY <1>1, <1>2 DEF CallOK, CallState
  <2>2. QED
    BY <2>1, <1>3, <1>5, <1>6, <1>7 DEF Classify
<1>8. CASE RepairClass(a)
  BY <1>u2, <1>5, <1>6, <1>8, RepairTypes, AnswerAssumption DEF RepairClass, Techniques
<1>9. CASE Join(a)
  BY <1>u1, <1>3, <1>9 DEF Join, Goto, CallPlaces
<1>10. CASE Strategy(a)
  BY <1>u1, <1>u4, <1>3, <1>10 DEF Strategy, Goto, CallPlaces, Techniques
<1>11. CASE MultiIndex(a)
  BY <1>u1, <1>3, <1>11 DEF MultiIndex, Goto, CallPlaces
<1>12. CASE Expand(a)
  BY <1>u1, <1>3, <1>12 DEF Expand, Goto, CallPlaces
<1>13. CASE RepairExpansion(a)
  BY <1>u2, <1>u3, <1>13, RepairTypes DEF RepairExpansion, CallPlaces
<1>14. CASE Search(a) \/ Fallback(a) \/ Rerank(a)
  BY <1>u1, <1>3, <1>14 DEF Search, Fallback, Rerank, Goto, CallPlaces
<1>15. CASE Generate(a)
  <2>1. ASSUME NEW p \in IF Reusable(a) THEN {0, 1} ELSE {0}, call[a].st = "generate"
        PROVE  LET c == Ended(Saved(a, p), "success")
               IN  c \in CallState /\ CallOK(c) /\ c.saves = 1
    <3>1. "NONE" \in Techniques /\ 1 \in 1..MaxAttempts /\ "success" \in Outcomes
      BY DEF Techniques, MaxAttempts, Outcomes
    <3>2. p \in 0..1 /\ (p > 0 => call[a].hot /\ ~call[a].tool)
      BY <2>1 DEF Reusable
    <3>3. "done" \in CallPlaces
      BY DEF CallPlaces
    <3>4. Saved(a, p) \in CallState
      <4>1. 1 \in 0..1
        OBVIOUS
      <4>2. QED
        BY <1>1, <3>2, <4>1, Zenon DEF Saved, CallState
    <3>5. Ended(Saved(a, p), "success") \in CallState
      BY <3>1, <3>3, <3>4 DEF Ended, CallState
    <3>6. LET c == Ended(Saved(a, p), "success")
          IN  /\ c.st = "done" /\ c.out = "success" /\ c.saves = 1 /\ c.pushes = p
              /\ c.hot = call[a].hot /\ c.tool = call[a].tool
      BY <1>1 DEF Ended, Saved, CallState
    <3>7. QED
      BY <3>2, <3>5, <3>6 DEF CallOK
  <2>2. QED
    BY <2>1, <1>u1, <1>3, <1>15 DEF Generate, Goto, CallPlaces
<1>16. CASE RepairAnswer(a)
  <2>1. ASSUME call[a].st = "repair"
        PROVE  ~(/\ Step(a, Ended([call[a] EXCEPT !.good = TRUE], "raised"))
                 /\ UNCHANGED <<rows, pending>>)
    <3>1. CallOK([call[a] EXCEPT !.good = TRUE])
      BY <1>1 DEF CallOK, CallState
    <3>2. /\ [call[a] EXCEPT !.good = TRUE].st # "done"
          /\ [call[a] EXCEPT !.good = TRUE].saves = call[a].saves
      BY <1>1, <2>1 DEF CallState
    <3>3. QED
      BY <3>1, <3>2, <1>2, EndedOK DEF CallOK
  <2>2. QED
    BY <2>1, <1>u2, <1>3, <1>16, RepairTypes DEF RepairAnswer
<1>17. QED
  BY <1>4, <1>7, <1>8, <1>9, <1>10, <1>11, <1>12, <1>13, <1>14, <1>15, <1>16
     DEF CallStep

-----------------------------------------------------------------------------
\* A turn that has not started is well formed.
LEMMA IdleTurnOK == IdleTurn \in TurnState /\ TurnOK(IdleTurn)
<1>1. "idle" \in TurnPlaces
  BY DEF TurnPlaces
<1>2. 1 \in Nat \ {0} /\ 0 \in 0..2 /\ 0 \in 0..1 /\ 0 \in 0..MaxToolRounds
  BY ConvoAIAssumption
<1>3. IdleTurn \in TurnState
  BY <1>1, <1>2, FirstAttempt DEF IdleTurn, TurnState
<1>4. QED
  BY <1>3 DEF TurnOK, IdleTurn

\* A turn may end with any outcome that fits what it has saved and published.
LEMMA EndedTurnOK ==
    ASSUME NEW c \in TurnState, NEW out \in Outcomes,
           c.ltm = IF out = "success" THEN 1 ELSE 0,
           out = "success" => c.saves > 0,
           c.cached > 0 => c.hot /\ out = "success"
    PROVE  /\ EndedTurn(c, out) \in TurnState
           /\ TurnOK(EndedTurn(c, out))
           /\ EndedTurn(c, out).saves = c.saves
<1> DEFINE e == EndedTurn(c, out)
<1>1. IdleTurn \in TurnState /\ "done" \in TurnPlaces
  BY IdleTurnOK DEF TurnPlaces
<1>2. e \in TurnState
  BY <1>1 DEF EndedTurn, TurnState
<1>3. /\ e.st = "done" /\ e.out = out /\ e.saves = c.saves /\ e.ltm = c.ltm
      /\ e.cached = c.cached /\ e.hot = c.hot
  BY <1>1 DEF EndedTurn, TurnState
<1>4. out # "none"
  BY DEF Outcomes
<1>5. QED
  BY <1>2, <1>3, <1>4 DEF TurnOK

\* What a turn that is under way has not done yet.
LEMMA UnderWay ==
    ASSUME NEW c \in TurnState, TurnOK(c), c.st # "done"
    PROVE  /\ c.out = "none" /\ c.ltm = 0 /\ c.cached = 0
           /\ c.saves \in 0..1
           /\ c.st # "repair" => c.saves = 0
  BY DEF TurnOK, TurnState

\* A turn under way may fail or raise, or go to the repair of its output.
LEMMA GivesUp ==
    ASSUME NEW c \in TurnState, TurnOK(c), c.st # "done", NEW out \in {"failed", "raised"}
    PROVE  /\ EndedTurn(c, out) \in TurnState
           /\ TurnOK(EndedTurn(c, out))
           /\ EndedTurn(c, out).saves = c.saves
<1>1. out \in Outcomes /\ out # "success"
  BY DEF Outcomes
<1>2. QED
  BY <1>1, UnderWay, EndedTurnOK

\* A turn that goes to repair is well formed.
LEMMA ToRepairOK ==
    ASSUME NEW c \in TurnState, c.out = "none", c.ltm = 0, c.cached = 0, c.saves \in 0..1
    PROVE  /\ ToRepair(c) \in TurnState
           /\ TurnOK(ToRepair(c))
           /\ ToRepair(c).saves = c.saves
<1>1. "repair" \in TurnPlaces
  BY DEF TurnPlaces
<1>2. ToRepair(c) \in TurnState
  BY <1>1, FirstAttempt DEF ToRepair, TurnState
<1>3. LET r == ToRepair(c)
      IN  /\ r.st = "repair" /\ r.out = "none" /\ r.ltm = 0 /\ r.cached = 0
          /\ r.saves = c.saves
  BY DEF ToRepair, TurnState
<1>4. QED
  BY <1>2, <1>3 DEF TurnOK

-----------------------------------------------------------------------------
\* What a step of turn t may do to it: leave it well formed, with one more save
\* only if a task that stores it was created.
TurnMoves(t) ==
    \E c \in TurnState :
        /\ TurnOK(c)
        /\ Move(t, c)
        /\ \/ unsaved' = unsaved /\ c.saves = turn[t].saves
           \/ unsaved' = [unsaved EXCEPT ![t] = @ + 1] /\ c.saves = turn[t].saves + 1

\* A turn that starts is well formed.
LEMMA StartTurnOK ==
    ASSUME IInv, NEW t \in Turns, NEW k \in Convos, NEW hot \in BOOLEAN, StartTurn(t, k, hot)
    PROVE  TurnMoves(t)
<1> DEFINE c == [IdleTurn EXCEPT !.st = "intent", !.convo = k, !.hot = hot]
<1>1. c \in TurnState
  BY IdleTurnOK DEF TurnState, TurnPlaces
<1>2. /\ c.st = "intent" /\ c.out = "none" /\ c.ltm = 0 /\ c.cached = 0 /\ c.saves = 0
      /\ c.called = << >> /\ c.messages = {}
  BY DEF IdleTurn
<1>3. TurnOK(c)
  BY <1>1, <1>2 DEF TurnOK
<1>4. TurnOK(EndedTurn(c, "failed")) /\ EndedTurn(c, "failed") \in TurnState
      /\ EndedTurn(c, "failed").saves = c.saves
  BY <1>1, <1>2, <1>3, GivesUp
<1>5. turn[t].saves = 0
  BY DEF StartTurn, IdleTurn
<1>6. QED
  BY <1>1, <1>2, <1>3, <1>4, <1>5 DEF StartTurn, TurnMoves

\* A turn stays well formed when its intent is classified.
LEMMA IntentOK ==
    ASSUME IInv, NEW t \in Turns, Intent(t) \/ RepairIntent(t) \/ ReadContext(t)
    PROVE  TurnMoves(t)
<1> DEFINE c == turn[t]
<1>1. c \in TurnState /\ TurnOK(c)
  BY DEF IInv
<1>2. /\ c.st \in {"intent", "reintent", "read"}
      /\ unsaved' = unsaved
      /\ c.saves = 0 /\ c.out = "none" /\ c.ltm = 0 /\ c.cached = 0
      /\ c.called = << >> /\ c.messages = {}
  BY <1>1, UnderWay DEF Intent, RepairIntent, ReadContext, TurnOK
<1>3. ASSUME NEW out \in {"failed", "raised"}, EndTurn(t, out)
      PROVE  TurnMoves(t)
  BY <1>1, <1>2, <1>3, GivesUp DEF EndTurn, TurnMoves
<1>4. ASSUME NEW st \in {"reintent", "read"}, Move(t, [c EXCEPT !.st = st])
      PROVE  TurnMoves(t)
  <2> DEFINE d == [c EXCEPT !.st = st]
  <2>1. d \in TurnState
    BY <1>1 DEF TurnState, TurnPlaces
  <2>2. TurnOK(d)
    BY <1>1, <1>2, <2>1 DEF TurnOK, TurnState
  <2>3. d.saves = c.saves
    BY <1>1 DEF TurnState
  <2>4. QED
    BY <1>2, <1>4, <2>1, <2>2, <2>3 DEF TurnMoves
<1>5. ASSUME NEW st \in {"reintent", "read"}, NEW n \in 1..MaxAttempts, NEW f \in BOOLEAN,
             Move(t, [c EXCEPT !.st = st, !.n = n, !.fresh = f])
      PROVE  TurnMoves(t)
  <2> DEFINE d == [c EXCEPT !.st = st, !.n = n, !.fresh = f]
  <2>1. d \in TurnState
    BY <1>1 DEF TurnState, TurnPlaces
  <2>2. TurnOK(d)
    BY <1>1, <1>2, <2>1 DEF TurnOK, TurnState
  <2>3. d.saves = c.saves
    BY <1>1 DEF TurnState
  <2>4. QED
    BY <1>2, <1>5, <2>1, <2>2, <2>3 DEF TurnMoves
<1>6. CASE Intent(t)
  BY <1>3, <1>4, <1>6 DEF Intent
<1>7. CASE RepairIntent(t)
  <2>1. ASSUME NEW n, NEW f, c.st = "reintent", Move(t, [c EXCEPT !.n = n, !.fresh = f])
        PROVE  Move(t, [c EXCEPT !.st = "reintent", !.n = n, !.fresh = f])
    <3>1. [c EXCEPT !.n = n, !.fresh = f] = [c EXCEPT !.st = "reintent", !.n = n, !.fresh = f]
      BY <1>1, <2>1 DEF TurnState
    <3>2. QED
      BY <2>1, <3>1
  <2>2. CASE EndTurn(t, "failed")
    BY <1>3, <2>2
  <2>3. CASE \E o \in SafeParse(c.n, c.fresh) :
               \/ /\ o.to = "recovered"
                  /\ Move(t, [c EXCEPT !.st = "read", !.n = 1, !.fresh = TRUE])
               \/ o.to = "again" /\ Move(t, [c EXCEPT !.n = o.n, !.fresh = o.fresh])
    <3>1. PICK o \in SafeParse(c.n, c.fresh) :
               \/ Move(t, [c EXCEPT !.st = "read", !.n = 1, !.fresh = TRUE])
               \/ o.to = "again" /\ Move(t, [c EXCEPT !.n = o.n, !.fresh = o.fresh])
      BY <2>3
    <3>2. CASE Move(t, [c EXCEPT !.st = "read", !.n = 1, !.fresh = TRUE])
      BY <3>2, <1>5, FirstAttempt
    <3>3. CASE o.to = "again" /\ Move(t, [c EXCEPT !.n = o.n, !.fresh = o.fresh])
      <4>1. o.n \in 1..MaxAttempts /\ o.fresh \in BOOLEAN
        BY <3>3, RepairTypes
      <4>2. Move(t, [c EXCEPT !.st = "reintent", !.n = o.n, !.fresh = o.fresh])
        BY <3>3, <2>1, <1>7 DEF RepairIntent
      <4>3. QED
        BY <4>1, <4>2, <1>5
    <3>4. QED
      BY <3>1, <3>2, <3>3
  <2>4. QED
    BY <2>2, <2>3, <1>7 DEF RepairIntent
<1>8. CASE ReadContext(t)
  <2>1. PICK x \in {Latest(c.convo), {}} : Move(t, [c EXCEPT !.st = "ask", !.context = x])
    BY <1>8 DEF ReadContext
  <2> DEFINE d == [c EXCEPT !.st = "ask", !.context = x]
  <2>2. x \in SUBSET RowState
    BY <2>1 DEF Latest, Said, IInv
  <2>3. d \in TurnState
    BY <1>1, <2>2 DEF TurnState, TurnPlaces
  <2>4. /\ d.st = "ask" /\ d.called = << >> /\ d.messages = {} /\ d.saves = 0
        /\ d.out = "none" /\ d.ltm = 0 /\ d.cached = 0
    BY <1>1, <1>2 DEF TurnState
  <2>5. Dispatched(d, Len(d.called)) = {}
    BY <2>4 DEF Dispatched
  <2>6. TurnOK(d)
    <3> HIDE DEF d
    <3>1. QED
      BY <2>3, <2>4, <2>5 DEF TurnOK
  <2>7. QED
    BY <1>2, <2>1, <2>3, <2>4, <2>6 DEF TurnMoves
<1>9. QED
  BY <1>6, <1>7, <1>8

\* What is left after a failed publication.
LEMMA UnpublishedOK ==
    ASSUME IInv, NEW t \in Turns, turn[t].st # "done"
    PROVE  LET u == Unpublished(t)
           IN  /\ u \in TurnState
               /\ u.out = "none" /\ u.ltm = 0 /\ u.cached = 0
               /\ u.saves = turn[t].saves + 1
<1>1. turn[t] \in TurnState /\ TurnOK(turn[t])
  BY DEF IInv
<1>2. turn[t].saves \in 0..1 /\ turn[t].saves + 1 \in 0..2
  BY <1>1, UnderWay
<1>3. /\ turn[t].out = "none" /\ turn[t].ltm = 0 /\ turn[t].cached = 0
  BY <1>1, UnderWay
<1>4. QED
  BY <1>1, <1>2, <1>3 DEF Unpublished, TurnState

\* An answer is remembered, or its publication fails and leaves a good record.
LEMMA RememberOK ==
    ASSUME IInv, NEW t \in Turns, turn[t].st # "done",
           NEW d \in TurnState, TurnOK(d), d.saves = turn[t].saves + 1,
           Remember(t, d)
    PROVE  TurnMoves(t)
<1>1. turn[t] \in TurnState /\ TurnOK(turn[t])
  BY DEF IInv
<1>2. turn[t].saves \in 0..1
  BY <1>1, UnderWay
<1>3. ASSUME NEW p \in IF turn[t].hot THEN {0, 1} ELSE {0}, Move(t, Remembered(t, p))
      PROVE  TurnMoves(t)
  <2> DEFINE c == [turn[t] EXCEPT !.bound = TRUE, !.saves = @ + 1, !.ltm = 1, !.cached = p]
  <2>1. 1 \in 0..1 /\ p \in 0..1 /\ turn[t].saves + 1 \in 0..2 /\ turn[t].saves + 1 > 0
    BY <1>2, <1>3
  <2>2. c \in TurnState
    BY <1>1, <2>1 DEF TurnState
  <2>3. c.saves = turn[t].saves + 1 /\ c.ltm = 1 /\ c.cached = p /\ c.hot = turn[t].hot
    BY <1>1 DEF TurnState
  <2>4. c.cached > 0 => c.hot
    BY <2>3, <1>3
  <2>5. "success" \in Outcomes
    BY DEF Outcomes
  <2> HIDE DEF c
  <2>6. /\ EndedTurn(c, "success") \in TurnState /\ TurnOK(EndedTurn(c, "success"))
        /\ EndedTurn(c, "success").saves = c.saves
    BY <2>1, <2>2, <2>3, <2>4, <2>5, EndedTurnOK
  <2>7. QED
    BY <1>3, <2>3, <2>6 DEF Remember, Remembered, TurnMoves, c
<1>4. CASE Move(t, d)
  BY <1>4 DEF Remember, TurnMoves
<1>5. QED
  BY <1>3, <1>4 DEF Remember

\* A turn under way may end without an answer, and go to repair.
LEMMA QuitsOK ==
    ASSUME IInv, NEW t \in Turns, turn[t].st # "done", unsaved' = unsaved
    PROVE  /\ \A out \in {"failed", "raised"} : EndTurn(t, out) => TurnMoves(t)
           /\ \A raw \in {"none", "blank", "text"} : Salvage(t, raw) => TurnMoves(t)
<1>1. turn[t] \in TurnState /\ TurnOK(turn[t])
  BY DEF IInv
<1>2. \A out \in {"failed", "raised"} : EndTurn(t, out) => TurnMoves(t)
  BY <1>1, GivesUp DEF EndTurn, TurnMoves
<1>3. ASSUME NEW raw \in {"none", "blank", "text"}, Salvage(t, raw)
      PROVE  TurnMoves(t)
  <2> DEFINE c == [turn[t] EXCEPT !.raw = raw]
  <2>1. c \in TurnState
    BY <1>1 DEF TurnState
  <2>2. /\ c.out = "none" /\ c.ltm = 0 /\ c.cached = 0
        /\ c.saves = turn[t].saves /\ c.saves \in 0..1
    BY <1>1, UnderWay DEF TurnState
  <2> HIDE DEF c
  <2>3. ToRepair(c) \in TurnState /\ TurnOK(ToRepair(c)) /\ ToRepair(c).saves = turn[t].saves
    BY <2>1, <2>2, ToRepairOK
  <2>4. Move(t, ToRepair(c)) => TurnMoves(t)
    BY <2>3 DEF TurnMoves
  <2>5. QED
    BY <1>2, <1>3, <2>4 DEF Salvage, c
<1>4. QED
  BY <1>2, <1>3

\* A turn stays well formed when the model replies.
LEMMA AskModelOK ==
    ASSUME IInv, NEW t \in Turns, AskModel(t)
    PROVE  TurnMoves(t)
<1>1. turn[t] \in TurnState /\ TurnOK(turn[t]) /\ turn[t].st = "ask"
  BY DEF IInv, AskModel
<1>2. /\ turn[t].saves = 0 /\ turn[t].out = "none"
      /\ turn[t].ltm = 0 /\ turn[t].cached = 0
  BY <1>1, UnderWay
<1>3. CASE FinalReply(t)
  <2> DEFINE u == [Unpublished(t) EXCEPT !.raw = "text"]
             d == ToRepair(u)
  <2>1. /\ u \in TurnState /\ u.out = "none" /\ u.ltm = 0 /\ u.cached = 0
        /\ u.saves = turn[t].saves + 1
    BY <1>1, UnpublishedOK DEF TurnState
  <2>2. d \in TurnState /\ TurnOK(d) /\ d.saves = turn[t].saves + 1
    <3> HIDE DEF u
    <3>1. u.saves \in 0..1
      BY <1>2, <2>1
    <3>2. QED
      BY <2>1, <3>1, ToRepairOK
  <2>3. CASE Remember(t, d)
    BY <1>1, <2>2, <2>3, RememberOK
  <2>4. CASE unsaved' = unsaved /\ (Salvage(t, "text") \/ Salvage(t, turn[t].raw)
                                     \/ EndTurn(t, "failed"))
    <3>1. turn[t].raw \in {"none", "blank", "text"}
      BY <1>1 DEF TurnState
    <3>2. QED
      BY <1>1, <2>4, <3>1, QuitsOK
  <2>5. QED
    BY <1>3, <2>3, <2>4 DEF FinalReply
<1>4. CASE ToolReply(t)
  <2>1. PICK s \in ToolReplies, raw \in {"blank", "text"} :
           /\ IF turn[t].round < MaxToolRounds
                THEN Move(t, [turn[t] EXCEPT !.st = "tools", !.round = @ + 1, !.raw = raw,
                                !.called = s, !.next = 1, !.messages = {}])
                ELSE Salvage(t, raw)
           /\ unsaved' = unsaved
    BY <1>4 DEF ToolReply
  <2>2. CASE turn[t].round < MaxToolRounds
    <3> DEFINE c == [turn[t] EXCEPT !.st = "tools", !.round = @ + 1, !.raw = raw,
                                    !.called = s, !.next = 1, !.messages = {}]
    <3>1. /\ turn[t].round + 1 \in 0..MaxToolRounds
          /\ 1 \in Nat \ {0}
          /\ "tools" \in TurnPlaces
      BY <1>1, <2>2, ConvoAIAssumption DEF TurnState, TurnPlaces
    <3>2. c \in TurnState
      BY <1>1, <3>1 DEF TurnState
    <3>3. /\ c.st = "tools" /\ c.called = s /\ c.next = 1 /\ c.messages = {}
          /\ c.saves = 0 /\ c.out = "none" /\ c.ltm = 0 /\ c.cached = 0
      BY <1>1, <1>2 DEF TurnState
    <3>4. s # << >> /\ 1 <= Len(s)
      BY ConvoAIAssumption
    <3> HIDE DEF c
    <3>5. Dispatched(c, c.next - 1) = {}
      BY <3>3 DEF Dispatched
    <3>6. TurnOK(c)
      BY <3>2, <3>3, <3>4, <3>5 DEF TurnOK
    <3>7. Move(t, c)
      BY <2>1, <2>2 DEF c
    <3>8. QED
      BY <1>2, <2>1, <3>2, <3>3, <3>6, <3>7 DEF TurnMoves
  <2>3. CASE ~(turn[t].round < MaxToolRounds)
    BY <1>1, <2>1, <2>3, QuitsOK
  <2>4. QED
    BY <2>2, <2>3
<1>5. QED
  BY <1>3, <1>4 DEF AskModel

\* The tool call at hand is one of the reply, and what it calls.
LEMMA AtHand ==
    ASSUME IInv, NEW t \in Turns, turn[t].st \in {"tools", "waiting"}
    PROVE  /\ turn[t] \in TurnState /\ TurnOK(turn[t])
           /\ turn[t].next \in 1..Len(turn[t].called)
           /\ Len(turn[t].called) \in Nat
           /\ Tool(t) \in Tools \cup {"unknown"}
           /\ turn[t].messages = Dispatched(turn[t], turn[t].next - 1)
           /\ turn[t].saves = 0 /\ turn[t].out = "none"
           /\ turn[t].ltm = 0 /\ turn[t].cached = 0
           /\ turn[t].messages \subseteq Nat
<1>1. turn[t] \in TurnState /\ TurnOK(turn[t])
  BY DEF IInv
<1>2. turn[t].called \in Seq(Tools \cup {"unknown"})
  BY <1>1, ConvoAIAssumption DEF TurnOK, TurnState
<1>3. turn[t].next \in 1..Len(turn[t].called) /\ Len(turn[t].called) \in Nat
  BY <1>1, <1>2 DEF TurnOK, TurnState
<1>4. Tool(t) \in Tools \cup {"unknown"}
  BY <1>2, <1>3 DEF Tool
<1>5. turn[t].messages \subseteq Nat
  BY <1>1 DEF TurnState
<1>6. QED
  BY <1>1, <1>3, <1>4, <1>5, UnderWay DEF TurnOK

\* A turn stays well formed when a tool call is over.
LEMMA ToolOverOK ==
    ASSUME IInv, NEW t \in Turns, turn[t].st \in {"tools", "waiting"}, unsaved' = unsaved,
           NEW m, m = Dispatched(turn[t], turn[t].next), ToolOver(t, m)
    PROVE  TurnMoves(t)
<1> DEFINE st == IF turn[t].next = Len(turn[t].called) THEN "ask" ELSE "tools"
           c == [turn[t] EXCEPT !.messages = m, !.next = @ + 1, !.waits = NoCall, !.st = st]
<1>1. m \in SUBSET Nat /\ turn[t].next + 1 \in Nat \ {0} /\ st \in TurnPlaces
  BY AtHand DEF Dispatched, TurnPlaces
<1>2. c \in TurnState
  <2>1. turn[t] \in TurnState
    BY AtHand
  <2> HIDE DEF st
  <2>2. QED
    BY <1>1, <2>1 DEF TurnState
<1>3. /\ c.st = st /\ c.called = turn[t].called /\ c.next = turn[t].next + 1
      /\ c.messages = m /\ c.saves = 0 /\ c.out = "none" /\ c.ltm = 0 /\ c.cached = 0
  BY AtHand DEF TurnState
<1>4. c.messages = Dispatched(c, c.next - 1)
  <2> HIDE DEF c
  <2>1. c.next - 1 = turn[t].next
    BY <1>3, AtHand
  <2>2. QED
    BY <1>3, <2>1 DEF Dispatched
<1>5. Move(t, c)
  BY DEF ToolOver
<1> HIDE DEF c
<1>6. TurnOK(c)
  <2>1. CASE turn[t].next = Len(turn[t].called)
    <3>1. c.st = "ask" /\ c.next - 1 = Len(c.called)
      BY <1>3, <2>1, AtHand
    <3>2. QED
      BY <1>2, <1>3, <1>4, <3>1 DEF TurnOK
  <2>2. CASE turn[t].next # Len(turn[t].called)
    <3>1. c.st = "tools" /\ c.next <= Len(c.called)
      BY <1>3, <2>2, AtHand
    <3>2. c.called # << >>
      BY <1>3, AtHand DEF TurnOK
    <3>3. QED
      BY <1>2, <1>3, <1>4, <3>1, <3>2 DEF TurnOK
  <2>3. QED
    BY <2>1, <2>2
<1>7. QED
  BY <1>2, <1>3, <1>5, <1>6, AtHand DEF TurnMoves

\* A turn stays well formed when a tool other than AnswerAI runs.
LEMMA RunToolOK ==
    ASSUME IInv, NEW t \in Turns, RunTool(t) \/ ToolReturns(t)
    PROVE  TurnMoves(t)
<1>1. turn[t].st \in {"tools", "waiting"} /\ unsaved' = unsaved
  BY DEF RunTool, ToolReturns
<1>2. Tool(t) \in Tools =>
        turn[t].messages \cup {turn[t].next} = Dispatched(turn[t], turn[t].next)
  BY <1>1, AtHand DEF Dispatched, Tool
<1>3. Tool(t) = "unknown" => turn[t].messages = Dispatched(turn[t], turn[t].next)
  BY <1>1, AtHand DEF Dispatched, Tool, Tools
<1>4. Answered(t) /\ Tool(t) \in Tools => TurnMoves(t)
  BY <1>1, <1>2, ToolOverOK DEF Answered
<1>5. CASE RunTool(t)
  BY <1>1, <1>3, <1>4, <1>5, AtHand, ToolOverOK DEF RunTool
<1>6. CASE ToolReturns(t)
  <2>1. turn[t].st = "waiting" /\ Answered(t)
    BY <1>6 DEF ToolReturns
  <2>2. Tool(t) \in Tools
    BY <1>1, <2>1, AtHand DEF TurnOK, Tool, Tools
  <2>3. QED
    BY <1>4, <2>1, <2>2
<1>7. QED
  BY <1>5, <1>6

\* A turn and the call it makes are well formed when AnswerAI is called.
LEMMA CallAnswerAIOK ==
    ASSUME IInv, NEW t \in Turns, NEW a \in Calls, CallAnswerAI(t, a)
    PROVE  /\ TurnMoves(t)
           /\ unsaved' = unsaved
           /\ CallOK(Started(TRUE, turn[t].convo, turn[t].hot))
           /\ Started(TRUE, turn[t].convo, turn[t].hot).saves = call[a].saves
<1> DEFINE c == [turn[t] EXCEPT !.st = "waiting", !.waits = a]
<1>1. /\ turn[t].st = "tools" /\ Tool(t) = "tool_answer_ai" /\ call[a] = Idle
      /\ Move(t, c) /\ unsaved' = unsaved
  BY DEF CallAnswerAI
<1>2. c \in TurnState
  <2>1. turn[t] \in TurnState /\ "waiting" \in TurnPlaces
    BY <1>1, AtHand DEF TurnPlaces
  <2>2. QED
    BY <2>1 DEF TurnState
<1>3. /\ c.st = "waiting" /\ c.waits = a /\ c.called = turn[t].called
      /\ c.next = turn[t].next /\ c.messages = turn[t].messages
      /\ c.saves = 0 /\ c.out = "none" /\ c.ltm = 0 /\ c.cached = 0
  BY <1>1, AtHand DEF TurnState
<1> HIDE DEF c
<1>4. TurnOK(c)
  <2>1. c.messages = Dispatched(c, c.next - 1)
    BY <1>1, <1>3, AtHand DEF Dispatched
  <2>2. c.called # << >> /\ c.next <= Len(c.called) /\ c.called[c.next] = "tool_answer_ai"
    BY <1>1, <1>3, AtHand DEF TurnOK, Tool
  <2>3. QED
    BY <1>2, <1>3, <2>1, <2>2 DEF TurnOK
<1>5. turn[t].convo \in Convos \cup {NoConvo} /\ turn[t].hot \in BOOLEAN
  BY <1>1, AtHand DEF TurnState
<1>6. CallOK(Started(TRUE, turn[t].convo, turn[t].hot))
  <2> DEFINE s == Started(TRUE, turn[t].convo, turn[t].hot)
  <2>1. s \in CallState
    BY <1>5, IdleOK DEF Started, CallState, CallPlaces
  <2>2. s.st = "gather" /\ s.out = "none" /\ s.saves = 0 /\ s.pushes = 0
    BY DEF Started, Idle
  <2> HIDE DEF s
  <2>3. CallOK(s)
    BY <2>1, <2>2 DEF CallOK
  <2>4. QED
    BY <2>3 DEF s
<1>7. Started(TRUE, turn[t].convo, turn[t].hot).saves = call[a].saves
  BY <1>1 DEF Started, Idle
<1>8. QED
  BY <1>1, <1>2, <1>3, <1>4, <1>6, <1>7, AtHand DEF TurnMoves

\* A turn stays well formed through its repair.
LEMMA RepairTurnOK ==
    ASSUME IInv, NEW t \in Turns, RepairTurn(t)
    PROVE  TurnMoves(t)
<1>1. turn[t] \in TurnState /\ TurnOK(turn[t]) /\ turn[t].st = "repair"
  BY DEF IInv, RepairTurn
<1>2. /\ turn[t].saves \in 0..1 /\ turn[t].out = "none"
      /\ turn[t].ltm = 0 /\ turn[t].cached = 0
  BY <1>1, UnderWay
<1>3. PICK o \in SafeParse(turn[t].n, turn[t].fresh) :
        \/ Remember(t, EndedTurn(Unpublished(t), "raised"))
        \/ EndTurn(t, "raised") /\ unsaved' = unsaved
        \/ EndTurn(t, "failed") /\ unsaved' = unsaved
        \/ /\ o.to = "again"
           /\ Move(t, [turn[t] EXCEPT !.n = o.n, !.fresh = o.fresh])
           /\ unsaved' = unsaved
  BY DEF RepairTurn
<1>4. CASE Remember(t, EndedTurn(Unpublished(t), "raised"))
  <2> DEFINE u == Unpublished(t)
  <2>1. /\ u \in TurnState /\ u.out = "none" /\ u.ltm = 0 /\ u.cached = 0
        /\ u.saves = turn[t].saves + 1
    BY <1>1, UnpublishedOK
  <2> HIDE DEF u
  <2>2. "raised" \in Outcomes
    BY DEF Outcomes
  <2>3. /\ EndedTurn(u, "raised") \in TurnState /\ TurnOK(EndedTurn(u, "raised"))
        /\ EndedTurn(u, "raised").saves = turn[t].saves + 1
    BY <2>1, <2>2, EndedTurnOK
  <2>4. QED
    BY <1>1, <1>4, <2>3, RememberOK DEF u
<1>5. CASE unsaved' = unsaved /\ (EndTurn(t, "raised") \/ EndTurn(t, "failed"))
  BY <1>1, <1>5, QuitsOK
<1>6. CASE /\ o.to = "again"
           /\ Move(t, [turn[t] EXCEPT !.n = o.n, !.fresh = o.fresh])
           /\ unsaved' = unsaved
  <2> DEFINE c == [turn[t] EXCEPT !.n = o.n, !.fresh = o.fresh]
  <2>1. o.n \in 1..MaxAttempts /\ o.fresh \in BOOLEAN
    BY <1>6, RepairTypes
  <2>2. c \in TurnState
    BY <1>1, <2>1 DEF TurnState
  <2>3. /\ c.st = "repair" /\ c.saves = turn[t].saves /\ c.out = "none"
        /\ c.ltm = 0 /\ c.cached = 0
    BY <1>1, <1>2 DEF TurnState
  <2> HIDE DEF c
  <2>4. TurnOK(c)
    BY <1>2, <2>2, <2>3 DEF TurnOK
  <2>5. QED
    BY <1>6, <2>2, <2>3, <2>4 DEF TurnMoves, c
<1>7. QED
  BY <1>3, <1>4, <1>5, <1>6

-----------------------------------------------------------------------------
CallsOK ==
    /\ call \in [Calls -> CallState]
    /\ pending \in [Calls -> 0..1]
    /\ \A a \in Calls : CallOK(call[a]) /\ pending[a] <= call[a].saves

TurnsOK ==
    /\ turn \in [Turns -> TurnState]
    /\ unsaved \in [Turns -> 0..2]
    /\ \A t \in Turns : TurnOK(turn[t]) /\ unsaved[t] <= turn[t].saves

\* A well-formed move of one call, or of one turn, keeps them all well formed.
LEMMA CallMove ==
    ASSUME CallsOK, NEW a \in Calls, NEW c \in CallState, CallOK(c), Step(a, c),
           \/ pending' = pending /\ c.saves = call[a].saves
           \/ pending' = [pending EXCEPT ![a] = 1] /\ c.saves = 1
    PROVE  CallsOK'
<1>1. call' \in [Calls -> CallState] /\ pending' \in [Calls -> 0..1]
  BY DEF CallsOK, Step
<1>2. ASSUME NEW b \in Calls PROVE CallOK(call'[b]) /\ pending'[b] <= call'[b].saves
  <2>1. CASE b = a
    BY <2>1 DEF CallsOK, Step
  <2>2. CASE b # a
    BY <2>2 DEF CallsOK, Step
  <2>3. QED
    BY <2>1, <2>2
<1>3. QED
  BY <1>1, <1>2 DEF CallsOK, CallOK

\* A turn that moves by itself keeps all turns, calls and rows well formed.
LEMMA TurnMove ==
    ASSUME TurnsOK, NEW t \in Turns, TurnMoves(t)
    PROVE  TurnsOK'
<1>1. PICK c \in TurnState :
        /\ TurnOK(c)
        /\ Move(t, c)
        /\ \/ unsaved' = unsaved /\ c.saves = turn[t].saves
           \/ unsaved' = [unsaved EXCEPT ![t] = @ + 1] /\ c.saves = turn[t].saves + 1
  BY DEF TurnMoves
<1>2. turn' = [turn EXCEPT ![t] = c] /\ turn' \in [Turns -> TurnState]
  BY <1>1 DEF TurnsOK, Move
<1>3. c.saves \in 0..2 /\ turn[t].saves \in 0..2 /\ unsaved[t] \in 0..2
      /\ unsaved[t] <= turn[t].saves
  BY <1>1 DEF TurnsOK, TurnState
<1>4. unsaved' \in [Turns -> 0..2] /\ unsaved'[t] <= c.saves
      /\ \A u \in Turns \ {t} : unsaved'[u] = unsaved[u]
  <2>1. CASE unsaved' = unsaved /\ c.saves = turn[t].saves
    BY <2>1, <1>3 DEF TurnsOK
  <2>2. CASE unsaved' = [unsaved EXCEPT ![t] = @ + 1] /\ c.saves = turn[t].saves + 1
    <3>1. unsaved[t] + 1 \in 0..2 /\ unsaved[t] + 1 <= c.saves
      BY <2>2, <1>3
    <3>2. QED
      BY <2>2, <3>1 DEF TurnsOK
  <2>3. QED
    BY <1>1, <2>1, <2>2
<1>5. ASSUME NEW u \in Turns PROVE TurnOK(turn'[u]) /\ unsaved'[u] <= turn'[u].saves
  BY <1>1, <1>2, <1>4 DEF TurnsOK
<1>6. QED
  BY <1>2, <1>4, <1>5 DEF TurnsOK, TurnOK

\* A commit adds one well-formed row.
LEMMA RowOK ==
    ASSUME IInv, NEW by \in Calls \cup Turns, NEW k \in Convos \cup {NoConvo},
           NEW source \in {"answer_ai", "continue_convo"}
    PROVE  /\ Row(by, source, k) \in RowState
           /\ IsFiniteSet(rows \cup {Row(by, source, k)})
<1>1. Cardinality(rows) + 1 \in Nat
  BY FS_CardinalityType DEF IInv
<1>2. IsFiniteSet(rows \cup {Row(by, source, k)})
  BY FS_AddElement DEF IInv
<1>3. QED
  BY <1>1, <1>2 DEF Row, RowState

\* The background commit of a turn keeps its turn well formed.
LEMMA PersistOK ==
    ASSUME IInv
    PROVE  /\ \A a \in Calls : Persist(a) /\ UNCHANGED <<turn, unsaved>> => IInv'
           /\ \A t \in Turns : PersistTurn(t) => IInv'
<1>1. ASSUME NEW a \in Calls, Persist(a), UNCHANGED <<turn, unsaved>> PROVE IInv'
  <2>1. call[a].convo \in Convos \cup {NoConvo}
    BY DEF IInv, CallState
  <2>2. rows' \subseteq RowState /\ IsFiniteSet(rows')
    BY <1>1, <2>1, RowOK DEF Persist, IInv
  <2>3. pending' \in [Calls -> 0..1]
    BY <1>1 DEF Persist, IInv
  <2>4. \A b \in Calls : pending'[b] <= pending[b]
    BY <1>1 DEF Persist, IInv
  <2>5. \A b \in Calls : pending'[b] <= call[b].saves
    BY <2>3, <2>4 DEF IInv, CallState
  <2>6. QED
    BY <1>1, <2>2, <2>3, <2>5 DEF Persist, IInv, CallOK, TurnOK, Dispatched
<1>2. ASSUME NEW t \in Turns, PersistTurn(t) PROVE IInv'
  <2>1. turn[t].convo \in Convos \cup {NoConvo}
    BY DEF IInv, TurnState
  <2>2. rows' \subseteq RowState /\ IsFiniteSet(rows')
    BY <1>2, <2>1, RowOK DEF PersistTurn, IInv
  <2>3. unsaved' \in [Turns -> 0..2]
    BY <1>2 DEF PersistTurn, IInv
  <2>4. \A u \in Turns : unsaved'[u] <= unsaved[u]
    BY <1>2 DEF PersistTurn, IInv
  <2>5. ASSUME NEW u \in Turns PROVE unsaved'[u] <= turn[u].saves
    <3>1. unsaved[u] \in 0..2 /\ unsaved'[u] \in 0..2 /\ turn[u].saves \in 0..2
      BY <2>3 DEF IInv, TurnState
    <3>2. unsaved'[u] <= unsaved[u] /\ unsaved[u] <= turn[u].saves
      BY <2>4 DEF IInv
    <3>3. QED
      BY <3>1, <3>2
  <2>6. QED
    BY <1>2, <2>2, <2>3, <2>5 DEF PersistTurn, IInv, CallOK, TurnOK, Dispatched
<1>3. QED
  BY <1>1, <1>2

\* The invariant by its parts.
LEMMA InvParts == IInv <=> CallsOK /\ TurnsOK /\ rows \subseteq RowState /\ IsFiniteSet(rows)
  BY DEF IInv, CallsOK, TurnsOK

\* The invariant holds at first.
LEMMA Initially == Init => IInv
<1>1. ASSUME Init PROVE CallsOK
  <2>1. Idle.saves = 0 /\ 0 \in 0..1
    BY DEF Idle
  <2>2. QED
    BY <1>1, <2>1, IdleOK DEF Init, AnswerInit, CallsOK
<1>2. ASSUME Init PROVE TurnsOK
  <2>1. IdleTurn.saves = 0 /\ 0 \in 0..2
    BY DEF IdleTurn
  <2>2. QED
    BY <1>2, <2>1, IdleTurnOK DEF Init, TurnsOK
<1>3. Init => rows \subseteq RowState /\ IsFiniteSet(rows)
  BY FS_EmptySet DEF Init, AnswerInit
<1>4. QED
  BY <1>1, <1>2, <1>3, InvParts

\* A question asked directly starts a well-formed call.
LEMMA QuestionOK ==
    ASSUME IInv, NEW a \in Calls, NEW hot \in BOOLEAN, Question(a, hot)
    PROVE  CallsOK'
<1>1. CallsOK /\ pending' = pending /\ call[a].saves = 0
  BY InvParts DEF Question, Idle
<1>2. CASE Step(a, Started(FALSE, NoConvo, hot))
  <2> DEFINE s == Started(FALSE, NoConvo, hot)
  <2>1. s \in CallState
    BY IdleOK DEF Started, CallState, CallPlaces
  <2>2. s.st = "gather" /\ s.out = "none" /\ s.saves = 0 /\ s.pushes = 0
    BY DEF Started, Idle
  <2> HIDE DEF s
  <2>3. CallOK(s)
    BY <2>1, <2>2 DEF CallOK
  <2>4. QED
    BY <1>1, <1>2, <2>1, <2>2, <2>3, CallMove DEF s
<1>3. CASE Step(a, Ended([Idle EXCEPT !.hot = hot], "failed"))
  <2> DEFINE i == [Idle EXCEPT !.hot = hot]
  <2>1. i \in CallState
    BY IdleOK DEF CallState
  <2>2. i.st = "idle" /\ i.out = "none" /\ i.saves = 0 /\ i.pushes = 0
    BY DEF Idle
  <2> HIDE DEF i
  <2>3. CallOK(i)
    BY <2>1, <2>2 DEF CallOK
  <2>4. CallOK(Ended(i, "failed")) /\ Ended(i, "failed").saves = 0
    BY <2>2, <2>3, EndedOK
  <2>5. Ended(i, "failed") \in CallState
    BY <2>4 DEF CallOK
  <2>6. QED
    BY <1>1, <1>3, <2>4, <2>5, CallMove DEF i
<1>4. QED
  BY <1>2, <1>3 DEF Question

\* The steps keep the invariant: those of a call, those of a turn, the one that
\* starts a call for a turn, and the commits.
LEMMA Preserved == IInv /\ [Next]_vars => IInv'
<1> SUFFICES ASSUME IInv, [Next]_vars PROVE IInv'
  OBVIOUS
<1>1. CallsOK /\ TurnsOK /\ rows \subseteq RowState /\ IsFiniteSet(rows)
  BY InvParts
<1>2. ASSUME UNCHANGED rows, CallsOK', TurnsOK' PROVE IInv'
  BY <1>1, <1>2 DEF IInv, CallsOK, TurnsOK
<1>3. ASSUME UNCHANGED <<turn, unsaved>> PROVE TurnsOK'
  BY <1>1, <1>3 DEF TurnsOK, TurnOK, Dispatched
<1>4. ASSUME UNCHANGED <<call, pending>> PROVE CallsOK'
  BY <1>1, <1>4 DEF CallsOK, CallOK
<1>5. ASSUME NEW a \in Calls, NEW hot \in BOOLEAN, Question(a, hot), UNCHANGED <<turn, unsaved>>
      PROVE  IInv'
  BY <1>2, <1>3, <1>5, QuestionOK DEF Question
<1>6. ASSUME NEW a \in Calls, CallStep(a), UNCHANGED <<turn, unsaved>>
      PROVE  IInv'
  <2>1. PICK c \in CallState :
           /\ CallOK(c) /\ Step(a, c) /\ rows' = rows
           /\ \/ pending' = pending /\ c.saves = call[a].saves
              \/ pending' = [pending EXCEPT ![a] = 1] /\ c.saves = 1
    BY <1>6, CallStepOK
  <2>2. CallsOK'
    BY <1>1, <2>1, CallMove
  <2>3. QED
    BY <1>2, <1>3, <1>6, <2>1, <2>2
<1>7. ASSUME NEW t \in Turns, TurnMoves(t), UNCHANGED <<call, rows, pending>>
      PROVE  IInv'
  BY <1>1, <1>2, <1>4, <1>7, TurnMove
<1>8. ASSUME NEW t \in Turns, NEW a \in Calls, CallAnswerAI(t, a)
      PROVE  IInv'
  <2> DEFINE c == Started(TRUE, turn[t].convo, turn[t].hot)
  <2>1. CallOK(c) /\ c \in CallState /\ c.saves = call[a].saves /\ TurnMoves(t)
    BY <1>8, CallAnswerAIOK DEF CallOK
  <2>2. Step(a, c) /\ pending' = pending /\ rows' = rows
    BY <1>8 DEF CallAnswerAI
  <2>3. CallsOK'
    BY <1>1, <2>1, <2>2, CallMove
  <2>4. QED
    BY <1>1, <1>2, <2>1, <2>2, <2>3, TurnMove
<1>9. ASSUME NEW t \in Turns, TurnStep(t) PROVE IInv'
  <2>1. CASE Intent(t) \/ RepairIntent(t) \/ ReadContext(t)
    BY <1>7, <2>1, IntentOK DEF Intent, RepairIntent, ReadContext, answerVars
  <2>2. CASE AskModel(t)
    BY <1>7, <2>2, AskModelOK DEF AskModel, answerVars
  <2>3. CASE RunTool(t) \/ ToolReturns(t)
    BY <1>7, <2>3, RunToolOK DEF RunTool, ToolReturns, answerVars
  <2>4. CASE \E a \in Calls : CallAnswerAI(t, a)
    BY <1>8, <2>4
  <2>5. CASE RepairTurn(t)
    BY <1>7, <2>5, RepairTurnOK DEF RepairTurn, answerVars
  <2>6. QED
    BY <1>9, <2>1, <2>2, <2>3, <2>4, <2>5 DEF TurnStep
<1>10. ASSUME NEW t \in Turns, NEW k \in Convos, NEW hot \in BOOLEAN, StartTurn(t, k, hot)
       PROVE  IInv'
  BY <1>7, <1>10, StartTurnOK DEF StartTurn, answerVars
<1>11. CASE UNCHANGED vars
  BY <1>2, <1>3, <1>4, <1>11 DEF vars
<1>12. CASE Next
  BY <1>5, <1>6, <1>9, <1>10, <1>12, PersistOK DEF Next
<1>13. QED
  BY <1>11, <1>12

\* IInv is an invariant of the conversations.
LEMMA Invariant == Spec => []IInv
  BY Initially, Preserved, PTL DEF Spec

-----------------------------------------------------------------------------
\* The types hold, the counts of tasks and rounds included.
THEOREM ConvoTypeCorrect == Spec => []TypeOK
<1>1. IInv => TypeOK
  BY DEF IInv, TypeOK
<1>2. QED
  BY <1>1, Invariant, PTL

\* What Answer_ai hands to the store and to the cache follows its outcome.
THEOREM AnswersAreKept == Spec => []AnswerKept
<1>1. IInv => AnswerKept
  BY DEF IInv, CallOK, AnswerKept
<1>2. QED
  BY <1>1, Invariant, PTL

\* So does what continue_convo hands to the store, the memory and the cache.
THEOREM TurnsAreKept == Spec => []TurnKept
<1>1. IInv => TurnKept
  BY DEF IInv, TurnOK, TurnKept
<1>2. QED
  BY <1>1, Invariant, PTL

\* The model is asked again only with a ToolMessage for every dispatched call,
\* whatever tools it calls and however many rounds are allowed.
THEOREM ToolCallsAreAnswered == Spec => []ToolCallsAnswered
<1>1. IInv => ToolCallsAnswered
  <2> SUFFICES ASSUME IInv, NEW t \in Turns, turn[t].st = "ask"
               PROVE  turn[t].messages =
                        {i \in DOMAIN turn[t].called : turn[t].called[i] \in Tools}
    BY DEF ToolCallsAnswered
  <2>1. turn[t].messages = Dispatched(turn[t], Len(turn[t].called))
    BY DEF IInv, TurnOK
  <2>2. turn[t].called \in Seq(Tools \cup {"unknown"})
    <3>1. turn[t].called \in ToolReplies \cup {<< >>}
      BY DEF IInv, TurnState
    <3>2. << >> \in Seq(Tools \cup {"unknown"})
      OBVIOUS
    <3>3. QED
      BY <3>1, <3>2, ConvoAIAssumption
  <2>3. DOMAIN turn[t].called = 1..Len(turn[t].called)
    BY <2>2
  <2>4. QED
    BY <2>1, <2>3 DEF Dispatched
<1>2. QED
  BY <1>1, Invariant, PTL

-----------------------------------------------------------------------------
\* A request that has saved its answer is over, but for a turn in repair.  What
\* it saved and what is still on its way then only change together.
LEMMA RepairKeeps ==
    ASSUME IInv, NEW t \in Turns, RepairTurn(t)
    PROVE  turn'[t].convo = turn[t].convo
<1>1. turn \in [Turns -> TurnState] /\ turn[t] \in TurnState
  BY DEF IInv
<1>2. \A out \in {"failed", "raised"} : EndTurn(t, out) => turn'[t].convo = turn[t].convo
  BY <1>1, IdleTurnOK DEF EndTurn, Move, EndedTurn, TurnState
<1>3. \A n \in 1..MaxAttempts, f \in BOOLEAN :
        Move(t, [turn[t] EXCEPT !.n = n, !.fresh = f]) => turn'[t].convo = turn[t].convo
  BY <1>1 DEF Move, TurnState
<1>4. \A p \in {0, 1} : Move(t, Remembered(t, p)) => turn'[t].convo = turn[t].convo
  BY <1>1, IdleTurnOK DEF Remembered, Move, EndedTurn, TurnState
<1>5. Move(t, EndedTurn(Unpublished(t), "raised")) => turn'[t].convo = turn[t].convo
  BY <1>1, IdleTurnOK DEF Move, EndedTurn, Unpublished, TurnState
<1>6. QED
  BY <1>2, <1>3, <1>4, <1>5, RepairTypes DEF RepairTurn, Remember

KeepsCall(a) == \/ call[a].saves = 0
                \/ call'[a] = call[a] /\ pending'[a] <= pending[a]
KeepsTurn(t) == \/ turn[t].saves = 0
                \/ turn'[t] = turn[t] /\ unsaved'[t] <= unsaved[t]
                \/ /\ turn'[t].convo = turn[t].convo
                   /\ turn'[t].saves - unsaved'[t] = turn[t].saves - unsaved[t]

\* A step keeps, for every writer, what its rows are accounted by.
LEMMA WritersKept ==
    ASSUME IInv, [Next]_vars
    PROVE  (\A a \in Calls : KeepsCall(a)) /\ (\A t \in Turns : KeepsTurn(t))
<1> DEFINE P == (\A a \in Calls : KeepsCall(a)) /\ (\A t \in Turns : KeepsTurn(t))
<1>1. /\ call \in [Calls -> CallState] /\ turn \in [Turns -> TurnState]
      /\ pending \in [Calls -> 0..1] /\ unsaved \in [Turns -> 0..2]
  BY DEF IInv
<1>2. UNCHANGED <<call, pending>> => \A a \in Calls : KeepsCall(a)
  BY <1>1 DEF KeepsCall
<1>3. UNCHANGED <<turn, unsaved>> => \A t \in Turns : KeepsTurn(t)
  BY <1>1 DEF KeepsTurn
<1>4. ASSUME NEW a \in Calls, NEW c, Step(a, c), call[a].saves = 0,
             pending' = pending \/ pending' = [pending EXCEPT ![a] = 1]
      PROVE  \A b \in Calls : KeepsCall(b)
  BY <1>1, <1>4 DEF Step, KeepsCall
<1>5. ASSUME NEW t \in Turns, TurnMoves(t), turn[t].saves = 0 \/ RepairTurn(t)
      PROVE  \A u \in Turns : KeepsTurn(u)
  <2>1. PICK c \in TurnState :
           /\ Move(t, c)
           /\ \/ unsaved' = unsaved /\ c.saves = turn[t].saves
              \/ unsaved' = [unsaved EXCEPT ![t] = @ + 1] /\ c.saves = turn[t].saves + 1
    BY <1>5 DEF TurnMoves
  <2>2. \A u \in Turns \ {t} : turn'[u] = turn[u] /\ unsaved'[u] = unsaved[u]
    BY <1>1, <2>1 DEF Move
  <2>3. \A u \in Turns \ {t} : KeepsTurn(u)
    BY <1>1, <2>2 DEF KeepsTurn
  <2>4. turn'[t] = c /\ turn[t].saves \in 0..2 /\ unsaved[t] \in 0..2
    BY <1>1, <2>1 DEF Move, TurnState
  <2>5. turn'[t].saves - unsaved'[t] = turn[t].saves - unsaved[t]
    BY <1>1, <2>1, <2>4
  <2>6. KeepsTurn(t)
    BY <1>5, <2>5, RepairKeeps DEF KeepsTurn
  <2>7. QED
    BY <2>3, <2>6
<1>6. ASSUME NEW t \in Turns, turn[t].st \notin {"repair", "done"}
      PROVE  turn[t].saves = 0
  BY <1>6 DEF IInv, TurnOK
<1>7. ASSUME NEW a \in Calls, NEW hot \in BOOLEAN, Question(a, hot), UNCHANGED <<turn, unsaved>>
      PROVE  P
  <2>1. call[a].saves = 0 /\ pending' = pending
    BY <1>7 DEF Question, Idle
  <2>2. \E c : Step(a, c)
    BY <1>7 DEF Question
  <2>3. QED
    BY <1>3, <1>4, <1>7, <2>1, <2>2
<1>8. ASSUME NEW a \in Calls, CallStep(a), UNCHANGED <<turn, unsaved>> PROVE P
  <2>1. call[a].st # "done"
    BY <1>8 DEF CallStep, BuildRetriever, Classify, RepairClass, Join, Strategy, MultiIndex,
           Expand, RepairExpansion, Search, Fallback, Rerank, Generate, RepairAnswer
  <2>2. call[a].saves = 0
    BY <2>1 DEF IInv, CallOK
  <2>3. QED
    BY <1>3, <1>4, <1>8, <2>2, CallStepOK
<1>9. ASSUME NEW a \in Calls, Persist(a), UNCHANGED <<turn, unsaved>> PROVE P
  BY <1>1, <1>3, <1>9 DEF Persist, KeepsCall
<1>10. ASSUME NEW t \in Turns, PersistTurn(t) PROVE P
  BY <1>1, <1>2, <1>10 DEF PersistTurn, KeepsTurn
<1>11. ASSUME NEW t \in Turns, NEW k \in Convos, NEW hot \in BOOLEAN, StartTurn(t, k, hot)
       PROVE  P
  <2>1. turn[t].saves = 0
    BY <1>11 DEF StartTurn, IdleTurn
  <2>2. QED
    BY <1>2, <1>5, <1>11, <2>1, StartTurnOK DEF StartTurn, answerVars
<1>12. ASSUME NEW t \in Turns, TurnStep(t) PROVE P
  <2>1. CASE Intent(t) \/ RepairIntent(t) \/ ReadContext(t)
    BY <1>2, <1>5, <1>6, <2>1, IntentOK DEF Intent, RepairIntent, ReadContext, answerVars
  <2>2. CASE AskModel(t)
    BY <1>2, <1>5, <1>6, <2>2, AskModelOK DEF AskModel, answerVars
  <2>3. CASE RunTool(t) \/ ToolReturns(t)
    BY <1>2, <1>5, <1>6, <2>3, RunToolOK DEF RunTool, ToolReturns, answerVars
  <2>4. ASSUME NEW a \in Calls, CallAnswerAI(t, a) PROVE P
    <3>1. call[a].saves = 0 /\ turn[t].st = "tools" /\ pending' = pending
      BY <2>4 DEF CallAnswerAI, Idle
    <3>2. \E c : Step(a, c)
      BY <2>4 DEF CallAnswerAI
    <3>3. QED
      BY <1>4, <1>5, <1>6, <2>4, <3>1, <3>2, CallAnswerAIOK
  <2>5. CASE RepairTurn(t)
    BY <1>2, <1>5, <2>5, RepairTurnOK DEF RepairTurn, answerVars
  <2>6. QED
    BY <1>12, <2>1, <2>2, <2>3, <2>4, <2>5 DEF TurnStep
<1>13. CASE UNCHANGED vars
  BY <1>2, <1>3, <1>13 DEF vars
<1>14. QED
  BY <1>7, <1>8, <1>9, <1>10, <1>11, <1>12, <1>13 DEF Next

\* A commit moves a task's answer into the table: one row more, one task less.
LEMMA RowsOfCommit ==
    ASSUME IInv, NEW by \in Calls \cup Turns, NEW source, NEW k,
           rows' = rows \cup {Row(by, source, k)}
    PROVE  /\ \A w \in Calls \cup Turns : Cardinality(RowsOf(w)) \in Nat
           /\ \A w \in Calls \cup Turns : w # by => RowsOf(w)' = RowsOf(w)
           /\ Cardinality(RowsOf(by)') \in Nat
           /\ Cardinality(RowsOf(by)') <= Cardinality(RowsOf(by)) + 1
<1> DEFINE x == Row(by, source, k)
<1>1. x.by = by
  BY DEF Row
<1> HIDE DEF x
<1>2. \A w \in Calls \cup Turns : w # by => RowsOf(w)' = RowsOf(w)
  BY <1>1 DEF RowsOf, x
<1>3. RowsOf(by)' = RowsOf(by) \cup {x}
  BY <1>1 DEF RowsOf, x
<1>4. \A w : IsFiniteSet(RowsOf(w))
  BY FS_Subset DEF IInv, RowsOf
<1>5. \A w : Cardinality(RowsOf(w)) \in Nat
  BY <1>4, FS_CardinalityType
<1>6. /\ Cardinality(RowsOf(by) \cup {x}) \in Nat
      /\ Cardinality(RowsOf(by) \cup {x}) <= Cardinality(RowsOf(by)) + 1
  <2> DEFINE S == RowsOf(by)
  <2>1. IsFiniteSet(S) /\ Cardinality(S) \in Nat
    BY <1>4, <1>5
  <2> HIDE DEF S
  <2>2. Cardinality(S \cup {x}) = IF x \in S THEN Cardinality(S) ELSE Cardinality(S) + 1
    BY <2>1, FS_AddElement
  <2>3. QED
    BY <2>1, <2>2 DEF S
<1>7. QED
  BY <1>2, <1>3, <1>5, <1>6

\* The rows of a writer that has saved nothing.
LEMMA NoRowsYet ==
    ASSUME IInv, NEW w \in Calls \cup Turns, NEW p \in Nat, Cardinality(RowsOf(w)) + p <= 0
    PROVE  RowsOf(w) = {}
<1>1. IsFiniteSet(RowsOf(w))
  BY FS_Subset DEF IInv, RowsOf
<1>2. Cardinality(RowsOf(w)) \in Nat
  BY <1>1, FS_CardinalityType
<1>3. Cardinality(RowsOf(w)) = 0
  BY <1>2
<1>4. QED
  BY <1>1, <1>3, FS_EmptySet

\* A step that commits nothing: the writers that have rows keep what they saved.
LEMMA NoCommit ==
    ASSUME IInv, IInv', RowsAccounted, [Next]_vars, rows' = rows
    PROVE  RowsAccounted'
<1>1. \A w \in Calls \cup Turns : RowsOf(w)' = RowsOf(w) /\ Cardinality(RowsOf(w)) \in Nat
  BY FS_Subset, FS_CardinalityType DEF RowsOf, IInv
<1>2. ASSUME NEW a \in Calls
      PROVE  /\ Cardinality(RowsOf(a)) + pending'[a] <= call'[a].saves
             /\ RowsOf(a) # {} => call'[a].convo = call[a].convo
  <2>1. /\ pending[a] \in 0..1 /\ pending'[a] \in 0..1 /\ call'[a].saves \in 0..1
        /\ pending'[a] <= call'[a].saves
    BY DEF IInv, CallState
  <2>2. Cardinality(RowsOf(a)) + pending[a] <= call[a].saves
    BY DEF RowsAccounted
  <2>3. CASE call[a].saves = 0
    <3>1. RowsOf(a) = {}
      BY <2>1, <2>2, <2>3, NoRowsYet
    <3>2. QED
      BY <2>1, <3>1, FS_EmptySet
  <2>4. CASE call'[a] = call[a] /\ pending'[a] <= pending[a]
    BY <1>1, <2>1, <2>2, <2>4
  <2>5. QED
    BY <2>3, <2>4, WritersKept DEF KeepsCall
<1>3. ASSUME NEW t \in Turns
      PROVE  /\ Cardinality(RowsOf(t)) + unsaved'[t] <= turn'[t].saves
             /\ RowsOf(t) # {} => turn'[t].convo = turn[t].convo
  <2>1. /\ unsaved[t] \in 0..2 /\ unsaved'[t] \in 0..2 /\ turn'[t].saves \in 0..2
        /\ turn[t].saves \in 0..2 /\ unsaved'[t] <= turn'[t].saves
    BY DEF IInv, TurnState
  <2>2. Cardinality(RowsOf(t)) + unsaved[t] <= turn[t].saves
    BY DEF RowsAccounted
  <2>3. CASE turn[t].saves = 0
    <3>1. RowsOf(t) = {}
      BY <2>1, <2>2, <2>3, NoRowsYet
    <3>2. QED
      BY <2>1, <3>1, FS_EmptySet
  <2>4. CASE turn[t].saves # 0
    <3>1. \/ turn'[t] = turn[t] /\ unsaved'[t] <= unsaved[t]
          \/ /\ turn'[t].convo = turn[t].convo
             /\ turn'[t].saves - unsaved'[t] = turn[t].saves - unsaved[t]
      BY <2>4, WritersKept DEF KeepsTurn
    <3>2. Cardinality(RowsOf(t)) \in Nat
      BY <1>1
    <3>3. CASE turn'[t] = turn[t] /\ unsaved'[t] <= unsaved[t]
      BY <2>1, <2>2, <3>2, <3>3
    <3>4. CASE /\ turn'[t].convo = turn[t].convo
               /\ turn'[t].saves - unsaved'[t] = turn[t].saves - unsaved[t]
      <4>1. Cardinality(RowsOf(t)) <= turn[t].saves - unsaved[t]
        BY <2>1, <2>2, <3>2
      <4>2. QED
        BY <2>1, <3>2, <3>4, <4>1
    <3>5. QED
      BY <3>1, <3>3, <3>4
  <2>5. QED
    BY <2>3, <2>4
<1>4. ASSUME NEW r \in rows
      PROVE  r.convo = IF r.by \in Calls THEN call'[r.by].convo ELSE turn'[r.by].convo
  <2>1. r.by \in Calls \cup Turns /\ r \in RowsOf(r.by)
    BY DEF IInv, RowState, RowsOf
  <2>2. QED
    BY <1>2, <1>3, <2>1 DEF RowsAccounted
<1>5. QED
  BY <1>1, <1>2, <1>3, <1>4 DEF RowsAccounted

\* The commit of a call's row keeps the account.
LEMMA CommitOfCall ==
    ASSUME IInv, RowsAccounted, NEW a \in Calls, Persist(a), UNCHANGED <<turn, unsaved>>,
           rows' = rows \cup {Row(a, "answer_ai", call[a].convo)}
    PROVE  RowsAccounted'
<1>1. /\ \A w \in Calls \cup Turns : w # a => RowsOf(w)' = RowsOf(w)
      /\ Cardinality(RowsOf(a)) \in Nat /\ Cardinality(RowsOf(a)') \in Nat
      /\ Cardinality(RowsOf(a)') <= Cardinality(RowsOf(a)) + 1
  BY RowsOfCommit
<1>2. /\ pending' = [pending EXCEPT ![a] = pending[a] - 1] /\ call' = call
      /\ pending \in [Calls -> 0..1] /\ call[a].saves \in 0..1
      /\ a \notin Turns
  BY ConvoAIAssumption DEF Persist, IInv, CallState
<1>3. Cardinality(RowsOf(a)') + pending'[a] <= call[a].saves
  <2>1. pending'[a] = pending[a] - 1 /\ pending[a] \in 0..1
    BY <1>2
  <2>2. Cardinality(RowsOf(a)) + pending[a] <= call[a].saves
    BY DEF RowsAccounted
  <2>3. QED
    BY <1>1, <1>2, <2>1, <2>2
<1>4. \A b \in Calls \ {a} : pending'[b] = pending[b]
  BY <1>2
<1>5. \A r \in rows' : r.convo = IF r.by \in Calls THEN call[r.by].convo ELSE turn[r.by].convo
  BY DEF Row, RowsAccounted
<1>6. QED
  BY <1>1, <1>2, <1>3, <1>4, <1>5 DEF RowsAccounted

\* The commit of a turn's row keeps the account.
LEMMA CommitOfTurn ==
    ASSUME IInv, RowsAccounted, NEW t \in Turns, PersistTurn(t),
           rows' = rows \cup {Row(t, "continue_convo", turn[t].convo)}
    PROVE  RowsAccounted'
<1>1. /\ \A w \in Calls \cup Turns : w # t => RowsOf(w)' = RowsOf(w)
      /\ Cardinality(RowsOf(t)) \in Nat /\ Cardinality(RowsOf(t)') \in Nat
      /\ Cardinality(RowsOf(t)') <= Cardinality(RowsOf(t)) + 1
  BY RowsOfCommit
<1>2. /\ unsaved' = [unsaved EXCEPT ![t] = unsaved[t] - 1] /\ turn' = turn
      /\ call' = call /\ pending' = pending
      /\ unsaved \in [Turns -> 0..2] /\ turn[t].saves \in 0..2
      /\ t \notin Calls
  BY ConvoAIAssumption DEF PersistTurn, IInv, TurnState
<1>3. Cardinality(RowsOf(t)') + unsaved'[t] <= turn[t].saves
  <2>1. unsaved'[t] = unsaved[t] - 1 /\ unsaved[t] \in 0..2
    BY <1>2
  <2>2. Cardinality(RowsOf(t)) + unsaved[t] <= turn[t].saves
    BY DEF RowsAccounted
  <2>3. QED
    BY <1>1, <1>2, <2>1, <2>2
<1>4. \A u \in Turns \ {t} : unsaved'[u] = unsaved[u]
  BY <1>2
<1>5. \A r \in rows' : r.convo = IF r.by \in Calls THEN call[r.by].convo ELSE turn[r.by].convo
  BY <1>2 DEF Row, RowsAccounted
<1>6. QED
  BY <1>1, <1>2, <1>3, <1>4, <1>5 DEF RowsAccounted

\* The table never holds more rows of a request than it saved, nor one of another
\* conversation.
THEOREM RowsAreAccounted == Spec => []RowsAccounted
<1>1. Init => RowsAccounted
  <2>1. ASSUME Init, NEW w \in Calls \cup Turns PROVE Cardinality(RowsOf(w)) = 0
    <3>1. RowsOf(w) = {}
      BY <2>1 DEF Init, AnswerInit, RowsOf
    <3>2. QED
      BY <3>1, FS_EmptySet
  <2>2. Idle.saves = 0 /\ IdleTurn.saves = 0
    BY DEF Idle, IdleTurn
  <2>3. QED
    BY <2>1, <2>2 DEF Init, AnswerInit, RowsAccounted
<1>2. IInv /\ IInv' /\ RowsAccounted /\ [Next]_vars => RowsAccounted'
  <2> SUFFICES ASSUME IInv, IInv', RowsAccounted, [Next]_vars, rows' # rows
               PROVE  RowsAccounted'
    BY NoCommit
  <2>1. \/ \E a \in Calls : Persist(a) /\ UNCHANGED <<turn, unsaved>>
        \/ \E t \in Turns : PersistTurn(t)
    BY DEF Next, vars, Question, CallStep, BuildRetriever, Classify, RepairClass, Join,
           Strategy, MultiIndex, Expand, RepairExpansion, Search, Fallback, Rerank, Generate,
           RepairAnswer, StartTurn, TurnStep, Intent, RepairIntent, ReadContext, AskModel,
           RunTool, CallAnswerAI, ToolReturns, RepairTurn, answerVars
  <2>2. QED
    BY <2>1, CommitOfCall, CommitOfTurn DEF Persist, PersistTurn
<1>3. QED
  BY <1>1, <1>2, Invariant, PTL DEF Spec
-----------------------------------------------------------------------------
(* A call and a turn have less to do after each of their steps.            *)

\* How a step of a call moves it.
CallMovesOn ==
    {<<"idle", "gather">>, <<"gather", "strategy">>, <<"gather", "fallback">>,
     <<"strategy", "expand">>, <<"strategy", "fallback">>, <<"strategy", "multi">>,
     <<"multi", "rerank">>, <<"multi", "expand">>, <<"expand", "search">>,
     <<"expand", "reexpand">>, <<"expand", "fallback">>, <<"reexpand", "search">>,
     <<"reexpand", "fallback">>, <<"search", "rerank">>, <<"search", "fallback">>,
     <<"fallback", "rerank">>, <<"rerank", "generate">>, <<"generate", "repair">>}
CallDown(c, d) ==
    \/ c.st # "done" /\ d.st = "done"
    \/ <<c.st, d.st>> \in CallMovesOn
    \/ c.st = d.st /\ d.st \in {"reexpand", "repair"} /\ d.n = c.n + 1
    \/ /\ c.st = "gather" /\ d.st = "gather"
       /\ c.ret = "building" /\ d.ret # "building" /\ d.cls = c.cls /\ d.n = c.n
    \/ /\ c.st = "gather" /\ d.st = "gather" /\ d.ret = c.ret
       /\ \/ c.cls \in {"asking", "repair"} /\ d.cls \in {"ok", "failed"}
          \/ c.cls = "asking" /\ d.cls = "repair"
          \/ c.cls = "repair" /\ d.cls = "repair" /\ d.n = c.n + 1

\* Each of those moves leaves it less to do.
LEMMA CallFewer ==
    ASSUME NEW c \in CallState, NEW d \in CallState, CallDown(c, d)
    PROVE  Fewer(CallLeft(d), CallLeft(c))
<1>1. c.n \in 1..3 /\ d.n \in 1..3 /\ c.st \in CallPlaces /\ d.st \in CallPlaces
  BY DEF CallState, MaxAttempts
<1>2. RepairLeft(c) = 4 - c.n /\ RepairLeft(d) = 4 - d.n
  BY <1>1 DEF RepairLeft, MaxAttempts
<1>3. CallLeft(c) \in Nat /\ CallLeft(d) \in Nat
  BY <1>1, <1>2 DEF CallLeft, CallPlaces
<1>4. CallLeft(d) < CallLeft(c)
  <2>1. CASE c.st # "done" /\ d.st = "done"
    BY <1>1, <1>2, <2>1 DEF CallLeft, CallPlaces
  <2>2. CASE <<c.st, d.st>> \in CallMovesOn
    BY <1>1, <1>2, <2>2 DEF CallLeft, CallMovesOn
  <2>3. CASE c.st = d.st /\ d.st \in {"reexpand", "repair"} /\ d.n = c.n + 1
    BY <1>1, <1>2, <2>3 DEF CallLeft
  <2>4. CASE /\ c.st = "gather" /\ d.st = "gather"
             /\ c.ret = "building" /\ d.ret # "building" /\ d.cls = c.cls /\ d.n = c.n
    BY <1>1, <1>2, <2>4 DEF CallLeft
  <2>5. CASE /\ c.st = "gather" /\ d.st = "gather" /\ d.ret = c.ret
             /\ \/ c.cls \in {"asking", "repair"} /\ d.cls \in {"ok", "failed"}
                \/ c.cls = "asking" /\ d.cls = "repair"
                \/ c.cls = "repair" /\ d.cls = "repair" /\ d.n = c.n + 1
    BY <1>1, <1>2, <2>5 DEF CallLeft
  <2>6. QED
    BY <2>1, <2>2, <2>3, <2>4, <2>5 DEF CallDown
<1>5. QED
  BY <1>3, <1>4 DEF Fewer

\* How a step of a turn moves it.
TurnMovesOn ==
    {<<"idle", "intent">>, <<"intent", "reintent">>, <<"intent", "read">>,
     <<"reintent", "read">>, <<"read", "ask">>, <<"ask", "repair">>}
TurnDown(c, d) ==
    \/ c.st # "done" /\ d.st = "done"
    \/ <<c.st, d.st>> \in TurnMovesOn
    \/ c.st = d.st /\ d.st \in {"reintent", "repair"} /\ d.n = c.n + 1
    \/ c.st = "ask" /\ d.st = "tools" /\ d.round = c.round + 1
    \/ /\ d.round = c.round /\ d.called = c.called
       /\ \/ c.st = "tools" /\ d.st = "waiting" /\ d.next = c.next
          \/ c.st \in {"tools", "waiting"} /\ d.st = "ask"
          \/ c.st \in {"tools", "waiting"} /\ d.st = "tools" /\ d.next = c.next + 1

\* Each of those moves leaves it less to do.
LEMMA TurnIsFewer ==
    ASSUME NEW c \in TurnState, NEW d \in TurnState, TurnOK(c), TurnOK(d), TurnDown(c, d)
    PROVE  TurnFewer(d, c)
<1>1. /\ c.n \in 1..3 /\ d.n \in 1..3 /\ c.st \in TurnPlaces /\ d.st \in TurnPlaces
      /\ c.round \in 0..MaxToolRounds /\ d.round \in 0..MaxToolRounds
      /\ MaxToolRounds \in Nat
  BY ConvoAIAssumption DEF TurnState, MaxAttempts
<1>2. RepairLeft(c) = 4 - c.n /\ RepairLeft(d) = 4 - d.n
  BY <1>1 DEF RepairLeft, MaxAttempts
<1>3. Phase(c) \in Nat /\ Phase(d) \in Nat
  BY <1>1, <1>2 DEF Phase, TurnPlaces
<1>4. ASSUME Phase(d) < Phase(c) PROVE TurnFewer(d, c)
  BY <1>3, <1>4 DEF TurnFewer, Fewer
<1>5. CASE c.st # "done" /\ d.st = "done"
  BY <1>1, <1>2, <1>4, <1>5 DEF Phase, TurnPlaces
<1>6. CASE <<c.st, d.st>> \in TurnMovesOn
  BY <1>1, <1>2, <1>4, <1>6 DEF Phase, TurnMovesOn
<1>7. CASE c.st = d.st /\ d.st \in {"reintent", "repair"} /\ d.n = c.n + 1
  BY <1>1, <1>2, <1>4, <1>7 DEF Phase
<1>8. CASE c.st = "ask" /\ d.st = "tools" /\ d.round = c.round + 1
  BY <1>1, <1>8 DEF TurnFewer, Fewer, Phase, RoundsLeft
<1>9. CASE /\ d.round = c.round /\ d.called = c.called
           /\ \/ c.st = "tools" /\ d.st = "waiting" /\ d.next = c.next
              \/ c.st \in {"tools", "waiting"} /\ d.st = "ask"
              \/ c.st \in {"tools", "waiting"} /\ d.st = "tools" /\ d.next = c.next + 1
  <2>1. Phase(d) = Phase(c) /\ RoundsLeft(d) = RoundsLeft(c)
    BY <1>9 DEF Phase, RoundsLeft
  <2>2. c.called \in Seq(Tools \cup {"unknown"})
    <3>1. c.called \in ToolReplies \cup {<< >>}
      BY DEF TurnState
    <3>2. << >> \in Seq(Tools \cup {"unknown"})
      OBVIOUS
    <3>3. QED
      BY <3>1, <3>2, ConvoAIAssumption
  <2>3. /\ Len(c.called) \in Nat /\ Len(d.called) = Len(c.called)
        /\ c.next \in Nat /\ d.next \in Nat
    BY <1>9, <2>2 DEF TurnState
  <2>4. c.next <= Len(c.called)
    BY <1>9 DEF TurnOK
  <2>5. d.st = "tools" => d.next <= Len(d.called)
    BY DEF TurnOK
  <2>6. Fewer(ToolsLeft(d), ToolsLeft(c))
    <3>1. /\ c.st = "tools" => ToolsLeft(c) = 2 * (Len(c.called) - c.next) + 2
          /\ c.st = "waiting" => ToolsLeft(c) = 2 * (Len(c.called) - c.next) + 1
      BY DEF ToolsLeft
    <3>2. /\ d.st = "tools" => ToolsLeft(d) = 2 * (Len(c.called) - d.next) + 2
          /\ d.st = "waiting" => ToolsLeft(d) = 2 * (Len(c.called) - d.next) + 1
          /\ d.st = "ask" => ToolsLeft(d) = 0
      BY <2>3 DEF ToolsLeft
    <3>3. CASE c.st = "tools" /\ d.st = "waiting" /\ d.next = c.next
      BY <2>3, <2>4, <3>1, <3>2, <3>3 DEF Fewer
    <3>4. CASE c.st \in {"tools", "waiting"} /\ d.st = "ask"
      BY <2>3, <2>4, <3>1, <3>2, <3>4 DEF Fewer
    <3>5. CASE c.st \in {"tools", "waiting"} /\ d.st = "tools" /\ d.next = c.next + 1
      <4>1. /\ ToolsLeft(d) = 2 * (Len(c.called) - d.next) + 2
            /\ ToolsLeft(c) \in {2 * (Len(c.called) - c.next) + 2,
                                2 * (Len(c.called) - c.next) + 1}
            /\ d.next = c.next + 1 /\ d.next <= Len(c.called)
        BY <2>3, <2>5, <3>1, <3>2, <3>5
      <4>2. QED
        <5>1. ASSUME NEW l \in Nat, NEW n \in Nat, n + 1 <= l
              PROVE  /\ Fewer(2 * (l - (n + 1)) + 2, 2 * (l - n) + 2)
                     /\ Fewer(2 * (l - (n + 1)) + 2, 2 * (l - n) + 1)
          BY <5>1 DEF Fewer
        <5>2. QED
          BY <2>3, <4>1, <5>1
    <3>6. QED
      BY <1>9, <3>3, <3>4, <3>5
  <2>7. QED
    BY <2>1, <2>6 DEF TurnFewer
<1>10. QED
  BY <1>5, <1>6, <1>7, <1>8, <1>9 DEF TurnDown
\* A step of a call leaves it less to do.
LEMMA CallStepFewer ==
    ASSUME IInv, IInv', NEW a \in Calls, CallStep(a)
    PROVE  Fewer(CallLeft(call'[a]), CallLeft(call[a]))
<1> DEFINE c == call[a]
           d == call'[a]
<1>1. c \in CallState /\ d \in CallState
  BY DEF IInv
<1>2. \A x : Step(a, x) => d = x
  BY DEF IInv, Step
<1>3. \A out : Ends(a, out) => d.st = "done"
  BY <1>1, <1>2 DEF Ends, Ended, CallState
<1>4. \A st : Goto(a, st) => d.st = st
  BY <1>1, <1>2 DEF Goto, CallState
<1>5. SUFFICES CallDown(c, d)
  BY <1>1, CallFewer
<1>6. CASE BuildRetriever(a)
  BY <1>1, <1>2, <1>3, <1>6 DEF BuildRetriever, CallDown, CallState
<1>7. \A t : Classified(a, t) => d.cls = "ok" /\ d.st = c.st /\ d.ret = c.ret
  BY <1>1, <1>2 DEF Classified, CallState
<1>8. NotClassified(a) => d.cls = "failed" /\ d.st = c.st /\ d.ret = c.ret
  BY <1>1, <1>2 DEF NotClassified, CallState
<1>9. CASE Classify(a)
  <2>1. Step(a, [c EXCEPT !.cls = "repair"]) => d.cls = "repair" /\ d.st = c.st /\ d.ret = c.ret
    BY <1>1, <1>2 DEF CallState
  <2>2. QED
    BY <1>3, <1>7, <1>8, <1>9, <2>1 DEF Classify, CallDown
<1>10. \A n, f : Step(a, [c EXCEPT !.n = n, !.fresh = f]) =>
                 d.n = n /\ d.st = c.st /\ d.cls = c.cls /\ d.ret = c.ret
  BY <1>1, <1>2 DEF CallState
<1>11. \A o \in SafeParse(c.n, c.fresh) : o.to = "again" => o.n = c.n + 1
  BY DEF SafeParse
<1>12. CASE RepairClass(a)
  BY <1>7, <1>8, <1>10, <1>11, <1>12 DEF RepairClass, CallDown
<1>13. CASE Join(a)
  BY <1>3, <1>4, <1>13 DEF Join, CallDown, CallMovesOn
<1>14. CASE Strategy(a) \/ MultiIndex(a)
  <2>1. \A st, t : Step(a, [c EXCEPT !.st = st, !.tech = t]) => d.st = st
    BY <1>1, <1>2 DEF CallState
  <2>2. QED
    BY <1>3, <1>4, <1>14, <2>1 DEF Strategy, MultiIndex, CallDown, CallMovesOn
<1>15. CASE Expand(a)
  BY <1>3, <1>4, <1>15 DEF Expand, CallDown, CallMovesOn
<1>16. CASE RepairExpansion(a)
  <2>1. \A st : Step(a, [c EXCEPT !.st = st, !.n = 1, !.fresh = TRUE]) => d.st = st
    BY <1>1, <1>2 DEF CallState
  <2>2. QED
    BY <1>10, <1>11, <1>16, <2>1 DEF RepairExpansion, CallDown, CallMovesOn
<1>17. CASE Search(a) \/ Fallback(a) \/ Rerank(a)
  BY <1>3, <1>4, <1>17 DEF Search, Fallback, Rerank, CallDown, CallMovesOn
<1>18. \A x \in CallState : \A out : Step(a, Ended(x, out)) => d.st = "done"
  BY <1>2 DEF Ended, CallState
<1>19. CASE Generate(a)
  <2>1. \A p \in {0, 1} : Saved(a, p) \in CallState
    <3>1. \A p \in {0, 1} : p \in 0..1
      OBVIOUS
    <3>2. 1 \in 0..1
      OBVIOUS
    <3>3. QED
      BY <1>1, <3>1, <3>2, Zenon DEF Saved, CallState
  <2>2. QED
    BY <1>3, <1>4, <1>18, <1>19, <2>1 DEF Generate, CallDown, CallMovesOn
<1>20. CASE RepairAnswer(a)
  <2>1. [c EXCEPT !.good = TRUE] \in CallState
    BY <1>1 DEF CallState
  <2>2. QED
    BY <1>3, <1>10, <1>11, <1>18, <1>20, <2>1 DEF RepairAnswer, CallDown
<1>21. QED
  BY <1>6, <1>9, <1>12, <1>13, <1>14, <1>15, <1>16, <1>17, <1>19, <1>20 DEF CallStep

\* A question, of the route or of a tool, starts its call.
LEMMA CallStartFewer ==
    ASSUME IInv, IInv', NEW a \in Calls, call[a] = Idle,
           NEW tool, NEW convo, NEW hot,
           \/ Step(a, Started(tool, convo, hot))
           \/ Step(a, Ended([Idle EXCEPT !.hot = hot], "failed"))
    PROVE  Fewer(CallLeft(call'[a]), CallLeft(call[a]))
<1>1. call[a] \in CallState /\ call'[a] \in CallState
  BY DEF IInv
<1>2. call[a].st = "idle" /\ call'[a].st \in {"gather", "done"}
  <2>1. Started(tool, convo, hot).st = "gather" /\ Idle.st = "idle"
    BY DEF Started, Idle
  <2>2. Ended([Idle EXCEPT !.hot = hot], "failed").st = "done"
    BY DEF Ended, Idle
  <2>3. \A x : Step(a, x) => call'[a] = x
    BY DEF IInv, Step
  <2>4. QED
    BY <2>1, <2>2, <2>3
<1>3. QED
  BY <1>1, <1>2, CallFewer DEF CallDown, CallMovesOn
\* A step of a turn leaves it less to do.
LEMMA TurnStepFewer ==
    ASSUME IInv, IInv', NEW t \in Turns,
           \/ TurnStep(t)
           \/ \E k \in Convos, hot \in BOOLEAN : StartTurn(t, k, hot)
    PROVE  TurnFewer(turn'[t], turn[t])
<1> DEFINE c == turn[t]
           d == turn'[t]
<1>1. c \in TurnState /\ d \in TurnState /\ TurnOK(c) /\ TurnOK(d)
  BY DEF IInv
<1>2. \A x : Move(t, x) => d = x
  BY DEF IInv, Move
<1>3. \A x, out : Move(t, EndedTurn(x, out)) => d.st = "done"
  <2>1. IdleTurn \in TurnState
    BY IdleTurnOK
  <2>2. QED
    BY <1>2, <2>1 DEF EndedTurn, TurnState
<1>4. \A out : EndTurn(t, out) => d.st = "done"
  BY <1>3 DEF EndTurn
<1>5. \A x \in TurnState : Move(t, ToRepair(x)) => d.st = "repair"
  BY <1>2 DEF ToRepair, TurnState
<1>6. SUFFICES TurnDown(c, d)
  BY <1>1, TurnIsFewer
<1>7. ASSUME NEW k \in Convos, NEW hot \in BOOLEAN, StartTurn(t, k, hot) PROVE TurnDown(c, d)
  <2>1. c.st = "idle"
    <3>1. IdleTurn.st = "idle"
      BY DEF IdleTurn
    <3>2. turn[t] = IdleTurn
      BY <1>7 DEF StartTurn
    <3>3. QED
      BY <3>1, <3>2
  <2>2. [IdleTurn EXCEPT !.st = "intent", !.convo = k, !.hot = hot].st = "intent"
    BY DEF IdleTurn
  <2>3. QED
    BY <1>2, <1>3, <1>7, <2>1, <2>2 DEF StartTurn, TurnDown, TurnMovesOn
<1>8. CASE Intent(t)
  <2>1. \A st : Move(t, [c EXCEPT !.st = st]) => d.st = st
    BY <1>1, <1>2 DEF TurnState
  <2>2. QED
    BY <1>4, <1>8, <2>1 DEF Intent, TurnDown, TurnMovesOn
<1>9. \A n, f : Move(t, [c EXCEPT !.n = n, !.fresh = f]) => d.n = n /\ d.st = c.st
  BY <1>1, <1>2 DEF TurnState
<1>10. \A o \in SafeParse(c.n, c.fresh) : o.to = "again" => o.n = c.n + 1
  BY DEF SafeParse
<1>11. CASE RepairIntent(t)
  <2>1. Move(t, [c EXCEPT !.st = "read", !.n = 1, !.fresh = TRUE]) => d.st = "read"
    BY <1>1, <1>2 DEF TurnState
  <2>2. QED
    BY <1>4, <1>9, <1>10, <1>11, <2>1 DEF RepairIntent, TurnDown, TurnMovesOn
<1>12. CASE ReadContext(t)
  <2>1. \A x : Move(t, [c EXCEPT !.st = "ask", !.context = x]) => d.st = "ask"
    BY <1>1, <1>2 DEF TurnState
  <2>2. QED
    BY <1>12, <2>1 DEF ReadContext, TurnDown, TurnMovesOn
<1>13. \A x : Remember(t, x) => d.st = "done" \/ Move(t, x)
  BY <1>3 DEF Remember, Remembered
<1>14. \A raw \in {"blank", "text", "none"} :
            c.st = "ask" /\ Salvage(t, raw) => TurnDown(c, d)
  <2>1. \A raw \in {"blank", "text", "none"} : [c EXCEPT !.raw = raw] \in TurnState
    BY <1>1 DEF TurnState
  <2>2. QED
    BY <1>4, <1>5, <2>1 DEF Salvage, TurnDown, TurnMovesOn
<1>15. CASE AskModel(t)
  <2>1. CASE FinalReply(t)
    <3>1. Move(t, ToRepair([Unpublished(t) EXCEPT !.raw = "text"])) => d.st = "repair"
      <4>1. Unpublished(t).st = c.st /\ "st" \in DOMAIN [Unpublished(t) EXCEPT !.raw = "text"]
        BY <1>1 DEF Unpublished, TurnState
      <4>2. QED
        BY <1>2, <4>1 DEF ToRepair
    <3>2. c.raw \in {"blank", "text", "none"} /\ c.st = "ask"
      BY <1>1, <1>15 DEF AskModel, TurnState
    <3>3. QED
      <4>1. CASE Remember(t, ToRepair([Unpublished(t) EXCEPT !.raw = "text"]))
        BY <1>13, <3>1, <3>2, <4>1 DEF TurnDown, TurnMovesOn
      <4>2. CASE Salvage(t, "text") \/ Salvage(t, c.raw)
        BY <1>14, <3>2, <4>2
      <4>3. CASE EndTurn(t, "failed")
        BY <1>4, <3>2, <4>3 DEF TurnDown
      <4>4. QED
        BY <2>1, <4>1, <4>2, <4>3 DEF FinalReply
  <2>2. CASE ToolReply(t)
    <3>1. \A s, raw : Move(t, [c EXCEPT !.st = "tools", !.round = @ + 1, !.raw = raw,
                          !.called = s, !.next = 1, !.messages = {}])
                    => d.st = "tools" /\ d.round = c.round + 1
      BY <1>1, <1>2 DEF TurnState
    <3>2. QED
      BY <1>14, <1>15, <2>2, <3>1 DEF AskModel, ToolReply, TurnDown
  <2>3. QED
    BY <1>15, <2>1, <2>2 DEF AskModel
<1>16. \A m : c.st \in {"tools", "waiting"} /\ ToolOver(t, m) => TurnDown(c, d)
  <2>1. \A m : ToolOver(t, m) =>
            /\ d.round = c.round /\ d.called = c.called /\ d.next = c.next + 1
            /\ d.st \in {"ask", "tools"}
    <3> SUFFICES ASSUME NEW m, ToolOver(t, m)
                 PROVE  /\ d.round = c.round /\ d.called = c.called /\ d.next = c.next + 1
                        /\ d.st \in {"ask", "tools"}
      OBVIOUS
    <3>1. d = [c EXCEPT !.messages = m, !.next = @ + 1, !.waits = NoCall,
                 !.st = IF c.next = Len(c.called) THEN "ask" ELSE "tools"]
      BY <1>2 DEF ToolOver
    <3>2. QED
      BY <1>1, <3>1 DEF TurnState
  <2>2. QED
    BY <2>1 DEF TurnDown
<1>17. CASE RunTool(t) \/ ToolReturns(t)
  BY <1>16, <1>17 DEF RunTool, ToolReturns, Answered
<1>18. CASE \E a \in Calls : CallAnswerAI(t, a)
  <2>1. \A a : Move(t, [c EXCEPT !.st = "waiting", !.waits = a]) =>
            /\ d.round = c.round /\ d.called = c.called /\ d.next = c.next
            /\ d.st = "waiting"
    BY <1>1, <1>2 DEF TurnState
  <2>2. QED
    BY <1>18, <2>1 DEF CallAnswerAI, TurnDown
<1>19. CASE RepairTurn(t)
  BY <1>3, <1>4, <1>9, <1>10, <1>13, <1>19 DEF RepairTurn, TurnDown
<1>20. QED
  BY <1>7, <1>8, <1>11, <1>12, <1>15, <1>17, <1>18, <1>19 DEF TurnStep
\* The commit of a background task, or its failure, leaves one task less.
LEMMA PersistFewer ==
    ASSUME IInv
    PROVE  /\ \A a \in Calls : Persist(a) =>
                /\ UNCHANGED call[a] /\ Fewer(pending'[a], pending[a])
                /\ \A b \in Calls \ {a} : UNCHANGED <<call[b], pending[b]>>
                /\ \A w \in Calls \cup Turns : w # a => RowsOf(w)' = RowsOf(w)
           /\ \A t \in Turns : PersistTurn(t) =>
                /\ UNCHANGED turn[t] /\ Fewer(unsaved'[t], unsaved[t])
                /\ \A u \in Turns \ {t} : UNCHANGED <<turn[u], unsaved[u]>>
                /\ \A w \in Calls \cup Turns : w # t => RowsOf(w)' = RowsOf(w)
<1>1. pending \in [Calls -> 0..1] /\ unsaved \in [Turns -> 0..2]
  BY DEF IInv
<1>2. ASSUME NEW a \in Calls, Persist(a), NEW w \in Calls \cup Turns, w # a
      PROVE  RowsOf(w)' = RowsOf(w)
  <2>1. CASE rows' = rows
    BY <2>1 DEF RowsOf
  <2>2. QED
    BY <1>2, <2>1, RowsOfCommit DEF Persist
<1>3. ASSUME NEW t \in Turns, PersistTurn(t), NEW w \in Calls \cup Turns, w # t
      PROVE  RowsOf(w)' = RowsOf(w)
  <2>1. CASE rows' = rows
    BY <2>1 DEF RowsOf
  <2>2. QED
    BY <1>3, <2>1, RowsOfCommit DEF PersistTurn
<1>4. ASSUME NEW a \in Calls, Persist(a)
      PROVE  /\ UNCHANGED call[a] /\ Fewer(pending'[a], pending[a])
             /\ \A b \in Calls \ {a} : UNCHANGED <<call[b], pending[b]>>
  BY <1>1, <1>4 DEF Persist, Fewer
<1>5. ASSUME NEW t \in Turns, PersistTurn(t)
      PROVE  /\ UNCHANGED turn[t] /\ Fewer(unsaved'[t], unsaved[t])
             /\ \A u \in Turns \ {t} : UNCHANGED <<turn[u], unsaved[u]>>
  BY <1>1, <1>5 DEF PersistTurn, Fewer
<1>6. QED
  BY <1>2, <1>3, <1>4, <1>5

\* A step of a call or a turn that commits nothing leaves the others at rest.
LEMMA OthersRest ==
    ASSUME IInv, rows' = rows
    PROVE  /\ \A w : RowsOf(w)' = RowsOf(w)
           /\ UNCHANGED <<call, pending>> => \A a \in Calls : CallRests(a)
           /\ UNCHANGED <<turn, unsaved>> => \A t \in Turns : TurnRests(t)
           /\ \A a \in Calls : CallStep(a) => \A b \in Calls \ {a} : CallRests(b)
           /\ \A a \in Calls : (\E x : Step(a, x)) /\ UNCHANGED pending
                    => \A b \in Calls \ {a} : CallRests(b)
           /\ \A t \in Turns : TurnMoves(t) => \A u \in Turns \ {t} : TurnRests(u)
<1>1. \A w : RowsOf(w)' = RowsOf(w)
  BY DEF RowsOf
<1>2. UNCHANGED <<call, pending>> => \A a \in Calls : CallRests(a)
  BY <1>1 DEF CallRests
<1>3. UNCHANGED <<turn, unsaved>> => \A t \in Turns : TurnRests(t)
  BY <1>1 DEF TurnRests
<1>4. ASSUME NEW a \in Calls, NEW x, Step(a, x),
             UNCHANGED pending \/ pending' = [pending EXCEPT ![a] = 1],
             NEW b \in Calls \ {a}
      PROVE  CallRests(b)
  BY <1>1, <1>4 DEF IInv, Step, CallRests
<1>5. ASSUME NEW t \in Turns, TurnMoves(t), NEW u \in Turns \ {t} PROVE TurnRests(u)
  BY <1>1, <1>5 DEF IInv, TurnMoves, Move, TurnRests
<1>6. QED
  BY <1>1, <1>2, <1>3, <1>4, <1>5, CallStepOK

\* Every step of the conversations leaves somebody less to do and nobody more:
\* whatever the models reply, a call and a turn take finitely many steps.
THEOREM RequestsTakeFiniteWork == Spec => RequestsRunDown
<1> DEFINE Down == /\ \A a \in Calls : CallRests(a) \/ CallAdvances(a)
                   /\ \A t \in Turns : TurnRests(t) \/ TurnAdvances(t)
<1>1. ASSUME IInv, IInv', [Next]_vars PROVE Down
  <2>1. ASSUME NEW a \in Calls, UNCHANGED <<turn, unsaved>>, UNCHANGED rows,
               CallStep(a) \/ \E hot \in BOOLEAN : Question(a, hot)
        PROVE  Down
    <3>1. Fewer(CallLeft(call'[a]), CallLeft(call[a]))
      BY <1>1, <2>1, CallStepFewer, CallStartFewer DEF Question
    <3>2. \A b \in Calls \ {a} : CallRests(b)
      <4>1. CASE \E hot \in BOOLEAN : Question(a, hot)
        BY <1>1, <2>1, <4>1, OthersRest DEF Question
      <4>2. CASE CallStep(a)
        BY <1>1, <2>1, <4>2, OthersRest
      <4>3. QED
        BY <2>1, <4>1, <4>2
    <3>3. \A t \in Turns : TurnRests(t)
      BY <1>1, <2>1, OthersRest
    <3>4. QED
      BY <3>1, <3>2, <3>3 DEF CallAdvances
  <2>2. ASSUME NEW a \in Calls, Persist(a), UNCHANGED <<turn, unsaved>> PROVE Down
    <3>1. \A t \in Turns : t # a
      BY ConvoAIAssumption
    <3>2. QED
      BY <1>1, <2>2, <3>1, PersistFewer DEF CallAdvances, CallRests, TurnRests
  <2>3. ASSUME NEW t \in Turns, PersistTurn(t) PROVE Down
    <3>1. (\A a \in Calls : a # t) /\ UNCHANGED <<call, pending>>
      BY <2>3, ConvoAIAssumption DEF PersistTurn
    <3>2. QED
      BY <1>1, <2>3, <3>1, PersistFewer DEF TurnAdvances, CallRests, TurnRests
  <2>4. ASSUME NEW t \in Turns, UNCHANGED rows, TurnMoves(t),
               \/ TurnStep(t)
               \/ \E k \in Convos, hot \in BOOLEAN : StartTurn(t, k, hot),
               \A a \in Calls : CallRests(a) \/ CallAdvances(a)
        PROVE  Down
    <3>1. TurnFewer(turn'[t], turn[t])
      BY <1>1, <2>4, TurnStepFewer
    <3>2. \A u \in Turns \ {t} : TurnRests(u)
      BY <1>1, <2>4, OthersRest
    <3>3. QED
      BY <2>4, <3>1, <3>2 DEF TurnAdvances
  <2>5. ASSUME NEW t \in Turns, NEW k \in Convos, NEW hot \in BOOLEAN, StartTurn(t, k, hot)
        PROVE  Down
    BY <1>1, <2>4, <2>5, StartTurnOK, OthersRest DEF StartTurn, answerVars
  <2>6. ASSUME NEW t \in Turns, NEW a \in Calls, CallAnswerAI(t, a) PROVE Down
    <3>1. /\ call[a] = Idle /\ Step(a, Started(TRUE, turn[t].convo, turn[t].hot))
          /\ UNCHANGED <<rows, pending>>
      BY <2>6 DEF CallAnswerAI
    <3>2. Fewer(CallLeft(call'[a]), CallLeft(call[a]))
      BY <1>1, <3>1, CallStartFewer
    <3>3. \A b \in Calls \ {a} : CallRests(b)
      BY <1>1, <3>1, OthersRest
    <3>4. TurnMoves(t) /\ TurnStep(t)
      BY <1>1, <2>6, CallAnswerAIOK DEF TurnStep
    <3>5. QED
      BY <2>4, <3>1, <3>2, <3>3, <3>4 DEF CallAdvances
  <2>7. ASSUME NEW t \in Turns, TurnStep(t) PROVE Down
    <3>1. CASE Intent(t) \/ RepairIntent(t) \/ ReadContext(t)
      BY <1>1, <2>4, <2>7, <3>1, IntentOK, OthersRest DEF Intent, RepairIntent, ReadContext, answerVars
    <3>2. CASE AskModel(t)
      BY <1>1, <2>4, <2>7, <3>2, AskModelOK, OthersRest DEF AskModel, answerVars
    <3>3. CASE RunTool(t) \/ ToolReturns(t)
      BY <1>1, <2>4, <2>7, <3>3, RunToolOK, OthersRest DEF RunTool, ToolReturns, answerVars
    <3>4. CASE RepairTurn(t)
      BY <1>1, <2>4, <2>7, <3>4, RepairTurnOK, OthersRest DEF RepairTurn, answerVars
    <3>5. QED
      BY <2>6, <2>7, <3>1, <3>2, <3>3, <3>4 DEF TurnStep
  <2>8. CASE UNCHANGED vars
    BY <1>1, <2>8, OthersRest DEF vars
  <2>9. ASSUME NEW a \in Calls, CallStep(a) \/ \E hot \in BOOLEAN : Question(a, hot)
        PROVE  UNCHANGED rows
    BY <1>1, <2>9, CallStepOK DEF Question
  <2>10. QED
    BY <1>1, <2>1, <2>2, <2>3, <2>5, <2>7, <2>8, <2>9 DEF Next
<1>2. QED
  BY <1>1, Invariant, PTL DEF Spec, RequestsRunDown
=============================================================================
