----------------------------- MODULE MCConvoAI -----------------------------
\* TLC instances of ConvoAI.
EXTENDS ConvoAI

CONSTANTS a1, t1, k1

OneCall == {a1}
OneTurn == {t1}
OneConvo == {k1}

\* A tool call alone, and a reply with three, one of an unknown name.
SomeReplies == {<<"tool_answer_ai">>, <<"search", "unknown", "tool_answer_ai">>}
=============================================================================
