---------------------------- MODULE MCTriCache ----------------------------
\* TLC instances of TriCache.
EXTENDS TriCache, TLC

CONSTANTS d1, d2, q1, q2, k1, c1, c2

OneDoc == {d1}
TwoDocs == {d1, d2}
TwoQuestions == {q1, q2}
OneQuestion == {q1}
AllPairs == Questions \X Questions      \* the questions are paraphrases
GlobalAndOne == {{}, {d1}}
GlobalOnly == {{}}
OneConvo == {k1}
NoConvos == {}
OneClient == {c1}
TwoClients == {c1, c2}
=============================================================================
