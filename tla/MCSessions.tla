----------------------------- MODULE MCSessions -----------------------------
\* TLC instances of Sessions.
EXTENDS Sessions, TLC

CONSTANTS j1, j2, j3, q1, q2, q3

ThreeLogins == {j1, j2, j3}
ThreeRequests == {q1, q2, q3}

Sym == Permutations(ThreeLogins) \cup Permutations(ThreeRequests)
=============================================================================
