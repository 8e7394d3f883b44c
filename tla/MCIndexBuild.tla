--------------------------- MODULE MCIndexBuild ---------------------------
\* TLC instances of IndexBuild.
EXTENDS IndexBuild, TLC

CONSTANTS r1, r2, a, b, p1, p2, m1, m2, b1, b2

TwoRequests == {r1, r2}
OneRequest == {r1}
TwoContents == {a, b}
OneContent == {a}
OnePoller == {p1}
TwoPollers == {p1, p2}
OneMultiTask == {m1}
TwoMultiTasks == {m1, m2}
OneBm25Task == {b1}
TwoBm25Tasks == {b1, b2}

\* Pollers, task slots and contents are interchangeable.
Sym == Permutations(TwoPollers) \cup Permutations(TwoMultiTasks)
       \cup Permutations(TwoBm25Tasks) \cup Permutations(TwoContents)
=============================================================================
