-------------------------- MODULE MCDocPipeline --------------------------
\* TLC instances of DocPipeline: model values for requests and contents.
EXTENDS DocPipeline, TLC

CONSTANTS r1, r2, a

TwoRequests == {r1, r2}
OneRequest == {r1}
OneContent == {a}

\* No action looks at which request it has.
SymRequests == Permutations(TwoRequests)
=============================================================================
