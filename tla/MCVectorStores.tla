--------------------------- MODULE MCVectorStores ---------------------------
\* TLC instances of VectorStores.
EXTENDS VectorStores, TLC

CONSTANTS ra, rb

TwoRequests == {ra, rb}
=============================================================================
