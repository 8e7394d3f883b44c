------------------------------- MODULE Corpus -------------------------------
(***************************************************************************)
(* What the rest of the system may take for granted about a user's         *)
(* documents while they are being ingested: a document gets a row, later   *)
(* its chunks can be found, and neither is ever taken back.  Module        *)
(* DocPipeline implements it; module TriCache builds on it.                *)
(***************************************************************************)
CONSTANT Docs          \* documents a user may upload

VARIABLES
    rows,              \* documents with a row, whatever their status
    searchable         \* documents with chunks in the vector store

corpusVars == <<rows, searchable>>

CorpusInit == rows = {} /\ searchable = {}

NewRow(d) ==
    /\ d \notin rows
    /\ rows' = rows \cup {d}
    /\ UNCHANGED searchable

NewChunks(d) ==
    /\ d \in rows \ searchable
    /\ searchable' = searchable \cup {d}
    /\ UNCHANGED rows

Grow == \E d \in Docs : NewRow(d) \/ NewChunks(d)

CorpusSpec == CorpusInit /\ [][Grow]_corpusVars
=============================================================================
