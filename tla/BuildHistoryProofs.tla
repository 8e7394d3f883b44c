------------------------- MODULE BuildHistoryProofs -------------------------
(***************************************************************************)
(* Proofs about the BM25 index, its files, and the documents that become   *)
(* READY while it is built, for any number of documents and builders and   *)
(* every combination of faults.                                            *)
(***************************************************************************)
EXTENDS BuildHistory, IndexBuildProofs

\* The history variables of a step.
Recorded ==
    /\ raced' = IF Building THEN raced \cup Races ELSE raced
    /\ shared' = shared \cup Worked'

\* With the history or without, the behaviours are those of IndexBuild.
LEMMA HistorySpec == HSpec => Spec
<1>1. [HNext]_<<vars, hist>> => [Next]_vars
  BY DEF HNext
<1>2. QED
  BY <1>1, PTL DEF HSpec, HInit, Spec

\* The names of the files of a builder that has opened one, or all.
LEMMA NamesOf ==
    ASSUME OwnTypeOK
    PROVE  /\ \A b \in Bm25Tasks : bm[b].st \in Works =>
                /\ bm[b].v \in 1..MaxVersion
                /\ \A k \in Kinds : <<k, bm[b].v>> \in Names
           /\ \A b \in Bm25Tasks, k \in Kinds :
                /\ Moved(b, k) => Opened(b, k)
                /\ Opened(b, k) => bm[b].st \in Works
           /\ version > 0 => \A k \in Kinds : <<k, version>> \in Names
<1>1. \A v \in 1..MaxVersion : \A k \in Kinds : <<k, v>> \in Names
  BY DEF Names
<1>2. \A b \in Bm25Tasks : bm[b].st \in Works => bm[b].v \in 1..MaxVersion
  BY BmRecords
<1>3. version > 0 => version \in 1..MaxVersion
  BY IndexAssumption DEF OwnTypeOK
<1>4. \A b \in Bm25Tasks, k \in Kinds :
        /\ Moved(b, k) => Opened(b, k)
        /\ Opened(b, k) => bm[b].st \in Works
  BY DEF Moved, Opened, Works
<1>5. QED
  BY <1>1, <1>2, <1>3, <1>4

-----------------------------------------------------------------------------
(* The files of the versions that were not shared.                         *)

\* A file that is not being written has no writer, and a version two builders
\* work on is known to be shared.
WritersWrite ==
    \A n \in Names, c \in Bm25Tasks :
        c \in tmp[n].by \cup pickle[n].by => bm[c].st = "write" /\ Mine(c) = n
SharedKnown == Worked \subseteq shared

\* Of a version nobody shares, a builder's files are complete or its own to
\* complete, and those in place are complete.
TmpClean ==
    \A b \in Bm25Tasks, k \in Kinds : Opened(b, k) /\ bm[b].v \notin shared =>
        \/ tmp[k, bm[b].v].st = "absent"
        \/ tmp[k, bm[b].v].st = "whole" /\ tmp[k, bm[b].v].by \subseteq {b}
PickleClean ==
    \A k \in Kinds, v \in (1..MaxVersion) \ shared :
        pickle[k, v].st # "torn" /\ pickle[k, v].by = {}

CleanInv == WritersWrite /\ SharedKnown /\ TmpClean /\ PickleClean

\* Two builders of a version are told apart by their names only if it is not
\* shared.
LEMMA OneBuilder ==
    ASSUME SharedKnown, NEW b \in Bm25Tasks, NEW c \in Bm25Tasks, b # c,
           bm[b].st \in Works, bm[c].st \in Works, bm[b].v = bm[c].v,
           bm[b].v \in 1..MaxVersion
    PROVE  bm[b].v \in shared
  BY DEF SharedKnown, Worked

\* A step that touches no file, and after which nobody has opened one who had
\* not before.
LEMMA QuietKeepsFiles ==
    ASSUME Joint, CleanInv, SharedKnown', shared \subseteq shared',
           UNCHANGED <<tmp, pickle>>,
           \A c \in Bm25Tasks : \/ bm'[c] = bm[c]
                                \/ /\ bm[c].st # "write"
                                   /\ \A k \in Kinds : ~Opened(c, k)'
    PROVE  CleanInv'
<1>1. WritersWrite'
  BY DEF CleanInv, WritersWrite, Mine
<1>2. TmpClean'
  <2>1. SUFFICES ASSUME NEW b \in Bm25Tasks, NEW k \in Kinds,
                        Opened(b, k)', bm'[b].v \notin shared'
                 PROVE  \/ tmp[k, bm'[b].v].st = "absent"
                        \/ /\ tmp[k, bm'[b].v].st = "whole"
                           /\ tmp[k, bm'[b].v].by \subseteq {b}
    BY DEF TmpClean
  <2>2. bm'[b] = bm[b]
    BY <2>1
  <2>3. Opened(b, k)
    BY <2>1, <2>2 DEF Opened
  <2>4. bm[b].v \notin shared
    BY <2>1, <2>2
  <2>5. QED
    BY <2>2, <2>3, <2>4 DEF CleanInv, TmpClean
<1>3. PickleClean'
  BY DEF CleanInv, PickleClean
<1>4. QED
  BY <1>1, <1>2, <1>3 DEF CleanInv

\* A builder leaves its file broken, and no longer builds.
LEMMA BreakKeepsFiles ==
    ASSUME Joint, CleanInv, SharedKnown', shared \subseteq shared',
           NEW b \in Bm25Tasks, tmp' = Broken(tmp, b), pickle' = Broken(pickle, b),
           \A k \in Kinds : ~Opened(b, k)',
           \A c \in Bm25Tasks : c # b => bm'[c] = bm[c]
    PROVE  CleanInv'
<1>t. OwnTypeOK
  BY DEF Joint
<1>f. \A n \in Names :
         /\ tmp'[n].by = tmp[n].by \ {b} /\ pickle'[n].by = pickle[n].by \ {b}
         /\ tmp'[n].st = IF b \in tmp[n].by THEN "torn" ELSE tmp[n].st
         /\ pickle'[n].st = IF b \in pickle[n].by THEN "torn" ELSE pickle[n].st
  BY <1>t, FilesOf DEF OwnTypeOK
<1>1. WritersWrite'
  BY <1>f DEF CleanInv, WritersWrite, Mine
<1>2. ASSUME NEW c \in Bm25Tasks, NEW k \in Kinds, Opened(c, k)', bm'[c].v \notin shared'
      PROVE  \/ tmp'[k, bm'[c].v].st = "absent"
             \/ tmp'[k, bm'[c].v].st = "whole" /\ tmp'[k, bm'[c].v].by \subseteq {c}
  <2>1. c # b /\ bm'[c] = bm[c] /\ Opened(c, k)
    BY <1>2 DEF Opened
  <2>2. <<k, bm[c].v>> \in Names
    BY <1>t, <2>1, NamesOf
  <2>3. bm[c].v \notin shared
    BY <1>2, <2>1
  <2>4. \/ tmp[k, bm[c].v].st = "absent"
        \/ tmp[k, bm[c].v].st = "whole" /\ tmp[k, bm[c].v].by \subseteq {c}
    BY <2>1, <2>3 DEF CleanInv, TmpClean
  <2>5. b \notin tmp[k, bm[c].v].by
    <3>1. SUFFICES ASSUME b \in tmp[k, bm[c].v].by PROVE FALSE
      OBVIOUS
    <3>2. bm[b].st = "write" /\ bm[b].v = bm[c].v
      BY <2>2, <3>1 DEF CleanInv, WritersWrite, Mine
    <3>3. bm[c].st \in Works /\ bm[c].v \in 1..MaxVersion
      BY <1>t, <2>1, NamesOf
    <3>4. QED
      BY <2>1, <2>3, <3>2, <3>3, OneBuilder DEF CleanInv, Works
  <2>6. QED
    BY <1>f, <1>2, <2>1, <2>2, <2>4, <2>5
<1>3. ASSUME NEW k \in Kinds, NEW v \in (1..MaxVersion) \ shared'
      PROVE  pickle'[k, v].st # "torn" /\ pickle'[k, v].by = {}
  <2>1. <<k, v>> \in Names /\ v \notin shared
    BY <1>3 DEF Names
  <2>2. pickle[k, v].st # "torn" /\ pickle[k, v].by = {}
    BY <2>1 DEF CleanInv, PickleClean
  <2>3. QED
    BY <1>f, <2>1, <2>2
<1>4. QED
  BY <1>1, <1>2, <1>3 DEF CleanInv, TmpClean, PickleClean

\* A builder opens its file: if the version is not shared, nobody else has it.
LEMMA OpenKeepsFiles ==
    ASSUME Joint, CleanInv, SharedKnown', shared \subseteq shared',
           NEW b \in Bm25Tasks, BmOpen(b)
    PROVE  CleanInv'
<1>t. OwnTypeOK /\ bm[b].st = "open" /\ bm[b].st \in Works
  BY DEF Joint, BmOpen, Works
<1>r. /\ bm'[b].st = "write" /\ bm'[b].k = bm[b].k /\ bm'[b].v = bm[b].v
      /\ bm[b].v \in 1..MaxVersion /\ bm[b].k \in Kinds
      /\ Mine(b) \in Names /\ Mine(b) = <<bm[b].k, bm[b].v>>
      /\ \A c \in Bm25Tasks : c # b => bm'[c] = bm[c]
  BY <1>t, BmRecords DEF BmStep, GoesOn, Mine
<1>f. /\ pickle' = pickle
      /\ \A n \in Names : n # Mine(b) => tmp'[n] = tmp[n]
      /\ tmp'[Mine(b)].by = tmp[Mine(b)].by \cup {b}
      /\ tmp[Mine(b)].by = {} => tmp'[Mine(b)].st = "whole"
  BY <1>t, <1>r DEF BmOpen, OwnTypeOK
<1>o. ASSUME NEW c \in Bm25Tasks, c # b, bm[c].st \in Works, bm[c].v = bm[b].v
      PROVE  bm[b].v \in shared'
  <2>1. bm'[b].st \in Works /\ bm'[c].st \in Works /\ bm'[c].v = bm'[b].v
    BY <1>o, <1>r DEF Works
  <2>2. QED
    BY <1>o, <1>r, <2>1 DEF SharedKnown, Worked
<1>1. WritersWrite'
  <2> SUFFICES ASSUME NEW n \in Names, NEW c \in Bm25Tasks,
                      c \in tmp'[n].by \cup pickle'[n].by
               PROVE  bm'[c].st = "write" /\ <<bm'[c].k, bm'[c].v>> = n
    BY DEF WritersWrite, Mine
  <2>1. CASE c \in tmp[n].by \cup pickle[n].by
    <3>1. bm[c].st = "write" /\ Mine(c) = n
      BY <2>1 DEF CleanInv, WritersWrite
    <3>2. QED
      BY <1>t, <1>r, <3>1 DEF Mine
  <2>2. CASE c \notin tmp[n].by \cup pickle[n].by
    <3>1. n = Mine(b) /\ c = b
      BY <1>f, <2>2
    <3>2. QED
      BY <1>r, <3>1
  <2>3. QED
    BY <2>1, <2>2
<1>2. ASSUME NEW c \in Bm25Tasks, NEW k \in Kinds, Opened(c, k)', bm'[c].v \notin shared'
      PROVE  \/ tmp'[k, bm'[c].v].st = "absent"
             \/ tmp'[k, bm'[c].v].st = "whole" /\ tmp'[k, bm'[c].v].by \subseteq {c}
  <2>1. CASE c # b
    <3>1. bm'[c] = bm[c] /\ Opened(c, k)
      BY <1>2, <1>r, <2>1 DEF Opened
    <3>2. bm[c].st \in Works /\ <<k, bm[c].v>> \in Names
      BY <1>t, <3>1, NamesOf
    <3>3. <<k, bm[c].v>> # Mine(b)
      BY <1>2, <1>o, <1>r, <2>1, <3>1, <3>2
    <3>4. bm[c].v \notin shared
      BY <1>2, <1>r, <3>1
    <3>5. \/ tmp[k, bm[c].v].st = "absent"
          \/ tmp[k, bm[c].v].st = "whole" /\ tmp[k, bm[c].v].by \subseteq {c}
      BY <3>1, <3>4 DEF CleanInv, TmpClean
    <3>6. QED
      BY <1>f, <3>1, <3>2, <3>3, <3>5
  <2>2. CASE c = b /\ k # bm[b].k
    <3>1. Opened(b, k)
      BY <1>2, <1>r, <1>t, <2>2 DEF Opened, Kinds
    <3>2. <<k, bm[b].v>> \in Names /\ <<k, bm[b].v>> # Mine(b)
      BY <1>t, <1>r, <2>2, <3>1, NamesOf
    <3>3. bm[b].v \notin shared
      BY <1>2, <1>r, <2>2
    <3>4. \/ tmp[k, bm[b].v].st = "absent"
          \/ tmp[k, bm[b].v].st = "whole" /\ tmp[k, bm[b].v].by \subseteq {b}
      BY <3>1, <3>3 DEF CleanInv, TmpClean
    <3>5. QED
      BY <1>f, <1>r, <2>2, <3>2, <3>4
  <2>3. CASE c = b /\ k = bm[b].k
    <3>1. ASSUME NEW d \in Bm25Tasks, d \in tmp[Mine(b)].by PROVE FALSE
      <4>1. bm[d].st = "write" /\ Mine(d) = Mine(b)
        BY <1>r, <3>1 DEF CleanInv, WritersWrite
      <4>2. d # b /\ bm[d].st \in Works /\ bm[d].v = bm[b].v
        BY <1>t, <4>1 DEF Works, Mine
      <4>3. QED
        BY <1>2, <1>o, <1>r, <2>3, <4>2
    <3>2. tmp[Mine(b)].by = {}
      BY <3>1, <1>t, <1>r DEF OwnTypeOK, FileState
    <3>3. QED
      BY <1>f, <1>r, <2>3, <3>2
  <2>4. QED
    BY <2>1, <2>2, <2>3
<1>3. PickleClean'
  BY <1>f DEF CleanInv, PickleClean
<1>4. QED
  BY <1>1, <1>2, <1>3 DEF CleanInv, TmpClean

\* A builder has written its file to the end.
LEMMA WriteKeepsFiles ==
    ASSUME Joint, CleanInv, SharedKnown', shared \subseteq shared',
           NEW b \in Bm25Tasks, BmWrite(b)
    PROVE  CleanInv'
<1>t. OwnTypeOK /\ bm[b].st = "write" /\ bm[b].st \in Works
  BY DEF Joint, BmWrite, Works
<1>r. /\ IF bm[b].k = "docs" THEN GoesOn(b, "open", "retriever")
                             ELSE GoesOn(b, "move", "docs")
      /\ bm[b].k \in Kinds
      /\ \A c \in Bm25Tasks : c # b => bm'[c] = bm[c]
  BY <1>t, BmRecords DEF BmStep
<1>f. \A n \in Names :
         /\ tmp'[n].by = tmp[n].by \ {b} /\ pickle'[n].by = pickle[n].by \ {b}
         /\ tmp'[n].st = tmp[n].st /\ pickle'[n].st = pickle[n].st
  BY <1>t, FilesOf DEF OwnTypeOK, BmWrite
<1>1. WritersWrite'
  BY <1>r, <1>f DEF CleanInv, WritersWrite, Mine
<1>2. ASSUME NEW c \in Bm25Tasks, NEW k \in Kinds, Opened(c, k)', bm'[c].v \notin shared'
      PROVE  \/ tmp'[k, bm'[c].v].st = "absent"
             \/ tmp'[k, bm'[c].v].st = "whole" /\ tmp'[k, bm'[c].v].by \subseteq {c}
  <2>1. Opened(c, k) /\ bm'[c].v = bm[c].v
    <3>1. CASE c # b
      BY <1>2, <1>r, <3>1 DEF Opened
    <3>2. CASE c = b
      BY <1>2, <1>t, <1>r, <3>2 DEF Opened, GoesOn, Kinds
    <3>3. QED
      BY <3>1, <3>2
  <2>2. <<k, bm[c].v>> \in Names
    BY <1>t, <2>1, NamesOf
  <2>3. bm[c].v \notin shared
    BY <1>2, <2>1
  <2>4. \/ tmp[k, bm[c].v].st = "absent"
        \/ tmp[k, bm[c].v].st = "whole" /\ tmp[k, bm[c].v].by \subseteq {c}
    BY <2>1, <2>3 DEF CleanInv, TmpClean
  <2>5. QED
    BY <1>f, <1>2, <2>1, <2>2, <2>4
<1>3. ASSUME NEW k \in Kinds, NEW v \in (1..MaxVersion) \ shared'
      PROVE  pickle'[k, v].st # "torn" /\ pickle'[k, v].by = {}
  <2>1. <<k, v>> \in Names /\ v \notin shared
    BY <1>3 DEF Names
  <2>2. pickle[k, v].st # "torn" /\ pickle[k, v].by = {}
    BY <2>1 DEF CleanInv, PickleClean
  <2>3. QED
    BY <1>f, <2>1, <2>2
<1>4. QED
  BY <1>1, <1>2, <1>3 DEF CleanInv, TmpClean, PickleClean

\* A builder renames a file: if the version is not shared, a complete one.
LEMMA MoveKeepsFiles ==
    ASSUME Joint, CleanInv, SharedKnown', shared \subseteq shared',
           NEW b \in Bm25Tasks, BmMove(b), tmp[Mine(b)].st # "absent"
    PROVE  CleanInv'
<1>t. OwnTypeOK /\ bm[b].st = "move" /\ bm[b].st \in Works
  BY DEF Joint, BmMove, Works
<1>r. /\ IF bm[b].k = "docs" THEN GoesOn(b, "move", "retriever")
                             ELSE GoesOn(b, "published", "retriever")
      /\ bm[b].v \in 1..MaxVersion /\ bm[b].k \in Kinds
      /\ Mine(b) \in Names /\ Mine(b) = <<bm[b].k, bm[b].v>>
      /\ \A c \in Bm25Tasks : c # b => bm'[c] = bm[c]
  BY <1>t, BmRecords DEF BmStep, Mine
<1>f. /\ \A n \in Names : n # Mine(b) => tmp'[n] = tmp[n] /\ pickle'[n] = pickle[n]
      /\ tmp'[Mine(b)] = NoFile /\ pickle'[Mine(b)] = tmp[Mine(b)]
  BY <1>t, <1>r DEF BmMove, OwnTypeOK
<1>n. NoFile.by = {} /\ NoFile.st = "absent"
  BY DEF NoFile
<1>1. WritersWrite'
  <2> SUFFICES ASSUME NEW n \in Names, NEW c \in Bm25Tasks,
                      c \in tmp'[n].by \cup pickle'[n].by
               PROVE  bm'[c].st = "write" /\ <<bm'[c].k, bm'[c].v>> = n
    BY DEF WritersWrite, Mine
  <2>1. c \in tmp[n].by \cup pickle[n].by
    BY <1>f, <1>n
  <2>2. bm[c].st = "write" /\ Mine(c) = n
    BY <2>1 DEF CleanInv, WritersWrite
  <2>3. QED
    BY <1>t, <1>r, <2>2 DEF Mine
<1>2. ASSUME NEW c \in Bm25Tasks, NEW k \in Kinds, Opened(c, k)', bm'[c].v \notin shared'
      PROVE  \/ tmp'[k, bm'[c].v].st = "absent"
             \/ tmp'[k, bm'[c].v].st = "whole" /\ tmp'[k, bm'[c].v].by \subseteq {c}
  <2>1. Opened(c, k) /\ bm'[c].v = bm[c].v
    <3>1. CASE c # b
      BY <1>2, <1>r, <3>1 DEF Opened
    <3>2. CASE c = b
      BY <1>2, <1>t, <1>r, <3>2 DEF Opened, GoesOn
    <3>3. QED
      BY <3>1, <3>2
  <2>2. <<k, bm[c].v>> \in Names
    BY <1>t, <2>1, NamesOf
  <2>3. CASE <<k, bm[c].v>> = Mine(b)
    BY <1>f, <1>n, <2>1, <2>3
  <2>4. CASE <<k, bm[c].v>> # Mine(b)
    <3>1. bm[c].v \notin shared
      BY <1>2, <2>1
    <3>2. \/ tmp[k, bm[c].v].st = "absent"
          \/ tmp[k, bm[c].v].st = "whole" /\ tmp[k, bm[c].v].by \subseteq {c}
      BY <2>1, <3>1 DEF CleanInv, TmpClean
    <3>3. QED
      BY <1>f, <2>1, <2>2, <2>4, <3>2
  <2>5. QED
    BY <2>3, <2>4
<1>3. ASSUME NEW k \in Kinds, NEW v \in (1..MaxVersion) \ shared'
      PROVE  pickle'[k, v].st # "torn" /\ pickle'[k, v].by = {}
  <2>1. <<k, v>> \in Names /\ v \notin shared
    BY <1>3 DEF Names
  <2>2. CASE <<k, v>> # Mine(b)
    BY <1>f, <2>1, <2>2 DEF CleanInv, PickleClean
  <2>3. CASE <<k, v>> = Mine(b)
    <3>1. Opened(b, k) /\ bm[b].v = v
      BY <1>t, <1>r, <2>3 DEF Opened
    <3>2. tmp[Mine(b)].st = "whole" /\ tmp[Mine(b)].by \subseteq {b}
      BY <2>1, <2>3, <3>1 DEF CleanInv, TmpClean
    <3>3. b \notin tmp[Mine(b)].by
      BY <1>t, <1>r DEF CleanInv, WritersWrite
    <3>4. QED
      BY <1>f, <2>3, <3>2, <3>3
  <2>4. QED
    BY <2>2, <2>3
<1>4. QED
  BY <1>1, <1>2, <1>3 DEF CleanInv, TmpClean, PickleClean

\* Every step keeps the files of the versions that are not shared.
LEMMA FilesStep ==
    ASSUME Joint, CleanInv, [HNext]_<<vars, hist>> PROVE CleanInv'
<1>t. OwnTypeOK
  BY DEF Joint
<1>1. CASE UNCHANGED <<vars, hist>>
  <2>1. UNCHANGED <<tmp, pickle, bm, shared>>
    BY <1>1 DEF vars, indexVars, bmVars, hist
  <2>2. SharedKnown'
    BY <2>1 DEF CleanInv, SharedKnown, Worked
  <2>3. QED
    BY <2>1, <2>2, QuietKeepsFiles
<1>2. CASE HNext
  <2>1. SharedKnown' /\ shared \subseteq shared'
    BY <1>2 DEF HNext, SharedKnown
  <2> DEFINE Fresh(c) == /\ bm[c].st # "write"
                         /\ bm'[c].st \notin {"write", "move", "published"}
                         /\ bm'[c].st = "open" => bm'[c].k = "docs"
  <2>2. (/\ tmp' = tmp /\ pickle' = pickle
         /\ \A c \in Bm25Tasks : bm'[c] = bm[c] \/ Fresh(c)) => CleanInv'
    <3>1. SUFFICES ASSUME tmp' = tmp, pickle' = pickle,
                          \A c \in Bm25Tasks : bm'[c] = bm[c] \/ Fresh(c)
                   PROVE  CleanInv'
      OBVIOUS
    <3>2. \A c \in Bm25Tasks : Fresh(c) => \A k \in Kinds : ~Opened(c, k)'
      BY DEF Opened
    <3>3. QED
      BY <2>1, <3>1, <3>2, QuietKeepsFiles
  <2>3. ASSUME NEW b \in Bm25Tasks, BmStep(b) PROVE CleanInv'
    <3>1. /\ \A c \in Bm25Tasks : c # b => bm'[c] = bm[c]
          /\ bm[b] # NoTask
      BY <1>t, <2>3, BmRecords
    <3>2. CASE BmList(b)
      <4>1. bm'[b].st = "listed"
        BY <1>t, <3>2, BmRecords
      <4>2. QED
        BY <2>2, <3>1, <3>2, <4>1 DEF BmList, BmLists
    <3>3. CASE BmRead(b)
      <4>1. bm'[b].st = "open" /\ bm'[b].k = "docs"
        BY <1>t, <3>3, BmRecords
      <4>2. QED
        BY <2>2, <3>1, <3>3, <4>1 DEF BmRead
    <3>4. CASE BmFails(b)
      <4>1. bm'[b].st \in {"none", "queued"}
        BY <1>t, <3>4, BmRecords DEF NoTask
      <4>2. QED
        BY <2>2, <3>1, <3>4, <4>1 DEF BmFails
    <3>5. CASE BmBuildFails(b)
      <4>1. bm'[b].st = "failing"
        BY <1>t, <3>5, BmRecords
      <4>2. QED
        BY <2>1, <3>1, <3>5, <4>1, BreakKeepsFiles DEF BmBuildFails, Opened
    <3>6. CASE BmMove(b)
      <4>1. CASE tmp[Mine(b)].st = "absent"
        <5>1. bm'[b].st = "failing"
          BY <1>t, <3>6, <4>1, BmRecords
        <5>2. QED
          BY <2>2, <3>1, <3>6, <4>1, <5>1 DEF BmMove
      <4>2. QED
        BY <2>1, <3>6, <4>1, MoveKeepsFiles
    <3>7. CASE BmCommit(b) \/ BmMarkFailed(b)
      <4>1. bm'[b].st \in {"none", "failing"}
        BY <1>t, <3>7, BmRecords DEF NoTask
      <4>2. QED
        BY <2>2, <3>1, <3>7, <4>1 DEF BmCommit, BmMarkFailed
    <3>8. QED
      BY <2>1, <2>3, <3>2, <3>3, <3>4, <3>5, <3>6, <3>7, OpenKeepsFiles,
         WriteKeepsFiles DEF BmStep
  <2>4. CASE IndexCrash
    <3>1. CASE UNCHANGED <<tmp, pickle, bm>>
      BY <2>2, <3>1
    <3>2. ASSUME NEW b \in Bm25Tasks, BmDone(b), tmp' = Broken(tmp, b),
                 pickle' = Broken(pickle, b)
          PROVE  CleanInv'
      <4>1. bm'[b] = NoTask /\ \A c \in Bm25Tasks : c # b => bm'[c] = bm[c]
        BY <1>t, <3>2 DEF BmDone, OwnTypeOK
      <4>2. QED
        BY <2>1, <3>2, <4>1, BreakKeepsFiles DEF Opened, NoTask
    <3>3. QED
      BY <2>4, <3>1, <3>2 DEF IndexCrash
  <2>5. ASSUME NEW p \in Pollers, PollStep(p) \/ \E r \in Requests : PollDocument(p, r)
        PROVE  CleanInv'
    <3>1. UNCHANGED <<tmp, pickle>>
      BY <2>5 DEF PollStep, PollDocument, PollBm25, PollInsert, PollRefresh, PollMark,
          PollDbFails, PollFire, bmVars
    <3>2. \A c \in Bm25Tasks :
            bm'[c] = bm[c] \/ (bm[c] = NoTask /\ bm'[c].st = "queued")
      BY <1>t, <2>5 DEF PollStep, PollDocument, PollBm25, PollInsert, PollRefresh,
          PollMark, PollDbFails, PollFire, QueueBm25, bmVars, OwnTypeOK
    <3>3. QED
      BY <2>2, <3>1, <3>2 DEF NoTask
  <2>6. ASSUME UNCHANGED <<tmp, pickle, bm>> PROVE CleanInv'
    BY <2>2, <2>6
  <2>7. QED
    BY <1>2, <2>3, <2>4, <2>5, <2>6 DEF HNext, Next, indexVars, bmVars, MiStep, MiRead,
        MiSummary, MiExplanation, MiWrite, MiFails
<1>3. QED
  BY <1>1, <1>2

\* In every behaviour.
LEMMA AlwaysClean == HSpec => []CleanInv
<1>1. HInit => CleanInv
  <2> SUFFICES ASSUME HInit PROVE CleanInv
    OBVIOUS
  <2>1. /\ \A n \in Names : /\ tmp[n].by = {} /\ pickle[n].by = {}
                           /\ pickle[n].st = "absent"
        /\ \A b \in Bm25Tasks : bm[b].st = "none"
    BY DEF HInit, Init, NothingRuns, NoFile, NoTask
  <2>2. WritersWrite
    BY <2>1 DEF WritersWrite
  <2>3. SharedKnown /\ TmpClean
    BY <2>1 DEF SharedKnown, Worked, TmpClean, Opened, Works
  <2>4. PickleClean
    BY <2>1 DEF PickleClean, Names
  <2>5. QED
    BY <2>2, <2>3, <2>4 DEF CleanInv
<1>2. Joint /\ CleanInv /\ [HNext]_<<vars, hist>> => CleanInv'
  BY FilesStep
<1>3. QED
  BY <1>1, <1>2, HistorySpec, AlwaysJoint, PTL DEF HSpec

\* Whatever fails, dies or is retried, no part of a file is ever put in place,
\* and the version on the row has its files, but for the versions that two
\* builders wrote at the same time.
THEOREM OnlySharedVersionsBreak == HSpec => []OnlySharedBroken
<1>1. Joint /\ CleanInv => OnlySharedBroken
  <2> SUFFICES ASSUME Joint, CleanInv PROVE OnlySharedBroken
    OBVIOUS
  <2>1. ASSUME NEW k \in Kinds, NEW v \in (1..MaxVersion) \ shared
        PROVE  \/ pickle[k, v].st = "absent"
               \/ pickle[k, v].st = "whole" /\ pickle[k, v].by = {}
    <3>1. pickle[k, v].st \in {"absent", "whole", "torn"}
      BY DEF Joint, OwnTypeOK, Names, FileState
    <3>2. QED
      BY <3>1 DEF CleanInv, PickleClean
  <2>2. VersionIsOnDisk
    BY DEF Joint, IndexInv
  <2>3. QED
    BY <2>1, <2>2 DEF OnlySharedBroken
<1>2. QED
  BY <1>1, AlwaysClean, AlwaysJoint, HistorySpec, PTL

-----------------------------------------------------------------------------
(* What the indexes lack.                                                  *)

\* A step of the pipeline.
LEMMA PipelineKeepsHistory ==
    ASSUME Joint, HistoryInv, Recorded,
           NEW r \in Requests, P!PipelineStep(r), UNCHANGED indexVars
    PROVE  HistoryInv'
<1>1. PP!TypeOK /\ PP!PipelineInv /\ PP!PipelineStep(r) /\ PP!PipelineAssumption
  BY SameStep, SameAssumption DEF Joint, PipeInv
<1>2. UNCHANGED <<version, tmp, pickle, bm>> /\ (Building' <=> Building)
  BY DEF indexVars, bmVars, Building
<1>3. bm25' \in {bm25, "STALE"}
  BY <1>1, PP!RowStep
<1>r. raced' = IF Building THEN raced \cup Races ELSE raced
  BY DEF Recorded
<1>4. \A q \in Due' \ Due : q \in Races /\ (seen[q] = "READY" => bm25' = "STALE")
  <2> SUFFICES ASSUME NEW q \in Requests, doc'[q] = "READY", doc[q] # "READY"
               PROVE  t2[q].st = "read" /\ (seen[q] = "READY" => bm25' = "STALE")
    BY <1>r DEF Due, ReadyDocs, Races
  <2>1. QED
    BY <1>1, PP!LookAndCommit
<1>5. Building => Due' \subseteq Due
  BY <1>4, <1>r DEF Due
<1>6. \A q \in Races' \ raced' : bm25' = "READY" => Building' \/ seen'[q] = "READY"
  <2> SUFFICES ASSUME NEW q \in Requests, t2'[q].st = "read", q \notin raced',
                      bm25' = "READY", ~Building
               PROVE  seen'[q] = "READY"
    BY <1>2 DEF Races
  <2>1. bm25 = "READY"
    BY <1>3
  <2>2. t2[q].st = "read" => seen[q] = "READY"
    BY <2>1, <1>r DEF HistoryInv, Races
  <2>3. QED
    BY <1>1, <2>1, <2>2, PP!LookAndCommit
<1>7. ASSUME NEW f, Due' \subseteq Due, HasAllDue(f)
      PROVE  f.st = "torn" \/ Due' \subseteq f.docs
  BY <1>7 DEF HasAllDue
<1>8. ASSUME bm25' = "READY"
      PROVE  version > 0 /\ \A k \in Kinds : \/ pickle[k, version].st = "torn"
                                            \/ Due' \subseteq pickle[k, version].docs
  <2>1. bm25 = "READY"
    BY <1>3, <1>8
  <2>2. version > 0 /\ \A k \in Kinds : HasAllDue(pickle[k, version])
    BY <2>1 DEF HistoryInv, OnlyRacedMissing
  <2>3. ~Building => Due' \subseteq Due
    BY <1>4, <1>8, <1>r, <2>1 DEF HistoryInv, Due
  <2>4. QED
    BY <1>5, <1>7, <2>2, <2>3
<1>9. ASSUME NEW b \in Bm25Tasks, bm[b].st \in Builds PROVE Due' \subseteq bm[b].docs
  BY <1>5, <1>9 DEF HistoryInv, Building
<1>10. ASSUME NEW b \in Bm25Tasks, NEW k \in Kinds, Opened(b, k) \/ Moved(b, k)
       PROVE  Due' \subseteq Due
  BY <1>5, <1>10 DEF Opened, Moved, Building, Builds, Works
<1>11. ASSUME NEW b \in Bm25Tasks, NEW k \in Kinds
       PROVE  /\ Opened(b, k) => \/ tmp[k, bm[b].v].st \in {"absent", "torn"}
                                \/ Due' \subseteq tmp[k, bm[b].v].docs
              /\ Moved(b, k) => \/ pickle[k, bm[b].v].st = "torn"
                               \/ Due' \subseteq pickle[k, bm[b].v].docs
  BY <1>7, <1>10 DEF HistoryInv
<1>12. QED
  BY <1>2, <1>6, <1>8, <1>9, <1>11 DEF HistoryInv, OnlyRacedMissing, HasAllDue, Opened, Moved

\* The files of a step of a builder hold what they held, or are torn.
SameOrTorn == \A n \in Names :
    /\ tmp'[n].docs = tmp[n].docs /\ tmp'[n].st \in {tmp[n].st, "torn"}
    /\ pickle'[n].docs = pickle[n].docs /\ pickle'[n].st \in {pickle[n].st, "torn"}

\* A step of a poll or a builder that makes nothing READY and adds nothing to
\* a file: no builder has more to answer for than before.
LEMMA QuietKeepsHistory ==
    ASSUME Joint, HistoryInv, Recorded, UNCHANGED <<doc, t2, seen, version>>,
           bm25' = "READY" => bm25 = "READY", SameOrTorn,
           \A b \in Bm25Tasks :
              /\ bm'[b].st \in Builds => bm[b].st \in Builds /\ bm'[b].docs = bm[b].docs
              /\ \A k \in Kinds :
                    /\ Opened(b, k)' => Opened(b, k) /\ bm'[b].v = bm[b].v
                    /\ Moved(b, k)' => Moved(b, k) /\ bm'[b].v = bm[b].v
    PROVE  HistoryInv'
<1>t. OwnTypeOK
  BY DEF Joint
<1>1. Due' \subseteq Due /\ Races' = Races /\ raced \subseteq raced'
  BY DEF Due, ReadyDocs, Races, Recorded
<1>2. \A b \in Bm25Tasks : bm'[b].st \in Builds => Due' \subseteq bm'[b].docs
  BY <1>1 DEF HistoryInv
<1>3. ASSUME NEW n \in Names
      PROVE  /\ HasAllDue(tmp[n]) => HasAllDue(tmp[n])'
             /\ HasAllDue(pickle[n]) => HasAllDue(pickle[n])'
  BY <1>1, <1>3 DEF HasAllDue, SameOrTorn
<1>4. ASSUME NEW b \in Bm25Tasks, NEW k \in Kinds, Opened(b, k)'
      PROVE  tmp'[k, bm'[b].v].st = "absent" \/ HasAllDue(tmp[k, bm[b].v])'
  <2>1. Opened(b, k) /\ bm'[b].v = bm[b].v /\ <<k, bm[b].v>> \in Names
    BY <1>t, <1>4, NamesOf
  <2>2. CASE HasAllDue(tmp[k, bm[b].v])
    BY <1>3, <2>1, <2>2 DEF HasAllDue
  <2>3. CASE tmp[k, bm[b].v].st = "absent"
    BY <2>1, <2>3 DEF SameOrTorn, HasAllDue
  <2>4. QED
    BY <2>1, <2>2, <2>3 DEF HistoryInv
<1>5. ASSUME NEW b \in Bm25Tasks, NEW k \in Kinds, Moved(b, k)'
      PROVE  HasAllDue(pickle[k, bm[b].v])'
  <2>1. Moved(b, k) /\ bm'[b].v = bm[b].v /\ <<k, bm[b].v>> \in Names
    BY <1>t, <1>5, NamesOf
  <2>2. HasAllDue(pickle[k, bm[b].v])
    BY <2>1 DEF HistoryInv
  <2>3. QED
    BY <1>3, <2>1, <2>2 DEF HasAllDue
<1>6. OnlyRacedMissing'
  <2>1. SUFFICES ASSUME bm25' = "READY"
                 PROVE  version' > 0 /\ \A k \in Kinds : HasAllDue(pickle[k, version])'
    BY DEF OnlyRacedMissing
  <2>2. version > 0 /\ \A k \in Kinds : HasAllDue(pickle[k, version])
                                      /\ <<k, version>> \in Names
    BY <1>t, <2>1, NamesOf DEF HistoryInv, OnlyRacedMissing
  <2>3. QED
    BY <1>3, <2>2 DEF HasAllDue
<1>7. \A q \in Races \ raced' : bm25' = "READY" => seen[q] = "READY"
  BY <1>1 DEF HistoryInv, Recorded
<1>8. QED
  BY <1>1, <1>2, <1>4, <1>5, <1>6, <1>7 DEF HistoryInv

\* A builder collects the documents.
LEMMA ListKeepsHistory ==
    ASSUME Joint, HistoryInv, Recorded, NEW n \in Bm25Tasks, BmList(n)
    PROVE  HistoryInv'
<1>1. /\ bm'[n].st = "listed" /\ bm'[n].docs = ReadyDocs
      /\ \A b \in Bm25Tasks : b # n => bm'[b] = bm[b]
  BY BmRecords DEF Joint, BmStep
<1>2. UNCHANGED <<doc, t2, seen, bm25, version, tmp, pickle>>
  BY DEF BmList, BmLists, pipeVars
<1>3. Due' \subseteq Due /\ Building' /\ \A f : HasAllDue(f) => f.st = "torn" \/ Due' \subseteq f.docs
  BY <1>1, <1>2 DEF Due, ReadyDocs, Recorded, Building, Builds, HasAllDue
<1>4. \A b \in Bm25Tasks : bm'[b].st \in Builds => Due' \subseteq bm'[b].docs
  BY <1>1, <1>3 DEF HistoryInv, Due
<1>5. ASSUME NEW b \in Bm25Tasks, NEW k \in Kinds
      PROVE  /\ Opened(b, k)' => Opened(b, k) /\ bm'[b] = bm[b]
             /\ Moved(b, k)' => Moved(b, k) /\ bm'[b] = bm[b]
  BY <1>1 DEF Opened, Moved
<1>6. OnlyRacedMissing'
  BY <1>2, <1>3 DEF HistoryInv, OnlyRacedMissing, HasAllDue
<1>7. QED
  BY <1>2, <1>3, <1>4, <1>5, <1>6 DEF HistoryInv, HasAllDue

\* A builder opens a file: it will hold what the builder has collected, or it
\* is torn.
LEMMA OpenKeepsHistory ==
    ASSUME Joint, HistoryInv, Recorded, NEW n \in Bm25Tasks, BmOpen(n)
    PROVE  HistoryInv'
<1>t. OwnTypeOK /\ bm[n].st = "open" /\ bm[n].st \in Works
  BY DEF Joint, BmOpen, Works
<1>r. /\ GoesOn(n, "write", bm[n].k)
      /\ \A b \in Bm25Tasks : b # n => bm'[b] = bm[b]
      /\ Mine(n) \in Names /\ bm[n].k \in Kinds /\ Mine(n) = <<bm[n].k, bm[n].v>>
  BY <1>t, BmRecords DEF BmStep, Mine
<1>u. UNCHANGED <<doc, t2, seen, bm25, version, pickle>>
  BY DEF BmOpen, pipeVars
<1>1. Due' \subseteq Due /\ Races' = Races /\ Building'
  BY <1>t, <1>r, <1>u DEF Due, ReadyDocs, Races, Recorded, Building, Builds, Works, GoesOn
<1>2. Due \subseteq bm[n].docs
  BY <1>t DEF HistoryInv, Builds
<1>3. ASSUME NEW m \in Names, tmp[m].st = "absent" \/ HasAllDue(tmp[m]) \/ m = Mine(n)
      PROVE  tmp'[m].st = "absent" \/ HasAllDue(tmp[m])'
  <2>1. CASE m # Mine(n)
    <3>1. tmp'[m] = tmp[m]
      BY <1>t, <2>1 DEF BmOpen, OwnTypeOK
    <3>2. QED
      BY <1>1, <1>3, <2>1, <3>1 DEF HasAllDue
  <2>2. CASE m = Mine(n)
    <3>1. tmp'[m].st = "torn" \/ tmp'[m].docs = bm[n].docs
      BY <1>t, <2>2 DEF BmOpen, OwnTypeOK
    <3>2. QED
      BY <1>1, <1>2, <3>1 DEF HasAllDue
  <2>3. QED
    BY <2>1, <2>2
<1>4. ASSUME NEW f, HasAllDue(f) PROVE f.st = "torn" \/ Due' \subseteq f.docs
  BY <1>1, <1>4 DEF HasAllDue
<1>5. \A b \in Bm25Tasks : bm'[b].st \in Builds => Due' \subseteq bm'[b].docs
  BY <1>t, <1>r, <1>1, <1>2 DEF HistoryInv, GoesOn
<1>6. ASSUME NEW b \in Bm25Tasks, NEW k \in Kinds, Opened(b, k)'
      PROVE  tmp'[k, bm'[b].v].st = "absent" \/ HasAllDue(tmp[k, bm[b].v])'
  <2>1. /\ bm'[b].v = bm[b].v /\ <<k, bm[b].v>> \in Names
        /\ Opened(b, k) \/ <<k, bm[b].v>> = Mine(n)
    <3>1. CASE b # n
      BY <1>t, <1>r, <1>6, <3>1, NamesOf DEF Opened
    <3>2. CASE b = n
      BY <1>t, <1>r, <1>6, <3>2, NamesOf DEF Opened, GoesOn, Kinds
    <3>3. QED
      BY <3>1, <3>2
  <2>2. \/ tmp[k, bm[b].v].st = "absent" \/ HasAllDue(tmp[k, bm[b].v])
        \/ <<k, bm[b].v>> = Mine(n)
    BY <2>1 DEF HistoryInv
  <2>3. QED
    BY <1>3, <2>1, <2>2 DEF HasAllDue
<1>7. ASSUME NEW b \in Bm25Tasks, NEW k \in Kinds, Moved(b, k)'
      PROVE  HasAllDue(pickle[k, bm[b].v])'
  <2>1. Moved(b, k) /\ bm'[b].v = bm[b].v
    BY <1>r, <1>7 DEF Moved, GoesOn
  <2>2. HasAllDue(pickle[k, bm[b].v])
    BY <2>1 DEF HistoryInv
  <2>3. QED
    BY <1>4, <1>u, <2>1, <2>2 DEF HasAllDue
<1>8. OnlyRacedMissing'
  BY <1>4, <1>u DEF HistoryInv, OnlyRacedMissing, HasAllDue
<1>9. QED
  BY <1>1, <1>5, <1>6, <1>7, <1>8 DEF HistoryInv

\* A builder renames a file: it holds all that a builder who opened it had to
\* put there, also if that was another one.
LEMMA MoveKeepsHistory ==
    ASSUME Joint, HistoryInv, Recorded, NEW n \in Bm25Tasks, BmMove(n),
           tmp[Mine(n)].st # "absent"
    PROVE  HistoryInv'
<1>t. OwnTypeOK /\ bm[n].st = "move" /\ bm[n].st \in Works
  BY DEF Joint, BmMove, Works
<1>r. /\ IF bm[n].k = "docs" THEN GoesOn(n, "move", "retriever")
                             ELSE GoesOn(n, "published", "retriever")
      /\ \A b \in Bm25Tasks : b # n => bm'[b] = bm[b]
      /\ Mine(n) \in Names /\ bm[n].k \in Kinds /\ Mine(n) = <<bm[n].k, bm[n].v>>
  BY <1>t, BmRecords DEF BmStep, Mine
<1>u. UNCHANGED <<doc, t2, seen, bm25, version>>
  BY DEF BmMove, pipeVars
<1>f. \A m \in Names : /\ tmp'[m] = IF m = Mine(n) THEN NoFile ELSE tmp[m]
                       /\ pickle'[m] = IF m = Mine(n) THEN tmp[m] ELSE pickle[m]
  BY <1>t, <1>r DEF BmMove, OwnTypeOK
<1>1. Due' \subseteq Due /\ Races' = Races /\ Building
  BY <1>t, <1>u DEF Due, ReadyDocs, Races, Recorded, Building, Builds, Works
<1>2. HasAllDue(tmp[Mine(n)])
  <2>1. Opened(n, bm[n].k)
    BY <1>t DEF Opened
  <2>2. QED
    BY <1>r, <2>1 DEF HistoryInv
<1>3. ASSUME NEW m \in Names
      PROVE  /\ HasAllDue(pickle[m]) => HasAllDue(pickle[m])'
             /\ m = Mine(n) => HasAllDue(pickle[m])'
             /\ tmp[m].st = "absent" \/ HasAllDue(tmp[m]) =>
                   tmp'[m].st = "absent" \/ HasAllDue(tmp[m])'
  BY <1>f, <1>1, <1>2, <1>3 DEF HasAllDue, NoFile
<1>4. \A b \in Bm25Tasks : bm'[b].st \in Builds => Due' \subseteq bm'[b].docs
  BY <1>t, <1>r, <1>1 DEF HistoryInv, GoesOn, Builds
<1>5. ASSUME NEW b \in Bm25Tasks, NEW k \in Kinds, Opened(b, k)'
      PROVE  tmp'[k, bm'[b].v].st = "absent" \/ HasAllDue(tmp[k, bm[b].v])'
  <2>1. bm'[b].v = bm[b].v /\ Opened(b, k)
    BY <1>t, <1>r, <1>5 DEF Opened, GoesOn
  <2>2. <<k, bm[b].v>> \in Names
    BY <1>t, <2>1, NamesOf
  <2>3. QED
    BY <1>3, <2>1, <2>2 DEF HistoryInv, HasAllDue
<1>6. ASSUME NEW b \in Bm25Tasks, NEW k \in Kinds, Moved(b, k)'
      PROVE  HasAllDue(pickle[k, bm[b].v])'
  <2>1. /\ bm'[b].v = bm[b].v /\ <<k, bm[b].v>> \in Names
        /\ Moved(b, k) \/ <<k, bm[b].v>> = Mine(n)
    <3>1. CASE b # n
      BY <1>t, <1>r, <1>6, <3>1, NamesOf DEF Moved
    <3>2. CASE b = n
      BY <1>t, <1>r, <1>6, <3>2, NamesOf DEF Moved, GoesOn, Kinds
    <3>3. QED
      BY <3>1, <3>2
  <2>2. HasAllDue(pickle[k, bm[b].v]) \/ <<k, bm[b].v>> = Mine(n)
    BY <2>1 DEF HistoryInv
  <2>3. QED
    BY <1>3, <2>1, <2>2 DEF HasAllDue
<1>7. OnlyRacedMissing'
  <2>1. SUFFICES ASSUME bm25' = "READY"
                 PROVE  version' > 0 /\ \A k \in Kinds : HasAllDue(pickle[k, version])'
    BY DEF OnlyRacedMissing
  <2>2. version > 0 /\ \A k \in Kinds : HasAllDue(pickle[k, version])
                                      /\ <<k, version>> \in Names
    BY <1>t, <1>u, <2>1, NamesOf DEF HistoryInv, OnlyRacedMissing
  <2>3. QED
    BY <1>3, <1>u, <2>2 DEF HasAllDue
<1>8. Races' \ raced' = {}
  BY <1>1 DEF Recorded
<1>9. QED
  BY <1>4, <1>5, <1>6, <1>7, <1>8 DEF HistoryInv

\* A builder commits READY, for a version whose files it has renamed.
LEMMA CommitKeepsHistory ==
    ASSUME Joint, HistoryInv, Recorded, NEW n \in Bm25Tasks, BmCommit(n)
    PROVE  HistoryInv'
<1>t. OwnTypeOK /\ bm[n].st = "published" /\ bm[n].st \in Works
  BY DEF Joint, BmCommit, Works
<1>r. /\ bm'[n].st \in {"none", "failing"}
      /\ \A b \in Bm25Tasks : b # n => bm'[b] = bm[b]
      /\ bm[n].v \in 1..MaxVersion
  BY <1>t, BmRecords DEF BmStep, NoTask
<1>u. UNCHANGED <<doc, t2, seen, tmp, pickle>>
  BY DEF BmCommit
<1>1. Due' \subseteq Due /\ Races' \ raced' = {}
  BY <1>t, <1>u DEF Due, ReadyDocs, Races, Recorded, Building, Builds, Works
<1>2. ASSUME NEW f, HasAllDue(f) PROVE f.st = "torn" \/ Due' \subseteq f.docs
  BY <1>1, <1>2 DEF HasAllDue
<1>3. \A b \in Bm25Tasks : bm'[b].st \in Builds => Due' \subseteq bm'[b].docs
  BY <1>r, <1>1 DEF HistoryInv, Builds, Works
<1>4. ASSUME NEW b \in Bm25Tasks, NEW k \in Kinds
      PROVE  /\ Opened(b, k)' => Opened(b, k) /\ bm'[b] = bm[b]
             /\ Moved(b, k)' => Moved(b, k) /\ bm'[b] = bm[b]
  BY <1>r DEF Opened, Moved
<1>5. bm25' = "READY" => version' > 0 /\ \A k \in Kinds : HasAllDue(pickle[k, version'])
  <2>1. CASE version' = bm[n].v
    <3>1. \A k \in Kinds : Moved(n, k)
      BY <1>t DEF Moved
    <3>2. \A k \in Kinds : HasAllDue(pickle[k, bm[n].v])
      BY <3>1 DEF HistoryInv
    <3>3. bm[n].v > 0
      BY <1>r
    <3>4. QED
      BY <2>1, <3>2, <3>3
  <2>2. CASE UNCHANGED <<bm25, version>>
    BY <2>2 DEF HistoryInv, OnlyRacedMissing
  <2>3. QED
    BY <2>1, <2>2 DEF BmCommit
<1>6. OnlyRacedMissing'
  BY <1>2, <1>5, <1>u DEF OnlyRacedMissing, HasAllDue
<1>7. QED
  BY <1>1, <1>2, <1>3, <1>4, <1>6, <1>u DEF HistoryInv, HasAllDue

\* Every step keeps the history invariant.
LEMMA HistoryStep ==
    ASSUME Joint, HistoryInv, [HNext]_<<vars, hist>> PROVE HistoryInv'
<1>t. OwnTypeOK
  BY DEF Joint
<1>1. CASE UNCHANGED <<vars, hist>>
  BY <1>1 DEF vars, pipeVars, indexVars, bmVars, hist, HistoryInv, OnlyRacedMissing,
      HasAllDue, Due, ReadyDocs, Races, Building, Opened, Moved
<1>2. CASE HNext
  <2>0. Recorded
    BY <1>2 DEF HNext, Recorded
  <2> DEFINE Quiet(b) ==
        /\ bm'[b].st \in Builds => bm[b].st \in Builds /\ bm'[b].docs = bm[b].docs
        /\ \A k \in Kinds :
              /\ Opened(b, k)' => Opened(b, k) /\ bm'[b].v = bm[b].v
              /\ Moved(b, k)' => Moved(b, k) /\ bm'[b].v = bm[b].v
  <2>1. (/\ UNCHANGED <<doc, t2, seen, version>>
         /\ bm25' = "READY" => bm25 = "READY"
         /\ SameOrTorn
         /\ \A b \in Bm25Tasks : bm'[b] = bm[b] \/ Quiet(b)) => HistoryInv'
    <3>1. SUFFICES ASSUME UNCHANGED <<doc, t2, seen, version>>,
                          bm25' = "READY" => bm25 = "READY", SameOrTorn,
                          \A b \in Bm25Tasks : bm'[b] = bm[b] \/ Quiet(b)
                   PROVE  HistoryInv'
      OBVIOUS
    <3>2. \A b \in Bm25Tasks : bm'[b] = bm[b] => Quiet(b)
      BY DEF Opened, Moved
    <3>3. QED
      BY <2>0, <3>1, <3>2, QuietKeepsHistory
  <2>2. ASSUME UNCHANGED <<tmp, pickle>> PROVE SameOrTorn
    BY <2>2 DEF SameOrTorn
  <2>3. ASSUME NEW b \in Bm25Tasks, tmp' \in {Closed(tmp, b), Broken(tmp, b)},
               pickle' \in {Closed(pickle, b), Broken(pickle, b)}
        PROVE  SameOrTorn
    BY <1>t, <2>3, FilesOf DEF SameOrTorn, OwnTypeOK
  <2>4. \A b \in Bm25Tasks : bm'[b].st \in {"none", "queued", "failing"} => Quiet(b)
    BY DEF Opened, Moved, Builds, Works
  <2>5. ASSUME NEW p \in Pollers, PollStep(p) \/ \E r \in Requests : PollDocument(p, r)
        PROVE  HistoryInv'
    <3>1. /\ UNCHANGED <<doc, t2, seen, version, tmp, pickle>>
          /\ bm25' = "READY" => bm25 = "READY"
      BY <2>5 DEF PollStep, PollDocument, PollBm25, PollInsert, PollRefresh, PollMark,
          PollDbFails, PollFire, pipeVars, bmVars
    <3>2. \A b \in Bm25Tasks : bm'[b] = bm[b] \/ bm'[b].st = "queued"
      BY <1>t, <2>5 DEF PollStep, PollDocument, PollBm25, PollInsert, PollRefresh,
          PollMark, PollDbFails, PollFire, QueueBm25, bmVars, OwnTypeOK
    <3>3. QED
      BY <2>1, <2>2, <2>4, <3>1, <3>2
  <2>6. ASSUME NEW m \in MultiTasks, MiStep(m) PROVE HistoryInv'
    <3>1. UNCHANGED <<doc, t2, seen, version, tmp, pickle, bm25, bm>>
      BY <2>6 DEF MiStep, MiRead, MiSummary, MiExplanation, MiWrite, MiFails, pipeVars,
          bmVars
    <3>2. QED
      BY <2>1, <2>2, <3>1
  <2>7. ASSUME NEW b \in Bm25Tasks, BmStep(b) PROVE HistoryInv'
    <3>1. \A c \in Bm25Tasks : c # b => bm'[c] = bm[c]
      BY <1>t, <2>7, BmRecords
    <3>2. ASSUME BmRead(b) \/ BmWrite(b) PROVE HistoryInv'
      <4>1. Quiet(b)
        <5>1. CASE BmRead(b)
          <6>1. /\ bm'[b].st = "open" /\ bm'[b].k = "docs"
                /\ bm'[b].docs = bm[b].docs /\ bm[b].st = "listed"
            BY <1>t, <5>1, BmRecords DEF BmRead
          <6>2. QED
            BY <6>1 DEF Opened, Moved, Builds
        <5>2. CASE BmWrite(b)
          <6>1. /\ bm[b].st = "write" /\ bm[b].k \in Kinds
                /\ IF bm[b].k = "docs" THEN GoesOn(b, "open", "retriever")
                                       ELSE GoesOn(b, "move", "docs")
            BY <1>t, <5>2, BmRecords DEF BmWrite, Works
          <6>2. QED
            BY <6>1 DEF Opened, Moved, Builds, Works, GoesOn, Kinds
        <5>3. QED
          BY <3>2, <5>1, <5>2
      <4>2. SameOrTorn
        BY <2>2, <2>3, <3>2 DEF BmRead, BmWrite
      <4>3. UNCHANGED <<doc, t2, seen, version, bm25>>
        BY <3>2 DEF BmRead, BmWrite, pipeVars
      <4>4. QED
        BY <2>1, <3>1, <4>1, <4>2, <4>3
    <3>3. ASSUME \/ BmFails(b) \/ BmBuildFails(b) \/ BmMarkFailed(b)
                 \/ BmMove(b) /\ tmp[Mine(b)].st = "absent"
          PROVE  HistoryInv'
      <4>1. bm'[b].st \in {"none", "queued", "failing"}
        BY <1>t, <3>3, BmRecords DEF NoTask
      <4>2. SameOrTorn
        BY <2>2, <2>3, <3>3 DEF BmFails, BmBuildFails, BmMarkFailed, BmMove
      <4>3. /\ UNCHANGED <<doc, t2, seen, version>>
            /\ bm25' = "READY" => bm25 = "READY"
        BY <3>3 DEF BmFails, BmBuildFails, BmMarkFailed, BmMove, pipeVars
      <4>4. QED
        BY <2>1, <2>4, <3>1, <4>1, <4>2, <4>3
    <3>4. QED
      BY <2>0, <2>7, <3>2, <3>3, ListKeepsHistory, OpenKeepsHistory, MoveKeepsHistory,
         CommitKeepsHistory DEF BmStep
  <2>8. CASE IndexCrash
    <3>1. UNCHANGED <<doc, t2, seen, version, bm25>>
      BY <2>8 DEF IndexCrash, pipeVars
    <3>2. \A b \in Bm25Tasks : bm'[b] = bm[b] \/ bm'[b].st = "none"
      BY <1>t, <2>8 DEF IndexCrash, BmDone, NoTask, OwnTypeOK
    <3>3. SameOrTorn
      BY <2>2, <2>3, <2>8 DEF IndexCrash
    <3>4. QED
      BY <2>1, <2>4, <3>1, <3>2, <3>3
  <2>9. QED
    BY <1>2, <2>0, <2>5, <2>6, <2>7, <2>8, PipelineKeepsHistory DEF HNext, Next
<1>3. QED
  BY <1>1, <1>2

\* What builders have collected and written, and what tasks between look and
\* commit have seen, in every behaviour.
THEOREM HistoryCorrect == HSpec => []HistoryInv
<1>1. HInit => HistoryInv
  <2> SUFFICES ASSUME HInit PROVE HistoryInv
    OBVIOUS
  <2>1. /\ \A b \in Bm25Tasks : bm[b].st = "none"
        /\ \A r \in Requests : t2[r].st # "read"
        /\ bm25 # "READY"
    BY DEF HInit, Init, NothingRuns, NoTask, P!Init, P!Fresh
  <2>2. QED
    BY <2>1 DEF HistoryInv, OnlyRacedMissing, Races, Builds, Works, Opened, Moved
<1>2. Joint /\ HistoryInv /\ [HNext]_<<vars, hist>> => HistoryInv'
  BY HistoryStep
<1>3. QED
  BY <1>1, <1>2, HistorySpec, AlwaysJoint, PTL DEF HSpec

\* A file of a READY BM25 index that is not torn lacks a READY document only if
\* its commit raced with a build.
THEOREM MissedOnlyInARace == HSpec => []OnlyRacedMissing
<1>1. HistoryInv => OnlyRacedMissing
  BY DEF HistoryInv
<1>2. QED
  BY <1>1, HistoryCorrect, PTL
=============================================================================
