------------------------------ MODULE Qcow2Map ------------------------------
(***************************************************************************)
(* MapFile of internal/formats/qcow2/map.go: the extents of an image, each *)
(* with where its words come from, against what ReadAt gives for them.     *)
(***************************************************************************)
EXTENDS Qcow2Reader, Sequences, FiniteSets

\* Mutant: whatever is not stored is a hole.
classifyMapKindNoBacking(r) == IF r = "unallocated" THEN "hole" ELSE r

classifyMapKind(r) ==
  CASE r # "unallocated"            -> r
    [] r = "unallocated" /\ backed  -> "backing"
    [] r = "unallocated" /\ ~backed -> "hole"

\* The extents after the first k clusters: a cluster of the kind of the last
\* extent, which ends where it starts, makes that extent longer.
mapped[k \in 0 .. (Size - 1) \div ClusterWords + 1] ==
  IF k = 0 THEN <<>> ELSE
    LET out    == mapped[k - 1]
        start  == (k - 1) * ClusterWords
        length == Least(ClusterWords, Size - start)
        kind   == classifyMapKind(refs[k - 1])
        last   == out[Len(out)]
    IN  IF out # <<>> /\ last.kind = kind /\ last.start + last.length = start
        THEN [out EXCEPT ![Len(out)].length = @ + length]
        ELSE Append(out, [start |-> start, length |-> length, kind |-> kind])

MapFile == mapped[(Size - 1) \div ClusterWords + 1]

-----------------------------------------------------------------------------

\* The kinds of extents that a word read from there may be in.
KindsOf(v) ==
  CASE v[1] = "own"     -> {"data", "compressed"}
    [] v[1] = "backing" -> {"backing"}
    [] v[1] = "zero"    -> {"zero", "hole", "backing"}
    [] OTHER            -> {}

\* What map tells of an image is what a reader finds: the extents cover every
\* word once and run as far as they can, and every word that ReadAt has given
\* comes from where its extent says, but for the words that it zeroed ahead of a
\* stop of the backing reader.
MapTellsReads ==
  pc = "done" =>
    /\ \A w \in 0 .. Size - 1 :
         Cardinality({i \in DOMAIN MapFile :
           MapFile[i].start <= w /\ w < MapFile[i].start + MapFile[i].length}) = 1
    /\ \A i \in 1 .. Len(MapFile) - 1 : MapFile[i].kind # MapFile[i + 1].kind
    /\ \A i \in DOMAIN p : \E e \in {MapFile[j] : j \in DOMAIN MapFile} :
         /\ e.start <= off + i /\ off + i < e.start + e.length
         /\ e.kind \in KindsOf(p[i]) \/ Overzeroed(i)
=============================================================================
