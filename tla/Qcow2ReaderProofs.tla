-------------------------- MODULE Qcow2ReaderProofs --------------------------
(***************************************************************************)
(* Proofs about a qcow2 chain: that rebase and reader keep to the types of *)
(* their state, that a read gives the guest's data but for the zeros that   *)
(* it puts ahead of a stop of the backing reader, that rebase sets the     *)
(* name it was given, and that what map tells of an image is what is read  *)
(* of it; for every size of clusters, images and requests, all backing     *)
(* images and all names.                                                   *)
(***************************************************************************)
EXTENDS Rebase, FiniteSetTheorems, SequenceTheorems, TLAPS

-----------------------------------------------------------------------------
(* Division.                                                               *)

\* A product with a factor of one or more is no smaller than the other factor.
LEMMA ProductGrows ==
  ASSUME NEW c \in Nat, NEW k \in Nat \ {0}
  PROVE  c * k \in Nat /\ c <= c * k
<1>1. PICK j \in Nat : k = j + 1
  <2>1. k - 1 \in Nat /\ k = (k - 1) + 1
    OBVIOUS
  <2> QED
    BY <2>1
<1>2. c * j \in Nat /\ c * k = c * j + c
  BY <1>1, Z3
<1> QED
  BY <1>2

LEMMA DivMod ==
  ASSUME NEW x \in Nat, NEW c \in Nat \ {0}
  PROVE  x \div c \in Nat /\ x % c \in 0 .. c - 1 /\ x = c * (x \div c) + (x % c)
BY Z3

\* Two quotients with the same dividend are the same.
LEMMA QuotientUnique ==
  ASSUME NEW c \in Nat \ {0}, NEW q \in Nat, NEW d \in Nat,
         NEW r \in 0 .. c - 1, NEW m \in 0 .. c - 1,
         c * q + r = c * d + m
  PROVE  q = d
<1>1. c * q \in Nat /\ c * d \in Nat
  BY Z3
<1>2. ~(q < d)
  <2> SUFFICES ASSUME q < d PROVE FALSE
    OBVIOUS
  <2>1. c * (d - q) \in Nat /\ c <= c * (d - q)
    BY ProductGrows
  <2>2. c * d = c * q + c * (d - q)
    BY Z3
  <2> QED
    BY <1>1, <2>1, <2>2
<1>3. ~(d < q)
  <2> SUFFICES ASSUME d < q PROVE FALSE
    OBVIOUS
  <2>1. c * (q - d) \in Nat /\ c <= c * (q - d)
    BY ProductGrows
  <2>2. c * q = c * d + c * (q - d)
    BY Z3
  <2> QED
    BY <1>1, <2>1, <2>2
<1> QED
  BY <1>2, <1>3

\* The words up to the end of a cluster are in that cluster.
LEMMA SameCluster ==
  ASSUME NEW c \in Nat \ {0}, NEW w \in Nat, NEW k \in Nat, k < c - (w % c)
  PROVE  (w + k) \div c = w \div c
<1> DEFINE q == w \div c
           r == w % c
<1>1. q \in Nat /\ r \in 0 .. c - 1 /\ w = c * q + r
  BY DivMod
<1>2. r + k \in 0 .. c - 1
  BY <1>1
<1> DEFINE d == (w + k) \div c
           m == (w + k) % c
<1>3. w + k \in Nat
  OBVIOUS
<1>4. d \in Nat /\ m \in 0 .. c - 1 /\ w + k = c * d + m
  BY <1>3, DivMod
<1>5. c * q \in Nat /\ c * d \in Nat
  BY <1>1, <1>4, Z3
<1>6. c * q + (r + k) = c * d + m
  BY <1>1, <1>4, <1>5
<1> HIDE DEF q, r, d, m
<1>7. q = d
  BY <1>1, <1>2, <1>4, <1>6, QuotientUnique
<1> QED
  BY <1>7 DEF q, d

\* In a cluster the words are counted from its start.
LEMMA InSameCluster ==
  ASSUME NEW c \in Nat \ {0}, NEW w \in Nat, NEW k \in Nat, k < c - (w % c)
  PROVE  (w + k) % c = (w % c) + k
<1>1. /\ w \div c \in Nat /\ w % c \in 0 .. c - 1
      /\ w = c * (w \div c) + (w % c)
  BY DivMod
<1>2. w + k \in Nat
  OBVIOUS
<1>3. /\ (w + k) \div c \in Nat /\ (w + k) % c \in 0 .. c - 1
      /\ w + k = c * ((w + k) \div c) + ((w + k) % c)
  BY <1>2, DivMod
<1>4. (w + k) \div c = w \div c
  BY SameCluster
<1>5. c * (w \div c) \in Nat
  BY <1>1, Z3
<1> QED
  BY <1>1, <1>3, <1>4, <1>5

-----------------------------------------------------------------------------
(* Induction: the least element of a set of numbers.                       *)

\* Every set of numbers that is not empty has a least one: as many numbers lie
\* below all of the set as the least of it says.
LEMMA LeastElement ==
  ASSUME NEW T \in SUBSET Nat, T # {}
  PROVE  \E a \in T : \A t \in T : a <= t
<1>1. PICK u \in T : TRUE
  OBVIOUS
<1> DEFINE Below == {x \in 0 .. u : \A t \in T : x < t}
           a     == Cardinality(Below)
<1>2. /\ IsFiniteSet(Below) /\ a \in Nat
      /\ \A S \in SUBSET Below : Cardinality(S) <= a
  <2>1. IsFiniteSet(0 .. u)
    BY <1>1, FS_Interval
  <2>2. IsFiniteSet(Below)
    BY <2>1, FS_Subset
  <2> HIDE DEF Below
  <2> QED
    BY <2>2, FS_Subset, FS_CardinalityType
<1>3. ASSUME NEW x \in Below PROVE x < a
  <2>1. x \in Nat /\ 0 .. x \in SUBSET Below
    BY <1>1
  <2>2. Cardinality(0 .. x) = x + 1
    BY <2>1, FS_Interval
  <2> HIDE DEF Below
  <2> QED
    BY <1>2, <2>1, <2>2
<1>4. ASSUME NEW x \in Nat, x \notin Below, x <= u PROVE a <= x
  <2>1. Below \in SUBSET (0 .. x - 1)
    <3> SUFFICES ASSUME NEW y \in Below, y >= x PROVE FALSE
      BY <1>1
    <3>1. \A t \in T : x < t
      BY <1>1, <1>4
    <3> QED
      BY <1>1, <1>4, <3>1
  <2>2. IsFiniteSet(0 .. x - 1) /\ Cardinality(0 .. x - 1) = x
    BY FS_Interval
  <2> HIDE DEF Below
  <2> QED
    BY <2>1, <2>2, FS_Subset
<1>5. u \notin Below
  BY <1>1
<1>6. a <= u
  BY <1>1, <1>4, <1>5
<1>7. a \notin Below
  <2> HIDE DEF Below
  <2> QED
    BY <1>2, <1>3
<1>8. PICK t \in T : t <= a
  <2>1. \E t \in T : ~(a < t)
    BY <1>1, <1>2, <1>6, <1>7
  <2> QED
    BY <1>2, <2>1
<1>9. ASSUME NEW v \in T PROVE a <= v
  <2>1. v \notin Below /\ v \in Nat
    OBVIOUS
  <2>2. v <= u \/ u < v
    BY <1>1, <2>1
  <2> HIDE DEF Below
  <2> QED
    BY <1>1, <1>2, <1>4, <1>6, <2>1, <2>2
<1>10. t = a
  <2>1. t \in Nat /\ a <= t
    BY <1>9
  <2> HIDE DEF Below
  <2> QED
    BY <1>2, <1>8, <2>1
<1> QED
  BY <1>8, <1>9, <1>10

-----------------------------------------------------------------------------
(* Types.                                                                  *)

RequestOK ==
  /\ refs \in [Clusters -> ClusterRef]
  /\ backed \in BOOLEAN /\ backing \in BackingImage
  /\ off \in Nat /\ len \in Nat /\ off + len <= Size
  /\ read \in 0 .. len
  /\ DOMAIN p = 0 .. len - 1
  /\ pc \in {"loop", "done", "failed", "panic"}
  /\ pc = "done" => read = len

Field == [off : Nat, size : Nat]

FileOK ==
  /\ HeaderLength \in HeaderLengths
  /\ DOMAIN cluster = Units
  /\ fields \in Field /\ fields.off + fields.size <= FirstCluster

\* The reader and the file; a header that is on its way to the file points
\* into the first cluster.
ChainOK ==
  /\ FileOK
  /\ at \in {"idle", "clear", "zero", "name", "header", "open"}
  /\ at \notin {"idle", "open"} => h \in Field /\ h.off + h.size <= FirstCluster
  /\ at # "open" => Closed
  /\ at = "open" => RequestOK

\* The piece that a turn of the loop reads is not empty, ends with the request at
\* the latest, and lies in one cluster.
LEMMA PieceOK ==
  ASSUME RequestOK, read < len
  PROVE  /\ curOff \in Nat /\ want \in Nat \ {0} /\ read + want <= len
         /\ \A i \in read .. read + want - 1 :
              (off + i) \div ClusterWords = curOff \div ClusterWords
<1>1. /\ ClusterWords \in Nat \ {0} /\ off \in Nat /\ len \in Nat /\ read \in Nat
      /\ curOff \in Nat /\ curOff = off + read
  BY SizesAssumption DEF RequestOK, curOff
<1>2. inCluster \in 0 .. ClusterWords - 1
  BY <1>1, DivMod DEF inCluster
<1>3. want \in Nat \ {0} /\ want <= len - read /\ want <= ClusterWords - inCluster
  BY <1>1, <1>2 DEF want, Least
<1>4. ASSUME NEW i \in read .. read + want - 1
      PROVE  (off + i) \div ClusterWords = curOff \div ClusterWords
  <2>1. /\ i - read \in Nat /\ i - read < ClusterWords - (curOff % ClusterWords)
        /\ off + i = curOff + (i - read)
    BY <1>1, <1>2, <1>3 DEF inCluster
  <2>2. \A k \in Nat : k < ClusterWords - (curOff % ClusterWords) =>
          (curOff + k) \div ClusterWords = curOff \div ClusterWords
    BY <1>1, SameCluster
  <2> QED
    BY <2>1, <2>2
<1> QED
  BY <1>1, <1>3, <1>4

\* A call of the backing reader gives words that are there, and ends after them.
LEMMA BackingWords ==
  ASSUME RequestOK, read < len
  PROVE  /\ nBacking \in 0 .. want /\ EndsAfter(nBacking)
         /\ \A m \in 0 .. nBacking - 1 : Has(curOff + m)
<1> DEFINE T == {n \in 0 .. want : EndsAfter(n)}
<1>1. want \in Nat /\ T \in SUBSET Nat
  BY PieceOK
<1>2. want \in T
  BY <1>1 DEF EndsAfter
<1>3. PICK n \in T : \A m \in T : n <= m
  <2> HIDE DEF T
  <2> QED
    BY <1>1, <1>2, LeastElement
<1>4. \E k \in 0 .. want : EndsAfter(k) /\ \A m \in 0 .. want : EndsAfter(m) => k <= m
  BY <1>3
<1>5. /\ nBacking \in 0 .. want /\ EndsAfter(nBacking)
      /\ \A m \in 0 .. want : EndsAfter(m) => nBacking <= m
  BY <1>4 DEF nBacking
<1>6. ASSUME NEW m \in 0 .. nBacking - 1 PROVE Has(curOff + m)
  <2>1. m \in 0 .. want /\ ~(nBacking <= m)
    BY <1>1, <1>5
  <2> QED
    BY <1>5, <2>1 DEF EndsAfter
<1> QED
  BY <1>5, <1>6

\* Where the backing reader stops short.
LEMMA ShortIsStop ==
  ASSUME RequestOK, read < len, ref = "unallocated", backed, nBacking < want
  PROVE  StopsShort(curOff + nBacking)
<1>1. /\ ClusterWords \in Nat \ {0} /\ curOff \in Nat /\ curOff = off + read
      /\ off \in Nat /\ len \in Nat /\ read \in Nat
      /\ want \in Nat /\ read + want <= len
  BY PieceOK, SizesAssumption DEF RequestOK, curOff
<1>2. PICK n \in Nat : n = nBacking /\ n < want /\ EndsAfter(n)
  BY <1>1, BackingWords
<1>3. curOff + n \in off .. off + len - 1
  BY <1>1, <1>2
<1>4. refs[(curOff + n) \div ClusterWords] = "unallocated"
  <2>1. read + n \in read .. read + want - 1 /\ curOff + n = off + (read + n)
    BY <1>1, <1>2
  <2>2. (curOff + n) \div ClusterWords = curOff \div ClusterWords
    BY <2>1, PieceOK
  <2> QED
    BY <2>2 DEF ref
<1>5. CASE n > 0
  <2>1. curOff + n > off /\ n < ClusterWords - (curOff % ClusterWords)
    <3>1. curOff % ClusterWords \in 0 .. ClusterWords - 1
      BY <1>1, DivMod
    <3> QED
      BY <1>1, <1>2, <1>5, <3>1 DEF want, Least, inCluster
  <2>2. (curOff + n) % ClusterWords = (curOff % ClusterWords) + n
    BY <1>1, <2>1, InSameCluster
  <2>3. (curOff + n) % ClusterWords # 0
    <3>1. curOff % ClusterWords \in 0 .. ClusterWords - 1
      BY <1>1, DivMod
    <3> QED
      BY <1>1, <1>5, <2>2, <3>1
  <2> QED
    BY <1>1, <1>2, <1>3, <1>4, <2>1, <2>3 DEF EndsAfter, StopsShort
<1>6. CASE n = 0
  BY <1>1, <1>2, <1>3, <1>4, <1>6 DEF EndsAfter, StopsShort
<1> QED
  BY <1>2, <1>5, <1>6

LEMMA ReadKeepsTypes ==
  ASSUME RequestOK, Step
  PROVE  RequestOK'
<1>1. CASE ReadZeros
  BY <1>1, PieceOK DEF ReadZeros, Reading, ZeroFill, RequestOK
<1>2. CASE ReadStored
  BY <1>2, PieceOK DEF ReadStored, Reading, Fill, RequestOK
<1>3. CASE ReadBacking
  BY <1>3, PieceOK DEF ReadBacking, Reading, Fill, RequestOK
<1>4. CASE ReadBackingShort
  <2>1. /\ nBacking \in 0 .. want /\ want \in Nat /\ read + want <= len
        /\ pc' \in {"loop", "panic"} /\ DOMAIN p' = DOMAIN p
        /\ read' = read + nBacking
        /\ UNCHANGED <<refs, backed, backing, off, len>>
    BY <1>4, PieceOK, BackingWords DEF ReadBackingShort, ShortPiece, Reading
  <2> QED
    BY <2>1 DEF RequestOK
<1>5. CASE ReadFails
  BY <1>5 DEF ReadFails, Reading, RequestOK
<1>6. CASE Return
  BY <1>6 DEF Return, RequestOK
<1>7. CASE Returned
  BY <1>7 DEF Returned, vars, RequestOK
<1> QED
  BY <1>1, <1>2, <1>3, <1>4, <1>5, <1>6, <1>7 DEF Step

\* What the types of the constants come to for the names and the units.
LEMMA NamesOK ==
  /\ FirstCluster \in Nat /\ HeaderLengths \subseteq 2 .. FirstCluster
  /\ \A n \in DOMAIN Images : Len(n) \in Nat /\ n \in Seq(STRING) /\ Images[n] \subseteq BackingImage
  /\ \A n \in NewNames : Len(n) \in Nat /\ n \in Seq(STRING)
  /\ Len(<<>>) = 0
BY RebaseAssumption

LEMMA ChainInit == RebaseInit => ChainOK
<1> SUFFICES ASSUME RebaseInit PROVE ChainOK
  OBVIOUS
<1>1. HeaderLength \in HeaderLengths /\ HeaderLength \in Nat
  <2>1. HeaderLength \in HeaderLengths
    BY DEF RebaseInit
  <2> QED
    BY <2>1, NamesOK
<1>2. PICK n \in {<<>>} \union DOMAIN Images, o \in {HeaderLength, HeaderLength + 1} :
        /\ o + Len(n) <= FirstCluster
        /\ DOMAIN cluster = Units
        /\ fields = IF n = <<>> THEN NoName ELSE [off |-> o, size |-> Len(n)]
  BY DEF RebaseInit, WithName
<1>3. fields \in Field /\ fields.off + fields.size <= FirstCluster
  BY <1>1, <1>2, NamesOK DEF Field, NoName
<1> QED
  BY <1>1, <1>2, <1>3 DEF RebaseInit, ChainOK, FileOK

\* A step of rebase leaves the reader alone.
LEMMA RebaseKeepsTypes ==
  ASSUME ChainOK,
         RebasePath \/ ClearName \/ ZeroArea \/ WriteName \/ WriteHeader \/ RebaseStops
  PROVE  ChainOK'
<1>1. at # "open" /\ at' \in {"idle", "clear", "zero", "name", "header"} /\ UNCHANGED vars
  BY DEF RebasePath, ClearName, ZeroArea, WriteName, WriteHeader, RebaseStops
<1>2. Closed'
  BY <1>1 DEF ChainOK, Closed, vars, Clusters
<1>3. FileOK'
  <2>1. CASE RebasePath
    BY <2>1 DEF RebasePath, fileVars, ChainOK, FileOK
  <2>2. CASE ClearName \/ ZeroArea \/ WriteName \/ RebaseStops
    BY <2>2 DEF ClearName, ZeroArea, WriteName, RebaseStops, WithName, ChainOK, FileOK
  <2>3. CASE WriteHeader
    BY <2>3 DEF WriteHeader, ChainOK, FileOK
  <2> QED
    BY <2>1, <2>2, <2>3
<1>4. at' # "idle" => h' \in Field /\ h'.off + h'.size <= FirstCluster
  <2>1. CASE RebasePath
    <3> SUFFICES ASSUME at' # "idle"
                 PROVE  h' \in Field /\ h'.off + h'.size <= FirstCluster
      OBVIOUS
    <3>1. PICK n \in NewNames :
            /\ h' = IF n = <<>> THEN NoName ELSE [off |-> HeaderLength, size |-> Len(n)]
            /\ ~(Len(n) > maxBytes)
      BY <2>1 DEF RebasePath
    <3>2. Len(n) \in Nat /\ HeaderLength \in Nat /\ FirstCluster \in Nat
      BY NamesOK DEF ChainOK, FileOK
    <3> QED
      BY <3>1, <3>2 DEF maxBytes, Field, NoName
  <2>2. CASE ClearName \/ ZeroArea \/ WriteName
    BY <2>2 DEF ClearName, ZeroArea, WriteName, ChainOK
  <2>3. CASE WriteHeader \/ RebaseStops
    BY <2>3 DEF WriteHeader, RebaseStops
  <2> QED
    BY <2>1, <2>2, <2>3
<1> QED
  BY <1>1, <1>2, <1>3, <1>4 DEF ChainOK

LEMMA OpenKeepsTypes ==
  ASSUME ChainOK, OpenChain \/ OpenFails
  PROVE  ChainOK' /\ at' = "open"
<1>1. FileOK'
  BY DEF OpenChain, OpenFails, AnotherProcess, fileVars, ChainOK, FileOK
<1>2. at' = "open"
  BY DEF OpenChain, OpenFails, AnotherProcess
<1>3. CASE OpenChain
  <2>1. backed' \in BOOLEAN /\ backing' \in BackingImage
    <3>1. NoBacking \in BackingImage
      BY DEF NoBacking, BackingImage
    <3> QED
      BY <1>3, <3>1, NamesOK DEF OpenChain
  <2>2. off' \in 0 .. Size - 1 /\ len' \in 1 .. Size - off'
    BY <1>3 DEF OpenChain, ReadAt
  <2>3. off' \in Nat /\ len' \in Nat /\ off' + len' <= Size
    <3>1. \A o \in 0 .. Size - 1 : \A l \in 1 .. Size - o :
            o \in Nat /\ l \in Nat /\ o + l <= Size
      BY SizesAssumption
    <3> QED
      BY <2>2, <3>1
  <2>4. /\ refs' \in [Clusters -> ClusterRef] /\ read' = 0
        /\ DOMAIN p' = 0 .. len' - 1 /\ pc' = "loop"
    BY <1>3 DEF OpenChain, ReadAt
  <2> QED
    BY <1>1, <1>2, <2>1, <2>3, <2>4 DEF ChainOK, RequestOK, Clusters
<1>4. CASE OpenFails
  <2>1. Closed /\ pc' = "failed" /\ UNCHANGED <<refs, backed, backing, off, len, read, p>>
    BY <1>4 DEF OpenFails, ChainOK
  <2>2. DOMAIN p = 0 .. len - 1 /\ refs \in [Clusters -> ClusterRef]
    BY <2>1 DEF Closed, ClusterRef
  <2>3. /\ backed \in BOOLEAN /\ backing \in BackingImage
        /\ off = 0 /\ len = 0 /\ read = 0 /\ Size \in Nat
    BY <2>1, SizesAssumption DEF Closed, NoBacking, BackingImage
  <2>4. RequestOK'
    BY <2>1, <2>2, <2>3 DEF RequestOK, Clusters
  <2> QED
    BY <1>1, <1>2, <2>4 DEF ChainOK
<1> QED
  BY <1>2, <1>3, <1>4

LEMMA ChainStep == ChainOK /\ [RebaseNext]_rebaseVars => ChainOK'
<1> SUFFICES ASSUME ChainOK, [RebaseNext]_rebaseVars PROVE ChainOK'
  OBVIOUS
<1>1. CASE ReadImage
  <2>1. at = "open" /\ Step /\ UNCHANGED <<fileVars, h, at>>
    BY <1>1 DEF ReadImage, fileVars
  <2>2. RequestOK'
    BY <2>1, ReadKeepsTypes DEF ChainOK
  <2> QED
    BY <2>1, <2>2 DEF ChainOK, FileOK, fileVars
<1>2. CASE UNCHANGED rebaseVars
  BY <1>2 DEF rebaseVars, fileVars, vars, ChainOK, FileOK, Closed, RequestOK, Clusters
<1> QED
  BY <1>1, <1>2, RebaseKeepsTypes, OpenKeepsTypes DEF RebaseNext

\* The state of rebase, of the file and of the reader is well typed: the fields
\* of the header never point past the first cluster, a read stays in its
\* request, and nothing is read of an image that is not open.
THEOREM ChainTypeCorrect == RebaseSpec => []TypeOK
<1>1. ChainOK => TypeOK
  BY DEF ChainOK, FileOK, RequestOK, Closed, TypeOK, ReaderTypeOK
<1> QED
  BY <1>1, ChainInit, ChainStep, PTL DEF RebaseSpec

-----------------------------------------------------------------------------
(* Reads.                                                                  *)

\* The words read so far are right, or zeroed ahead of a stop, and only a stop
\* close to the start of the request leads to an index out of range.
ReadSoFar ==
  /\ pc # "panic" => \A i \in 0 .. read - 1 : p[i] = Guest(off + i) \/ Overzeroed(i)
  /\ pc = "panic" => \E w \in off .. off + ClusterWords - 1 : StopsShort(w)

ReadInv == ChainOK /\ (at = "open" => ReadSoFar)

\* What the guest should find in the piece in hand is up to one cluster.
LEMMA PieceOfGuest ==
  ASSUME RequestOK, read < len, NEW i \in read .. read + want - 1
  PROVE  /\ ref \in {"data", "compressed"} => Guest(off + i) = <<"own", off + i>>
         /\ ref = "zero" \/ (ref = "unallocated" /\ ~backed) => Guest(off + i) = Zero
         /\ ref = "unallocated" /\ backed /\ i < read + nBacking =>
              Guest(off + i) = <<"backing", off + i>>
<1>1. refs[(off + i) \div ClusterWords] = ref
  BY PieceOK DEF ref
<1>2. ASSUME i < read + nBacking PROVE off + i < backing.size
  <2>1. /\ i - read \in 0 .. nBacking - 1 /\ curOff + (i - read) = off + i
    BY <1>2, PieceOK, BackingWords DEF RequestOK, curOff
  <2>2. Has(curOff + (i - read))
    BY <2>1, BackingWords
  <2> QED
    BY <2>1, <2>2 DEF Has
<1> QED
  BY <1>1, <1>2 DEF Guest

\* A piece is added to what was read, and the request stays what it is.
LEMMA PieceAdded ==
  ASSUME RequestOK, ReadSoFar, read < len, pc = "loop", pc' = "loop",
         UNCHANGED <<refs, backed, backing, off, len>>,
         NEW n \in 0 .. want, read' = read + n,
         \A i \in DOMAIN p :
           \/ p'[i] = IF i \in read .. read + n - 1 THEN Guest(off + i) ELSE p[i]
           \/ /\ i < read + n /\ p'[i] = Zero
              /\ \E w \in off + i + 1 .. off + i + ClusterWords : StopsShort(w)
  PROVE  ReadSoFar'
<1>1. /\ read \in Nat /\ n \in Nat /\ len \in Nat
      /\ read + n <= len /\ DOMAIN p = 0 .. len - 1
  BY PieceOK DEF RequestOK
<1>2. /\ \A i : Guest(off + i)' = Guest(off + i)
      /\ \A w : StopsShort(w)' <=> StopsShort(w)
  BY DEF Guest, StopsShort, Has
<1>3. ASSUME NEW i \in 0 .. read + n - 1
      PROVE  \/ p'[i] = Guest(off + i)
             \/ /\ p'[i] = Zero
                /\ \E w \in off + i + 1 .. off + i + ClusterWords : StopsShort(w)
  <2>1. i \in DOMAIN p /\ (i \in 0 .. read - 1 \/ i \in read .. read + n - 1)
    BY <1>1
  <2>2. i \in 0 .. read - 1 =>
          i \notin read .. read + n - 1 /\ (p[i] = Guest(off + i) \/ Overzeroed(i))
    BY <1>1 DEF ReadSoFar
  <2> QED
    BY <2>1, <2>2 DEF Overzeroed
<1>4. ASSUME NEW i \in 0 .. read' - 1
      PROVE  p'[i] = Guest(off + i)' \/ Overzeroed(i)'
  <2>1. i \in 0 .. read + n - 1
    BY <1>1
  <2>2. \A w : w \in (off + i + 1 .. off + i + ClusterWords)' <=>
               w \in off + i + 1 .. off + i + ClusterWords
    OBVIOUS
  <2>3. Zero' = Zero
    BY DEF Zero
  <2> QED
    BY <1>2, <1>3, <2>1, <2>2, <2>3 DEF Overzeroed
<1> QED
  BY <1>4 DEF ReadSoFar

\* A short piece zeroes words that lie up to a cluster ahead of the stop; if
\* that is before the start of the buffer, so is the stop close to it.
LEMMA ShortPieceRight ==
  ASSUME RequestOK, ReadBackingShort, ReadSoFar
  PROVE  ReadSoFar'
<1>1. /\ read < len /\ pc = "loop" /\ ref = "unallocated" /\ backed /\ nBacking < want
      /\ UNCHANGED <<refs, backed, backing, off, len>>
  BY DEF ReadBackingShort, Reading
<1>2. PICK n \in Nat : n = nBacking /\ n < want /\ n \in 0 .. want
  BY <1>1, BackingWords
<1>3. /\ read \in Nat /\ off \in Nat /\ want \in Nat /\ read + want <= len
      /\ curOff = off + read /\ DOMAIN p = 0 .. len - 1 /\ len \in Nat
      /\ ClusterWords \in Nat \ {0}
  BY <1>1, PieceOK, SizesAssumption DEF RequestOK, curOff
<1>4. want <= ClusterWords
  <2>1. curOff \in Nat /\ curOff % ClusterWords \in 0 .. ClusterWords - 1
    BY <1>3, DivMod
  <2> QED
    BY <1>3, <2>1 DEF want, Least, inCluster, RequestOK
<1>5. StopsShort(off + read + n)
  BY <1>1, <1>2, <1>3, ShortIsStop
<1> DEFINE zeroed == read + n - want + n .. read + n - 1
           filled == [i \in DOMAIN p |-> IF i \in read .. read + n - 1
                                         THEN <<"backing", off + i>> ELSE p[i]]
<1>6. /\ p' = [i \in DOMAIN p |-> IF i \in zeroed THEN Zero ELSE filled[i]]
      /\ pc' = IF \E i \in zeroed : i < 0 THEN "panic" ELSE "loop"
      /\ read' = read + n
  BY <1>2 DEF ReadBackingShort, ShortPiece
<1>7. CASE \E i \in zeroed : i < 0
  <2>1. off + read + n \in off .. off + ClusterWords - 1
    BY <1>2, <1>3, <1>4, <1>7
  <2>2. \A w : StopsShort(w)' <=> StopsShort(w)
    BY <1>1 DEF StopsShort, Has
  <2>3. pc' = "panic" /\ (off .. off + ClusterWords - 1)' = off .. off + ClusterWords - 1
    BY <1>1, <1>6, <1>7
  <2> QED
    BY <1>5, <2>1, <2>2, <2>3 DEF ReadSoFar
<1>8. CASE ~\E i \in zeroed : i < 0
  <2>1. pc' = "loop"
    BY <1>6, <1>8
  <2>2. ASSUME NEW i \in DOMAIN p
        PROVE  \/ p'[i] = IF i \in read .. read + n - 1 THEN Guest(off + i) ELSE p[i]
               \/ /\ i < read + n /\ p'[i] = Zero
                  /\ \E w \in off + i + 1 .. off + i + ClusterWords : StopsShort(w)
    <3>1. CASE i \in zeroed
      <4>1. off + read + n \in off + i + 1 .. off + i + ClusterWords /\ i < read + n
        BY <1>2, <1>3, <1>4, <3>1
      <4>2. p'[i] = Zero
        BY <1>6, <3>1
      <4> QED
        BY <1>5, <4>1, <4>2
    <3>2. CASE i \notin zeroed /\ i \in read .. read + n - 1
      <4>1. i \in read .. read + want - 1 /\ i < read + nBacking
        BY <1>2, <1>3, <3>2
      <4>2. Guest(off + i) = <<"backing", off + i>>
        BY <1>1, <4>1, PieceOfGuest
      <4> QED
        BY <1>6, <3>2, <4>2
    <3>3. CASE i \notin zeroed /\ i \notin read .. read + n - 1
      BY <1>6, <3>3
    <3> QED
      BY <3>1, <3>2, <3>3
  <2> HIDE DEF zeroed, filled
  <2> QED
    BY <1>1, <1>2, <1>6, <2>1, <2>2, PieceAdded
<1> QED
  BY <1>7, <1>8

LEMMA ReadStepRight ==
  ASSUME RequestOK, Step, ReadSoFar
  PROVE  ReadSoFar'
<1>1. ASSUME read < len, pc = "loop", read' = read + want, pc' = pc,
             UNCHANGED <<refs, backed, backing, off, len>>,
             \A i \in DOMAIN p :
               p'[i] = IF i \in read .. read + want - 1 THEN Guest(off + i) ELSE p[i]
      PROVE  ReadSoFar'
  <2>1. want \in 0 .. want
    BY <1>1, PieceOK
  <2> QED
    BY <1>1, <2>1, PieceAdded
<1>2. CASE ReadZeros
  BY <1>1, <1>2, PieceOfGuest DEF ReadZeros, Reading, ZeroFill
<1>3. CASE ReadStored
  BY <1>1, <1>3, PieceOfGuest DEF ReadStored, Reading, Fill
<1>4. CASE ReadBacking
  <2>1. /\ read < len /\ ref = "unallocated" /\ backed /\ nBacking = want
        /\ read \in Nat /\ want \in Nat
    BY <1>4, PieceOK DEF ReadBacking, Reading, RequestOK
  <2>2. \A i \in read .. read + want - 1 : Guest(off + i) = <<"backing", off + i>>
    BY <2>1, PieceOfGuest
  <2> QED
    BY <1>1, <1>4, <2>1, <2>2 DEF ReadBacking, Reading, Fill
<1>5. CASE ReadBackingShort
  BY <1>5, ShortPieceRight
<1>6. CASE ReadFails \/ Return \/ Returned
  <2>1. UNCHANGED <<refs, backed, backing, off, len, read, p>>
    BY <1>6 DEF ReadFails, Return, Returned, vars
  <2>2. pc' = "panic" <=> pc = "panic"
    BY <1>6 DEF ReadFails, Reading, Return, Returned, vars
  <2>3. /\ \A i : Guest(off + i)' = Guest(off + i)
        /\ \A w : StopsShort(w)' <=> StopsShort(w)
    BY <2>1 DEF Guest, StopsShort, Has
  <2>4. \A i : Overzeroed(i)' <=> Overzeroed(i)
    BY <2>1, <2>3 DEF Overzeroed, Zero
  <2> QED
    BY <2>1, <2>2, <2>3, <2>4 DEF ReadSoFar
<1> QED
  BY <1>2, <1>3, <1>4, <1>5, <1>6 DEF Step

LEMMA ReadInvStep == ReadInv /\ [RebaseNext]_rebaseVars => ReadInv'
<1> SUFFICES ASSUME ReadInv, [RebaseNext]_rebaseVars PROVE ReadInv'
  OBVIOUS
<1>1. ChainOK /\ ChainOK'
  BY ChainStep DEF ReadInv
<1>2. CASE ReadImage
  <2>1. at = "open" /\ Step /\ RequestOK /\ at' = at
    BY <1>1, <1>2 DEF ReadImage, ChainOK
  <2> QED
    BY <1>1, <2>1, ReadStepRight DEF ReadInv
<1>3. CASE RebasePath \/ ClearName \/ ZeroArea \/ WriteName \/ WriteHeader \/ RebaseStops
  BY <1>1, <1>3 DEF ReadInv, RebasePath, ClearName, ZeroArea, WriteName, WriteHeader,
                    RebaseStops
<1>4. CASE OpenChain
  <2>1. read' = 0 /\ pc' = "loop"
    BY <1>4 DEF OpenChain, ReadAt
  <2> QED
    BY <1>1, <2>1 DEF ReadInv, ReadSoFar
<1>5. CASE OpenFails
  <2>1. Closed /\ pc' = "failed" /\ read' = read
    BY <1>1, <1>5 DEF OpenFails, ChainOK
  <2>2. read' = 0
    BY <2>1 DEF Closed
  <2> QED
    BY <1>1, <2>1, <2>2 DEF ReadInv, ReadSoFar
<1>6. CASE UNCHANGED rebaseVars
  <2>1. UNCHANGED <<at, refs, backed, backing, off, len, read, p, pc>>
    BY <1>6 DEF rebaseVars, vars
  <2>2. /\ \A i : Guest(off + i)' = Guest(off + i)
        /\ \A w : StopsShort(w)' <=> StopsShort(w)
    BY <2>1 DEF Guest, StopsShort, Has
  <2>3. \A i : Overzeroed(i)' <=> Overzeroed(i)
    BY <2>1, <2>2 DEF Overzeroed, Zero
  <2> QED
    BY <1>1, <2>1, <2>2, <2>3 DEF ReadInv, ReadSoFar
<1> QED
  BY <1>2, <1>3, <1>4, <1>5, <1>6 DEF RebaseNext

\* Whatever the size of the clusters, of the images and of the request, and
\* wherever the backing reader stops, a word that a read gets wrong is a zero
\* ahead of such a stop, and an index out of range comes from one; so a read over
\* a backing image that has all its words in one piece is right.
THEOREM ReadsWrongOnlyAtStops == RebaseSpec => []WrongOnlyAtStops
<1>1. RebaseInit => ReadInv
  BY ChainInit DEF RebaseInit, ReadInv
<1>2. ReadInv => WrongOnlyAtStops
  <2> SUFFICES ASSUME ReadInv PROVE WrongOnlyAtStops
    OBVIOUS
  <2>1. CASE at # "open"
    BY <2>1 DEF ReadInv, ChainOK, Closed, WrongOnlyAtStops
  <2>2. CASE at = "open"
    <3>1. RequestOK /\ ReadSoFar
      BY <2>2 DEF ReadInv, ChainOK
    <3>2. pc = "done" => DOMAIN p = 0 .. read - 1
      BY <3>1 DEF RequestOK
    <3> QED
      BY <3>1, <3>2 DEF ReadSoFar, WrongOnlyAtStops
  <2> QED
    BY <2>1, <2>2
<1> QED
  BY <1>1, <1>2, ReadInvStep, PTL DEF RebaseSpec

\* Where every backing image has all words of the image on top and its reader
\* never stops inside of them, every read gives the guest's data: what goes wrong
\* over MCFlatImages and MCShorterImages needs a stop or a lack of words.
THEOREM WholeBackingReadsGuest ==
  ASSUME \A n \in DOMAIN Images : \A b \in Images[n] :
           b.stops = {} /\ \A w \in 0 .. Size - 1 : w < b.size /\ w \notin b.lost
  PROVE  RebaseSpec => []ReadsGuest
<1> DEFINE NoStops == at = "open" /\ backed =>
                        /\ backing.stops = {}
                        /\ \A w \in 0 .. Size - 1 : w < backing.size /\ w \notin backing.lost
           WInv    == ReadInv /\ NoStops
<1>1. RebaseInit => WInv
  BY ChainInit DEF RebaseInit, ReadInv
<1>2. WInv /\ [RebaseNext]_rebaseVars => WInv'
  <2> SUFFICES ASSUME WInv, [RebaseNext]_rebaseVars PROVE NoStops'
    BY ReadInvStep
  <2>1. CASE ReadImage
    <3>1. UNCHANGED <<at, backed, backing>>
      BY <2>1 DEF ReadImage, Step, ReadZeros, ReadStored, ReadBacking, ReadBackingShort,
                  ReadFails, Return, Returned, vars
    <3> QED
      BY <3>1
  <2>2. CASE RebasePath \/ ClearName \/ ZeroArea \/ WriteName \/ WriteHeader \/ RebaseStops
    <3>1. at' # "open"
      BY <2>2 DEF RebasePath, ClearName, ZeroArea, WriteName, WriteHeader, RebaseStops
    <3> QED
      BY <3>1
  <2>3. CASE OpenChain
    <3>1. backed' => BackingName \in DOMAIN Images /\ backing' \in Images[BackingName]
      BY <2>3 DEF OpenChain
    <3> QED
      BY <3>1
  <2>4. CASE OpenFails
    <3>1. ~backed'
      BY <2>4 DEF OpenFails, ReadInv, ChainOK, Closed
    <3> QED
      BY <3>1
  <2>5. CASE UNCHANGED rebaseVars
    <3>1. UNCHANGED <<at, backed, backing>>
      BY <2>5 DEF rebaseVars, vars
    <3> QED
      BY <3>1
  <2> QED
    BY <2>1, <2>2, <2>3, <2>4, <2>5 DEF RebaseNext
<1>3. WInv => ReadsGuest
  <2> SUFFICES ASSUME WInv PROVE ReadsGuest
    OBVIOUS
  <2>1. CASE at # "open"
    BY <2>1 DEF ReadInv, ChainOK, Closed, ReadsGuest
  <2>2. CASE at = "open"
    <3>1. RequestOK /\ ReadSoFar
      BY <2>2 DEF ReadInv, ChainOK
    <3>2. \A w : ~StopsShort(w)
      BY <2>2, <3>1, SizesAssumption DEF StopsShort, Has, RequestOK
    <3>3. pc # "panic" /\ \A i : ~Overzeroed(i)
      BY <3>1, <3>2 DEF ReadSoFar, Overzeroed
    <3>4. pc = "done" => DOMAIN p = 0 .. read - 1
      BY <3>1 DEF RequestOK
    <3> QED
      BY <3>1, <3>3, <3>4 DEF ReadSoFar, ReadsGuest
  <2> QED
    BY <2>1, <2>2
<1> HIDE DEF WInv
<1> QED
  BY <1>1, <1>2, <1>3, PTL DEF RebaseSpec

-----------------------------------------------------------------------------
(* Names.                                                                  *)

\* The name that the fields f lead to in the first cluster c.
NameIn(c, f) == [i \in 1 .. f.size |-> c[f.off + i - 1]]

NoField(f) == f.off = 0 \/ f.size = 0

LEMMA TabulatedSeq ==
  ASSUME NEW n \in Nat, NEW s, DOMAIN s = 1 .. n, s = [i \in 1 .. n |-> s[i]]
  PROVE  s \in Seq({s[i] : i \in 1 .. n}) /\ Len(s) = n
<1> DEFINE S == {s[i] : i \in 1 .. n}
<1>1. s \in [1 .. n -> S]
  OBVIOUS
<1>2. s \in Seq(S)
  BY <1>1, SeqDef
<1>3. Len(s) \in Nat /\ 1 .. Len(s) = 1 .. n
  BY <1>2, LenProperties
<1>4. Len(s) = n
  BY <1>3
<1> QED
  BY <1>2, <1>4

LEMMA NameLength ==
  ASSUME NEW c, NEW f \in Field
  PROVE  /\ Len(NameIn(c, f)) = f.size
         /\ NameIn(c, f) = <<>> <=> f.size = 0
<1>1. f.size \in Nat
  BY DEF Field
<1>2. Len(NameIn(c, f)) = f.size
  BY <1>1, TabulatedSeq DEF NameIn
<1>3. DOMAIN NameIn(c, f) = 1 .. f.size
  BY DEF NameIn
<1>4. f.size = 0 => NameIn(c, f) = <<>>
  BY <1>1 DEF NameIn
<1>5. NameIn(c, f) = <<>> => f.size = 0
  BY <1>2
<1> QED
  BY <1>2, <1>4, <1>5

NameOf(c, f) == IF NoField(f) THEN <<>> ELSE NameIn(c, f)

\* readBackingFileName stays inside of the first cluster.
LEMMA ReadName ==
  ASSUME NEW c, NEW f \in Field, f.off + f.size <= FirstCluster, ~NoField(f)
  PROVE  NameIn(c, f) = [i \in 1 .. f.size |->
                           IF f.off + i - 1 \in Units THEN c[f.off + i - 1] ELSE "zero"]
<1>1. f.off \in Nat \ {0} /\ f.size \in Nat /\ FirstCluster \in Nat
  BY NamesOK DEF Field, NoField
<1>2. \A i \in 1 .. f.size : f.off + i - 1 \in Units
  BY <1>1 DEF Units
<1> QED
  BY <1>2 DEF NameIn

LEMMA BackingNameIs == FileOK => BackingName = NameOf(cluster, fields)
BY ReadName DEF FileOK, BackingName, NameOf, NoField

LEMMA NextNameIs == FileOK' => BackingName' = NameOf(cluster', fields')
BY ReadName DEF FileOK, BackingName, NameOf, NoField

\* A call of RebasePath between two of its writes: what it has read and written.
Pending ==
  /\ goal \in NewNames /\ outcome = "none"
  /\ h = IF goal = <<>> THEN NoName ELSE [off |-> HeaderLength, size |-> Len(goal)]
  /\ HeaderLength + Len(goal) <= FirstCluster
  /\ IF NoField(fields) THEN before = <<>> ELSE Len(before) = fields.size
  /\ at \in {"zero", "name"} => goal # <<>>
  /\ at = "clear" => goal = <<>> /\ ~NoField(fields)
  /\ at \in {"clear", "zero"} => BackingName = before
  /\ at = "name" => \A u \in HeaderLength .. FirstCluster - 1 : cluster[u] = "zero"
  /\ at = "header" /\ goal # <<>> =>
       \A u \in HeaderLength .. FirstCluster - 1 :
         cluster[u] = IF u < HeaderLength + Len(goal) THEN goal[u - HeaderLength + 1] ELSE "zero"
  /\ at = "header" /\ goal = <<>> /\ ~NoField(fields) => cluster[fields.off] = "zero"

NameInv ==
  /\ ChainOK
  /\ fields.off = 0 \/ fields.off >= HeaderLength
  /\ at \notin {"idle", "open"} => Pending
  /\ outcome \in {"ok", "stopped"} => at = "idle"
  /\ outcome = "stopped" => StoppedOpensOn
  /\ outcome = "ok" /\ HeaderLengths \subseteq 3 .. FirstCluster => BackingName = goal

\* The units behind the header, and those a name is written to.
LEMMA Sizes ==
  ASSUME ChainOK
  PROVE  /\ HeaderLength \in Nat \ {0} /\ FirstCluster \in Nat /\ HeaderLength <= FirstCluster
         /\ fields.off \in Nat /\ fields.size \in Nat
         /\ fields.off + fields.size <= FirstCluster
         /\ DOMAIN cluster = Units /\ Units = 0 .. FirstCluster - 1
BY NamesOK DEF ChainOK, FileOK, Field, Units

\* A name that starts with a zero byte leads to no image.
LEMMA ZeroNameIsNone ==
  ASSUME NEW c, NEW f \in Field, ~NoField(f),
         NEW u \in f.off .. f.off + f.size - 1, c[u] = "zero"
  PROVE  NameIn(c, f) \notin DOMAIN Images /\ NameIn(c, f) # <<>>
<1>1. f.off \in Nat /\ f.size \in Nat \ {0}
  BY DEF Field, NoField
<1>2. u - f.off + 1 \in 1 .. f.size /\ f.off + (u - f.off + 1) - 1 = u
  BY <1>1
<1>3. u - f.off + 1 \in DOMAIN NameIn(c, f) /\ NameIn(c, f)[u - f.off + 1] = "zero"
  BY <1>2 DEF NameIn
<1> QED
  BY <1>1, <1>3, NameLength, RebaseAssumption

\* Cluster d is c with the first n letters of name s at unit o.
PrefixOver(c, d, o, s, n) ==
  \A u \in Units : d[u] = IF u \in o .. o + n - 1 THEN s[u - o + 1] ELSE c[u]

LEMMA PrefixWritten ==
  ASSUME NEW S, NEW s \in Seq(S), NEW n \in 0 .. Len(s), NEW o \in Nat, NEW c
  PROVE  PrefixOver(c, WithName(c, o, SubSeq(s, 1, n)), o, s, n)
<1>1. Len(s) \in Nat /\ n \in Nat
  BY LenProperties
<1>2. Len(SubSeq(s, 1, n)) = n /\ \A i \in 1 .. n : SubSeq(s, 1, n)[i] = s[i]
  BY <1>1, SubSeqProperties
<1>3. \A u \in Units : u \in Int
  BY NamesOK DEF Units
<1> QED
  BY <1>1, <1>2, <1>3 DEF WithName, PrefixOver

LEMMA ZeroNameIs ==
  ASSUME NEW n \in Nat
  PROVE  ZeroName(n) \in Seq({"zero"}) /\ Len(ZeroName(n)) = n
         /\ \A i \in 1 .. n : ZeroName(n)[i] = "zero"
<1>1. ZeroName(n) \in [1 .. n -> {"zero"}]
  BY DEF ZeroName
<1>2. ZeroName(n) \in Seq({"zero"})
  BY <1>1, SeqDef
<1>3. DOMAIN ZeroName(n) = 1 .. n /\ \A i \in 1 .. n : ZeroName(n)[i] = "zero"
  BY DEF ZeroName
<1>4. Len(ZeroName(n)) \in Nat /\ 1 .. Len(ZeroName(n)) = 1 .. n
  BY <1>2, <1>3, LenProperties
<1> QED
  BY <1>2, <1>3, <1>4

\* The letters k + 1, ..., k + z of a sequence are a piece of it.
LEMMA PieceOfSeq ==
  ASSUME NEW S, NEW s \in Seq(S), NEW k \in Nat, NEW z \in Nat \ {0}, k + z <= Len(s)
  PROVE  \E o \in 1 .. Len(s) - z + 1 :
           [i \in 1 .. z |-> s[k + i]] = SubSeq(s, o, o + z - 1)
<1> DEFINE t == [i \in 1 .. z |-> s[k + i]]
<1>1. Len(s) \in Nat
  BY LenProperties
<1>2. \A i \in 1 .. z : k + i \in 1 .. Len(s) /\ s[k + i] \in S
  BY <1>1, ElementOfSeq
<1>3. t \in [1 .. z -> S]
  BY <1>2
<1>4. t \in Seq(S)
  BY <1>3, SeqDef
<1>5. Len(t) = z
  <2>1. Len(t) \in Nat /\ 1 .. Len(t) = 1 .. z
    BY <1>3, <1>4, LenProperties
  <2> QED
    BY <2>1
<1> DEFINE o == k + 1
<1>6. /\ o \in Int /\ o + z - 1 \in Int /\ o <= o + z - 1
      /\ (o + z - 1) - o + 1 = z /\ o \in 1 .. Len(s) - z + 1
  BY <1>1
<1>7. \A i \in o .. o + z - 1 : s[i] \in S
  BY <1>1, ElementOfSeq
<1>8. \A i : i \in 1 .. z => o + i - 1 = k + i
  OBVIOUS
<1> DEFINE w == SubSeq(s, o, o + z - 1)
<1> HIDE DEF o
<1>9. w \in Seq(S) /\ Len(w) = z /\ \A i \in 1 .. z : w[i] = s[o + i - 1]
  BY <1>6, <1>7, SubSeqProperties
<1>10. \A i \in 1 .. z : t[i] = w[i]
  BY <1>8, <1>9
<1> HIDE DEF t, w
<1>11. t = w
  BY <1>4, <1>5, <1>9, <1>10, SeqEqual
<1> QED
  BY <1>6, <1>11 DEF t, w

\* The first n letters of name s, then zeros, are behind a header of L units.
Behind(c, L, s, n) ==
  \A u \in L .. FirstCluster - 1 : c[u] = IF u < L + n THEN s[u - L + 1] ELSE "zero"

\* Where the new name, or a part of it followed by zeros, is behind the header,
\* a header with the old fields leads to no image or to a piece of that name.
LEMMA PieceOfName ==
  ASSUME NEW c, NEW f \in Field, ~NoField(f), NEW L \in Nat, f.off >= L,
         f.off + f.size <= FirstCluster,
         NEW s \in Seq(STRING), NEW n \in 0 .. Len(s),
         Behind(c, L, s, n), NameIn(c, f) \in DOMAIN Images
  PROVE  \E o \in 1 .. Len(s) - f.size + 1 : NameIn(c, f) = SubSeq(s, o, o + f.size - 1)
<1>1. PICK a \in Nat, z \in Nat \ {0} : a = f.off /\ z = f.size
  BY DEF Field, NoField
<1>2. /\ FirstCluster \in Nat /\ a >= L /\ a + z <= FirstCluster
      /\ Len(s) \in Nat /\ n \in Nat /\ n <= Len(s)
  BY <1>1, NamesOK, LenProperties
<1>3. \A u \in a .. a + z - 1 : c[u] # "zero"
  BY <1>1, ZeroNameIsNone
<1>4. a + z <= L + n
  <2>1. a + z - 1 \in a .. a + z - 1 /\ a + z - 1 \in L .. FirstCluster - 1
    BY <1>2
  <2>2. a + z - 1 < L + n
    BY <1>2, <1>3, <2>1 DEF Behind
  <2> QED
    BY <1>2, <2>2
<1>5. PICK k \in Nat : k = a - L
  BY <1>2
<1>6. k + z <= Len(s)
  BY <1>2, <1>4, <1>5
<1>7. ASSUME NEW i \in 1 .. z PROVE c[a + i - 1] = s[k + i]
  <2>1. a + i - 1 \in L .. FirstCluster - 1 /\ a + i - 1 < L + n
    BY <1>2, <1>4
  <2>2. (a + i - 1) - L + 1 = k + i
    BY <1>2, <1>5
  <2> QED
    BY <2>1, <2>2 DEF Behind
<1>8. NameIn(c, f) = [i \in 1 .. z |-> s[k + i]]
  BY <1>1, <1>7 DEF NameIn
<1>9. PICK o \in 1 .. Len(s) - z + 1 : [i \in 1 .. z |-> s[k + i]] = SubSeq(s, o, o + z - 1)
  BY <1>6, PieceOfSeq
<1>10. NameIn(c, f) = SubSeq(s, o, o + z - 1)
  BY <1>8, <1>9
<1>11. z = f.size
  BY <1>1
<1> QED
  BY <1>10, <1>11

-----------------------------------------------------------------------------
(* The calls of RebasePath.                                                *)

LEMMA NameInit == RebaseInit => NameInv
<1> SUFFICES ASSUME RebaseInit PROVE NameInv
  OBVIOUS
<1>1. HeaderLength \in Nat
  BY ChainInit, Sizes
<1>2. fields.off = 0 \/ fields.off >= HeaderLength
  BY <1>1 DEF RebaseInit, NoName
<1> QED
  BY <1>2, ChainInit DEF RebaseInit, NameInv

\* The same file has the same name.
LEMMA SameName == UNCHANGED fileVars => BackingName' = BackingName
BY DEF fileVars, BackingName, Units

LEMMA CallBegins ==
  ASSUME NameInv, RebasePath
  PROVE  NameInv'
<1>1. ChainOK /\ ChainOK' /\ BackingName' = BackingName
  BY ChainStep, SameName DEF NameInv, RebasePath, RebaseNext
<1>2. UNCHANGED <<HeaderLength, cluster, fields>> /\ goal' \in NewNames
  BY DEF RebasePath, fileVars
<1>3. /\ at' \in {"idle", "clear", "zero", "header"}
      /\ outcome' = IF at' = "idle" THEN "error" ELSE "none"
      /\ before' = BackingName
  BY DEF RebasePath
<1>4. ASSUME at' # "idle" PROVE Pending'
  <2>1. /\ ~(Len(goal') > maxBytes) /\ outcome' = "none"
        /\ h' = IF goal' = <<>> THEN NoName ELSE [off |-> HeaderLength, size |-> Len(goal')]
        /\ at' = CASE goal' # <<>> -> "zero"
                   [] goal' = <<>> /\ BackingName # <<>> -> "clear"
                   [] goal' = <<>> /\ BackingName = <<>> -> "header"
    BY <1>4 DEF RebasePath
  <2>2. HeaderLength + Len(goal') <= FirstCluster
    <3>1. Len(goal') \in Nat /\ HeaderLength \in Nat /\ FirstCluster \in Nat
      BY <1>1, <1>2, NamesOK, Sizes
    <3> QED
      BY <2>1, <3>1 DEF maxBytes
  <2>3. /\ at' = "zero" => goal' # <<>>
        /\ at' = "clear" => goal' = <<>> /\ BackingName # <<>>
        /\ at' = "header" => goal' = <<>> /\ BackingName = <<>>
        /\ at' # "name"
    BY <2>1
  <2>4. /\ NoField(fields) <=> BackingName = <<>>
        /\ ~NoField(fields) => Len(BackingName) = fields.size
    <3>1. fields \in Field /\ BackingName = NameOf(cluster, fields)
      BY <1>1, BackingNameIs DEF ChainOK, FileOK
    <3> QED
      BY <3>1, NameLength DEF NameOf, NoField
  <2> QED
    BY <1>1, <1>2, <1>3, <2>1, <2>2, <2>3, <2>4 DEF Pending, NoField
<1> QED
  BY <1>1, <1>2, <1>3, <1>4 DEF NameInv

\* What a write of a whole name leaves in the units of the cluster.
LEMMA NameWritten ==
  ASSUME NEW c, NEW o \in Nat, NEW s, Len(s) \in Nat
  PROVE  \A u \in Units :
           WithName(c, o, s)[u] = IF u \in o .. o + Len(s) - 1 THEN s[u - o + 1] ELSE c[u]
BY DEF WithName

LEMMA OldNameCleared ==
  ASSUME NameInv, ClearName
  PROVE  NameInv'
<1>1. ChainOK /\ ChainOK' /\ Pending /\ at' = "header"
  BY ChainStep DEF NameInv, ClearName, RebaseNext
<1>2. UNCHANGED <<HeaderLength, fields, h, goal, before, outcome>> /\ at = "clear"
  BY DEF ClearName
<1>3. goal = <<>> /\ ~NoField(fields)
  BY <1>1, <1>2 DEF Pending
<1>4. cluster'[fields.off] = "zero"
  <2>1. PICK o \in Nat, z \in Nat \ {0} : o = fields.off /\ z = fields.size /\ o \in Units
    BY <1>1, <1>3, Sizes DEF NoField
  <2>2. cluster' = WithName(cluster, o, ZeroName(z))
    BY <2>1 DEF ClearName
  <2>3. Len(ZeroName(z)) = z /\ \A i \in 1 .. z : ZeroName(z)[i] = "zero"
    BY ZeroNameIs
  <2>4. o \in o .. o + z - 1 /\ o - o + 1 = 1 /\ 1 \in 1 .. z
    OBVIOUS
  <2>5. cluster'[o] = ZeroName(z)[o - o + 1]
    BY <2>1, <2>2, <2>3, <2>4 DEF WithName
  <2> QED
    BY <2>1, <2>3, <2>4, <2>5
<1>5. Pending'
  BY <1>1, <1>2, <1>3, <1>4 DEF Pending, NoField
<1> QED
  BY <1>1, <1>2, <1>5 DEF NameInv, Pending

LEMMA AreaZeroed ==
  ASSUME NameInv, ZeroArea
  PROVE  NameInv'
<1>1. ChainOK /\ ChainOK' /\ Pending /\ at' = "name"
  BY ChainStep DEF NameInv, ZeroArea, RebaseNext
<1>2. UNCHANGED <<HeaderLength, fields, h, goal, before, outcome>> /\ at = "zero"
  BY DEF ZeroArea
<1>3. PICK l \in Nat, z \in Nat :
        l = HeaderLength /\ z = maxBytes /\ l + z = FirstCluster /\ Units = 0 .. l + z - 1
  BY <1>1, Sizes DEF maxBytes
<1>4. cluster' = WithName(cluster, l, ZeroName(z))
  BY <1>3 DEF ZeroArea
<1>5. Len(ZeroName(z)) = z /\ \A i \in 1 .. z : ZeroName(z)[i] = "zero"
  BY ZeroNameIs
<1>6. ASSUME NEW u \in l .. l + z - 1 PROVE cluster'[u] = "zero"
  <2>1. u \in Units /\ u - l + 1 \in 1 .. z
    BY <1>3
  <2> QED
    BY <1>4, <1>5, <2>1 DEF WithName
<1>7. Pending'
  BY <1>1, <1>2, <1>3, <1>6 DEF Pending, NoField
<1> QED
  BY <1>1, <1>2, <1>7 DEF NameInv, Pending

LEMMA NewNameWritten ==
  ASSUME NameInv, WriteName
  PROVE  NameInv'
<1>1. ChainOK /\ ChainOK' /\ Pending /\ at' = "header"
  BY ChainStep DEF NameInv, WriteName, RebaseNext
<1>2. UNCHANGED <<HeaderLength, fields, h, goal, before, outcome>> /\ at = "name"
  BY DEF WriteName
<1>3. goal # <<>> /\ \A u \in HeaderLength .. FirstCluster - 1 : cluster[u] = "zero"
  BY <1>1, <1>2 DEF Pending
<1>4. /\ HeaderLength \in Nat /\ FirstCluster \in Nat /\ Len(goal) \in Nat
      /\ Units = 0 .. FirstCluster - 1
  BY <1>1, NamesOK, Sizes DEF Pending
<1>5. ASSUME NEW u \in HeaderLength .. FirstCluster - 1
      PROVE  cluster'[u] =
               IF u < HeaderLength + Len(goal) THEN goal[u - HeaderLength + 1] ELSE "zero"
  <2>1. u \in Units /\ u \in Int
        /\ (u \in HeaderLength .. HeaderLength + Len(goal) - 1
              <=> u < HeaderLength + Len(goal))
    BY <1>4
  <2>2. cluster'[u] = IF u \in HeaderLength .. HeaderLength + Len(goal) - 1
                      THEN goal[u - HeaderLength + 1] ELSE cluster[u]
    BY <2>1 DEF WriteName, WithName
  <2> QED
    BY <1>3, <2>1, <2>2
<1>6. Pending'
  BY <1>1, <1>2, <1>3, <1>5 DEF Pending, NoField
<1> QED
  BY <1>1, <1>2, <1>6 DEF NameInv, Pending

LEMMA HeaderWritten ==
  ASSUME NameInv, WriteHeader
  PROVE  NameInv'
<1>1. ChainOK /\ ChainOK' /\ Pending
  BY ChainStep DEF NameInv, WriteHeader, RebaseNext
<1>2. /\ fields' = h /\ at' = "idle" /\ outcome' = "ok" /\ at = "header"
      /\ UNCHANGED <<HeaderLength, goal>>
      /\ cluster' = [u \in Units |-> IF u < Marshalled THEN "header" ELSE cluster[u]]
  BY DEF WriteHeader
<1>3. /\ HeaderLength \in Nat /\ FirstCluster \in Nat /\ HeaderLength \in HeaderLengths
      /\ goal \in Seq(STRING) /\ Len(goal) \in Nat /\ Units = 0 .. FirstCluster - 1
      /\ HeaderLength + Len(goal) <= FirstCluster
  BY <1>1, NamesOK, Sizes DEF Pending, ChainOK, FileOK
<1>4. fields'.off = 0 \/ fields'.off >= HeaderLength'
  BY <1>1, <1>2, <1>3 DEF Pending, NoName
<1>5. BackingName' = NameOf(cluster', h)
  BY <1>1, <1>2, NextNameIs DEF ChainOK
<1>6. ASSUME HeaderLengths \subseteq 3 .. FirstCluster PROVE BackingName' = goal
  <2>1. CASE goal = <<>>
    BY <1>1, <1>5, <2>1 DEF Pending, NameOf, NoField, NoName
  <2>2. CASE goal # <<>>
    <3>1. h = [off |-> HeaderLength, size |-> Len(goal)] /\ Len(goal) # 0
      <4>1. Len(goal) # 0
        BY <1>3, <2>2, EmptySeq
      <4> QED
        BY <1>1, <2>2, <4>1 DEF Pending
    <3>2. HeaderLength >= 3
      BY <1>3, <1>6
    <3>3. ASSUME NEW i \in 1 .. Len(goal) PROVE cluster'[HeaderLength + i - 1] = goal[i]
      <4>1. PICK u \in Units : u = HeaderLength + i - 1
        BY <1>3
      <4>2. /\ u \in HeaderLength .. FirstCluster - 1 /\ u < HeaderLength + Len(goal)
            /\ u - HeaderLength + 1 = i /\ ~(u < Marshalled)
        BY <1>3, <3>2, <4>1 DEF Marshalled
      <4>3. cluster[u] = goal[u - HeaderLength + 1]
        BY <1>1, <1>2, <2>2, <4>2 DEF Pending
      <4> QED
        BY <1>2, <4>1, <4>2, <4>3
    <3>4. NameIn(cluster', h) = [i \in 1 .. Len(goal) |-> goal[i]]
      BY <3>1, <3>3 DEF NameIn
    <3>5. goal = [i \in 1 .. Len(goal) |-> goal[i]]
      BY <1>3, LenProperties
    <3>6. ~NoField(h)
      BY <1>3, <3>1, <3>2 DEF NoField
    <3> QED
      BY <1>5, <3>4, <3>5, <3>6 DEF NameOf
  <2> QED
    BY <2>1, <2>2
<1> QED
  BY <1>1, <1>2, <1>4, <1>6 DEF NameInv

\* Zeros that reach the old name empty its first letter; else it is as it was.
LEMMA ZerosOverName ==
  ASSUME NEW c, NEW d, NEW f \in Field, ~NoField(f), f.off + f.size <= FirstCluster,
         NEW o \in Nat, o <= f.off, NEW y \in Nat, NEW n \in 0 .. y,
         PrefixOver(c, d, o, ZeroName(y), n), NameIn(d, f) \in DOMAIN Images
  PROVE  NameIn(d, f) = NameIn(c, f)
<1>1. PICK a \in Nat, z \in Nat \ {0} : a = f.off /\ z = f.size
  BY DEF Field, NoField
<1>2. /\ a + z <= FirstCluster /\ o <= a /\ n \in Nat
      /\ Units = 0 .. FirstCluster - 1 /\ FirstCluster \in Nat
  BY <1>1, NamesOK DEF Units
<1>3. d[a] # "zero"
  <2>1. a \in a .. a + z - 1
    OBVIOUS
  <2> QED
    BY <1>1, <2>1, ZeroNameIsNone
<1>4. o + n <= a
  <2> SUFFICES ASSUME a < o + n PROVE FALSE
    BY <1>2
  <2>1. a \in Units /\ a \in o .. o + n - 1 /\ a - o + 1 \in 1 .. y
    BY <1>2
  <2> QED
    BY <1>3, <2>1, ZeroNameIs DEF PrefixOver
<1>5. \A i \in 1 .. z : a + i - 1 \in Units /\ a + i - 1 \notin o .. o + n - 1
  BY <1>2, <1>4
<1>6. \A i \in 1 .. z : d[a + i - 1] = c[a + i - 1]
  BY <1>5 DEF PrefixOver
<1> QED
  BY <1>1, <1>6 DEF NameIn

LEMMA CallStops ==
  ASSUME NameInv, RebaseStops
  PROVE  NameInv'
<1>1. /\ ChainOK /\ ChainOK' /\ Pending
      /\ at \in {"clear", "zero", "name", "header"}
      /\ at' = "idle" /\ outcome' = "stopped"
      /\ UNCHANGED <<HeaderLength, fields, goal, before>>
  BY ChainStep DEF NameInv, RebaseStops, RebaseNext
<1>2. /\ HeaderLength \in Nat /\ FirstCluster \in Nat /\ Units = 0 .. FirstCluster - 1
      /\ fields \in Field /\ fields.off \in Nat /\ fields.size \in Nat
      /\ fields.off + fields.size <= FirstCluster
      /\ goal \in Seq(STRING) /\ Len(goal) \in Nat
      /\ BackingName = NameOf(cluster, fields) /\ BackingName' = NameOf(cluster', fields)
  BY <1>1, NamesOK, Sizes, BackingNameIs, NextNameIs DEF ChainOK, FileOK, Pending
<1>3. CASE NoField(fields)
  BY <1>1, <1>2, <1>3 DEF NameInv, NameOf, Pending, StoppedOpensOn
<1>4. CASE ~NoField(fields) /\ NameIn(cluster', fields) \in DOMAIN Images
  <2>1. /\ HeaderLength <= fields.off /\ Len(before) = fields.size
        /\ BackingName = NameIn(cluster, fields)
        /\ BackingName' = NameIn(cluster', fields)
    BY <1>1, <1>2, <1>4 DEF NameInv, Pending, NameOf, NoField
  <2>2. SUFFICES
          BackingName' \in {before, goal}
            \/ \E o \in 1 .. Len(goal) - fields.size + 1 :
                 BackingName' = SubSeq(goal, o, o + fields.size - 1)
    BY <1>1, <2>1 DEF NameInv, StoppedOpensOn
  <2>3. ASSUME NEW o \in Nat, o <= fields.off, NEW y \in Nat, at \in {"clear", "zero"},
               \E n \in 0 .. Len(ZeroName(y)) :
                 cluster' = WithName(cluster, o, SubSeq(ZeroName(y), 1, n))
        PROVE  BackingName' = before
    <3>1. PICK n \in 0 .. y : cluster' = WithName(cluster, o, SubSeq(ZeroName(y), 1, n))
      BY <2>3, ZeroNameIs
    <3>2. ZeroName(y) \in Seq({"zero"}) /\ n \in 0 .. Len(ZeroName(y))
      BY ZeroNameIs
    <3>3. PrefixOver(cluster, cluster', o, ZeroName(y), n)
      BY <3>1, <3>2, PrefixWritten
    <3>4. NameIn(cluster', fields) = NameIn(cluster, fields)
      BY <1>2, <1>4, <2>3, <3>3, ZerosOverName
    <3> QED
      BY <1>1, <2>1, <2>3, <3>4 DEF Pending
  <2>4. CASE at = "clear"
    <3>1. PICK o \in Nat, y \in Nat : o = fields.off /\ y = fields.size
      BY <1>2
    <3>2. \E n \in 0 .. Len(ZeroName(y)) :
            cluster' = WithName(cluster, o, SubSeq(ZeroName(y), 1, n))
      BY <2>4, <3>1 DEF RebaseStops
    <3>3. o <= fields.off
      BY <3>1
    <3>4. BackingName' = before
      BY <2>3, <2>4, <3>2, <3>3
    <3> QED
      BY <3>4
  <2>5. CASE at = "zero"
    <3>1. maxBytes \in Nat
      BY <1>1, <1>2, Sizes DEF maxBytes
    <3>2. \E n \in 0 .. Len(ZeroName(maxBytes)) :
            cluster' = WithName(cluster, HeaderLength, SubSeq(ZeroName(maxBytes), 1, n))
      BY <2>5 DEF RebaseStops
    <3> QED
      BY <1>2, <2>1, <2>3, <2>5, <3>1, <3>2
  <2>6. ASSUME NEW n \in 0 .. Len(goal), Behind(cluster', HeaderLength, goal, n)
        PROVE  \E o \in 1 .. Len(goal) - fields.size + 1 :
                 BackingName' = SubSeq(goal, o, o + fields.size - 1)
    <3>1. fields.off >= HeaderLength
      BY <1>2, <2>1
    <3>2. \E o \in 1 .. Len(goal) - fields.size + 1 :
            NameIn(cluster', fields) = SubSeq(goal, o, o + fields.size - 1)
      BY <1>2, <1>4, <2>6, <3>1, PieceOfName
    <3> QED
      BY <2>1, <3>2
  <2>7. CASE at = "name"
    <3>1. PICK n \in 0 .. Len(goal) :
            cluster' = WithName(cluster, HeaderLength, SubSeq(goal, 1, n))
      BY <2>7 DEF RebaseStops
    <3>2. PrefixOver(cluster, cluster', HeaderLength, goal, n)
      BY <1>2, <3>1, PrefixWritten
    <3>3. \A u \in HeaderLength .. FirstCluster - 1 : cluster[u] = "zero"
      BY <1>1, <2>7 DEF Pending
    <3>4. \A u \in HeaderLength .. FirstCluster - 1 :
            u \in Units /\ (u \in HeaderLength .. HeaderLength + n - 1 <=> u < HeaderLength + n)
      BY <1>2
    <3>5. Behind(cluster', HeaderLength, goal, n)
      BY <3>2, <3>3, <3>4 DEF PrefixOver, Behind
    <3> QED
      BY <2>6, <3>5
  <2>8. CASE at = "header"
    <3>1. \A u \in Units : cluster'[u] = cluster[u]
      <4>1. PICK n \in 0 .. Len(<<>>) :
              cluster' = WithName(cluster, HeaderLength, SubSeq(<<>>, 1, n))
        BY <2>8 DEF RebaseStops
      <4>2. <<>> \in Seq(STRING) /\ Len(<<>>) = 0 /\ n = 0
        BY EmptySeq
      <4>3. PrefixOver(cluster, cluster', HeaderLength, <<>>, n)
        BY <1>2, <4>1, <4>2, PrefixWritten
      <4>4. \A u \in Units : u \notin HeaderLength .. HeaderLength + n - 1
        BY <1>2, <4>2
      <4> QED
        BY <4>3, <4>4 DEF PrefixOver
    <3>2. CASE goal = <<>>
      <4>1. PICK o \in Units : o = fields.off /\ o \in fields.off .. fields.off + fields.size - 1
        BY <1>2, <1>4 DEF NoField
      <4>2. cluster'[o] = "zero"
        BY <1>1, <1>4, <2>8, <3>1, <3>2, <4>1 DEF Pending
      <4> QED
        BY <1>2, <1>4, <4>1, <4>2, ZeroNameIsNone
    <3>3. CASE goal # <<>>
      <4>1. \A u \in HeaderLength .. FirstCluster - 1 : u \in Units
        BY <1>2
      <4>2. Behind(cluster', HeaderLength, goal, Len(goal))
        BY <1>1, <2>8, <3>1, <3>3, <4>1 DEF Pending, Behind
      <4> QED
        BY <1>2, <2>6, <4>2
    <3> QED
      BY <3>2, <3>3
  <2> QED
    BY <1>1, <2>4, <2>5, <2>7, <2>8
<1>5. CASE ~NoField(fields) /\ NameIn(cluster', fields) \notin DOMAIN Images
  <2>1. BackingName' = NameIn(cluster', fields) /\ BackingName' # <<>>
    BY <1>2, <1>5, NameLength DEF NameOf, NoField
  <2> QED
    BY <1>1, <1>5, <2>1 DEF NameInv, StoppedOpensOn
<1> QED
  BY <1>3, <1>4, <1>5

LEMMA NameStep == NameInv /\ [RebaseNext]_rebaseVars => NameInv'
<1> SUFFICES ASSUME NameInv, [RebaseNext]_rebaseVars PROVE NameInv'
  OBVIOUS
<1>1. ChainOK'
  BY ChainStep DEF NameInv
<1>2. CASE OpenChain \/ OpenFails
  <2>1. at' = "open" /\ outcome' = "none" /\ UNCHANGED <<HeaderLength, fields>>
    BY <1>2 DEF OpenChain, OpenFails, AnotherProcess, fileVars
  <2> QED
    BY <1>1, <2>1 DEF NameInv
<1>3. CASE ReadImage \/ UNCHANGED rebaseVars
  <2>1. UNCHANGED <<HeaderLength, cluster, fields, h, at, goal, before, outcome>>
    BY <1>3 DEF ReadImage, rebaseVars, fileVars
  <2>2. BackingName' = BackingName
    BY <2>1, SameName DEF fileVars
  <2> QED
    BY <1>1, <2>1, <2>2 DEF NameInv, Pending, NoField, StoppedOpensOn
<1> QED
  BY <1>2, <1>3, CallBegins, OldNameCleared, AreaZeroed, NewNameWritten, HeaderWritten,
     CallStops DEF RebaseNext

\* If no image is of version 2 then, whatever the images are and whatever names
\* RebasePath is given, with whatever stops and failures between its calls, an
\* image has the name that the last call was given once that call has returned nil.
THEOREM NewNameFound ==
  ASSUME HeaderLengths \subseteq 3 .. FirstCluster
  PROVE  RebaseSpec => []NewNameReadsBack
<1>1. NameInv => NewNameReadsBack
  BY DEF NameInv, NewNameReadsBack
<1> QED
  BY <1>1, NameInit, NameStep, PTL DEF RebaseSpec

\* A call that is stopped, at any write and after any part of it, leaves an image
\* that opens on the old backing file, on the new one or none, or on that which
\* a piece of the new name leads to; of images of version 2 too.
THEOREM StoppedRebaseOpens == RebaseSpec => []StoppedOpensOn
<1>1. NameInv => StoppedOpensOn
  BY DEF NameInv, StoppedOpensOn
<1> QED
  BY <1>1, NameInit, NameStep, PTL DEF RebaseSpec

-----------------------------------------------------------------------------
(* Map.                                                                    *)

\* A turn of MapFile's loop, the k-th.
Extended(out, k) ==
  LET start  == (k - 1) * ClusterWords
      length == Least(ClusterWords, Size - start)
      kind   == classifyMapKind(refs[k - 1])
      last   == out[Len(out)]
  IN  IF out # <<>> /\ last.kind = kind /\ last.start + last.length = start
      THEN [out EXCEPT ![Len(out)].length = @ + length]
      ELSE Append(out, [start |-> start, length |-> length, kind |-> kind])

Turns == (Size - 1) \div ClusterWords + 1

\* The extents after each of the first m turns.
MapsUpTo(m, g) ==
  g = [k \in 0 .. m |-> IF k = 0 THEN <<>> ELSE Extended(g[k - 1], k)]

LEMMA MapsExist ==
  ASSUME NEW m \in Nat
  PROVE  \E g : MapsUpTo(m, g)
<1> DEFINE Missing == {k \in Nat : ~\E g : MapsUpTo(k, g)}
<1> SUFFICES ASSUME Missing # {} PROVE FALSE
  OBVIOUS
<1>1. PICK k \in Missing : \A j \in Missing : k <= j
  BY LeastElement
<1>2. k # 0
  <2>1. MapsUpTo(0, [i \in 0 .. 0 |-> <<>>])
    <3>1. \A i \in 0 .. 0 : i = 0
      OBVIOUS
    <3> QED
      BY <3>1 DEF MapsUpTo
  <2> QED
    BY <1>1, <2>1
<1>3. k - 1 \in Nat /\ k - 1 \notin Missing
  BY <1>1, <1>2
<1>4. PICK g : MapsUpTo(k - 1, g)
  BY <1>3
<1>5. \A i \in 0 .. k - 1 : g[i] = IF i = 0 THEN <<>> ELSE Extended(g[i - 1], i)
  BY <1>4 DEF MapsUpTo
<1> DEFINE next == Extended(g[k - 1], k)
           more == [i \in 0 .. k |-> IF i = k THEN next ELSE g[i]]
<1> HIDE DEF next
<1>6. more[k] = next /\ \A i \in 0 .. k - 1 : more[i] = g[i]
  BY <1>1, <1>2
<1>7. ASSUME NEW i \in 0 .. k
      PROVE  more[i] = IF i = 0 THEN <<>> ELSE Extended(more[i - 1], i)
  <2>1. CASE i = k
    <3>1. more[i - 1] = g[k - 1]
      BY <1>3, <1>6, <2>1
    <3> QED
      BY <1>2, <1>6, <2>1, <3>1 DEF next
  <2>2. CASE i # k
    <3>1. i \in 0 .. k - 1 /\ (i # 0 => i - 1 \in 0 .. k - 1)
      BY <1>1, <2>2
    <3>2. more[i] = g[i] /\ (i # 0 => more[i - 1] = g[i - 1])
      BY <1>6, <3>1
    <3> QED
      BY <1>5, <3>1, <3>2
  <2> QED
    BY <2>1, <2>2
<1>8. more = [i \in 0 .. k |-> more[i]]
  OBVIOUS
<1> HIDE DEF more
<1>9. MapsUpTo(k, more)
  BY <1>7, <1>8 DEF MapsUpTo
<1> QED
  BY <1>1, <1>9

\* The equation of mapped.
LEMMA MappedTurn ==
  /\ mapped[0] = <<>>
  /\ \A k \in 1 .. Turns : mapped[k] = Extended(mapped[k - 1], k)
<1>1. Turns \in Nat
  BY SizesAssumption, DivMod DEF Turns
<1>2. PICK g : MapsUpTo(Turns, g)
  BY <1>1, MapsExist
<1>3. MapsUpTo(Turns, CHOOSE f : MapsUpTo(Turns, f))
  BY <1>2
<1>4. mapped = CHOOSE f : MapsUpTo(Turns, f)
  BY DEF mapped, MapsUpTo, Turns, Extended
<1>5. mapped = [k \in 0 .. Turns |-> IF k = 0 THEN <<>> ELSE Extended(mapped[k - 1], k)]
  BY <1>3, <1>4 DEF MapsUpTo
<1>6. \A k \in 0 .. Turns : mapped[k] = IF k = 0 THEN <<>> ELSE Extended(mapped[k - 1], k)
  BY <1>5
<1> QED
  BY <1>1, <1>6

\* The end of the first k clusters, and what the next one adds to them.
EndOf(k) == Least(k * ClusterWords, Size)

LEMMA TurnFacts ==
  ASSUME NEW k \in 1 .. Turns
  PROVE  LET start  == (k - 1) * ClusterWords
             length == Least(ClusterWords, Size - start)
         IN  /\ k \in Nat /\ k - 1 \in Clusters
             /\ start \in Nat /\ start = EndOf(k - 1)
             /\ length \in Nat \ {0} /\ start + length = EndOf(k)
             /\ \A w \in start .. start + length - 1 : w \div ClusterWords = k - 1
<1>1. ClusterWords \in Nat \ {0} /\ Size \in Nat \ {0}
  BY SizesAssumption
<1>2. PICK x \in Nat, q \in Nat : x = Size - 1 /\ q = x \div ClusterWords
  <2>1. PICK x \in Nat : x = Size - 1
    BY <1>1
  <2>2. x \div ClusterWords \in Nat
    BY <1>1, DivMod
  <2> QED
    BY <2>1, <2>2
<1>3. PICK j \in Nat : j = k - 1 /\ k = j + 1 /\ j <= q
  <2>1. k - 1 \in Nat /\ k = (k - 1) + 1 /\ k - 1 <= q
    BY <1>2 DEF Turns
  <2> QED
    BY <2>1
<1>4. PICK s \in Nat : s = j * ClusterWords
  BY <1>1, Z3
<1>5. s < Size
  <2>1. x % ClusterWords \in Nat /\ x = ClusterWords * q + (x % ClusterWords)
    BY <1>1, <1>2, DivMod
  <2>2. PICK d \in Nat : d = q - j
    BY <1>3
  <2>3. /\ ClusterWords * d \in Nat
        /\ ClusterWords * q = j * ClusterWords + ClusterWords * d
    <3>1. q = j + d
      BY <1>3, <2>2
    <3> QED
      BY <1>1, <3>1, Z3
  <2> QED
    BY <1>1, <1>2, <1>4, <2>1, <2>3
<1>6. k * ClusterWords = s + ClusterWords
  <2>1. (j + 1) * ClusterWords = j * ClusterWords + ClusterWords
    BY <1>1, Z3
  <2> QED
    BY <1>3, <1>4, <2>1
<1>7. EndOf(j) = s
  BY <1>1, <1>4, <1>5 DEF EndOf, Least
<1>8. PICK l \in Nat \ {0} : l = Least(ClusterWords, Size - s) /\ s + l = EndOf(k)
                             /\ l <= ClusterWords
  <2>1. /\ Least(ClusterWords, Size - s) \in Nat \ {0}
        /\ s + Least(ClusterWords, Size - s) = EndOf(k)
        /\ Least(ClusterWords, Size - s) <= ClusterWords
    BY <1>1, <1>5, <1>6 DEF EndOf, Least
  <2> QED
    BY <2>1
<1>9. ASSUME NEW w \in s .. s + l - 1 PROVE w \div ClusterWords = j
  <2>1. PICK r \in 0 .. ClusterWords - 1 : w = s + r
    <3>1. w - s \in 0 .. ClusterWords - 1 /\ w = s + (w - s)
      BY <1>1, <1>8
    <3> QED
      BY <3>1
  <2>2. /\ w \in Nat /\ w \div ClusterWords \in Nat
        /\ w % ClusterWords \in 0 .. ClusterWords - 1
        /\ w = ClusterWords * (w \div ClusterWords) + (w % ClusterWords)
    <3>1. w \in Nat
      BY <1>1, <2>1
    <3> QED
      BY <1>1, <3>1, DivMod
  <2>3. ClusterWords * j = s
    BY <1>1, <1>4, Z3
  <2>4. ClusterWords * (w \div ClusterWords) + (w % ClusterWords) = ClusterWords * j + r
    BY <2>1, <2>2, <2>3
  <2> QED
    BY <1>1, <2>1, <2>2, <2>4, QuotientUnique
<1>10. j \in Clusters
  BY <1>2, <1>3 DEF Clusters
<1> QED
  BY <1>3, <1>4, <1>7, <1>8, <1>9, <1>10

MapKinds == {"data", "compressed", "zero", "hole", "backing"}
Extent   == [start : Nat, length : Nat, kind : MapKinds]
In(x, w) == x.start <= w /\ w < x.start + x.length

\* The extents of the words before e: they follow one another, no two
\* neighbours are of one kind, every word is in one, and has its kind.
MapOf(out, e) ==
  /\ out \in Seq(Extent)
  /\ out = <<>> => e = 0
  /\ out # <<>> => out[Len(out)].start + out[Len(out)].length = e
  /\ \A i \in 1 .. Len(out) : out[i].start + out[i].length <= e
  /\ \A i, j \in 1 .. Len(out) : i < j => out[i].start + out[i].length <= out[j].start
  /\ \A i \in 1 .. Len(out) - 1 : out[i].kind # out[i + 1].kind
  /\ \A w \in 0 .. e - 1 : \E i \in 1 .. Len(out) : In(out[i], w)
  /\ \A i \in 1 .. Len(out), w \in Nat :
       In(out[i], w) => out[i].kind = classifyMapKind(refs[w \div ClusterWords])

LEMMA KindIs ==
  ASSUME RequestOK, NEW c \in Clusters
  PROVE  classifyMapKind(refs[c]) \in MapKinds
BY DEF RequestOK, ClusterRef, classifyMapKind, MapKinds

LEMMA ExtentIs ==
  ASSUME NEW x \in Extent
  PROVE  x.start \in Nat /\ x.length \in Nat /\ x.kind \in MapKinds
BY DEF Extent

\* A cluster of the kind of the last extent makes it longer.
LEMMA LastExtended ==
  ASSUME RequestOK, NEW k \in 1 .. Turns, NEW out, MapOf(out, EndOf(k - 1)),
         out # <<>>, out[Len(out)].kind = classifyMapKind(refs[k - 1])
  PROVE  MapOf(Extended(out, k), EndOf(k))
<1>1. PICK s \in Nat, l \in Nat \ {0} :
        /\ s = (k - 1) * ClusterWords /\ l = Least(ClusterWords, Size - s)
        /\ s = EndOf(k - 1) /\ s + l = EndOf(k)
        /\ \A w \in s .. s + l - 1 : w \div ClusterWords = k - 1
  BY TurnFacts
<1>2. PICK m \in Nat \ {0} : m = Len(out)
  BY EmptySeq DEF MapOf
<1>3. /\ out \in Seq(Extent) /\ DOMAIN out = 1 .. m
      /\ \A i \in 1 .. m : out[i] \in Extent
  BY <1>2, LenProperties, ElementOfSeq DEF MapOf
<1>4. /\ m \in 1 .. m /\ out[m] \in Extent /\ out[m].start + out[m].length = s
      /\ out[m].kind = classifyMapKind(refs[k - 1])
  BY <1>1, <1>2, <1>3 DEF MapOf
<1>5. out[m].start \in Nat /\ out[m].length \in Nat
  BY <1>4, ExtentIs
<1> DEFINE last == [out[m] EXCEPT !.length = @ + l]
           new  == [out EXCEPT ![m] = last]
<1>6. /\ last \in Extent /\ last.start = out[m].start /\ last.length = out[m].length + l
      /\ last.kind = out[m].kind /\ last.start + last.length = s + l
  BY <1>4, <1>5 DEF Extent
<1>7. Extended(out, k) = new
  BY <1>1, <1>2, <1>3, <1>4 DEF Extended
<1> HIDE DEF last
<1>8. /\ new \in Seq(Extent) /\ Len(new) = m /\ new[m] = last
      /\ \A i \in 1 .. m : i # m => new[i] = out[i]
  BY <1>2, <1>3, <1>4, <1>6, ExceptSeq
<1>9. new # <<>>
  BY <1>2, <1>8, EmptySeq
<1> HIDE DEF new
<1>10. \A i \in 1 .. m : i # m => /\ i < m /\ out[i] \in Extent /\ out[i].start \in Nat
                                  /\ out[i].length \in Nat
                                  /\ out[i].start + out[i].length <= s
                                  /\ out[i].start + out[i].length <= last.start
  BY <1>1, <1>2, <1>3, <1>4, <1>6, ExtentIs DEF MapOf
<1>11. \A i \in 1 .. m : new[i].start + new[i].length <= s + l
  BY <1>1, <1>6, <1>8, <1>10
<1>12. ASSUME NEW i \in 1 .. m, NEW j \in 1 .. m, i < j
       PROVE  new[i].start + new[i].length <= new[j].start
  <2>1. i # m /\ new[i] = out[i]
    BY <1>8, <1>12
  <2>2. CASE j = m
    BY <1>8, <1>10, <2>1, <2>2
  <2>3. CASE j # m
    BY <1>2, <1>8, <1>12, <2>1, <2>3 DEF MapOf
  <2> QED
    BY <2>2, <2>3
<1>13. ASSUME NEW i \in 1 .. m - 1 PROVE new[i].kind # new[i + 1].kind
  <2>1. i \in 1 .. m /\ i + 1 \in 1 .. m /\ i # m /\ i \in 1 .. Len(out) - 1
    BY <1>2
  <2>2. out[i].kind # out[i + 1].kind
    BY <2>1 DEF MapOf
  <2>3. new[i] = out[i] /\ new[i + 1].kind = out[i + 1].kind
    BY <1>6, <1>8, <2>1
  <2> QED
    BY <2>2, <2>3
<1>14. ASSUME NEW w \in 0 .. s + l - 1 PROVE \E i \in 1 .. m : In(new[i], w)
  <2>1. CASE w < s
    <3>1. w \in 0 .. s - 1
      BY <2>1
    <3>2. PICK i \in 1 .. m : In(out[i], w)
      BY <1>1, <1>2, <3>1 DEF MapOf
    <3>3. CASE i = m
      <4>1. In(last, w)
        BY <1>5, <1>6, <2>1, <3>2, <3>3 DEF In
      <4> QED
        BY <1>4, <1>8, <4>1
    <3>4. CASE i # m
      BY <1>8, <3>2, <3>4
    <3> QED
      BY <3>3, <3>4
  <2>2. CASE ~(w < s)
    <3>1. In(last, w)
      BY <1>4, <1>5, <1>6, <2>2 DEF In
    <3> QED
      BY <1>4, <1>8, <3>1
  <2> QED
    BY <2>1, <2>2
<1>15. ASSUME NEW i \in 1 .. m, NEW w \in Nat, In(new[i], w)
       PROVE  new[i].kind = classifyMapKind(refs[w \div ClusterWords])
  <2>1. CASE i # m
    BY <1>2, <1>8, <1>15, <2>1 DEF MapOf
  <2>2. CASE i = m /\ w < s
    <3>1. In(out[m], w)
      BY <1>4, <1>5, <1>6, <1>8, <1>15, <2>2 DEF In
    <3>2. out[m].kind = classifyMapKind(refs[w \div ClusterWords])
      BY <1>2, <1>4, <3>1 DEF MapOf
    <3> QED
      BY <1>6, <1>8, <2>2, <3>2
  <2>3. CASE i = m /\ ~(w < s)
    <3>1. w \in s .. s + l - 1
      BY <1>6, <1>8, <1>15, <2>3 DEF In
    <3> QED
      BY <1>1, <1>4, <1>6, <1>8, <2>3, <3>1
  <2> QED
    BY <2>1, <2>2, <2>3
<1>16. new[m].start + new[m].length = s + l
  BY <1>6, <1>8
<1> QED
  BY <1>1, <1>7, <1>8, <1>9, <1>11, <1>12, <1>13, <1>14, <1>15, <1>16 DEF MapOf

\* A cluster of another kind, and the first one, begins an extent.
LEMMA ExtentAppended ==
  ASSUME RequestOK, NEW k \in 1 .. Turns, NEW out, MapOf(out, EndOf(k - 1)),
         ~(out # <<>> /\ out[Len(out)].kind = classifyMapKind(refs[k - 1]))
  PROVE  MapOf(Extended(out, k), EndOf(k))
<1>1. PICK s \in Nat, l \in Nat \ {0} :
        /\ s = (k - 1) * ClusterWords /\ l = Least(ClusterWords, Size - s)
        /\ s = EndOf(k - 1) /\ s + l = EndOf(k)
        /\ \A w \in s .. s + l - 1 : w \div ClusterWords = k - 1
  BY TurnFacts
<1>2. PICK m \in Nat : m = Len(out)
  BY LenProperties DEF MapOf
<1>3. /\ out \in Seq(Extent) /\ (m = 0 <=> out = <<>>)
      /\ \A i \in 1 .. m : out[i] \in Extent
  BY <1>2, EmptySeq, ElementOfSeq DEF MapOf
<1> DEFINE kind == classifyMapKind(refs[k - 1])
           next == [start |-> s, length |-> l, kind |-> kind]
           new  == Append(out, next)
<1>4. kind \in MapKinds
  BY TurnFacts, KindIs
<1>5. /\ next \in Extent /\ next.start = s /\ next.length = l
      /\ next.kind = classifyMapKind(refs[k - 1])
  BY <1>4 DEF Extent
<1>6. Extended(out, k) = new
  BY <1>1, <1>2, <1>3 DEF Extended
<1> HIDE DEF next, kind
<1>7. /\ new \in Seq(Extent) /\ new # <<>> /\ Len(new) = m + 1 /\ new[m + 1] = next
      /\ \A i \in 1 .. m : new[i] = out[i]
  BY <1>2, <1>3, <1>5, AppendProperties
<1> HIDE DEF new
<1>8. \A i \in 1 .. m + 1 : i # m + 1 => i \in 1 .. m
  OBVIOUS
<1>9. \A i \in 1 .. m : /\ out[i].start \in Nat /\ out[i].length \in Nat
                        /\ out[i].start + out[i].length <= s
  BY <1>1, <1>2, <1>3, ExtentIs DEF MapOf
<1>10. \A i \in 1 .. m + 1 : new[i].start + new[i].length <= s + l
  <2> SUFFICES ASSUME NEW i \in 1 .. m + 1 PROVE new[i].start + new[i].length <= s + l
    OBVIOUS
  <2>1. CASE i = m + 1
    BY <1>5, <1>7, <2>1
  <2>2. CASE i # m + 1
    <3>1. i \in 1 .. m /\ new[i] = out[i]
      BY <1>7, <1>8, <2>2
    <3> QED
      BY <1>1, <1>9, <3>1
  <2> QED
    BY <2>1, <2>2
<1>11. ASSUME NEW i \in 1 .. m + 1, NEW j \in 1 .. m + 1, i < j
       PROVE  new[i].start + new[i].length <= new[j].start
  <2>1. i \in 1 .. m /\ new[i] = out[i]
    BY <1>7, <1>11
  <2>2. CASE j = m + 1
    BY <1>5, <1>7, <1>9, <2>1, <2>2
  <2>3. CASE j # m + 1
    BY <1>2, <1>7, <1>8, <1>11, <2>1, <2>3 DEF MapOf
  <2> QED
    BY <2>2, <2>3
<1>12. ASSUME NEW i \in 1 .. m PROVE new[i].kind # new[i + 1].kind
  <2>1. CASE i = m
    <3>1. out # <<>> /\ new[m] = out[m] /\ new[m + 1].kind = classifyMapKind(refs[k - 1])
      BY <1>3, <1>5, <1>7, <2>1
    <3> QED
      BY <1>2, <2>1, <3>1
  <2>2. CASE i # m
    <3>1. i \in 1 .. Len(out) - 1 /\ i + 1 \in 1 .. m
      BY <1>2, <2>2
    <3>2. new[i] = out[i] /\ new[i + 1] = out[i + 1]
      BY <1>7, <3>1
    <3>3. out[i].kind # out[i + 1].kind
      BY <3>1 DEF MapOf
    <3> QED
      BY <3>2, <3>3
  <2> QED
    BY <2>1, <2>2
<1>13. ASSUME NEW w \in 0 .. s + l - 1 PROVE \E i \in 1 .. m + 1 : In(new[i], w)
  <2>1. CASE w < s
    <3>1. w \in 0 .. s - 1
      BY <2>1
    <3>2. PICK i \in 1 .. m : In(out[i], w)
      BY <1>1, <1>2, <3>1 DEF MapOf
    <3>3. i \in 1 .. m + 1 /\ new[i] = out[i]
      BY <1>7
    <3> QED
      BY <3>2, <3>3
  <2>2. CASE ~(w < s)
    <3>1. In(next, w)
      BY <1>5, <2>2 DEF In
    <3>2. m + 1 \in 1 .. m + 1
      OBVIOUS
    <3> QED
      BY <1>7, <3>1, <3>2
  <2> QED
    BY <2>1, <2>2
<1>14. ASSUME NEW i \in 1 .. m + 1, NEW w \in Nat, In(new[i], w)
       PROVE  new[i].kind = classifyMapKind(refs[w \div ClusterWords])
  <2>1. CASE i # m + 1
    <3>1. i \in 1 .. m /\ new[i] = out[i]
      BY <1>7, <1>8, <2>1
    <3> QED
      BY <1>2, <1>14, <3>1 DEF MapOf
  <2>2. CASE i = m + 1
    <3>1. w \in s .. s + l - 1
      BY <1>5, <1>7, <1>14, <2>2 DEF In
    <3> QED
      BY <1>1, <1>5, <1>7, <2>2, <3>1
  <2> QED
    BY <2>1, <2>2
<1>15. new[m + 1].start + new[m + 1].length = s + l /\ Len(new) - 1 = m
  BY <1>5, <1>7
<1>16. MapOf(new, s + l)
  <2>1. \A i, j \in 1 .. Len(new) : i < j => new[i].start + new[i].length <= new[j].start
    BY <1>7, <1>11
  <2>2. \A i \in 1 .. Len(new), w \in Nat :
          In(new[i], w) => new[i].kind = classifyMapKind(refs[w \div ClusterWords])
    BY <1>7, <1>14
  <2> QED
    BY <1>7, <1>10, <1>12, <1>13, <1>15, <2>1, <2>2 DEF MapOf
<1> QED
  BY <1>1, <1>6, <1>16

\* The extents of MapFile are those of the whole image.
LEMMA MapFileIs ==
  ASSUME RequestOK
  PROVE  MapOf(MapFile, Size)
<1>1. /\ ClusterWords \in Nat \ {0} /\ Size \in Nat \ {0} /\ Turns \in Nat \ {0}
      /\ EndOf(Turns) = Size
  <2>1. ClusterWords \in Nat \ {0} /\ Size \in Nat \ {0}
    BY SizesAssumption
  <2>2. PICK x \in Nat : x = Size - 1
    BY <2>1
  <2>3. PICK q \in Nat, r \in 0 .. ClusterWords - 1 : q = x \div ClusterWords /\ x = ClusterWords * q + r
    <3>1. /\ x \div ClusterWords \in Nat /\ x % ClusterWords \in 0 .. ClusterWords - 1
          /\ x = ClusterWords * (x \div ClusterWords) + (x % ClusterWords)
      BY <2>1, DivMod
    <3> QED
      BY <3>1
  <2>4. Turns = q + 1
    BY <2>2, <2>3 DEF Turns
  <2>5. (q + 1) * ClusterWords = ClusterWords * q + ClusterWords /\ ClusterWords * q \in Nat
    BY <2>1, Z3
  <2>6. Size <= Turns * ClusterWords /\ Turns * ClusterWords \in Nat
    BY <2>1, <2>2, <2>3, <2>4, <2>5
  <2> QED
    BY <2>1, <2>4, <2>6 DEF EndOf, Least
<1> DEFINE Wrong == {k \in Nat : k \in 0 .. Turns /\ ~MapOf(mapped[k], EndOf(k))}
<1>2. Wrong = {}
  <2> SUFFICES ASSUME Wrong # {} PROVE FALSE
    OBVIOUS
  <2>1. PICK k \in Wrong : \A j \in Wrong : k <= j
    BY LeastElement
  <2>2. CASE k = 0
    <3>1. mapped[0] = <<>> /\ EndOf(0) = 0
      BY <1>1, MappedTurn DEF EndOf, Least
    <3>2. <<>> \in Seq(Extent) /\ Len(<<>>) = 0
      BY EmptySeq
    <3>3. MapOf(<<>>, 0)
      BY <3>2 DEF MapOf
    <3> QED
      BY <2>1, <2>2, <3>1, <3>3
  <2>3. CASE k # 0
    <3>1. k \in 1 .. Turns /\ k - 1 \in Nat /\ k - 1 \in 0 .. Turns /\ k - 1 \notin Wrong
      BY <1>1, <2>1, <2>3
    <3>2. MapOf(mapped[k - 1], EndOf(k - 1)) /\ mapped[k] = Extended(mapped[k - 1], k)
      BY <3>1, MappedTurn
    <3>3. MapOf(mapped[k], EndOf(k))
      BY <3>1, <3>2, LastExtended, ExtentAppended
    <3> QED
      BY <2>1, <3>3
  <2> QED
    BY <2>2, <2>3
<1>3. MapFile = mapped[Turns]
  BY DEF MapFile, Turns
<1>4. Turns \in 0 .. Turns /\ Turns \notin Wrong
  BY <1>1, <1>2
<1> QED
  BY <1>1, <1>3, <1>4

\* A word is in one extent only.
LEMMA OneExtent ==
  ASSUME RequestOK, NEW w \in 0 .. Size - 1
  PROVE  \E i \in DOMAIN MapFile :
           /\ In(MapFile[i], w) /\ MapFile[i].kind = classifyMapKind(refs[w \div ClusterWords])
           /\ {j \in DOMAIN MapFile : In(MapFile[j], w)} = {i}
<1>1. MapOf(MapFile, Size)
  BY MapFileIs
<1>2. /\ DOMAIN MapFile = 1 .. Len(MapFile) /\ Len(MapFile) \in Nat
      /\ \A i \in 1 .. Len(MapFile) : /\ MapFile[i].start \in Nat
                                      /\ MapFile[i].length \in Nat
  BY <1>1, LenProperties, ElementOfSeq, ExtentIs DEF MapOf
<1>3. w \in Nat
  BY SizesAssumption
<1>4. PICK i \in 1 .. Len(MapFile) : In(MapFile[i], w)
  BY <1>1 DEF MapOf
<1>5. MapFile[i].kind = classifyMapKind(refs[w \div ClusterWords])
  BY <1>1, <1>3, <1>4 DEF MapOf
<1>6. ASSUME NEW j \in 1 .. Len(MapFile), In(MapFile[j], w) PROVE j = i
  <2>1. ~(j < i)
    <3> SUFFICES ASSUME j < i PROVE FALSE
      OBVIOUS
    <3>1. MapFile[j].start + MapFile[j].length <= MapFile[i].start
      BY <1>1 DEF MapOf
    <3> QED
      BY <1>2, <1>3, <1>4, <1>6, <3>1 DEF In
  <2>2. ~(i < j)
    <3> SUFFICES ASSUME i < j PROVE FALSE
      OBVIOUS
    <3>1. MapFile[i].start + MapFile[i].length <= MapFile[j].start
      BY <1>1 DEF MapOf
    <3> QED
      BY <1>2, <1>3, <1>4, <1>6, <3>1 DEF In
  <2> QED
    BY <1>2, <2>1, <2>2
<1> QED
  BY <1>2, <1>4, <1>5, <1>6

LEMMA WordInClusters ==
  ASSUME NEW w \in 0 .. Size - 1
  PROVE  w \div ClusterWords \in Clusters
<1>1. ClusterWords \in Nat \ {0} /\ w \in Nat
  BY SizesAssumption
<1>2. PICK x \in Nat : x = Size - 1 /\ w <= x
  BY SizesAssumption
<1>3. PICK q \in Nat, d \in Nat : q = x \div ClusterWords /\ d = w \div ClusterWords
  BY <1>1, <1>2, DivMod
<1>4. ~(q < d)
  <2> SUFFICES ASSUME q < d PROVE FALSE
    OBVIOUS
  <2>1. PICK e \in Nat : d = q + 1 + e
    <3>1. d - q - 1 \in Nat /\ d = q + 1 + (d - q - 1)
      OBVIOUS
    <3> QED
      BY <3>1
  <2>2. PICK r \in 0 .. ClusterWords - 1 : x = ClusterWords * q + r
    <3>1. x % ClusterWords \in 0 .. ClusterWords - 1 /\ x = ClusterWords * q + (x % ClusterWords)
      BY <1>1, <1>3, DivMod
    <3> QED
      BY <3>1
  <2>3. PICK m \in 0 .. ClusterWords - 1 : w = ClusterWords * d + m
    <3>1. w % ClusterWords \in 0 .. ClusterWords - 1 /\ w = ClusterWords * d + (w % ClusterWords)
      BY <1>1, <1>3, DivMod
    <3> QED
      BY <3>1
  <2>4. /\ ClusterWords * d = ClusterWords * q + ClusterWords + ClusterWords * e
        /\ ClusterWords * q \in Nat /\ ClusterWords * e \in Nat
    BY <1>1, <2>1, Z3
  <2> QED
    BY <1>1, <1>2, <2>2, <2>3, <2>4
<1> QED
  BY <1>2, <1>3, <1>4 DEF Clusters

\* The kind of a word's cluster is one that what the guest finds may be from.
LEMMA KindOfGuest ==
  ASSUME RequestOK, NEW w, w \div ClusterWords \in Clusters
  PROVE  classifyMapKind(refs[w \div ClusterWords]) \in KindsOf(Guest(w))
<1>1. PICK r \in ClusterRef : r = refs[w \div ClusterWords]
  BY DEF RequestOK
<1>2. CASE r \in {"data", "compressed"}
  BY <1>1, <1>2 DEF Guest, KindsOf, classifyMapKind
<1>3. CASE r = "zero"
  BY <1>1, <1>3 DEF Guest, KindsOf, classifyMapKind, Zero
<1>4. CASE r = "unallocated" /\ backed /\ w < backing.size
  BY <1>1, <1>4 DEF Guest, KindsOf, classifyMapKind
<1>5. CASE r = "unallocated" /\ ~(backed /\ w < backing.size)
  <2>1. Guest(w) = <<"zero", 0>>
    BY <1>1, <1>5 DEF Guest, Zero
  <2>2. KindsOf(<<"zero", 0>>) = {"zero", "hole", "backing"}
    BY DEF KindsOf
  <2>3. backed \in BOOLEAN
    BY DEF RequestOK
  <2>4. classifyMapKind(r) \in {"hole", "backing"}
    BY <1>5, <2>3 DEF classifyMapKind
  <2> QED
    BY <1>1, <2>1, <2>2, <2>4
<1> QED
  BY <1>2, <1>3, <1>4, <1>5 DEF ClusterRef

\* Whatever the clusters of an image and their size, map's extents cover every
\* word once and run as far as they can, and every word of a read comes from
\* where its extent says, or was zeroed ahead of a stop of the backing reader.
THEOREM MapAgreesWithReads == RebaseSpec => []MapTellsReads
<1>1. RebaseInit => ReadInv
  BY ChainInit DEF RebaseInit, ReadInv
<1>2. ReadInv => MapTellsReads
  <2> SUFFICES ASSUME ReadInv, pc = "done" PROVE MapTellsReads
    BY DEF MapTellsReads
  <2>1. at = "open" /\ RequestOK /\ ReadSoFar
    BY DEF ReadInv, ChainOK, Closed
  <2>2. ASSUME NEW w \in 0 .. Size - 1
        PROVE  Cardinality({i \in DOMAIN MapFile :
                 MapFile[i].start <= w /\ w < MapFile[i].start + MapFile[i].length}) = 1
    <3>1. PICK i \in DOMAIN MapFile : {j \in DOMAIN MapFile : In(MapFile[j], w)} = {i}
      BY <2>1, OneExtent
    <3>2. Cardinality({i}) = 1
      BY FS_Singleton
    <3> QED
      BY <3>1, <3>2 DEF In
  <2>3. \A i \in 1 .. Len(MapFile) - 1 : MapFile[i].kind # MapFile[i + 1].kind
    BY <2>1, MapFileIs DEF MapOf
  <2>4. ASSUME NEW i \in DOMAIN p
        PROVE  \E e \in {MapFile[j] : j \in DOMAIN MapFile} :
                 /\ e.start <= off + i /\ off + i < e.start + e.length
                 /\ e.kind \in KindsOf(p[i]) \/ Overzeroed(i)
    <3>1. off + i \in 0 .. Size - 1 /\ i \in 0 .. read - 1
      BY <2>1, SizesAssumption DEF RequestOK
    <3>2. p[i] = Guest(off + i) \/ Overzeroed(i)
      BY <2>1, <3>1 DEF ReadSoFar
    <3>3. PICK j \in DOMAIN MapFile :
            /\ In(MapFile[j], off + i)
            /\ MapFile[j].kind = classifyMapKind(refs[(off + i) \div ClusterWords])
      BY <2>1, <3>1, OneExtent
    <3>4. (off + i) \div ClusterWords \in Clusters
      BY <3>1, WordInClusters
    <3>5. MapFile[j].kind \in KindsOf(p[i]) \/ Overzeroed(i)
      BY <2>1, <3>2, <3>3, <3>4, KindOfGuest
    <3> QED
      BY <3>3, <3>5 DEF In
  <2> QED
    BY <2>2, <2>3, <2>4 DEF MapTellsReads
<1> QED
  BY <1>1, <1>2, ReadInvStep, PTL DEF RebaseSpec
=============================================================================
