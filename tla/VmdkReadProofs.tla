--------------------------- MODULE VmdkReadProofs ---------------------------
(***************************************************************************)
(* Proofs about reading VMDKs. For any number of extents of any sizes and  *)
(* any size of a chunk: what readAcrossSpans has read is what the          *)
(* descriptor puts there, and the raw stream that is copied over it is the *)
(* image, sector for sector. For any stream-optimized file: it only opens  *)
(* when it is whole, and reads as the last occurrence of every grain.      *)
(***************************************************************************)
EXTENDS RawStream, StreamOptimized, FiniteSetTheorems, SequenceTheorems, TLAPS

-----------------------------------------------------------------------------
(* Induction: the least element of a set of numbers.                       *)

\* Every set of numbers that is not empty has a least one: as many numbers lie
\* below all of the set as the least of it says.
LEMMA LeastElement ==
  ASSUME NEW T \in SUBSET Nat, T # {}
  PROVE  \E a \in T : \A t \in T : a <= t
<1>1. PICK u \in T : TRUE
  OBVIOUS
<1> DEFINE Below == {x \in 0 .. u : \A t \in T : x < t}
           a     == Cardinality(Below)
<1>2. /\ IsFiniteSet(Below) /\ a \in Nat
      /\ \A S \in SUBSET Below : Cardinality(S) <= a
  <2>1. IsFiniteSet(0 .. u)
    BY <1>1, FS_Interval
  <2>2. IsFiniteSet(Below)
    BY <2>1, FS_Subset
  <2> HIDE DEF Below
  <2> QED
    BY <2>2, FS_Subset, FS_CardinalityType
<1>3. ASSUME NEW x \in Below PROVE x < a
  <2>1. x \in Nat /\ 0 .. x \in SUBSET Below
    BY <1>1
  <2>2. Cardinality(0 .. x) = x + 1
    BY <2>1, FS_Interval
  <2> HIDE DEF Below
  <2> QED
    BY <1>2, <2>1, <2>2
<1>4. ASSUME NEW x \in Nat, x \notin Below, x <= u PROVE a <= x
  <2>1. Below \in SUBSET (0 .. x - 1)
    <3> SUFFICES ASSUME NEW y \in Below, y >= x PROVE FALSE
      BY <1>1
    <3>1. \A t \in T : x < t
      BY <1>1, <1>4
    <3> QED
      BY <1>1, <1>4, <3>1
  <2>2. IsFiniteSet(0 .. x - 1) /\ Cardinality(0 .. x - 1) = x
    BY FS_Interval
  <2> HIDE DEF Below
  <2> QED
    BY <2>1, <2>2, FS_Subset
<1>5. u \notin Below
  BY <1>1
<1>6. a <= u
  BY <1>1, <1>4, <1>5
<1>7. a \notin Below
  <2> HIDE DEF Below
  <2> QED
    BY <1>2, <1>3
<1>8. PICK t \in T : t <= a
  <2>1. \E t \in T : ~(a < t)
    BY <1>1, <1>2, <1>6, <1>7
  <2> QED
    BY <1>2, <2>1
<1>9. ASSUME NEW v \in T PROVE a <= v
  <2>1. v \notin Below /\ v \in Nat
    OBVIOUS
  <2>2. v <= u \/ u < v
    BY <1>1, <2>1
  <2> HIDE DEF Below
  <2> QED
    BY <1>1, <1>2, <1>4, <1>6, <2>1, <2>2
<1>10. t = a
  <2>1. t \in Nat /\ a <= t
    BY <1>9
  <2> HIDE DEF Below
  <2> QED
    BY <1>2, <1>8, <2>1
<1> QED
  BY <1>8, <1>9, <1>10

-----------------------------------------------------------------------------
(* The spans.                                                              *)

NumExtents == Len(extents)

ExtentsOK == \E n \in 1 .. MaxExtents : extents \in [1 .. n -> Extents]

LEMMA ExtentFacts ==
  ASSUME ExtentsOK
  PROVE  /\ MaxExtents \in Nat \ {0} /\ NumExtents \in 1 .. MaxExtents /\ NumExtents \in Nat
         /\ \A i \in 1 .. NumExtents : /\ extents[i] \in Extents
                                       /\ extents[i].sectors \in Nat \ {0}
                                       /\ extents[i].has \in Nat
                                       /\ extents[i].kind \in {"flat", "sparse", "stream"}
<1>1. MaxExtents \in Nat \ {0} /\ MaxSectors \in Nat \ {0}
      /\ Kinds \subseteq {"flat", "sparse", "stream"}
  BY BoundsAssumption
<1>2. PICK n \in 1 .. MaxExtents : extents \in [1 .. n -> Extents]
  BY DEF ExtentsOK
<1>3. NumExtents = n
  BY <1>1, <1>2 DEF NumExtents
<1>4. ASSUME NEW e \in Extents
      PROVE  /\ e.sectors \in Nat \ {0} /\ e.has \in Nat
             /\ e.kind \in {"flat", "sparse", "stream"}
  <2>1. e.kind \in Kinds /\ e.sectors \in 1 .. MaxSectors /\ e.has \in 0 .. MaxSectors
    BY DEF Extents
  <2>2. \A x \in 1 .. MaxSectors : x \in Nat \ {0}
    BY <1>1
  <2>3. \A x \in 0 .. MaxSectors : x \in Nat
    BY <1>1
  <2>4. e.kind \in {"flat", "sparse", "stream"}
    BY <1>1, <2>1
  <2> QED
    BY <2>1, <2>2, <2>3, <2>4
<1> QED
  BY <1>1, <1>2, <1>3, <1>4

\* The starts of the first m spans.
StartsUpTo(m, g) ==
  /\ g \in [1 .. m -> Nat]
  /\ \A i \in 1 .. m :
       g[i] = IF i = 1 \/ i > NumExtents + 1 THEN 0 ELSE g[i - 1] + extents[i - 1].sectors

LEMMA StartsExist ==
  ASSUME ExtentsOK, NEW m \in Nat
  PROVE  \E g : StartsUpTo(m, g)
<1> DEFINE Missing == {k \in Nat : ~\E g : StartsUpTo(k, g)}
<1> SUFFICES ASSUME Missing # {} PROVE FALSE
  OBVIOUS
<1>1. PICK k \in Missing : \A j \in Missing : k <= j
  BY LeastElement
<1>2. k # 0
  <2>1. StartsUpTo(0, [i \in 1 .. 0 |-> 0])
    BY DEF StartsUpTo
  <2> QED
    BY <1>1, <2>1
<1>3. k - 1 \in Nat /\ k - 1 \notin Missing
  BY <1>1, <1>2
<1>4. PICK g : StartsUpTo(k - 1, g)
  BY <1>3
<1>5. g \in [1 .. k - 1 -> Nat]
  BY <1>4 DEF StartsUpTo
<1> DEFINE next == IF k = 1 \/ k > NumExtents + 1 THEN 0 ELSE g[k - 1] + extents[k - 1].sectors
           h    == [i \in 1 .. k |-> IF i = k THEN next ELSE g[i]]
<1>6. next \in Nat
  <2>1. CASE k = 1 \/ k > NumExtents + 1
    BY <2>1
  <2>2. CASE ~(k = 1 \/ k > NumExtents + 1)
    <3>1. k - 1 \in 1 .. k - 1 /\ k - 1 \in 1 .. NumExtents
      BY <1>1, <1>2, <2>2, ExtentFacts
    <3>2. g[k - 1] \in Nat /\ extents[k - 1].sectors \in Nat
      BY <1>5, <3>1, ExtentFacts
    <3> QED
      BY <2>2, <3>2
  <2> QED
    BY <2>1, <2>2
<1> HIDE DEF next
<1>7. h \in [1 .. k -> Nat] /\ h[k] = next /\ \A i \in 1 .. k - 1 : h[i] = g[i]
  BY <1>1, <1>2, <1>5, <1>6
<1>8. ASSUME NEW i \in 1 .. k
      PROVE  h[i] = IF i = 1 \/ i > NumExtents + 1 THEN 0 ELSE h[i - 1] + extents[i - 1].sectors
  <2>1. CASE i = k
    <3>1. i # 1 => h[i - 1] = g[k - 1]
      BY <1>1, <1>2, <1>7, <2>1
    <3> QED
      BY <1>7, <2>1, <3>1 DEF next
  <2>2. CASE i # k
    <3>1. i \in 1 .. k - 1
      BY <1>1, <2>2
    <3>2. i # 1 => i - 1 \in 1 .. k - 1
      BY <1>1, <3>1
    <3>3. h[i] = g[i] /\ (i # 1 => h[i - 1] = g[i - 1])
      BY <1>7, <3>1, <3>2
    <3>4. g[i] = IF i = 1 \/ i > NumExtents + 1 THEN 0 ELSE g[i - 1] + extents[i - 1].sectors
      BY <1>4, <3>1 DEF StartsUpTo
    <3> QED
      BY <3>3, <3>4
  <2> QED
    BY <2>1, <2>2
<1>9. StartsUpTo(k, h)
  BY <1>7, <1>8 DEF StartsUpTo
<1> QED
  BY <1>1, <1>9

LEMMA StartEquation ==
  ASSUME ExtentsOK
  PROVE  Start = [i \in 1 .. MaxExtents + 1 |->
                    IF i = 1 \/ i > Len(extents) + 1 THEN 0
                    ELSE Start[i - 1] + extents[i - 1].sectors]
<1> DEFINE Equation(g) ==
      g = [i \in 1 .. MaxExtents + 1 |->
             IF i = 1 \/ i > Len(extents) + 1 THEN 0 ELSE g[i - 1] + extents[i - 1].sectors]
<1>1. MaxExtents + 1 \in Nat
  BY ExtentFacts
<1>2. PICK g : StartsUpTo(MaxExtents + 1, g)
  BY <1>1, StartsExist
<1>3. Equation(g)
  BY <1>2 DEF StartsUpTo, NumExtents
<1>4. Equation(CHOOSE f : Equation(f))
  BY <1>3
<1>5. Start = CHOOSE f : Equation(f)
  BY DEF Start
<1> QED
  BY <1>4, <1>5

\* The spans follow one another from 0 on.
LEMMA StartFacts ==
  ASSUME ExtentsOK
  PROVE  /\ Start[1] = 0
         /\ \A i \in 1 .. NumExtents + 1 : Start[i] \in Nat
         /\ \A i \in 1 .. NumExtents : Start[i + 1] = Start[i] + extents[i].sectors
         /\ totalSize = Start[NumExtents + 1] /\ totalSize \in Nat
<1>1. MaxExtents \in Nat \ {0} /\ NumExtents \in 1 .. MaxExtents /\ NumExtents \in Nat
  BY ExtentFacts
<1>2. Start[1] = 0
  <2>1. 1 \in 1 .. MaxExtents + 1
    BY <1>1
  <2>2. \A i \in 1 .. MaxExtents + 1 :
          Start[i] = IF i = 1 \/ i > Len(extents) + 1 THEN 0
                     ELSE Start[i - 1] + extents[i - 1].sectors
    BY StartEquation
  <2> QED
    BY <2>1, <2>2
<1>3. ASSUME NEW i \in 1 .. NumExtents PROVE Start[i + 1] = Start[i] + extents[i].sectors
  <2>1. i + 1 \in 1 .. MaxExtents + 1 /\ ~(i + 1 = 1 \/ i + 1 > Len(extents) + 1) /\ (i + 1) - 1 = i
    BY <1>1 DEF NumExtents
  <2> QED
    BY <2>1, StartEquation
<1>4. \A i \in 1 .. NumExtents + 1 : Start[i] \in Nat
  <2> DEFINE Bad == {i \in Nat : i \in 1 .. NumExtents + 1 /\ Start[i] \notin Nat}
  <2> SUFFICES ASSUME Bad # {} PROVE FALSE
    BY <1>1
  <2>1. PICK i \in Bad : \A j \in Bad : i <= j
    BY LeastElement
  <2>2. i # 1
    BY <1>2, <2>1
  <2>3. i - 1 \in 1 .. NumExtents /\ i - 1 \notin Bad
    BY <1>1, <2>1, <2>2
  <2>4. Start[i - 1] \in Nat /\ extents[i - 1].sectors \in Nat /\ (i - 1) + 1 = i
    BY <1>1, <2>1, <2>3, ExtentFacts
  <2> QED
    BY <1>3, <2>1, <2>3, <2>4
<1>5. totalSize = Start[NumExtents + 1] /\ totalSize \in Nat
  BY <1>1, <1>4 DEF totalSize, NumExtents
<1> QED
  BY <1>2, <1>3, <1>4, <1>5

LEMMA StartMonotonic ==
  ASSUME ExtentsOK, NEW i \in 1 .. NumExtents + 1, NEW j \in 1 .. NumExtents + 1, i <= j
  PROVE  Start[i] <= Start[j]
<1> DEFINE Bad == {k \in Nat : k \in 1 .. NumExtents + 1 /\ i <= k /\ ~(Start[i] <= Start[k])}
<1> SUFFICES ASSUME Bad # {} PROVE FALSE
  BY ExtentFacts
<1>1. PICK k \in Bad : \A m \in Bad : k <= m
  BY LeastElement
<1>2. NumExtents \in Nat /\ i \in Nat
  BY ExtentFacts
<1>3. k # i
  BY <1>1, StartFacts
<1>4. k - 1 \in 1 .. NumExtents /\ i <= k - 1 /\ k - 1 \notin Bad /\ (k - 1) + 1 = k
  BY <1>1, <1>2, <1>3
<1>5. Start[i] <= Start[k - 1]
  BY <1>2, <1>4
<1>6. Start[k] = Start[k - 1] + extents[k - 1].sectors /\ extents[k - 1].sectors \in Nat
      /\ Start[k - 1] \in Nat /\ Start[i] \in Nat
  BY <1>1, <1>2, <1>4, StartFacts, ExtentFacts
<1> QED
  BY <1>1, <1>5, <1>6

\* The starts depend on the extent lines only, and these never change.
LEMMA StartsStay ==
  ASSUME extents' = extents
  PROVE  Start' = Start /\ NumExtents' = NumExtents /\ totalSize' = totalSize
<1>1. Start' = Start
  BY DEF Start
<1> QED
  BY <1>1 DEF NumExtents, totalSize

Covers(i, o) == Start[i] <= o /\ o < Start[i + 1]

LEMMA CoveredOnce ==
  ASSUME ExtentsOK, NEW o \in Nat,
         NEW i \in 1 .. NumExtents, NEW j \in 1 .. NumExtents, Covers(i, o), Covers(j, o)
  PROVE  i = j
<1>1. ASSUME NEW a \in 1 .. NumExtents, NEW b \in 1 .. NumExtents,
             Covers(a, o), Covers(b, o), a < b
      PROVE  FALSE
  <2>1. NumExtents \in Nat
    BY ExtentFacts
  <2>2. a + 1 \in 1 .. NumExtents + 1 /\ b \in 1 .. NumExtents + 1 /\ a + 1 <= b
    BY <1>1, <2>1
  <2>3. Start[a + 1] <= Start[b]
    BY <2>2, StartMonotonic
  <2>4. Start[a + 1] \in Nat /\ Start[b] \in Nat
    BY <2>2, StartFacts
  <2> QED
    BY <1>1, <2>3, <2>4 DEF Covers
<1> QED
  BY <1>1, ExtentFacts

LEMMA CoveredInImage ==
  ASSUME ExtentsOK, NEW o \in Nat, o < totalSize
  PROVE  \E i \in 1 .. NumExtents : Covers(i, o)
<1>1. NumExtents \in Nat
  BY ExtentFacts
<1> DEFINE Behind == {j \in Nat : j \in 1 .. NumExtents + 1 /\ o < Start[j]}
<1>2. NumExtents + 1 \in Behind
  BY <1>1, StartFacts
<1>3. PICK j \in Behind : \A k \in Behind : j <= k
  BY <1>2, LeastElement
<1>4. j # 1
  BY <1>3, StartFacts
<1>5. j - 1 \in 1 .. NumExtents /\ j - 1 \notin Behind /\ (j - 1) + 1 = j
  BY <1>1, <1>3, <1>4
<1>6. Start[j - 1] \in Nat /\ ~(o < Start[j - 1])
  BY <1>1, <1>5, StartFacts
<1>7. Covers(j - 1, o)
  BY <1>3, <1>5, <1>6 DEF Covers
<1> QED
  BY <1>5, <1>7

-----------------------------------------------------------------------------
(* One read of one extent.                                                 *)

LEMMA GotFacts ==
  ASSUME NEW e \in Extents, NEW at \in Nat, NEW n \in Nat, n >= 1, at + n <= e.sectors
  PROVE  /\ Got(e, at, n) \in 0 .. n
         /\ Got(e, at, n) = 0 => at >= e.has
         /\ Got(e, at, n) > 0 => at + Got(e, at, n) <= e.has
         /\ e.has >= e.sectors =>
              /\ Got(e, at, n) = n
              /\ ReadErr(e, at, n) = "eof" => e.kind # "sparse" /\ at + n = e.sectors
<1>1. e.sectors \in Nat /\ e.has \in Nat
  BY BoundsAssumption DEF Extents
<1>2. CASE e.kind = "flat"
  BY <1>1, <1>2 DEF Got, ReadErr, Size, Least
<1>3. CASE e.kind # "flat"
  BY <1>1, <1>3 DEF Got, ReadErr, Size, Least
<1> QED
  BY <1>2, <1>3

-----------------------------------------------------------------------------
(* The inductive invariant.                                                *)

Sectors == Nat \X Nat

SpanTypes ==
  /\ ExtentsOK
  /\ off \in Nat /\ len \in Nat /\ read \in Nat
  /\ p \in Seq(Sectors) /\ len <= Len(p)
  /\ err \in {"none", "nil", "eof", "error"}

StreamTypes ==
  /\ chunkSize \in Nat /\ soff \in Nat /\ written \in Nat
  /\ pc \in {"loop", "read", "write", "returned"}
  /\ result \in {"none", "nil", "error", "cancelled"}
  /\ out \in Seq(Sectors)
  /\ chunkSize > 0 => Len(p) = chunkSize
  /\ pc = "read" => len > 0
  /\ pc \in {"loop", "write"} => chunkSize > 0
  /\ result # "none" => pc = "returned"

\* What was read lies in the image and is what the descriptor puts there.
RightSector(k) ==
  \E i \in 1 .. NumExtents : Covers(i, off + k - 1) /\ p[k] = Sector(i, off + k - 1 - Start[i])

ReadOK ==
  /\ read <= len
  /\ read > 0 => off + read <= totalSize
  /\ \A k \in 1 .. read : RightSector(k)
  /\ err = "nil" => read = len

\* No more of an extent is behind offset o than its file holds.
Reachable(o) == \A i \in 1 .. NumExtents : Covers(i, o) => o <= Start[i] + extents[i].has

\* Nothing more can be read from offset o.
Exhausted(o) == \E i \in 1 .. NumExtents : Covers(i, o) /\ o >= Start[i] + extents[i].has

\* Where the copy is, and that it stops only where an extent has ended.
StreamOK ==
  chunkSize > 0 =>
    /\ soff <= totalSize
    /\ pc = "loop" => Reachable(soff)
    /\ pc = "read" => off = soff /\ soff < totalSize
    /\ pc = "write" => off = soff /\ written <= read
    /\ pc \in {"read", "write"} => Reachable(off + read)
    /\ pc = "read" /\ err = "eof" /\ read = 0 => Exhausted(off)

OutOK ==
  /\ pc \in {"loop", "read"} => Len(out) = soff
  /\ pc = "write" => Len(out) = soff + written

RightOut(k) ==
  \E i \in 1 .. NumExtents : Covers(i, k - 1) /\ out[k] = Sector(i, k - 1 - Start[i])

FaithfulOK == \A k \in 1 .. Len(out) : RightOut(k)

Inv ==
  /\ SpanTypes /\ StreamTypes
  /\ ReadOK /\ EOFAtExtentEnd
  /\ StreamOK /\ OutOK /\ FaithfulOK /\ StreamComplete

-----------------------------------------------------------------------------
(* One turn of readAcrossSpans.                                            *)

LEMMA SpanFacts ==
  ASSUME SpanTypes, off < totalSize, read < trimmed
  PROVE  /\ trimmed \in Nat /\ trimmed <= len /\ off + trimmed <= totalSize
         /\ Current \in 1 .. NumExtents /\ Covers(Current, curOff) /\ curOff \in Nat
         /\ within \in Nat /\ curOff = Start[Current] + within
         /\ want \in Nat /\ want >= 1 /\ want <= trimmed - read
         /\ within + want <= extents[Current].sectors
<1>1. /\ ExtentsOK /\ off \in Nat /\ len \in Nat /\ read \in Nat
      /\ totalSize \in Nat /\ NumExtents \in Nat
  BY StartFacts, ExtentFacts DEF SpanTypes
<1>2. trimmed \in Nat /\ trimmed <= len /\ off + trimmed <= totalSize
  BY <1>1 DEF trimmed, Least
<1>3. curOff \in Nat /\ curOff < totalSize
  BY <1>1, <1>2 DEF curOff
<1>4. Current \in 1 .. NumExtents /\ Covers(Current, curOff)
  <2>1. \E i \in 1 .. NumExtents : Covers(i, curOff)
    BY <1>1, <1>3, CoveredInImage
  <2> QED
    BY <2>1 DEF Current, Covers, NumExtents
<1>5. PICK i \in 1 .. NumExtents : i = Current
  BY <1>4
<1>6. /\ Start[i] \in Nat /\ Start[i + 1] = Start[i] + extents[i].sectors
      /\ extents[i].sectors \in Nat
  BY <1>1, StartFacts, ExtentFacts
<1>7. Start[i] <= curOff /\ curOff < Start[i + 1]
  BY <1>4, <1>5 DEF Covers
<1>8. within \in Nat /\ curOff = Start[i] + within
  BY <1>3, <1>5, <1>6, <1>7 DEF within
<1>9. /\ want \in Nat /\ want >= 1 /\ want <= trimmed - read
      /\ want <= Start[i + 1] - curOff
  BY <1>1, <1>2, <1>3, <1>5, <1>6, <1>7 DEF want, Least
<1>10. within + want <= extents[i].sectors
  BY <1>3, <1>6, <1>8, <1>9
<1> QED
  BY <1>2, <1>3, <1>4, <1>5, <1>8, <1>9, <1>10

LEMMA GotOfSpan ==
  ASSUME SpanTypes, off < totalSize, read < trimmed
  PROVE  LET e == extents[Current]
             n == Got(e, within, want)
         IN  /\ n \in 0 .. want
             /\ n = 0 => within >= e.has
             /\ n > 0 => within + n <= e.has
             /\ e.has >= e.sectors =>
                  /\ n = want
                  /\ ReadErr(e, within, want) = "eof" =>
                       e.kind # "sparse" /\ within + want = e.sectors
<1>1. extents[Current] \in Extents
  BY SpanFacts, ExtentFacts DEF SpanTypes
<1> QED
  BY <1>1, SpanFacts, GotFacts

\* Behind n more sectors of the current span, no more than the extent holds.
LEMMA StillReachable ==
  ASSUME SpanTypes, off < totalSize, read < trimmed, Reachable(curOff),
         NEW n \in Nat, n <= Got(extents[Current], within, want)
  PROVE  Reachable(curOff + n)
<1>1. PICK c \in 1 .. NumExtents : c = Current
  BY SpanFacts
<1>2. /\ ExtentsOK /\ NumExtents \in Nat
      /\ Start[c] \in Nat /\ Start[c + 1] \in Nat /\ Start[c + 1] = Start[c] + extents[c].sectors
      /\ extents[c].sectors \in Nat /\ extents[c].has \in Nat
  BY StartFacts, ExtentFacts DEF SpanTypes
<1>3. PICK w \in Nat : w = within
  BY SpanFacts
<1>4. curOff \in Nat /\ curOff = Start[c] + w
  BY <1>1, <1>3, SpanFacts
<1>5. PICK g \in Nat : g = Got(extents[Current], within, want) /\ g <= want
  BY GotOfSpan, SpanFacts
<1>6. w + g <= extents[c].sectors
  BY <1>1, <1>2, <1>3, <1>5, SpanFacts
<1>7. g > 0 => w + g <= extents[c].has
  BY <1>1, <1>3, <1>5, GotOfSpan
<1> SUFFICES ASSUME NEW i \in 1 .. NumExtents, Covers(i, curOff + n)
             PROVE  curOff + n <= Start[i] + extents[i].has
  BY DEF Reachable
<1>8. Start[i] \in Nat /\ Start[i + 1] \in Nat /\ extents[i].has \in Nat
  BY <1>2, StartFacts, ExtentFacts
<1>9. CASE n = 0
  BY <1>4, <1>9 DEF Reachable
<1>10. CASE n > 0 /\ curOff + n < Start[c + 1]
  <2>1. Covers(c, curOff + n)
    BY <1>2, <1>4, <1>10 DEF Covers
  <2>2. i = c
    BY <1>2, <1>4, <2>1, CoveredOnce
  <2>3. w + n <= extents[c].has
    BY <1>2, <1>5, <1>7, <1>10
  <2> QED
    BY <1>2, <1>4, <2>2, <2>3
<1>11. CASE n > 0 /\ curOff + n = Start[c + 1]
  <2>1. ~(i < c + 1)
    <3> SUFFICES ASSUME i < c + 1 PROVE FALSE
      OBVIOUS
    <3>1. i + 1 \in 1 .. NumExtents + 1 /\ c + 1 \in 1 .. NumExtents + 1 /\ i + 1 <= c + 1
      BY <1>2
    <3>2. Start[i + 1] <= Start[c + 1]
      BY <1>2, <3>1, StartMonotonic
    <3> QED
      BY <1>2, <1>8, <1>11, <3>2 DEF Covers
  <2>2. c + 1 \in 1 .. NumExtents + 1 /\ i \in 1 .. NumExtents + 1 /\ c + 1 <= i
    BY <1>2, <2>1
  <2>3. Start[c + 1] <= Start[i]
    BY <1>2, <2>2, StartMonotonic
  <2> QED
    BY <1>2, <1>8, <1>11, <2>3
<1>12. curOff + n <= Start[c + 1]
  BY <1>1, <1>2, <1>4, <1>5, <1>6
<1> QED
  BY <1>2, <1>4, <1>9, <1>10, <1>11, <1>12

\* A read of the current span keeps what is said of the sectors read.
LEMMA TakeKeeps ==
  ASSUME SpanTypes, ReadOK, err = "none", off < totalSize, read < trimmed,
         NEW n \in Nat, n <= Got(extents[Current], within, want),
         Take(n), UNCHANGED <<extents, off, len>>, err' \in {"none", "eof", "error"}
  PROVE  /\ SpanTypes' /\ ReadOK' /\ Len(p') = Len(p)
         /\ Start' = Start /\ NumExtents' = NumExtents /\ totalSize' = totalSize
         /\ read' = read + n /\ read' <= trimmed
         /\ curOff' = curOff + n
<1>1. PICK c \in 1 .. NumExtents : c = Current
  BY SpanFacts
<1>2. PICK w \in Nat : w = within
  BY SpanFacts
<1>3. PICK g \in Nat : g = Got(extents[Current], within, want) /\ g <= want
  BY GotOfSpan, SpanFacts
<1>4. /\ ExtentsOK /\ off \in Nat /\ len \in Nat /\ read \in Nat /\ NumExtents \in Nat
      /\ p \in Seq(Sectors) /\ len <= Len(p) /\ Len(p) \in Nat
  BY ExtentFacts, LenProperties DEF SpanTypes
<1>5. /\ Start' = Start /\ NumExtents' = NumExtents /\ totalSize' = totalSize
      /\ read' = read + n /\ curOff' = curOff + n
      /\ ExtentsOK'
  BY <1>4, StartsStay DEF Take, curOff, ExtentsOK
<1>6. /\ trimmed \in Nat /\ trimmed <= len /\ off + trimmed <= totalSize
      /\ want <= trimmed - read /\ want \in Nat
      /\ curOff \in Nat /\ Start[c] \in Nat /\ Start[c + 1] \in Nat
      /\ Start[c + 1] = Start[c] + extents[c].sectors
      /\ Start[c] <= curOff /\ curOff = Start[c] + w
      /\ w + want <= extents[c].sectors /\ extents[c].sectors \in Nat
      /\ totalSize \in Nat
  <2>1. /\ trimmed \in Nat /\ trimmed <= len /\ off + trimmed <= totalSize
        /\ want <= trimmed - read /\ want \in Nat
        /\ curOff \in Nat /\ Covers(Current, curOff) /\ curOff = Start[Current] + within
        /\ within + want <= extents[Current].sectors
    BY SpanFacts
  <2>2. /\ Start[c] \in Nat /\ Start[c + 1] = Start[c] + extents[c].sectors
        /\ extents[c].sectors \in Nat /\ totalSize \in Nat
    <3>1. c \in 1 .. NumExtents + 1
      BY <1>4
    <3> QED
      BY <1>4, <3>1, StartFacts, ExtentFacts
  <2>3. Start[c] <= curOff
    BY <1>1, <2>1 DEF Covers
  <2>4. curOff = Start[c] + w /\ w + want <= extents[c].sectors
    BY <1>1, <1>2, <2>1
  <2>5. Start[c + 1] \in Nat
    BY <2>2
  <2> QED
    BY <2>1, <2>2, <2>3, <2>4, <2>5
<1>7. n <= want /\ read + n <= trimmed
  <2>1. n <= g /\ g <= want
    BY <1>3
  <2>2. want \in Nat /\ trimmed \in Nat /\ read \in Nat /\ want <= trimmed - read
    BY <1>4, <1>6
  <2> QED
    BY <2>1, <2>2
<1>8. p' = [i \in 1 .. Len(p) |-> IF i \in read + 1 .. read + n
                                  THEN <<c, w + i - 1 - read>> ELSE p[i]]
  <2>1. DOMAIN p = 1 .. Len(p)
    BY <1>4
  <2> QED
    BY <1>1, <1>2, <2>1 DEF Take, Sector
<1>9. p' \in Seq(Sectors) /\ Len(p') = Len(p)
  <2>1. ASSUME NEW i \in 1 .. Len(p)
        PROVE  (IF i \in read + 1 .. read + n THEN <<c, w + i - 1 - read>> ELSE p[i]) \in Sectors
    <3>1. CASE i \in read + 1 .. read + n
      BY <1>4, <3>1 DEF Sectors
    <3>2. CASE i \notin read + 1 .. read + n
      BY <1>4, <3>2
    <3> QED
      BY <3>1, <3>2
  <2> QED
    BY <1>4, <1>8, <2>1
<1>10. SpanTypes'
  BY <1>4, <1>5, <1>9 DEF SpanTypes
<1>11. ASSUME NEW k \in 1 .. read + n PROVE RightSector(k)'
  <2> SUFFICES \E i \in 1 .. NumExtents :
                 Covers(i, off + k - 1)' /\ p'[k] = <<i, off + k - 1 - Start[i]>>
    BY <1>5 DEF RightSector, Sector
  <2>1. k \in Nat /\ k >= 1 /\ k \in 1 .. Len(p)
    BY <1>4, <1>6, <1>7
  <2>2. CASE k <= read
    <3>1. RightSector(k)
      BY <2>1, <2>2, <1>4 DEF ReadOK
    <3>2. PICK i \in 1 .. NumExtents :
            Covers(i, off + k - 1) /\ p[k] = <<i, off + k - 1 - Start[i]>>
      BY <3>1 DEF RightSector, Sector
    <3>3. p'[k] = p[k]
      BY <1>4, <1>8, <2>1, <2>2
    <3>4. Covers(i, off + k - 1)'
      BY <1>5, <3>2 DEF Covers
    <3> QED
      BY <3>2, <3>3, <3>4
  <2>3. CASE k > read
    <3>1. p'[k] = <<c, w + k - 1 - read>>
      <4>1. k \in read + 1 .. read + n
        BY <1>4, <2>1, <2>3
      <4> QED
        BY <1>8, <2>1, <4>1, SMTT(30)
    <3>2. off + k - 1 - Start[c] = w + k - 1 - read
      <4>1. off \in Nat /\ read \in Nat /\ Start[c] \in Nat /\ off + read = Start[c] + w
        BY <1>4, <1>6 DEF curOff
      <4> QED
        BY <2>1, <4>1
    <3>3. off + k - 1 \in Nat /\ Start[c] <= off + k - 1 /\ off + k - 1 < Start[c + 1]
      BY <1>4, <1>6, <1>7, <2>1, <2>3 DEF curOff
    <3>4. Covers(c, off + k - 1)'
      BY <1>5, <3>3 DEF Covers
    <3> QED
      BY <3>1, <3>2, <3>4
  <2> QED
    BY <1>4, <2>1, <2>2, <2>3
<1>12. ReadOK'
  BY <1>4, <1>5, <1>6, <1>7, <1>11 DEF ReadOK
<1> QED
  BY <1>5, <1>7, <1>9, <1>10, <1>12

\* A state that differs in nothing of the read.
LEMMA SpanQuiet ==
  ASSUME SpanTypes, ReadOK, EOFAtExtentEnd, UNCHANGED spanVars
  PROVE  /\ SpanTypes' /\ ReadOK' /\ EOFAtExtentEnd'
         /\ Start' = Start /\ NumExtents' = NumExtents /\ totalSize' = totalSize
<1>1. Start' = Start /\ NumExtents' = NumExtents /\ totalSize' = totalSize
  BY StartsStay DEF spanVars
<1>2. SpanTypes'
  BY DEF SpanTypes, ExtentsOK, spanVars
<1>3. ASSUME NEW k \in 1 .. read PROVE RightSector(k)'
  BY <1>1, <1>3 DEF RightSector, ReadOK, Covers, spanVars
<1>4. ReadOK'
  BY <1>1, <1>3 DEF ReadOK, spanVars
<1>5. EOFAtExtentEnd'
  BY <1>1 DEF EOFAtExtentEnd, Intact, curOff, spanVars
<1> QED
  BY <1>1, <1>2, <1>4, <1>5

\* And in nothing of the copy.
LEMMA CopyQuiet ==
  ASSUME StreamTypes, FaithfulOK, StreamComplete, UNCHANGED streamVars,
         UNCHANGED extents, Len(p') = Len(p), len' = len, pc # "returned"
  PROVE  StreamTypes' /\ FaithfulOK' /\ StreamComplete'
<1>1. Start' = Start /\ NumExtents' = NumExtents /\ totalSize' = totalSize
  BY StartsStay
<1>2. StreamTypes'
  BY DEF StreamTypes, streamVars
<1>3. ASSUME NEW k \in 1 .. Len(out) PROVE RightOut(k)'
  BY <1>1, <1>3 DEF RightOut, FaithfulOK, Covers, streamVars
<1>4. FaithfulOK'
  BY <1>3 DEF FaithfulOK, streamVars
<1>5. StreamComplete'
  BY DEF StreamComplete, StreamTypes, streamVars
<1> QED
  BY <1>2, <1>4, <1>5

LEMMA ReadSpanStep ==
  ASSUME Inv, Reading, ReadSpan
  PROVE  Inv'
<1>1. PICK c \in 1 .. NumExtents : c = Current
  BY SpanFacts DEF Inv, ReadSpan
<1>2. PICK n \in Nat : n = Got(extents[Current], within, want)
  BY GotOfSpan, SpanFacts DEF Inv, ReadSpan
<1>3. /\ SpanTypes /\ StreamTypes /\ ReadOK /\ EOFAtExtentEnd
      /\ StreamOK /\ OutOK /\ FaithfulOK /\ StreamComplete
      /\ err = "none" /\ off < totalSize /\ read < trimmed /\ pc = "read"
      /\ UNCHANGED <<extents, off, len>> /\ UNCHANGED streamVars
  BY DEF Inv, Reading, ReadSpan
<1>4. Take(n) /\ err' = AfterRead(n, ReadErr(extents[Current], within, want))
  BY <1>2 DEF ReadSpan
<1>5. err' \in {"none", "eof"}
  BY <1>4 DEF AfterRead
<1>6. /\ SpanTypes' /\ ReadOK' /\ Len(p') = Len(p)
      /\ Start' = Start /\ NumExtents' = NumExtents /\ totalSize' = totalSize
      /\ read' = read + n /\ read' <= trimmed
      /\ curOff' = curOff + n
  BY <1>2, <1>3, <1>4, <1>5, TakeKeeps
<1>7. StreamTypes' /\ FaithfulOK' /\ StreamComplete'
  BY <1>3, <1>6, CopyQuiet
<1>8. /\ off \in Nat /\ read \in Nat /\ curOff \in Nat /\ ExtentsOK
      /\ Start[c] \in Nat /\ Start[c + 1] = Start[c] + extents[c].sectors
      /\ extents[c].sectors \in Nat /\ extents[c].has \in Nat
  <2>1. off \in Nat /\ read \in Nat /\ ExtentsOK
    BY <1>3 DEF SpanTypes
  <2>2. curOff \in Nat
    BY <2>1 DEF curOff
  <2>3. /\ Start[c] \in Nat /\ Start[c + 1] = Start[c] + extents[c].sectors
        /\ extents[c].sectors \in Nat /\ extents[c].has \in Nat
    <3>1. c \in 1 .. NumExtents + 1
      BY <2>1, ExtentFacts
    <3> QED
      BY <2>1, <3>1, StartFacts, ExtentFacts
  <2> QED
    BY <2>1, <2>2, <2>3
<1>9. PICK w \in Nat : w = within /\ curOff = Start[c] + w
  BY <1>1, <1>3, SpanFacts
<1>10. EOFAtExtentEnd'
  <2> SUFFICES ASSUME Intact, err' = "eof"
               PROVE  extents[c].kind # "sparse" /\ curOff' = Start[c + 1]
    BY <1>3, <1>6 DEF EOFAtExtentEnd, Intact, NumExtents
  <2>1. extents[c].has >= extents[c].sectors
    BY DEF Intact, NumExtents
  <2>2. n = want /\ want >= 1
    BY <1>1, <1>2, <1>3, <2>1, GotOfSpan, SpanFacts
  <2>3. ReadErr(extents[Current], within, want) = "eof"
    BY <1>4, <2>2, SpanFacts DEF AfterRead
  <2>4. extents[c].kind # "sparse" /\ w + n = extents[c].sectors
    BY <1>1, <1>3, <1>9, <2>1, <2>2, <2>3, GotOfSpan
  <2> QED
    BY <1>6, <1>8, <1>9, <2>4
<1>11. StreamOK'
  <2> SUFFICES ASSUME chunkSize > 0
               PROVE  /\ Reachable(off + read)'
                      /\ err' = "eof" /\ read' = 0 => Exhausted(off)'
    BY <1>3, <1>6 DEF StreamOK, streamVars
  <2>1. Reachable(curOff)
    BY <1>3 DEF StreamOK, curOff
  <2>2. Reachable(curOff + n)
    BY <1>2, <1>3, <2>1, StillReachable
  <2>3. off' + read' = curOff + n
    BY <1>3, <1>6 DEF curOff
  <2>4. Reachable(off + read)'
    BY <1>3, <1>6, <2>2, <2>3 DEF Reachable, Covers
  <2>5. ASSUME read' = 0 PROVE Exhausted(off)'
    <3>1. n = 0 /\ read = 0
      BY <1>6, <1>8, <2>5
    <3>2. w >= extents[c].has
      BY <1>1, <1>2, <1>3, <1>9, <3>1, GotOfSpan
    <3>3. curOff = off
      BY <1>8, <3>1 DEF curOff
    <3>4. Covers(c, off) /\ off >= Start[c] + extents[c].has
      BY <1>1, <1>3, <1>8, <1>9, <3>2, <3>3, SpanFacts
    <3> QED
      BY <1>3, <1>6, <3>4 DEF Exhausted, Covers
  <2> QED
    BY <2>4, <2>5
<1>12. OutOK'
  BY <1>3 DEF OutOK, streamVars
<1> QED
  BY <1>6, <1>7, <1>10, <1>11, <1>12 DEF Inv

\* The request is past the end of the image, or has come to its own end.
LEMMA ReadEndsStep ==
  ASSUME Inv, Reading, PastEnd \/ Return
  PROVE  Inv'
<1>1. /\ SpanTypes /\ StreamTypes /\ ReadOK /\ EOFAtExtentEnd
      /\ StreamOK /\ OutOK /\ FaithfulOK /\ StreamComplete
      /\ err = "none" /\ pc = "read"
      /\ UNCHANGED <<extents, off, len, p, read>> /\ UNCHANGED streamVars
  BY DEF Inv, Reading, PastEnd, Return
<1>2. /\ off \in Nat /\ len \in Nat /\ read \in Nat /\ totalSize \in Nat
      /\ len > 0 /\ read <= len
  BY <1>1, StartFacts DEF SpanTypes, StreamTypes, ReadOK
<1>3. PastEnd => err' = "eof" /\ off >= totalSize
  BY DEF PastEnd
<1>4. Return => /\ off < totalSize /\ read >= trimmed
                /\ err' = IF trimmed = len THEN "nil" ELSE "eof"
  BY DEF Return
<1>5. off < totalSize => /\ trimmed \in Nat /\ trimmed > 0 /\ trimmed <= len
                         /\ trimmed # len => off + len > totalSize
  BY <1>2 DEF trimmed, Least
<1>6. err' \in {"nil", "eof"}
  BY <1>3, <1>4
<1>7. Start' = Start /\ NumExtents' = NumExtents /\ totalSize' = totalSize
  BY <1>1, StartsStay
<1>8. SpanTypes'
  BY <1>1, <1>6 DEF SpanTypes, ExtentsOK
<1>9. ReadOK'
  <2>1. ASSUME NEW k \in 1 .. read PROVE RightSector(k)'
    BY <1>1, <1>7, <2>1 DEF RightSector, ReadOK, Covers
  <2>2. err' = "nil" => read = len
    BY <1>2, <1>3, <1>4, <1>5
  <2> QED
    BY <1>1, <1>7, <2>1, <2>2 DEF ReadOK
<1>10. err' = "eof" => off + len > totalSize
  BY <1>2, <1>3, <1>4, <1>5
<1>11. EOFAtExtentEnd'
  BY <1>1, <1>7, <1>10 DEF EOFAtExtentEnd
<1>12. StreamTypes' /\ FaithfulOK' /\ StreamComplete'
  BY <1>1, CopyQuiet
<1>13. StreamOK'
  <2> SUFFICES ASSUME chunkSize > 0
               PROVE  Reachable(off + read)' /\ read' # 0
    BY <1>1, <1>7 DEF StreamOK, streamVars
  <2>1. Reachable(off + read)'
    BY <1>1, <1>7 DEF StreamOK, Reachable, Covers
  <2>2. off < totalSize
    BY <1>1, <1>2 DEF StreamOK
  <2>3. read >= trimmed
    BY <1>2, <1>3, <1>4, <2>2
  <2> QED
    BY <1>1, <1>2, <1>5, <2>1, <2>2, <2>3
<1>14. OutOK'
  BY <1>1 DEF OutOK, streamVars
<1> QED
  BY <1>8, <1>9, <1>11, <1>12, <1>13, <1>14 DEF Inv

LEMMA ReadBreaksStep ==
  ASSUME Inv, ReadBreaks
  PROVE  Inv'
<1>1. /\ SpanTypes /\ StreamTypes /\ ReadOK /\ EOFAtExtentEnd
      /\ StreamOK /\ OutOK /\ FaithfulOK /\ StreamComplete
      /\ err = "none" /\ off < totalSize /\ read < trimmed /\ pc = "read"
      /\ UNCHANGED <<extents, off, len>> /\ UNCHANGED streamVars /\ err' = "error"
  BY DEF Inv, ReadBreaks, ExtentFails
<1>2. PICK n \in Nat : n <= Got(extents[Current], within, want) /\ Take(n)
  <2>1. PICK g \in Nat : g = Got(extents[Current], within, want)
    BY <1>1, GotOfSpan, SpanFacts
  <2> QED
    BY <2>1 DEF ReadBreaks, ExtentFails
<1>3. /\ SpanTypes' /\ ReadOK' /\ Len(p') = Len(p)
      /\ Start' = Start /\ NumExtents' = NumExtents /\ totalSize' = totalSize
      /\ read' = read + n /\ curOff' = curOff + n
  BY <1>1, <1>2, TakeKeeps
<1>4. StreamTypes' /\ FaithfulOK' /\ StreamComplete'
  BY <1>1, <1>3, CopyQuiet
<1>5. EOFAtExtentEnd'
  BY <1>1 DEF EOFAtExtentEnd
<1>6. StreamOK'
  <2> SUFFICES ASSUME chunkSize > 0 PROVE Reachable(off + read)'
    BY <1>1, <1>3 DEF StreamOK, streamVars
  <2>1. Reachable(curOff)
    BY <1>1 DEF StreamOK, curOff
  <2>2. Reachable(curOff + n)
    BY <1>1, <1>2, <2>1, StillReachable
  <2>3. off' + read' = curOff + n
    BY <1>1, <1>3 DEF SpanTypes, curOff
  <2> QED
    BY <1>1, <1>3, <2>2, <2>3 DEF Reachable, Covers
<1>7. OutOK'
  BY <1>1 DEF OutOK, streamVars
<1> QED
  BY <1>3, <1>4, <1>5, <1>6, <1>7 DEF Inv

-----------------------------------------------------------------------------
(* The copy.                                                               *)

\* What is said of the writer holds on while it is given nothing.
LEMMA OutQuiet ==
  ASSUME ExtentsOK, FaithfulOK, UNCHANGED <<extents, out>>
  PROVE  FaithfulOK'
<1>1. Start' = Start /\ NumExtents' = NumExtents
  BY StartsStay
<1>2. ASSUME NEW k \in 1 .. Len(out) PROVE RightOut(k)'
  BY <1>1, <1>2 DEF RightOut, FaithfulOK, Covers
<1> QED
  BY <1>2 DEF FaithfulOK

LEMMA ReadChunkStep ==
  ASSUME Inv, ReadChunk
  PROVE  Inv'
<1>1. /\ SpanTypes /\ StreamTypes /\ ReadOK
      /\ StreamOK /\ OutOK /\ FaithfulOK /\ StreamComplete
      /\ pc = "loop" /\ soff < totalSize /\ pc' = "read"
      /\ off' = soff /\ len' = Least(chunkSize, totalSize - soff)
      /\ read' = 0 /\ err' = "none"
      /\ UNCHANGED <<extents, p, chunkSize, soff, written, out, result>>
  BY DEF Inv, ReadChunk
<1>2. /\ totalSize \in Nat /\ soff \in Nat /\ chunkSize \in Nat /\ chunkSize > 0
      /\ Len(p) = chunkSize
  BY <1>1, StartFacts DEF SpanTypes, StreamTypes
<1>3. len' \in Nat /\ len' > 0 /\ len' <= Len(p)
  BY <1>1, <1>2 DEF Least
<1>4. Start' = Start /\ NumExtents' = NumExtents /\ totalSize' = totalSize
  BY <1>1, StartsStay
<1>5. SpanTypes'
  BY <1>1, <1>2, <1>3 DEF SpanTypes, ExtentsOK
<1>6. StreamTypes'
  BY <1>1, <1>3 DEF StreamTypes
<1>7. ReadOK'
  BY <1>1, <1>3 DEF ReadOK
<1>8. EOFAtExtentEnd'
  BY <1>1 DEF EOFAtExtentEnd
<1>9. StreamOK'
  <2>1. Reachable(soff)'
    BY <1>1, <1>2, <1>4 DEF StreamOK, Reachable, Covers
  <2>2. off' + read' = soff'
    BY <1>1, <1>2
  <2>3. Reachable(off + read)'
    BY <2>1, <2>2 DEF Reachable, Covers
  <2> QED
    BY <1>1, <1>2, <1>4, <2>3 DEF StreamOK
<1>10. OutOK'
  BY <1>1 DEF OutOK
<1>11. FaithfulOK'
  BY <1>1, OutQuiet DEF SpanTypes
<1>12. StreamComplete'
  BY <1>1 DEF StreamComplete, StreamTypes
<1> QED
  BY <1>5, <1>6, <1>7, <1>8, <1>9, <1>10, <1>11, <1>12 DEF Inv

\* The copy returns: with nil only at the end of the image, or where a read of
\* nothing says that an extent has ended.
LEMMA ReturnStep ==
  ASSUME Inv, StreamCancelled \/ ReadFailed \/ NothingRead \/ StreamWriteFails \/ EndOfImage
  PROVE  Inv'
<1>1. /\ SpanTypes /\ StreamTypes /\ ReadOK /\ EOFAtExtentEnd
      /\ StreamOK /\ OutOK /\ FaithfulOK /\ StreamComplete
      /\ UNCHANGED spanVars /\ UNCHANGED <<chunkSize, soff, written, out>>
      /\ pc' = "returned" /\ result' \in {"nil", "error", "cancelled"}
  BY DEF Inv, StreamCancelled, ReadFailed, NothingRead, StreamWriteFails, EndOfImage
<1>2. /\ SpanTypes' /\ ReadOK' /\ EOFAtExtentEnd'
      /\ Start' = Start /\ NumExtents' = NumExtents /\ totalSize' = totalSize
  BY <1>1, SpanQuiet
<1>3. StreamTypes'
  BY <1>1 DEF StreamTypes, spanVars
<1>4. StreamOK' /\ OutOK'
  BY <1>1, <1>2 DEF StreamOK, OutOK
<1>5. FaithfulOK'
  BY <1>1, OutQuiet DEF SpanTypes, spanVars
<1>6. StreamComplete'
  <2> SUFFICES ASSUME result' = "nil"
               PROVE  \/ Len(out) = totalSize
                      \/ \E i \in 1 .. NumExtents :
                           /\ extents[i].has < extents[i].sectors
                           /\ Len(out) = Start[i] + extents[i].has
    BY <1>1, <1>2 DEF StreamComplete, NumExtents, spanVars
  <2>1. CASE EndOfImage
    <3>1. chunkSize > 0 /\ pc = "loop" /\ soff >= totalSize /\ soff \in Nat /\ totalSize \in Nat
      BY <1>1, <2>1, StartFacts DEF EndOfImage, StreamTypes, SpanTypes
    <3>2. soff <= totalSize /\ Len(out) = soff
      BY <1>1, <3>1 DEF StreamOK, OutOK
    <3> QED
      BY <3>1, <3>2
  <2>2. CASE NothingRead
    <3>1. /\ chunkSize > 0 /\ pc = "read" /\ read = 0 /\ off = soff /\ Len(out) = soff
          /\ err \in {"nil", "eof"} /\ len > 0 /\ off \in Nat /\ ExtentsOK
      BY <1>1, <2>2 DEF NothingRead, ReadDone, EndsCopy, StreamOK, StreamTypes, SpanTypes, OutOK
    <3>2. err = "eof"
      BY <1>1, <3>1 DEF ReadOK
    <3>3. PICK i \in 1 .. NumExtents : Covers(i, off) /\ off >= Start[i] + extents[i].has
      BY <1>1, <3>1, <3>2 DEF StreamOK, Exhausted
    <3>4. off + read = off
      BY <3>1
    <3>5. Reachable(off)
      BY <1>1, <3>1, <3>4 DEF StreamOK
    <3>6. off <= Start[i] + extents[i].has
      BY <3>3, <3>5 DEF Reachable
    <3>7. /\ Start[i] \in Nat /\ Start[i + 1] = Start[i] + extents[i].sectors
          /\ extents[i].has \in Nat /\ extents[i].sectors \in Nat
      <4>1. i \in 1 .. NumExtents + 1
        BY <3>1, ExtentFacts
      <4> QED
        BY <3>1, <4>1, StartFacts, ExtentFacts
    <3> QED
      BY <3>1, <3>3, <3>6, <3>7 DEF Covers
  <2> QED
    BY <2>1, <2>2 DEF StreamCancelled, ReadFailed, StreamWriteFails
<1> QED
  BY <1>2, <1>3, <1>4, <1>5, <1>6 DEF Inv

LEMMA ChunkReadStep ==
  ASSUME Inv, ChunkRead
  PROVE  Inv'
<1>1. /\ SpanTypes /\ StreamTypes /\ ReadOK /\ EOFAtExtentEnd
      /\ StreamOK /\ OutOK /\ FaithfulOK /\ StreamComplete
      /\ pc = "read" /\ chunkSize > 0 /\ pc' = "write" /\ written' = 0
      /\ UNCHANGED spanVars /\ UNCHANGED <<chunkSize, soff, out, result>>
  BY DEF Inv, ChunkRead, ReadDone
<1>2. /\ SpanTypes' /\ ReadOK' /\ EOFAtExtentEnd'
      /\ Start' = Start /\ NumExtents' = NumExtents /\ totalSize' = totalSize
  BY <1>1, SpanQuiet
<1>3. StreamTypes'
  BY <1>1 DEF StreamTypes, spanVars
<1>4. StreamOK'
  <2>1. Reachable(off + read)'
    BY <1>1, <1>2 DEF StreamOK, Reachable, Covers, spanVars
  <2>2. read \in Nat
    BY <1>1 DEF SpanTypes
  <2> QED
    BY <1>1, <1>2, <2>1, <2>2 DEF StreamOK, spanVars
<1>5. OutOK'
  BY <1>1 DEF OutOK, StreamTypes
<1>6. FaithfulOK'
  BY <1>1, OutQuiet DEF SpanTypes, spanVars
<1>7. StreamComplete'
  BY <1>1 DEF StreamComplete, StreamTypes
<1> QED
  BY <1>2, <1>3, <1>4, <1>5, <1>6, <1>7 DEF Inv

\* The writer takes n more sectors, the next ones of the chunk.
LEMMA WriteSomeStep ==
  ASSUME Inv, WriteSome
  PROVE  Inv'
<1>1. /\ SpanTypes /\ StreamTypes /\ ReadOK /\ EOFAtExtentEnd
      /\ StreamOK /\ OutOK /\ FaithfulOK /\ StreamComplete
      /\ pc = "write" /\ written < read
      /\ UNCHANGED spanVars /\ UNCHANGED <<chunkSize, pc, soff, result>>
  BY DEF Inv, WriteSome
<1>2. PICK n \in 1 .. read - written : out' = out \o Pending(n) /\ written' = written + n
  BY DEF WriteSome
<1>3. /\ written \in Nat /\ read \in Nat /\ n \in Nat /\ n >= 1 /\ written + n <= read
      /\ chunkSize > 0 /\ soff \in Nat /\ off = soff
      /\ p \in Seq(Sectors) /\ Len(p) \in Nat /\ read <= Len(p)
      /\ out \in Seq(Sectors) /\ Len(out) \in Nat /\ Len(out) = soff + written
  <2>1. /\ written \in Nat /\ read \in Nat /\ len \in Nat /\ chunkSize > 0 /\ soff \in Nat
        /\ p \in Seq(Sectors) /\ Len(p) \in Nat /\ len <= Len(p) /\ read <= len
        /\ out \in Seq(Sectors) /\ Len(out) \in Nat
    BY <1>1 DEF SpanTypes, StreamTypes, ReadOK
  <2>2. off = soff /\ Len(out) = soff + written
    BY <1>1, <2>1 DEF StreamOK, OutOK
  <2>3. n \in Nat /\ n >= 1 /\ written + n <= read
    BY <1>1, <2>1
  <2> QED
    BY <2>1, <2>2, <2>3
<1> DEFINE taken == Pending(n)
<1>4. /\ taken \in Seq(Sectors) /\ Len(taken) = n
      /\ \A j \in 1 .. n : taken[j] = p[written + j]
  <2>1. written + 1 \in 1 .. Len(p) + 1 /\ written + n \in (written + 1) - 1 .. Len(p)
    BY <1>3
  <2>2. /\ SubSeq(p, written + 1, written + n) \in Seq(Sectors)
        /\ Len(SubSeq(p, written + 1, written + n)) = (written + n) - (written + 1) + 1
        /\ \A j \in 1 .. (written + n) - (written + 1) + 1 :
             SubSeq(p, written + 1, written + n)[j] = p[(written + 1) + j - 1]
    <3>1. written + 1 <= written + n + 1
      BY <1>3
    <3> QED
      BY <1>3, <2>1, <3>1, SubSeqProperties
  <2>3. (written + n) - (written + 1) + 1 = n
    BY <1>3
  <2>4. \A j \in 1 .. n : (written + 1) + j - 1 = written + j
    BY <1>3
  <2> QED
    BY <2>2, <2>3, <2>4 DEF Pending
<1> HIDE DEF taken
<1>5. /\ out' \in Seq(Sectors) /\ Len(out') = Len(out) + n
      /\ \A k \in 1 .. Len(out) : out'[k] = out[k]
      /\ \A k \in Len(out) + 1 .. Len(out) + n : out'[k] = taken[k - Len(out)]
  <2>1. out' = out \o taken
    BY <1>2 DEF taken
  <2>2. \A k \in 1 .. Len(out) + n :
          out'[k] = IF k <= Len(out) THEN out[k] ELSE taken[k - Len(out)]
    BY <1>3, <1>4, <2>1, ConcatProperties
  <2>3. out' \in Seq(Sectors) /\ Len(out') = Len(out) + n
    BY <1>3, <1>4, <2>1, ConcatProperties
  <2> QED
    BY <1>3, <2>2, <2>3
<1>6. /\ SpanTypes' /\ ReadOK' /\ EOFAtExtentEnd'
      /\ Start' = Start /\ NumExtents' = NumExtents /\ totalSize' = totalSize
  BY <1>1, SpanQuiet
<1>7. StreamTypes'
  <2>1. written' \in Nat
    BY <1>2, <1>3
  <2> QED
    BY <1>1, <1>5, <2>1 DEF StreamTypes, spanVars
<1>8. StreamOK'
  <2>1. Reachable(off + read)'
    BY <1>1, <1>3, <1>6 DEF StreamOK, Reachable, Covers, spanVars
  <2>2. written' <= read'
    BY <1>1, <1>2, <1>3 DEF spanVars
  <2> QED
    BY <1>1, <1>3, <1>6, <2>1, <2>2 DEF StreamOK, spanVars
<1>9. OutOK'
  BY <1>1, <1>2, <1>3, <1>5 DEF OutOK
<1>10. FaithfulOK'
  <2> SUFFICES ASSUME NEW k \in 1 .. Len(out) + n PROVE RightOut(k)'
    BY <1>5 DEF FaithfulOK
  <2>1. CASE k <= Len(out)
    <3>1. k \in 1 .. Len(out)
      BY <1>3, <2>1
    <3>2. RightOut(k) /\ out'[k] = out[k]
      BY <1>1, <1>5, <3>1 DEF FaithfulOK
    <3> QED
      BY <1>6, <3>2 DEF RightOut, Covers
  <2>2. CASE k > Len(out)
    <3>1. k \in Len(out) + 1 .. Len(out) + n /\ k - Len(out) \in 1 .. n
      BY <1>3, <2>2
    <3>2. k - soff \in 1 .. read /\ written + (k - Len(out)) = k - soff
      BY <1>3, <3>1
    <3>3. out'[k] = p[k - soff]
      BY <1>4, <1>5, <3>1, <3>2
    <3>4. RightSector(k - soff)
      BY <1>1, <3>2 DEF ReadOK
    <3>5. off + (k - soff) - 1 = k - 1
      BY <1>3, <3>1
    <3>6. PICK i \in 1 .. NumExtents :
            /\ Covers(i, off + (k - soff) - 1)
            /\ p[k - soff] = Sector(i, off + ((k - soff) - 1 - Start[i]))
      BY <3>4 DEF RightSector
    <3>7. Start[i] \in Nat
      <4>1. ExtentsOK /\ i \in 1 .. NumExtents + 1
        BY <1>1, ExtentFacts DEF SpanTypes
      <4> QED
        BY <4>1, StartFacts
    <3>8. off + ((k - soff) - 1 - Start[i]) = k - 1 - Start[i]
      BY <1>3, <3>1, <3>7
    <3>9. Covers(i, k - 1) /\ p[k - soff] = Sector(i, k - 1 - Start[i])
      BY <3>5, <3>6, <3>8
    <3> QED
      BY <1>6, <3>3, <3>9 DEF RightOut, Covers, Sector
  <2> QED
    BY <1>3, <2>1, <2>2
<1>11. StreamComplete'
  BY <1>1 DEF StreamComplete, StreamTypes
<1> QED
  BY <1>6, <1>7, <1>8, <1>9, <1>10, <1>11 DEF Inv

LEMMA NextChunkStep ==
  ASSUME Inv, NextChunk
  PROVE  Inv'
<1>1. /\ SpanTypes /\ StreamTypes /\ ReadOK /\ EOFAtExtentEnd
      /\ StreamOK /\ OutOK /\ FaithfulOK /\ StreamComplete
      /\ pc = "write" /\ written >= read /\ pc' = "loop" /\ soff' = soff + read
      /\ UNCHANGED spanVars /\ UNCHANGED <<chunkSize, written, out, result>>
  BY DEF Inv, NextChunk, advance
<1>2. /\ SpanTypes' /\ ReadOK' /\ EOFAtExtentEnd'
      /\ Start' = Start /\ NumExtents' = NumExtents /\ totalSize' = totalSize
  BY <1>1, SpanQuiet
<1>3. /\ soff \in Nat /\ read \in Nat /\ written \in Nat /\ chunkSize > 0
      /\ totalSize \in Nat
  BY <1>1, StartFacts DEF SpanTypes, StreamTypes
<1>4. /\ off = soff /\ written <= read /\ soff <= totalSize /\ Reachable(off + read)
      /\ Len(out) = soff + written
  BY <1>1, <1>3 DEF StreamOK, OutOK
<1>5. StreamTypes'
  BY <1>1, <1>3 DEF StreamTypes, spanVars
<1>6. StreamOK'
  <2>1. soff' = off + read
    BY <1>1, <1>4
  <2>2. Reachable(soff)'
    BY <1>1, <1>2, <1>4, <2>1 DEF Reachable, Covers, spanVars
  <2>3. soff' <= totalSize
    BY <1>1, <1>3, <1>4 DEF ReadOK
  <2> QED
    BY <1>1, <1>2, <2>2, <2>3 DEF StreamOK
<1>7. OutOK'
  BY <1>1, <1>3, <1>4 DEF OutOK
<1>8. FaithfulOK'
  BY <1>1, OutQuiet DEF SpanTypes, spanVars
<1>9. StreamComplete'
  BY <1>1 DEF StreamComplete, StreamTypes
<1> QED
  BY <1>2, <1>5, <1>6, <1>7, <1>8, <1>9 DEF Inv

LEMMA Stutter ==
  ASSUME Inv, UNCHANGED vars
  PROVE  Inv'
<1>1. /\ SpanTypes /\ StreamTypes /\ ReadOK /\ EOFAtExtentEnd
      /\ StreamOK /\ OutOK /\ FaithfulOK /\ StreamComplete
      /\ UNCHANGED spanVars /\ UNCHANGED streamVars
  BY DEF Inv, vars
<1>2. /\ SpanTypes' /\ ReadOK' /\ EOFAtExtentEnd'
      /\ Start' = Start /\ NumExtents' = NumExtents /\ totalSize' = totalSize
  BY <1>1, SpanQuiet
<1>3. StreamTypes' /\ OutOK'
  BY <1>1 DEF StreamTypes, OutOK, spanVars, streamVars
<1>4. StreamOK'
  BY <1>1, <1>2 DEF StreamOK, Reachable, Exhausted, Covers, spanVars, streamVars
<1>5. FaithfulOK'
  BY <1>1, OutQuiet DEF SpanTypes, spanVars, streamVars
<1>6. StreamComplete'
  BY <1>1, <1>2 DEF StreamComplete, spanVars, streamVars
<1> QED
  BY <1>2, <1>3, <1>4, <1>5, <1>6 DEF Inv

-----------------------------------------------------------------------------

LEMMA UntouchedType ==
  ASSUME NEW n \in Nat
  PROVE  Untouched(n) \in Seq(Sectors) /\ Len(Untouched(n)) = n
BY DEF Untouched, Sectors, Sector

LEMMA InvInit == StreamInit => Inv
<1> SUFFICES ASSUME StreamInit PROVE Inv
  OBVIOUS
<1>1. ExtentsOK /\ chunkSize \in Nat
  <2>1. \E n \in 1 .. MaxExtents : extents \in [1 .. n -> Extents]
    BY DEF StreamInit, Init
  <2> QED
    BY <2>1, ChunkSizesAssumption DEF StreamInit, ExtentsOK
<1>2. /\ off \in Nat /\ len \in Nat /\ read = 0 /\ err = "none"
      /\ p \in Seq(Sectors) /\ len <= Len(p)
      /\ chunkSize > 0 => Len(p) = chunkSize /\ pc = "loop"
      /\ chunkSize = 0 => pc = "read" /\ len > 0
  <2>1. CASE chunkSize = 0
    <3>1. PICK most \in Nat : most = MaxExtents * MaxSectors
      BY BoundsAssumption
    <3>2. off \in 0 .. most /\ len \in 1 .. most + 1 /\ p = Untouched(len)
      BY <2>1, <3>1 DEF StreamInit, Init
    <3>3. off \in Nat /\ len \in Nat /\ len > 0
      BY <3>1, <3>2
    <3>4. p \in Seq(Sectors) /\ Len(p) = len
      BY <3>2, <3>3, UntouchedType
    <3> QED
      BY <2>1, <3>3, <3>4 DEF StreamInit, Init
  <2>2. CASE chunkSize # 0
    <3>1. p = Untouched(chunkSize) /\ off = 0 /\ len = 0 /\ read = 0 /\ err = "none" /\ pc = "loop"
      BY <2>2 DEF StreamInit
    <3>2. p \in Seq(Sectors) /\ Len(p) = chunkSize
      BY <1>1, <3>1, UntouchedType
    <3> QED
      BY <1>1, <2>2, <3>1, <3>2
  <2> QED
    BY <2>1, <2>2
<1>3. soff = 0 /\ written = 0 /\ out = <<>> /\ result = "none" /\ Len(out) = 0
  BY DEF StreamInit
<1>4. SpanTypes /\ ReadOK /\ EOFAtExtentEnd
  BY <1>1, <1>2 DEF SpanTypes, ReadOK, EOFAtExtentEnd
<1>5. StreamTypes
  BY <1>1, <1>2, <1>3 DEF StreamTypes
<1>6. StreamOK
  <2>1. ASSUME NEW i \in 1 .. NumExtents PROVE 0 <= Start[i] + extents[i].has
    <3>1. i \in 1 .. NumExtents + 1
      BY <1>1, ExtentFacts
    <3> QED
      BY <1>1, <3>1, StartFacts, ExtentFacts
  <2>2. Reachable(0)
    BY <2>1 DEF Reachable
  <2> QED
    BY <1>1, <1>2, <1>3, <2>2, StartFacts DEF StreamOK
<1>7. OutOK /\ FaithfulOK /\ StreamComplete
  BY <1>1, <1>2, <1>3 DEF OutOK, FaithfulOK, StreamComplete
<1> QED
  BY <1>4, <1>5, <1>6, <1>7 DEF Inv

LEMMA InvNext == Inv /\ [StreamNext]_vars => Inv'
<1> SUFFICES ASSUME Inv, [StreamNext]_vars PROVE Inv'
  OBVIOUS
<1>1. CASE ReadChunk
  BY <1>1, ReadChunkStep
<1>2. CASE Reading
  BY <1>2, ReadSpanStep, ReadEndsStep DEF Reading, ReadStep
<1>3. CASE ReadFailed \/ NothingRead \/ EndOfImage \/ StreamCancelled \/ StreamWriteFails
  BY <1>3, ReturnStep
<1>4. CASE ChunkRead
  BY <1>4, ChunkReadStep
<1>5. CASE WriteSome
  BY <1>5, WriteSomeStep
<1>6. CASE NextChunk
  BY <1>6, NextChunkStep
<1>7. CASE ReadBreaks
  BY <1>7, ReadBreaksStep
<1>8. CASE Terminated \/ UNCHANGED vars
  BY <1>8, Stutter DEF Terminated
<1> QED
  BY <1>1, <1>2, <1>3, <1>4, <1>5, <1>6, <1>7, <1>8 DEF StreamNext, StreamStep

\* The invariant holds of every behaviour of the raw stream, and of a ReadAt of
\* its own: readAcrossSpans and ConvertToRawWriter keep each part of it.
LEMMA InvHolds == StreamSpec => []Inv
BY InvInit, InvNext, PTL DEF StreamSpec

-----------------------------------------------------------------------------

\* Whatever the extents of the descriptor hold, every sector that
\* readAcrossSpans has read is the one the descriptor puts there, no error means
\* that the buffer is full, and of extents that hold what they should io.EOF in
\* the middle of the image comes only from the end of one that is not sparse.
THEOREM SpansAreRight == StreamSpec => []SpansContract
<1>1. Inv => SpansContract
  <2> SUFFICES ASSUME Inv PROVE SpansContract
    OBVIOUS
  <2>1. ExtentsOK /\ off \in Nat /\ read \in Nat /\ NumExtents \in Nat
    BY ExtentFacts DEF Inv, SpanTypes
  <2>2. ASSUME NEW k \in 1 .. read
        PROVE  \E i \in 1 .. Len(extents) :
                 /\ off + k - 1 \in Start[i] .. Start[i + 1] - 1
                 /\ p[k] = Sector(i, off + k - 1 - Start[i])
    <3>1. PICK i \in 1 .. NumExtents :
            Covers(i, off + k - 1) /\ p[k] = Sector(i, off + k - 1 - Start[i])
      BY DEF Inv, ReadOK, RightSector
    <3>2. Start[i] \in Nat /\ Start[i + 1] \in Nat /\ off + k - 1 \in Nat
      BY <2>1, StartFacts
    <3>3. off + k - 1 \in Start[i] .. Start[i + 1] - 1
      BY <3>1, <3>2 DEF Covers
    <3> QED
      BY <3>1, <3>3 DEF NumExtents
  <2> QED
    BY <2>2 DEF Inv, ReadOK, SpansContract, RightSectors
<1> QED
  BY <1>1, InvHolds, PTL

\* Whatever is read or written short, and however the copy of ConvertToRawWriter
\* ends, what the io.Writer took is the start of the image, sector for sector.
THEOREM StreamIsFaithful == StreamSpec => []StreamFaithful
<1>1. Inv => StreamFaithful
  <2> SUFFICES ASSUME Inv, NEW k \in 1 .. Len(out)
               PROVE  \E i \in 1 .. Len(extents) :
                        /\ k - 1 \in Start[i] .. Start[i + 1] - 1
                        /\ out[k] = Sector(i, k - 1 - Start[i])
    BY DEF StreamFaithful
  <2>1. ExtentsOK /\ NumExtents \in Nat /\ Len(out) \in Nat
    BY ExtentFacts DEF Inv, SpanTypes, StreamTypes
  <2>2. PICK i \in 1 .. NumExtents : Covers(i, k - 1) /\ out[k] = Sector(i, k - 1 - Start[i])
    BY DEF Inv, FaithfulOK, RightOut
  <2>3. Start[i] \in Nat /\ Start[i + 1] \in Nat /\ k - 1 \in Nat
    BY <2>1, StartFacts
  <2>4. k - 1 \in Start[i] .. Start[i + 1] - 1
    BY <2>2, <2>3 DEF Covers
  <2> QED
    BY <2>2, <2>4 DEF NumExtents
<1> QED
  BY <1>1, InvHolds, PTL

\* A ConvertToRawWriter that returns no error has written the whole image, or
\* stopped where an extent holds less than its line says: io.EOF at the end of an
\* extent does not end the copy.
THEOREM StreamIsComplete == StreamSpec => []StreamComplete
<1>1. Inv => StreamComplete
  BY DEF Inv
<1> QED
  BY <1>1, InvHolds, PTL

-----------------------------------------------------------------------------
(* Stream-optimized files: their own specification, on a state of its     *)
(* own.                                                                    *)

Markers   == Data \union Meta
NumEvents == Len(events)
IsData(k) == events[k].marker.kind = "data"

\* Where the sectors of a payload end.
EndOf(k) == events[k].off + ceilDiv(1 + events[k].marker.payload.size, SectorUnits)

\* The events so far: each lies behind the payloads of those before it.
EventsOK ==
  /\ fileSize \in FileSizes /\ scanned \in Nat
  /\ events \in Seq([marker : Markers, off : Nat])
  /\ \A k \in 1 .. NumEvents :
       /\ events[k].off <= scanned
       /\ IsData(k) => EndOf(k) <= scanned /\ EndOf(k) <= fileSize
  /\ \A j, k \in 1 .. NumEvents : j < k /\ IsData(j) => EndOf(j) <= events[k].off
  /\ phase = "scan" => \A k \in 1 .. NumEvents : events[k].marker.kind # "eos"
  /\ phase \in {"build", "open", "read", "returned"} =>
       \A k \in 1 .. NumEvents : events[k].marker.kind = "eos" <=> k = NumEvents

\* m leads from every grain of the first n events to the last of its events.
Latest(m, n) ==
  /\ \A g \in DOMAIN m : m[g] \in 1 .. n /\ Aligned(m[g]) /\ GrainOf(m[g]) = g
  /\ \A j \in 1 .. n : Aligned(j) => /\ GrainOf(j) \in DOMAIN m
                                        /\ j <= m[GrainOf(j)]

Values == Nat \X Nat \X {"zero", "deflated", "stored"}

StreamReadOK ==
  /\ buffer \in Seq(Values) /\ pOff \in Nat
  /\ given \in 0 .. Len(buffer)
  /\ \A i \in 1 .. given : Shows(pOff + i - 1, buffer[i])
  /\ phase = "read" => failure = "none"
  /\ phase = "returned" =>
       \/ failure \in {"nil", "eof"} /\ given = Len(buffer)
       \/ /\ failure = "error" /\ grainIdx \in DOMAIN grains
          /\ Decode(events[grains[grainIdx]].marker.payload) = "error"

StreamInv ==
  /\ phase \in {"scan", "build", "open", "read", "returned", "refused"}
  /\ EventsOK
  /\ phase \in {"open", "read", "returned"} => Latest(grains, NumEvents)
  /\ phase \in {"read", "returned"} => StreamReadOK

\* A quotient and its remainder.
LEMMA DivMod ==
  ASSUME NEW x \in Nat, NEW c \in Nat \ {0}
  PROVE  x \div c \in Nat /\ x % c \in 0 .. c - 1 /\ x = c * (x \div c) + (x % c)
BY Z3

\* A number has one quotient and one remainder.
LEMMA QuotientIs ==
  ASSUME NEW c \in Nat \ {0}, NEW q \in Nat, NEW d \in Nat,
         NEW r \in 0 .. c - 1, NEW m \in 0 .. c - 1, c * q + r = c * d + m
  PROVE  q = d /\ r = m
<1>1. ASSUME NEW x \in Nat, NEW y \in Nat, x < y PROVE c * x + c <= c * y
  <2>1. PICK z \in Nat : z = y - x - 1
    BY <1>1
  <2>2. y = x + z + 1 /\ c * z \in Nat
    BY <1>1, <2>1, Z3
  <2>3. c * y = c * x + c * z + c
    BY <2>2, Z3
  <2> QED
    BY <2>2, <2>3, Z3
<1>2. c * q \in Nat /\ c * d \in Nat
  BY Z3
<1>3. ~(q < d) /\ ~(d < q)
  BY <1>1, <1>2
<1>4. q = d
  BY <1>3
<1> QED
  BY <1>2, <1>4

\* A step inside of a grain.
LEMMA SameGrain ==
  ASSUME NEW c \in Nat \ {0}, NEW w \in Nat, NEW k \in Nat, k < c - (w % c)
  PROVE  (w + k) \div c = w \div c /\ (w + k) % c = (w % c) + k
<1> DEFINE q == w \div c
           r == w % c
           d == (w + k) \div c
           m == (w + k) % c
<1>1. q \in Nat /\ r \in 0 .. c - 1 /\ w = c * q + r
  BY DivMod
<1>2. r + k \in 0 .. c - 1 /\ w + k \in Nat
  BY <1>1
<1>3. d \in Nat /\ m \in 0 .. c - 1 /\ w + k = c * d + m
  BY <1>2, DivMod
<1>4. c * q \in Nat /\ c * d \in Nat
  BY <1>1, <1>3, Z3
<1> HIDE DEF q, r, d, m
<1>5. c * q + (r + k) = c * d + m
  BY <1>1, <1>3, <1>4
<1>6. q = d /\ r + k = m
  BY <1>1, <1>2, <1>3, <1>5, QuotientIs
<1> QED
  BY <1>6 DEF q, r, d, m

LEMMA PayloadFacts ==
  ASSUME NEW m \in Markers
  PROVE  /\ m.kind = "data" =>
              /\ m \in Data /\ m.payload \in Payloads /\ m.lba \in Nat
              /\ m.payload.size \in Nat \ {0}
         /\ m.kind # "data" => m \in Meta /\ m.count \in Nat
         /\ GrainSectors \in Nat \ {0} /\ SectorUnits \in Nat \ {0} /\ Capacity \in Nat
<1>1. /\ "data" \notin Types /\ Counts \subseteq 0 .. Wrap - 1 /\ Lbas \subseteq Nat /\ Wrap \in Nat
      /\ GrainSectors \in Nat \ {0} /\ SectorUnits \in Nat \ {0} /\ Capacity \in Nat
  BY StreamAssumption
<1>2. \A pl \in Payloads : pl.size \in Nat \ {0}
  BY PayloadsAssumption
<1>3. CASE m \in Data
  <2>1. m.kind = "data" /\ m.payload \in Payloads /\ m.lba \in Lbas
    BY <1>3 DEF Data
  <2> QED
    BY <1>1, <1>2, <1>3, <2>1
<1>4. CASE m \in Meta
  <2>1. m.kind \in Types /\ m.count \in Counts
    BY <1>4 DEF Meta
  <2>2. m.kind # "data"
    BY <1>1, <2>1
  <2>3. m.count \in Nat
    <3>1. m.count \in 0 .. Wrap - 1
      BY <1>1, <2>1
    <3> QED
      BY <1>1, <3>1
  <2> QED
    BY <1>1, <1>4, <2>2, <2>3
<1> QED
  BY <1>3, <1>4 DEF Markers

\* A payload takes one sector more than its own units fill.
LEMMA SectorsOfPayload ==
  ASSUME NEW n \in Nat
  PROVE  /\ n \div SectorUnits \in Nat
         /\ ceilDiv(1 + n, SectorUnits) = (n \div SectorUnits) + 1
         /\ ceilDiv(1 + n, SectorUnits) \in Nat
<1>1. SectorUnits \in Nat \ {0}
  BY StreamAssumption
<1> DEFINE q == n \div SectorUnits
           r == n % SectorUnits
           x == n + SectorUnits
           d == x \div SectorUnits
           m == x % SectorUnits
<1>2. q \in Nat /\ r \in 0 .. SectorUnits - 1 /\ n = SectorUnits * q + r
  BY <1>1, DivMod
<1>3. x \in Nat
  BY <1>1
<1>4. d \in Nat /\ m \in 0 .. SectorUnits - 1 /\ x = SectorUnits * d + m
  <2> HIDE DEF x
  <2> QED
    BY <1>1, <1>3, DivMod
<1> HIDE DEF q, r, d, m
<1>5. /\ SectorUnits * q \in Nat /\ SectorUnits * d \in Nat
      /\ SectorUnits * (q + 1) = SectorUnits * q + SectorUnits
  BY <1>1, <1>2, <1>4, Z3
<1>6. SectorUnits * (q + 1) + r = SectorUnits * d + m
  BY <1>1, <1>2, <1>4, <1>5
<1>7. d = q + 1
  BY <1>1, <1>2, <1>4, <1>6, QuotientIs
<1>8. ceilDiv(1 + n, SectorUnits) = d
  <2>1. (1 + n) + SectorUnits - 1 = x
    BY <1>1
  <2> QED
    BY <2>1 DEF ceilDiv, d
<1> QED
  BY <1>2, <1>7, <1>8 DEF q

-----------------------------------------------------------------------------

\* The marker that is read next lies behind all that was read, and moves the
\* scan behind its own payload.
LEMMA MarkerScans ==
  ASSUME EventsOK, Marker
  PROVE  EventsOK'
<1>1. PICK m \in Markers :
        /\ phase = "scan" /\ Advance(m) >= scanned /\ Advance(m) <= fileSize
        /\ events' = Append(events, [marker |-> m, off |-> scanned])
        /\ scanned' = Advance(m)
        /\ phase' = IF m.kind = "eos" THEN "build" ELSE "scan"
        /\ fileSize' = fileSize
  BY DEF Marker, Markers
<1> DEFINE E == [marker : Markers, off : Nat]
           e == [marker |-> m, off |-> scanned]
<1>2. /\ scanned \in Nat /\ fileSize \in FileSizes /\ fileSize \in Nat
      /\ events \in Seq(E) /\ NumEvents \in Nat /\ e \in E
  BY LenProperties, StreamAssumption DEF EventsOK, NumEvents
<1>3. PICK n \in Nat : n = NumEvents
  BY <1>2
<1>4. /\ events' \in Seq(E) /\ NumEvents' = n + 1
      /\ events'[n + 1] = e /\ \A k \in 1 .. n : events'[k] = events[k]
  <2> HIDE DEF E, e
  <2> QED
    BY <1>1, <1>2, <1>3, AppendProperties DEF NumEvents, e
<1>5. ASSUME m.kind = "data"
      PROVE  /\ Advance(m) = scanned + ceilDiv(1 + m.payload.size, SectorUnits)
             /\ Advance(m) \in Nat
  <2>1. m.payload.size \in Nat
    BY <1>5, PayloadFacts
  <2>2. ceilDiv(1 + m.payload.size, SectorUnits) \in Nat
    <3>1. PICK b \in Nat : b = m.payload.size
      BY <2>1
    <3> QED
      BY <3>1, SectorsOfPayload
  <2> QED
    BY <1>2, <1>5, <2>2 DEF Advance
<1>6. scanned' \in Nat /\ scanned <= scanned'
  <2>1. CASE m.kind = "data"
    BY <1>1, <1>2, <1>5, <2>1
  <2>2. CASE m.kind # "data"
    <3>1. m.count \in Nat /\ Wrap \in Nat \ {0}
      <4>1. m.count \in Nat
        BY <2>2, PayloadFacts
      <4>2. Wrap \in Nat /\ 4 * fileSize < Wrap
        BY <1>2, StreamAssumption
      <4> QED
        BY <1>2, <4>1, <4>2
    <3>2. (scanned + 1 + m.count) % Wrap \in Nat
      <4>1. PICK x \in Nat : x = scanned + 1 + m.count
        BY <1>2, <3>1
      <4>2. x % Wrap \in 0 .. Wrap - 1
        BY <3>1, DivMod
      <4> QED
        BY <3>1, <4>1, <4>2
    <3>3. Advance(m) \in Int
      BY <2>2, <3>1, <3>2 DEF Advance, int64
    <3> QED
      BY <1>1, <1>2, <3>3
  <2> QED
    BY <2>1, <2>2
<1>7. ASSUME NEW k \in 1 .. n
      PROVE  /\ IsData(k)' = IsData(k) /\ EndOf(k)' = EndOf(k)
             /\ events'[k].off = events[k].off
             /\ events'[k].off \in Nat /\ events[k].off <= scanned
             /\ IsData(k) => /\ EndOf(k) \in Nat
                             /\ EndOf(k) <= scanned /\ EndOf(k) <= fileSize
  <2>1. events[k] \in E
    BY <1>2, <1>3, ElementOfSeq DEF NumEvents
  <2>2. events[k].off \in Nat /\ events[k].marker \in Markers
    BY <2>1
  <2>3. IsData(k) => ceilDiv(1 + events[k].marker.payload.size, SectorUnits) \in Nat
    <3> SUFFICES ASSUME IsData(k)
                 PROVE  ceilDiv(1 + events[k].marker.payload.size, SectorUnits) \in Nat
      OBVIOUS
    <3>1. events[k].marker.payload.size \in Nat
      BY <2>2, PayloadFacts DEF IsData
    <3>2. PICK b \in Nat : b = events[k].marker.payload.size
      BY <3>1
    <3>3. ceilDiv(1 + b, SectorUnits) \in Nat
      BY SectorsOfPayload
    <3> QED
      BY <3>2, <3>3
  <2>4. /\ IsData(k)' = IsData(k) /\ EndOf(k)' = EndOf(k)
        /\ events'[k].off = events[k].off
    BY <1>4 DEF IsData, EndOf, ceilDiv
  <2>5. IsData(k) => EndOf(k) \in Nat
    BY <2>2, <2>3 DEF EndOf
  <2> QED
    BY <1>3, <2>2, <2>4, <2>5 DEF EventsOK
<1>8. /\ events'[n + 1].off = scanned /\ events'[n + 1].marker = m
      /\ IsData(n + 1)' = (m.kind = "data")
      /\ m.kind = "data" => EndOf(n + 1)' = scanned'
  <2>1. events'[n + 1].off = scanned /\ events'[n + 1].marker = m
    BY <1>4
  <2> QED
    <3>1. IsData(n + 1)' = (m.kind = "data")
      BY <2>1 DEF IsData
    <3>2. m.kind = "data" => EndOf(n + 1)' = scanned + ceilDiv(1 + m.payload.size, SectorUnits)
      BY <2>1 DEF EndOf, ceilDiv
    <3> QED
      BY <1>1, <1>5, <2>1, <3>1, <3>2
<1>9. \A k \in 1 .. NumEvents' : k \in 1 .. n \/ k = n + 1
  BY <1>2, <1>4
<1> HIDE DEF e
<1>10. /\ scanned \in Nat /\ scanned' \in Nat /\ scanned <= scanned'
       /\ fileSize \in Nat /\ fileSize' = fileSize /\ scanned' <= fileSize
  BY <1>1, <1>2, <1>6
<1>11. ASSUME NEW k \in 1 .. NumEvents'
      PROVE  /\ events'[k].off <= scanned'
             /\ IsData(k)' => EndOf(k)' <= scanned' /\ EndOf(k)' <= fileSize'
  <2>1. CASE k \in 1 .. n
    <3>1. /\ events'[k].off = events[k].off /\ events[k].off \in Nat
          /\ events[k].off <= scanned
      BY <1>7, <2>1
    <3>2. IsData(k)' => EndOf(k)' \in Nat /\ EndOf(k)' <= scanned /\ EndOf(k)' <= fileSize
      BY <1>7, <2>1
    <3>3. IsData(k)' => EndOf(k)' <= scanned' /\ EndOf(k)' <= fileSize'
      <4> SUFFICES ASSUME IsData(k)'
                   PROVE  EndOf(k)' <= scanned' /\ EndOf(k)' <= fileSize'
        OBVIOUS
      <4>1. PICK b \in Nat : b = EndOf(k)' /\ b <= scanned /\ b <= fileSize
        BY <3>2
      <4> QED
        BY <1>10, <4>1
    <3> QED
      BY <1>10, <3>1, <3>3
  <2>2. CASE k = n + 1
    <3>1. IsData(k)' => EndOf(k)' = scanned'
      BY <1>8, <2>2
    <3>2. events'[k].off = scanned
      BY <1>8, <2>2
    <3> QED
      BY <1>10, <3>1, <3>2
  <2> QED
    BY <1>9, <2>1, <2>2
<1>12. ASSUME NEW j \in 1 .. NumEvents', NEW k \in 1 .. NumEvents', j < k, IsData(j)'
       PROVE  EndOf(j)' <= events'[k].off
  <2>1. j \in 1 .. n
    BY <1>2, <1>4, <1>12
  <2>2. CASE k \in 1 .. n
    BY <1>7, <1>3, <1>12, <2>1, <2>2 DEF EventsOK
  <2>3. CASE k = n + 1
    BY <1>7, <1>8, <1>12, <2>1, <2>3
  <2> QED
    BY <1>9, <2>2, <2>3
<1>13. \A k \in 1 .. n : events'[k].marker.kind # "eos"
  BY <1>1, <1>4, <1>3 DEF EventsOK
<1>14. /\ phase' = "scan" => \A k \in 1 .. NumEvents' : events'[k].marker.kind # "eos"
       /\ phase' \in {"build", "open", "read", "returned"} =>
            \A k \in 1 .. NumEvents' : events'[k].marker.kind = "eos" <=> k = NumEvents'
  <2>1. n + 1 \notin 1 .. n
    BY <1>2
  <2> QED
    BY <1>1, <1>4, <1>8, <1>9, <1>13, <2>1
<1>15. fileSize' \in FileSizes
  BY <1>1, <1>2
<1> QED
  BY <1>4, <1>6, <1>11, <1>12, <1>14, <1>15 DEF EventsOK

-----------------------------------------------------------------------------
(* The map of grains.                                                      *)

\* An event overwrites the one before it in its grain.
LEMMA NotedLatest ==
  ASSUME NEW m, NEW k \in 1 .. NumEvents, NumEvents \in Nat, Latest(m, k - 1)
  PROVE  Latest(IF Aligned(k) THEN Noted(m, k) ELSE m, k)
<1>1. /\ k \in Nat /\ \A j \in 1 .. k : j \in 1 .. k - 1 \/ j = k
      /\ \A j \in 1 .. k - 1 : j \in 1 .. k /\ j <= k
  OBVIOUS
<1>2. CASE ~Aligned(k)
  BY <1>1, <1>2 DEF Latest
<1>3. CASE Aligned(k)
  <2> DEFINE h == Noted(m, k)
  <2>1. /\ DOMAIN h = DOMAIN m \union {GrainOf(k)}
        /\ \A g \in DOMAIN h : h[g] = IF g = GrainOf(k) THEN k ELSE m[g]
    BY DEF Noted
  <2> HIDE DEF h
  <2>2. ASSUME NEW g \in DOMAIN h
        PROVE  h[g] \in 1 .. k /\ Aligned(h[g]) /\ GrainOf(h[g]) = g
    <3>1. CASE g = GrainOf(k)
      BY <1>1, <1>3, <2>1, <3>1
    <3>2. CASE g # GrainOf(k)
      BY <1>1, <2>1, <3>2 DEF Latest
    <3> QED
      BY <3>1, <3>2
  <2>3. ASSUME NEW j \in 1 .. k, Aligned(j)
        PROVE  GrainOf(j) \in DOMAIN h /\ j <= h[GrainOf(j)]
    <3>1. CASE GrainOf(j) = GrainOf(k)
      BY <1>1, <2>1, <3>1
    <3>2. CASE GrainOf(j) # GrainOf(k)
      BY <1>1, <2>1, <2>3, <3>2 DEF Latest
    <3> QED
      BY <3>1, <3>2
  <2>4. Latest(h, k)
    BY <2>2, <2>3 DEF Latest
  <2> QED
    BY <1>3, <2>4 DEF h
<1> QED
  BY <1>2, <1>3

\* The maps of the first events, one after the other.
GrainsUpTo(m, f) ==
  f = [k \in 0 .. m |-> IF k = 0 THEN <<>>
                        ELSE IF Aligned(k) THEN Noted(f[k - 1], k) ELSE f[k - 1]]

LEMMA GrainsExist ==
  ASSUME NEW m \in Nat
  PROVE  \E f : GrainsUpTo(m, f)
<1> DEFINE Missing == {k \in Nat : ~\E f : GrainsUpTo(k, f)}
<1> SUFFICES ASSUME Missing # {} PROVE FALSE
  OBVIOUS
<1>1. PICK k \in Missing : \A j \in Missing : k <= j
  BY LeastElement
<1>2. k # 0
  <2>1. GrainsUpTo(0, [i \in 0 .. 0 |-> <<>>])
    <3>1. \A i \in 0 .. 0 : i = 0
      OBVIOUS
    <3> QED
      BY <3>1 DEF GrainsUpTo
  <2> QED
    BY <1>1, <2>1
<1>3. k - 1 \in Nat /\ k - 1 \notin Missing
  BY <1>1, <1>2
<1>4. PICK f : GrainsUpTo(k - 1, f)
  BY <1>3
<1>5. \A i \in 0 .. k - 1 :
        f[i] = IF i = 0 THEN <<>>
               ELSE IF Aligned(i) THEN Noted(f[i - 1], i) ELSE f[i - 1]
  BY <1>4 DEF GrainsUpTo
<1> DEFINE next == IF Aligned(k) THEN Noted(f[k - 1], k) ELSE f[k - 1]
           more == [i \in 0 .. k |-> IF i = k THEN next ELSE f[i]]
<1> HIDE DEF next
<1>6. more[k] = next /\ \A i \in 0 .. k - 1 : more[i] = f[i]
  BY <1>1, <1>2
<1>7. ASSUME NEW i \in 0 .. k
      PROVE  more[i] = IF i = 0 THEN <<>>
                       ELSE IF Aligned(i) THEN Noted(more[i - 1], i) ELSE more[i - 1]
  <2>1. CASE i = k
    <3>1. more[i - 1] = f[k - 1]
      BY <1>3, <1>6, <2>1
    <3> QED
      BY <1>2, <1>6, <2>1, <3>1 DEF next
  <2>2. CASE i # k
    <3>1. i \in 0 .. k - 1 /\ (i # 0 => i - 1 \in 0 .. k - 1)
      BY <1>1, <2>2
    <3>2. more[i] = f[i] /\ (i # 0 => more[i - 1] = f[i - 1])
      BY <1>6, <3>1
    <3> QED
      BY <1>5, <3>1, <3>2
  <2> QED
    BY <2>1, <2>2
<1>8. more = [i \in 0 .. k |-> more[i]]
  OBVIOUS
<1> HIDE DEF more
<1>9. GrainsUpTo(k, more)
  BY <1>7, <1>8 DEF GrainsUpTo
<1> QED
  BY <1>1, <1>9

\* The map that is built leads to the last event of every grain.
LEMMA GrainMapLatest ==
  ASSUME NumEvents \in Nat
  PROVE  Latest(GrainMap[NumEvents], NumEvents)
<1>1. PICK f : GrainsUpTo(NumEvents, f)
  BY GrainsExist
<1>2. GrainsUpTo(NumEvents, CHOOSE g : GrainsUpTo(NumEvents, g))
  BY <1>1
<1>3. GrainMap = CHOOSE g : GrainsUpTo(NumEvents, g)
  BY DEF GrainMap, GrainsUpTo, NumEvents
<1>4. GrainsUpTo(NumEvents, GrainMap)
  BY <1>2, <1>3
<1>5. \A k \in 0 .. NumEvents :
        GrainMap[k] = IF k = 0 THEN <<>>
                         ELSE IF Aligned(k) THEN Noted(GrainMap[k - 1], k)
                                               ELSE GrainMap[k - 1]
  BY <1>4 DEF GrainsUpTo
<1> DEFINE Wrong == {k \in Nat : k <= NumEvents /\ ~Latest(GrainMap[k], k)}
<1>6. ASSUME Wrong # {} PROVE FALSE
  <2>1. PICK k \in Wrong : \A j \in Wrong : k <= j
    BY <1>6, LeastElement
  <2>2. k # 0
    <3>1. GrainMap[0] = <<>> /\ DOMAIN <<>> = {}
      BY <1>5
    <3>2. Latest(GrainMap[0], 0)
      BY <3>1 DEF Latest
    <3> QED
      BY <2>1, <3>2
  <2>3. k - 1 \in Nat /\ k - 1 <= NumEvents /\ k - 1 \notin Wrong /\ k \in 1 .. NumEvents
    BY <2>1, <2>2
  <2>4. Latest(GrainMap[k - 1], k - 1)
    BY <2>3
  <2>5. Latest(IF Aligned(k) THEN Noted(GrainMap[k - 1], k)
                                ELSE GrainMap[k - 1], k)
    BY <2>3, <2>4, NotedLatest
  <2>6. Latest(GrainMap[k], k)
    BY <1>5, <2>2, <2>3, <2>5
  <2> QED
    BY <2>1, <2>6
<1> QED
  BY <1>6

\* The payloads of the map lie in the file, one behind the other.
LEMMA WholeStream ==
  ASSUME StreamInv
  PROVE  OpenedIsWhole
<1> SUFFICES ASSUME phase \in {"open", "read", "returned"} PROVE OpenedIsWhole
  BY DEF OpenedIsWhole
<1>1. EventsOK /\ Latest(grains, NumEvents)
  BY DEF StreamInv
<1>2. \A k \in 1 .. NumEvents : events[k].marker.kind = "eos" <=> k = NumEvents
  BY <1>1 DEF EventsOK
<1>3. fileSize \in Nat /\ NumEvents \in Nat
  BY <1>1, LenProperties, StreamAssumption DEF EventsOK, NumEvents
<1>4. ASSUME NEW k \in 1 .. NumEvents, Aligned(k)
      PROVE  /\ LastOf(k) \in Nat /\ LastOf(k) < fileSize
             /\ FirstOf(k) \in Nat
             /\ \A j \in 1 .. NumEvents : k < j => LastOf(k) < FirstOf(j)
  <2>1. /\ events[k] \in [marker : Markers, off : Nat]
        /\ \A j \in 1 .. NumEvents : events[j] \in [marker : Markers, off : Nat]
    BY <1>1, ElementOfSeq DEF EventsOK, NumEvents
  <2>2. IsData(k)
    BY <1>4 DEF IsData, Aligned
  <2>3. events[k].marker \in Markers /\ events[k].off \in Nat
    BY <2>1
  <2>4. PICK b \in Nat : b = events[k].marker.payload.size
    BY <2>2, <2>3, PayloadFacts DEF IsData
  <2>5. PICK q \in Nat : q = b \div SectorUnits
    BY SectorsOfPayload
  <2>6. ceilDiv(1 + b, SectorUnits) = q + 1
    BY <2>5, SectorsOfPayload
  <2>7. LastOf(k) = events[k].off + q
    BY <2>4, <2>5 DEF LastOf
  <2>8. EndOf(k) = events[k].off + (q + 1)
    BY <2>4, <2>6 DEF EndOf
  <2>9. EndOf(k) <= fileSize /\ \A j \in 1 .. NumEvents : k < j => EndOf(k) <= events[j].off
    BY <1>1, <2>2 DEF EventsOK
  <2>10. \A j \in 1 .. NumEvents : k < j => LastOf(k) < FirstOf(j)
    <3> SUFFICES ASSUME NEW j \in 1 .. NumEvents, k < j PROVE LastOf(k) < FirstOf(j)
      OBVIOUS
    <3>1. events[j].off \in Nat /\ EndOf(k) <= events[j].off
      BY <2>1, <2>9
    <3> QED
      BY <2>3, <2>7, <2>8, <3>1 DEF FirstOf
  <2> QED
    BY <1>3, <2>3, <2>7, <2>8, <2>9, <2>10 DEF FirstOf
<1>5. ASSUME NEW g \in DOMAIN grains PROVE LastOf(grains[g]) < fileSize
  BY <1>1, <1>4 DEF Latest
<1>6. ASSUME NEW g \in DOMAIN grains, NEW h \in DOMAIN grains, g # h
      PROVE  \/ LastOf(grains[g]) < FirstOf(grains[h])
             \/ LastOf(grains[h]) < FirstOf(grains[g])
  <2>1. PICK j \in 1 .. NumEvents : j = grains[g] /\ Aligned(j) /\ GrainOf(j) = g
    BY <1>1 DEF Latest
  <2>2. PICK k \in 1 .. NumEvents : k = grains[h] /\ Aligned(k) /\ GrainOf(k) = h
    BY <1>1 DEF Latest
  <2>3. j # k
    BY <1>6, <2>1, <2>2
  <2>4. j < k \/ k < j
    BY <2>3
  <2> QED
    BY <1>4, <2>1, <2>2, <2>4
<1> QED
  BY <1>2, <1>5, <1>6 DEF OpenedIsWhole, NumEvents

-----------------------------------------------------------------------------
(* Reads of a stream.                                                      *)

\* A payload that can be told is read as it was meant.
LEMMA DecodeTells ==
  ASSUME NEW pl, pl.looks \in BOOLEAN, pl.flate \in BOOLEAN,
         pl.holds \in {"deflated", "stored"}, pl.zlib \in {"inflates", "corrupt", "no"},
         pl.size \in Nat, GrainUnits \in Nat
  PROVE  /\ Decode(pl) \in {"deflated", "stored", "error"}
         /\ Decode(pl) # "error" => Decode(pl) = pl.holds \/ Ambiguous(pl)
         /\ Decode(pl) = "error" =>
              pl.zlib = "corrupt" \/ pl.size > GrainUnits \/ Ambiguous(pl)
<1>1. CASE pl.looks
  BY <1>1 DEF Decode, Ambiguous
<1>2. CASE ~pl.looks
  BY <1>2 DEF Decode, Ambiguous
<1> QED
  BY <1>1, <1>2

\* What sector w reads as, given the map.
LEMMA SectorShows ==
  ASSUME Latest(grains, NumEvents), NumEvents \in Nat, NEW w \in Nat
  PROVE  /\ w \div GrainSectors \notin DOMAIN grains => Shows(w, Zero)
         /\ \A how :
              LET k  == grains[w \div GrainSectors]
                  pl == events[k].marker.payload
              IN  w \div GrainSectors \in DOMAIN grains /\ (how = pl.holds \/ Ambiguous(pl))
                    => Shows(w, <<k, w % GrainSectors, how>>)
<1> DEFINE g == w \div GrainSectors
<1>1. ASSUME NEW k \in Occurrences(w)
      PROVE  k \in 1 .. NumEvents /\ Aligned(k) /\ GrainOf(k) = g
  BY DEF Occurrences, NumEvents
<1>2. ASSUME g \notin DOMAIN grains PROVE Shows(w, Zero)
  <2>1. Occurrences(w) = {}
    BY <1>1, <1>2 DEF Latest
  <2> QED
    BY <2>1 DEF Shows
<1>3. ASSUME NEW how, g \in DOMAIN grains,
             how = events[grains[g]].marker.payload.holds
               \/ Ambiguous(events[grains[g]].marker.payload)
      PROVE  Shows(w, <<grains[g], w % GrainSectors, how>>)
  <2>1. PICK k \in 1 .. NumEvents : k = grains[g] /\ Aligned(k) /\ GrainOf(k) = g
    BY <1>3 DEF Latest
  <2>2. k \in Occurrences(w)
    BY <2>1 DEF Occurrences, NumEvents
  <2>3. \A j \in Occurrences(w) : j <= k
    BY <1>1, <1>3, <2>1 DEF Latest
  <2> DEFINE v == <<k, w % GrainSectors, how>>
  <2>4. v[1] = k /\ v[2] = w % GrainSectors /\ v[3] = how
    OBVIOUS
  <2> HIDE DEF v
  <2>5. Shows(w, v)
    BY <1>3, <2>1, <2>2, <2>3, <2>4 DEF Shows
  <2> QED
    BY <2>1, <2>5 DEF v
<1> QED
  BY <1>2, <1>3

\* A piece ends with the request and lies in one grain.
LEMMA GrainPiece ==
  ASSUME StreamReadOK, given < Len(buffer)
  PROVE  /\ take \in Nat \ {0} /\ given \in Nat /\ given + take <= Len(buffer)
         /\ Len(buffer) \in Nat /\ curSector \in Nat
         /\ \A i \in 1 .. take :
              /\ curSector + i - 1 \in Nat
              /\ (curSector + i - 1) \div GrainSectors = grainIdx
              /\ (curSector + i - 1) % GrainSectors = inGrain + i - 1
              /\ inGrain + i - 1 \in Nat
<1>1. /\ GrainSectors \in Nat \ {0} /\ pOff \in Nat /\ given \in Nat
      /\ given <= Len(buffer)
  BY LenProperties, StreamAssumption DEF StreamReadOK
<1>2. Len(buffer) \in Nat
  BY LenProperties DEF StreamReadOK
<1>3. PICK c \in Nat : c = curSector
  BY <1>1 DEF curSector
<1>4. PICK r \in 0 .. GrainSectors - 1 : r = c % GrainSectors
  BY <1>1, <1>3, DivMod
<1>5. PICK u \in Nat : u = take /\ u > 0 /\ given + u <= Len(buffer) /\ u <= GrainSectors - r
  <2>1. take = Smaller(Len(buffer) - given, GrainSectors - r)
    BY <1>3, <1>4 DEF take
  <2> QED
    BY <1>1, <1>2, <1>4, <2>1 DEF Smaller
<1>6. grainIdx = c \div GrainSectors /\ inGrain = r
  BY <1>3, <1>4 DEF grainIdx, inGrain
<1>7. ASSUME NEW i \in 1 .. u
      PROVE  /\ c + i - 1 \in Nat
             /\ (c + i - 1) \div GrainSectors = c \div GrainSectors
             /\ (c + i - 1) % GrainSectors = r + i - 1
             /\ r + i - 1 \in Nat
  <2>1. PICK k \in Nat : k = i - 1 /\ k < GrainSectors - r
    BY <1>1, <1>4, <1>5
  <2>2. (c + k) \div GrainSectors = c \div GrainSectors /\ (c + k) % GrainSectors = r + k
    BY <1>1, <1>4, <2>1, SameGrain
  <2>3. c + i - 1 = c + k /\ r + i - 1 = r + k
    BY <1>4, <2>1
  <2> QED
    BY <1>4, <2>1, <2>2, <2>3
<1> QED
  BY <1>1, <1>2, <1>3, <1>5, <1>6, <1>7

\* What sectors show is settled once the events are read.
LEMMA ShowsStay ==
  ASSUME events' = events, NEW w, NEW v
  PROVE  Shows(w, v)' <=> Shows(w, v)
BY DEF Shows, Occurrences, Aligned, GrainOf, Ambiguous

\* The sectors of a piece that are right are right in the buffer.
LEMMA FillKeeps ==
  ASSUME StreamReadOK, phase = "read", given < Len(buffer),
         NEW piece, Fill(piece),
         \A i \in 1 .. take :
           piece[i] \in Values /\ Shows(curSector + i - 1, piece[i])
  PROVE  StreamReadOK'
<1>1. PICK n \in Nat, g \in Nat, u \in Nat \ {0}, a \in Nat :
        /\ n = Len(buffer) /\ g = given /\ u = take /\ a = pOff /\ g + u <= n
  BY GrainPiece DEF StreamReadOK
<1>2. /\ buffer' = [i \in DOMAIN buffer |-> IF i \in g + 1 .. g + u
                                            THEN piece[i - g] ELSE buffer[i]]
      /\ given' = g + u /\ pOff' = a /\ phase' = "read" /\ failure' = failure
      /\ events' = events
  BY <1>1 DEF Fill, scanVars
<1>3. DOMAIN buffer = 1 .. n /\ \A i \in 1 .. n : buffer[i] \in Values
  BY <1>1, LenProperties, ElementOfSeq DEF StreamReadOK
<1>4. ASSUME NEW i \in g + 1 .. g + u
      PROVE  /\ i \in 1 .. n /\ buffer'[i] = piece[i - g]
             /\ piece[i - g] \in Values /\ Shows(a + i - 1, piece[i - g])
  <2>1. i - g \in 1 .. u /\ i \in 1 .. n
    BY <1>1
  <2>2. curSector + (i - g) - 1 = a + i - 1
    BY <1>1 DEF curSector
  <2>3. piece[i - g] \in Values /\ Shows(curSector + (i - g) - 1, piece[i - g])
    BY <1>1, <2>1
  <2>4. buffer'[i] = piece[i - g]
    BY <1>2, <1>3, <2>1
  <2> QED
    BY <2>1, <2>2, <2>3, <2>4
<1>5. ASSUME NEW i \in 1 .. g
      PROVE  i \in 1 .. n /\ buffer'[i] = buffer[i] /\ Shows(a + i - 1, buffer[i])
  <2>1. i \in 1 .. n /\ i \notin g + 1 .. g + u /\ i \in 1 .. given
    BY <1>1
  <2>2. buffer'[i] = buffer[i]
    BY <1>2, <1>3, <2>1
  <2>3. Shows(pOff + i - 1, buffer[i])
    BY <2>1 DEF StreamReadOK
  <2> QED
    BY <1>1, <2>1, <2>2, <2>3
<1>6. ASSUME NEW i \in 1 .. n PROVE buffer'[i] \in Values
  BY <1>2, <1>3, <1>4
<1>7. buffer' \in [1 .. n -> Values]
  BY <1>2, <1>3, <1>6
<1>8. buffer' \in Seq(Values) /\ Len(buffer') = n
  BY <1>7
<1>9. ASSUME NEW i \in 1 .. g + u PROVE Shows(pOff + i - 1, buffer[i])'
  <2>1. PICK v : v = buffer'[i]
    OBVIOUS
  <2>2. PICK w : w = a + i - 1
    OBVIOUS
  <2>3. Shows(w, v)
    <3>1. i \in 1 .. g \/ i \in g + 1 .. g + u
      BY <1>1
    <3> QED
      BY <1>4, <1>5, <2>1, <2>2, <3>1
  <2>4. Shows(w, v)'
    BY <1>2, <2>3, ShowsStay
  <2> QED
    BY <1>2, <2>1, <2>2, <2>4
<1>10. \A i \in 1 .. given' : Shows(pOff + i - 1, buffer[i])'
  BY <1>2, <1>9
<1>11. pOff' \in Nat /\ given' \in 0 .. Len(buffer')
  BY <1>1, <1>2, <1>8
<1>12. phase' = "read" /\ failure' = "none"
  BY <1>2 DEF StreamReadOK
<1> QED
  BY <1>8, <1>10, <1>11, <1>12 DEF StreamReadOK

LEMMA GrainFacts ==
  ASSUME EventsOK, Latest(grains, NumEvents),
         NEW g \in DOMAIN grains
  PROVE  LET pl == events[grains[g]].marker.payload
         IN  /\ grains[g] \in Nat
             /\ Decode(pl) \in {"deflated", "stored", "error"}
             /\ Decode(pl) # "error" => Decode(pl) = pl.holds \/ Ambiguous(pl)
             /\ Decode(pl) = "error" =>
                  pl.zlib = "corrupt" \/ pl.size > GrainUnits \/ Ambiguous(pl)
<1>1. PICK k \in 1 .. NumEvents : k = grains[g] /\ Aligned(k)
  BY DEF Latest
<1>2. NumEvents \in Nat /\ k \in Nat
  BY <1>1, LenProperties DEF EventsOK, NumEvents
<1>3. events[k] \in [marker : Markers, off : Nat]
  BY <1>1, ElementOfSeq DEF EventsOK, NumEvents
<1>4. events[k].marker \in Markers /\ events[k].marker.kind = "data"
  BY <1>1, <1>3 DEF Aligned
<1>5. PICK pl \in Payloads : pl = events[k].marker.payload
  BY <1>4, PayloadFacts
<1>6. /\ pl.looks \in BOOLEAN /\ pl.flate \in BOOLEAN /\ pl.holds \in {"deflated", "stored"}
      /\ pl.zlib \in {"inflates", "corrupt", "no"} /\ pl.size \in Nat
  BY <1>5, PayloadsAssumption
<1>7. GrainUnits \in Nat
  <2>1. GrainSectors \in Nat /\ SectorUnits \in Nat
    BY StreamAssumption
  <2> QED
    BY <2>1, Z3 DEF GrainUnits
<1>8. /\ Decode(pl) \in {"deflated", "stored", "error"}
      /\ Decode(pl) # "error" => Decode(pl) = pl.holds \/ Ambiguous(pl)
      /\ Decode(pl) = "error" =>
           pl.zlib = "corrupt" \/ pl.size > GrainUnits \/ Ambiguous(pl)
  BY <1>6, <1>7, DecodeTells
<1> QED
  BY <1>1, <1>2, <1>5, <1>8

LEMMA StreamPieceStep ==
  ASSUME StreamInv, ReadHole \/ ReadGrain
  PROVE  StreamReadOK'
<1>1. /\ phase = "read" /\ given < Len(buffer) /\ EventsOK
      /\ Latest(grains, NumEvents) /\ StreamReadOK
  BY DEF ReadHole, ReadGrain, StreamInv
<1>2. NumEvents \in Nat
  BY <1>1, LenProperties DEF EventsOK, NumEvents
<1>3. \A i \in 1 .. take :
        /\ curSector + i - 1 \in Nat
        /\ (curSector + i - 1) \div GrainSectors = grainIdx
        /\ (curSector + i - 1) % GrainSectors = inGrain + i - 1
        /\ inGrain + i - 1 \in Nat
  BY <1>1, GrainPiece
<1>4. CASE ReadHole
  <2> DEFINE piece == [i \in 1 .. take |-> Zero]
  <2>1. Fill(piece) /\ grainIdx \notin DOMAIN grains
    BY <1>4 DEF ReadHole
  <2>2. Zero \in Values
    BY DEF Zero, Values
  <2>3. ASSUME NEW i \in 1 .. take
        PROVE  piece[i] \in Values /\ Shows(curSector + i - 1, piece[i])
    <3>1. PICK w \in Nat : w = curSector + i - 1 /\ w \div GrainSectors = grainIdx
      BY <1>3
    <3>2. Shows(w, Zero)
      BY <1>1, <1>2, <2>1, <3>1, SectorShows
    <3> QED
      BY <2>2, <3>1, <3>2
  <2> HIDE DEF piece
  <2> QED
    BY <1>1, <2>1, <2>3, FillKeeps
<1>5. CASE ReadGrain
  <2>1. PICK k, how : /\ grainIdx \in DOMAIN grains /\ k = grains[grainIdx]
                      /\ how = Decode(events[k].marker.payload) /\ how # "error"
                      /\ Fill([i \in 1 .. take |-> <<k, inGrain + i - 1, how>>])
    BY <1>5 DEF ReadGrain
  <2> DEFINE piece == [i \in 1 .. take |-> <<k, inGrain + i - 1, how>>]
  <2>2. /\ k \in Nat /\ how \in {"deflated", "stored"}
        /\ how = events[k].marker.payload.holds \/ Ambiguous(events[k].marker.payload)
    BY <1>1, <2>1, GrainFacts
  <2>3. ASSUME NEW i \in 1 .. take
        PROVE  piece[i] \in Values /\ Shows(curSector + i - 1, piece[i])
    <3>1. PICK w \in Nat : /\ w = curSector + i - 1 /\ w \div GrainSectors = grainIdx
                           /\ w % GrainSectors = inGrain + i - 1
      BY <1>3
    <3>2. inGrain + i - 1 \in Nat
      BY <1>3
    <3>3. w \div GrainSectors \in DOMAIN grains /\ k = grains[w \div GrainSectors]
      BY <2>1, <3>1
    <3>4. Shows(w, <<k, w % GrainSectors, how>>)
      BY <1>1, <1>2, <2>2, <3>3, SectorShows
    <3>5. piece[i] = <<k, w % GrainSectors, how>>
      BY <3>1
    <3>6. piece[i] \in Values
      BY <2>2, <3>2 DEF Values
    <3> QED
      BY <3>1, <3>4, <3>5, <3>6
  <2>4. Fill(piece)
    BY <2>1
  <2> HIDE DEF piece
  <2> QED
    BY <1>1, <2>3, <2>4, FillKeeps
<1> QED
  BY <1>4, <1>5

\* A read begins, or ends.
LEMMA StreamCallStep ==
  ASSUME StreamInv, ReadAt \/ BadGrain \/ ReadEnds
  PROVE  StreamReadOK'
<1>1. CASE ReadAt
  <2>1. PICK o \in 0 .. Capacity, n \in 1 .. Capacity + 1 :
          /\ pOff' = o /\ buffer' = [i \in 1 .. Smaller(n, Capacity - o) |-> Zero]
          /\ given' = 0 /\ failure' = "none" /\ phase' = "read"
    BY <1>1 DEF ReadAt
  <2>2. PICK u \in Nat : u = Smaller(n, Capacity - o)
    <3>1. Capacity \in Nat
      BY StreamAssumption
    <3>2. Smaller(n, Capacity - o) \in Nat
      BY <3>1 DEF Smaller
    <3> QED
      BY <3>2
  <2>3. Zero \in Values /\ o \in Nat
    BY StreamAssumption DEF Zero, Values
  <2>4. buffer' \in [1 .. u -> Values]
    BY <2>1, <2>2, <2>3
  <2>5. buffer' \in Seq(Values) /\ Len(buffer') = u
    BY <2>4
  <2>6. given' = 0 /\ given' \in 0 .. Len(buffer') /\ 1 .. given' = {}
    BY <2>1, <2>2, <2>5
  <2>7. phase' = "read" /\ failure' = "none" /\ pOff' \in Nat
    BY <2>1, <2>3
  <2> QED
    BY <2>5, <2>6, <2>7 DEF StreamReadOK
<1>2. CASE BadGrain \/ ReadEnds
  <2>1. /\ phase = "read" /\ StreamReadOK /\ phase' = "returned"
        /\ UNCHANGED <<events, grains, buffer, pOff, given>>
    BY <1>2 DEF BadGrain, ReadEnds, Done, scanVars, StreamInv
  <2>2. \A i \in 1 .. given' : Shows(pOff + i - 1, buffer[i])'
    <3> SUFFICES ASSUME NEW i \in 1 .. given PROVE Shows(pOff + i - 1, buffer[i])'
      BY <2>1
    <3>1. PICK w, v : w = pOff + i - 1 /\ v = buffer[i]
      OBVIOUS
    <3>2. Shows(w, v)
      BY <2>1, <3>1 DEF StreamReadOK
    <3>3. Shows(w, v)'
      BY <2>1, <3>2, ShowsStay
    <3> QED
      BY <2>1, <3>1, <3>3
  <2>3. /\ buffer' \in Seq(Values) /\ pOff' \in Nat /\ given' \in 0 .. Len(buffer')
    BY <2>1 DEF StreamReadOK
  <2>4. \/ failure' \in {"nil", "eof"} /\ given' = Len(buffer')
        \/ /\ failure' = "error" /\ grainIdx' \in DOMAIN grains'
           /\ Decode(events[grains[grainIdx]].marker.payload)' = "error"
    <3>1. CASE BadGrain
      <4>1. /\ failure' = "error" /\ grainIdx \in DOMAIN grains
            /\ Decode(events[grains[grainIdx]].marker.payload) = "error"
        BY <3>1 DEF BadGrain, Done
      <4>2. grainIdx' = grainIdx
        BY <2>1 DEF grainIdx, curSector
      <4> QED
        BY <2>1, <4>1, <4>2 DEF Decode, GrainUnits
    <3>2. CASE ReadEnds
      <4>1. given >= Len(buffer) /\ failure' \in {"nil", "eof"}
        BY <3>2 DEF ReadEnds, Done
      <4>2. given \in Nat /\ Len(buffer) \in Nat /\ given <= Len(buffer)
        BY <2>1, LenProperties DEF StreamReadOK
      <4> QED
        BY <2>1, <4>1, <4>2
    <3> QED
      BY <1>2, <3>1, <3>2
  <2> QED
    BY <2>1, <2>2, <2>3, <2>4 DEF StreamReadOK
<1> QED
  BY <1>1, <1>2

LEMMA StreamInvInit ==
  ASSUME ScanInit
  PROVE  StreamInv
<1>1. phase = "scan" /\ fileSize \in FileSizes /\ events = <<>>
  BY DEF ScanInit
<1>2. scanned \in Nat
  BY StreamAssumption DEF ScanInit, Larger
<1>3. events \in Seq([marker : Markers, off : Nat]) /\ NumEvents = 0
  BY <1>1 DEF NumEvents
<1> QED
  BY <1>1, <1>2, <1>3 DEF StreamInv, EventsOK

LEMMA StreamInvNext ==
  ASSUME StreamInv, [Next]_fileVars
  PROVE  StreamInv'
<1>1. CASE OutOfFile \/ BadMarker
  <2>1. phase' = "refused" /\ UNCHANGED <<fileSize, scanned, events>>
    BY <1>1 DEF OutOfFile, BadMarker, Refuse, scanVars
  <2>2. EventsOK'
    BY <2>1 DEF StreamInv, EventsOK, NumEvents, IsData, EndOf, ceilDiv
  <2> QED
    BY <2>1, <2>2 DEF StreamInv
<1>2. CASE Marker
  <2>1. phase' \in {"scan", "build"}
    BY <1>2 DEF Marker
  <2>2. EventsOK'
    BY <1>2, MarkerScans DEF StreamInv
  <2> QED
    BY <2>1, <2>2 DEF StreamInv
<1>3. ASSUME UNCHANGED <<fileSize, scanned, events, grains>>, phase' # "scan",
             phase' \in {"open", "read", "returned"} => phase \in {"open", "read", "returned"}
      PROVE  /\ phase' \in {"open", "read", "returned"} => EventsOK'
             /\ phase' \in {"open", "read", "returned"} => Latest(grains, NumEvents)'
  BY <1>3 DEF StreamInv, EventsOK, NumEvents, IsData, EndOf, Latest, ceilDiv,
              Aligned, GrainOf
<1>4. CASE BuildGrainMap
  <2>1. /\ phase = "build" /\ phase' = "open" /\ grains' = GrainMap[NumEvents]
        /\ UNCHANGED <<fileSize, scanned, events>>
    BY <1>4 DEF BuildGrainMap, scanVars, NumEvents
  <2>2. EventsOK'
    BY <2>1 DEF StreamInv, EventsOK, NumEvents, IsData, EndOf, ceilDiv
  <2>3. NumEvents \in Nat
    BY LenProperties DEF StreamInv, EventsOK, NumEvents
  <2>4. PICK m : m = GrainMap[NumEvents] /\ Latest(m, NumEvents)
    BY <2>3, GrainMapLatest
  <2>5. Latest(grains, NumEvents)'
    BY <2>1, <2>4 DEF Latest, NumEvents, Aligned, GrainOf
  <2> QED
    BY <2>1, <2>2, <2>5 DEF StreamInv
<1>5. CASE ReadAt \/ BadGrain \/ ReadEnds
  <2>1. /\ phase \in {"open", "read"} /\ phase' \in {"read", "returned"}
        /\ UNCHANGED <<fileSize, scanned, events, grains>>
    BY <1>5 DEF ReadAt, BadGrain, ReadEnds, Done, scanVars
  <2>2. StreamReadOK'
    BY <1>5, StreamCallStep
  <2> QED
    BY <1>3, <2>1, <2>2 DEF StreamInv
<1>6. CASE ReadHole \/ ReadGrain
  <2>1. /\ phase = "read" /\ phase' = "read"
        /\ UNCHANGED <<fileSize, scanned, events, grains>>
    BY <1>6 DEF ReadHole, ReadGrain, Fill, scanVars
  <2>2. StreamReadOK'
    BY <1>6, StreamPieceStep
  <2> QED
    BY <1>3, <2>1, <2>2 DEF StreamInv
<1>7. CASE Ended \/ UNCHANGED fileVars
  <2>1. /\ UNCHANGED <<phase, fileSize, scanned, events, grains, buffer, pOff, given, failure>>
    BY <1>7 DEF Ended, fileVars, scanVars, readVars
  <2>2. EventsOK'
    BY <2>1 DEF StreamInv, EventsOK, NumEvents, IsData, EndOf, ceilDiv
  <2>3. phase' \in {"open", "read", "returned"} => Latest(grains, NumEvents)'
    BY <2>1 DEF StreamInv, NumEvents, Latest, Aligned, GrainOf
  <2>4. StreamReadOK => StreamReadOK'
    BY <2>1 DEF StreamReadOK, Shows, Occurrences, Aligned, GrainOf,
                Ambiguous, Decode, GrainUnits, grainIdx, curSector
  <2> QED
    BY <2>1, <2>2, <2>3, <2>4 DEF StreamInv
<1> QED
  BY <1>1, <1>2, <1>4, <1>5, <1>6, <1>7 DEF Next

\* A stream-optimized file that is opened was not cut, for any sizes, payloads
\* and markers: it ends with its only end-of-stream marker, and the payloads of the
\* grains lie inside of the file and share no sector.
THEOREM OpenedStreamIsWhole == Spec => []OpenedIsWhole
<1>1. ScanInit => StreamInv
  BY StreamInvInit
<1>2. StreamInv /\ [Next]_fileVars => StreamInv'
  BY StreamInvNext
<1>3. StreamInv => OpenedIsWhole
  BY WholeStream
<1> QED
  BY <1>1, <1>2, <1>3, PTL DEF Spec

\* ReadAt gives every sector from the last occurrence of its grain, for any
\* sizes, payloads and markers, and fails only where a payload is corrupt, longer
\* than a grain or cannot be told from one of the other kind.
THEOREM StreamReadsLast == Spec => []ReadsLast
<1>1. ScanInit => StreamInv
  BY StreamInvInit
<1>2. StreamInv /\ [Next]_fileVars => StreamInv'
  BY StreamInvNext
<1>3. StreamInv => ReadsLast
  <2> SUFFICES ASSUME StreamInv, phase = "returned" PROVE ReadsLast
    BY DEF ReadsLast
  <2>1. StreamReadOK /\ EventsOK /\ Latest(grains, NumEvents)
    BY DEF StreamInv
  <2>2. failure = "error" =>
          LET pl == events[grains[grainIdx]].marker.payload
          IN  pl.zlib = "corrupt" \/ pl.size > GrainUnits \/ Ambiguous(pl)
    BY <2>1, GrainFacts DEF StreamReadOK
  <2> QED
    BY <2>1, <2>2 DEF ReadsLast, StreamReadOK
<1> QED
  BY <1>1, <1>2, <1>3, PTL DEF Spec
=============================================================================
