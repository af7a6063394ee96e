-------------------------- MODULE Qcow2WriterProofs --------------------------
(***************************************************************************)
(* Proofs, for every cluster size, every virtual size and any order of the *)
(* chunks: the refcount area that Create lays out has room for a full      *)
(* image; no cluster has two uses; the file is sound whenever the program  *)
(* is killed, and holds everything, refcounts included, once Close has     *)
(* returned nil; the writer never runs out of refcounts; and Measure       *)
(* foretells what it takes.                                                *)
(***************************************************************************)
EXTENDS Measure, FiniteSetTheorems, TLAPS

-----------------------------------------------------------------------------
(* Division.                                                               *)

\* A quotient and its remainder.
LEMMA DivMod ==
  ASSUME NEW x \in Nat, NEW c \in Nat \ {0}
  PROVE  x \div c \in Nat /\ x % c \in 0 .. c - 1 /\ x = (x \div c) * c + (x % c)
<1>1. x \div c \in Nat /\ x % c \in 0 .. c - 1 /\ x = c * (x \div c) + (x % c)
  BY Z3
<1>2. \A q \in Nat : c * q = q * c
  BY Z3
<1> QED
  BY <1>1, <1>2

\* Multiples are ordered like their factors, and are apart.
LEMMA Multiples ==
  ASSUME NEW a \in Nat, NEW b \in Nat, NEW c \in Nat \ {0}
  PROVE  /\ a * c \in Nat /\ b * c \in Nat
         /\ a <= b => a * c <= b * c
         /\ a < b => a * c + c <= b * c
<1>1. a * c \in Nat /\ b * c \in Nat
  BY Z3
<1>2. ASSUME a <= b PROVE a * c <= b * c
  <2>1. PICK d \in Nat : d = b - a
    BY <1>2
  <2>2. b = a + d /\ d * c \in Nat
    BY <1>2, <2>1, Z3
  <2>3. b * c = a * c + d * c
    BY <2>2, Z3
  <2> QED
    BY <1>1, <2>2, <2>3
<1>3. ASSUME a < b PROVE a * c + c <= b * c
  <2>1. PICK d \in Nat : d = b - a - 1
    BY <1>3
  <2>2. b = a + d + 1 /\ d * c \in Nat
    BY <1>3, <2>1, Z3
  <2>3. b * c = a * c + d * c + c
    BY <2>2, Z3
  <2> QED
    BY <1>1, <2>2, <2>3
<1> QED
  BY <1>1, <1>2, <1>3

\* A number between two multiples has the smaller one's factor as quotient.
LEMMA QuotientIs ==
  ASSUME NEW x \in Nat, NEW q \in Nat, NEW c \in Nat \ {0},
         q * c <= x, x < q * c + c
  PROVE  x \div c = q /\ x % c = x - q * c
<1> DEFINE d == x \div c
<1>1. d \in Nat /\ x % c \in 0 .. c - 1 /\ x = d * c + (x % c)
  BY DivMod
<1>2. d * c \in Nat /\ q * c \in Nat
  BY <1>1, Multiples
<1> HIDE DEF d
<1>3. ~(d < q)
  BY <1>1, <1>2, Multiples
<1>4. ~(q < d)
  BY <1>1, <1>2, Multiples
<1>5. d = q
  BY <1>1, <1>3, <1>4
<1> QED
  BY <1>1, <1>2, <1>5 DEF d

\* A number below a multiple has a quotient below the factor.
LEMMA QuotientBelow ==
  ASSUME NEW x \in Nat, NEW m \in Nat, NEW c \in Nat \ {0}, x < m * c
  PROVE  x \div c < m
<1> DEFINE d == x \div c
<1>1. d \in Nat /\ x % c \in 0 .. c - 1 /\ x = d * c + (x % c)
  BY DivMod
<1>2. d * c \in Nat /\ m * c \in Nat /\ (m <= d => m * c <= d * c)
  BY <1>1, Multiples
<1> QED
  BY <1>1, <1>2

\* Rounding a division up loses nothing, and adds less than one.
LEMMA CeilDivCovers ==
  ASSUME NEW x \in Nat, NEW y \in Nat \ {0}
  PROVE  /\ ceilDiv(x, y) \in Nat /\ x <= ceilDiv(x, y) * y
         /\ \A k \in Nat : k < ceilDiv(x, y) => k * y < x
<1> DEFINE q == (x + y - 1) \div y
           m == (x + y - 1) % y
<1>1. x + y - 1 \in Nat
  OBVIOUS
<1>2. q \in Nat /\ m \in 0 .. y - 1 /\ x + y - 1 = q * y + m
  BY <1>1, DivMod
<1> HIDE DEF q, m
<1>3. q * y \in Nat
  BY <1>2, Multiples
<1>4. \A k \in Nat : k < q => k * y < x
  <2> SUFFICES ASSUME NEW k \in Nat, k < q PROVE k * y < x
    OBVIOUS
  <2>1. k * y \in Nat /\ k * y + y <= q * y
    BY <1>2, Multiples
  <2> QED
    BY <1>2, <1>3, <2>1
<1>5. x <= q * y
  BY <1>2, <1>3
<1> QED
  BY <1>2, <1>4, <1>5 DEF ceilDiv, q

-----------------------------------------------------------------------------
(* The refcount area.                                                      *)

\* Once Create is done, the number of refcount blocks is the one that its loop
\* was looking for; no later step changes it.
GeometryInv ==
  /\ size \in Nat \ {0} /\ blocks \in Nat
  /\ pc # "geometry" => newRefcountBlockCount(blocks) = blocks

\* Every part of the image takes a natural number of clusters.
LEMMA CountsAreNatural ==
  ASSUME NEW b \in Nat, size \in Nat \ {0}
  PROVE  /\ refcountTableClusters(b) \in Nat /\ l1Clusters \in Nat
         /\ l2ClustersMax \in Nat /\ dataClustersMax \in Nat
         /\ totalClustersMax(b) \in Nat
         /\ refcountBlockEntries \in Nat \ {0}
<1>1. EntriesPerL2 \in Nat \ {0} /\ EntriesPerL2 * EntriesPerL2 \in Nat \ {0}
  BY GeometryAssumption
<1>2. refcountTableClusters(b) \in Nat
  BY <1>1, CeilDivCovers DEF refcountTableClusters
<1>3. l1Size \in Nat
  BY <1>1, CeilDivCovers DEF l1Size
<1>4. l1Clusters \in Nat
  BY <1>1, <1>3, CeilDivCovers DEF l1Clusters
<1>5. dataClustersMax \in Nat
  BY <1>1, CeilDivCovers DEF dataClustersMax
<1>6. l2ClustersMax \in Nat
  BY <1>1, <1>5, CeilDivCovers DEF l2ClustersMax
<1>7. totalClustersMax(b) \in Nat
  BY <1>2, <1>4, <1>5, <1>6 DEF totalClustersMax
<1>8. refcountBlockEntries \in Nat \ {0}
  BY <1>1 DEF refcountBlockEntries
<1> QED
  BY <1>2, <1>4, <1>5, <1>6, <1>7, <1>8

LEMMA GeometryInit == Init => GeometryInv
BY GeometryAssumption DEF Init, GeometryInv

LEMMA GeometryStep == GeometryInv /\ [Next]_vars => GeometryInv'
<1> SUFFICES ASSUME GeometryInv, [Next]_vars PROVE GeometryInv'
  OBVIOUS
<1>1. CASE GrowRefcounts
  <2>1. newRefcountBlockCount(blocks) \in Nat
    BY CountsAreNatural, CeilDivCovers DEF GeometryInv, newRefcountBlockCount
  <2> QED
    BY <1>1, <2>1 DEF GrowRefcounts, GeometryInv
<1>2. CASE Format \/ CreateFails
  <2>1. size' = size /\ blocks' = blocks /\ newRefcountBlockCount(blocks) = blocks
    BY <1>2 DEF Format, CreateFails
  <2>2. newRefcountBlockCount(blocks)' = newRefcountBlockCount(blocks)
    BY <2>1 DEF newRefcountBlockCount, totalClustersMax, l1Clusters, l1Size,
                l2ClustersMax, dataClustersMax
  <2> QED
    BY <2>1, <2>2 DEF GeometryInv
<1>3. ASSUME size' = size, blocks' = blocks, pc # "geometry" \/ pc' = pc
      PROVE  GeometryInv'
  <2>1. newRefcountBlockCount(blocks)' = newRefcountBlockCount(blocks)
    BY <1>3 DEF newRefcountBlockCount, totalClustersMax, l1Clusters, l1Size,
                l2ClustersMax, dataClustersMax
  <2> QED
    BY <1>3, <2>1 DEF GeometryInv
<1>4. CASE WriteAt \/ SkipZeros \/ Returned
  BY <1>3, <1>4 DEF WriteAt, SkipZeros, Returned, tables, call
<1>5. CASE FindL2 \/ AllocCluster \/ SetRefcount \/ ZeroL2 \/ CacheL2
  BY <1>3, <1>5 DEF FindL2, AllocCluster, SetRefcount, ZeroL2, CacheL2,
                    tables, call
<1>6. CASE FindData \/ ZeroData \/ FlushL2 \/ WriteData \/ WriteFails
  BY <1>3, <1>6 DEF FindData, ZeroData, FlushL2, WriteData, WriteFails,
                    tables, call
<1>7. CASE Close \/ FlushOne \/ WriteL1 \/ Closed \/ CloseFails
  BY <1>3, <1>7 DEF Close, FlushOne, WriteL1, Closed, CloseFails, tables, call
<1>8. CASE Terminated \/ UNCHANGED vars
  BY <1>3, <1>8 DEF Terminated, vars
<1> QED
  BY <1>1, <1>2, <1>4, <1>5, <1>6, <1>7, <1>8 DEF Next, Step

\* Whatever the cluster size and the virtual size, every cluster that a full
\* image may come to use has a place in the refcount blocks that Create lays
\* out, those of the refcount table and of the blocks themselves among them.
THEOREM RefcountAreaFits == Spec => []RefcountsFit
<1>1. GeometryInv => RefcountsFit
  <2> SUFFICES ASSUME GeometryInv, pc # "geometry"
               PROVE  FirstOff + l2ClustersMax + dataClustersMax <= Capacity
    BY DEF RefcountsFit, Created
  <2>1. totalClustersMax(blocks) <= blocks * refcountBlockEntries
    BY CountsAreNatural, CeilDivCovers DEF GeometryInv, newRefcountBlockCount
  <2>2. FirstOff + l2ClustersMax + dataClustersMax = totalClustersMax(blocks)
    BY CountsAreNatural DEF GeometryInv, FirstOff, l1Start, totalClustersMax
  <2> QED
    BY <2>1, <2>2 DEF Capacity
<1> QED
  BY <1>1, GeometryInit, GeometryStep, PTL DEF Spec

-----------------------------------------------------------------------------
(* Where things are.                                                       *)

\* The areas that Create lays out: what is before the L1 table, the L1 table,
\* and the clusters left to allocate.
LEMMA Layout ==
  ASSUME size \in Nat \ {0}, blocks \in Nat
  PROVE  /\ l1Size \in Nat /\ l1Clusters \in Nat /\ l1Size <= l1Clusters * EntriesPerL2
         /\ l1Start \in Nat \ {0} /\ FirstOff = l1Start + l1Clusters
         /\ FirstOff \in Nat \ {0} /\ Capacity \in Nat
         /\ l2ClustersMax \in Nat /\ dataClustersMax \in Nat
<1>1. EntriesPerL2 \in Nat \ {0} /\ EntriesPerL2 * EntriesPerL2 \in Nat \ {0}
  BY GeometryAssumption
<1>2. l1Size \in Nat
  BY <1>1, CeilDivCovers DEF l1Size
<1>3. l1Clusters \in Nat /\ l1Size <= l1Clusters * EntriesPerL2
  BY <1>1, <1>2, CeilDivCovers DEF l1Clusters
<1>4. l1Start \in Nat \ {0} /\ l2ClustersMax \in Nat /\ dataClustersMax \in Nat
  BY CountsAreNatural DEF l1Start
<1>5. refcountBlockEntries \in Nat
  BY CountsAreNatural
<1>6. Capacity \in Nat
  BY <1>5 DEF Capacity
<1> QED
  BY <1>2, <1>3, <1>4, <1>6 DEF FirstOff

\* The geometry is fixed once the image is laid out.
LEMMA SameGeometry ==
  ASSUME size' = size, blocks' = blocks
  PROVE  /\ UNCHANGED <<Words, Chunks, l1Size, l1Clusters, l1Start, FirstOff, Capacity,
                        l2ClustersMax, dataClustersMax>>
         /\ \A k : ChunkEnd(k)' = ChunkEnd(k) /\ ChunkData(k)' = ChunkData(k)
BY DEF Words, Chunks, l1Size, l1Clusters, l1Start, FirstOff, Capacity, l2ClustersMax,
       dataClustersMax, ChunkEnd, ChunkData

\* The chunks are in the image and share no word.
LEMMA ChunkFacts ==
  ASSUME size \in Nat \ {0}, NEW k \in Chunks
  PROVE  /\ k \in Nat /\ k * ChunkWords \in Nat /\ k * ChunkWords < ChunkEnd(k)
         /\ ChunkEnd(k) \in Nat /\ ChunkEnd(k) <= size
         /\ ChunkEnd(k) <= k * ChunkWords + ChunkWords
         /\ ChunkData(k) \subseteq Words
<1>1. ChunkWords \in Nat \ {0}
  BY GeometryAssumption
<1>2. ceilDiv(size, ChunkWords) \in Nat
  BY <1>1, CeilDivCovers
<1>3. k \in Nat /\ k < ceilDiv(size, ChunkWords)
  BY <1>2 DEF Chunks
<1>4. k * ChunkWords \in Nat /\ k * ChunkWords < size
  BY <1>1, <1>3, CeilDivCovers, Multiples
<1>5. (k + 1) * ChunkWords = k * ChunkWords + ChunkWords
  BY <1>1, <1>3, Z3
<1> QED
  BY <1>1, <1>3, <1>4, <1>5 DEF ChunkEnd, Min2, ChunkData, Words

LEMMA ChunksApart ==
  ASSUME size \in Nat \ {0}, NEW k \in Chunks, NEW m \in Chunks,
         NEW w, w \in ChunkData(k), w \in ChunkData(m)
  PROVE  k = m
<1>1. /\ k \in Nat /\ k * ChunkWords \in Nat /\ m \in Nat /\ m * ChunkWords \in Nat
      /\ ChunkEnd(k) \in Nat /\ ChunkEnd(k) <= k * ChunkWords + ChunkWords
      /\ ChunkEnd(m) \in Nat /\ ChunkEnd(m) <= m * ChunkWords + ChunkWords
      /\ ChunkWords \in Nat \ {0}
  BY ChunkFacts, GeometryAssumption
<1>2. w \in Nat /\ k * ChunkWords <= w /\ w < k * ChunkWords + ChunkWords
      /\ m * ChunkWords <= w /\ w < m * ChunkWords + ChunkWords
  BY <1>1 DEF ChunkData
<1>3. w \div ChunkWords = k /\ w \div ChunkWords = m
  BY <1>1, <1>2, QuotientIs
<1> QED
  BY <1>3

\* The table and the entry of a word, and the place of the word in its cluster.
TableOf(w) == (w \div EntriesPerL2) \div EntriesPerL2
EntryOf(w) == (w \div EntriesPerL2) % EntriesPerL2
PlaceOf(w) == w % EntriesPerL2

LEMMA WordFacts ==
  ASSUME NEW w \in Nat
  PROVE  /\ w \div EntriesPerL2 \in Nat /\ TableOf(w) \in Nat
         /\ EntryOf(w) \in Entries /\ PlaceOf(w) \in Entries
         /\ w = (w \div EntriesPerL2) * EntriesPerL2 + PlaceOf(w)
         /\ w \div EntriesPerL2 = TableOf(w) * EntriesPerL2 + EntryOf(w)
<1>1. EntriesPerL2 \in Nat \ {0}
  BY GeometryAssumption
<1>2. /\ w \div EntriesPerL2 \in Nat /\ PlaceOf(w) \in 0 .. EntriesPerL2 - 1
      /\ w = (w \div EntriesPerL2) * EntriesPerL2 + PlaceOf(w)
  BY <1>1, DivMod DEF PlaceOf
<1>3. /\ TableOf(w) \in Nat /\ EntryOf(w) \in 0 .. EntriesPerL2 - 1
      /\ w \div EntriesPerL2 = TableOf(w) * EntriesPerL2 + EntryOf(w)
  BY <1>1, <1>2, DivMod DEF TableOf, EntryOf
<1> QED
  BY <1>2, <1>3 DEF Entries

\* Words of the same entry of the same table are in the same cluster.
LEMMA SameCluster ==
  ASSUME NEW v \in Nat, NEW w \in Nat, TableOf(v) = TableOf(w), EntryOf(v) = EntryOf(w)
  PROVE  v \div EntriesPerL2 = w \div EntriesPerL2
<1>1. /\ v \div EntriesPerL2 = TableOf(v) * EntriesPerL2 + EntryOf(v)
      /\ w \div EntriesPerL2 = TableOf(w) * EntriesPerL2 + EntryOf(w)
  BY WordFacts
<1> QED
  BY <1>1

\* Every word of the image has a place in the tables.
LEMMA WordsFit ==
  ASSUME size \in Nat \ {0}, NEW w \in Words
  PROVE  /\ w \in Nat /\ TableOf(w) \in 0 .. l1Size - 1
         /\ w \div EntriesPerL2 < dataClustersMax /\ TableOf(w) < l2ClustersMax
<1>1. EntriesPerL2 \in Nat \ {0} /\ EntriesPerL2 * EntriesPerL2 \in Nat \ {0}
  BY GeometryAssumption
<1>2. w \in Nat /\ w < size /\ w \div EntriesPerL2 \in Nat /\ TableOf(w) \in Nat
  BY WordFacts DEF Words
<1>3. dataClustersMax \in Nat /\ size <= dataClustersMax * EntriesPerL2
  BY <1>1, CeilDivCovers DEF dataClustersMax
<1>4. dataClustersMax * EntriesPerL2 \in Nat
  BY <1>1, <1>3, Multiples
<1>5. w \div EntriesPerL2 < dataClustersMax
  BY <1>1, <1>2, <1>3, <1>4, QuotientBelow
<1>6. l2ClustersMax \in Nat /\ dataClustersMax <= l2ClustersMax * EntriesPerL2
  BY <1>1, <1>3, CeilDivCovers DEF l2ClustersMax
<1>7. l2ClustersMax * EntriesPerL2 \in Nat
  BY <1>1, <1>6, Multiples
<1>8. TableOf(w) < l2ClustersMax
  BY <1>1, <1>2, <1>3, <1>5, <1>6, <1>7, QuotientBelow DEF TableOf
<1>9. l1Size \in Nat /\ size <= l1Size * (EntriesPerL2 * EntriesPerL2)
  BY <1>1, CeilDivCovers DEF l1Size
<1>10. PICK n \in Nat : n = l1Size
  BY <1>9
<1>11. /\ n * (EntriesPerL2 * EntriesPerL2) = (n * EntriesPerL2) * EntriesPerL2
       /\ n * EntriesPerL2 \in Nat /\ (n * EntriesPerL2) * EntriesPerL2 \in Nat
  BY <1>1, Z3
<1>12. w < (n * EntriesPerL2) * EntriesPerL2
  BY <1>2, <1>9, <1>10, <1>11
<1>13. w \div EntriesPerL2 < n * EntriesPerL2
  BY <1>1, <1>2, <1>11, <1>12, QuotientBelow
<1>14. TableOf(w) < n
  BY <1>1, <1>2, <1>13, QuotientBelow DEF TableOf
<1> QED
  BY <1>2, <1>5, <1>8, <1>10, <1>14

\* What the pieces of a chunk are.
LEMMA PieceFacts ==
  ASSUME size \in Nat \ {0}, chunk \in Chunks, pos \in Nat,
         chunk * ChunkWords <= pos, pos < ChunkEnd(chunk)
  PROVE  /\ want \in Nat \ {0} /\ pos + want <= ChunkEnd(chunk)
         /\ pos \in Words /\ Piece \subseteq ChunkData(chunk) /\ Piece \subseteq Words
         /\ \A w \in Piece : w \div EntriesPerL2 = clusterIdx
         /\ l1Idx = TableOf(pos) /\ l2Idx = EntryOf(pos)
         /\ l1Idx \in 0 .. l1Size - 1 /\ l2Idx \in Entries
<1>1. EntriesPerL2 \in Nat \ {0}
  BY GeometryAssumption
<1>2. /\ chunk * ChunkWords \in Nat /\ ChunkEnd(chunk) \in Nat /\ ChunkEnd(chunk) <= size
      /\ ChunkData(chunk) \subseteq Words
  BY ChunkFacts
<1>3. /\ clusterIdx \in Nat /\ pos % EntriesPerL2 \in Entries
      /\ pos = clusterIdx * EntriesPerL2 + (pos % EntriesPerL2)
  BY WordFacts DEF PlaceOf, clusterIdx
<1>4. pos % EntriesPerL2 \in 0 .. EntriesPerL2 - 1
  BY <1>3 DEF Entries
<1>5. /\ want \in Nat \ {0} /\ pos + want <= ChunkEnd(chunk)
      /\ want <= EntriesPerL2 - (pos % EntriesPerL2)
  BY <1>1, <1>2, <1>4 DEF want, Min2
<1>6. pos \in Words
  BY <1>2 DEF Words
<1>7. Piece \subseteq ChunkData(chunk)
  BY <1>2, <1>5 DEF Piece, ChunkData
<1>8. ASSUME NEW w \in Piece PROVE w \div EntriesPerL2 = clusterIdx
  <2>1. clusterIdx * EntriesPerL2 \in Nat
    BY <1>1, <1>3, Multiples
  <2>2. w \in Nat /\ clusterIdx * EntriesPerL2 <= w
        /\ w < clusterIdx * EntriesPerL2 + EntriesPerL2
    BY <1>1, <1>3, <1>4, <1>5, <2>1 DEF Piece
  <2> QED
    BY <1>1, <1>3, <2>2, QuotientIs
<1>9. /\ l1Idx = TableOf(pos) /\ l2Idx = EntryOf(pos) /\ l1Idx \in 0 .. l1Size - 1
      /\ l2Idx \in Entries
  BY <1>6, WordFacts, WordsFit DEF l1Idx, l2Idx, clusterIdx, TableOf, EntryOf
<1> QED
  BY <1>2, <1>5, <1>6, <1>7, <1>8, <1>9

-----------------------------------------------------------------------------
(* Types, and what each statement finds.                                   *)

\* The statements of WriteAt, those that have a cluster in hand nothing refers
\* to yet, those of ensureDataCluster and after, and those of Close.
LoopPCs  == {"alloc_l2", "count_l2", "zero_l2", "cache_l2", "entry", "alloc_data",
             "count_data", "zero_data", "flush_l2", "data"}
FreshPCs == {"count_l2", "zero_l2", "count_data", "zero_data"}
DataPCs  == {"entry", "alloc_data", "count_data", "zero_data", "flush_l2", "data"}
EndPCs   == {"stopped", "flush_all", "header", "closed"}

BasicOK ==
  /\ pc \in {"geometry", "idle", "piece"} \union LoopPCs \union EndPCs
  /\ size \in Sizes /\ blocks \in Nat \ {0} /\ nextOff \in Nat
  /\ counted \subseteq Nat
  /\ source \in [Words -> 0 .. size] /\ written \subseteq Chunks
  /\ pos \in 0 .. size /\ off \in Nat
  /\ result \in {"none", "create_error", "ok", "error"}

\* Where the call of WriteAt is.
CallOK ==
  /\ pc \in {"piece", "stopped"} \union LoopPCs => chunk \in Chunks /\ chunk \notin written
  /\ pc \in {"piece"} \union LoopPCs => chunk * ChunkWords <= pos /\ pos <= ChunkEnd(chunk)
  /\ pc \in LoopPCs => pos < ChunkEnd(chunk)
  /\ result # "none" <=> pc = "closed"

\* The tables in memory and the clusters of the file.
StoreOK ==
  /\ Created => l1 \in [0 .. l1Size - 1 -> Nat] /\ FirstOff <= nextOff
  /\ Created => \/ DOMAIN file = 0 .. nextOff - 1
                \/ /\ DOMAIN file = 0 .. nextOff - 2 /\ pc \in EndPCs
                   /\ FirstOff < nextOff
  /\ \A c \in DOMAIN file : file[c] \in [Entries -> Nat]
  /\ DOMAIN l2cache \subseteq 0 .. l1Size - 1
  /\ \A i \in DOMAIN l2cache : l2cache[i] \in [Entries -> Nat]
  /\ unflushed \subseteq DOMAIN l2cache
  /\ pc \in DataPCs => l1Idx \in DOMAIN l2cache

\* There is nothing before Create has laid out the file.
EmptyOK ==
  ~Created => /\ DOMAIN l1 = {} /\ DOMAIN l2cache = {} /\ DOMAIN file = {}
              /\ written = {} /\ \A w \in Words : source[w] = 0

TypeInv == BasicOK /\ CallOK /\ StoreOK /\ EmptyOK

LEMMA TypeInit == Init => TypeInv
<1> SUFFICES ASSUME Init PROVE TypeInv
  OBVIOUS
<1>1. DOMAIN l1 = {} /\ DOMAIN l2cache = {} /\ DOMAIN file = {}
  BY DEF Init
<1>2. size \in Nat \ {0}
  BY GeometryAssumption DEF Init
<1>3. source \in [Words -> 0 .. size] /\ \A w \in Words : source[w] = 0
  BY <1>2 DEF Init
<1>4. ~Created /\ pc = "geometry" /\ result = "none"
  BY DEF Init, Created
<1>5. BasicOK
  BY <1>2, <1>3 DEF Init, BasicOK
<1>6. CallOK /\ StoreOK /\ EmptyOK
  BY <1>1, <1>3, <1>4 DEF Init, CallOK, StoreOK, EmptyOK, LoopPCs, DataPCs
<1> QED
  BY <1>5, <1>6 DEF TypeInv

\* What the statements of the loop may rely on.
LEMMA LoopFacts ==
  ASSUME TypeInv, pc \in LoopPCs \/ (pc = "piece" /\ pos < ChunkEnd(chunk))
  PROVE  /\ size \in Nat \ {0} /\ pos \in Nat /\ chunk \in Chunks /\ chunk \notin written
         /\ chunk * ChunkWords <= pos /\ pos < ChunkEnd(chunk) /\ Created
         /\ want \in Nat \ {0} /\ pos + want <= ChunkEnd(chunk)
         /\ pos \in Words /\ Piece \subseteq ChunkData(chunk) /\ Piece \subseteq Words
         /\ \A w \in Piece : w \div EntriesPerL2 = clusterIdx
         /\ l1Idx = TableOf(pos) /\ l2Idx = EntryOf(pos)
         /\ l1Idx \in 0 .. l1Size - 1 /\ l2Idx \in Entries
         /\ DOMAIN file = 0 .. nextOff - 1
<1>1. size \in Nat \ {0} /\ pos \in Nat
  BY GeometryAssumption DEF TypeInv, BasicOK
<1>2. /\ chunk \in Chunks /\ chunk \notin written
      /\ chunk * ChunkWords <= pos /\ pos < ChunkEnd(chunk)
  BY DEF TypeInv, CallOK
<1>3. Created
  BY DEF Created, TypeInv, CallOK, LoopPCs
<1>4. DOMAIN file = 0 .. nextOff - 1
  BY <1>3 DEF TypeInv, StoreOK, LoopPCs, EndPCs
<1> QED
  BY <1>1, <1>2, <1>3, <1>4, PieceFacts

\* A step that leaves the call of WriteAt where it is, or ends it.
LEMMA CallQuiet ==
  ASSUME TypeInv, UNCHANGED <<size, blocks, source, written, chunk, pos>>,
         pc \notin {"geometry", "closed"},
         \/ /\ pc \in LoopPCs \/ (pc = "piece" /\ pos < ChunkEnd(chunk))
            /\ pc' \in {"piece", "stopped"} \union LoopPCs
         \/ pc' \in EndPCs \ {"stopped"},
         result' # "none" <=> pc' = "closed", result' \in {"none", "ok", "error"},
         nextOff' \in Nat, off' \in Nat, counted' \subseteq Nat
  PROVE  BasicOK' /\ CallOK' /\ EmptyOK'
<1>1. UNCHANGED <<Words, Chunks>> /\ \A k : ChunkEnd(k)' = ChunkEnd(k)
  BY SameGeometry
<1>2. BasicOK'
  BY <1>1 DEF TypeInv, BasicOK, LoopPCs, EndPCs
<1>3. CallOK'
  BY <1>1 DEF TypeInv, BasicOK, CallOK, LoopPCs, EndPCs
<1>4. Created'
  BY DEF Created, LoopPCs, EndPCs
<1> QED
  BY <1>2, <1>3, <1>4 DEF EmptyOK

\* The same for a step that goes on with the next piece.
LEMMA CallMoves ==
  ASSUME TypeInv, UNCHANGED <<size, blocks, source, written, chunk, nextOff, off, counted, result>>,
         pc \in LoopPCs \/ (pc = "piece" /\ pos < ChunkEnd(chunk)),
         pc' = "piece", pos' = pos + want
  PROVE  BasicOK' /\ CallOK' /\ EmptyOK'
<1>1. UNCHANGED <<Words, Chunks>> /\ \A k : ChunkEnd(k)' = ChunkEnd(k)
  BY SameGeometry
<1>2. /\ chunk \in Chunks /\ chunk \notin written /\ pos \in Nat /\ want \in Nat
      /\ chunk * ChunkWords <= pos /\ pos + want <= ChunkEnd(chunk)
      /\ size \in Nat \ {0}
  BY LoopFacts
<1>3. ChunkEnd(chunk) <= size /\ ChunkEnd(chunk) \in Nat /\ chunk * ChunkWords \in Nat
  BY <1>2, ChunkFacts
<1>4. pos + want \in 0 .. size /\ chunk * ChunkWords <= pos + want
  BY <1>2, <1>3
<1>5. BasicOK'
  BY <1>1, <1>4 DEF TypeInv, BasicOK
<1>6. CallOK'
  BY <1>1, <1>2, <1>4 DEF TypeInv, CallOK, LoopPCs
<1>7. Created'
  BY DEF Created, TypeInv, CallOK, LoopPCs
<1> QED
  BY <1>5, <1>6, <1>7 DEF EmptyOK

LEMMA CallStep == TypeInv /\ [Next]_vars => BasicOK' /\ CallOK' /\ EmptyOK'
<1> SUFFICES ASSUME TypeInv, [Next]_vars PROVE BasicOK' /\ CallOK' /\ EmptyOK'
  OBVIOUS
<1> USE DEF tables, call
<1>0. size \in Nat \ {0} /\ blocks \in Nat
  BY GeometryAssumption DEF TypeInv, BasicOK
<1>1. CASE GrowRefcounts
  <2>1. newRefcountBlockCount(blocks) \in Nat \ {0}
    <3>1. totalClustersMax(blocks) \in Nat \ {0}
      BY <1>0, CountsAreNatural DEF totalClustersMax
    <3>2. /\ refcountBlockEntries \in Nat \ {0} /\ newRefcountBlockCount(blocks) \in Nat
          /\ totalClustersMax(blocks) <= newRefcountBlockCount(blocks) * refcountBlockEntries
      BY <1>0, <3>1, CountsAreNatural, CeilDivCovers DEF newRefcountBlockCount
    <3>3. 0 * refcountBlockEntries = 0
      BY <3>2
    <3> QED
      BY <3>1, <3>2, <3>3
  <2>2. UNCHANGED <<pc, size, nextOff, counted, source, written, pos, off, result, chunk,
                    l1, l2cache, file, Words, Chunks, Created>>
    BY <1>1 DEF GrowRefcounts, Words, Chunks, Created
  <2>3. pc = "geometry" /\ blocks' = newRefcountBlockCount(blocks)
    BY <1>1 DEF GrowRefcounts
  <2>4. BasicOK'
    BY <2>1, <2>2, <2>3 DEF TypeInv, BasicOK
  <2>5. CallOK'
    BY <2>2, <2>3 DEF TypeInv, CallOK, LoopPCs
  <2>6. EmptyOK'
    BY <2>2 DEF TypeInv, EmptyOK
  <2> QED
    BY <2>4, <2>5, <2>6
<1>2. CASE Format
  <2>1. UNCHANGED <<size, blocks, source, written, pos, off, result, chunk, Words, Chunks>>
        /\ pc = "geometry" /\ pc' = "idle" /\ nextOff' = FirstOff
        /\ counted' = 0 .. FirstOff - 1
    BY <1>2 DEF Format, Words, Chunks
  <2>2. FirstOff \in Nat
    BY <1>0, Layout
  <2>3. BasicOK'
    BY <2>1, <2>2 DEF TypeInv, BasicOK
  <2>4. CallOK' /\ Created'
    BY <2>1 DEF TypeInv, CallOK, Created, LoopPCs
  <2> QED
    BY <2>3, <2>4 DEF EmptyOK
<1>3. CASE CreateFails
  <2>1. UNCHANGED <<size, blocks, nextOff, counted, source, written, pos, off, chunk,
                    l1, l2cache, file, Words, Chunks>>
        /\ pc = "geometry" /\ pc' = "closed" /\ result' = "create_error"
    BY <1>3 DEF CreateFails, Words, Chunks
  <2>2. BasicOK'
    BY <2>1 DEF TypeInv, BasicOK, EndPCs
  <2>3. CallOK' /\ EmptyOK'
    BY <2>1 DEF TypeInv, CallOK, EmptyOK, Created, LoopPCs
  <2> QED
    BY <2>2, <2>3
<1>4. CASE WriteAt
  <2>1. PICK k \in Chunks \ written, data \in SUBSET Words :
          /\ source' = [w \in Words |-> IF w \in data THEN w + 1 ELSE source[w]]
          /\ chunk' = k /\ pos' = k * ChunkWords
    BY <1>4 DEF WriteAt
  <2>2. UNCHANGED <<size, blocks, nextOff, counted, written, off, result>>
        /\ pc = "idle" /\ pc' = "piece"
    BY <1>4 DEF WriteAt
  <2>3. UNCHANGED <<Words, Chunks>> /\ \A m : ChunkEnd(m)' = ChunkEnd(m)
    BY <2>2, SameGeometry
  <2>4. /\ k * ChunkWords \in Nat /\ k * ChunkWords < ChunkEnd(k)
        /\ ChunkEnd(k) \in Nat /\ ChunkEnd(k) <= size
    BY <1>0, ChunkFacts
  <2>5. source' \in [Words -> 0 .. size]
    <3>1. \A w \in Words : w + 1 \in 0 .. size
      BY <1>0 DEF Words
    <3> QED
      BY <2>1, <3>1 DEF TypeInv, BasicOK
  <2>6. BasicOK'
    <3>1. pos' \in 0 .. size
      BY <1>0, <2>1, <2>4
    <3> QED
      BY <2>2, <2>3, <2>5, <3>1 DEF TypeInv, BasicOK
  <2>7. CallOK'
    BY <2>1, <2>2, <2>3, <2>4 DEF TypeInv, CallOK, LoopPCs
  <2>8. Created'
    BY <2>2 DEF Created, TypeInv, CallOK
  <2> QED
    BY <2>6, <2>7, <2>8 DEF EmptyOK
<1>5. CASE SkipZeros \/ WriteData
  BY <1>5, CallMoves DEF SkipZeros, WriteData, LoopPCs
<1>6. CASE Returned
  <2>1. UNCHANGED <<size, blocks, nextOff, counted, source, pos, off, result, chunk>>
        /\ pc = "piece" /\ pc' = "idle" /\ written' = written \union {chunk}
    BY <1>6 DEF Returned
  <2>2. UNCHANGED <<Words, Chunks>>
    BY <2>1, SameGeometry
  <2>3. BasicOK'
    BY <2>1, <2>2 DEF TypeInv, BasicOK, CallOK
  <2>4. CallOK' /\ Created'
    BY <2>1, <2>2 DEF TypeInv, CallOK, LoopPCs, Created
  <2> QED
    BY <2>3, <2>4 DEF EmptyOK
<1>7. CASE FindL2 \/ SetRefcount \/ ZeroL2 \/ CacheL2 \/ ZeroData \/ FlushL2
  <2>1. UNCHANGED <<size, blocks, source, written, chunk, pos, nextOff, off, result>>
    BY <1>7 DEF FindL2, SetRefcount, ZeroL2, CacheL2, ZeroData, FlushL2
  <2>2. counted' \subseteq Nat
    BY <1>7 DEF FindL2, SetRefcount, ZeroL2, CacheL2, ZeroData, FlushL2, TypeInv, BasicOK
  <2>3. /\ pc \in LoopPCs \/ (pc = "piece" /\ pos < ChunkEnd(chunk))
        /\ pc' \in LoopPCs
    BY <1>7 DEF FindL2, SetRefcount, ZeroL2, CacheL2, ZeroData, FlushL2, LoopPCs
  <2>4. result = "none" /\ pc' # "closed"
    BY <2>3 DEF TypeInv, CallOK, LoopPCs
  <2> QED
    BY <2>1, <2>2, <2>3, <2>4, CallQuiet DEF LoopPCs, TypeInv, BasicOK
<1>8. CASE AllocCluster
  <2>1. UNCHANGED <<size, blocks, source, written, chunk, pos, counted, result>>
        /\ pc \in LoopPCs /\ pc' \in LoopPCs /\ nextOff' \in Nat /\ off' \in Nat
    BY <1>8 DEF AllocCluster, LoopPCs, TypeInv, BasicOK
  <2>2. result = "none" /\ pc' # "closed" /\ counted \subseteq Nat
    BY <2>1 DEF TypeInv, BasicOK, CallOK, LoopPCs
  <2> QED
    BY <2>1, <2>2, CallQuiet DEF LoopPCs
<1>9. CASE FindData
  <2>1. /\ UNCHANGED <<size, blocks, source, written, chunk, pos, nextOff, counted, result>>
        /\ pc = "entry" /\ pc' \in {"data", "alloc_data"}
        /\ off' = off \/ off' = l2cache[l1Idx][l2Idx]
    BY <1>9 DEF FindData
  <2>2. l1Idx \in DOMAIN l2cache /\ l2Idx \in Entries
    BY <2>1, LoopFacts DEF TypeInv, StoreOK, DataPCs, LoopPCs
  <2>3. off' \in Nat
    BY <2>1, <2>2 DEF TypeInv, BasicOK, StoreOK
  <2>4. result = "none" /\ counted \subseteq Nat /\ nextOff \in Nat
    BY <2>1 DEF TypeInv, BasicOK, CallOK
  <2> QED
    BY <2>1, <2>3, <2>4, CallQuiet DEF LoopPCs
<1>10. CASE WriteFails
  <2>1. UNCHANGED <<size, blocks, source, written, chunk, pos, counted, off, result>>
        /\ pc \in LoopPCs /\ pc' = "stopped" /\ (nextOff' = nextOff \/ nextOff' = nextOff + 1)
    BY <1>10 DEF WriteFails, LoopPCs
  <2>2. result = "none" /\ counted \subseteq Nat /\ nextOff' \in Nat /\ off \in Nat
    BY <2>1 DEF TypeInv, BasicOK, CallOK, LoopPCs
  <2> QED
    BY <2>1, <2>2, CallQuiet DEF LoopPCs
<1>11. CASE Close \/ FlushOne \/ WriteL1 \/ Closed \/ CloseFails
  <2>1. /\ UNCHANGED <<size, blocks, source, written, chunk, pos, counted, off, nextOff>>
        /\ pc \in {"idle", "stopped", "flush_all", "header"} /\ pc' \in EndPCs \ {"stopped"}
        /\ \/ result' = result /\ pc' # "closed"
           \/ result' \in {"ok", "error"} /\ pc' = "closed"
    BY <1>11 DEF Close, FlushOne, WriteL1, Closed, CloseFails, EndPCs
  <2>2. result = "none" /\ counted \subseteq Nat /\ nextOff \in Nat /\ off \in Nat
    BY <2>1 DEF TypeInv, BasicOK, CallOK
  <2> QED
    BY <2>1, <2>2, CallQuiet
<1>12. CASE Terminated \/ UNCHANGED vars
  <2>1. UNCHANGED <<pc, size, blocks, nextOff, counted, source, written, pos, off, result,
                    chunk, l1, l2cache, file>>
    BY <1>12 DEF Terminated, vars
  <2>2. UNCHANGED <<Words, Chunks>> /\ \A k : ChunkEnd(k)' = ChunkEnd(k)
    BY <2>1, SameGeometry
  <2> QED
    BY <2>1, <2>2 DEF TypeInv, BasicOK, CallOK, EmptyOK, Created
<1> QED
  BY <1>1, <1>2, <1>3, <1>4, <1>5, <1>6, <1>7, <1>8, <1>9, <1>10, <1>11, <1>12
     DEF Next, Step

\* The cluster in hand after a part of the piece was written to it.
LEMMA OverwrittenType ==
  ASSUME TypeInv, pc = "data", NEW n \in 0 .. want, file[off] \in [Entries -> Nat]
  PROVE  Overwritten(off, n) \in [Entries -> Nat]
<1>1. /\ Piece \subseteq Words /\ want \in Nat /\ pos \in Nat
  BY LoopFacts DEF LoopPCs
<1>2. pos .. pos + n - 1 \subseteq Words
  BY <1>1 DEF Piece
<1>3. \A w \in Words : source[w] \in Nat
  BY GeometryAssumption DEF TypeInv, BasicOK
<1> QED
  BY <1>2, <1>3 DEF Overwritten

LEMMA StoreInit == Init => StoreOK
BY TypeInit DEF TypeInv

\* A step that leaves the tables and the file.
LEMMA StoreQuiet ==
  ASSUME TypeInv, UNCHANGED <<size, blocks, pos, nextOff, l1, l2cache, file, Created>>,
         unflushed' \subseteq DOMAIN l2cache,
         pc \in EndPCs => pc' \in EndPCs,
         pc' \in DataPCs => l1Idx \in DOMAIN l2cache
  PROVE  StoreOK'
<1>1. UNCHANGED <<l1Size, FirstOff, l1Idx>>
  BY SameGeometry DEF l1Idx, clusterIdx
<1>2. \/ Created' = Created /\ (pc \in EndPCs => pc' \in EndPCs)
  OBVIOUS
<1> QED
  BY <1>1, <1>2 DEF TypeInv, StoreOK

\* A step that overwrites clusters of the file with tables or data.
LEMMA StoreFile ==
  ASSUME TypeInv, UNCHANGED <<size, blocks, pos, nextOff, l1, l2cache, Created>>,
         unflushed' \subseteq DOMAIN l2cache,
         pc \in EndPCs => pc' \in EndPCs,
         pc' \in DataPCs => l1Idx \in DOMAIN l2cache,
         DOMAIN file' = DOMAIN file,
         \A c \in DOMAIN file : file'[c] = file[c] \/ file'[c] \in [Entries -> Nat]
  PROVE  StoreOK'
<1>1. UNCHANGED <<l1Size, FirstOff, l1Idx>>
  BY SameGeometry DEF l1Idx, clusterIdx
<1> QED
  BY <1>1 DEF TypeInv, StoreOK

LEMMA ZerosType == Zeros \in [Entries -> Nat] /\ \A j \in Entries : Zeros[j] = 0
BY DEF Zeros

LEMMA StoreStep == TypeInv /\ [Next]_vars => StoreOK'
<1> SUFFICES ASSUME TypeInv, [Next]_vars PROVE StoreOK'
  OBVIOUS
<1> USE DEF tables, call
<1>0. size \in Nat \ {0} /\ blocks \in Nat
  BY GeometryAssumption DEF TypeInv, BasicOK
<1>1. CASE GrowRefcounts \/ CreateFails
  <2>1. ~Created /\ ~Created' /\ UNCHANGED <<size, l1, l2cache, file, unflushed>>
        /\ pc' \notin DataPCs
    BY <1>1 DEF GrowRefcounts, CreateFails, Created, TypeInv, CallOK, DataPCs
  <2>2. DOMAIN l2cache = {} /\ DOMAIN file = {}
    BY <2>1 DEF TypeInv, EmptyOK
  <2> QED
    BY <2>1, <2>2 DEF TypeInv, StoreOK
<1>2. CASE Format
  <2>1. /\ nextOff' = FirstOff /\ file' = [c \in 0 .. FirstOff - 1 |-> Zeros]
        /\ l1' = [i \in 0 .. l1Size - 1 |-> 0] /\ pc' = "idle"
        /\ UNCHANGED <<size, blocks, l2cache, unflushed, pos>> /\ ~Created
    BY <1>2 DEF Format, Created
  <2>2. DOMAIN l2cache = {} /\ unflushed = {}
    BY <2>1 DEF TypeInv, EmptyOK, StoreOK
  <2>3. UNCHANGED <<l1Size, FirstOff>> /\ FirstOff \in Nat
    BY <1>0, <2>1, SameGeometry, Layout
  <2> QED
    BY <2>1, <2>2, <2>3, ZerosType DEF StoreOK, DataPCs
<1>3. CASE WriteAt
  <2>1. /\ UNCHANGED <<size, blocks, nextOff, l1, l2cache, file, unflushed, Created>>
        /\ pc = "idle" /\ pc' = "piece"
    BY <1>3 DEF WriteAt, Created
  <2>2. UNCHANGED <<l1Size, FirstOff>>
    BY <2>1, SameGeometry
  <2> QED
    BY <2>1, <2>2 DEF TypeInv, StoreOK, DataPCs, EndPCs
<1>4. CASE SkipZeros
  <2>1. /\ UNCHANGED <<size, blocks, nextOff, l1, l2cache, file, unflushed, Created, pc>>
        /\ pc = "piece"
    BY <1>4 DEF SkipZeros, Created
  <2>2. UNCHANGED <<l1Size, FirstOff>>
    BY <2>1, SameGeometry
  <2> QED
    BY <2>1, <2>2 DEF TypeInv, StoreOK, DataPCs, EndPCs
<1>5. CASE Returned \/ Closed \/ CloseFails \/ Close
  <2>1. /\ UNCHANGED <<size, blocks, pos, nextOff, l1, l2cache, file, Created>>
        /\ (unflushed' = unflushed \/ unflushed' = DOMAIN l2cache)
        /\ pc' \notin DataPCs
        /\ (pc \in EndPCs => pc' \in EndPCs)
    BY <1>5 DEF Returned, Closed, CloseFails, Close, Created, DataPCs, EndPCs, TypeInv, CallOK
  <2> QED
    BY <2>1, StoreQuiet DEF TypeInv, StoreOK
<1>6. CASE FindL2 \/ SetRefcount \/ FindData
  <2>1. /\ UNCHANGED <<size, blocks, pos, nextOff, l1, l2cache, file, unflushed, Created>>
        /\ pc \notin EndPCs
        /\ (pc' \in DataPCs => l1Idx \in DOMAIN l2cache \/ pc \in DataPCs)
    BY <1>6 DEF FindL2, SetRefcount, FindData, Created, DataPCs, EndPCs
  <2> QED
    BY <2>1, StoreQuiet DEF TypeInv, StoreOK
<1>7. CASE AllocCluster
  <2>1. /\ UNCHANGED <<size, blocks, pos, l1, l2cache, unflushed, Created>>
        /\ pc \in {"alloc_l2", "alloc_data"} /\ nextOff' = nextOff + 1
        /\ (pc' \in DataPCs => pc \in DataPCs) /\ pc' \notin EndPCs
        /\ DOMAIN file' = DOMAIN file \union {nextOff}
        /\ \A c \in DOMAIN file' : IF c \in DOMAIN file THEN file'[c] = file[c]
                                                       ELSE file'[c] = Zeros
    BY <1>7 DEF AllocCluster, Created, DataPCs, EndPCs
  <2>2. UNCHANGED <<l1Size, FirstOff, l1Idx>>
    BY <2>1, SameGeometry DEF l1Idx, clusterIdx
  <2>3. Created /\ DOMAIN file = 0 .. nextOff - 1 /\ nextOff \in Nat /\ FirstOff \in Nat
    BY <1>0, <2>1, LoopFacts, Layout DEF LoopPCs, TypeInv, BasicOK
  <2>4. DOMAIN file' = 0 .. nextOff' - 1
    BY <2>1, <2>3
  <2>5. \A c \in DOMAIN file' : file'[c] \in [Entries -> Nat]
    BY <2>1, ZerosType DEF TypeInv, StoreOK
  <2> QED
    BY <2>1, <2>2, <2>3, <2>4, <2>5 DEF TypeInv, StoreOK
<1>8. CASE ZeroL2
  <2>1. /\ UNCHANGED <<size, blocks, pos, nextOff, l2cache, unflushed, Created>>
        /\ pc = "zero_l2" /\ pc' = "cache_l2"
        /\ l1' = [l1 EXCEPT ![l1Idx] = off]
        /\ DOMAIN file' = DOMAIN file
        /\ \A c \in DOMAIN file : file'[c] = file[c] \/ file'[c] = Zeros
    BY <1>8 DEF ZeroL2, Created
  <2>2. UNCHANGED <<l1Size, FirstOff, l1Idx>> /\ off \in Nat
    BY <2>1, SameGeometry DEF l1Idx, clusterIdx, TypeInv, BasicOK
  <2> QED
    BY <2>1, <2>2, ZerosType DEF TypeInv, StoreOK, DataPCs, EndPCs
<1>9. CASE CacheL2
  <2>1. /\ UNCHANGED <<size, blocks, pos, nextOff, l1, file, unflushed, Created>>
        /\ pc = "cache_l2" /\ pc' = "entry"
        /\ DOMAIN l2cache' = DOMAIN l2cache \union {l1Idx}
        /\ \A i \in DOMAIN l2cache' : l2cache'[i] = Zeros \/ (i \in DOMAIN l2cache /\ l2cache'[i] = l2cache[i])
    BY <1>9 DEF CacheL2, Created
  <2>2. UNCHANGED <<l1Size, FirstOff, l1Idx>>
    BY <2>1, SameGeometry DEF l1Idx, clusterIdx
  <2>3. l1Idx \in 0 .. l1Size - 1
    BY <2>1, LoopFacts DEF LoopPCs
  <2> QED
    BY <2>1, <2>2, <2>3, ZerosType DEF TypeInv, StoreOK, DataPCs, EndPCs
<1>10. CASE ZeroData
  <2>1. /\ UNCHANGED <<size, blocks, pos, nextOff, l1, unflushed, Created>>
        /\ pc = "zero_data" /\ pc' = "flush_l2"
        /\ l2cache' = [l2cache EXCEPT ![l1Idx][l2Idx] = off]
        /\ DOMAIN file' = DOMAIN file
        /\ \A c \in DOMAIN file : file'[c] = file[c] \/ file'[c] = Zeros
    BY <1>10 DEF ZeroData, Created
  <2>2. UNCHANGED <<l1Size, FirstOff, l1Idx>> /\ off \in Nat
    BY <2>1, SameGeometry DEF l1Idx, clusterIdx, TypeInv, BasicOK
  <2>3. l1Idx \in DOMAIN l2cache
    BY <2>1 DEF TypeInv, StoreOK, DataPCs
  <2>4. DOMAIN l2cache' = DOMAIN l2cache
        /\ \A i \in DOMAIN l2cache : l2cache'[i] \in [Entries -> Nat]
    BY <2>1, <2>2 DEF TypeInv, StoreOK
  <2> QED
    BY <2>1, <2>2, <2>3, <2>4, ZerosType DEF TypeInv, StoreOK, DataPCs, EndPCs
<1>11. CASE FlushL2
  <2>1. /\ UNCHANGED <<size, blocks, pos, nextOff, l1, l2cache, unflushed, Created>>
        /\ pc = "flush_l2" /\ pc' = "data"
        /\ DOMAIN file' = DOMAIN file
        /\ \A c \in DOMAIN file : file'[c] = file[c] \/ file'[c] = l2cache[l1Idx]
    BY <1>11 DEF FlushL2, Created
  <2>2. l1Idx \in DOMAIN l2cache /\ unflushed \subseteq DOMAIN l2cache
    BY <2>1 DEF TypeInv, StoreOK, DataPCs
  <2>3. l2cache[l1Idx] \in [Entries -> Nat]
    BY <2>2 DEF TypeInv, StoreOK
  <2> QED
    BY <2>1, <2>2, <2>3, StoreFile DEF EndPCs
<1>12. CASE WriteData \/ WriteFails
  <2>1. CASE pc = "data"
    <3>1. PICK n \in 0 .. want : file' = [file EXCEPT ![off] = Overwritten(off, n)]
      <4>1. want \in Nat
        BY <2>1, LoopFacts DEF LoopPCs
      <4> QED
        BY <1>12, <2>1, <4>1 DEF WriteData, WriteFails
    <3>2. \A c \in DOMAIN file : file'[c] = file[c] \/ file'[c] \in [Entries -> Nat]
      BY <2>1, <3>1, OverwrittenType DEF TypeInv, StoreOK
    <3>3. /\ UNCHANGED <<size, blocks, nextOff, l1, l2cache, unflushed, Created>>
          /\ pc' \in {"piece", "stopped"} /\ DOMAIN file' = DOMAIN file
      BY <1>12, <2>1, <3>1 DEF WriteData, WriteFails, Created
    <3>4. UNCHANGED <<l1Size, FirstOff>>
      BY <3>3, SameGeometry
    <3> QED
      BY <2>1, <3>2, <3>3, <3>4 DEF TypeInv, StoreOK, DataPCs, EndPCs
  <2>2. CASE pc # "data"
    <3>1. /\ UNCHANGED <<size, blocks, l1, l2cache, unflushed, Created, file>>
          /\ pc' = "stopped" /\ pc \in LoopPCs
          /\ nextOff' = nextOff \/ nextOff' = nextOff + 1
      BY <1>12, <2>2 DEF WriteData, WriteFails, Created, LoopPCs
    <3>2. UNCHANGED <<l1Size, FirstOff>> /\ FirstOff \in Nat /\ nextOff \in Nat
      BY <1>0, <3>1, SameGeometry, Layout DEF TypeInv, BasicOK
    <3>3. Created /\ DOMAIN file = 0 .. nextOff - 1
      BY <3>1, LoopFacts
    <3>4. nextOff' = nextOff + 1 => nextOff' - 2 = nextOff - 1
      BY <3>2
    <3> QED
      BY <3>1, <3>2, <3>3, <3>4 DEF TypeInv, StoreOK, DataPCs, EndPCs
  <2> QED
    BY <2>1, <2>2
<1>13. CASE FlushOne
  <2>1. PICK i \in unflushed :
          /\ file' = [file EXCEPT ![l1[i]] = l2cache[i]]
          /\ unflushed' = unflushed \ {i}
    BY <1>13 DEF FlushOne
  <2>2. i \in DOMAIN l2cache /\ l2cache[i] \in [Entries -> Nat]
    BY <2>1 DEF TypeInv, StoreOK
  <2>3. unflushed' \subseteq DOMAIN l2cache
    BY <2>1 DEF TypeInv, StoreOK
  <2>4. UNCHANGED <<size, blocks, pos, nextOff, l1, l2cache, Created>> /\ pc' = "flush_all"
    BY <1>13 DEF FlushOne, Created
  <2> QED
    BY <2>1, <2>2, <2>3, <2>4, StoreFile DEF DataPCs, EndPCs
<1>14. CASE WriteL1
  <2>1. /\ UNCHANGED <<size, blocks, pos, nextOff, l1, l2cache, unflushed, Created>>
        /\ pc = "flush_all" /\ pc' = "header"
        /\ DOMAIN file' = DOMAIN file
        /\ \A c \in DOMAIN file :
             file'[c] = IF c \in l1Start .. FirstOff - 1
                        THEN [j \in Entries |->
                                LET n == (c - l1Start) * EntriesPerL2 + j
                                IN  IF n < l1Size THEN l1[n] ELSE 0]
                        ELSE file[c]
    BY <1>14 DEF WriteL1, Created
  <2>2. Created
    BY <2>1 DEF Created, TypeInv, CallOK
  <2>3. ASSUME NEW c \in l1Start .. FirstOff - 1, NEW j \in Entries,
               (c - l1Start) * EntriesPerL2 + j < l1Size
        PROVE  l1[(c - l1Start) * EntriesPerL2 + j] \in Nat
    <3>1. l1Start \in Nat /\ EntriesPerL2 \in Nat \ {0}
      BY <1>0, Layout, GeometryAssumption
    <3>2. c - l1Start \in Nat /\ j \in Nat
      BY <3>1, <2>3 DEF Entries
    <3>3. (c - l1Start) * EntriesPerL2 \in Nat
      BY <3>1, <3>2, Multiples
    <3>4. (c - l1Start) * EntriesPerL2 + j \in 0 .. l1Size - 1
      <4>1. l1Size \in Nat
        BY <1>0, Layout
      <4> QED
        BY <2>3, <3>2, <3>3, <4>1
    <3> QED
      BY <2>2, <3>4 DEF TypeInv, StoreOK
  <2>4. \A c \in DOMAIN file : file'[c] = file[c] \/ file'[c] \in [Entries -> Nat]
    BY <2>1, <2>3
  <2>5. unflushed \subseteq DOMAIN l2cache
    BY DEF TypeInv, StoreOK
  <2> QED
    BY <2>1, <2>4, <2>5, StoreFile DEF DataPCs, EndPCs
<1>15. CASE Terminated \/ UNCHANGED vars
  <2>1. UNCHANGED <<pc, size, blocks, pos, nextOff, l1, l2cache, file, unflushed, Created>>
    BY <1>15 DEF Terminated, vars, Created
  <2> QED
    BY <2>1, StoreQuiet DEF TypeInv, StoreOK
<1> QED
  BY <1>1, <1>2, <1>3, <1>4, <1>5, <1>6, <1>7, <1>8, <1>9, <1>10, <1>11, <1>12, <1>13,
     <1>14, <1>15 DEF Next, Step

LEMMA TypeStep == TypeInv /\ [Next]_vars => TypeInv'
BY CallStep, StoreStep DEF TypeInv

\* The types of the whole state, and the clusters of the file: all that were
\* handed out, but for one the file could not be extended by.
THEOREM WriterTypes == Spec => []TypeOK
<1>1. TypeInv => TypeOK
  BY DEF TypeInv, BasicOK, StoreOK, TypeOK, LoopPCs, EndPCs
<1> QED
  BY <1>1, TypeInit, TypeStep, PTL DEF Spec

-----------------------------------------------------------------------------
(* No cluster is used twice.                                               *)

\* What each statement finds in the tables: the L1 entries and the cached tables
\* go together, and ensureL2 has filled in what ensureDataCluster looks at.
TablesOK ==
  /\ \A i \in DOMAIN l2cache : l1[i] # 0
  /\ \A i \in DOMAIN l1 : l1[i] # 0 => i \in DOMAIN l2cache \/ (pc = "cache_l2" /\ i = l1Idx)
  /\ pc = "cache_l2" => l1[l1Idx] # 0 /\ l1Idx \notin DOMAIN l2cache
  /\ pc \in {"alloc_l2", "count_l2", "zero_l2"} => l1[l1Idx] = 0
  /\ pc \in {"alloc_data", "count_data", "zero_data"} => l2cache[l1Idx][l2Idx] = 0
  /\ pc \in {"flush_l2", "data"} => l2cache[l1Idx][l2Idx] = off /\ off # 0

\* The cluster handed out last, to which no table refers yet.
Fresh(c) == pc \in FreshPCs /\ c = off

FreshOK == pc \in FreshPCs => off = nextOff - 1 /\ FirstOff <= off

\* A cluster that a table may refer to.
Given(c) == c \in DOMAIN file /\ FirstOff <= c /\ ~Fresh(c)

GivenOK ==
  /\ \A i \in DOMAIN l1 : l1[i] # 0 => Given(l1[i])
  /\ \A i \in DOMAIN l2cache, j \in Entries : l2cache[i][j] # 0 => Given(l2cache[i][j])

ApartOK ==
  /\ \A i, k \in DOMAIN l1 : l1[i] = l1[k] /\ l1[i] # 0 => i = k
  /\ \A i, k \in DOMAIN l2cache, j, m \in Entries :
       l2cache[i][j] = l2cache[k][m] /\ l2cache[i][j] # 0 => i = k /\ j = m
  /\ \A i \in DOMAIN l1, k \in DOMAIN l2cache, j \in Entries :
       l1[i] # 0 => l2cache[k][j] # l1[i]

PlacesOK == TablesOK /\ FreshOK /\ GivenOK /\ ApartOK

LEMMA PlacesInit == Init => PlacesOK
<1> SUFFICES ASSUME Init PROVE PlacesOK
  OBVIOUS
<1>1. DOMAIN l1 = {} /\ DOMAIN l2cache = {} /\ pc = "geometry"
  BY DEF Init
<1> QED
  BY <1>1 DEF PlacesOK, TablesOK, FreshOK, GivenOK, ApartOK, FreshPCs

\* Create's L1 table refers to nothing.
LEMMA PlacesFormat ==
  ASSUME TypeInv, Format
  PROVE  PlacesOK'
<1>1. l1' = [i \in 0 .. l1Size - 1 |-> 0] /\ l2cache' = l2cache /\ pc' = "idle" /\ ~Created
  BY DEF Format, tables, Created
<1>2. DOMAIN l2cache = {}
  BY <1>1 DEF TypeInv, EmptyOK
<1> QED
  BY <1>1, <1>2 DEF PlacesOK, TablesOK, FreshOK, GivenOK, ApartOK, FreshPCs

\* A step that leaves the tables and hands out no cluster.
LEMMA GivenQuiet ==
  ASSUME PlacesOK, UNCHANGED <<size, blocks, l1, l2cache>>,
         DOMAIN file \subseteq DOMAIN file',
         pc' \in FreshPCs => pc \in FreshPCs /\ UNCHANGED <<off, nextOff>>
  PROVE  FreshOK' /\ GivenOK' /\ ApartOK'
<1>1. UNCHANGED <<FirstOff, Entries>>
  BY SameGeometry DEF Entries
<1>2. \A c : Given(c) => Given(c)'
  BY <1>1 DEF Given, Fresh
<1>3. FreshOK'
  BY <1>1 DEF PlacesOK, FreshOK
<1>4. GivenOK' /\ ApartOK'
  BY <1>1, <1>2 DEF PlacesOK, GivenOK, ApartOK
<1> QED
  BY <1>3, <1>4

\* A step to a statement that does not look at the tables.
LEMMA TablesQuiet ==
  ASSUME PlacesOK, UNCHANGED <<l1, l2cache>>, pc # "cache_l2",
         pc' \notin {"cache_l2", "alloc_l2", "count_l2", "zero_l2", "alloc_data",
                     "count_data", "zero_data", "flush_l2", "data"}
  PROVE  TablesOK'
BY DEF PlacesOK, TablesOK

\* A new L2 table.
LEMMA PlacesZeroL2 ==
  ASSUME TypeInv, PlacesOK, ZeroL2
  PROVE  PlacesOK'
<1>1. /\ UNCHANGED <<size, blocks, pos, nextOff, off, l2cache>>
      /\ pc = "zero_l2" /\ pc' = "cache_l2"
      /\ l1' = [l1 EXCEPT ![l1Idx] = off] /\ DOMAIN file' = DOMAIN file
  BY DEF ZeroL2, call
<1>2. UNCHANGED <<FirstOff, l1Idx, l2Idx, Entries>>
  BY <1>1, SameGeometry DEF Entries, l1Idx, l2Idx, clusterIdx
<1>3. Created /\ l1Idx \in 0 .. l1Size - 1 /\ DOMAIN file = 0 .. nextOff - 1
  BY <1>1, LoopFacts DEF LoopPCs
<1>4. /\ l1 \in [0 .. l1Size - 1 -> Nat] /\ l1Idx \in DOMAIN l1 /\ l1'[l1Idx] = off
      /\ \A i \in DOMAIN l1 : i # l1Idx => l1'[i] = l1[i]
      /\ DOMAIN l1' = DOMAIN l1
  BY <1>1, <1>3 DEF TypeInv, StoreOK
<1>5. off \in DOMAIN file /\ FirstOff <= off /\ off # 0
  <2>1. off \in Nat /\ nextOff \in Nat /\ off = nextOff - 1 /\ FirstOff <= off
    BY <1>1 DEF TypeInv, BasicOK, PlacesOK, FreshOK, FreshPCs
  <2>2. FirstOff \in Nat \ {0}
    BY Layout, GeometryAssumption DEF TypeInv, BasicOK
  <2> QED
    BY <1>3, <2>1, <2>2
<1>6. /\ \A i \in DOMAIN l1 : l1[i] # 0 => Given(l1[i]) /\ l1[i] # off
      /\ \A i \in DOMAIN l2cache, j \in Entries :
           l2cache[i][j] # 0 => Given(l2cache[i][j]) /\ l2cache[i][j] # off
  BY <1>1 DEF PlacesOK, GivenOK, Given, Fresh, FreshPCs
<1>7. l1[l1Idx] = 0
  BY <1>1 DEF PlacesOK, TablesOK
<1>8. l1Idx \notin DOMAIN l2cache
  BY <1>7 DEF PlacesOK, TablesOK
<1>9. \A c : c \in DOMAIN file /\ FirstOff <= c => Given(c)'
  BY <1>1, <1>2 DEF Given, Fresh, FreshPCs
<1>10. TablesOK'
  BY <1>1, <1>2, <1>4, <1>5, <1>8 DEF PlacesOK, TablesOK
<1>11. FreshOK'
  BY <1>1 DEF FreshOK, FreshPCs
<1>12. GivenOK'
  BY <1>1, <1>2, <1>4, <1>5, <1>6, <1>9 DEF GivenOK, Given
<1>13. ApartOK'
  BY <1>1, <1>2, <1>4, <1>5, <1>6 DEF PlacesOK, ApartOK
<1> QED
  BY <1>10, <1>11, <1>12, <1>13 DEF PlacesOK

LEMMA PlacesCacheL2 ==
  ASSUME TypeInv, PlacesOK, CacheL2
  PROVE  PlacesOK'
<1>1. /\ UNCHANGED <<size, blocks, pos, nextOff, off, l1, file>>
      /\ pc = "cache_l2" /\ pc' = "entry"
      /\ DOMAIN l2cache' = DOMAIN l2cache \union {l1Idx}
      /\ l2cache'[l1Idx] = Zeros
      /\ \A i \in DOMAIN l2cache : i # l1Idx => l2cache'[i] = l2cache[i]
  BY DEF CacheL2, call
<1>2. UNCHANGED <<FirstOff, l1Idx, l2Idx, Entries>>
  BY <1>1, SameGeometry DEF Entries, l1Idx, l2Idx, clusterIdx
<1>3. l1[l1Idx] # 0 /\ l1Idx \notin DOMAIN l2cache
  BY <1>1 DEF PlacesOK, TablesOK
<1>4. \A c : Given(c) => Given(c)'
  BY <1>1, <1>2 DEF Given, Fresh, FreshPCs
<1>5. \A j \in Entries : l2cache'[l1Idx][j] = 0
  BY <1>1, ZerosType
<1>6. TablesOK'
  BY <1>1, <1>2, <1>3 DEF PlacesOK, TablesOK
<1>7. FreshOK'
  BY <1>1 DEF FreshOK, FreshPCs
<1>8. GivenOK'
  BY <1>1, <1>2, <1>3, <1>4, <1>5 DEF PlacesOK, GivenOK
<1>9. ApartOK'
  BY <1>1, <1>2, <1>3, <1>5 DEF PlacesOK, ApartOK
<1> QED
  BY <1>6, <1>7, <1>8, <1>9 DEF PlacesOK

\* A new data cluster.
LEMMA PlacesZeroData ==
  ASSUME TypeInv, PlacesOK, ZeroData
  PROVE  PlacesOK'
<1>1. /\ UNCHANGED <<size, blocks, pos, nextOff, off, l1>>
      /\ pc = "zero_data" /\ pc' = "flush_l2"
      /\ l2cache' = [l2cache EXCEPT ![l1Idx][l2Idx] = off] /\ DOMAIN file' = DOMAIN file
  BY DEF ZeroData, call
<1>2. UNCHANGED <<FirstOff, l1Idx, l2Idx, Entries>>
  BY <1>1, SameGeometry DEF Entries, l1Idx, l2Idx, clusterIdx
<1>3. Created /\ l2Idx \in Entries /\ DOMAIN file = 0 .. nextOff - 1 /\ l1Idx \in DOMAIN l2cache
  BY <1>1, LoopFacts DEF LoopPCs, TypeInv, StoreOK, DataPCs
<1>4. /\ DOMAIN l2cache' = DOMAIN l2cache /\ l2cache'[l1Idx][l2Idx] = off
      /\ \A i \in DOMAIN l2cache, j \in Entries :
           i # l1Idx \/ j # l2Idx => l2cache'[i][j] = l2cache[i][j]
  BY <1>1, <1>3 DEF TypeInv, StoreOK
<1>5. off \in DOMAIN file /\ FirstOff <= off /\ off # 0
  <2>1. off \in Nat /\ nextOff \in Nat /\ off = nextOff - 1 /\ FirstOff <= off
    BY <1>1 DEF TypeInv, BasicOK, PlacesOK, FreshOK, FreshPCs
  <2>2. FirstOff \in Nat \ {0}
    BY Layout, GeometryAssumption DEF TypeInv, BasicOK
  <2> QED
    BY <1>3, <2>1, <2>2
<1>6. /\ \A i \in DOMAIN l1 : l1[i] # 0 => Given(l1[i]) /\ l1[i] # off
      /\ \A i \in DOMAIN l2cache, j \in Entries :
           l2cache[i][j] # 0 => Given(l2cache[i][j]) /\ l2cache[i][j] # off
  BY <1>1 DEF PlacesOK, GivenOK, Given, Fresh, FreshPCs
<1>7. FreshOK'
  BY <1>1 DEF FreshOK, FreshPCs
<1>8. TablesOK'
  BY <1>1, <1>2, <1>3, <1>4, <1>5 DEF PlacesOK, TablesOK
<1>9. GivenOK'
  <2>1. \A i \in DOMAIN l1 : l1[i] # 0 => l1[i] \in DOMAIN file /\ FirstOff <= l1[i]
    BY <1>6 DEF Given
  <2>2. ASSUME NEW i \in DOMAIN l2cache, NEW j \in Entries, l2cache'[i][j] # 0
        PROVE  l2cache'[i][j] \in DOMAIN file /\ FirstOff <= l2cache'[i][j]
    <3>1. CASE i = l1Idx /\ j = l2Idx
      BY <1>4, <1>5, <3>1
    <3>2. CASE i # l1Idx \/ j # l2Idx
      BY <1>4, <1>6, <2>2, <3>2 DEF Given
    <3> QED
      BY <3>1, <3>2
  <2> QED
    BY <1>1, <1>2, <1>4, <2>1, <2>2 DEF GivenOK, Given, Fresh, FreshPCs
<1>10. ApartOK'
  BY <1>1, <1>2, <1>4, <1>5, <1>6 DEF PlacesOK, ApartOK
<1> QED
  BY <1>7, <1>8, <1>9, <1>10 DEF PlacesOK

LEMMA PlacesStep == TypeInv /\ PlacesOK /\ [Next]_vars => PlacesOK'
<1> SUFFICES ASSUME TypeInv, PlacesOK, [Next]_vars PROVE PlacesOK'
  OBVIOUS
<1> USE DEF tables, call
<1>1. CASE Format
  BY <1>1, PlacesFormat
<1>2. CASE ZeroL2
  BY <1>2, PlacesZeroL2
<1>3. CASE CacheL2
  BY <1>3, PlacesCacheL2
<1>4. CASE ZeroData
  BY <1>4, PlacesZeroData
<1>5. CASE GrowRefcounts \/ CreateFails
  <2>1. ~Created /\ UNCHANGED <<l1, l2cache>> /\ pc' \in {"geometry", "closed"}
    BY <1>5 DEF GrowRefcounts, CreateFails, Created
  <2>2. DOMAIN l1 = {} /\ DOMAIN l2cache = {}
    BY <2>1 DEF TypeInv, EmptyOK
  <2> QED
    BY <2>1, <2>2 DEF PlacesOK, TablesOK, FreshOK, GivenOK, ApartOK, FreshPCs
<1>6. CASE \/ WriteAt \/ SkipZeros \/ Returned \/ WriteData \/ WriteFails \/ Close
           \/ FlushOne \/ WriteL1 \/ Closed \/ CloseFails
  <2>1. /\ UNCHANGED <<size, blocks, l1, l2cache>> /\ DOMAIN file' = DOMAIN file
        /\ pc # "cache_l2" /\ pc' \in {"piece", "idle"} \union EndPCs
    BY <1>6 DEF WriteAt, SkipZeros, Returned, WriteData, WriteFails, Close, FlushOne,
                WriteL1, Closed, CloseFails, EndPCs
  <2> QED
    BY <2>1, GivenQuiet, TablesQuiet DEF FreshPCs, EndPCs, PlacesOK
<1>7. CASE FindL2
  <2>1. /\ UNCHANGED <<size, blocks, l1, l2cache, pos, off, nextOff>> /\ file' = file
        /\ pc = "piece" /\ pos < ChunkEnd(chunk) /\ pc' \in {"entry", "alloc_l2", "cache_l2"}
    BY <1>7 DEF FindL2
  <2>2. UNCHANGED <<l1Idx, l2Idx>>
    BY <2>1 DEF l1Idx, l2Idx, clusterIdx
  <2>3. Created /\ l1Idx \in DOMAIN l1
    BY <2>1, LoopFacts DEF TypeInv, StoreOK
  <2>4. pc' # "cache_l2" /\ (pc' = "alloc_l2" => l1[l1Idx] = 0)
    BY <1>7, <2>1, <2>3 DEF FindL2, PlacesOK, TablesOK
  <2>5. TablesOK'
    BY <2>1, <2>2, <2>4 DEF PlacesOK, TablesOK
  <2> QED
    BY <2>1, <2>5, GivenQuiet DEF FreshPCs, PlacesOK
<1>8. CASE AllocCluster
  <2>1. /\ UNCHANGED <<size, blocks, l1, l2cache, pos>>
        /\ off' = nextOff /\ nextOff' = nextOff + 1
        /\ DOMAIN file' = DOMAIN file \union {nextOff}
        /\ \/ pc = "alloc_l2" /\ pc' = "count_l2"
           \/ pc = "alloc_data" /\ pc' = "count_data"
    BY <1>8 DEF AllocCluster
  <2>2. UNCHANGED <<l1Idx, l2Idx, FirstOff, Entries>>
    BY <2>1, SameGeometry DEF l1Idx, l2Idx, clusterIdx, Entries
  <2>3. Created /\ DOMAIN file = 0 .. nextOff - 1 /\ nextOff \in Nat /\ FirstOff <= nextOff
    BY <2>1, LoopFacts DEF LoopPCs, TypeInv, BasicOK, StoreOK
  <2>4. TablesOK'
    BY <2>1, <2>2 DEF PlacesOK, TablesOK
  <2>5. FreshOK'
    BY <2>1, <2>2, <2>3 DEF FreshOK
  <2>6. \A c : Given(c) => Given(c)'
    BY <2>1, <2>2, <2>3 DEF Given, Fresh
  <2>7. GivenOK' /\ ApartOK'
    BY <2>1, <2>2, <2>6 DEF PlacesOK, GivenOK, ApartOK
  <2> QED
    BY <2>4, <2>5, <2>7 DEF PlacesOK
<1>9. CASE SetRefcount \/ FlushL2
  <2>1. /\ UNCHANGED <<size, blocks, l1, l2cache, pos, off, nextOff>>
        /\ DOMAIN file' = DOMAIN file
        /\ \/ pc = "count_l2" /\ pc' = "zero_l2"
           \/ pc = "count_data" /\ pc' = "zero_data"
           \/ pc = "flush_l2" /\ pc' = "data"
    BY <1>9 DEF SetRefcount, FlushL2
  <2>2. UNCHANGED <<l1Idx, l2Idx>>
    BY <2>1 DEF l1Idx, l2Idx, clusterIdx
  <2>3. TablesOK'
    BY <2>1, <2>2 DEF PlacesOK, TablesOK
  <2> QED
    BY <2>1, <2>3, GivenQuiet DEF FreshPCs, PlacesOK
<1>10. CASE FindData
  <2>1. /\ UNCHANGED <<size, blocks, l1, l2cache, pos, nextOff, file>> /\ pc = "entry"
        /\ \/ l2cache[l1Idx][l2Idx] # 0 /\ pc' = "data" /\ off' = l2cache[l1Idx][l2Idx]
           \/ l2cache[l1Idx][l2Idx] = 0 /\ pc' = "alloc_data"
    BY <1>10 DEF FindData
  <2>2. UNCHANGED <<l1Idx, l2Idx>>
    BY <2>1 DEF l1Idx, l2Idx, clusterIdx
  <2>3. TablesOK'
    BY <2>1, <2>2 DEF PlacesOK, TablesOK
  <2> QED
    BY <2>1, <2>3, GivenQuiet DEF FreshPCs, PlacesOK
<1>11. CASE Terminated \/ UNCHANGED vars
  <2>1. UNCHANGED <<size, blocks, l1, l2cache, pos, off, nextOff, file, pc>>
    BY <1>11 DEF Terminated, vars
  <2>2. UNCHANGED <<l1Idx, l2Idx>>
    BY <2>1 DEF l1Idx, l2Idx, clusterIdx
  <2>3. TablesOK'
    BY <2>1, <2>2 DEF PlacesOK, TablesOK
  <2> QED
    BY <2>1, <2>3, GivenQuiet DEF PlacesOK
<1> QED
  BY <1>1, <1>2, <1>3, <1>4, <1>5, <1>6, <1>7, <1>8, <1>9, <1>10, <1>11 DEF Next, Step

\* However the chunks come in and whichever call fails, no cluster is ever given
\* to two owners, and none of the metadata is given away.
THEOREM ClustersApart == Spec => []NoSharing
<1>1. TypeInv /\ PlacesOK => NoSharing
  <2> SUFFICES ASSUME TypeInv, PlacesOK PROVE NoSharing
    OBVIOUS
  <2>1. nextOff \in Nat /\ FirstOff \in Nat
    BY Layout, GeometryAssumption DEF TypeInv, BasicOK
  <2>2. \A c : Given(c) => c \in FirstOff .. nextOff - 1
    <3>1. ASSUME Created
          PROVE  DOMAIN file = 0 .. nextOff - 1 \/ DOMAIN file = 0 .. nextOff - 2
      BY <3>1 DEF TypeInv, StoreOK
    <3>2. ~Created => DOMAIN file = {}
      BY DEF TypeInv, EmptyOK
    <3> QED
      BY <2>1, <3>1, <3>2 DEF Given
  <2>3. \A e \in DataEntries : /\ e[1] \in DOMAIN l2cache /\ e[2] \in Entries
                               /\ e = <<e[1], e[2]>> /\ l2cache[e[1]][e[2]] # 0
    BY DEF DataEntries
  <2>4. \A i, j \in DOMAIN l1 : l1[i] = l1[j] /\ l1[i] # 0 => i = j
    BY DEF PlacesOK, ApartOK
  <2>5. \A d, e \in DataEntries : l2cache[d[1]][d[2]] = l2cache[e[1]][e[2]] => d = e
    BY <2>3 DEF PlacesOK, ApartOK
  <2>6. \A c \in L2Clusters : c \in FirstOff .. nextOff - 1
    BY <2>2 DEF L2Clusters, PlacesOK, GivenOK
  <2>7. \A e \in DataEntries :
          l2cache[e[1]][e[2]] \in (FirstOff .. nextOff - 1) \ L2Clusters
    BY <2>2, <2>3 DEF L2Clusters, PlacesOK, GivenOK, ApartOK
  <2>8. \A i \in DOMAIN l2cache : l1[i] # 0
    BY DEF PlacesOK, TablesOK
  <2> QED
    BY <2>4, <2>5, <2>6, <2>7, <2>8 DEF NoSharing
<1> QED
  BY <1>1, TypeInit, TypeStep, PlacesInit, PlacesStep, PTL DEF Spec

-----------------------------------------------------------------------------
(* What is in the file.                                                    *)

\* Which clusters a step may change: the L1 table is written by Close alone, a
\* table only by a flush, and a data cluster only by the write of its data.
LEMMA KeptByStep ==
  ASSUME TypeInv, PlacesOK, [Next]_vars, pc # "geometry"
  PROVE  /\ DOMAIN file \subseteq DOMAIN file'
         /\ ~WriteL1 => \A c \in 0 .. FirstOff - 1 : file'[c] = file[c]
         /\ \A i \in DOMAIN l1 : l1[i] # 0 =>
              \/ file'[l1[i]] = file[l1[i]]
              \/ /\ i \in DOMAIN l2cache /\ file'[l1[i]] = l2cache[i]
                 /\ FlushL2 \/ FlushOne
         /\ \A i \in DOMAIN l2cache, j \in Entries : l2cache[i][j] # 0 =>
              \/ file'[l2cache[i][j]] = file[l2cache[i][j]]
              \/ pc = "data" /\ l2cache[i][j] = off
<1> USE DEF tables, call
<1>a. size \in Nat \ {0} /\ blocks \in Nat
  BY GeometryAssumption DEF TypeInv, BasicOK
<1>b. l1Start \in Nat /\ l1Clusters \in Nat /\ FirstOff = l1Start + l1Clusters /\ FirstOff \in Nat
  BY <1>a, Layout
<1>c. /\ \A i \in DOMAIN l1 : l1[i] # 0 => Given(l1[i])
      /\ \A i \in DOMAIN l2cache, j \in Entries : l2cache[i][j] # 0 => Given(l2cache[i][j])
      /\ \A i \in DOMAIN l1, k \in DOMAIN l2cache, j \in Entries :
           l1[i] # 0 => l2cache[k][j] # l1[i]
      /\ \A i, k \in DOMAIN l1 : l1[i] = l1[k] /\ l1[i] # 0 => i = k
  BY DEF PlacesOK, GivenOK, ApartOK
<1>d. \A c \in DOMAIN file : c \in Nat
  <2>1. \/ DOMAIN file = 0 .. nextOff - 1 \/ DOMAIN file = 0 .. nextOff - 2
        \/ DOMAIN file = {}
    BY DEF TypeInv, StoreOK, EmptyOK
  <2> QED
    BY <2>1
<1>e. ASSUME Created PROVE \A c \in 0 .. FirstOff - 1 : c \in DOMAIN file
  <2>1. nextOff \in Nat /\ FirstOff <= nextOff
        /\ \/ DOMAIN file = 0 .. nextOff - 1
           \/ DOMAIN file = 0 .. nextOff - 2 /\ FirstOff < nextOff
    BY <1>e DEF TypeInv, BasicOK, StoreOK
  <2> QED
    BY <1>b, <2>1
<1>1. CASE UNCHANGED file
  BY <1>1
<1>2. CASE AllocCluster
  <2>1. /\ DOMAIN file' = DOMAIN file \union {nextOff}
        /\ \A c \in DOMAIN file : file'[c] = file[c] /\ pc \in LoopPCs
    BY <1>2 DEF AllocCluster, LoopPCs
  <2>2. Created
    BY <1>2 DEF AllocCluster, Created, TypeInv, CallOK
  <2> QED
    BY <1>b, <1>c, <1>e, <2>1, <2>2 DEF Given
<1>3. CASE ZeroL2 \/ ZeroData
  <2>1. /\ DOMAIN file' = DOMAIN file /\ \A c \in DOMAIN file : c # off => file'[c] = file[c]
        /\ pc \in FreshPCs
    BY <1>3 DEF ZeroL2, ZeroData, FreshPCs
  <2>2. Created /\ FirstOff <= off /\ off \in Nat
    BY <2>1 DEF Created, TypeInv, CallOK, FreshPCs, PlacesOK, FreshOK, BasicOK
  <2> QED
    BY <1>b, <1>c, <1>d, <1>e, <2>1, <2>2 DEF Given, Fresh
<1>4. CASE FlushL2
  <2>1. /\ DOMAIN file' = DOMAIN file /\ pc = "flush_l2"
        /\ \A c \in DOMAIN file : c # l1[l1Idx] => file'[c] = file[c]
        /\ \A c \in DOMAIN file : c = l1[l1Idx] => file'[c] = l2cache[l1Idx]
    BY <1>4 DEF FlushL2
  <2>2. Created /\ l1Idx \in DOMAIN l2cache /\ l1Idx \in DOMAIN l1 /\ l1[l1Idx] # 0
    BY <2>1, LoopFacts DEF LoopPCs, DataPCs, TypeInv, StoreOK, PlacesOK, TablesOK
  <2>3. l1[l1Idx] \in DOMAIN file /\ FirstOff <= l1[l1Idx]
    BY <1>c, <2>2 DEF Given
  <2>4. \A c \in 0 .. FirstOff - 1 : file'[c] = file[c]
    BY <1>b, <1>d, <1>e, <2>1, <2>2, <2>3
  <2>5. \A i \in DOMAIN l1 : l1[i] # 0 =>
          file'[l1[i]] = file[l1[i]] \/ (i \in DOMAIN l2cache /\ file'[l1[i]] = l2cache[i])
    BY <1>c, <2>1, <2>2, <2>3 DEF Given
  <2>6. \A i \in DOMAIN l2cache, j \in Entries : l2cache[i][j] # 0 =>
              file'[l2cache[i][j]] = file[l2cache[i][j]]
    BY <1>c, <2>1, <2>2 DEF Given
  <2> QED
    BY <1>4, <2>1, <2>4, <2>5, <2>6
<1>5. CASE WriteData \/ (WriteFails /\ pc = "data")
  <2>1. /\ DOMAIN file' = DOMAIN file /\ pc = "data"
        /\ \A c \in DOMAIN file : c # off => file'[c] = file[c]
    BY <1>5 DEF WriteData, WriteFails
  <2>2. Created /\ l1Idx \in DOMAIN l2cache /\ l2Idx \in Entries
        /\ l2cache[l1Idx][l2Idx] = off /\ off # 0
    BY <2>1, LoopFacts DEF LoopPCs, DataPCs, TypeInv, StoreOK, PlacesOK, TablesOK
  <2>3. off \in DOMAIN file /\ FirstOff <= off
    BY <1>c, <2>2 DEF Given
  <2>4. \A c \in 0 .. FirstOff - 1 : file'[c] = file[c]
    BY <1>b, <1>d, <1>e, <2>1, <2>2, <2>3
  <2> QED
    BY <1>c, <2>1, <2>2, <2>4 DEF Given
<1>6. CASE FlushOne
  <2>1. PICK n \in unflushed : file' = [file EXCEPT ![l1[n]] = l2cache[n]]
    BY <1>6 DEF FlushOne
  <2>2. n \in DOMAIN l2cache /\ l1[n] # 0 /\ Created
    BY <1>6 DEF FlushOne, TypeInv, StoreOK, PlacesOK, TablesOK, Created, CallOK
  <2>3. n \in DOMAIN l1
    BY <2>2 DEF TypeInv, StoreOK
  <2>4. /\ DOMAIN file' = DOMAIN file
        /\ \A c \in DOMAIN file : c # l1[n] => file'[c] = file[c]
        /\ l1[n] \in DOMAIN file /\ FirstOff <= l1[n] /\ file'[l1[n]] = l2cache[n]
    BY <1>c, <2>1, <2>2, <2>3 DEF Given
  <2>5. \A c \in 0 .. FirstOff - 1 : file'[c] = file[c]
    BY <1>b, <1>d, <1>e, <2>2, <2>4
  <2>6. \A i \in DOMAIN l1 : l1[i] # 0 =>
          file'[l1[i]] = file[l1[i]] \/ (i \in DOMAIN l2cache /\ file'[l1[i]] = l2cache[i])
    BY <1>c, <2>2, <2>3, <2>4 DEF Given
  <2>7. \A i \in DOMAIN l2cache, j \in Entries : l2cache[i][j] # 0 =>
              file'[l2cache[i][j]] = file[l2cache[i][j]]
    BY <1>c, <2>2, <2>3, <2>4 DEF Given
  <2> QED
    BY <1>6, <2>4, <2>5, <2>6, <2>7
<1>7. CASE WriteL1
  <2>1. /\ DOMAIN file' = DOMAIN file
        /\ \A c \in DOMAIN file : c \notin l1Start .. FirstOff - 1 => file'[c] = file[c]
    BY <1>7 DEF WriteL1
  <2>2. \A c : Given(c) => c \in DOMAIN file /\ file'[c] = file[c]
    BY <1>b, <1>d, <2>1 DEF Given
  <2> QED
    BY <1>7, <1>c, <2>1, <2>2
<1>8. CASE GrowRefcounts \/ Format \/ CreateFails
  BY <1>8 DEF GrowRefcounts, Format, CreateFails
<1>9. CASE \/ WriteAt \/ SkipZeros \/ Returned \/ FindL2 \/ SetRefcount \/ CacheL2
           \/ FindData \/ Close \/ Closed \/ CloseFails \/ Terminated \/ UNCHANGED vars
           \/ (WriteFails /\ pc # "data")
  <2>1. UNCHANGED file
    BY <1>9 DEF WriteAt, SkipZeros, Returned, FindL2, SetRefcount, CacheL2, FindData, Close,
                Closed, CloseFails, Terminated, vars, WriteFails
  <2> QED
    BY <1>1, <2>1
<1> QED
  BY <1>2, <1>3, <1>4, <1>5, <1>6, <1>7, <1>8, <1>9 DEF Next, Step

\* An entry of a table in the file is the one in memory, or not there yet; and
\* it is there once the table was flushed by Close.
FlushedOK ==
  /\ \A i \in DOMAIN l2cache, j \in Entries : file[l1[i]][j] \in {0, l2cache[i][j]}
  /\ pc = "cache_l2" => \A j \in Entries : file[l1[l1Idx]][j] = 0
  /\ pc = "flush_all" => \A i \in DOMAIN l2cache \ unflushed : file[l1[i]] = l2cache[i]
  /\ pc = "header" \/ result = "ok" => \A i \in DOMAIN l2cache : file[l1[i]] = l2cache[i]

LEMMA FlushedInit == Init => FlushedOK
<1> SUFFICES ASSUME Init PROVE FlushedOK
  OBVIOUS
<1>1. DOMAIN l2cache = {} /\ pc = "geometry"
  BY DEF Init
<1> QED
  BY <1>1 DEF FlushedOK

\* A step that changes neither the tables in memory nor the file.
LEMMA FlushedQuiet ==
  ASSUME FlushedOK, UNCHANGED <<l1, l2cache, file>>, pc' # "cache_l2",
         pc' \in {"flush_all", "header"} => UNCHANGED <<pc, unflushed>>,
         result' = "ok" => pc = "header" \/ result = "ok"
  PROVE  FlushedOK'
<1>1. UNCHANGED Entries
  BY DEF Entries
<1> QED
  BY <1>1 DEF FlushedOK

\* A step that flushes tables at most, or changes other clusters.
LEMMA FlushedMore ==
  ASSUME TypeInv, PlacesOK, FlushedOK, [Next]_vars, pc # "geometry",
         UNCHANGED <<l1, l2cache>>,
         pc' \in LoopPCs \union {"piece", "stopped"}, pc' # "cache_l2", result' # "ok"
  PROVE  FlushedOK'
<1>1. \A i \in DOMAIN l2cache : i \in DOMAIN l1 /\ l1[i] # 0
  <2>1. Created => DOMAIN l2cache \subseteq DOMAIN l1
    BY DEF TypeInv, StoreOK
  <2>2. ~Created => DOMAIN l2cache = {}
    BY DEF TypeInv, EmptyOK
  <2> QED
    BY <2>1, <2>2 DEF PlacesOK, TablesOK
<1>2. \A i \in DOMAIN l2cache : file'[l1[i]] = file[l1[i]] \/ file'[l1[i]] = l2cache[i]
  BY <1>1, KeptByStep
<1>3. \A i \in DOMAIN l2cache, j \in Entries : file'[l1[i]][j] \in {0, l2cache[i][j]}
  BY <1>2 DEF FlushedOK
<1>4. UNCHANGED Entries /\ pc' \notin {"flush_all", "header"}
  BY DEF Entries, LoopPCs
<1> QED
  BY <1>3, <1>4 DEF FlushedOK

LEMMA FlushedStep == TypeInv /\ PlacesOK /\ FlushedOK /\ [Next]_vars => FlushedOK'
<1> SUFFICES ASSUME TypeInv, PlacesOK, FlushedOK, [Next]_vars PROVE FlushedOK'
  OBVIOUS
<1> USE DEF tables, call
<1>a. UNCHANGED Entries
  BY DEF Entries
<1>b. ASSUME pc # "geometry" PROVE \A i \in DOMAIN l2cache : i \in DOMAIN l1 /\ l1[i] # 0
  <2>1. Created => DOMAIN l2cache \subseteq DOMAIN l1
    BY DEF TypeInv, StoreOK
  <2>2. ~Created => DOMAIN l2cache = {}
    BY DEF TypeInv, EmptyOK
  <2> QED
    BY <2>1, <2>2 DEF PlacesOK, TablesOK
<1>1. CASE GrowRefcounts \/ Format \/ CreateFails
  <2>1. /\ ~Created /\ l2cache' = l2cache /\ pc' \in {"geometry", "idle", "closed"}
        /\ result' # "ok"
    BY <1>1 DEF GrowRefcounts, Format, CreateFails, Created, TypeInv, CallOK
  <2>2. DOMAIN l2cache = {}
    BY <2>1 DEF TypeInv, EmptyOK
  <2> QED
    BY <2>1, <2>2 DEF FlushedOK
<1>2. CASE \/ WriteAt \/ SkipZeros \/ Returned \/ SetRefcount \/ FindData \/ CloseFails
           \/ Closed
  BY <1>2, FlushedQuiet DEF WriteAt, SkipZeros, Returned, SetRefcount, FindData, CloseFails,
                            Closed
<1>3. CASE FindL2
  <2>1. /\ UNCHANGED <<l1, l2cache, file, result>> /\ pc = "piece" /\ pos < ChunkEnd(chunk)
        /\ pc' \in {"entry", "alloc_l2", "cache_l2"}
    BY <1>3 DEF FindL2
  <2>2. Created /\ l1Idx \in DOMAIN l1
    BY <2>1, LoopFacts DEF TypeInv, StoreOK
  <2>3. pc' # "cache_l2"
    BY <1>3, <2>1, <2>2 DEF FindL2, PlacesOK, TablesOK
  <2> QED
    BY <2>1, <2>3, FlushedQuiet
<1>4. CASE AllocCluster \/ FlushL2 \/ WriteData \/ WriteFails
  <2>1. /\ pc # "geometry" /\ UNCHANGED <<l1, l2cache, result>> /\ pc # "closed"
        /\ pc' \in LoopPCs \union {"piece", "stopped"} /\ pc' # "cache_l2"
    BY <1>4 DEF AllocCluster, FlushL2, WriteData, WriteFails, LoopPCs
  <2>2. result' # "ok"
    BY <2>1 DEF TypeInv, CallOK
  <2> QED
    BY <2>1, <2>2, FlushedMore
<1>5. CASE ZeroL2
  <2>1. /\ UNCHANGED <<l2cache, pos, result>> /\ pc = "zero_l2" /\ pc' = "cache_l2"
        /\ l1' = [l1 EXCEPT ![l1Idx] = off] /\ file' = [file EXCEPT ![off] = Zeros]
    BY <1>5 DEF ZeroL2
  <2>2. /\ UNCHANGED l1Idx /\ l1Idx \in DOMAIN l1 /\ off \in DOMAIN file
        /\ l1Idx \notin DOMAIN l2cache
    <3>1. Created /\ l1Idx \in 0 .. l1Size - 1 /\ DOMAIN file = 0 .. nextOff - 1
      BY <2>1, LoopFacts DEF LoopPCs
    <3>2. off = nextOff - 1 /\ off \in Nat /\ nextOff \in Nat
      BY <2>1 DEF PlacesOK, FreshOK, FreshPCs, TypeInv, BasicOK
    <3>3. l1[l1Idx] = 0
      BY <2>1 DEF PlacesOK, TablesOK
    <3> QED
      BY <2>1, <3>1, <3>2, <3>3 DEF TypeInv, StoreOK, PlacesOK, TablesOK, l1Idx, clusterIdx
  <2>3. \A i \in DOMAIN l2cache : l1'[i] = l1[i] /\ file'[l1[i]] = file[l1[i]]
    <3>1. ASSUME NEW i \in DOMAIN l2cache PROVE l1'[i] = l1[i] /\ l1[i] # off
      <4>1. i \in DOMAIN l1 /\ l1[i] # 0 /\ i # l1Idx
        BY <1>b, <2>1, <2>2
      <4>2. Given(l1[i])
        BY <4>1 DEF PlacesOK, GivenOK
      <4> QED
        BY <2>1, <4>1, <4>2 DEF Given, Fresh, FreshPCs
    <3> QED
      BY <2>1, <3>1
  <2>4. l1'[l1Idx] = off /\ \A j \in Entries : file'[off][j] = 0
    BY <2>1, <2>2, ZerosType
  <2>5. result' # "ok"
    BY <2>1 DEF TypeInv, CallOK
  <2> QED
    BY <1>a, <2>1, <2>2, <2>3, <2>4, <2>5 DEF FlushedOK
<1>6. CASE CacheL2
  <2>1. /\ UNCHANGED <<pos, l1, file, result>> /\ pc = "cache_l2" /\ pc' = "entry"
        /\ DOMAIN l2cache' = DOMAIN l2cache \union {l1Idx} /\ l2cache'[l1Idx] = Zeros
        /\ \A i \in DOMAIN l2cache : i # l1Idx => l2cache'[i] = l2cache[i]
    BY <1>6 DEF CacheL2
  <2>2. result' # "ok"
    BY <2>1 DEF TypeInv, CallOK
  <2> QED
    BY <1>a, <2>1, <2>2, ZerosType DEF FlushedOK
<1>7. CASE ZeroData
  <2>1. /\ UNCHANGED <<l1, pos, result>> /\ pc = "zero_data" /\ pc' = "flush_l2"
        /\ l2cache' = [l2cache EXCEPT ![l1Idx][l2Idx] = off] /\ ZeroData
    BY <1>7 DEF ZeroData
  <2>2. l1Idx \in DOMAIN l2cache /\ l2Idx \in Entries /\ l2cache[l1Idx][l2Idx] = 0
    BY <2>1, LoopFacts DEF LoopPCs, DataPCs, TypeInv, StoreOK, PlacesOK, TablesOK
  <2>3. /\ DOMAIN l2cache' = DOMAIN l2cache
        /\ \A i \in DOMAIN l2cache, j \in Entries :
             l2cache[i][j] # 0 => l2cache'[i][j] = l2cache[i][j]
    BY <2>1, <2>2 DEF TypeInv, StoreOK
  <2>4. \A i \in DOMAIN l2cache : file'[l1[i]] = file[l1[i]]
    <3>1. ~FlushL2 /\ ~FlushOne
      BY <2>1 DEF FlushL2, FlushOne
    <3> QED
      BY <1>b, <2>1, <3>1, KeptByStep
  <2>5. \A i \in DOMAIN l2cache, j \in Entries : file'[l1[i]][j] \in {0, l2cache'[i][j]}
    BY <2>3, <2>4 DEF FlushedOK
  <2>6. result' # "ok"
    BY <2>1 DEF TypeInv, CallOK
  <2> QED
    BY <1>a, <2>1, <2>3, <2>5, <2>6 DEF FlushedOK
<1>8. CASE Close
  <2>1. /\ UNCHANGED <<l1, l2cache, file, result>> /\ pc \in {"idle", "stopped"}
        /\ pc' = "flush_all" /\ unflushed' = DOMAIN l2cache
    BY <1>8 DEF Close
  <2>2. result' # "ok"
    BY <2>1 DEF TypeInv, CallOK
  <2> QED
    BY <1>a, <2>1, <2>2 DEF FlushedOK
<1>9. CASE FlushOne
  <2>1. PICK n \in unflushed : /\ file' = [file EXCEPT ![l1[n]] = l2cache[n]]
                               /\ unflushed' = unflushed \ {n}
    BY <1>9 DEF FlushOne
  <2>2. UNCHANGED <<l1, l2cache, pc, result>> /\ pc = "flush_all" /\ result # "ok"
    BY <1>9 DEF FlushOne, TypeInv, CallOK
  <2>3. n \in DOMAIN l2cache /\ \A i \in DOMAIN l2cache : i \in DOMAIN l1 /\ Given(l1[i])
    BY <1>b, <2>2 DEF TypeInv, StoreOK, PlacesOK, GivenOK
  <2>4. \A i \in DOMAIN l2cache : i # n => l1[i] # l1[n]
    BY <1>b, <2>2, <2>3 DEF PlacesOK, ApartOK
  <2>5. /\ file'[l1[n]] = l2cache[n]
        /\ \A i \in DOMAIN l2cache : i # n => file'[l1[i]] = file[l1[i]]
    BY <2>1, <2>3, <2>4 DEF Given
  <2> QED
    BY <1>a, <2>1, <2>2, <2>3, <2>5 DEF FlushedOK
<1>10. CASE WriteL1
  <2>1. UNCHANGED <<l1, l2cache, result>> /\ pc = "flush_all" /\ unflushed = {}
        /\ pc' = "header" /\ result # "ok"
    BY <1>10 DEF WriteL1, TypeInv, CallOK
  <2>2. \A i \in DOMAIN l2cache : file'[l1[i]] = file[l1[i]]
    <3>1. ~FlushL2 /\ ~FlushOne
      BY <2>1 DEF FlushL2, FlushOne
    <3> QED
      BY <1>b, <2>1, <3>1, KeptByStep
  <2>3. \A i \in DOMAIN l2cache : file[l1[i]] = l2cache[i]
    BY <2>1 DEF FlushedOK
  <2> QED
    BY <1>a, <2>1, <2>2, <2>3 DEF FlushedOK
<1>11. CASE Terminated \/ UNCHANGED vars
  BY <1>a, <1>11 DEF Terminated, vars, FlushedOK, l1Idx, clusterIdx
<1> QED
  BY <1>1, <1>2, <1>3, <1>4, <1>5, <1>6, <1>7, <1>8, <1>9, <1>10, <1>11 DEF Next, Step

\* The cluster of the L1 table, in the file, that holds an entry.
LEMMA L1Place ==
  ASSUME size \in Nat \ {0}, blocks \in Nat, NEW i \in 0 .. l1Size - 1
  PROVE  /\ l1Start + i \div EntriesPerL2 \in 0 .. FirstOff - 1
         /\ i % EntriesPerL2 \in Entries
         /\ \E c \in l1Start .. FirstOff - 1, p \in Entries :
              /\ c = l1Start + i \div EntriesPerL2 /\ p = i % EntriesPerL2
              /\ (c - l1Start) * EntriesPerL2 + p = i
<1>1. /\ l1Size \in Nat /\ l1Clusters \in Nat /\ l1Size <= l1Clusters * EntriesPerL2
      /\ l1Start \in Nat /\ FirstOff = l1Start + l1Clusters
  BY Layout
<1>2. EntriesPerL2 \in Nat \ {0} /\ i \in Nat /\ i < l1Size
  BY <1>1, GeometryAssumption
<1>3. l1Clusters * EntriesPerL2 \in Nat
  BY <1>1, <1>2, Multiples
<1>0. /\ i \div EntriesPerL2 \in Nat /\ i % EntriesPerL2 \in 0 .. EntriesPerL2 - 1
      /\ i = (i \div EntriesPerL2) * EntriesPerL2 + (i % EntriesPerL2)
  BY <1>2, DivMod
<1>4. PICK q \in Nat : q = i \div EntriesPerL2
  BY <1>0
<1>5. q < l1Clusters
  BY <1>1, <1>2, <1>3, <1>4, QuotientBelow
<1>6. PICK r \in Entries : r = i % EntriesPerL2
  BY <1>0 DEF Entries
<1>7. PICK c \in Nat : c = l1Start + q
  BY <1>1
<1>8. c - l1Start = q /\ c \in l1Start .. FirstOff - 1 /\ c \in 0 .. FirstOff - 1
  BY <1>1, <1>5, <1>7
<1>9. (c - l1Start) * EntriesPerL2 + r = i
  BY <1>0, <1>4, <1>6, <1>8
<1> QED
  BY <1>4, <1>6, <1>7, <1>8, <1>9

\* An entry of the L1 table in the file is the one in memory or not there yet; and
\* it is there once Close has written the table.
L1OK ==
  Created => \A i \in DOMAIN l1 :
               /\ L1Entry(i) \in {0, l1[i]}
               /\ pc = "header" \/ result = "ok" => L1Entry(i) = l1[i]

\* The metadata is in the file from the start.
LEMMA MetadataThere ==
  ASSUME TypeInv, Created
  PROVE  0 .. FirstOff - 1 \subseteq DOMAIN file
<1>1. nextOff \in Nat /\ FirstOff \in Nat /\ FirstOff <= nextOff
  BY Layout, GeometryAssumption DEF TypeInv, BasicOK, StoreOK
<1>2. DOMAIN file = 0 .. nextOff - 1 \/ (DOMAIN file = 0 .. nextOff - 2 /\ FirstOff < nextOff)
  BY DEF TypeInv, StoreOK
<1> QED
  BY <1>1, <1>2

LEMMA L1Init == Init => L1OK
BY DEF Init, L1OK, Created

LEMMA L1Step == TypeInv /\ PlacesOK /\ L1OK /\ [Next]_vars => L1OK'
<1> SUFFICES ASSUME TypeInv, PlacesOK, L1OK, [Next]_vars PROVE L1OK'
  OBVIOUS
<1> USE DEF tables, call
<1>a. size \in Nat \ {0} /\ blocks \in Nat
  BY GeometryAssumption DEF TypeInv, BasicOK
<1>b. Created => DOMAIN l1 = 0 .. l1Size - 1
  BY DEF TypeInv, StoreOK
<1>1. CASE GrowRefcounts \/ CreateFails
  BY <1>1 DEF GrowRefcounts, CreateFails, L1OK, Created, TypeInv, CallOK
<1>2. CASE Format
  <2>1. /\ UNCHANGED <<size, blocks, result>> /\ pc' = "idle" /\ result # "ok"
        /\ file' = [c \in 0 .. FirstOff - 1 |-> Zeros]
        /\ l1' = [i \in 0 .. l1Size - 1 |-> 0]
    BY <1>2 DEF Format, TypeInv, CallOK
  <2>2. UNCHANGED <<l1Size, l1Start, FirstOff>>
    BY <2>1, SameGeometry
  <2>3. \A i \in 0 .. l1Size - 1 : L1Entry(i)' = 0
    BY <1>a, <2>1, <2>2, L1Place, ZerosType DEF L1Entry, At
  <2> QED
    BY <2>1, <2>3 DEF L1OK
<1>3. CASE WriteL1
  <2>1. /\ UNCHANGED <<size, blocks, l1, result>> /\ pc = "flush_all" /\ Created
        /\ DOMAIN file' = DOMAIN file
        /\ \A c \in DOMAIN file : c \in l1Start .. FirstOff - 1 =>
             \A i \in Entries : LET n == (c - l1Start) * EntriesPerL2 + i
                                IN  file'[c][i] = IF n < l1Size THEN l1[n] ELSE 0
    BY <1>3 DEF WriteL1, Created, TypeInv, CallOK
  <2>2. UNCHANGED <<l1Size, l1Start, FirstOff>>
    BY <2>1, SameGeometry
  <2>3. ASSUME NEW i \in 0 .. l1Size - 1 PROVE L1Entry(i)' = l1[i]
    <3>1. i < l1Size
      BY <1>a, Layout
    <3>2. l1Start + i \div EntriesPerL2 \in DOMAIN file
      BY <1>a, <2>1, L1Place, MetadataThere
    <3>3. PICK c \in l1Start .. FirstOff - 1, p \in Entries :
            /\ c = l1Start + i \div EntriesPerL2 /\ p = i % EntriesPerL2
            /\ (c - l1Start) * EntriesPerL2 + p = i
      BY <1>a, L1Place
    <3>4. file'[c][p] = l1[i]
      BY <2>1, <3>1, <3>2, <3>3
    <3> QED
      BY <2>1, <2>2, <3>2, <3>3, <3>4 DEF L1Entry, At
  <2> QED
    BY <1>b, <2>1, <2>3 DEF L1OK
<1>4. ASSUME pc # "geometry", ~WriteL1, ~Format, ~GrowRefcounts, ~CreateFails PROVE L1OK'
  <2>1. /\ UNCHANGED <<size, blocks>>
        /\ l1' = l1 \/ ZeroL2
        /\ pc' = "header" => pc = "header"
        /\ result' = "ok" => result = "ok" \/ pc = "header"
        /\ result' # "create_error" => result # "create_error"
    <3>1. CASE FindL2
      <4>1. UNCHANGED <<size, blocks, l1, result>> /\ pc' # "header"
        BY <3>1 DEF FindL2
      <4> QED
        BY <4>1
    <3>2. CASE \/ WriteAt \/ SkipZeros \/ Returned \/ AllocCluster \/ SetRefcount
               \/ ZeroL2 \/ CacheL2 \/ FindData \/ ZeroData \/ FlushL2 \/ WriteData
      BY <3>2 DEF WriteAt, SkipZeros, Returned, AllocCluster, SetRefcount, ZeroL2, CacheL2,
                  FindData, ZeroData, FlushL2, WriteData
    <3>3. CASE \/ WriteFails \/ Close \/ FlushOne \/ Closed \/ CloseFails \/ Terminated
               \/ UNCHANGED vars
      <4>1. UNCHANGED <<size, blocks, l1>>
        BY <3>3 DEF WriteFails, Close, FlushOne, Closed, CloseFails, Terminated, vars
      <4> QED
        BY <3>3, <4>1 DEF WriteFails, Close, FlushOne, Closed, CloseFails, Terminated, vars,
                          TypeInv, CallOK
    <3> QED
      BY <1>4, <3>1, <3>2, <3>3 DEF Next, Step
  <2>2. ASSUME NEW i \in 0 .. l1Size - 1, Created PROVE L1Entry(i)' = L1Entry(i)
    <3>1. UNCHANGED <<l1Size, l1Start, FirstOff>>
      BY <2>1, SameGeometry
    <3>2. PICK c \in 0 .. FirstOff - 1 : c = l1Start + i \div EntriesPerL2
      BY <1>a, L1Place
    <3>3. c \in DOMAIN file /\ c \in DOMAIN file' /\ file'[c] = file[c]
      BY <1>4, <2>2, KeptByStep, MetadataThere
    <3> QED
      BY <3>1, <3>2, <3>3 DEF L1Entry, At
  <2>3. CASE l1' = l1
    BY <1>4, <1>b, <2>1, <2>2, <2>3 DEF L1OK, Created
  <2>4. CASE ZeroL2
    <3>1. l1' = [l1 EXCEPT ![l1Idx] = off] /\ pc = "zero_l2" /\ pc' = "cache_l2"
          /\ result' = result
      BY <2>4 DEF ZeroL2
    <3>2. l1[l1Idx] = 0 /\ result = "none" /\ Created
      BY <3>1 DEF PlacesOK, TablesOK, Created, TypeInv, CallOK
    <3>3. DOMAIN l1' = DOMAIN l1 /\ \A i \in DOMAIN l1 : l1'[i] = l1[i] \/ l1[i] = 0
      BY <3>1, <3>2
    <3> QED
      BY <1>b, <2>2, <3>1, <3>2, <3>3 DEF L1OK
  <2> QED
    BY <2>1, <2>3, <2>4
<1>5. CASE pc = "geometry"
  BY <1>1, <1>2, <1>5 DEF Next, Step, WriteAt, SkipZeros, Returned, FindL2, AllocCluster,
                SetRefcount, ZeroL2, CacheL2, FindData, ZeroData, FlushL2, WriteData, WriteFails,
                Close, FlushOne, WriteL1, Closed, CloseFails, Terminated, vars, L1OK, Created
<1> QED
  BY <1>1, <1>2, <1>3, <1>4, <1>5

-----------------------------------------------------------------------------
(* What is read back.                                                      *)

\* The data of a word, found by way of the tables in memory.
ClusterOf(w) == l2cache[TableOf(w)][EntryOf(w)]
Mapped(w)    == TableOf(w) \in DOMAIN l2cache /\ ClusterOf(w) # 0
HeldAt(w)    == IF Mapped(w) THEN file[ClusterOf(w)][PlaceOf(w)] ELSE 0

\* WriteAt has dealt with the word, and was asked to.
Done(w)  == \/ \E k \in written : w \in ChunkData(k)
            \/ pc \in LoopPCs \union {"piece"} /\ chunk * ChunkWords <= w /\ w < pos
Asked(w) == \/ \E k \in written : w \in ChunkData(k)
            \/ pc # "idle" /\ chunk \in Chunks /\ w \in ChunkData(chunk)

DataOK ==
  \A w \in Words : /\ HeldAt(w) \in {0, source[w]}
                   /\ Done(w) => HeldAt(w) = source[w]
                   /\ source[w] # 0 => Asked(w)

LEMMA DataInit == Init => DataOK
<1> SUFFICES ASSUME Init, NEW w \in Words
             PROVE  HeldAt(w) = 0 /\ source[w] = 0
  BY DEF DataOK
<1>1. DOMAIN l2cache = {} /\ source[w] = 0
  BY DEF Init
<1> QED
  BY <1>1 DEF HeldAt, Mapped

\* A step after which every word is held as it was, and which asks for nothing
\* and is done with nothing new.
LEMMA DataQuiet ==
  ASSUME DataOK, UNCHANGED <<size, blocks, source, written, chunk>>,
         \A w \in Words : HeldAt(w)' = HeldAt(w),
         pc' \in LoopPCs \union {"piece"} =>
           pc \in LoopPCs \union {"piece"} /\ UNCHANGED pos,
         pc' = "idle" => pc = "idle"
  PROVE  DataOK'
<1>1. UNCHANGED <<Words, Chunks>> /\ \A k : ChunkData(k)' = ChunkData(k)
  BY SameGeometry
<1>2. \A w \in Words : Done(w)' => Done(w)
  BY <1>1 DEF Done, LoopPCs
<1>3. \A w \in Words : Asked(w) => Asked(w)'
  BY <1>1 DEF Asked
<1> QED
  BY <1>1, <1>2, <1>3 DEF DataOK

\* Every step that leaves the cached tables and writes no data.
LEMMA HeldKept ==
  ASSUME TypeInv, PlacesOK, [Next]_vars, UNCHANGED l2cache, pc \notin {"geometry", "data"}
  PROVE  \A w \in Words : HeldAt(w)' = HeldAt(w)
<1> SUFFICES ASSUME NEW w \in Words PROVE HeldAt(w)' = HeldAt(w)
  OBVIOUS
<1>1. w \in Nat
  BY DEF Words
<1>2. EntryOf(w) \in Entries
  BY <1>1, WordFacts
<1>3. UNCHANGED <<TableOf(w), EntryOf(w), PlaceOf(w)>>
  BY DEF TableOf, EntryOf, PlaceOf
<1>4. UNCHANGED <<Mapped(w), ClusterOf(w)>>
  BY <1>3 DEF Mapped, ClusterOf
<1>5. ASSUME Mapped(w) PROVE file'[ClusterOf(w)] = file[ClusterOf(w)]
  BY <1>2, <1>5, KeptByStep DEF Mapped, ClusterOf
<1> QED
  BY <1>3, <1>4, <1>5 DEF HeldAt

\* The words of the cluster in hand, when a part of the piece was written to it.
LEMMA HeldAfterWrite ==
  ASSUME TypeInv, PlacesOK, pc = "data", UNCHANGED <<size, blocks, l2cache>>,
         NEW n \in 0 .. want, file' = [file EXCEPT ![off] = Overwritten(off, n)]
  PROVE  \A w \in Words : HeldAt(w)' = IF w \in pos .. pos + n - 1 THEN source[w] ELSE HeldAt(w)
<1> SUFFICES ASSUME NEW w \in Words
             PROVE  HeldAt(w)' = IF w \in pos .. pos + n - 1 THEN source[w] ELSE HeldAt(w)
  OBVIOUS
<1>1. /\ want \in Nat \ {0} /\ pos \in Nat /\ pos \in Words /\ DOMAIN file = 0 .. nextOff - 1
      /\ \A v \in Piece : v \div EntriesPerL2 = clusterIdx
      /\ l1Idx = TableOf(pos) /\ l2Idx = EntryOf(pos) /\ l2Idx \in Entries
  BY LoopFacts DEF LoopPCs
<1>2. /\ l1Idx \in DOMAIN l2cache /\ l2cache[l1Idx][l2Idx] = off /\ off # 0
      /\ off \in DOMAIN file
  BY <1>1 DEF DataPCs, TypeInv, StoreOK, PlacesOK, TablesOK, GivenOK, Given
<1>3. /\ w \in Nat /\ TableOf(w) \in Nat /\ EntryOf(w) \in Entries /\ PlaceOf(w) \in Entries
      /\ w = (w \div EntriesPerL2) * EntriesPerL2 + PlaceOf(w)
  BY WordFacts DEF Words
<1>4. UNCHANGED <<TableOf(w), EntryOf(w), PlaceOf(w)>>
  BY DEF TableOf, EntryOf, PlaceOf
<1>5. UNCHANGED <<Mapped(w), ClusterOf(w)>>
  BY <1>4 DEF Mapped, ClusterOf
<1>6. ASSUME Mapped(w), ClusterOf(w) = off
      PROVE  HeldAt(w)' = IF w \in pos .. pos + n - 1 THEN source[w] ELSE HeldAt(w)
  <2>1. TableOf(w) = TableOf(pos) /\ EntryOf(w) = EntryOf(pos)
    BY <1>1, <1>2, <1>3, <1>6 DEF Mapped, ClusterOf, PlacesOK, ApartOK
  <2>2. w \div EntriesPerL2 = clusterIdx
    BY <1>1, <1>3, <2>1, SameCluster DEF clusterIdx
  <2>3. clusterIdx * EntriesPerL2 + PlaceOf(w) = w
    BY <1>3, <2>2
  <2>4. Overwritten(off, n)[PlaceOf(w)] =
          IF w \in pos .. pos + n - 1 THEN source[w] ELSE file[off][PlaceOf(w)]
    BY <1>3, <2>3 DEF Overwritten
  <2>5. file'[off] = Overwritten(off, n)
    BY <1>2
  <2> QED
    BY <1>4, <1>5, <1>6, <2>4, <2>5 DEF HeldAt
<1>7. ASSUME ~(Mapped(w) /\ ClusterOf(w) = off) PROVE w \notin pos .. pos + n - 1
  <2> SUFFICES ASSUME w \in pos .. pos + n - 1 PROVE FALSE
    OBVIOUS
  <2>1. w \in Piece
    BY <1>1 DEF Piece
  <2>2. TableOf(w) = l1Idx /\ EntryOf(w) = l2Idx
    BY <1>1, <2>1 DEF TableOf, EntryOf, l1Idx, l2Idx
  <2> QED
    BY <1>2, <1>7, <2>2 DEF Mapped, ClusterOf
<1>8. ASSUME ~(Mapped(w) /\ ClusterOf(w) = off) PROVE HeldAt(w)' = HeldAt(w)
  <2>1. CASE ~Mapped(w)
    BY <1>5, <2>1 DEF HeldAt
  <2>2. CASE Mapped(w) /\ ClusterOf(w) # off
    <3>1. ClusterOf(w) \in DOMAIN file
      BY <1>3, <2>2 DEF Mapped, ClusterOf, PlacesOK, GivenOK, Given
    <3>2. file'[ClusterOf(w)] = file[ClusterOf(w)]
      BY <2>2, <3>1
    <3> QED
      BY <1>4, <1>5, <2>2, <3>2 DEF HeldAt
  <2> QED
    BY <1>8, <2>1, <2>2
<1> QED
  BY <1>6, <1>7, <1>8

\* A new table or a new data cluster holds zeros, as the words did before.
LEMMA HeldCacheL2 ==
  ASSUME TypeInv, PlacesOK, CacheL2
  PROVE  \A w \in Words : HeldAt(w)' = HeldAt(w)
<1> SUFFICES ASSUME NEW w \in Words PROVE HeldAt(w)' = HeldAt(w)
  OBVIOUS
<1>1. /\ UNCHANGED file /\ pc = "cache_l2"
      /\ DOMAIN l2cache' = DOMAIN l2cache \union {l1Idx} /\ l2cache'[l1Idx] = Zeros
      /\ \A i \in DOMAIN l2cache : i # l1Idx => l2cache'[i] = l2cache[i]
  BY DEF CacheL2
<1>2. l1Idx \notin DOMAIN l2cache
  BY <1>1 DEF PlacesOK, TablesOK
<1>3. UNCHANGED <<TableOf(w), EntryOf(w), PlaceOf(w)>>
  BY DEF TableOf, EntryOf, PlaceOf
<1>4. EntryOf(w) \in Entries
  BY WordFacts DEF Words
<1>5. Mapped(w)' = Mapped(w) /\ (Mapped(w) => ClusterOf(w)' = ClusterOf(w))
  BY <1>1, <1>2, <1>3, <1>4, ZerosType DEF Mapped, ClusterOf
<1> QED
  BY <1>1, <1>3, <1>5 DEF HeldAt

LEMMA HeldZeroData ==
  ASSUME TypeInv, PlacesOK, ZeroData, [Next]_vars
  PROVE  \A w \in Words : HeldAt(w)' = HeldAt(w)
<1> SUFFICES ASSUME NEW w \in Words PROVE HeldAt(w)' = HeldAt(w)
  OBVIOUS
<1>1. /\ pc = "zero_data" /\ file' = [file EXCEPT ![off] = Zeros]
      /\ l2cache' = [l2cache EXCEPT ![l1Idx][l2Idx] = off]
  BY DEF ZeroData
<1>2. /\ l1Idx \in DOMAIN l2cache /\ l2Idx \in Entries /\ l2cache[l1Idx][l2Idx] = 0
      /\ off \in DOMAIN file
  <2>1. DOMAIN file = 0 .. nextOff - 1 /\ l2Idx \in Entries
    BY <1>1, LoopFacts DEF LoopPCs
  <2>2. off = nextOff - 1 /\ off \in Nat /\ nextOff \in Nat
    BY <1>1 DEF PlacesOK, FreshOK, FreshPCs, TypeInv, BasicOK
  <2> QED
    BY <1>1, <2>1, <2>2 DEF DataPCs, TypeInv, StoreOK, PlacesOK, TablesOK
<1>3. UNCHANGED <<TableOf(w), EntryOf(w), PlaceOf(w)>>
  BY DEF TableOf, EntryOf, PlaceOf
<1>4. EntryOf(w) \in Entries /\ PlaceOf(w) \in Entries
  BY WordFacts DEF Words
<1>5. CASE TableOf(w) = l1Idx /\ EntryOf(w) = l2Idx
  <2>1. HeldAt(w) = 0
    BY <1>2, <1>5 DEF HeldAt, Mapped, ClusterOf
  <2>2. ClusterOf(w)' = off /\ file'[off] = Zeros
    BY <1>1, <1>2, <1>3, <1>5 DEF ClusterOf, TypeInv, StoreOK
  <2> QED
    BY <1>3, <1>4, <2>1, <2>2, ZerosType DEF HeldAt
<1>6. CASE ~(TableOf(w) = l1Idx /\ EntryOf(w) = l2Idx)
  <2>1. Mapped(w)' = Mapped(w) /\ (Mapped(w) => ClusterOf(w)' = ClusterOf(w))
    BY <1>1, <1>2, <1>3, <1>4, <1>6 DEF Mapped, ClusterOf, TypeInv, StoreOK
  <2>2. ASSUME Mapped(w) PROVE file'[ClusterOf(w)] = file[ClusterOf(w)]
    <3>1. ClusterOf(w) \in DOMAIN file /\ ClusterOf(w) # off
      BY <1>1, <1>4, <2>2 DEF Mapped, ClusterOf, PlacesOK, GivenOK, Given, Fresh, FreshPCs
    <3> QED
      BY <1>1, <3>1
  <2> QED
    BY <1>3, <2>1, <2>2 DEF HeldAt
<1> QED
  BY <1>5, <1>6

LEMMA DataStep == TypeInv /\ PlacesOK /\ DataOK /\ [Next]_vars => DataOK'
<1> SUFFICES ASSUME TypeInv, PlacesOK, DataOK, [Next]_vars PROVE DataOK'
  OBVIOUS
<1> USE DEF tables, call
<1>a. size \in Nat \ {0} /\ blocks \in Nat
  BY GeometryAssumption DEF TypeInv, BasicOK
<1>1. CASE GrowRefcounts \/ Format \/ CreateFails
  <2>1. /\ ~Created /\ UNCHANGED <<size, l2cache, source>>
    BY <1>1 DEF GrowRefcounts, Format, CreateFails, Created
  <2>2. DOMAIN l2cache = {} /\ \A w \in Words : source[w] = 0
    BY <2>1 DEF TypeInv, EmptyOK
  <2>3. UNCHANGED Words
    BY <2>1 DEF Words
  <2>4. \A w \in Words : HeldAt(w)' = 0
    BY <2>1, <2>2 DEF HeldAt, Mapped
  <2> QED
    BY <2>1, <2>2, <2>3, <2>4 DEF DataOK
<1>2. CASE \/ FindL2 \/ AllocCluster \/ SetRefcount \/ ZeroL2 \/ FindData \/ FlushL2
           \/ Close \/ FlushOne \/ WriteL1 \/ Closed \/ CloseFails
  <2>1. /\ UNCHANGED <<size, blocks, source, written, chunk, l2cache, pos>>
        /\ pc \notin {"geometry", "data"}
        /\ \/ pc' \in EndPCs
           \/ pc \in LoopPCs \union {"piece"} /\ pc' \in LoopPCs
    BY <1>2 DEF FindL2, AllocCluster, SetRefcount, ZeroL2, FindData, FlushL2, Close, FlushOne,
                WriteL1, Closed, CloseFails, EndPCs, LoopPCs
  <2>2. pc' \in LoopPCs \union {"piece"} => pc \in LoopPCs \union {"piece"}
    BY <2>1 DEF EndPCs, LoopPCs
  <2>3. pc' # "idle"
    BY <2>1 DEF EndPCs, LoopPCs
  <2> QED
    BY <2>1, <2>2, <2>3, HeldKept, DataQuiet
<1>3. CASE CacheL2 \/ ZeroData
  <2>1. /\ UNCHANGED <<size, blocks, source, written, chunk, pos>>
        /\ pc \in LoopPCs /\ pc' \in LoopPCs /\ pc' # "idle"
    BY <1>3 DEF CacheL2, ZeroData, LoopPCs
  <2> QED
    BY <1>3, <2>1, HeldCacheL2, HeldZeroData, DataQuiet
<1>4. CASE WriteFails
  <2>1. /\ UNCHANGED <<size, blocks, source, written, chunk, l2cache, pos>>
        /\ pc # "geometry" /\ pc' = "stopped" /\ pc \in LoopPCs
    BY <1>4 DEF WriteFails, LoopPCs
  <2>2. CASE pc # "data"
    BY <2>1, <2>2, HeldKept, DataQuiet DEF LoopPCs
  <2>3. CASE pc = "data"
    <3>1. PICK n \in 0 .. want : file' = [file EXCEPT ![off] = Overwritten(off, n)]
      BY <1>4, <2>3 DEF WriteFails
    <3>2. \A w \in Words : HeldAt(w)' \in {HeldAt(w), source[w]}
      BY <2>1, <2>3, <3>1, HeldAfterWrite
    <3>3. UNCHANGED <<Words, Chunks>> /\ \A k : ChunkData(k)' = ChunkData(k)
      BY <2>1, SameGeometry
    <3>4. \A w \in Words : Done(w)' => Done(w)
      BY <2>1, <3>3 DEF Done, LoopPCs
    <3>5. \A w \in Words : Asked(w) => Asked(w)'
      BY <2>1, <3>3 DEF Asked
    <3> QED
      BY <2>1, <3>2, <3>3, <3>4, <3>5 DEF DataOK
  <2> QED
    BY <2>2, <2>3
<1>5. CASE WriteData \/ SkipZeros
  <2>1. /\ UNCHANGED <<size, blocks, source, written, chunk, l2cache>>
        /\ pc \in LoopPCs \/ (pc = "piece" /\ pos < ChunkEnd(chunk))
        /\ pc' = "piece" /\ pos' = pos + want
    BY <1>5 DEF WriteData, SkipZeros, LoopPCs
  <2>2. want \in Nat \ {0} /\ pos \in Nat /\ chunk * ChunkWords <= pos
        /\ chunk \in Chunks /\ Piece \subseteq Words
    BY <2>1, LoopFacts
  <2>3. UNCHANGED <<Words, Chunks>> /\ \A k : ChunkData(k)' = ChunkData(k)
    BY <2>1, SameGeometry
  <2>4. ASSUME NEW w \in Words
        PROVE  /\ HeldAt(w)' \in {HeldAt(w), source[w]}
               /\ w \in Piece => HeldAt(w)' = source[w]
    <3>1. CASE WriteData
      <4>1. pc = "data" /\ file' = [file EXCEPT ![off] = Overwritten(off, want)]
            /\ want \in 0 .. want
        BY <2>2, <3>1 DEF WriteData
      <4> QED
        BY <2>1, <4>1, HeldAfterWrite DEF Piece
    <3>2. CASE SkipZeros
      <4>1. pc = "piece" /\ \A v \in Piece : source[v] = 0
        BY <3>2 DEF SkipZeros, Skippable
      <4>2. HeldAt(w)' = HeldAt(w)
        BY <2>1, <4>1, HeldKept
      <4> QED
        BY <4>1, <4>2 DEF DataOK
    <3> QED
      BY <1>5, <3>1, <3>2
  <2>5. \A w \in Words : Done(w)' => Done(w) \/ w \in Piece
    <3> SUFFICES ASSUME NEW w \in Words, Done(w)' PROVE Done(w) \/ w \in Piece
      OBVIOUS
    <3>1. w \in Nat /\ pc \in LoopPCs \union {"piece"}
      BY <2>1 DEF Words
    <3> QED
      BY <2>1, <2>2, <2>3, <3>1 DEF Done, Piece
  <2>6. \A w \in Words : Asked(w) => Asked(w)'
    BY <2>1, <2>3 DEF Asked
  <2> QED
    BY <2>1, <2>3, <2>4, <2>5, <2>6 DEF DataOK
<1>6. CASE Returned
  <2>1. /\ UNCHANGED <<size, blocks, source, chunk, l2cache, pos>>
        /\ pc = "piece" /\ pos >= ChunkEnd(chunk) /\ pc' = "idle"
        /\ written' = written \union {chunk}
    BY <1>6 DEF Returned
  <2>2. UNCHANGED <<Words, Chunks>> /\ \A k : ChunkData(k)' = ChunkData(k)
    BY <2>1, SameGeometry
  <2>3. \A w \in Words : HeldAt(w)' = HeldAt(w)
    BY <2>1, HeldKept
  <2>4. chunk \in Chunks /\ chunk \in Nat /\ chunk * ChunkWords \in Nat
        /\ ChunkEnd(chunk) \in Nat /\ pos \in Nat
    BY <1>a, <2>1, ChunkFacts DEF TypeInv, BasicOK, CallOK
  <2>5. ASSUME NEW w \in Words, Done(w)' PROVE Done(w)
    <3>1. CASE w \in ChunkData(chunk)
      BY <2>1, <2>4, <3>1 DEF Done, ChunkData
    <3>2. CASE w \notin ChunkData(chunk)
      BY <2>1, <2>2, <2>5, <3>2 DEF Done, LoopPCs
    <3> QED
      BY <3>1, <3>2
  <2>6. \A w \in Words : Asked(w) => Asked(w)'
    BY <2>1, <2>2 DEF Asked
  <2> QED
    BY <2>1, <2>2, <2>3, <2>5, <2>6 DEF DataOK
<1>7. CASE WriteAt
  <2>1. PICK k \in Chunks \ written, data \in SUBSET Words :
          /\ data \subseteq ChunkData(k)
          /\ source' = [w \in Words |-> IF w \in data THEN w + 1 ELSE source[w]]
          /\ chunk' = k /\ pos' = k * ChunkWords
    BY <1>7 DEF WriteAt
  <2>2. UNCHANGED <<size, blocks, written, l2cache>> /\ pc = "idle" /\ pc' = "piece"
    BY <1>7 DEF WriteAt
  <2>3. UNCHANGED <<Words, Chunks>> /\ \A m : ChunkData(m)' = ChunkData(m)
    BY <2>2, SameGeometry
  <2>4. \A w \in Words : HeldAt(w)' = HeldAt(w)
    BY <2>2, HeldKept
  <2>5. k * ChunkWords \in Nat
    BY <1>a, ChunkFacts
  <2>6. ASSUME NEW w \in Words, Done(w)' PROVE Done(w)
    <3>1. ~(k * ChunkWords <= w /\ w < k * ChunkWords)
      BY <2>5 DEF Words
    <3> QED
      BY <2>1, <2>2, <2>3, <2>6, <3>1 DEF Done
  <2>7. ASSUME NEW w \in Words, w \in ChunkData(k)
        PROVE  source[w] = 0 /\ HeldAt(w) = 0 /\ ~Done(w)
    <3>1. ~(\E m \in written : w \in ChunkData(m))
      BY <1>a, <2>7, ChunksApart DEF TypeInv, BasicOK
    <3> QED
      BY <2>2, <3>1 DEF DataOK, Asked, Done, LoopPCs
  <2>8. \A w \in Words : w \notin ChunkData(k) => source'[w] = source[w]
    BY <2>1
  <2>9. \A w \in Words : (Asked(w) \/ w \in ChunkData(k)) => Asked(w)'
    BY <2>1, <2>2, <2>3 DEF Asked
  <2>10. ASSUME NEW w \in Words
         PROVE  /\ HeldAt(w)' \in {0, source'[w]}
                /\ Done(w)' => HeldAt(w)' = source'[w]
                /\ source'[w] # 0 => Asked(w)'
    <3>1. CASE w \in ChunkData(k)
      BY <2>4, <2>6, <2>7, <2>9, <3>1
    <3>2. CASE w \notin ChunkData(k)
      BY <2>4, <2>6, <2>8, <2>9, <3>2 DEF DataOK
    <3> QED
      BY <3>1, <3>2
  <2> QED
    BY <2>3, <2>10 DEF DataOK
<1>8. CASE Terminated \/ UNCHANGED vars
  <2>1. UNCHANGED <<size, blocks, source, written, chunk, pos, l2cache, file, pc>>
    BY <1>8 DEF Terminated, vars
  <2>2. \A w : HeldAt(w)' = HeldAt(w)
    BY <2>1 DEF HeldAt, Mapped, ClusterOf, TableOf, EntryOf, PlaceOf
  <2> QED
    BY <2>1, <2>2, DataQuiet
<1> QED
  BY <1>1, <1>2, <1>3, <1>4, <1>5, <1>6, <1>7, <1>8 DEF Next, Step

\* What a reader of the file finds on its way to a word.
LEMMA ReaderFacts ==
  ASSUME TypeInv, PlacesOK, FlushedOK, L1OK, Created,
         NEW i \in DOMAIN l1, L1Entry(i) # 0
  PROVE  /\ L1Entry(i) = l1[i] /\ L1Entry(i) \in DOMAIN file
         /\ \A j \in Entries : file[L1Entry(i)][j] # 0 =>
              /\ i \in DOMAIN l2cache /\ file[L1Entry(i)][j] = l2cache[i][j]
              /\ l2cache[i][j] \in DOMAIN file
<1>1. L1Entry(i) = l1[i] /\ l1[i] # 0
  BY DEF L1OK
<1>2. l1[i] \in DOMAIN file
  BY <1>1 DEF PlacesOK, GivenOK, Given
<1>3. ASSUME NEW j \in Entries, file[l1[i]][j] # 0
      PROVE  i \in DOMAIN l2cache /\ file[l1[i]][j] = l2cache[i][j]
  <2>1. i \in DOMAIN l2cache
    BY <1>1, <1>3 DEF PlacesOK, TablesOK, FlushedOK
  <2> QED
    BY <1>3, <2>1 DEF FlushedOK
<1>4. \A j \in Entries : i \in DOMAIN l2cache /\ l2cache[i][j] # 0 =>
                           l2cache[i][j] \in DOMAIN file
  BY DEF PlacesOK, GivenOK, Given
<1> QED
  BY <1>1, <1>2, <1>3, <1>4

LEMMA ReadFacts ==
  ASSUME TypeInv, PlacesOK, FlushedOK, L1OK, Created, NEW w \in Words
  PROVE  /\ ReadAt(w) \in {0, HeldAt(w)}
         /\ result = "ok" => ReadAt(w) = HeldAt(w)
<1>a. size \in Nat \ {0} /\ blocks \in Nat
  BY GeometryAssumption DEF TypeInv, BasicOK
<1> DEFINE i == TableOf(w)
           j == EntryOf(w)
           c == At(L1Entry(i), j)
<1>1. i \in DOMAIN l1 /\ j \in Entries
  BY <1>a, WordsFit, WordFacts DEF TypeInv, StoreOK
<1>2. ReadAt(w) = IF L1Entry(i) = 0 \/ c = 0 THEN 0 ELSE At(c, PlaceOf(w))
  BY DEF ReadAt, TableOf, EntryOf, PlaceOf
<1>3. Mapped(w) <=> i \in DOMAIN l2cache /\ l2cache[i][j] # 0
  BY DEF Mapped, ClusterOf
<1>4. HeldAt(w) = IF Mapped(w) THEN file[l2cache[i][j]][PlaceOf(w)] ELSE 0
  BY DEF HeldAt, ClusterOf
<1> HIDE DEF i, j, c
<1>5. ASSUME L1Entry(i) # 0, c # 0 PROVE ReadAt(w) = HeldAt(w)
  <2>1. L1Entry(i) \in DOMAIN file /\ c = file[L1Entry(i)][j]
    BY <1>1, <1>5, ReaderFacts DEF At, c
  <2>2. i \in DOMAIN l2cache /\ c = l2cache[i][j] /\ c \in DOMAIN file
    BY <1>1, <1>5, <2>1, ReaderFacts
  <2> QED
    BY <1>2, <1>3, <1>4, <1>5, <2>2 DEF At
<1>6. ASSUME result = "ok", Mapped(w) PROVE L1Entry(i) # 0 /\ c # 0
  <2>1. i \in DOMAIN l2cache /\ l2cache[i][j] # 0 /\ l1[i] # 0
    BY <1>3, <1>6 DEF PlacesOK, TablesOK
  <2>2. L1Entry(i) = l1[i] /\ file[l1[i]] = l2cache[i]
    BY <1>1, <1>6, <2>1 DEF L1OK, FlushedOK
  <2>3. L1Entry(i) \in DOMAIN file
    BY <1>1, <2>1, <2>2, ReaderFacts
  <2> QED
    BY <2>1, <2>2, <2>3 DEF At, c
<1> QED
  BY <1>2, <1>4, <1>5, <1>6

ImageInv == TypeInv /\ PlacesOK /\ FlushedOK /\ L1OK /\ DataOK

LEMMA ImageInit == Init => ImageInv
BY TypeInit, PlacesInit, FlushedInit, L1Init, DataInit DEF ImageInv

LEMMA ImageStep == ImageInv /\ [Next]_vars => ImageInv'
BY TypeStep, PlacesStep, FlushedStep, L1Step, DataStep DEF ImageInv

\* Whenever the program is killed, in whichever order the chunks came and the
\* tables were flushed, CheckFile accepts the file, and a word of it is read as
\* zeros or as what was to be written there.
THEOREM KilledImageIsSound == Spec => []KilledIsSound
<1>1. ImageInv => KilledIsSound
  <2> SUFFICES ASSUME ImageInv, Created
               PROVE  CheckFile /\ \A w \in Words : ReadAt(w) \in {0, source[w]}
    BY DEF KilledIsSound
  <2>1. CheckFile
    <3>1. DOMAIN l1 = 0 .. l1Size - 1
      BY DEF ImageInv, TypeInv, StoreOK
    <3> QED
      BY <3>1, ReaderFacts DEF CheckFile, ImageInv
  <2>2. \A w \in Words : ReadAt(w) \in {0, HeldAt(w)}
    BY ReadFacts DEF ImageInv
  <2>3. \A w \in Words : HeldAt(w) \in {0, source[w]}
    BY DEF ImageInv, DataOK
  <2> QED
    BY <2>1, <2>2, <2>3
<1> QED
  BY <1>1, ImageInit, ImageStep, PTL DEF Spec

\* When Close has returned nil, a reader finds every word of every chunk for
\* which WriteAt returned nil, the zeros it skipped among them.
THEOREM ClosedImageReadsBack == Spec => []SealedReadsBack
<1>1. ImageInv => SealedReadsBack
  <2> SUFFICES ASSUME ImageInv, result = "ok", NEW k \in written, NEW w \in ChunkData(k)
               PROVE  ReadAt(w) = source[w]
    BY DEF SealedReadsBack
  <2>1. Created
    BY DEF Created, ImageInv, TypeInv, CallOK
  <2>2. w \in Words
    BY ChunkFacts, GeometryAssumption DEF ImageInv, TypeInv, BasicOK
  <2>3. HeldAt(w) = source[w]
    BY <2>2 DEF ImageInv, DataOK, Done
  <2> QED
    BY <2>1, <2>2, <2>3, ReadFacts DEF ImageInv
<1> QED
  BY <1>1, ImageInit, ImageStep, PTL DEF Spec

-----------------------------------------------------------------------------
(* Refcounts.                                                              *)

\* The clusters that the entries of a set of tables refer to.
LEMMA EntriesAre ==
  ASSUME NEW t, NEW c
  PROVE  c \in {t[e[1]][e[2]] : e \in {d \in (DOMAIN t) \X Entries : t[d[1]][d[2]] # 0}} <=>
           c # 0 /\ \E i \in DOMAIN t, j \in Entries : t[i][j] = c
<1> DEFINE D == {d \in (DOMAIN t) \X Entries : t[d[1]][d[2]] # 0}
<1>1. ASSUME NEW i \in DOMAIN t, NEW j \in Entries, t[i][j] = c, c # 0
      PROVE  \E e \in D : t[e[1]][e[2]] = c
  <2>1. <<i, j>> \in D /\ t[<<i, j>>[1]][<<i, j>>[2]] = c
    BY <1>1
  <2> QED
    BY <2>1
<1>2. ASSUME NEW e \in D, t[e[1]][e[2]] = c
      PROVE  c # 0 /\ \E i \in DOMAIN t, j \in Entries : t[i][j] = c
  BY <1>2
<1> QED
  BY <1>1, <1>2

\* A cluster is in use as metadata, as a table, or as data.
UsedBy(f, t, c) ==
  \/ c \in 0 .. FirstOff - 1
  \/ c # 0 /\ \E i \in DOMAIN f : f[i] = c
  \/ c # 0 /\ \E i \in DOMAIN t, j \in Entries : t[i][j] = c

LEMMA InUseIs == \A c : c \in InUse <=> UsedBy(l1, l2cache, c)
BY EntriesAre DEF InUse, L2Clusters, DataEntries, UsedBy

LEMMA InUseNext ==
  ASSUME UNCHANGED FirstOff
  PROVE  \A c : c \in InUse' <=> UsedBy(l1', l2cache', c)
<1>1. PICK f, t : f = l1' /\ t = l2cache'
  OBVIOUS
<1>2. InUse' = (0 .. FirstOff - 1) \union ({f[i] : i \in DOMAIN f} \ {0})
                 \union {t[e[1]][e[2]] :
                           e \in {d \in (DOMAIN t) \X Entries : t[d[1]][d[2]] # 0}}
  BY <1>1 DEF InUse, L2Clusters, DataEntries, Entries
<1>3. \A c : c \in InUse' <=> UsedBy(f, t, c)
  BY <1>2, EntriesAre DEF UsedBy
<1> QED
  BY <1>1, <1>3

\* The cluster handed out last: nothing refers to it yet, or it is counted too.
Unreferred == IF pc \in FreshPCs THEN {off} ELSE {}
CountedYet == IF pc \in {"zero_l2", "zero_data"} THEN {off} ELSE {}

CountedOK ==
  Created =>
    /\ InUse \subseteq counted
    /\ pc \notin EndPCs => /\ 0 .. nextOff - 1 = InUse \union Unreferred
                           /\ counted = InUse \union CountedYet
    /\ pc \in EndPCs => counted = InUse \/ Chunks # written

LEMMA CountedInit == Init => CountedOK
BY DEF Init, CountedOK, Created

\* A step that leaves the tables.
LEMMA SameInUse ==
  ASSUME UNCHANGED <<size, blocks, l1, l2cache>>
  PROVE  UNCHANGED InUse
<1>1. UNCHANGED <<FirstOff, Entries>>
  BY SameGeometry DEF Entries
<1> QED
  BY <1>1 DEF InUse, L2Clusters, DataEntries

\* A table or a data cluster comes into use.
LEMMA InUseGrows ==
  ASSUME TypeInv, PlacesOK, ZeroL2 \/ ZeroData
  PROVE  InUse' = InUse \union {off}
<1>a. size \in Nat \ {0} /\ blocks \in Nat
  BY GeometryAssumption DEF TypeInv, BasicOK
<1>1. pc \in {"zero_l2", "zero_data"} /\ UNCHANGED <<size, blocks, pos>>
  BY DEF ZeroL2, ZeroData, call
<1>2. UNCHANGED <<FirstOff, Entries>> /\ FirstOff \in Nat \ {0} /\ off # 0
  <2>1. FirstOff <= off /\ off \in Nat /\ FirstOff \in Nat \ {0}
    BY <1>a, <1>1, Layout DEF PlacesOK, FreshOK, FreshPCs, TypeInv, BasicOK
  <2> QED
    BY <1>1, <2>1, SameGeometry DEF Entries
<1>3. l1Idx \in DOMAIN l1 /\ l2Idx \in Entries
  <2>1. Created /\ l1Idx \in 0 .. l1Size - 1 /\ l2Idx \in Entries
    BY <1>1, LoopFacts DEF LoopPCs
  <2> QED
    BY <2>1 DEF TypeInv, StoreOK
<1>4. ASSUME NEW c PROVE c \in InUse' <=> c \in InUse \union {off}
  <2>1. /\ c \in InUse <=> UsedBy(l1, l2cache, c)
        /\ c \in InUse' <=> UsedBy(l1', l2cache', c)
    BY <1>2, InUseIs, InUseNext
  <2>2. CASE ZeroL2
    <3>1. /\ l1' = [l1 EXCEPT ![l1Idx] = off] /\ l2cache' = l2cache /\ l1[l1Idx] = 0
      BY <2>2 DEF ZeroL2, PlacesOK, TablesOK
    <3>2. (\E i \in DOMAIN l1' : l1'[i] = c) /\ c # 0 <=>
            c = off \/ (c # 0 /\ \E i \in DOMAIN l1 : l1[i] = c)
      BY <1>2, <1>3, <3>1
    <3> QED
      BY <2>1, <3>1, <3>2 DEF UsedBy
  <2>3. CASE ZeroData
    <3>1. /\ l2cache' = [l2cache EXCEPT ![l1Idx][l2Idx] = off] /\ l1' = l1
          /\ l2cache[l1Idx][l2Idx] = 0 /\ l1Idx \in DOMAIN l2cache
      BY <2>3 DEF ZeroData, PlacesOK, TablesOK, TypeInv, StoreOK, DataPCs
    <3>2. /\ DOMAIN l2cache' = DOMAIN l2cache /\ l2cache'[l1Idx][l2Idx] = off
          /\ \A i \in DOMAIN l2cache, j \in Entries :
               i # l1Idx \/ j # l2Idx => l2cache'[i][j] = l2cache[i][j]
      BY <1>3, <3>1 DEF TypeInv, StoreOK
    <3>3. c # 0 /\ (\E i \in DOMAIN l2cache', j \in Entries : l2cache'[i][j] = c) <=>
            \/ c = off
            \/ c # 0 /\ \E i \in DOMAIN l2cache, j \in Entries : l2cache[i][j] = c
      BY <1>2, <1>3, <3>1, <3>2
    <3> QED
      BY <2>1, <3>1, <3>3 DEF UsedBy
  <2> QED
    BY <2>2, <2>3
<1> QED
  BY <1>4

LEMMA CountedStep == TypeInv /\ PlacesOK /\ CountedOK /\ [Next]_vars => CountedOK'
<1> SUFFICES ASSUME TypeInv, PlacesOK, CountedOK, [Next]_vars PROVE CountedOK'
  OBVIOUS
<1> USE DEF tables, call
<1>a. size \in Nat \ {0} /\ blocks \in Nat
  BY GeometryAssumption DEF TypeInv, BasicOK
<1>1. CASE GrowRefcounts \/ CreateFails
  BY <1>1 DEF GrowRefcounts, CreateFails, CountedOK, Created, TypeInv, CallOK
<1>2. CASE Format
  <2>1. /\ UNCHANGED <<size, blocks, l2cache>> /\ pc' = "idle" /\ nextOff' = FirstOff
        /\ counted' = 0 .. FirstOff - 1 /\ l1' = [i \in 0 .. l1Size - 1 |-> 0]
        /\ DOMAIN l2cache = {}
    BY <1>2 DEF Format, TypeInv, EmptyOK, Created
  <2>2. UNCHANGED FirstOff
    BY <2>1, SameGeometry
  <2>3. \A c : c \in InUse' <=> c \in 0 .. FirstOff - 1
    BY <2>1, <2>2, InUseNext DEF UsedBy
  <2>4. InUse' = 0 .. FirstOff - 1
    BY <2>3
  <2> QED
    BY <2>1, <2>4 DEF CountedOK, Unreferred, CountedYet, FreshPCs, EndPCs
<1>3. CASE ZeroL2 \/ ZeroData
  <2>1. InUse' = InUse \union {off}
    BY <1>3, InUseGrows
  <2>2. UNCHANGED <<nextOff, counted>> /\ pc \in {"zero_l2", "zero_data"}
        /\ pc' \in {"cache_l2", "flush_l2"} /\ Created
    BY <1>3 DEF ZeroL2, ZeroData, Created, TypeInv, CallOK
  <2> QED
    BY <2>1, <2>2 DEF CountedOK, Unreferred, CountedYet, FreshPCs, EndPCs
<1>4. CASE CacheL2
  <2>1. /\ UNCHANGED <<size, blocks, nextOff, counted, l1>> /\ pc = "cache_l2" /\ pc' = "entry"
        /\ DOMAIN l2cache' = DOMAIN l2cache \union {l1Idx} /\ l2cache'[l1Idx] = Zeros
        /\ \A i \in DOMAIN l2cache : i # l1Idx => l2cache'[i] = l2cache[i]
        /\ l1Idx \notin DOMAIN l2cache /\ Created
    BY <1>4 DEF CacheL2, PlacesOK, TablesOK, Created, TypeInv, CallOK
  <2>2. UNCHANGED <<FirstOff, Entries>>
    BY <2>1, SameGeometry DEF Entries
  <2>3. \A c : UsedBy(l1, l2cache', c) <=> UsedBy(l1, l2cache, c)
    BY <2>1, ZerosType DEF UsedBy
  <2>4. InUse' = InUse
    BY <2>1, <2>2, <2>3, InUseIs, InUseNext
  <2> QED
    BY <2>1, <2>4 DEF CountedOK, Unreferred, CountedYet, FreshPCs, EndPCs
<1>5. CASE AllocCluster
  <2>1. /\ UNCHANGED <<size, blocks, l1, l2cache, counted>> /\ pc \in {"alloc_l2", "alloc_data"}
        /\ pc' \in {"count_l2", "count_data"} /\ off' = nextOff /\ nextOff' = nextOff + 1
        /\ nextOff \in Nat /\ Created
    BY <1>5 DEF AllocCluster, TypeInv, BasicOK, CallOK, Created
  <2>2. InUse' = InUse
    BY <2>1, SameInUse
  <2>3. 0 .. nextOff' - 1 = (0 .. nextOff - 1) \union {off'}
    BY <2>1
  <2> QED
    BY <2>1, <2>2, <2>3 DEF CountedOK, Unreferred, CountedYet, FreshPCs, EndPCs
<1>6. CASE SetRefcount
  <2>1. /\ UNCHANGED <<size, blocks, l1, l2cache, off, nextOff>>
        /\ pc \in {"count_l2", "count_data"} /\ pc' \in {"zero_l2", "zero_data"}
        /\ counted' = counted \union {off} /\ Created
    BY <1>6 DEF SetRefcount, TypeInv, CallOK, Created
  <2>2. InUse' = InUse
    BY <2>1, SameInUse
  <2> QED
    BY <2>1, <2>2 DEF CountedOK, Unreferred, CountedYet, FreshPCs, EndPCs
<1>7. CASE WriteAt \/ SkipZeros \/ Returned \/ FindL2 \/ FindData \/ FlushL2 \/ WriteData
  <2>1. /\ UNCHANGED <<size, blocks, l1, l2cache, nextOff, counted>>
        /\ pc \notin FreshPCs \union EndPCs \union {"geometry"}
        /\ pc' \notin FreshPCs \union EndPCs
    BY <1>7 DEF WriteAt, SkipZeros, Returned, FindL2, FindData, FlushL2, WriteData, FreshPCs,
                EndPCs
  <2>2. Created
    BY <2>1 DEF Created, TypeInv, CallOK, EndPCs
  <2>3. InUse' = InUse
    BY <2>1, SameInUse
  <2> QED
    BY <2>1, <2>2, <2>3 DEF CountedOK, Unreferred, CountedYet, FreshPCs
<1>8. CASE WriteFails
  <2>1. /\ UNCHANGED <<size, blocks, l1, l2cache, counted, written, chunk>>
        /\ pc' = "stopped" /\ pc \in LoopPCs
    BY <1>8 DEF WriteFails, LoopPCs
  <2>2. InUse' = InUse /\ UNCHANGED Chunks
    BY <2>1, SameInUse, SameGeometry
  <2>3. Created /\ chunk \in Chunks /\ chunk \notin written
    BY <2>1 DEF Created, TypeInv, CallOK, LoopPCs
  <2> QED
    BY <2>1, <2>2, <2>3 DEF CountedOK, EndPCs
<1>9. CASE Close \/ FlushOne \/ WriteL1 \/ Closed \/ CloseFails
  <2>1. /\ UNCHANGED <<size, blocks, l1, l2cache, counted, written>>
        /\ pc \in EndPCs \union {"idle"} /\ pc' \in EndPCs /\ pc # "closed"
    BY <1>9 DEF Close, FlushOne, WriteL1, Closed, CloseFails, EndPCs
  <2>2. InUse' = InUse /\ UNCHANGED Chunks
    BY <2>1, SameInUse, SameGeometry
  <2>3. Created
    BY <2>1 DEF Created, TypeInv, CallOK, EndPCs
  <2>4. counted = InUse \/ Chunks # written
    BY <2>1, <2>3 DEF CountedOK, CountedYet, EndPCs
  <2> QED
    BY <2>1, <2>2, <2>3, <2>4 DEF CountedOK
<1>10. CASE Terminated \/ UNCHANGED vars
  <2>1. UNCHANGED <<size, blocks, l1, l2cache, counted, written, nextOff, off, pc, result>>
    BY <1>10 DEF Terminated, vars
  <2>2. InUse' = InUse /\ UNCHANGED Chunks
    BY <2>1, SameInUse, SameGeometry
  <2> QED
    BY <2>1, <2>2 DEF CountedOK, Created, Unreferred, CountedYet
<1> QED
  BY <1>1, <1>2, <1>3, <1>4, <1>5, <1>6, <1>7, <1>8, <1>9, <1>10 DEF Next, Step

\* At every step each cluster in use has its refcount, and when every chunk was
\* written and Close returned nil no other cluster has one.
THEOREM RefcountsOfUsed == Spec => []RefcountsRight
<1>1. TypeInv /\ CountedOK => RefcountsRight
  <2> SUFFICES ASSUME TypeInv, CountedOK, Created
               PROVE  /\ InUse \subseteq counted
                      /\ result = "ok" /\ Cardinality(written) = Cardinality(Chunks)
                           => counted = InUse
    BY DEF RefcountsRight
  <2>1. ASSUME result = "ok", Cardinality(written) = Cardinality(Chunks)
        PROVE  counted = InUse
    <3>1. ceilDiv(size, ChunkWords) \in Nat
      BY GeometryAssumption, CeilDivCovers DEF TypeInv, BasicOK
    <3>2. IsFiniteSet(Chunks)
      BY <3>1, FS_Interval DEF Chunks
    <3>3. written \in SUBSET Chunks
      BY DEF TypeInv, BasicOK
    <3>4. Chunks = written
      BY <2>1, <3>2, <3>3, FS_Subset
    <3>5. pc = "closed"
      BY <2>1 DEF TypeInv, CallOK
    <3> QED
      BY <3>4, <3>5 DEF CountedOK, EndPCs
  <2> QED
    BY <2>1 DEF CountedOK
<1>2. TypeInv /\ PlacesOK /\ CountedOK /\ [Next]_vars => (TypeInv /\ PlacesOK /\ CountedOK)'
  BY TypeStep, PlacesStep, CountedStep
<1> QED
  BY <1>1, <1>2, TypeInit, PlacesInit, CountedInit, PTL DEF Spec

-----------------------------------------------------------------------------
(* There is always a refcount left.                                        *)

\* The entries in use are those of words of the image.
BoundOK ==
  /\ \A i \in DOMAIN l1 : l1[i] # 0 => i < l2ClustersMax
  /\ \A i \in DOMAIN l2cache, j \in Entries :
       l2cache[i][j] # 0 => i * EntriesPerL2 + j < dataClustersMax

LEMMA BoundInit == Init => BoundOK
<1> SUFFICES ASSUME Init PROVE BoundOK
  OBVIOUS
<1>1. DOMAIN l1 = {} /\ DOMAIN l2cache = {}
  BY DEF Init
<1> QED
  BY <1>1 DEF BoundOK

LEMMA BoundStep == TypeInv /\ BoundOK /\ [Next]_vars => BoundOK'
<1> SUFFICES ASSUME TypeInv, BoundOK, [Next]_vars PROVE BoundOK'
  OBVIOUS
<1> USE DEF tables, call
<1>1. UNCHANGED <<l2ClustersMax, dataClustersMax, Entries>>
  <2>1. UNCHANGED size
    BY DEF Next, Step, GrowRefcounts, Format, CreateFails, WriteAt, SkipZeros, Returned, FindL2,
           AllocCluster, SetRefcount, ZeroL2, CacheL2, FindData, ZeroData, FlushL2, WriteData,
           WriteFails, Close, FlushOne, WriteL1, Closed, CloseFails, Terminated, vars
  <2> QED
    BY <2>1 DEF l2ClustersMax, dataClustersMax, Entries
<1>2. CASE Format
  <2>1. /\ l1' = [i \in 0 .. l1Size - 1 |-> 0] /\ l2cache' = l2cache /\ DOMAIN l2cache = {}
    BY <1>2 DEF Format, TypeInv, EmptyOK, Created
  <2> QED
    BY <2>1 DEF BoundOK
<1>3. CASE ZeroL2
  <2>1. pc = "zero_l2" /\ l1' = [l1 EXCEPT ![l1Idx] = off] /\ l2cache' = l2cache
    BY <1>3 DEF ZeroL2
  <2>2. l1Idx < l2ClustersMax
    BY <2>1, LoopFacts, WordsFit DEF LoopPCs
  <2> QED
    BY <1>1, <2>1, <2>2 DEF BoundOK
<1>4. CASE CacheL2
  <2>1. /\ l1' = l1 /\ DOMAIN l2cache' = DOMAIN l2cache \union {l1Idx}
        /\ l2cache'[l1Idx] = Zeros
        /\ \A i \in DOMAIN l2cache : i # l1Idx => l2cache'[i] = l2cache[i]
    BY <1>4 DEF CacheL2
  <2> QED
    BY <1>1, <2>1, ZerosType DEF BoundOK
<1>5. CASE ZeroData
  <2>1. pc = "zero_data" /\ l1' = l1 /\ l2cache' = [l2cache EXCEPT ![l1Idx][l2Idx] = off]
    BY <1>5 DEF ZeroData
  <2>2. l1Idx * EntriesPerL2 + l2Idx < dataClustersMax
    BY <2>1, LoopFacts, WordsFit, WordFacts DEF LoopPCs
  <2>3. ASSUME NEW i \in DOMAIN l2cache, NEW j \in Entries, l2cache'[i][j] # 0
        PROVE  i * EntriesPerL2 + j < dataClustersMax
    <3>1. CASE i = l1Idx /\ j = l2Idx
      BY <2>2, <3>1
    <3>2. CASE ~(i = l1Idx /\ j = l2Idx)
      <4>1. l2cache'[i][j] = l2cache[i][j]
        BY <2>1, <3>2 DEF TypeInv, StoreOK
      <4> QED
        BY <2>3, <4>1 DEF BoundOK
    <3> QED
      BY <3>1, <3>2
  <2>4. DOMAIN l2cache' = DOMAIN l2cache
    BY <2>1
  <2> QED
    BY <1>1, <2>1, <2>3, <2>4 DEF BoundOK
<1>6. CASE UNCHANGED <<l1, l2cache>>
  BY <1>1, <1>6 DEF BoundOK
<1>7. CASE \/ GrowRefcounts \/ CreateFails \/ WriteAt \/ SkipZeros \/ Returned \/ FindL2
           \/ AllocCluster \/ SetRefcount \/ FindData \/ FlushL2 \/ WriteData \/ WriteFails
           \/ Close \/ FlushOne \/ WriteL1 \/ Closed \/ CloseFails \/ Terminated
           \/ UNCHANGED vars
  BY <1>6, <1>7 DEF GrowRefcounts, CreateFails, WriteAt, SkipZeros, Returned, FindL2,
           AllocCluster, SetRefcount, FindData, FlushL2, WriteData,
           WriteFails, Close, FlushOne, WriteL1, Closed, CloseFails, Terminated, vars
<1> QED
  BY <1>2, <1>3, <1>4, <1>5, <1>7 DEF Next, Step

\* The slot of a cluster among those a full image may come to use: the L2 tables
\* by their index, then the data clusters by theirs; the cluster in hand has the
\* slot that the entry it is meant for will give it.
Slot(c, n) ==
  \/ \E i \in DOMAIN l1 : l1[i] = c /\ c # 0 /\ n = i
  \/ \E i \in DOMAIN l2cache, j \in Entries :
       l2cache[i][j] = c /\ c # 0 /\ n = l2ClustersMax + (i * EntriesPerL2 + j)
  \/ pc = "count_l2" /\ c = off /\ n = l1Idx
  \/ pc = "count_data" /\ c = off /\ n = l2ClustersMax + (l1Idx * EntriesPerL2 + l2Idx)

\* An index of an entry says which table and which entry.
LEMMA EntryIndex ==
  ASSUME NEW i \in Nat, NEW k \in Nat, NEW j \in Entries, NEW m \in Entries,
         i * EntriesPerL2 + j = k * EntriesPerL2 + m
  PROVE  i = k /\ j = m
<1>1. EntriesPerL2 \in Nat \ {0} /\ j \in 0 .. EntriesPerL2 - 1 /\ m \in 0 .. EntriesPerL2 - 1
  BY GeometryAssumption DEF Entries
<1>2. i * EntriesPerL2 \in Nat /\ k * EntriesPerL2 \in Nat
  BY <1>1, Multiples
<1>3. PICK a \in Nat, b \in Nat : a = i * EntriesPerL2 /\ b = k * EntriesPerL2
  BY <1>2
<1>4. PICK x \in Nat : x = a + j /\ x = b + m
  BY <1>1, <1>3
<1>5. a <= x /\ x < a + EntriesPerL2 /\ b <= x /\ x < b + EntriesPerL2
  BY <1>1, <1>4
<1>6. x \div EntriesPerL2 = i /\ x \div EntriesPerL2 = k
  BY <1>1, <1>3, <1>5, QuotientIs
<1>7. i = k /\ a = b
  BY <1>3, <1>6
<1> QED
  BY <1>1, <1>4, <1>7

LEMMA CountingFacts ==
  ASSUME TypeInv, PlacesOK, BoundOK, pc \in {"count_l2", "count_data"}
  PROVE  /\ size \in Nat \ {0} /\ blocks \in Nat /\ Created
         /\ l1Idx \in DOMAIN l1 /\ l1Idx \in Nat /\ l2Idx \in Entries
         /\ l1Idx < l2ClustersMax /\ l1Idx * EntriesPerL2 + l2Idx < dataClustersMax
         /\ \A i \in DOMAIN l1 : i \in Nat
         /\ \A i \in DOMAIN l2cache : i \in Nat
         /\ \A j \in Entries : j \in Nat
         /\ \A i \in Nat, j \in Entries : i * EntriesPerL2 + j \in Nat
         /\ l2ClustersMax \in Nat /\ dataClustersMax \in Nat
<1>1. size \in Nat \ {0} /\ blocks \in Nat
  BY GeometryAssumption DEF TypeInv, BasicOK
<1>2. /\ Created /\ l1Idx = TableOf(pos) /\ l2Idx = EntryOf(pos) /\ pos \in Words
      /\ l1Idx \in 0 .. l1Size - 1 /\ l2Idx \in Entries
  BY LoopFacts DEF LoopPCs
<1>3. l1Idx < l2ClustersMax /\ l1Idx * EntriesPerL2 + l2Idx < dataClustersMax
  BY <1>1, <1>2, WordsFit, WordFacts
<1>4. l1Idx \in DOMAIN l1 /\ (\A i \in DOMAIN l1 : i \in Nat) /\ \A i \in DOMAIN l2cache : i \in Nat
  BY <1>2 DEF TypeInv, StoreOK
<1>5. EntriesPerL2 \in Nat /\ \A j \in Entries : j \in Nat
  BY GeometryAssumption DEF Entries
<1>6. \A i \in Nat, j \in Entries : i * EntriesPerL2 + j \in Nat
  BY <1>5, GeometryAssumption, Multiples
<1> QED
  BY <1>1, <1>2, <1>3, <1>4, <1>5, <1>6, Layout

LEMMA SlotsApart ==
  ASSUME TypeInv, PlacesOK, BoundOK, pc \in {"count_l2", "count_data"},
         NEW c, NEW d, NEW n \in Nat, Slot(c, n), Slot(d, n)
  PROVE  c = d
<1>1. /\ l1Idx \in DOMAIN l1 /\ l1Idx \in Nat /\ l2Idx \in Entries
      /\ l1Idx < l2ClustersMax /\ l2ClustersMax \in Nat
      /\ \A i \in DOMAIN l1 : i \in Nat
      /\ \A i \in DOMAIN l2cache : i \in Nat
      /\ \A i \in Nat, j \in Entries : i * EntriesPerL2 + j \in Nat
  BY CountingFacts
<1>2. /\ pc = "count_l2" => l1[l1Idx] = 0
      /\ pc = "count_data" => l2cache[l1Idx][l2Idx] = 0
  BY DEF PlacesOK, TablesOK
<1>3. \A i \in DOMAIN l1 : l1[i] # 0 => i < l2ClustersMax
  BY DEF BoundOK
<1>4. CASE n < l2ClustersMax
  <2>1. ASSUME NEW e, Slot(e, n)
        PROVE  \/ n \in DOMAIN l1 /\ l1[n] = e /\ e # 0
               \/ pc = "count_l2" /\ e = off /\ n = l1Idx
    BY <1>1, <1>4, <2>1 DEF Slot
  <2> QED
    BY <1>2, <2>1
<1>5. CASE ~(n < l2ClustersMax)
  <2>1. PICK m \in Nat : n = l2ClustersMax + m
    <3>1. n - l2ClustersMax \in Nat
      BY <1>1, <1>5
    <3> QED
      BY <1>1, <3>1
  <2>2. ASSUME NEW e, Slot(e, n)
        PROVE  \/ \E i \in DOMAIN l2cache, j \in Entries :
                    l2cache[i][j] = e /\ e # 0 /\ m = i * EntriesPerL2 + j
               \/ pc = "count_data" /\ e = off /\ m = l1Idx * EntriesPerL2 + l2Idx
    <3>1. \A x \in Nat : n = l2ClustersMax + x => x = m
      BY <1>1, <2>1
    <3>2. \/ \E i \in DOMAIN l2cache, j \in Entries :
               l2cache[i][j] = e /\ e # 0 /\ n = l2ClustersMax + (i * EntriesPerL2 + j)
          \/ pc = "count_data" /\ e = off /\ n = l2ClustersMax + (l1Idx * EntriesPerL2 + l2Idx)
      BY <1>1, <1>3, <1>5, <2>2 DEF Slot
    <3> QED
      BY <1>1, <3>1, <3>2
  <2> QED
    BY <1>1, <1>2, <2>2, EntryIndex
<1> QED
  BY <1>4, <1>5

\* A cluster that nothing failed to take leaves room for itself.
LEMMA RoomLeft ==
  ASSUME TypeInv, PlacesOK, BoundOK, CountedOK, pc \in {"count_l2", "count_data"}
  PROVE  off < FirstOff + l2ClustersMax + dataClustersMax
<1>1. /\ size \in Nat \ {0} /\ blocks \in Nat /\ Created /\ off \in Nat
      /\ l2ClustersMax \in Nat /\ dataClustersMax \in Nat /\ FirstOff \in Nat \ {0}
  BY CountingFacts, Layout DEF TypeInv, BasicOK
<1>2. nextOff \in Nat /\ off = nextOff - 1 /\ FirstOff <= off
  BY DEF PlacesOK, FreshOK, FreshPCs, TypeInv, BasicOK
<1> DEFINE S == FirstOff .. off
           T == 0 .. l2ClustersMax + dataClustersMax - 1
<1>3. \A c \in S : \E n \in T : Slot(c, n)
  <2> SUFFICES ASSUME NEW c \in S PROVE \E n \in T : Slot(c, n)
    OBVIOUS
  <2>a. /\ l1Idx \in Nat /\ l2Idx \in Entries /\ l1Idx < l2ClustersMax
        /\ l1Idx * EntriesPerL2 + l2Idx < dataClustersMax
        /\ \A i \in DOMAIN l1 : i \in Nat
        /\ \A i \in DOMAIN l2cache : i \in Nat
        /\ \A i \in Nat, j \in Entries : i * EntriesPerL2 + j \in Nat
    BY CountingFacts
  <2>b. \A x \in Nat : x < dataClustersMax => l2ClustersMax + x \in T
    BY <1>1
  <2>c. \A x \in Nat : x < l2ClustersMax => x \in T
    BY <1>1
  <2>1. CASE c = off
    <3>1. CASE pc = "count_l2"
      <4>1. Slot(c, l1Idx)
        BY <2>1, <3>1 DEF Slot
      <4> QED
        BY <2>a, <2>c, <4>1
    <3>2. CASE pc = "count_data"
      <4>1. Slot(c, l2ClustersMax + (l1Idx * EntriesPerL2 + l2Idx))
        BY <2>1, <3>2 DEF Slot
      <4> QED
        BY <2>a, <2>b, <4>1
    <3> QED
      BY <3>1, <3>2
  <2>2. CASE c # off
    <3>1. c \in 0 .. nextOff - 1 /\ c # 0 /\ c \notin 0 .. FirstOff - 1
      BY <1>1, <1>2
    <3>2. c \in InUse
      BY <1>1, <2>2, <3>1 DEF CountedOK, Unreferred, EndPCs
    <3>3. \/ \E i \in DOMAIN l1 : l1[i] = c
          \/ \E i \in DOMAIN l2cache, j \in Entries : l2cache[i][j] = c
      BY <3>1, <3>2, InUseIs DEF UsedBy
    <3>4. ASSUME NEW i \in DOMAIN l1, l1[i] = c PROVE \E n \in T : Slot(c, n)
      <4>1. Slot(c, i)
        BY <3>1, <3>4 DEF Slot
      <4>2. i \in T
        BY <2>a, <2>c, <3>1, <3>4 DEF BoundOK
      <4> QED
        BY <4>1, <4>2
    <3>5. ASSUME NEW i \in DOMAIN l2cache, NEW j \in Entries, l2cache[i][j] = c
          PROVE  \E n \in T : Slot(c, n)
      <4>1. Slot(c, l2ClustersMax + (i * EntriesPerL2 + j))
        BY <3>1, <3>5 DEF Slot
      <4>2. l2ClustersMax + (i * EntriesPerL2 + j) \in T
        BY <2>a, <2>b, <3>1, <3>5 DEF BoundOK
      <4> QED
        BY <4>1, <4>2
    <3> QED
      BY <3>3, <3>4, <3>5
  <2> QED
    BY <2>1, <2>2
<1> DEFINE f == [c \in S |-> CHOOSE n \in T : Slot(c, n)]
<1>4. f \in [S -> T] /\ \A c \in S : Slot(c, f[c])
  BY <1>3
<1> HIDE DEF f
<1>5. IsFiniteSet(S) /\ Cardinality(S) = off - FirstOff + 1
  BY <1>1, <1>2, FS_Interval
<1>6. IsFiniteSet(T) /\ Cardinality(T) = l2ClustersMax + dataClustersMax
  <2>1. /\ IsFiniteSet(T)
        /\ Cardinality(T) = IF 0 > l2ClustersMax + dataClustersMax - 1 THEN 0
                            ELSE l2ClustersMax + dataClustersMax - 1 - 0 + 1
    BY <1>1, FS_Interval
  <2> QED
    BY <1>1, <2>1
<1>7. \A c, d \in S : f[c] = f[d] => c = d
  <2> SUFFICES ASSUME NEW c \in S, NEW d \in S, f[c] = f[d] PROVE c = d
    OBVIOUS
  <2>1. f[c] \in Nat
    BY <1>1, <1>4
  <2> QED
    BY <1>4, <2>1, SlotsApart
<1> HIDE DEF S, T
<1>8. ~(Cardinality(T) < Cardinality(S))
  BY <1>4, <1>5, <1>6, <1>7, FS_PigeonHole
<1> QED
  BY <1>1, <1>2, <1>5, <1>6, <1>8

\* A writer that no call fails never runs out of refcounts, whatever the size
\* of the image, the order of its chunks and how full it gets: setRefcount's
\* error return is out of reach.
THEOREM RefcountsNeverRunOut == Spec => []NeverFull
<1> DEFINE Inv == TypeInv /\ PlacesOK /\ CountedOK /\ BoundOK
<1>1. Inv /\ RefcountsFit => NeverFull
  <2> SUFFICES ASSUME Inv, RefcountsFit, pc \in {"count_l2", "count_data"}
               PROVE  off < Capacity
    BY DEF NeverFull
  <2>1. off < FirstOff + l2ClustersMax + dataClustersMax
    BY RoomLeft
  <2>2. FirstOff + l2ClustersMax + dataClustersMax <= Capacity
    BY CountingFacts DEF RefcountsFit
  <2>3. /\ off \in Nat /\ FirstOff \in Nat /\ l2ClustersMax \in Nat
        /\ dataClustersMax \in Nat /\ Capacity \in Nat
    BY CountingFacts, Layout DEF TypeInv, BasicOK
  <2> QED
    BY <2>1, <2>2, <2>3
<1>2. Init => Inv
  BY TypeInit, PlacesInit, CountedInit, BoundInit
<1>3. Inv /\ [Next]_vars => Inv'
  BY TypeStep, PlacesStep, CountedStep, BoundStep
<1> QED
  BY <1>1, <1>2, <1>3, RefcountAreaFits, PTL DEF Spec

-----------------------------------------------------------------------------
(* Measure.                                                                *)

\* A number of times the divisor that reaches x, and would not with one less,
\* is the quotient rounded up.
LEMMA CeilDivIs ==
  ASSUME NEW x \in Nat, NEW y \in Nat \ {0}, NEW q \in Nat, x <= q * y, q * y < x + y
  PROVE  ceilDiv(x, y) = q
<1>1. PICK n \in Nat : n = q * y
  BY Multiples
<1>2. PICK m \in Nat : m = x + y - 1
  OBVIOUS
<1>3. n <= m /\ m < n + y
  BY <1>1, <1>2
<1>4. m \div y = q
  BY <1>1, <1>2, <1>3, QuotientIs
<1> QED
  BY <1>2, <1>4 DEF ceilDiv

LEMMA CeilDivTight ==
  ASSUME NEW x \in Nat, NEW y \in Nat \ {0}
  PROVE  /\ ceilDiv(x, y) * y < x + y
         /\ x > 0 => ceilDiv(x, y) > 0
<1>1. PICK q \in Nat : q = ceilDiv(x, y)
  BY CeilDivCovers
<1>2. x <= q * y /\ \A k \in Nat : k < q => k * y < x
  BY <1>1, CeilDivCovers
<1>3. CASE q = 0
  <2>1. q * y = 0
    BY <1>3
  <2> QED
    BY <1>1, <1>2, <2>1
<1>4. CASE q > 0
  <2>1. PICK k \in Nat : q = k + 1
    <3>1. q - 1 \in Nat /\ q = (q - 1) + 1
      BY <1>4
    <3> QED
      BY <3>1
  <2>2. k * y \in Nat /\ q * y = k * y + y
    BY <2>1, Z3
  <2>3. k * y < x
    BY <1>2, <2>1
  <2> QED
    BY <1>1, <1>4, <2>2, <2>3
<1> QED
  BY <1>3, <1>4

\* Bytes or words, the quotient is the same.
LEMMA CeilDivInBytes ==
  ASSUME NEW x \in Nat, NEW y \in Nat \ {0}
  PROVE  ceilDiv(x * 8, y * 8) = ceilDiv(x, y)
<1>1. PICK q \in Nat : q = ceilDiv(x, y)
  BY CeilDivCovers
<1>2. PICK n \in Nat : n = q * y
  BY Multiples
<1>3. x <= n /\ n < x + y
  BY <1>1, <1>2, CeilDivCovers, CeilDivTight
<1>4. q * (y * 8) = n * 8
  <2>1. q * (y * 8) = (q * y) * 8
    BY Z3
  <2> QED
    BY <1>2, <2>1
<1>5. x * 8 \in Nat /\ y * 8 \in Nat \ {0} /\ x * 8 <= n * 8 /\ n * 8 < x * 8 + y * 8
  BY <1>3
<1>6. ceilDiv(x * 8, y * 8) = q
  BY <1>4, <1>5, CeilDivIs
<1> QED
  BY <1>1, <1>6

\* Measure counts the clusters that the writer provides for.
LEMMA MeasureCounts ==
  ASSUME size \in Nat \ {0}, NEW b \in Nat
  PROVE  /\ MaxDataClusters = dataClustersMax /\ MaxL2Clusters = l2ClustersMax
         /\ L1Clusters = l1Clusters
         /\ b # 0 => RefcountTableClusters(b) = refcountTableClusters(b)
         /\ b # 0 => MetadataClusters(b) + MaxDataClusters = totalClustersMax(b)
         /\ MetadataClusters(b) + MaxDataClusters \in Nat \ {0}
<1>1. EntriesPerL2 \in Nat \ {0} /\ EntriesPerL2 * EntriesPerL2 \in Nat \ {0}
  BY GeometryAssumption
<1>2. MaxDataClusters = dataClustersMax /\ MaxL2Clusters = l2ClustersMax
  BY DEF MaxDataClusters, dataClustersMax, MaxL2Clusters, l2ClustersMax
<1>3. L1Entries = l1Size /\ l1Size \in Nat \ {0}
  <2>1. l1Size \in Nat /\ l1Size > 0
    BY <1>1, CeilDivCovers, CeilDivTight DEF l1Size
  <2> QED
    BY <2>1 DEF L1Entries, l1Size, AtLeastOne
<1>4. L1Clusters = l1Clusters
  <2>1. ceilDiv(L1Entries * 8, EntriesPerL2 * 8) = l1Clusters
    BY <1>1, <1>3, CeilDivInBytes DEF l1Clusters
  <2>2. l1Clusters \in Nat /\ l1Clusters > 0
    BY <1>1, <1>3, CeilDivCovers, CeilDivTight DEF l1Clusters
  <2> QED
    BY <2>1, <2>2 DEF L1Clusters, AtLeastOne
<1>5. ceilDiv(b * 8, EntriesPerL2 * 8) = refcountTableClusters(b)
  BY <1>1, CeilDivInBytes DEF refcountTableClusters
<1>6. /\ refcountTableClusters(b) \in Nat
      /\ b # 0 => refcountTableClusters(b) > 0
  BY <1>1, CeilDivCovers, CeilDivTight DEF refcountTableClusters
<1>7. /\ RefcountTableClusters(b) \in Nat
      /\ b # 0 => RefcountTableClusters(b) = refcountTableClusters(b)
  BY <1>5, <1>6 DEF RefcountTableClusters, AtLeastOne
<1>8. l1Clusters \in Nat /\ l2ClustersMax \in Nat /\ dataClustersMax \in Nat
  BY CountsAreNatural
<1>9. /\ b # 0 => MetadataClusters(b) + MaxDataClusters = totalClustersMax(b)
      /\ MetadataClusters(b) + MaxDataClusters \in Nat \ {0}
  BY <1>2, <1>4, <1>6, <1>7, <1>8 DEF MetadataClusters, totalClustersMax
<1> QED
  BY <1>2, <1>4, <1>7, <1>9

\* The next turn of Measure's loop.
NextCount(b) == AtLeastOne(ceilDiv(MetadataClusters(b) + MaxDataClusters,
                                   (EntriesPerL2 * 8) \div 2))

LEMMA NextCountIs ==
  ASSUME size \in Nat \ {0}, NEW b \in Nat
  PROVE  NextCount(b) \in Nat \ {0} /\ (b # 0 => NextCount(b) = newRefcountBlockCount(b))
<1>1. (EntriesPerL2 * 8) \div 2 = refcountBlockEntries /\ refcountBlockEntries \in Nat \ {0}
  BY GeometryAssumption DEF refcountBlockEntries
<1>2. PICK n \in Nat \ {0} : n = MetadataClusters(b) + MaxDataClusters
  BY MeasureCounts
<1>3. ceilDiv(n, refcountBlockEntries) \in Nat /\ ceilDiv(n, refcountBlockEntries) > 0
  <2>1. n \in Nat /\ n > 0
    OBVIOUS
  <2> QED
    BY <1>1, <2>1, CeilDivCovers, CeilDivTight
<1>4. NextCount(b) = ceilDiv(n, refcountBlockEntries)
  BY <1>1, <1>2, <1>3 DEF NextCount, AtLeastOne
<1>5. b # 0 => n = totalClustersMax(b)
  BY <1>2, MeasureCounts
<1> QED
  BY <1>3, <1>4, <1>5 DEF newRefcountBlockCount

\* Some function does what a loop does that goes from b to g[b] until that
\* changes nothing, whether the loop ends or not: numbers on the way of one
\* another have the same result. Loops is what no turn enters or leaves.
LEMMA LoopHasAResult ==
  ASSUME NEW g \in [Nat -> Nat]
  PROVE  \E f : f = [b \in Nat |-> IF g[b] = b THEN b ELSE f[g[b]]]
<1> DEFINE Loops == {S \in SUBSET Nat : \A y \in Nat : y \in S <=> g[y] \in S}
           Ends(b) == {x \in Nat : g[x] = x /\ \A S \in Loops : b \in S <=> x \in S}
           f == [b \in Nat |-> CHOOSE x : x \in Ends(b)]
<1>1. ASSUME NEW b \in Nat PROVE Ends(b) = Ends(g[b]) /\ g[b] \in Nat
  <2>1. g[b] \in Nat /\ \A S \in Loops : b \in S <=> g[b] \in S
    OBVIOUS
  <2> HIDE DEF Loops
  <2> QED
    BY <2>1
<1>2. ASSUME NEW b \in Nat, g[b] = b, NEW x \in Ends(b) PROVE x = b
  <2> SUFFICES ASSUME x # b PROVE FALSE
    OBVIOUS
  <2> DEFINE Above(T) == b \in T /\ \A y \in Nat : g[y] \in T => y \in T
             S == {y \in Nat : \A T \in SUBSET Nat : Above(T) => y \in T}
  <2>1. x \in Nat /\ g[x] = x /\ \A Z \in Loops : b \in Z <=> x \in Z
    OBVIOUS
  <2>2. ASSUME NEW y \in Nat, g[y] \in S PROVE y \in S
    BY <2>2
  <2>3. ASSUME NEW y \in Nat, y \in S PROVE g[y] \in S
    <3> SUFFICES ASSUME g[y] \notin S PROVE FALSE
      OBVIOUS
    <3>1. g[y] \in Nat
      OBVIOUS
    <3>2. PICK T \in SUBSET Nat : Above(T) /\ g[y] \notin T
      BY <3>1
    <3>3. y # b
      BY <1>2, <3>2
    <3>4. T \ {y} \in SUBSET Nat /\ Above(T \ {y})
      BY <3>2, <3>3
    <3> QED
      BY <2>3, <3>4
  <2>4. S \in Loops
    <3>1. S \in SUBSET Nat
      OBVIOUS
    <3> HIDE DEF S
    <3> QED
      BY <2>2, <2>3, <3>1
  <2>5. b \in S
    OBVIOUS
  <2>6. x \notin S
    <3>1. Nat \ {x} \in SUBSET Nat /\ Above(Nat \ {x})
      BY <2>1
    <3> QED
      BY <3>1
  <2> HIDE DEF S, Loops
  <2> QED
    BY <2>1, <2>4, <2>5, <2>6
<1>3. ASSUME NEW b \in Nat PROVE f[b] = IF g[b] = b THEN b ELSE f[g[b]]
  <2>1. f[b] = CHOOSE x : x \in Ends(b)
    BY DEF f
  <2>2. CASE g[b] = b
    <3>1. b \in Ends(b)
      BY <2>2
    <3> HIDE DEF Ends
    <3>2. (CHOOSE x : x \in Ends(b)) \in Ends(b)
      BY <3>1
    <3> QED
      BY <1>2, <2>1, <2>2, <3>2
  <2>3. CASE g[b] # b
    <3>1. f[g[b]] = CHOOSE x : x \in Ends(g[b])
      BY <1>1 DEF f
    <3> HIDE DEF Ends, f
    <3> QED
      BY <1>1, <2>1, <2>3, <3>1
  <2> QED
    BY <2>2, <2>3
<1>4. f = [b \in Nat |-> IF g[b] = b THEN b ELSE f[g[b]]]
  <2>1. f = [b \in Nat |-> f[b]]
    OBVIOUS
  <2> HIDE DEF f
  <2> QED
    BY <1>3, <2>1
<1> QED
  BY <1>4

\* What Measure's loop returns, one turn later.
LEMMA MeasureTurn ==
  ASSUME size \in Nat \ {0}, NEW b \in Nat
  PROVE  RefcountBlockCountFrom[b] =
           IF NextCount(b) = b THEN b ELSE RefcountBlockCountFrom[NextCount(b)]
<1> DEFINE Equation(h) ==
      h = [c \in Nat |-> IF NextCount(c) = c THEN c ELSE h[NextCount(c)]]
           g == [c \in Nat |-> NextCount(c)]
<1>1. g \in [Nat -> Nat]
  BY NextCountIs
<1>2. \A c \in Nat : g[c] = NextCount(c)
  OBVIOUS
<1> HIDE DEF g
<1>3. PICK h : h = [c \in Nat |-> IF g[c] = c THEN c ELSE h[g[c]]]
  BY <1>1, LoopHasAResult
<1>4. Equation(h)
  BY <1>2, <1>3
<1>5. Equation(CHOOSE f : Equation(f))
  BY <1>4
<1>6. RefcountBlockCountFrom = CHOOSE f : Equation(f)
  BY DEF RefcountBlockCountFrom, NextCount
<1>7. Equation(RefcountBlockCountFrom)
  BY <1>5, <1>6
<1> QED
  BY <1>7

\* Create's loop goes the way of Measure's: what is left of it has the same
\* result as the whole of it.
SameLoop == RefcountBlockCountFrom[blocks] = RefcountBlockCount

LEMMA MeasureUnchanged ==
  ASSUME UNCHANGED size
  PROVE  /\ RefcountBlockCountFrom' = RefcountBlockCountFrom
         /\ RefcountBlockCount' = RefcountBlockCount
         /\ MaxDataClusters' = MaxDataClusters
         /\ \A b : MetadataClusters(b)' = MetadataClusters(b)
BY DEF RefcountBlockCountFrom, RefcountBlockCount, MaxDataClusters, MetadataClusters,
       RefcountTableClusters, L1Clusters, L1Entries, MaxL2Clusters, MaxDataClusters

LEMMA SizeFixed == [Next]_vars => UNCHANGED size
BY DEF Next, Step, GrowRefcounts, Format, CreateFails, WriteAt, SkipZeros, Returned, FindL2,
       AllocCluster, SetRefcount, ZeroL2, CacheL2, FindData, ZeroData, FlushL2, WriteData,
       WriteFails, Close, FlushOne, WriteL1, Closed, CloseFails, Terminated, vars, tables, call

LEMMA SameLoopInit == Init => SameLoop
BY DEF Init, SameLoop, RefcountBlockCount

LEMMA SameLoopStep == TypeInv /\ SameLoop /\ [Next]_vars => SameLoop'
<1> SUFFICES ASSUME TypeInv, SameLoop, [Next]_vars PROVE SameLoop'
  OBVIOUS
<1>1. size \in Nat \ {0} /\ blocks \in Nat \ {0}
  BY GeometryAssumption DEF TypeInv, BasicOK
<1>2. RefcountBlockCountFrom' = RefcountBlockCountFrom /\ RefcountBlockCount' = RefcountBlockCount
  BY SizeFixed, MeasureUnchanged
<1>3. CASE GrowRefcounts
  <2>1. blocks' = NextCount(blocks) /\ NextCount(blocks) # blocks
    BY <1>1, <1>3, NextCountIs DEF GrowRefcounts
  <2>2. RefcountBlockCountFrom[blocks] = RefcountBlockCountFrom[NextCount(blocks)]
    BY <1>1, <2>1, MeasureTurn
  <2> QED
    BY <1>2, <2>1, <2>2 DEF SameLoop
<1>4. CASE blocks' = blocks
  BY <1>2, <1>4 DEF SameLoop
<1>5. GrowRefcounts \/ blocks' = blocks
  BY DEF Next, Step, Format, CreateFails, WriteAt, SkipZeros, Returned, FindL2,
         AllocCluster, SetRefcount, ZeroL2, CacheL2, FindData, ZeroData, FlushL2, WriteData,
         WriteFails, Close, FlushOne, WriteL1, Closed, CloseFails, Terminated, vars, tables, call
<1> QED
  BY <1>3, <1>4, <1>5

\* The clusters of a full image.
Most == FirstOff + l2ClustersMax + dataClustersMax

LEMMA MostIsMeasured ==
  ASSUME TypeInv, GeometryInv, SameLoop, pc # "geometry"
  PROVE  /\ blocks = RefcountBlockCount
         /\ MetadataClusters(RefcountBlockCount) + MaxDataClusters = Most
         /\ Most \in Nat
<1>1. size \in Nat \ {0} /\ blocks \in Nat \ {0}
  BY GeometryAssumption DEF TypeInv, BasicOK
<1>2. NextCount(blocks) = blocks
  BY <1>1, NextCountIs DEF GeometryInv
<1>3. blocks = RefcountBlockCount
  BY <1>1, <1>2, MeasureTurn DEF SameLoop
<1>4. MetadataClusters(blocks) + MaxDataClusters = totalClustersMax(blocks)
  BY <1>1, MeasureCounts
<1>5. totalClustersMax(blocks) = Most /\ Most \in Nat
  BY <1>1, CountsAreNatural DEF Most, FirstOff, l1Start, totalClustersMax
<1> QED
  BY <1>3, <1>4, <1>5

\* The cluster just handed out is one of those, and so is all of the file.
OffFits  == pc \in {"count_l2", "count_data"} => off < Most
FileFits == Created => \A c \in DOMAIN file : c < Most

LEMMA OffFitsAlways == TypeInv /\ PlacesOK /\ BoundOK /\ CountedOK => OffFits
BY RoomLeft DEF OffFits, Most

LEMMA FileFitsInit == Init => FileFits
BY DEF Init, FileFits

LEMMA FileFitsStep == TypeInv /\ FileFits /\ OffFits' /\ [Next]_vars => FileFits'
<1> SUFFICES ASSUME TypeInv, FileFits, OffFits', [Next]_vars PROVE FileFits'
  OBVIOUS
<1> USE DEF tables, call
<1>1. size' = size
  BY SizeFixed
<1>2. CASE Format
  <2>1. size \in Nat \ {0} /\ blocks \in Nat
    BY GeometryAssumption DEF TypeInv, BasicOK
  <2>2. /\ DOMAIN file' = 0 .. FirstOff - 1 /\ blocks' = blocks
    BY <1>2 DEF Format
  <2>3. Most' = Most
    BY <1>1, <2>2, SameGeometry DEF Most
  <2>4. FirstOff \in Nat /\ l2ClustersMax \in Nat /\ dataClustersMax \in Nat
    BY <2>1, Layout
  <2>5. \A c \in 0 .. FirstOff - 1 : c < Most
    BY <2>4 DEF Most
  <2> QED
    BY <2>2, <2>3, <2>5 DEF FileFits
<1>3. CASE AllocCluster
  <2>1. /\ DOMAIN file' = DOMAIN file \union {nextOff} /\ blocks' = blocks /\ off' = nextOff
        /\ pc' \in {"count_l2", "count_data"} /\ result' = result
        /\ pc \in {"alloc_l2", "alloc_data"}
    BY <1>3 DEF AllocCluster
  <2>2. Most' = Most
    BY <1>1, <2>1, SameGeometry DEF Most
  <2>3. nextOff < Most
    BY <2>1, <2>2 DEF OffFits
  <2> QED
    BY <2>1, <2>2, <2>3 DEF FileFits, Created
<1>4. ASSUME DOMAIN file' = DOMAIN file, blocks' = blocks, Created' => Created
      PROVE  FileFits'
  <2>1. Most' = Most
    BY <1>1, <1>4, SameGeometry DEF Most
  <2> QED
    BY <1>4, <2>1 DEF FileFits
<1>5. CASE GrowRefcounts \/ CreateFails
  BY <1>5 DEF GrowRefcounts, CreateFails, FileFits, Created
<1>6. CASE WriteAt \/ SkipZeros \/ Returned \/ FindL2 \/ SetRefcount \/ CacheL2 \/ FindData
  BY <1>4, <1>6 DEF WriteAt, SkipZeros, Returned, FindL2, SetRefcount, CacheL2, FindData, Created
<1>7. CASE ZeroL2 \/ ZeroData \/ FlushL2 \/ WriteData \/ WriteFails
  BY <1>4, <1>7 DEF ZeroL2, ZeroData, FlushL2, WriteData, WriteFails, Created
<1>8. CASE Close \/ FlushOne \/ WriteL1 \/ Closed \/ CloseFails
  <2>1. result # "none" <=> pc = "closed"
    BY DEF TypeInv, CallOK
  <2> QED
    BY <1>4, <1>8, <2>1 DEF Close, FlushOne, WriteL1, Closed, CloseFails, Created
<1>9. CASE Terminated \/ UNCHANGED vars
  BY <1>4, <1>9 DEF Terminated, vars, Created
<1> QED
  BY <1>2, <1>3, <1>5, <1>6, <1>7, <1>8, <1>9 DEF Next, Step

\* The words that tell of a table and of a data cluster of the image.
LEMMA ClustersHaveWords ==
  ASSUME size \in Nat \ {0}
  PROVE  /\ \A n \in Nat : n < dataClustersMax =>
              /\ n * EntriesPerL2 \in Words /\ (n * EntriesPerL2) \div EntriesPerL2 = n
         /\ \A n \in Nat : n < l2ClustersMax =>
              \E w \in Words : TableOf(w) = n
<1>1. EntriesPerL2 \in Nat \ {0}
  BY GeometryAssumption
<1>2. ASSUME NEW n \in Nat PROVE n * EntriesPerL2 \in Nat /\ (n * EntriesPerL2) \div EntriesPerL2 = n
  <2>1. PICK m \in Nat : m = n * EntriesPerL2
    BY <1>1, Multiples
  <2>2. m <= m /\ m < m + EntriesPerL2
    BY <1>1
  <2>3. m \div EntriesPerL2 = n
    BY <1>1, <2>1, <2>2, QuotientIs
  <2> QED
    BY <2>1, <2>3
<1>3. ASSUME NEW n \in Nat, n < dataClustersMax PROVE n * EntriesPerL2 \in Words
  <2>1. n * EntriesPerL2 \in Nat /\ n * EntriesPerL2 < size
    BY <1>1, <1>2, <1>3, CeilDivCovers DEF dataClustersMax
  <2> QED
    BY <2>1 DEF Words
<1>4. ASSUME NEW n \in Nat, n < l2ClustersMax PROVE \E w \in Words : TableOf(w) = n
  <2>1. dataClustersMax \in Nat
    BY CountsAreNatural
  <2>2. PICK m \in Nat : m = n * EntriesPerL2
    BY <1>2
  <2>3. m < dataClustersMax
    BY <1>1, <1>4, <2>1, <2>2, CeilDivCovers DEF l2ClustersMax
  <2>4. m * EntriesPerL2 \in Words /\ (m * EntriesPerL2) \div EntriesPerL2 = m
    BY <1>2, <1>3, <2>3
  <2>5. m \div EntriesPerL2 = n
    BY <1>2, <2>2
  <2> QED
    BY <2>4, <2>5 DEF TableOf
<1> QED
  BY <1>2, <1>3, <1>4

\* Every word is in a chunk.
LEMMA WordsInChunks ==
  ASSUME size \in Nat \ {0}, NEW w \in Words
  PROVE  \E k \in Chunks : w \in ChunkData(k)
<1>1. ChunkWords \in Nat \ {0} /\ w \in Nat /\ w < size
  BY GeometryAssumption DEF Words
<1>2. PICK q \in Nat : q = ceilDiv(size, ChunkWords)
  BY <1>1, CeilDivCovers
<1>3. size <= q * ChunkWords /\ q * ChunkWords \in Nat
  BY <1>1, <1>2, CeilDivCovers, Multiples
<1>4. PICK k \in Nat : k = w \div ChunkWords
  BY <1>1, DivMod
<1>5. k < q
  BY <1>1, <1>3, <1>4, QuotientBelow
<1>6. k \in Chunks
  BY <1>2, <1>5 DEF Chunks
<1>7. w % ChunkWords \in 0 .. ChunkWords - 1 /\ w = k * ChunkWords + (w % ChunkWords)
  BY <1>1, <1>4, DivMod
<1>8. PICK n \in Nat : n = k * ChunkWords
  BY <1>1, Multiples
<1>9. (k + 1) * ChunkWords = n + ChunkWords
  <2>1. (k + 1) * ChunkWords = k * ChunkWords + ChunkWords
    BY <1>1, Z3
  <2> QED
    BY <1>8, <2>1
<1>10. n <= w /\ w < n + ChunkWords
  BY <1>1, <1>7, <1>8
<1>11. w \in ChunkData(k)
  BY <1>1, <1>8, <1>9, <1>10 DEF ChunkData, ChunkEnd, Min2
<1> QED
  BY <1>6, <1>11

\* In a full image without zeros every word has its cluster.
LEMMA FullImageMapped ==
  ASSUME TypeInv, DataOK, written = Chunks, \A w \in Words : source[w] # 0, NEW w \in Words
  PROVE  TableOf(w) \in DOMAIN l2cache /\ l2cache[TableOf(w)][EntryOf(w)] # 0
<1>1. size \in Nat \ {0}
  BY GeometryAssumption DEF TypeInv, BasicOK
<1>2. Done(w)
  BY <1>1, WordsInChunks DEF Done
<1>3. HeldAt(w) # 0
  BY <1>2 DEF DataOK
<1> QED
  BY <1>3 DEF HeldAt, Mapped, ClusterOf

\* A full image without zeros has a cluster for every L2 table and every data
\* cluster there can be: as many as follow FirstOff in the file Measure foretells.
LEMMA FullImageTakesAll ==
  ASSUME TypeInv, PlacesOK, DataOK, FileFits, Created,
         written = Chunks, \A w \in Words : source[w] # 0
  PROVE  \A c \in FirstOff .. Most - 1 : c \in DOMAIN file
<1>1. /\ size \in Nat \ {0} /\ blocks \in Nat /\ EntriesPerL2 \in Nat \ {0}
      /\ FirstOff \in Nat /\ l2ClustersMax \in Nat /\ dataClustersMax \in Nat /\ Most \in Nat
  <2>1. size \in Nat \ {0} /\ blocks \in Nat /\ EntriesPerL2 \in Nat \ {0}
    BY GeometryAssumption DEF TypeInv, BasicOK
  <2> QED
    BY <2>1, Layout DEF Most
<1> DEFINE L == l2ClustersMax
           T == 0 .. l2ClustersMax + dataClustersMax - 1
           U == FirstOff .. Most - 1
           Table(n) == (n - L) \div EntriesPerL2
           Entry(n) == (n - L) % EntriesPerL2
           g == [n \in T |-> IF n < L THEN l1[n] ELSE l2cache[Table(n)][Entry(n)]]
<1>2. ASSUME NEW n \in T, n < L PROVE n \in DOMAIN l1 /\ l1[n] # 0
  <2>1. PICK w \in Words : TableOf(w) = n
    BY <1>1, <1>2, ClustersHaveWords
  <2>2. n \in DOMAIN l2cache
    BY <2>1, FullImageMapped
  <2>3. n \in DOMAIN l1
    BY <2>2 DEF TypeInv, StoreOK
  <2> QED
    BY <2>2, <2>3 DEF PlacesOK, TablesOK
<1>3. ASSUME NEW n \in T, ~(n < L)
      PROVE  /\ Table(n) \in DOMAIN l2cache /\ Entry(n) \in Entries
             /\ l2cache[Table(n)][Entry(n)] # 0
             /\ Table(n) \in Nat /\ n = L + (Table(n) * EntriesPerL2 + Entry(n))
  <2>1. PICK m \in Nat : m = n - L /\ n = L + m /\ m < dataClustersMax
    <3>1. n - L \in Nat /\ n = L + (n - L) /\ n - L < dataClustersMax
      BY <1>1, <1>3
    <3> QED
      BY <3>1
  <2>2. PICK w \in Words : w \div EntriesPerL2 = m
    BY <1>1, <2>1, ClustersHaveWords
  <2>3. TableOf(w) = Table(n) /\ EntryOf(w) = Entry(n)
    BY <2>1, <2>2 DEF TableOf, EntryOf
  <2>4. TableOf(w) \in DOMAIN l2cache /\ l2cache[TableOf(w)][EntryOf(w)] # 0
    BY FullImageMapped
  <2>5. /\ w \in Nat /\ TableOf(w) \in Nat /\ EntryOf(w) \in Entries
        /\ m = TableOf(w) * EntriesPerL2 + EntryOf(w)
    BY <1>1, <2>2, WordsFit, WordFacts
  <2> QED
    BY <2>1, <2>3, <2>4, <2>5
<1> HIDE DEF Table, Entry
<1>4. ASSUME NEW n \in T
      PROVE  /\ g[n] \in DOMAIN file /\ FirstOff <= g[n] /\ g[n] # 0
  <2>1. CASE n < L
    <3>1. n \in DOMAIN l1 /\ l1[n] # 0 /\ g[n] = l1[n]
      BY <1>2, <2>1
    <3> QED
      BY <3>1 DEF PlacesOK, GivenOK, Given
  <2>2. CASE ~(n < L)
    <3>1. /\ Table(n) \in DOMAIN l2cache /\ Entry(n) \in Entries
          /\ l2cache[Table(n)][Entry(n)] # 0 /\ g[n] = l2cache[Table(n)][Entry(n)]
      BY <1>3, <2>2
    <3> QED
      BY <3>1 DEF PlacesOK, GivenOK, Given
  <2> QED
    BY <2>1, <2>2
<1>5. \A c \in DOMAIN file : c \in Nat /\ c < Most
  BY <1>1 DEF TypeInv, BasicOK, StoreOK, FileFits
<1>6. g \in [T -> U]
  <2>1. \A n \in T : g[n] \in U
    BY <1>1, <1>4, <1>5
  <2> QED
    BY <2>1
<1>7. ASSUME NEW n \in T, NEW m \in T, g[n] = g[m] PROVE n = m
  <2>1. CASE n < L /\ m < L
    BY <1>2, <1>7, <2>1 DEF PlacesOK, ApartOK
  <2>2. CASE n < L /\ ~(m < L)
    BY <1>2, <1>3, <1>7, <2>2 DEF PlacesOK, ApartOK
  <2>3. CASE ~(n < L) /\ m < L
    BY <1>2, <1>3, <1>7, <2>3 DEF PlacesOK, ApartOK
  <2>4. CASE ~(n < L) /\ ~(m < L)
    <3>1. /\ Table(n) \in DOMAIN l2cache /\ Entry(n) \in Entries
          /\ Table(m) \in DOMAIN l2cache /\ Entry(m) \in Entries
          /\ l2cache[Table(n)][Entry(n)] # 0
          /\ l2cache[Table(n)][Entry(n)] = l2cache[Table(m)][Entry(m)]
      BY <1>3, <1>7, <2>4
    <3>2. Table(n) = Table(m) /\ Entry(n) = Entry(m)
      BY <3>1 DEF PlacesOK, ApartOK
    <3>3. /\ n = L + (Table(n) * EntriesPerL2 + Entry(n))
          /\ m = L + (Table(m) * EntriesPerL2 + Entry(m))
      BY <1>3, <2>4
    <3> QED
      BY <3>2, <3>3
  <2> QED
    BY <2>1, <2>2, <2>3, <2>4
<1>8. IsFiniteSet(T) /\ IsFiniteSet(U) /\ Cardinality(T) = Cardinality(U)
  <2>1. /\ IsFiniteSet(T)
        /\ Cardinality(T) = IF 0 > l2ClustersMax + dataClustersMax - 1 THEN 0
                            ELSE l2ClustersMax + dataClustersMax - 1 - 0 + 1
    BY <1>1, FS_Interval
  <2>2. /\ IsFiniteSet(U)
        /\ Cardinality(U) = IF FirstOff > Most - 1 THEN 0 ELSE Most - 1 - FirstOff + 1
    BY <1>1, FS_Interval
  <2> QED
    BY <1>1, <2>1, <2>2 DEF Most
<1> HIDE DEF g, T, U
<1>9. g \in Injection(T, U)
  BY <1>6, <1>7 DEF Injection, IsInjective
<1>10. g \in Surjection(T, U)
  BY <1>8, <1>9, FS_Injection
<1>11. ASSUME NEW c \in U PROVE c \in DOMAIN file
  <2>1. PICK n \in T : g[n] = c
    BY <1>10 DEF Surjection
  <2> QED
    BY <1>4, <2>1
<1> QED
  BY <1>11 DEF U

\* What Measure foretells of an image, Create lays out and the writer keeps to,
\* for every cluster size and virtual size and whatever is written and fails;
\* and a full image without zeros takes it all.
THEOREM MeasureIsRight == Spec => []MeasureForetells
<1> DEFINE Inv == TypeInv /\ PlacesOK /\ CountedOK /\ BoundOK /\ DataOK /\ GeometryInv
                  /\ SameLoop
<1>1. Inv /\ FileFits => MeasureForetells
  <2> SUFFICES ASSUME Inv, FileFits, Created PROVE MeasureForetells
    BY DEF MeasureForetells
  <2>1. /\ blocks = RefcountBlockCount
        /\ MetadataClusters(RefcountBlockCount) + MaxDataClusters = Most
        /\ Most \in Nat
    BY MostIsMeasured DEF Created
  <2>2. DOMAIN file \subseteq 0 .. Most - 1
    BY <2>1 DEF FileFits, TypeInv, BasicOK, StoreOK
  <2>3. ASSUME written = Chunks, \A w \in Words : source[w] # 0
        PROVE  0 .. Most - 1 \subseteq DOMAIN file
    <3>1. \A c \in FirstOff .. Most - 1 : c \in DOMAIN file
      BY <2>3, FullImageTakesAll
    <3>2. FirstOff \in Nat /\ nextOff \in Nat
      BY Layout, GeometryAssumption DEF TypeInv, BasicOK
    <3>3. \A c \in 0 .. FirstOff - 1 : c \in DOMAIN file
      BY <3>2 DEF TypeInv, StoreOK
    <3>4. ASSUME NEW c \in 0 .. Most - 1 PROVE c \in 0 .. FirstOff - 1 \/ c \in FirstOff .. Most - 1
      BY <2>1, <3>2
    <3> QED
      BY <3>1, <3>3, <3>4
  <2>4. result = "ok" /\ (\A w \in Words : source[w] # 0) /\ written = Chunks
          => DOMAIN file = 0 .. Most - 1
    BY <2>2, <2>3
  <2> QED
    BY <2>1, <2>2, <2>4 DEF MeasureForetells
<1>2. Init => Inv /\ FileFits
  BY TypeInit, PlacesInit, CountedInit, BoundInit, DataInit, GeometryInit, SameLoopInit,
     FileFitsInit
<1>3. Inv /\ [Next]_vars => Inv'
  BY TypeStep, PlacesStep, CountedStep, BoundStep, DataStep, GeometryStep, SameLoopStep
<1>4. Inv => OffFits
  BY OffFitsAlways
<1>5. Inv /\ FileFits /\ OffFits' /\ [Next]_vars => FileFits'
  BY FileFitsStep
<1> QED
  BY <1>1, <1>2, <1>3, <1>4, <1>5, PTL DEF Spec
=============================================================================
