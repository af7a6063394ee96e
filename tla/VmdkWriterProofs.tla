--------------------------- MODULE VmdkWriterProofs ---------------------------
(***************************************************************************)
(* Proofs, for every size of the disk, of a grain and of a chunk, that the *)
(* sparse VMDK the writer leaves is sound whenever the program is killed,  *)
(* and that what WriteAt has returned nil for is readable at once.         *)
(***************************************************************************)
EXTENDS VmdkWriter, TLAPS

-----------------------------------------------------------------------------
(* Division.                                                               *)

\* A quotient and its remainder.
LEMMA DivMod ==
  ASSUME NEW x \in Nat, NEW c \in Nat \ {0}
  PROVE  x \div c \in Nat /\ x % c \in 0 .. c - 1 /\ x = (x \div c) * c + (x % c)
<1>1. x \div c \in Nat /\ x % c \in 0 .. c - 1 /\ x = c * (x \div c) + (x % c)
  BY Z3
<1>2. \A q \in Nat : c * q = q * c
  BY Z3
<1> QED
  BY <1>1, <1>2

\* Multiples are ordered like their factors, and are apart.
LEMMA Multiples ==
  ASSUME NEW a \in Nat, NEW b \in Nat, NEW c \in Nat \ {0}
  PROVE  /\ a * c \in Nat /\ b * c \in Nat
         /\ a <= b => a * c <= b * c
         /\ a < b => a * c + c <= b * c
<1>1. a * c \in Nat /\ b * c \in Nat
  BY Z3
<1>2. ASSUME a <= b PROVE a * c <= b * c
  <2>1. PICK d \in Nat : d = b - a
    BY <1>2
  <2>2. b = a + d /\ d * c \in Nat
    BY <1>2, <2>1, Z3
  <2>3. b * c = a * c + d * c
    BY <2>2, Z3
  <2> QED
    BY <1>1, <2>2, <2>3
<1>3. ASSUME a < b PROVE a * c + c <= b * c
  <2>1. PICK d \in Nat : d = b - a - 1
    BY <1>3
  <2>2. b = a + d + 1 /\ d * c \in Nat
    BY <1>3, <2>1, Z3
  <2>3. b * c = a * c + d * c + c
    BY <2>2, Z3
  <2> QED
    BY <1>1, <2>2, <2>3
<1> QED
  BY <1>1, <1>2, <1>3

\* A number between two multiples has the smaller one's factor as quotient.
LEMMA QuotientIs ==
  ASSUME NEW x \in Nat, NEW q \in Nat, NEW c \in Nat \ {0},
         q * c <= x, x < q * c + c
  PROVE  x \div c = q /\ x % c = x - q * c
<1> DEFINE d == x \div c
<1>1. d \in Nat /\ x % c \in 0 .. c - 1 /\ x = d * c + (x % c)
  BY DivMod
<1>2. d * c \in Nat /\ q * c \in Nat
  BY <1>1, Multiples
<1> HIDE DEF d
<1>3. ~(d < q)
  BY <1>1, <1>2, Multiples
<1>4. ~(q < d)
  BY <1>1, <1>2, Multiples
<1>5. d = q
  BY <1>1, <1>3, <1>4
<1> QED
  BY <1>1, <1>2, <1>5 DEF d

\* A number below a multiple has a quotient below the factor.
LEMMA QuotientBelow ==
  ASSUME NEW x \in Nat, NEW m \in Nat, NEW c \in Nat \ {0}, x < m * c
  PROVE  x \div c < m
<1> DEFINE d == x \div c
<1>1. d \in Nat /\ x % c \in 0 .. c - 1 /\ x = d * c + (x % c)
  BY DivMod
<1>2. d * c \in Nat /\ m * c \in Nat /\ (m <= d => m * c <= d * c)
  BY <1>1, Multiples
<1> QED
  BY <1>1, <1>2

\* Rounding a division up loses nothing, and adds less than one.
LEMMA CeilDivCovers ==
  ASSUME NEW x \in Nat, NEW y \in Nat \ {0}
  PROVE  /\ ceilDiv(x, y) \in Nat /\ x <= ceilDiv(x, y) * y
         /\ \A k \in Nat : k < ceilDiv(x, y) => k * y < x
<1> DEFINE q == (x + y - 1) \div y
           m == (x + y - 1) % y
<1>1. x + y - 1 \in Nat
  OBVIOUS
<1>2. q \in Nat /\ m \in 0 .. y - 1 /\ x + y - 1 = q * y + m
  BY <1>1, DivMod
<1> HIDE DEF q, m
<1>3. q * y \in Nat
  BY <1>2, Multiples
<1>4. \A k \in Nat : k < q => k * y < x
  <2> SUFFICES ASSUME NEW k \in Nat, k < q PROVE k * y < x
    OBVIOUS
  <2>1. k * y \in Nat /\ k * y + y <= q * y
    BY <1>2, Multiples
  <2> QED
    BY <1>2, <1>3, <2>1
<1>5. x <= q * y
  BY <1>2, <1>3
<1> QED
  BY <1>2, <1>4, <1>5 DEF ceilDiv, q

-----------------------------------------------------------------------------
(* Where things are.                                                       *)

\* A step that leaves the size leaves the bounds of the disk.
LEMMA SameDisk ==
  ASSUME size' = size
  PROVE  /\ Words' = Words /\ Tables' = Tables /\ Chunks' = Chunks
         /\ \A k : ChunkEnd(k)' = ChunkEnd(k) /\ ChunkData(k)' = ChunkData(k)
BY DEF Words, Tables, numGTs, numGrains, capacitySectors, Chunks, ChunkEnd, ChunkData

\* The entry that a word of the disk is found by, and its place in the grain.
GrainOf(w) == w \div grainWords
TableOf(w) == GrainOf(w) \div NumGTEsPerGT
EntryOf(w) == GrainOf(w) % NumGTEsPerGT
InGrain(w) == w % grainWords
Places     == 0 .. grainWords - 1

LEMMA Geometry ==
  /\ SectorWords \in Nat \ {0} /\ GrainSectors \in Nat \ {0} /\ NumGTEsPerGT \in Nat \ {0}
  /\ OverHead \in Nat \ {0} /\ MaxSector \in Nat /\ ChunkWords \in Nat \ {0}
  /\ grainWords \in Nat \ {0}
<1>1. \A a, b \in Nat \ {0} : a * b \in Nat \ {0}
  BY Z3
<1> QED
  BY <1>1, GeometryAssumption DEF grainWords

\* Every word of the disk has an entry in a table.
LEMMA WordFacts ==
  ASSUME size \in Nat \ {0}, NEW w \in Words
  PROVE  /\ w \in Nat /\ GrainOf(w) \in Nat
         /\ TableOf(w) \in Tables /\ EntryOf(w) \in Entries /\ InGrain(w) \in Places
         /\ GrainOf(w) * grainWords \in Nat /\ w = GrainOf(w) * grainWords + InGrain(w)
         /\ GrainOf(w) = TableOf(w) * NumGTEsPerGT + EntryOf(w)
<1>1. /\ SectorWords \in Nat \ {0} /\ GrainSectors \in Nat \ {0} /\ NumGTEsPerGT \in Nat \ {0}
      /\ grainWords \in Nat \ {0}
  BY Geometry
<1>2. w \in Nat /\ w < size
  BY DEF Words
<1>3. /\ GrainOf(w) \in Nat /\ InGrain(w) \in Places
      /\ w = GrainOf(w) * grainWords + InGrain(w)
  BY <1>1, <1>2, DivMod DEF GrainOf, InGrain, Places
<1>4. /\ TableOf(w) \in Nat /\ EntryOf(w) \in Entries
      /\ GrainOf(w) = TableOf(w) * NumGTEsPerGT + EntryOf(w)
  BY <1>1, <1>3, DivMod DEF TableOf, EntryOf, Entries
<1>5. capacitySectors \in Nat /\ size <= capacitySectors * SectorWords
  BY <1>1, CeilDivCovers DEF capacitySectors
<1>6. numGrains \in Nat /\ capacitySectors <= numGrains * GrainSectors
  BY <1>1, <1>5, CeilDivCovers DEF numGrains
<1>7. numGTs \in Nat /\ numGrains <= numGTs * NumGTEsPerGT
  BY <1>1, <1>6, CeilDivCovers DEF numGTs
<1>8. w < numGrains * grainWords
  <2>1. numGrains * GrainSectors \in Nat
    BY <1>1, <1>6, Multiples
  <2>2. capacitySectors * SectorWords <= (numGrains * GrainSectors) * SectorWords
        /\ capacitySectors * SectorWords \in Nat /\ (numGrains * GrainSectors) * SectorWords \in Nat
    BY <1>1, <1>5, <1>6, <2>1, Multiples
  <2>3. \A a, b, c \in Nat : (a * b) * c = a * (b * c)
    BY Z3
  <2>4. (numGrains * GrainSectors) * SectorWords = numGrains * grainWords
    BY <1>1, <1>6, <2>3 DEF grainWords
  <2> QED
    BY <1>2, <1>5, <2>2, <2>4
<1>9. GrainOf(w) < numGrains
  BY <1>1, <1>2, <1>6, <1>8, QuotientBelow DEF GrainOf
<1>10. TableOf(w) < numGTs
  <2>1. numGTs * NumGTEsPerGT \in Nat
    BY <1>1, <1>7, Multiples
  <2>2. GrainOf(w) < numGTs * NumGTEsPerGT
    BY <1>3, <1>6, <1>7, <1>9, <2>1
  <2> QED
    BY <1>1, <1>3, <1>7, <2>2, QuotientBelow DEF TableOf
<1>11. TableOf(w) \in Tables /\ GrainOf(w) * grainWords \in Nat
  BY <1>1, <1>3, <1>4, <1>7, <1>10, Multiples DEF Tables
<1> QED
  BY <1>2, <1>3, <1>4, <1>11

\* Two words with the same entry and the same place in the grain are the same.
LEMMA WordsApart ==
  ASSUME size \in Nat \ {0}, NEW v \in Words, NEW w \in Words,
         TableOf(v) = TableOf(w), EntryOf(v) = EntryOf(w), InGrain(v) = InGrain(w)
  PROVE  v = w
<1>1. GrainOf(v) = GrainOf(w)
  BY WordFacts
<1> QED
  BY <1>1, WordFacts

\* The chunks are on the disk and share no word.
LEMMA ChunkFacts ==
  ASSUME size \in Nat \ {0}, NEW k \in Chunks
  PROVE  /\ k \in Nat /\ k * ChunkWords \in Nat /\ k * ChunkWords < ChunkEnd(k)
         /\ ChunkEnd(k) \in Nat /\ ChunkEnd(k) <= size
         /\ ChunkEnd(k) <= k * ChunkWords + ChunkWords
         /\ ChunkData(k) \subseteq Words
<1>1. ChunkWords \in Nat \ {0}
  BY Geometry
<1>2. ceilDiv(size, ChunkWords) \in Nat
  BY <1>1, CeilDivCovers
<1>3. k \in Nat /\ k < ceilDiv(size, ChunkWords)
  BY <1>2 DEF Chunks
<1>4. k * ChunkWords \in Nat /\ k * ChunkWords < size
  BY <1>1, <1>3, CeilDivCovers, Multiples
<1>5. (k + 1) * ChunkWords = k * ChunkWords + ChunkWords
  BY <1>1, <1>3, Z3
<1> QED
  BY <1>1, <1>3, <1>4, <1>5 DEF ChunkEnd, Least, ChunkData, Words

LEMMA ChunksApart ==
  ASSUME size \in Nat \ {0}, NEW k \in Chunks, NEW m \in Chunks,
         NEW w, w \in ChunkData(k), w \in ChunkData(m)
  PROVE  k = m
<1>1. /\ k \in Nat /\ k * ChunkWords \in Nat /\ m \in Nat /\ m * ChunkWords \in Nat
      /\ ChunkEnd(k) \in Nat /\ ChunkEnd(k) <= k * ChunkWords + ChunkWords
      /\ ChunkEnd(m) \in Nat /\ ChunkEnd(m) <= m * ChunkWords + ChunkWords
      /\ ChunkWords \in Nat \ {0}
  BY ChunkFacts, Geometry
<1>2. w \in Nat /\ k * ChunkWords <= w /\ w < k * ChunkWords + ChunkWords
      /\ m * ChunkWords <= w /\ w < m * ChunkWords + ChunkWords
  BY <1>1 DEF ChunkData
<1>3. w \div ChunkWords = k /\ w \div ChunkWords = m
  BY <1>1, <1>2, QuotientIs
<1> QED
  BY <1>3

-----------------------------------------------------------------------------
(* Types, and where the call of WriteAt is.                                *)

EndPCs == {"stopped", "flush", "closed"}

TypeInv ==
  /\ pc \in {"idle", "piece", "table"} \union EndPCs
  /\ size \in Nat \ {0}
  /\ gts \in [Tables -> [Entries -> Nat]] /\ onDisk \in [Tables -> [Entries -> Nat]]
  /\ nextData \in Nat /\ OverHead <= nextData
  /\ source \subseteq Words /\ written \subseteq Chunks /\ pos \in Nat
  /\ pc \in {"piece", "table"} =>
       /\ chunk \in Chunks /\ chunk \notin written
       /\ chunk * ChunkWords <= pos /\ pos <= ChunkEnd(chunk)
  /\ pc = "table" => pos < ChunkEnd(chunk)

\* What the statements of the loop may rely on.
LEMMA LoopFacts ==
  ASSUME TypeInv, Unfinished \/ pc = "table"
  PROVE  /\ chunk \in Chunks /\ chunk \notin written /\ pos \in Nat /\ size \in Nat \ {0}
         /\ chunk * ChunkWords <= pos /\ pos \in Words /\ pos \in ChunkData(chunk)
         /\ want \in Nat \ {0} /\ pos + want <= ChunkEnd(chunk)
         /\ Piece \subseteq ChunkData(chunk) /\ Piece \subseteq Words
         /\ gtIdx = TableOf(pos) /\ gtIdx \in Tables
         /\ gtEnt = EntryOf(pos) /\ gtEnt \in Entries
         /\ inGrain \in Nat /\ inGrain + want <= grainWords
         /\ \A w \in Piece : /\ TableOf(w) = gtIdx /\ EntryOf(w) = gtEnt
                             /\ InGrain(w) = inGrain + (w - pos)
         /\ \A w \in Words : TableOf(w) = gtIdx /\ EntryOf(w) = gtEnt =>
                               InGrain(w) = inGrain + (w - pos)
<1>1. /\ chunk \in Chunks /\ chunk \notin written /\ pos \in Nat /\ size \in Nat \ {0}
      /\ chunk * ChunkWords <= pos /\ pos < ChunkEnd(chunk)
  BY DEF TypeInv, Unfinished
<1>2. /\ chunk * ChunkWords \in Nat /\ ChunkEnd(chunk) \in Nat /\ ChunkEnd(chunk) <= size
      /\ ChunkData(chunk) \subseteq Words
  BY <1>1, ChunkFacts
<1>3. grainWords \in Nat \ {0}
  BY Geometry
<1>4. pos \in Words /\ pos \in ChunkData(chunk)
  BY <1>1, <1>2 DEF Words, ChunkData
<1>5. gtIdx = TableOf(pos) /\ gtEnt = EntryOf(pos) /\ inGrain = InGrain(pos)
      /\ grainIdx = GrainOf(pos)
  BY DEF gtIdx, gtEnt, grainIdx, inGrain, TableOf, EntryOf, GrainOf, InGrain
<1>6. PICK b \in Nat : b = GrainOf(pos) * grainWords
  BY <1>1, <1>4, WordFacts
<1>7. /\ gtIdx \in Tables /\ gtEnt \in Entries /\ inGrain \in Places /\ pos = b + inGrain
      /\ GrainOf(pos) \in Nat
  BY <1>1, <1>4, <1>5, <1>6, WordFacts
<1>8. /\ inGrain \in Nat /\ inGrain < grainWords
  BY <1>3, <1>7 DEF Places
<1>9. /\ want \in Nat \ {0} /\ pos + want <= ChunkEnd(chunk) /\ inGrain + want <= grainWords
  BY <1>1, <1>2, <1>3, <1>8 DEF want, Least
<1>10. Piece \subseteq ChunkData(chunk)
  BY <1>1, <1>2, <1>9 DEF Piece, ChunkData
<1>11. ASSUME NEW w \in Piece
       PROVE  /\ TableOf(w) = gtIdx /\ EntryOf(w) = gtEnt
              /\ InGrain(w) = inGrain + (w - pos)
  <2>1. w \in Nat /\ b <= w /\ w < b + grainWords
    BY <1>3, <1>6, <1>7, <1>8, <1>9 DEF Piece
  <2>2. w \div grainWords = GrainOf(pos) /\ w % grainWords = w - b
    BY <1>3, <1>6, <1>7, <2>1, QuotientIs
  <2>3. InGrain(w) = inGrain + (w - pos)
    BY <1>6, <1>7, <1>8, <2>1, <2>2 DEF InGrain
  <2> QED
    BY <1>5, <2>2, <2>3 DEF TableOf, EntryOf, GrainOf
<1>12. ASSUME NEW w \in Words, TableOf(w) = gtIdx, EntryOf(w) = gtEnt
       PROVE  InGrain(w) = inGrain + (w - pos)
  <2>1. GrainOf(w) = GrainOf(pos)
    BY <1>1, <1>4, <1>5, <1>12, WordFacts
  <2>2. w \in Nat /\ InGrain(w) \in Nat /\ w = b + InGrain(w)
    BY <1>1, <1>3, <1>6, <2>1, WordFacts DEF Places
  <2> QED
    BY <1>6, <1>7, <1>8, <2>2
<1> QED
  BY <1>1, <1>2, <1>4, <1>5, <1>7, <1>8, <1>9, <1>10, <1>11, <1>12

-----------------------------------------------------------------------------
(* The sectors of the grains, and the tables of the file.                  *)

Apart(s, u) == s + GrainSectors <= u \/ u + GrainSectors <= s

\* The grains lie behind the tables, and no two in the same sectors.
SectorsOK ==
  \A t \in Tables, e \in Entries : gts[t][e] # 0 =>
    /\ OverHead <= gts[t][e] /\ gts[t][e] + GrainSectors <= nextData
    /\ \A u \in Tables, f \in Entries :
         gts[u][f] # 0 /\ (t # u \/ e # f) => Apart(gts[t][e], gts[u][f])

\* An entry of the file is the one in memory, or not written yet.
TablesOK ==
  /\ \A t \in Tables, e \in Entries : onDisk[t][e] \in {0, gts[t][e]}
  /\ pc \in {"idle", "piece"} => onDisk = gts
  /\ pc = "table" => \A t \in Tables : t # gtIdx => onDisk[t] = gts[t]

\* A grain gets the next sectors.
LEMMA AllocateFacts ==
  ASSUME TypeInv, NeedsGrain, Allocate
  PROVE  /\ gtIdx \in Tables /\ gtEnt \in Entries /\ gts[gtIdx][gtEnt] = 0
         /\ gts' \in [Tables -> [Entries -> Nat]] /\ gts'[gtIdx][gtEnt] = nextData
         /\ \A t \in Tables : t # gtIdx => gts'[t] = gts[t]
         /\ \A t \in Tables, e \in Entries : t # gtIdx \/ e # gtEnt => gts'[t][e] = gts[t][e]
         /\ nextData \in Nat /\ nextData # 0 /\ nextData' \in Nat /\ OverHead <= nextData
         /\ nextData' = nextData + GrainSectors /\ OverHead <= nextData'
<1>1. gtIdx \in Tables /\ gtEnt \in Entries /\ gts[gtIdx][gtEnt] = 0
  BY LoopFacts DEF NeedsGrain, sec
<1>2. /\ nextData \in Nat /\ OverHead <= nextData /\ OverHead \in Nat \ {0}
      /\ GrainSectors \in Nat \ {0} /\ nextData' = nextData + GrainSectors
  BY Geometry DEF TypeInv, Allocate
<1>3. gts' = [gts EXCEPT ![gtIdx][gtEnt] = nextData] /\ gts \in [Tables -> [Entries -> Nat]]
  BY DEF Allocate, TypeInv
<1>4. gts' = [gts EXCEPT ![gtIdx] = [gts[gtIdx] EXCEPT ![gtEnt] = nextData]]
  BY <1>3
<1>5. gts[gtIdx] \in [Entries -> Nat]
  BY <1>1, <1>3
<1>6. [gts[gtIdx] EXCEPT ![gtEnt] = nextData] \in [Entries -> Nat]
  BY <1>1, <1>2, <1>5
<1>7. gts' \in [Tables -> [Entries -> Nat]]
  BY <1>1, <1>3, <1>4, <1>6
<1>8. gts'[gtIdx] = [gts[gtIdx] EXCEPT ![gtEnt] = nextData]
      /\ \A t \in Tables : t # gtIdx => gts'[t] = gts[t]
  BY <1>1, <1>3, <1>4
<1>9. gts'[gtIdx][gtEnt] = nextData
      /\ \A e \in Entries : e # gtEnt => gts'[gtIdx][e] = gts[gtIdx][e]
  BY <1>1, <1>5, <1>8
<1> QED
  BY <1>1, <1>2, <1>7, <1>8, <1>9

LEMMA SectorsAllocate ==
  ASSUME TypeInv, SectorsOK, NeedsGrain, Allocate, size' = size
  PROVE  SectorsOK'
<1>1. /\ gtIdx \in Tables /\ gtEnt \in Entries /\ gts[gtIdx][gtEnt] = 0
      /\ gts'[gtIdx][gtEnt] = nextData
      /\ \A t \in Tables, e \in Entries : t # gtIdx \/ e # gtEnt => gts'[t][e] = gts[t][e]
      /\ nextData \in Nat /\ nextData' = nextData + GrainSectors /\ OverHead <= nextData
  BY AllocateFacts
<1>2. GrainSectors \in Nat \ {0} /\ OverHead \in Nat \ {0} /\ gts \in [Tables -> [Entries -> Nat]]
  BY Geometry DEF TypeInv
<1>3. Tables' = Tables
  BY SameDisk
<1>4. ASSUME NEW t \in Tables, NEW e \in Entries, t # gtIdx \/ e # gtEnt, gts[t][e] # 0
      PROVE  /\ gts[t][e] \in Nat /\ OverHead <= gts[t][e]
             /\ gts[t][e] + GrainSectors <= nextData
             /\ gts[t][e] + GrainSectors <= nextData' /\ Apart(gts[t][e], nextData)
  <2>1. gts[t][e] \in Nat
    BY <1>2
  <2>2. OverHead <= gts[t][e] /\ gts[t][e] + GrainSectors <= nextData
    BY <1>4 DEF SectorsOK
  <2> QED
    BY <1>1, <1>2, <2>1, <2>2 DEF Apart
<1>5. SUFFICES ASSUME NEW t \in Tables, NEW e \in Entries, gts'[t][e] # 0
               PROVE  /\ OverHead <= gts'[t][e] /\ gts'[t][e] + GrainSectors <= nextData'
                      /\ \A u \in Tables, f \in Entries :
                           gts'[u][f] # 0 /\ (t # u \/ e # f) => Apart(gts'[t][e], gts'[u][f])
  BY <1>3 DEF SectorsOK, Apart
<1>6. CASE t = gtIdx /\ e = gtEnt
  <2>1. gts'[t][e] = nextData
    BY <1>1, <1>6
  <2>2. ASSUME NEW u \in Tables, NEW f \in Entries, gts'[u][f] # 0, t # u \/ e # f
        PROVE  Apart(nextData, gts'[u][f])
    <3>1. gts'[u][f] = gts[u][f] /\ (u # gtIdx \/ f # gtEnt)
      BY <1>1, <1>6, <2>2
    <3>2. Apart(gts[u][f], nextData)
      BY <1>4, <2>2, <3>1
    <3> QED
      BY <3>1, <3>2 DEF Apart
  <2> QED
    BY <1>1, <1>2, <2>1, <2>2
<1>7. CASE t # gtIdx \/ e # gtEnt
  <2>1. gts'[t][e] = gts[t][e] /\ gts[t][e] # 0
    BY <1>1, <1>5, <1>7
  <2>2. ASSUME NEW u \in Tables, NEW f \in Entries, gts'[u][f] # 0, t # u \/ e # f
        PROVE  Apart(gts[t][e], gts'[u][f])
    <3>1. CASE u = gtIdx /\ f = gtEnt
      BY <1>1, <1>4, <1>7, <2>1, <3>1
    <3>2. CASE u # gtIdx \/ f # gtEnt
      BY <1>1, <2>1, <2>2, <3>2 DEF SectorsOK
    <3> QED
      BY <3>1, <3>2
  <2> QED
    BY <1>4, <1>7, <2>1, <2>2
<1> QED
  BY <1>6, <1>7

LEMMA TypeInit == Init => TypeInv /\ SectorsOK /\ TablesOK
<1> SUFFICES ASSUME Init PROVE TypeInv /\ SectorsOK /\ TablesOK
  OBVIOUS
<1>1. size \in Nat \ {0} /\ OverHead \in Nat
  BY GeometryAssumption DEF Init
<1>2. gts = [t \in Tables |-> [e \in Entries |-> 0]] /\ onDisk = gts
  BY DEF Init
<1>3. \A t \in Tables, e \in Entries : gts[t][e] = 0
  BY <1>2
<1>4. gts \in [Tables -> [Entries -> Nat]]
  BY <1>2
<1> QED
  BY <1>1, <1>2, <1>3, <1>4 DEF Init, TypeInv, SectorsOK, TablesOK

LEMMA TypeStep == TypeInv /\ [Next]_vars => TypeInv'
<1> SUFFICES ASSUME TypeInv, [Next]_vars PROVE TypeInv'
  OBVIOUS
<1> USE DEF call, disk
<1>0. size' = size /\ size \in Nat \ {0}
  BY DEF TypeInv, Next, Step, WriteAt, SkipZeros, AllocateGrain, AllocateFails, TooFar, WriteGT,
         WriteData, WriteFails, Returned, Close, FlushGT, Closed, CloseFails, Terminated, vars
<1>a. /\ Words' = Words /\ Tables' = Tables /\ Chunks' = Chunks
      /\ \A k : ChunkEnd(k)' = ChunkEnd(k)
  BY <1>0, SameDisk
<1>b. chunk' = chunk => ChunkEnd(chunk)' = ChunkEnd(chunk)
  BY <1>0 DEF ChunkEnd
<1>1. CASE WriteAt
  <2>1. PICK k \in Chunks \ written, new \in SUBSET Words :
          source' = source \union new /\ chunk' = k /\ pos' = k * ChunkWords
    BY <1>1 DEF WriteAt
  <2>2. k * ChunkWords \in Nat /\ k * ChunkWords <= ChunkEnd(k)
    BY <1>0, ChunkFacts
  <2>3. pc' = "piece" /\ UNCHANGED <<gts, onDisk, nextData, written>>
    BY <1>1 DEF WriteAt
  <2>4. ChunkEnd(chunk)' = ChunkEnd(k)
    BY <1>0, <2>1 DEF ChunkEnd
  <2> QED
    BY <1>0, <1>a, <2>1, <2>2, <2>3, <2>4 DEF TypeInv, EndPCs
<1>2. CASE SkipZeros \/ WriteData
  <2>1. Unfinished /\ pos' = pos + want
        /\ UNCHANGED <<pc, gts, onDisk, nextData, source, written, chunk>>
    BY <1>2 DEF SkipZeros, WriteData
  <2>2. want \in Nat /\ pos + want <= ChunkEnd(chunk) /\ pos \in Nat /\ chunk \in Chunks
        /\ chunk * ChunkWords <= pos /\ chunk * ChunkWords \in Nat
    BY <1>0, <2>1, LoopFacts, ChunkFacts
  <2>3. pos' \in Nat /\ chunk * ChunkWords <= pos' /\ pos' <= ChunkEnd(chunk)
    BY <2>1, <2>2
  <2>4. pc = "piece"
    BY <2>1 DEF Unfinished
  <2> QED
    BY <1>0, <1>a, <1>b, <2>1, <2>3, <2>4 DEF TypeInv
<1>3. CASE AllocateGrain \/ AllocateFails
  <2>1. /\ Unfinished /\ pc = "piece" /\ pos < ChunkEnd(chunk) /\ pc' \in {"table", "stopped"}
        /\ UNCHANGED <<onDisk, source, written, chunk, pos>>
    BY <1>3 DEF AllocateGrain, AllocateFails, NeedsGrain, Unfinished
  <2>2. gts' \in [Tables -> [Entries -> Nat]] /\ nextData' \in Nat /\ OverHead <= nextData'
    BY <1>3, AllocateFacts DEF AllocateGrain, AllocateFails
  <2> QED
    BY <1>0, <1>a, <1>b, <2>1, <2>2 DEF TypeInv, EndPCs
<1>4. CASE WriteGT
  <2>1. onDisk' = [onDisk EXCEPT ![gtIdx] = gts[gtIdx]] /\ gtIdx \in Tables
    BY <1>4, LoopFacts DEF WriteGT
  <2>2. onDisk' \in [Tables -> [Entries -> Nat]]
    BY <2>1 DEF TypeInv
  <2>3. pc = "table" /\ pc' = "piece" /\ UNCHANGED <<gts, nextData, source, written, chunk, pos>>
    BY <1>4 DEF WriteGT
  <2> QED
    BY <1>0, <1>a, <1>b, <2>2, <2>3 DEF TypeInv
<1>5. CASE FlushGT
  <2>1. onDisk' = [onDisk EXCEPT ![flushed] = gts[flushed]] /\ flushed \in Tables
    BY <1>5 DEF FlushGT
  <2>2. onDisk' \in [Tables -> [Entries -> Nat]]
    BY <2>1 DEF TypeInv
  <2>3. pc = "flush" /\ pc' = "flush" /\ UNCHANGED <<gts, nextData, source, written, chunk, pos>>
    BY <1>5 DEF FlushGT
  <2> QED
    BY <1>0, <1>a, <1>b, <2>2, <2>3 DEF TypeInv
<1>6. CASE Returned
  BY <1>0, <1>a, <1>b, <1>6 DEF Returned, TypeInv
<1>7. CASE TooFar \/ WriteFails \/ Close \/ Closed \/ CloseFails
  <2>1. /\ UNCHANGED <<gts, onDisk, nextData, source, written, chunk, pos>> /\ pc' \in EndPCs
    BY <1>7 DEF TooFar, WriteFails, Close, Closed, CloseFails, EndPCs
  <2> QED
    BY <1>0, <1>a, <1>b, <2>1 DEF TypeInv, EndPCs
<1>8. CASE Terminated \/ UNCHANGED vars
  <2>1. UNCHANGED <<pc, gts, onDisk, nextData, source, written, chunk, pos>>
    BY <1>8 DEF Terminated, vars
  <2> QED
    BY <1>0, <1>a, <1>b, <2>1 DEF TypeInv
<1> QED
  BY <1>1, <1>2, <1>3, <1>4, <1>5, <1>6, <1>7, <1>8 DEF Next, Step

LEMMA SectorsStep == TypeInv /\ SectorsOK /\ [Next]_vars => SectorsOK'
<1> SUFFICES ASSUME TypeInv, SectorsOK, [Next]_vars PROVE SectorsOK'
  OBVIOUS
<1> USE DEF call, disk
<1>1. CASE AllocateGrain \/ AllocateFails
  BY <1>1, SectorsAllocate DEF AllocateGrain, AllocateFails
<1>2. CASE UNCHANGED <<size, gts, nextData>>
  BY <1>2, SameDisk DEF SectorsOK, Apart
<1> QED
  BY <1>1, <1>2 DEF Next, Step, WriteAt, SkipZeros, TooFar, WriteGT, WriteData, WriteFails,
                    Returned, Close, FlushGT, Closed, CloseFails, Terminated, vars

LEMMA TablesStep == TypeInv /\ TablesOK /\ [Next]_vars => TablesOK'
<1> SUFFICES ASSUME TypeInv, TablesOK, [Next]_vars PROVE TablesOK'
  OBVIOUS
<1> USE DEF call, disk
<1>0. Tables' = Tables
  <2>1. size' = size
    BY DEF Next, Step, WriteAt, SkipZeros, AllocateGrain, AllocateFails, TooFar, WriteGT,
           WriteData, WriteFails, Returned, Close, FlushGT, Closed, CloseFails, Terminated, vars
  <2> QED
    BY <2>1, SameDisk
<1>1. CASE AllocateGrain \/ AllocateFails
  <2>1. /\ gtIdx \in Tables /\ gtEnt \in Entries /\ gts[gtIdx][gtEnt] = 0
        /\ \A t \in Tables : t # gtIdx => gts'[t] = gts[t]
        /\ \A t \in Tables, e \in Entries : t # gtIdx \/ e # gtEnt => gts'[t][e] = gts[t][e]
    BY <1>1, AllocateFacts DEF AllocateGrain, AllocateFails
  <2>2. pc = "piece" /\ pc' \in {"table", "stopped"} /\ onDisk = gts /\ onDisk' = onDisk
        /\ gtIdx' = gtIdx
    BY <1>1 DEF AllocateGrain, AllocateFails, NeedsGrain, Unfinished, TablesOK, gtIdx, grainIdx
  <2>3. \A t \in Tables, e \in Entries : onDisk'[t][e] \in {0, gts'[t][e]}
    BY <2>1, <2>2
  <2> QED
    BY <1>0, <2>1, <2>2, <2>3 DEF TablesOK
<1>2. CASE WriteGT
  <2>1. onDisk' = [onDisk EXCEPT ![gtIdx] = gts[gtIdx]] /\ gtIdx \in Tables /\ gts' = gts
        /\ pc = "table" /\ pc' = "piece"
    BY <1>2, LoopFacts DEF WriteGT
  <2>2. /\ onDisk' \in [Tables -> [Entries -> Nat]] /\ gts \in [Tables -> [Entries -> Nat]]
        /\ \A t \in Tables : onDisk'[t] = gts[t]
    BY <2>1 DEF TypeInv, TablesOK
  <2>3. onDisk' = gts'
    BY <2>1, <2>2
  <2> QED
    BY <1>0, <2>1, <2>3 DEF TablesOK
<1>3. CASE FlushGT
  <2>1. onDisk' = [onDisk EXCEPT ![flushed] = gts[flushed]] /\ flushed \in Tables /\ gts' = gts
        /\ pc' = "flush"
    BY <1>3 DEF FlushGT
  <2>2. \A t \in Tables : onDisk'[t] = gts[t] \/ onDisk'[t] = onDisk[t]
    BY <2>1 DEF TypeInv
  <2> QED
    BY <1>0, <2>1, <2>2 DEF TablesOK
<1>4. CASE \/ WriteAt \/ SkipZeros \/ TooFar \/ WriteData \/ WriteFails \/ Returned \/ Close
           \/ Closed \/ CloseFails \/ Terminated \/ UNCHANGED vars
  <2>1. UNCHANGED <<gts, onDisk>>
    BY <1>4 DEF WriteAt, SkipZeros, TooFar, WriteData, WriteFails, Returned, Close, Closed,
                CloseFails, Terminated, vars
  <2>2. pc' \in {"idle", "piece"} => pc \in {"idle", "piece"}
    BY <1>4 DEF WriteAt, SkipZeros, TooFar, WriteData, WriteFails, Returned, Close, Closed,
                CloseFails, Terminated, vars, Unfinished
  <2>3. pc' = "table" => pc = "table" /\ gtIdx' = gtIdx
    BY <1>4 DEF WriteAt, SkipZeros, TooFar, WriteData, WriteFails, Returned, Close, Closed,
                CloseFails, Terminated, vars, Unfinished, gtIdx, grainIdx
  <2> QED
    BY <1>0, <2>1, <2>2, <2>3 DEF TablesOK
<1> QED
  BY <1>1, <1>2, <1>3, <1>4 DEF Next, Step

-----------------------------------------------------------------------------
(* The data of the file.                                                   *)

SectorOf(w) == gts[TableOf(w)][EntryOf(w)]
OnDiskOf(w) == onDisk[TableOf(w)][EntryOf(w)]
Place(w)    == SectorOf(w) * SectorWords + InGrain(w)

\* The file holds nothing but words that were asked for, where they are found.
DataOK ==
  \A d \in data :
    d[2] \in source /\ SectorOf(d[2]) # 0 /\ d = <<Place(d[2]), d[2]>>

\* WriteAt has dealt with the word as a part of the chunk.
DoneBy(k, w) == /\ w \in ChunkData(k)
                /\ k \in written \/ (pc \in {"piece", "table"} /\ k = chunk /\ w < pos)

\* Every word that WriteAt has dealt with can be read.
DoneOK ==
  \A k \in Chunks : \A w \in source : DoneBy(k, w) =>
    SectorOf(w) # 0 /\ OnDiskOf(w) = SectorOf(w) /\ <<Place(w), w>> \in data

LEMMA PlaceFacts ==
  ASSUME TypeInv, NEW w \in Words
  PROVE  /\ SectorOf(w) \in Nat /\ OnDiskOf(w) \in Nat /\ InGrain(w) \in Places
         /\ SectorOf(w) * SectorWords \in Nat /\ Place(w) \in Nat
<1>1. TableOf(w) \in Tables /\ EntryOf(w) \in Entries /\ InGrain(w) \in Places
  BY WordFacts DEF TypeInv
<1>2. SectorOf(w) \in Nat /\ OnDiskOf(w) \in Nat /\ SectorWords \in Nat \ {0}
      /\ grainWords \in Nat \ {0}
  BY <1>1, Geometry DEF TypeInv, SectorOf, OnDiskOf
<1>3. SectorOf(w) * SectorWords \in Nat
  BY <1>2, Multiples
<1> QED
  BY <1>1, <1>2, <1>3 DEF Place, Places

\* Two words have the same place in the file only when they are the same.
LEMMA PlacesApart ==
  ASSUME TypeInv, SectorsOK, NEW v \in Words, NEW w \in Words,
         SectorOf(v) # 0, SectorOf(w) # 0, Place(v) = Place(w)
  PROVE  v = w
<1>1. /\ TableOf(v) \in Tables /\ EntryOf(v) \in Entries
      /\ TableOf(w) \in Tables /\ EntryOf(w) \in Entries
  BY WordFacts DEF TypeInv
<1>2. PICK s \in Nat, u \in Nat : s = SectorOf(v) /\ u = SectorOf(w)
  BY PlaceFacts
<1>3. /\ SectorWords \in Nat \ {0} /\ GrainSectors \in Nat \ {0} /\ grainWords \in Nat \ {0}
  BY Geometry
<1>4. ASSUME NEW a \in Nat, NEW b \in Nat, a + GrainSectors <= b
      PROVE  a * SectorWords + grainWords <= b * SectorWords
  <2>1. a + GrainSectors \in Nat
    BY <1>3
  <2>2. (a + GrainSectors) * SectorWords <= b * SectorWords
    BY <1>3, <1>4, <2>1, Multiples
  <2>3. \A x, y, z \in Nat : (x + y) * z = x * z + y * z
    BY Z3
  <2> QED
    BY <1>3, <2>2, <2>3 DEF grainWords
<1>5. PICK x \in Nat, y \in Nat : x = s * SectorWords /\ y = u * SectorWords
  BY <1>3, Multiples
<1>6. PICK i \in Places, j \in Places : i = InGrain(v) /\ j = InGrain(w) /\ x + i = y + j
  BY <1>2, <1>5, PlaceFacts DEF Place
<1>7. CASE TableOf(v) = TableOf(w) /\ EntryOf(v) = EntryOf(w)
  <2>1. x = y
    BY <1>2, <1>5, <1>7 DEF SectorOf
  <2>2. i = j
    BY <1>3, <1>5, <1>6, <2>1 DEF Places
  <2> QED
    BY <1>6, <1>7, <2>2, WordsApart DEF TypeInv
<1>8. CASE TableOf(v) # TableOf(w) \/ EntryOf(v) # EntryOf(w)
  <2>1. Apart(s, u)
    BY <1>1, <1>2, <1>8 DEF SectorsOK, SectorOf
  <2>2. x + grainWords <= y \/ y + grainWords <= x
    BY <1>2, <1>4, <1>5, <2>1 DEF Apart
  <2> QED
    BY <1>3, <1>5, <1>6, <2>2 DEF Places
<1> QED
  BY <1>7, <1>8

LEMMA DataInit == Init => DataOK /\ DoneOK
BY DEF Init, DataOK, DoneOK

\* A step that moves no grain, takes no entry back and is done with no word
\* that was asked for.
LEMMA DataQuiet ==
  ASSUME TypeInv, DataOK, DoneOK, Chunks' = Chunks, data' = data, source \subseteq source',
         \A w \in Words : /\ SectorOf(w) # 0 => SectorOf(w)' = SectorOf(w)
                          /\ OnDiskOf(w)' \in {OnDiskOf(w), SectorOf(w)},
         \A k \in Chunks : \A w \in source' : DoneBy(k, w)' => w \in source /\ DoneBy(k, w)
  PROVE  DataOK' /\ DoneOK'
<1>1. \A w \in Words : SectorOf(w) # 0 => Place(w)' = Place(w)
  BY DEF Place, InGrain
<1>2. source \subseteq Words
  BY DEF TypeInv
<1>3. DataOK'
  BY <1>1, <1>2 DEF DataOK
<1>4. DoneOK'
  <2> SUFFICES ASSUME NEW k \in Chunks, NEW w \in source', DoneBy(k, w)'
               PROVE  SectorOf(w)' # 0 /\ OnDiskOf(w)' = SectorOf(w)' /\ <<Place(w)', w>> \in data
    BY DEF DoneOK
  <2>1. w \in source /\ DoneBy(k, w)
    OBVIOUS
  <2>2. SectorOf(w) # 0 /\ OnDiskOf(w) = SectorOf(w) /\ <<Place(w), w>> \in data
    BY <2>1 DEF DoneOK
  <2> QED
    BY <1>1, <1>2, <2>1, <2>2
<1> QED
  BY <1>3, <1>4

\* The first n words of the piece are written: what was in their places goes.
LEMMA DataOverwritten ==
  ASSUME TypeInv, SectorsOK, TablesOK, DataOK, DoneOK, Unfinished, sec # 0,
         NEW n \in 0 .. want, data' = Overwritten(n), Chunks' = Chunks,
         UNCHANGED <<gts, onDisk, source>>,
         \A k \in Chunks : \A w \in source :
           DoneBy(k, w)' => DoneBy(k, w) \/ w \in pos .. pos + n - 1
  PROVE  DataOK' /\ DoneOK'
<1> DEFINE at   == sec * SectorWords + inGrain
           part == pos .. pos + n - 1
<1>1. /\ pos \in Nat /\ pos \in Words /\ inGrain \in Nat /\ want \in Nat
      /\ gtIdx \in Tables /\ gtEnt \in Entries
      /\ Piece \subseteq Words
      /\ \A w \in Piece : /\ TableOf(w) = gtIdx /\ EntryOf(w) = gtEnt
                          /\ InGrain(w) = inGrain + (w - pos)
      /\ gtIdx = TableOf(pos) /\ gtEnt = EntryOf(pos)
  BY LoopFacts
<1>2. sec = SectorOf(pos) /\ onDisk = gts
  BY <1>1 DEF sec, SectorOf, TablesOK, Unfinished
<1>3. PICK x \in Nat : x = sec * SectorWords
  BY <1>1, <1>2, PlaceFacts
<1>4. part \subseteq Piece
  BY <1>1 DEF Piece
<1>5. ASSUME NEW w \in part
      PROVE  /\ w \in Words /\ w \in Nat /\ SectorOf(w) # 0 /\ Place(w) = at + w - pos
             /\ Place(w) \in at .. at + n - 1
  <2>1. w \in Words /\ w \in Nat /\ SectorOf(w) = sec /\ InGrain(w) = inGrain + (w - pos)
    BY <1>1, <1>2, <1>4 DEF SectorOf
  <2>2. Place(w) = x + (inGrain + (w - pos))
    BY <1>3, <2>1 DEF Place
  <2> QED
    BY <1>1, <1>3, <2>1, <2>2
<1>6. data' = {d \in data : d[1] \notin at .. at + n - 1}
                \union {<<at + w - pos, w>> : w \in part \intersect source}
  BY DEF Overwritten
<1>7. \A w : SectorOf(w)' = SectorOf(w) /\ OnDiskOf(w)' = OnDiskOf(w) /\ Place(w)' = Place(w)
  BY DEF SectorOf, OnDiskOf, Place, TableOf, EntryOf, GrainOf, InGrain
<1>8. DataOK'
  <2> SUFFICES ASSUME NEW d \in data'
               PROVE  d[2] \in source /\ SectorOf(d[2]) # 0 /\ d = <<Place(d[2]), d[2]>>
    BY <1>7 DEF DataOK
  <2>1. CASE d \in data
    BY <2>1 DEF DataOK
  <2>2. CASE \E w \in part \intersect source : d = <<at + w - pos, w>>
    BY <1>5, <2>2
  <2> QED
    BY <1>6, <2>1, <2>2
<1>9. DoneOK'
  <2> SUFFICES ASSUME NEW k \in Chunks, NEW w \in source, DoneBy(k, w)'
               PROVE  SectorOf(w) # 0 /\ OnDiskOf(w) = SectorOf(w) /\ <<Place(w), w>> \in data'
    BY <1>7 DEF DoneOK
  <2>1. w \in Words
    BY DEF TypeInv
  <2>2. CASE w \in part
    <3>1. <<Place(w), w>> \in data'
      BY <1>5, <1>6, <2>2
    <3> QED
      BY <1>2, <1>5, <2>2, <3>1 DEF OnDiskOf, SectorOf
  <2>3. CASE w \notin part
    <3>1. SectorOf(w) # 0 /\ OnDiskOf(w) = SectorOf(w) /\ <<Place(w), w>> \in data
      BY <2>3 DEF DoneOK
    <3>2. Place(w) \notin at .. at + n - 1
      <4> SUFFICES ASSUME Place(w) \in at .. at + n - 1 PROVE FALSE
        OBVIOUS
      <4>1. PICK v \in part : Place(w) = at + v - pos
        <5>1. Place(w) \in Nat /\ at \in Nat /\ at = x + inGrain
          BY <1>1, <1>3, <2>1, PlaceFacts
        <5>2. Place(w) - at \in Nat /\ Place(w) - at < n
          BY <1>1, <5>1
        <5>3. pos + (Place(w) - at) \in part /\ at + (pos + (Place(w) - at)) - pos = Place(w)
          BY <1>1, <5>1, <5>2
        <5> QED
          BY <5>3
      <4>2. v \in Words /\ SectorOf(v) # 0 /\ Place(v) = Place(w)
        BY <1>5, <4>1
      <4>3. v = w
        BY <2>1, <3>1, <4>2, PlacesApart
      <4> QED
        BY <2>3, <4>3
    <3> QED
      BY <1>6, <3>1, <3>2
  <2> QED
    BY <2>2, <2>3
<1> QED
  BY <1>8, <1>9

LEMMA DataStep ==
  TypeInv /\ SectorsOK /\ TablesOK /\ DataOK /\ DoneOK /\ [Next]_vars => DataOK' /\ DoneOK'
<1> SUFFICES ASSUME TypeInv, SectorsOK, TablesOK, DataOK, DoneOK, [Next]_vars
             PROVE  DataOK' /\ DoneOK'
  OBVIOUS
<1> USE DEF call, disk
<1>0. /\ size' = size /\ size \in Nat \ {0} /\ Chunks' = Chunks
      /\ \A k, w : w \in ChunkData(k)' <=> w \in ChunkData(k)
  <2>1. size' = size
    BY DEF Next, Step, WriteAt, SkipZeros, AllocateGrain, AllocateFails, TooFar, WriteGT,
           WriteData, WriteFails, Returned, Close, FlushGT, Closed, CloseFails, Terminated, vars
  <2> QED
    BY <2>1, SameDisk DEF TypeInv
<1>a. \A w \in Words : TableOf(w) \in Tables /\ EntryOf(w) \in Entries
  BY <1>0, WordFacts
<1>b. UNCHANGED <<gts, onDisk>> =>
        \A w \in Words : SectorOf(w)' = SectorOf(w) /\ OnDiskOf(w)' = OnDiskOf(w)
  BY DEF SectorOf, OnDiskOf, TableOf, EntryOf, GrainOf
<1>c. source \subseteq Words
  BY DEF TypeInv
<1>1. CASE WriteAt
  <2>1. PICK m \in Chunks \ written, new \in SUBSET Words :
          new \subseteq ChunkData(m) /\ source' = source \union new
          /\ chunk' = m /\ pos' = m * ChunkWords
    BY <1>1 DEF WriteAt
  <2>2. pc = "idle" /\ pc' = "piece" /\ UNCHANGED <<gts, onDisk, data, written>>
    BY <1>1 DEF WriteAt
  <2>3. ASSUME NEW k \in Chunks, NEW w \in source', DoneBy(k, w)'
        PROVE  w \in source /\ DoneBy(k, w)
    <3>1. w \in Words /\ w \in Nat /\ w \in ChunkData(k)
      BY <1>0, <1>c, <2>1, <2>3, WordFacts DEF DoneBy
    <3>2. m * ChunkWords \in Nat /\ (w \in ChunkData(m) => ~(w < m * ChunkWords))
      BY <1>0, <2>1, <3>1, ChunkFacts DEF ChunkData
    <3>3. k \in written \/ (k = m /\ w < m * ChunkWords)
      BY <2>1, <2>2, <2>3 DEF DoneBy
    <3>4. k \in written
      BY <3>1, <3>2, <3>3
    <3>5. w \notin new
      BY <1>0, <2>1, <3>1, <3>4, ChunksApart
    <3> QED
      BY <2>1, <3>1, <3>4, <3>5 DEF DoneBy
  <2> QED
    BY <1>0, <1>b, <2>1, <2>2, <2>3, DataQuiet
<1>2. CASE SkipZeros
  <2>1. /\ Unfinished /\ Skippable /\ pos' = pos + want
        /\ UNCHANGED <<pc, gts, onDisk, data, source, written, chunk>> /\ pc = "piece"
    BY <1>2 DEF SkipZeros, Unfinished
  <2>2. ASSUME NEW k \in Chunks, NEW w \in source, DoneBy(k, w)' PROVE DoneBy(k, w)
    <3>1. w \in Nat /\ w \notin Piece /\ pos \in Nat /\ want \in Nat
      BY <1>0, <1>c, <2>1, WordFacts, LoopFacts DEF Skippable
    <3>2. w < pos + want => w < pos
      BY <3>1 DEF Piece
    <3> QED
      BY <1>0, <2>1, <2>2, <3>2 DEF DoneBy
  <2> QED
    BY <1>0, <1>b, <2>1, <2>2, DataQuiet
<1>3. CASE AllocateGrain \/ AllocateFails
  <2>1. /\ gts[gtIdx][gtEnt] = 0
        /\ \A t \in Tables, e \in Entries : t # gtIdx \/ e # gtEnt => gts'[t][e] = gts[t][e]
    BY <1>3, AllocateFacts DEF AllocateGrain, AllocateFails
  <2>2. /\ pc = "piece" /\ UNCHANGED <<onDisk, data, source, written, chunk, pos>>
    BY <1>3 DEF AllocateGrain, AllocateFails, NeedsGrain, Unfinished
  <2>3. \A w \in Words : /\ SectorOf(w) # 0 => SectorOf(w)' = SectorOf(w)
                         /\ OnDiskOf(w)' = OnDiskOf(w)
    BY <1>a, <2>1, <2>2 DEF SectorOf, OnDiskOf, TableOf, EntryOf, GrainOf
  <2>4. \A k \in Chunks : \A w \in source : DoneBy(k, w)' => DoneBy(k, w)
    BY <1>0, <2>2 DEF DoneBy
  <2> QED
    BY <1>0, <2>2, <2>3, <2>4, DataQuiet
<1>4. CASE WriteGT \/ FlushGT
  <2>1. PICK i \in Tables : onDisk' = [onDisk EXCEPT ![i] = gts[i]]
    BY <1>4, LoopFacts DEF WriteGT, FlushGT
  <2>2. \A t \in Tables : onDisk'[t] \in {onDisk[t], gts[t]}
    BY <2>1 DEF TypeInv
  <2>3. UNCHANGED <<gts, data, source, written, chunk, pos>>
        /\ (pc' \in {"piece", "table"} => pc \in {"piece", "table"})
    BY <1>4 DEF WriteGT, FlushGT
  <2>4. \A w \in Words : /\ SectorOf(w)' = SectorOf(w)
                         /\ OnDiskOf(w)' \in {OnDiskOf(w), SectorOf(w)}
    BY <1>a, <2>2, <2>3 DEF SectorOf, OnDiskOf, TableOf, EntryOf, GrainOf
  <2>5. \A k \in Chunks : \A w \in source : DoneBy(k, w)' => DoneBy(k, w)
    BY <1>0, <2>3 DEF DoneBy
  <2> QED
    BY <1>0, <2>3, <2>4, <2>5, DataQuiet
<1>5. CASE WriteData
  <2>1. /\ Unfinished /\ sec # 0 /\ pos' = pos + want /\ data' = Overwritten(want)
        /\ UNCHANGED <<pc, gts, onDisk, source, written, chunk>> /\ pc = "piece"
    BY <1>5 DEF WriteData, Unfinished
  <2>2. pos \in Nat /\ want \in Nat /\ want \in 0 .. want
    BY <2>1, LoopFacts
  <2>3. ASSUME NEW k \in Chunks, NEW w \in source, DoneBy(k, w)'
        PROVE  DoneBy(k, w) \/ w \in pos .. pos + want - 1
    <3>1. w \in Nat
      BY <1>0, <1>c, WordFacts
    <3>2. w < pos + want => w < pos \/ w \in pos .. pos + want - 1
      BY <2>2, <3>1
    <3> QED
      BY <1>0, <2>1, <2>3, <3>2 DEF DoneBy
  <2> QED
    BY <1>0, <2>1, <2>2, <2>3, DataOverwritten
<1>6. CASE WriteFails
  <2>1. /\ UNCHANGED <<gts, onDisk, source, written, chunk, pos>> /\ pc' = "stopped"
    BY <1>6 DEF WriteFails
  <2>2. \A k \in Chunks : \A w \in source : DoneBy(k, w)' => DoneBy(k, w)
    BY <1>0, <2>1 DEF DoneBy
  <2>3. CASE data' = data
    BY <1>0, <1>b, <2>1, <2>2, <2>3, DataQuiet
  <2>4. CASE Unfinished /\ sec # 0 /\ \E n \in 0 .. want : data' = Overwritten(n)
    BY <1>0, <2>1, <2>2, <2>4, DataOverwritten
  <2> QED
    BY <1>6, <2>3, <2>4 DEF WriteFails
<1>7. CASE Returned
  <2>1. /\ UNCHANGED <<gts, onDisk, data, source, chunk>> /\ pc = "piece" /\ pc' = "idle"
        /\ written' = written \union {chunk} /\ pos >= ChunkEnd(chunk)
        /\ chunk \in Chunks /\ pos \in Nat
    BY <1>7 DEF Returned, TypeInv
  <2>2. ASSUME NEW k \in Chunks, NEW w \in source, DoneBy(k, w)' PROVE DoneBy(k, w)
    <3>1. w \in ChunkData(chunk) => w < pos
      BY <1>0, <1>c, <2>1, ChunkFacts, WordFacts DEF ChunkData
    <3> QED
      BY <1>0, <2>1, <2>2, <3>1 DEF DoneBy
  <2> QED
    BY <1>0, <1>b, <2>1, <2>2, DataQuiet
<1>8. CASE TooFar \/ Close \/ Closed \/ CloseFails \/ Terminated \/ UNCHANGED vars
  <2>1. /\ UNCHANGED <<gts, onDisk, data, source, written, chunk, pos>>
        /\ pc' = pc \/ pc' \in EndPCs
    BY <1>8 DEF TooFar, Close, Closed, CloseFails, Terminated, vars, EndPCs
  <2>2. \A k \in Chunks : \A w \in source : DoneBy(k, w)' => DoneBy(k, w)
    BY <1>0, <2>1 DEF DoneBy, EndPCs
  <2> QED
    BY <1>0, <1>b, <2>1, <2>2, DataQuiet
<1> QED
  BY <1>1, <1>2, <1>3, <1>4, <1>5, <1>6, <1>7, <1>8 DEF Next, Step

-----------------------------------------------------------------------------
(* What the reader makes of the file.                                      *)

VmdkInv == TypeInv /\ SectorsOK /\ TablesOK /\ DataOK /\ DoneOK

LEMMA VmdkInvariant == Spec => []VmdkInv
<1>1. Init => VmdkInv
  BY TypeInit, DataInit DEF VmdkInv
<1>2. VmdkInv /\ [Next]_vars => VmdkInv'
  BY TypeStep, SectorsStep, TablesStep, DataStep DEF VmdkInv
<1> QED
  BY <1>1, <1>2, PTL DEF Spec

\* A reader finds the data of the word, or zeros when there is none or when the
\* file does not name the grain yet.
LEMMA ReaderFinds ==
  ASSUME VmdkInv, NEW w \in Words
  PROVE  /\ ReadAt(w) \in {Zero, Wanted(w)}
         /\ w \notin source => ReadAt(w) = Zero
         /\ w \in source /\ OnDiskOf(w) = SectorOf(w) /\ SectorOf(w) # 0
              /\ <<Place(w), w>> \in data => ReadAt(w) = Wanted(w)
<1> USE DEF VmdkInv
<1>1. /\ TableOf(w) \in Tables /\ EntryOf(w) \in Entries
  BY WordFacts DEF TypeInv
<1>2. OnDiskOf(w) = onDisk[(w \div grainWords) \div NumGTEsPerGT][(w \div grainWords) % NumGTEsPerGT]
  BY DEF OnDiskOf, TableOf, EntryOf, GrainOf
<1>3. OnDiskOf(w) \in {0, SectorOf(w)} /\ SectorOf(w) \in Nat /\ OverHead \in Nat
      /\ (SectorOf(w) # 0 => OverHead <= SectorOf(w))
  BY <1>1, PlaceFacts, Geometry DEF TablesOK, SectorsOK, OnDiskOf, SectorOf
<1>4. CASE OnDiskOf(w) = 0
  BY <1>2, <1>3, <1>4 DEF ReadAt
<1>5. CASE OnDiskOf(w) # 0
  <2> DEFINE found == {d \in data : d[1] = Place(w)}
  <2>1. OnDiskOf(w) = SectorOf(w) /\ SectorOf(w) # 0 /\ OverHead <= SectorOf(w)
        /\ ~(SectorOf(w) \in 1 .. OverHead - 1)
    BY <1>3, <1>5
  <2>2. \A d \in found : w \in source /\ d = <<Place(w), w>>
    <3> SUFFICES ASSUME NEW d \in found PROVE w \in source /\ d = <<Place(w), w>>
      OBVIOUS
    <3>1. d[2] \in source /\ d[2] \in Words /\ SectorOf(d[2]) # 0 /\ d = <<Place(d[2]), d[2]>>
      BY DEF DataOK, TypeInv
    <3>2. Place(d[2]) = Place(w)
      BY <3>1
    <3>3. d[2] = w
      BY <2>1, <3>1, <3>2, PlacesApart
    <3> QED
      BY <3>1, <3>3
  <2>3. ReadAt(w) = IF found = {} THEN Zero ELSE <<"data", (CHOOSE d \in found : TRUE)[2]>>
    BY <1>2, <1>3, <1>5, <2>1 DEF ReadAt, Place, InGrain
  <2>4. CASE found = {}
    BY <2>3, <2>4
  <2>5. CASE found # {}
    <3>1. (CHOOSE d \in found : TRUE) \in found
      BY <2>5
    <3> HIDE DEF found
    <3>2. ReadAt(w) = <<"data", w>> /\ w \in source
      BY <2>2, <2>3, <2>5, <3>1
    <3> QED
      BY <3>2 DEF Wanted
  <2> QED
    BY <2>4, <2>5
<1> QED
  BY <1>4, <1>5

\* Killed at any step, and after whatever call failed, the file reads everywhere
\* as zeros or as what was to be written there: for every size of the disk, and
\* whichever order the chunks come in.
THEOREM KilledVmdkIsSound == Spec => []KilledIsSound
<1>1. VmdkInv => KilledIsSound
  BY ReaderFinds DEF KilledIsSound
<1> QED
  BY <1>1, VmdkInvariant, PTL

\* What WriteAt has returned nil for is readable at once, and stays so whatever
\* fails later.
THEOREM WrittenVmdkReadsBack == Spec => []WrittenReadsBack
<1>1. VmdkInv => WrittenReadsBack
  <2> SUFFICES ASSUME VmdkInv, NEW k \in written, NEW w \in ChunkData(k)
               PROVE  ReadAt(w) = Wanted(w)
    BY DEF WrittenReadsBack
  <2>1. k \in Chunks /\ w \in Words
    BY ChunkFacts DEF VmdkInv, TypeInv
  <2>2. CASE w \in source
    BY <2>1, <2>2, ReaderFinds DEF VmdkInv, DoneOK, DoneBy
  <2>3. CASE w \notin source
    BY <2>1, <2>3, ReaderFinds DEF Wanted
  <2> QED
    BY <2>2, <2>3
<1> QED
  BY <1>1, VmdkInvariant, PTL
=============================================================================
