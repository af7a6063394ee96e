---------------------------- MODULE VdiWriterProofs ----------------------------
(***************************************************************************)
(* Proofs, for every size of the disk, of a block and of a chunk, that the *)
(* VDI the writer leaves is sound whenever the program is killed, and that *)
(* it holds everything that was written once Close has returned nil.       *)
(***************************************************************************)
EXTENDS VdiWriter, FiniteSetTheorems, FunctionTheorems, TLAPS

\* What Create does not check: the data offset fits the 32 bits of its field of
\* the header (with blocks of 1 MiB it does up to disks of 1 PiB).
DataOffsetFits ==
  ceilDiv(HeaderWords + blocksInHDD, AlignWords) * AlignWords < OffsetLimit

-----------------------------------------------------------------------------
(* Division.                                                               *)

\* A quotient and its remainder.
LEMMA DivMod ==
  ASSUME NEW x \in Nat, NEW c \in Nat \ {0}
  PROVE  x \div c \in Nat /\ x % c \in 0 .. c - 1 /\ x = (x \div c) * c + (x % c)
<1>1. x \div c \in Nat /\ x % c \in 0 .. c - 1 /\ x = c * (x \div c) + (x % c)
  BY Z3
<1>2. \A q \in Nat : c * q = q * c
  BY Z3
<1> QED
  BY <1>1, <1>2

\* Multiples are ordered like their factors, and are apart.
LEMMA Multiples ==
  ASSUME NEW a \in Nat, NEW b \in Nat, NEW c \in Nat \ {0}
  PROVE  /\ a * c \in Nat /\ b * c \in Nat
         /\ a <= b => a * c <= b * c
         /\ a < b => a * c + c <= b * c
<1>1. a * c \in Nat /\ b * c \in Nat
  BY Z3
<1>2. ASSUME a <= b PROVE a * c <= b * c
  <2>1. PICK d \in Nat : d = b - a
    BY <1>2
  <2>2. b = a + d /\ d * c \in Nat
    BY <1>2, <2>1, Z3
  <2>3. b * c = a * c + d * c
    BY <2>2, Z3
  <2> QED
    BY <1>1, <2>2, <2>3
<1>3. ASSUME a < b PROVE a * c + c <= b * c
  <2>1. PICK d \in Nat : d = b - a - 1
    BY <1>3
  <2>2. b = a + d + 1 /\ d * c \in Nat
    BY <1>3, <2>1, Z3
  <2>3. b * c = a * c + d * c + c
    BY <2>2, Z3
  <2> QED
    BY <1>1, <2>2, <2>3
<1> QED
  BY <1>1, <1>2, <1>3

\* A number between two multiples has the smaller one's factor as quotient.
LEMMA QuotientIs ==
  ASSUME NEW x \in Nat, NEW q \in Nat, NEW c \in Nat \ {0},
         q * c <= x, x < q * c + c
  PROVE  x \div c = q /\ x % c = x - q * c
<1> DEFINE d == x \div c
<1>1. d \in Nat /\ x % c \in 0 .. c - 1 /\ x = d * c + (x % c)
  BY DivMod
<1>2. d * c \in Nat /\ q * c \in Nat
  BY <1>1, Multiples
<1> HIDE DEF d
<1>3. ~(d < q)
  BY <1>1, <1>2, Multiples
<1>4. ~(q < d)
  BY <1>1, <1>2, Multiples
<1>5. d = q
  BY <1>1, <1>3, <1>4
<1> QED
  BY <1>1, <1>2, <1>5 DEF d

\* A number below a multiple has a quotient below the factor.
LEMMA QuotientBelow ==
  ASSUME NEW x \in Nat, NEW m \in Nat, NEW c \in Nat \ {0}, x < m * c
  PROVE  x \div c < m
<1> DEFINE d == x \div c
<1>1. d \in Nat /\ x % c \in 0 .. c - 1 /\ x = d * c + (x % c)
  BY DivMod
<1>2. d * c \in Nat /\ m * c \in Nat /\ (m <= d => m * c <= d * c)
  BY <1>1, Multiples
<1> QED
  BY <1>1, <1>2

\* Rounding a division up loses nothing, and adds less than one.
LEMMA CeilDivCovers ==
  ASSUME NEW x \in Nat, NEW y \in Nat \ {0}
  PROVE  /\ ceilDiv(x, y) \in Nat /\ x <= ceilDiv(x, y) * y
         /\ \A k \in Nat : k < ceilDiv(x, y) => k * y < x
<1> DEFINE q == (x + y - 1) \div y
           m == (x + y - 1) % y
<1>1. x + y - 1 \in Nat
  OBVIOUS
<1>2. q \in Nat /\ m \in 0 .. y - 1 /\ x + y - 1 = q * y + m
  BY <1>1, DivMod
<1> HIDE DEF q, m
<1>3. q * y \in Nat
  BY <1>2, Multiples
<1>4. \A k \in Nat : k < q => k * y < x
  <2> SUFFICES ASSUME NEW k \in Nat, k < q PROVE k * y < x
    OBVIOUS
  <2>1. k * y \in Nat /\ k * y + y <= q * y
    BY <1>2, Multiples
  <2> QED
    BY <1>2, <1>3, <2>1
<1>5. x <= q * y
  BY <1>2, <1>3
<1> QED
  BY <1>2, <1>4, <1>5 DEF ceilDiv, q

-----------------------------------------------------------------------------
(* Where things are.                                                       *)

LEMMA Geometry ==
  /\ BlockWords \in Nat \ {0} /\ HeaderWords \in Nat \ {0} /\ AlignWords \in Nat \ {0}
  /\ OffsetLimit \in Nat \ {0} /\ Size \in Nat \ {0} /\ ChunkWords \in Nat \ {0}
  /\ blocksInHDD \in Nat /\ Size <= blocksInHDD * BlockWords
BY GeometryAssumption, CeilDivCovers DEF blocksInHDD

\* The data area is behind the table.
LEMMA DataArea ==
  ASSUME DataOffsetFits
  PROVE  DataOffset \in Nat /\ HeaderWords + blocksInHDD <= DataOffset
<1>1. HeaderWords + blocksInHDD \in Nat /\ AlignWords \in Nat \ {0} /\ OffsetLimit \in Nat \ {0}
  BY Geometry
<1>2. PICK a \in Nat : a = ceilDiv(HeaderWords + blocksInHDD, AlignWords) * AlignWords
  BY <1>1, CeilDivCovers, Multiples
<1>3. HeaderWords + blocksInHDD <= a /\ a < OffsetLimit
  BY <1>1, <1>2, CeilDivCovers DEF DataOffsetFits
<1>4. 0 * OffsetLimit = 0
  BY <1>1
<1>5. a % OffsetLimit = a
  BY <1>1, <1>3, <1>4, QuotientIs
<1> QED
  BY <1>2, <1>3, <1>5 DEF DataOffset

\* The blocks of the data area follow one another.
LEMMA BlocksApart ==
  ASSUME DataOffsetFits, NEW e \in Nat, NEW f \in Nat
  PROVE  /\ BlockDataOffset(e) \in Nat /\ HeaderWords + blocksInHDD <= BlockDataOffset(e)
         /\ e < f => BlockDataOffset(e) + BlockWords <= BlockDataOffset(f)
<1>1. BlockWords \in Nat \ {0} /\ DataOffset \in Nat /\ HeaderWords + blocksInHDD <= DataOffset
      /\ HeaderWords + blocksInHDD \in Nat
  BY Geometry, DataArea
<1>2. e * BlockWords \in Nat /\ f * BlockWords \in Nat
      /\ (e < f => e * BlockWords + BlockWords <= f * BlockWords)
  BY <1>1, Multiples
<1> QED
  BY <1>1, <1>2 DEF BlockDataOffset

\* The chunks are on the disk and share no word.
LEMMA ChunkFacts ==
  ASSUME NEW k \in Chunks
  PROVE  /\ k \in Nat /\ k * ChunkWords \in Nat /\ k * ChunkWords < ChunkEnd(k)
         /\ ChunkEnd(k) \in Nat /\ ChunkEnd(k) <= Size
         /\ ChunkEnd(k) <= k * ChunkWords + ChunkWords
         /\ ChunkData(k) \subseteq Words
<1>1. ChunkWords \in Nat \ {0} /\ Size \in Nat \ {0}
  BY Geometry
<1>2. ceilDiv(Size, ChunkWords) \in Nat
  BY <1>1, CeilDivCovers
<1>3. k \in Nat /\ k < ceilDiv(Size, ChunkWords)
  BY <1>2 DEF Chunks
<1>4. k * ChunkWords \in Nat /\ k * ChunkWords < Size
  BY <1>1, <1>3, CeilDivCovers, Multiples
<1>5. (k + 1) * ChunkWords = k * ChunkWords + ChunkWords
  BY <1>1, <1>3, Z3
<1> QED
  BY <1>1, <1>3, <1>4, <1>5 DEF ChunkEnd, Least, ChunkData, Words

LEMMA ChunksApart ==
  ASSUME NEW k \in Chunks, NEW m \in Chunks, NEW w, w \in ChunkData(k), w \in ChunkData(m)
  PROVE  k = m
<1>1. /\ k \in Nat /\ k * ChunkWords \in Nat /\ m \in Nat /\ m * ChunkWords \in Nat
      /\ ChunkEnd(k) \in Nat /\ ChunkEnd(k) <= k * ChunkWords + ChunkWords
      /\ ChunkEnd(m) \in Nat /\ ChunkEnd(m) <= m * ChunkWords + ChunkWords
      /\ ChunkWords \in Nat \ {0}
  BY ChunkFacts, Geometry
<1>2. w \in Nat /\ k * ChunkWords <= w /\ w < k * ChunkWords + ChunkWords
      /\ m * ChunkWords <= w /\ w < m * ChunkWords + ChunkWords
  BY <1>1 DEF ChunkData
<1>3. w \div ChunkWords = k /\ w \div ChunkWords = m
  BY <1>1, <1>2, QuotientIs
<1> QED
  BY <1>3

\* The block of a word, and its place there.
BlockOf(w) == w \div BlockWords
PlaceOf(w) == w % BlockWords

LEMMA WordFacts ==
  ASSUME NEW w \in Words
  PROVE  /\ w \in Nat /\ BlockOf(w) \in Blocks /\ PlaceOf(w) \in 0 .. BlockWords - 1
         /\ BlockOf(w) * BlockWords \in Nat
         /\ w = BlockOf(w) * BlockWords + PlaceOf(w)
<1>1. BlockWords \in Nat \ {0} /\ Size \in Nat /\ blocksInHDD \in Nat
      /\ Size <= blocksInHDD * BlockWords
  BY Geometry
<1>2. w \in Nat /\ w < Size
  BY <1>1 DEF Words
<1>3. /\ BlockOf(w) \in Nat /\ PlaceOf(w) \in 0 .. BlockWords - 1
      /\ w = BlockOf(w) * BlockWords + PlaceOf(w)
  BY <1>1, <1>2, DivMod DEF BlockOf, PlaceOf
<1>4. BlockOf(w) * BlockWords \in Nat /\ blocksInHDD * BlockWords \in Nat
  BY <1>1, <1>3, Multiples
<1>5. BlockOf(w) < blocksInHDD
  BY <1>1, <1>2, <1>4, QuotientBelow DEF BlockOf
<1> QED
  BY <1>1, <1>2, <1>3, <1>4, <1>5 DEF Blocks

\* What the pieces of a chunk are.
LEMMA PieceFacts ==
  ASSUME chunk \in Chunks, pos \in Nat, chunk * ChunkWords <= pos, pos < ChunkEnd(chunk)
  PROVE  /\ want \in Nat \ {0} /\ pos + want <= ChunkEnd(chunk)
         /\ pos \in Words /\ pos \in ChunkData(chunk)
         /\ Piece \subseteq ChunkData(chunk) /\ Piece \subseteq Words
         /\ blockNo = BlockOf(pos) /\ blockNo \in Blocks /\ inBlock = PlaceOf(pos)
         /\ inBlock \in Nat /\ inBlock + want <= BlockWords
         /\ \A w \in Piece : BlockOf(w) = blockNo /\ PlaceOf(w) = inBlock + (w - pos)
         /\ \A w \in Words : BlockOf(w) = blockNo =>
              PlaceOf(w) = inBlock + (w - pos) /\ (inBlock = 0 /\ want = BlockWords => w \in Piece)
<1>1. BlockWords \in Nat \ {0} /\ Size \in Nat
  BY Geometry
<1>2. /\ chunk * ChunkWords \in Nat /\ ChunkEnd(chunk) \in Nat /\ ChunkEnd(chunk) <= Size
      /\ ChunkData(chunk) \subseteq Words
  BY ChunkFacts
<1>3. pos \in Words /\ pos \in ChunkData(chunk)
  BY <1>1, <1>2 DEF Words, ChunkData
<1>4. /\ blockNo = BlockOf(pos) /\ inBlock = PlaceOf(pos)
  BY DEF blockNo, inBlock, BlockOf, PlaceOf
<1>5. PICK b \in Nat : b = BlockOf(pos) * BlockWords
  BY <1>3, WordFacts
<1>6. blockNo \in Blocks /\ blockNo \in Nat /\ inBlock \in 0 .. BlockWords - 1 /\ pos = b + inBlock
  BY <1>1, <1>3, <1>4, <1>5, WordFacts, Geometry DEF Blocks
<1>7. /\ want \in Nat \ {0} /\ pos + want <= ChunkEnd(chunk) /\ inBlock + want <= BlockWords
  BY <1>1, <1>2, <1>6 DEF want, Least
<1>8. Piece \subseteq ChunkData(chunk)
  BY <1>2, <1>7 DEF Piece, ChunkData
<1>9. ASSUME NEW w \in Piece PROVE BlockOf(w) = blockNo /\ PlaceOf(w) = inBlock + (w - pos)
  <2>1. w \in Nat /\ b <= w /\ w < b + BlockWords
    BY <1>1, <1>5, <1>6, <1>7 DEF Piece
  <2>2. w \div BlockWords = blockNo /\ w % BlockWords = w - b
    BY <1>1, <1>4, <1>5, <1>6, <2>1, QuotientIs
  <2> QED
    BY <1>6, <2>1, <2>2 DEF BlockOf, PlaceOf
<1>10. ASSUME NEW w \in Words, BlockOf(w) = blockNo
       PROVE  PlaceOf(w) = inBlock + (w - pos) /\ (inBlock = 0 /\ want = BlockWords => w \in Piece)
  <2>1. w \in Nat /\ w = b + PlaceOf(w) /\ PlaceOf(w) \in 0 .. BlockWords - 1
    BY <1>4, <1>5, <1>10, WordFacts
  <2>2. PICK r \in Nat : r = PlaceOf(w) /\ r < BlockWords
    BY <1>1, <2>1
  <2>3. w = b + r /\ pos = b + inBlock /\ inBlock \in Nat
    BY <1>1, <1>6, <2>1, <2>2
  <2>4. r = inBlock + (w - pos)
    BY <2>1, <2>2, <2>3
  <2>5. inBlock = 0 /\ want = BlockWords => w \in Piece
    BY <1>1, <2>1, <2>2, <2>3 DEF Piece
  <2> QED
    BY <2>2, <2>4, <2>5
<1>11. inBlock \in Nat /\ Piece \subseteq Words
  BY <1>1, <1>2, <1>6, <1>8
<1> QED
  BY <1>3, <1>4, <1>6, <1>7, <1>8, <1>9, <1>10, <1>11

-----------------------------------------------------------------------------
(* Types, and where the call of WriteAt is.                                *)

EndPCs == {"stopped", "header", "closed"}

TypeInv ==
  /\ pc \in {"idle", "piece"} \union EndPCs
  /\ entries \in [Blocks -> 0 .. blocksInHDD] /\ nextBlock \in Nat
  /\ source \subseteq Words /\ written \subseteq Chunks /\ pos \in Nat
  /\ pc = "piece" => /\ chunk \in Chunks /\ chunk \notin written
                     /\ chunk * ChunkWords <= pos /\ pos <= ChunkEnd(chunk)
  /\ cut \subseteq Blocks /\ (cut # {} => pc \in EndPCs)
  /\ result # "none" => pc = "closed"

\* The blocks that have a place, which are the first ones of the data area.
Allocated == {b \in Blocks : entries[b] # BlockFree}

PlacesOK ==
  /\ nextBlock = Cardinality(Allocated)
  /\ \A b \in Allocated : entries[b] < nextBlock
  /\ \A b, c \in Allocated : entries[b] = entries[c] => b = c

\* What the statements of the loop may rely on.
LEMMA LoopFacts ==
  ASSUME TypeInv, Unfinished
  PROVE  /\ chunk \in Chunks /\ chunk \notin written /\ pos \in Nat /\ pc = "piece"
         /\ want \in Nat \ {0} /\ pos + want <= ChunkEnd(chunk)
         /\ chunk * ChunkWords <= pos /\ cut = {}
         /\ pos \in Words /\ pos \in ChunkData(chunk)
         /\ Piece \subseteq ChunkData(chunk) /\ Piece \subseteq Words
         /\ blockNo = BlockOf(pos) /\ blockNo \in Blocks /\ inBlock = PlaceOf(pos)
         /\ inBlock \in Nat /\ inBlock + want <= BlockWords
         /\ \A w \in Piece : BlockOf(w) = blockNo /\ PlaceOf(w) = inBlock + (w - pos)
         /\ \A w \in Words : BlockOf(w) = blockNo =>
              PlaceOf(w) = inBlock + (w - pos) /\ (inBlock = 0 /\ want = BlockWords => w \in Piece)
<1>1. /\ chunk \in Chunks /\ chunk \notin written /\ pos \in Nat /\ pc = "piece" /\ cut = {}
      /\ chunk * ChunkWords <= pos /\ pos < ChunkEnd(chunk)
  BY DEF TypeInv, Unfinished, EndPCs
<1> QED
  BY <1>1, PieceFacts

\* There is a place left for a block that has none.
LEMMA RoomLeft ==
  ASSUME TypeInv, PlacesOK, NEW b \in Blocks, entries[b] = BlockFree
  PROVE  nextBlock < blocksInHDD
<1>1. blocksInHDD \in Nat
  BY Geometry
<1>2. IsFiniteSet(Blocks) /\ Cardinality(Blocks) = blocksInHDD
  BY <1>1, FS_Interval DEF Blocks
<1>3. Allocated \in SUBSET Blocks /\ Allocated # Blocks
  BY DEF Allocated
<1>4. Cardinality(Allocated) <= Cardinality(Blocks) /\ Cardinality(Allocated) # Cardinality(Blocks)
  BY <1>2, <1>3, FS_Subset
<1> QED
  BY <1>1, <1>2, <1>4 DEF PlacesOK, TypeInv

\* A block gets the next place.
LEMMA AllocateFacts ==
  ASSUME TypeInv, PlacesOK, NeedsBlock, Allocate
  PROVE  /\ blockNo \in Blocks /\ entries[blockNo] = BlockFree /\ nextBlock \in Nat
         /\ nextBlock < blocksInHDD /\ nextBlock' = nextBlock + 1
         /\ entries' \in [Blocks -> 0 .. blocksInHDD] /\ entries'[blockNo] = nextBlock
         /\ \A b \in Blocks : b # blockNo => entries'[b] = entries[b]
         /\ Allocated' = Allocated \union {blockNo} /\ blockNo \notin Allocated
         /\ PlacesOK'
<1>1. blockNo \in Blocks /\ entries[blockNo] = BlockFree /\ nextBlock \in Nat
  BY LoopFacts DEF NeedsBlock, TypeInv
<1>2. nextBlock < blocksInHDD /\ blocksInHDD \in Nat
  BY <1>1, RoomLeft, Geometry
<1>3. /\ entries' = [entries EXCEPT ![blockNo] = nextBlock] /\ nextBlock' = nextBlock + 1
      /\ entries' \in [Blocks -> 0 .. blocksInHDD] /\ entries'[blockNo] = nextBlock
      /\ \A b \in Blocks : b # blockNo => entries'[b] = entries[b]
  BY <1>1, <1>2 DEF Allocate, TypeInv
<1>4. Allocated' = Allocated \union {blockNo} /\ blockNo \notin Allocated
  BY <1>1, <1>2, <1>3 DEF Allocated, BlockFree
<1>5. nextBlock' = Cardinality(Allocated')
  <2>1. IsFiniteSet(Blocks) /\ Allocated \in SUBSET Blocks
    BY <1>2, FS_Interval DEF Blocks, Allocated
  <2>2. IsFiniteSet(Allocated)
    BY <2>1, FS_Subset
  <2>3. Cardinality(Allocated \union {blockNo}) = Cardinality(Allocated) + 1
    BY <1>4, <2>2, FS_AddElement
  <2> QED
    BY <1>3, <1>4, <2>3 DEF PlacesOK
<1>6. \A b \in Allocated' : entries'[b] < nextBlock'
  <2>1. \A b \in Allocated : b # blockNo /\ entries'[b] = entries[b] /\ entries[b] \in Nat
                             /\ entries[b] < nextBlock
    BY <1>2, <1>3, <1>4 DEF Allocated, PlacesOK, TypeInv
  <2> QED
    BY <1>1, <1>3, <1>4, <2>1
<1>7. \A b, c \in Allocated' : entries'[b] = entries'[c] => b = c
  <2>1. \A b \in Allocated : b # blockNo /\ entries'[b] = entries[b] /\ entries[b] # nextBlock
    BY <1>1, <1>2, <1>3, <1>4 DEF Allocated, PlacesOK, TypeInv
  <2> QED
    BY <1>3, <1>4, <2>1 DEF PlacesOK
<1> QED
  BY <1>1, <1>2, <1>3, <1>4, <1>5, <1>6, <1>7 DEF PlacesOK

LEMMA TypeInit == Init => TypeInv /\ PlacesOK
<1> SUFFICES ASSUME Init PROVE TypeInv /\ PlacesOK
  OBVIOUS
<1>1. TypeInv
  BY Geometry DEF Init, TypeInv, BlockFree
<1>2. Allocated = {}
  BY DEF Init, Allocated
<1>3. Cardinality(Allocated) = 0
  BY <1>2, FS_EmptySet
<1> QED
  BY <1>1, <1>2, <1>3 DEF Init, PlacesOK

LEMMA PlacesStep == TypeInv /\ PlacesOK /\ [Next]_vars => PlacesOK'
<1> SUFFICES ASSUME TypeInv, PlacesOK, [Next]_vars PROVE PlacesOK'
  OBVIOUS
<1>1. CASE AllocateBlock \/ AllocateFails
  BY <1>1, AllocateFacts DEF AllocateBlock, AllocateFails
<1>2. CASE UNCHANGED <<entries, nextBlock>>
  BY <1>2 DEF PlacesOK, Allocated
<1> QED
  BY <1>1, <1>2 DEF Next, Step, WriteAt, SkipZeros, WriteData, WriteFails, Returned,
                    WriteHeader, WriteEntries, CloseFails, Terminated, vars

LEMMA TypeStep == TypeInv /\ PlacesOK /\ [Next]_vars => TypeInv'
<1> SUFFICES ASSUME TypeInv, PlacesOK, [Next]_vars PROVE TypeInv'
  OBVIOUS
<1> USE DEF call
<1>1. CASE WriteAt
  <2>1. PICK k \in Chunks \ written, data \in SUBSET Words :
          source' = source \union data /\ chunk' = k /\ pos' = k * ChunkWords
    BY <1>1 DEF WriteAt
  <2>2. k * ChunkWords \in Nat /\ k * ChunkWords <= ChunkEnd(k)
    BY ChunkFacts
  <2>3. pc' = "piece" /\ pc = "idle" /\ UNCHANGED <<entries, nextBlock, written, cut, result>>
    BY <1>1 DEF WriteAt
  <2> QED
    BY <2>1, <2>2, <2>3 DEF TypeInv, EndPCs
<1>2. CASE SkipZeros \/ WriteData
  <2>1. Unfinished /\ pos' = pos + want
        /\ UNCHANGED <<pc, entries, nextBlock, source, written, chunk, cut, result>>
    BY <1>2 DEF SkipZeros, WriteData, HasBlock
  <2>2. want \in Nat /\ pos + want <= ChunkEnd(chunk) /\ pos \in Nat /\ chunk \in Chunks
        /\ chunk * ChunkWords <= pos /\ chunk * ChunkWords \in Nat
    BY <2>1, LoopFacts, ChunkFacts
  <2>3. pos' \in Nat /\ chunk * ChunkWords <= pos' /\ pos' <= ChunkEnd(chunk)
    BY <2>1, <2>2
  <2> QED
    BY <2>1, <2>3 DEF TypeInv
<1>3. CASE AllocateBlock
  BY <1>3, AllocateFacts DEF AllocateBlock, TypeInv
<1>4. CASE AllocateFails
  <2>1. /\ UNCHANGED <<source, written, chunk, pos, result>> /\ pc' = "stopped" /\ pc = "piece"
        /\ cut' = cut \union {blockNo}
    BY <1>4 DEF AllocateFails, NeedsBlock, Unfinished
  <2>2. entries' \in [Blocks -> 0 .. blocksInHDD] /\ nextBlock' \in Nat /\ blockNo \in Blocks
    BY <1>4, AllocateFacts DEF AllocateFails
  <2> QED
    BY <2>1, <2>2 DEF TypeInv, EndPCs
<1>5. CASE \/ WriteFails \/ Returned \/ WriteEntries \/ WriteHeader \/ CloseFails
           \/ Terminated \/ UNCHANGED vars
  <2>1. UNCHANGED <<entries, nextBlock, source, chunk, pos, cut>>
    BY <1>5 DEF WriteFails, Returned, WriteEntries, WriteHeader, CloseFails, Terminated, vars
  <2>2. /\ pc' = "piece" => pc = "piece" /\ written' = written
        /\ written' \subseteq Chunks
        /\ pc' \in {"idle", "piece"} \union EndPCs
        /\ pc \in EndPCs => pc' \in EndPCs
        /\ result' # "none" => pc' = "closed"
    <3>1. CASE WriteFails
      BY <3>1 DEF WriteFails, HasBlock, Unfinished, TypeInv, EndPCs
    <3>2. CASE Returned
      BY <3>2 DEF Returned, TypeInv, EndPCs
    <3>3. CASE WriteEntries \/ WriteHeader \/ CloseFails
      BY <3>3 DEF WriteEntries, WriteHeader, CloseFails, TypeInv, EndPCs
    <3>4. CASE Terminated \/ UNCHANGED vars
      BY <3>4 DEF Terminated, vars, TypeInv
    <3> QED
      BY <1>5, <3>1, <3>2, <3>3, <3>4
  <2> QED
    BY <2>1, <2>2 DEF TypeInv
<1> QED
  BY <1>1, <1>2, <1>3, <1>4, <1>5 DEF Next, Step

-----------------------------------------------------------------------------
(* The table and the blocks of the file.                                   *)

\* The words of the file that a block has.
Place(b, r) == BlockDataOffset(entries[b]) + r
Places      == 0 .. BlockWords - 1

InTable(b) == file[HeaderWords + b]

FileOK ==
  /\ DOMAIN file \subseteq Nat /\ Table \subseteq DOMAIN file
  /\ pc \in {"idle", "piece"} => \A i \in DOMAIN file : i < BlockDataOffset(nextBlock)
  /\ \A b \in Allocated \ cut : \A r \in Places : Place(b, r) \in DOMAIN file
  /\ \A b \in Blocks : InTable(b) \in {<<"entry", BlockFree>>, <<"entry", entries[b]>>}
  /\ pc = "header" \/ result = "ok" =>
       \A b \in Blocks : InTable(b) = <<"entry", entries[b]>>
  /\ result = "ok" => allocated = nextBlock

\* Words of two blocks, or of a block and the table, are apart.
LEMMA PlacesApart ==
  ASSUME DataOffsetFits, TypeInv, PlacesOK
  PROVE  /\ \A i \in Table : i \in Nat /\ i < HeaderWords + blocksInHDD
         /\ \A b \in Allocated : \A r \in Places :
              /\ Place(b, r) \in Nat /\ HeaderWords + blocksInHDD <= Place(b, r)
              /\ Place(b, r) < BlockDataOffset(nextBlock)
         /\ \A b, c \in Allocated : \A r, s \in Places : Place(b, r) = Place(c, s) => b = c /\ r = s
<1>1. /\ BlockWords \in Nat \ {0} /\ HeaderWords \in Nat /\ blocksInHDD \in Nat /\ nextBlock \in Nat
  BY Geometry DEF TypeInv
<1>2. \A b \in Allocated : entries[b] \in Nat /\ entries[b] < nextBlock
  BY <1>1 DEF TypeInv, PlacesOK, Allocated
<1>3. \A i \in Table : i \in Nat /\ i < HeaderWords + blocksInHDD
  BY <1>1 DEF Table
<1>4. ASSUME NEW b \in Allocated, NEW r \in Places
      PROVE  /\ Place(b, r) \in Nat /\ HeaderWords + blocksInHDD <= Place(b, r)
             /\ Place(b, r) < BlockDataOffset(nextBlock)
  BY <1>1, <1>2, BlocksApart DEF Place, Places
<1>5. ASSUME NEW b \in Allocated, NEW c \in Allocated, NEW r \in Places, NEW s \in Places,
             Place(b, r) = Place(c, s)
      PROVE  b = c /\ r = s
  <2>1. PICK e \in Nat, f \in Nat : e = entries[b] /\ f = entries[c]
    BY <1>2
  <2>2. PICK x \in Nat, y \in Nat : /\ x = BlockDataOffset(e) /\ y = BlockDataOffset(f)
                                    /\ e < f => x + BlockWords <= y
                                    /\ f < e => y + BlockWords <= x
    BY BlocksApart
  <2>3. x + r = y + s /\ r \in 0 .. BlockWords - 1 /\ s \in 0 .. BlockWords - 1
    BY <1>5, <2>1, <2>2 DEF Place, Places
  <2>4. e = f
    BY <1>1, <2>2, <2>3
  <2>5. x = y
    BY <2>2, <2>4
  <2>6. r = s
    BY <1>1, <2>2, <2>3, <2>5
  <2> QED
    BY <2>1, <2>4, <2>6 DEF PlacesOK
<1> QED
  BY <1>3, <1>4, <1>5

LEMMA TableFacts ==
  /\ \A b \in Blocks : HeaderWords + b \in Table /\ (HeaderWords + b) - HeaderWords = b
  /\ \A i \in Table : i - HeaderWords \in Blocks /\ HeaderWords + (i - HeaderWords) = i
BY Geometry DEF Blocks, Table

LEMMA FileInit == DataOffsetFits /\ Init => FileOK
<1> SUFFICES ASSUME DataOffsetFits, Init PROVE FileOK
  OBVIOUS
<1>1. /\ HeaderWords \in Nat \ {0} /\ blocksInHDD \in Nat
      /\ HeaderWords + blocksInHDD <= BlockDataOffset(0) /\ BlockDataOffset(0) \in Nat
  BY Geometry, BlocksApart
<1>2. DOMAIN file = 0 .. HeaderWords + blocksInHDD - 1 /\ nextBlock = 0 /\ pc = "idle"
      /\ result = "none"
  BY DEF Init
<1>3. DOMAIN file \subseteq Nat /\ Table \subseteq DOMAIN file
      /\ \A i \in DOMAIN file : i < BlockDataOffset(nextBlock)
  BY <1>1, <1>2 DEF Table
<1>4. Allocated = {}
  BY DEF Init, Allocated
<1>5. \A i \in Table : file[i] = <<"entry", BlockFree>>
  BY <1>1 DEF Init, Table
<1>6. \A b \in Blocks : InTable(b) = <<"entry", BlockFree>>
  BY <1>5, TableFacts DEF InTable
<1> QED
  BY <1>2, <1>3, <1>4, <1>6 DEF FileOK

\* A step that leaves the file, or writes data in places of blocks.
LEMMA FileQuiet ==
  ASSUME FileOK, UNCHANGED <<entries, nextBlock, cut, result>>, pc' # "header", result # "ok",
         DOMAIN file \subseteq DOMAIN file', DOMAIN file' \subseteq Nat,
         \A i \in Table : file'[i] = file[i],
         pc' \in {"idle", "piece"} =>
           \A i \in DOMAIN file' : i < BlockDataOffset(nextBlock)
  PROVE  FileOK'
<1>1. \A b \in Blocks : InTable(b)' = InTable(b)
  BY TableFacts DEF InTable
<1>2. Allocated' = Allocated /\ \A b, r : Place(b, r)' = Place(b, r)
  BY DEF Allocated, Place
<1> QED
  BY <1>1, <1>2 DEF FileOK

\* A part of the piece is written to the block of the piece.
LEMMA OverwrittenFacts ==
  ASSUME DataOffsetFits, TypeInv, PlacesOK, FileOK, HasBlock, NEW n \in 0 .. want
  PROVE  LET at == Place(blockNo, inBlock)
             new == Overwritten(n)
         IN  /\ at \in Nat /\ DOMAIN new = DOMAIN file
             /\ \A i \in DOMAIN file : i \notin at .. at + n - 1 => new[i] = file[i]
             /\ \A i \in DOMAIN file : i \in at .. at + n - 1 =>
                  new[i] = Wanted(pos + (i - at))
             /\ \A i \in Table : new[i] = file[i]
<1> DEFINE at == Place(blockNo, inBlock)
           new == Overwritten(n)
<1>1. /\ blockNo \in Allocated /\ inBlock \in Places /\ cut = {} /\ want \in Nat
      /\ inBlock + want <= BlockWords /\ inBlock \in Nat /\ BlockWords \in Nat /\ pos \in Nat
  BY LoopFacts, Geometry DEF HasBlock, Allocated, Places
<1>2. at \in Nat /\ HeaderWords + blocksInHDD <= at
  BY <1>1, PlacesApart
<1>3. ASSUME NEW i \in at .. at + n - 1 PROVE i \in DOMAIN file
  <2>1. i - at \in Nat /\ i - at < n
    BY <1>1, <1>2
  <2>2. inBlock + (i - at) \in Places
    BY <1>1, <2>1 DEF Places
  <2>3. Place(blockNo, inBlock + (i - at)) = i
    <3>1. BlockDataOffset(entries[blockNo]) \in Nat
      BY <1>1, BlocksApart, Geometry DEF Allocated, TypeInv
    <3>2. PICK x \in Nat : x = BlockDataOffset(entries[blockNo])
      BY <3>1
    <3>3. at = x + inBlock /\ x + (inBlock + (i - at)) = i
      BY <1>1, <2>1, <3>2 DEF Place
    <3> QED
      BY <3>2, <3>3 DEF Place
  <2> QED
    BY <1>1, <2>2, <2>3 DEF FileOK
<1>4. DOMAIN new = DOMAIN file
  BY <1>3 DEF Overwritten, Place
<1>5. \A i \in DOMAIN file : i \notin at .. at + n - 1 => new[i] = file[i]
  BY <1>3 DEF Overwritten, Place
<1>6. ASSUME NEW i \in DOMAIN file, i \in at .. at + n - 1
      PROVE  new[i] = Wanted(pos + (i - at))
  <2>1. pos + i - at = pos + (i - at)
    BY <1>1, <1>2, <1>6
  <2> QED
    BY <1>6, <2>1 DEF Overwritten, Place, Wanted
<1>7. \A i \in Table : i \in DOMAIN file /\ i \notin at .. at + n - 1
  BY <1>1, <1>2, Geometry DEF FileOK, Table
<1> QED
  BY <1>2, <1>4, <1>5, <1>6, <1>7

\* The file after the table, or the first n entries of it, were written.
LEMMA TableWritten ==
  ASSUME TypeInv, FileOK
  PROVE  /\ DOMAIN WithEntries = DOMAIN file
         /\ \A i \in Table : WithEntries[i] = <<"entry", entries[i - HeaderWords]>>
         /\ \A i \in DOMAIN file : i \notin Table => WithEntries[i] = file[i]
BY DEF FileOK, WithEntries

LEMMA TableClosed ==
  ASSUME TypeInv, FileOK, WriteEntries \/ CloseFails
  PROVE  /\ DOMAIN file' = DOMAIN file
         /\ \A i \in Table : file'[i] \in {file[i], <<"entry", entries[i - HeaderWords]>>}
         /\ WriteEntries => \A i \in Table : file'[i] = <<"entry", entries[i - HeaderWords]>>
         /\ \A i \in DOMAIN file : i \notin Table => file'[i] = file[i]
<1>1. Table \subseteq DOMAIN file
  BY DEF FileOK
<1>2. CASE WriteEntries
  BY <1>1, <1>2, TableWritten DEF WriteEntries
<1>3. CASE CloseFails
  <2>1. CASE UNCHANGED file
    BY <1>2, <1>3, <2>1 DEF WriteEntries, CloseFails, TypeInv
  <2>2. CASE \E n \in 0 .. blocksInHDD :
               file' = [i \in DOMAIN file |-> IF i < HeaderWords + n THEN WithEntries[i]
                                                                     ELSE file[i]]
    BY <1>1, <1>2, <2>2, TableWritten
  <2> QED
    BY <1>3, <2>1, <2>2 DEF CloseFails
<1> QED
  BY <1>2, <1>3

LEMMA FileStep == DataOffsetFits /\ TypeInv /\ PlacesOK /\ FileOK /\ [Next]_vars => FileOK'
<1> SUFFICES ASSUME DataOffsetFits, TypeInv, PlacesOK, FileOK, [Next]_vars PROVE FileOK'
  OBVIOUS
<1> USE DEF call
<1>1. CASE AllocateBlock
  <2>1. /\ blockNo \in Blocks /\ entries[blockNo] = BlockFree /\ nextBlock \in Nat
        /\ nextBlock' = nextBlock + 1 /\ entries'[blockNo] = nextBlock
        /\ \A b \in Blocks : b # blockNo => entries'[b] = entries[b]
        /\ Allocated' = Allocated \union {blockNo} /\ blockNo \notin Allocated
    BY <1>1, AllocateFacts DEF AllocateBlock
  <2>2. /\ UNCHANGED <<pc, cut, result, allocated>> /\ pc = "piece" /\ cut = {}
        /\ file' = [i \in 0 .. BlockDataOffset(nextBlock) + BlockWords - 1 |->
                     IF i \in DOMAIN file THEN file[i] ELSE Zero]
    BY <1>1, LoopFacts DEF AllocateBlock, NeedsBlock
  <2>3. PICK x \in Nat, y \in Nat :
          /\ x = BlockDataOffset(nextBlock) /\ y = BlockDataOffset(nextBlock')
          /\ x + BlockWords <= y /\ HeaderWords + blocksInHDD <= x
    BY <2>1, BlocksApart
  <2>4. BlockWords \in Nat \ {0} /\ HeaderWords \in Nat /\ blocksInHDD \in Nat
    BY Geometry
  <2>5. DOMAIN file' = 0 .. x + BlockWords - 1
    BY <2>2, <2>3
  <2>6. DOMAIN file' \subseteq Nat /\ Table \subseteq DOMAIN file'
        /\ \A i \in DOMAIN file' : i < y
    BY <2>3, <2>4, <2>5 DEF Table
  <2>7. \A i \in DOMAIN file : i \in DOMAIN file' /\ file'[i] = file[i]
    BY <2>2, <2>3, <2>4, <2>5 DEF FileOK
  <2>8. ASSUME NEW b \in Allocated', NEW r \in Places PROVE Place(b, r)' \in DOMAIN file'
    <3>1. CASE b = blockNo
      <4>1. Place(b, r)' = x + r
        BY <2>1, <2>3, <3>1 DEF Place, BlockDataOffset
      <4> QED
        BY <2>3, <2>4, <2>5, <4>1 DEF Places
    <3>2. CASE b # blockNo
      <4>1. b \in Allocated \ cut /\ Place(b, r)' = Place(b, r)
        BY <2>1, <2>2, <3>2 DEF Place, BlockDataOffset, Allocated
      <4> QED
        BY <2>7, <4>1 DEF FileOK
    <3> QED
      BY <3>1, <3>2
  <2>9. \A b \in Blocks : InTable(b)' = InTable(b)
    BY <2>7, TableFacts DEF InTable, FileOK
  <2>10. \A b \in Blocks : InTable(b)' \in {<<"entry", BlockFree>>, <<"entry", entries'[b]>>}
    BY <2>1, <2>9 DEF FileOK
  <2>11. result # "ok"
    BY <2>2 DEF TypeInv
  <2> QED
    BY <2>2, <2>3, <2>6, <2>8, <2>10, <2>11 DEF FileOK
<1>2. CASE AllocateFails
  <2>1. /\ blockNo \in Blocks /\ entries[blockNo] = BlockFree
        /\ \A b \in Blocks : b # blockNo => entries'[b] = entries[b]
        /\ Allocated' = Allocated \union {blockNo} /\ blockNo \notin Allocated
    BY <1>2, AllocateFacts DEF AllocateFails
  <2>2. /\ UNCHANGED <<file, result>> /\ cut' = cut \union {blockNo} /\ pc' = "stopped"
        /\ result # "ok"
    BY <1>2 DEF AllocateFails, NeedsBlock, Unfinished, TypeInv
  <2>3. \A b \in Allocated \ cut : \A r \in Places : b # blockNo => Place(b, r)' = Place(b, r)
    BY <2>1 DEF Place, Allocated, BlockDataOffset
  <2>4. \A b \in Blocks : InTable(b)' \in {<<"entry", BlockFree>>, <<"entry", entries'[b]>>}
    BY <2>1, <2>2 DEF FileOK, InTable
  <2> QED
    BY <2>1, <2>2, <2>3, <2>4 DEF FileOK
<1>3. CASE WriteData \/ WriteFails
  <2>1. PICK n \in 0 .. want : file' = Overwritten(n)
    <3>1. CASE WriteData
      <4>1. want \in Nat
        BY <3>1, LoopFacts DEF WriteData, HasBlock
      <4> QED
        BY <3>1, <4>1 DEF WriteData
    <3> QED
      BY <1>3, <3>1 DEF WriteFails
  <2>2. /\ HasBlock /\ UNCHANGED <<entries, nextBlock, cut, result>>
        /\ pc' \in {"piece", "stopped"} /\ pc = "piece" /\ result # "ok"
    BY <1>3 DEF WriteData, WriteFails, HasBlock, Unfinished, TypeInv
  <2>3. DOMAIN file' = DOMAIN file /\ \A i \in Table : file'[i] = file[i]
    BY <2>1, <2>2, OverwrittenFacts
  <2> QED
    BY <2>2, <2>3, FileQuiet DEF FileOK
<1>4. CASE WriteAt \/ SkipZeros \/ Returned
  <2>1. /\ UNCHANGED <<entries, nextBlock, cut, result, file>>
        /\ pc' \in {"idle", "piece"} /\ pc \in {"idle", "piece"}
    BY <1>4 DEF WriteAt, SkipZeros, Returned, Unfinished
  <2> QED
    BY <2>1, FileQuiet DEF FileOK, TypeInv
<1>5. CASE WriteEntries \/ CloseFails
  <2>1. /\ UNCHANGED <<entries, nextBlock, cut>> /\ pc' \in {"header", "closed"}
        /\ result' # "ok" /\ (pc' = "header" => WriteEntries)
    BY <1>5 DEF WriteEntries, CloseFails, TypeInv
  <2>2. /\ DOMAIN file' = DOMAIN file
        /\ \A i \in Table : file'[i] \in {file[i], <<"entry", entries[i - HeaderWords]>>}
        /\ WriteEntries => \A i \in Table : file'[i] = <<"entry", entries[i - HeaderWords]>>
    BY <1>5, TableClosed
  <2>3. \A b \in Blocks : /\ InTable(b)' \in {InTable(b), <<"entry", entries[b]>>}
                          /\ WriteEntries => InTable(b)' = <<"entry", entries[b]>>
    BY <2>2, TableFacts DEF InTable
  <2>4. Allocated' = Allocated /\ \A b, r : Place(b, r)' = Place(b, r)
    BY <2>1 DEF Allocated, Place, BlockDataOffset
  <2> QED
    BY <2>1, <2>2, <2>3, <2>4 DEF FileOK
<1>6. CASE WriteHeader
  <2>1. /\ UNCHANGED <<entries, nextBlock, cut, file>> /\ pc = "header" /\ pc' = "closed"
        /\ allocated' = nextBlock
    BY <1>6 DEF WriteHeader
  <2>2. Allocated' = Allocated /\ \A b, r : Place(b, r)' = Place(b, r) /\ InTable(b)' = InTable(b)
    BY <2>1 DEF Allocated, Place, BlockDataOffset, InTable
  <2> QED
    BY <2>1, <2>2 DEF FileOK
<1>7. CASE Terminated \/ UNCHANGED vars
  <2>1. UNCHANGED <<pc, entries, nextBlock, cut, file, allocated, result>>
    BY <1>7 DEF Terminated, vars
  <2>2. Allocated' = Allocated /\ \A b, r : Place(b, r)' = Place(b, r) /\ InTable(b)' = InTable(b)
    BY <2>1 DEF Allocated, Place, BlockDataOffset, InTable
  <2> QED
    BY <2>1, <2>2 DEF FileOK
<1> QED
  BY <1>1, <1>2, <1>3, <1>4, <1>5, <1>6, <1>7 DEF Next, Step

-----------------------------------------------------------------------------
(* What is read back.                                                      *)

\* The data of a word, found by way of the table in memory.
HeldAt(w) == IF entries[BlockOf(w)] = BlockFree THEN Zero
             ELSE file[Place(BlockOf(w), PlaceOf(w))]

\* WriteAt has dealt with the word as a part of the chunk, and was asked to.
DoneBy(k, w) == /\ w \in ChunkData(k)
                /\ k \in written \/ (pc = "piece" /\ k = chunk /\ w < pos)
Asked(w) == \/ \E k \in written : w \in ChunkData(k)
            \/ pc # "idle" /\ chunk \in Chunks /\ w \in ChunkData(chunk)

\* A block that has no place although WriteAt has dealt with a word of it was
\* skipped as a whole.
SkippedOK ==
  \A k \in Chunks : \A v, w \in Words :
    DoneBy(k, w) /\ BlockOf(v) = BlockOf(w) /\ entries[BlockOf(w)] = BlockFree => DoneBy(k, v)

\* No chunk that was written lacks its block.
CutOK == \A k \in written : \A w \in ChunkData(k) : BlockOf(w) \notin cut

DataOK ==
  \A w \in Words :
    /\ BlockOf(w) \notin cut => /\ HeldAt(w) \in {Zero, Wanted(w)}
                                /\ \A k \in Chunks : DoneBy(k, w) => HeldAt(w) = Wanted(w)
    /\ w \in source => Asked(w)

ReadInv == SkippedOK /\ CutOK /\ DataOK

LEMMA ReadInit == Init => ReadInv
<1> SUFFICES ASSUME Init PROVE ReadInv
  OBVIOUS
<1>1. \A w \in Words : HeldAt(w) = Zero /\ Wanted(w) = Zero
  BY WordFacts DEF Init, HeldAt, Wanted
<1>2. \A k, w : ~DoneBy(k, w)
  BY DEF Init, DoneBy
<1> QED
  BY <1>1, <1>2 DEF Init, ReadInv, SkippedOK, CutOK, DataOK

\* A step that asks for nothing, is done with nothing new and changes no word.
LEMMA ReadQuiet ==
  ASSUME TypeInv, ReadInv, UNCHANGED <<entries, source, written, chunk, cut>>,
         \A w \in Words : BlockOf(w) \notin cut => HeldAt(w)' \in {HeldAt(w), Wanted(w)},
         pc' = "piece" => pc = "piece" /\ UNCHANGED pos,
         pc' = "idle" => pc = "idle",
         pc' = "piece" \/ pc # "piece" \/ pc' = "stopped"
  PROVE  ReadInv'
<1>1. \A k, w : DoneBy(k, w)' => DoneBy(k, w)
  BY DEF DoneBy
<1>2. \A w : Asked(w) => Asked(w)'
  BY DEF Asked
<1>3. \A w : Wanted(w)' = Wanted(w)
  BY DEF Wanted
<1>4. DataOK'
  BY <1>1, <1>2, <1>3 DEF ReadInv, DataOK
<1>5. CutOK'
  BY DEF ReadInv, CutOK
<1>6. SkippedOK'
  <2> SUFFICES ASSUME NEW k \in Chunks, NEW v \in Words, NEW w \in Words, DoneBy(k, w)',
                      BlockOf(v) = BlockOf(w), entries[BlockOf(w)] = BlockFree
               PROVE  DoneBy(k, v)'
    BY DEF SkippedOK
  <2>1. DoneBy(k, w) /\ DoneBy(k, v)
    BY <1>1 DEF ReadInv, SkippedOK
  <2>2. CASE k \in written
    BY <2>1, <2>2 DEF DoneBy
  <2>3. CASE k \notin written
    BY <2>1, <2>3 DEF DoneBy
  <2> QED
    BY <2>2, <2>3
<1> QED
  BY <1>4, <1>5, <1>6 DEF ReadInv

\* A block that has just got its place holds zeros.
LEMMA HeldAllocate ==
  ASSUME DataOffsetFits, TypeInv, PlacesOK, FileOK, AllocateBlock
  PROVE  \A w \in Words : HeldAt(w)' = HeldAt(w)
<1> SUFFICES ASSUME NEW w \in Words PROVE HeldAt(w)' = HeldAt(w)
  OBVIOUS
<1>1. /\ blockNo \in Blocks /\ entries[blockNo] = BlockFree /\ nextBlock \in Nat
      /\ entries'[blockNo] = nextBlock /\ nextBlock < blocksInHDD /\ blocksInHDD \in Nat
      /\ \A b \in Blocks : b # blockNo => entries'[b] = entries[b]
  BY AllocateFacts, Geometry DEF AllocateBlock
<1>2. /\ pc = "piece" /\ cut = {}
      /\ file' = [i \in 0 .. BlockDataOffset(nextBlock) + BlockWords - 1 |->
                   IF i \in DOMAIN file THEN file[i] ELSE Zero]
  BY LoopFacts DEF AllocateBlock, NeedsBlock
<1>3. PICK x \in Nat : x = BlockDataOffset(nextBlock)
  BY <1>1, BlocksApart
<1>4. BlockOf(w) \in Blocks /\ PlaceOf(w) \in Places
  BY WordFacts DEF Places
<1>5. \A i \in DOMAIN file : i \in Nat /\ i < x
  BY <1>2, <1>3 DEF FileOK
<1>6. \A i \in Nat : i < x => i \in 0 .. x + BlockWords - 1
  BY <1>3, Geometry
<1>7. CASE BlockOf(w) = blockNo
  <2>1. Place(BlockOf(w), PlaceOf(w))' = x + PlaceOf(w) /\ x + PlaceOf(w) \notin DOMAIN file
        /\ x + PlaceOf(w) \in 0 .. x + BlockWords - 1
    BY <1>1, <1>3, <1>4, <1>5, <1>7, Geometry DEF Place, BlockDataOffset, Places, PlaceOf, BlockOf
  <2>2. file'[x + PlaceOf(w)] = Zero
    BY <1>2, <1>3, <2>1
  <2>3. entries'[BlockOf(w)] # BlockFree
    BY <1>1, <1>7 DEF BlockFree
  <2> QED
    BY <1>1, <1>7, <2>1, <2>2, <2>3 DEF HeldAt, BlockOf, PlaceOf
<1>8. CASE BlockOf(w) # blockNo
  <2>1. entries'[BlockOf(w)] = entries[BlockOf(w)]
    BY <1>1, <1>4, <1>8
  <2>2. ASSUME entries[BlockOf(w)] # BlockFree
        PROVE  file'[Place(BlockOf(w), PlaceOf(w))] = file[Place(BlockOf(w), PlaceOf(w))]
    <3>1. Place(BlockOf(w), PlaceOf(w)) \in DOMAIN file
      BY <1>2, <1>4, <2>2 DEF FileOK, Allocated
    <3> QED
      BY <1>2, <1>3, <1>5, <1>6, <3>1
  <2> QED
    BY <2>1, <2>2 DEF HeldAt, Place, BlockOf, PlaceOf, BlockDataOffset
<1> QED
  BY <1>7, <1>8

\* The words of the block, when a part of the piece was written to it.
LEMMA HeldAfterWrite ==
  ASSUME DataOffsetFits, TypeInv, PlacesOK, FileOK, HasBlock, UNCHANGED entries,
         NEW n \in 0 .. want, file' = Overwritten(n)
  PROVE  \A w \in Words : HeldAt(w)' = IF w \in pos .. pos + n - 1 THEN Wanted(w) ELSE HeldAt(w)
<1> SUFFICES ASSUME NEW w \in Words
             PROVE  HeldAt(w)' = IF w \in pos .. pos + n - 1 THEN Wanted(w) ELSE HeldAt(w)
  OBVIOUS
<1> DEFINE at == Place(blockNo, inBlock)
           i  == Place(BlockOf(w), PlaceOf(w))
<1>1. /\ at \in Nat
      /\ \A j \in DOMAIN file : j \notin at .. at + n - 1 => file'[j] = file[j]
      /\ \A j \in DOMAIN file : j \in at .. at + n - 1 => file'[j] = Wanted(pos + (j - at))
  BY OverwrittenFacts
<1>2. /\ blockNo \in Allocated /\ inBlock \in Places /\ inBlock \in Nat /\ cut = {}
      /\ want \in Nat /\ pos \in Nat /\ inBlock + want <= BlockWords
      /\ \A v \in Piece : BlockOf(v) = blockNo /\ PlaceOf(v) = inBlock + (v - pos)
      /\ \A v \in Words : BlockOf(v) = blockNo => PlaceOf(v) = inBlock + (v - pos)
  BY LoopFacts, WordFacts DEF HasBlock, Allocated, Places
<1>3. /\ w \in Nat /\ BlockOf(w) \in Blocks /\ PlaceOf(w) \in Places
      /\ BlockWords \in Nat \ {0}
  BY WordFacts, Geometry DEF Places
<1>4. UNCHANGED <<BlockOf(w), PlaceOf(w), Place(BlockOf(w), PlaceOf(w))>>
  BY DEF BlockOf, PlaceOf, Place, BlockDataOffset
<1>5. CASE entries[BlockOf(w)] = BlockFree
  <2>1. w \notin pos .. pos + n - 1
    <3> SUFFICES ASSUME w \in pos .. pos + n - 1 PROVE FALSE
      OBVIOUS
    <3>1. w \in Piece
      BY <1>2 DEF Piece
    <3> QED
      BY <1>2, <1>5, <3>1 DEF Allocated
  <2> QED
    BY <1>4, <1>5, <2>1 DEF HeldAt
<1>6. CASE entries[BlockOf(w)] # BlockFree
  <2>1. BlockOf(w) \in Allocated /\ i \in DOMAIN file
    BY <1>2, <1>3, <1>6 DEF Allocated, FileOK
  <2>2. HeldAt(w)' = file'[i] /\ HeldAt(w) = file[i]
    BY <1>4, <1>6 DEF HeldAt
  <2>3. ASSUME BlockOf(w) = blockNo PROVE i = at + (w - pos)
    <3>1. BlockDataOffset(entries[blockNo]) \in Nat
      BY <1>2, BlocksApart, Geometry DEF Allocated, TypeInv
    <3>2. PICK x \in Nat : x = BlockDataOffset(entries[blockNo])
      BY <3>1
    <3>3. PlaceOf(w) = inBlock + (w - pos)
      BY <1>2, <2>3
    <3>4. i = x + (inBlock + (w - pos)) /\ at = x + inBlock
      BY <2>3, <3>2, <3>3 DEF Place
    <3> QED
      BY <1>2, <1>3, <3>2, <3>4
  <2>4. CASE w \in pos .. pos + n - 1
    <3>1. w \in Piece
      BY <1>2, <2>4 DEF Piece
    <3>2. i = at + (w - pos)
      BY <1>2, <2>3, <3>1
    <3>3. i \in at .. at + n - 1 /\ pos + (i - at) = w
      BY <1>1, <1>2, <1>3, <2>4, <3>2
    <3> QED
      BY <1>1, <2>1, <2>2, <2>4, <3>3
  <2>5. CASE w \notin pos .. pos + n - 1
    <3>1. i \notin at .. at + n - 1
      <4> SUFFICES ASSUME i \in at .. at + n - 1 PROVE FALSE
        OBVIOUS
      <4>1. PICK r \in Places : i = Place(blockNo, r)
        <5>1. PICK x \in Nat : x = BlockDataOffset(entries[blockNo])
          BY <1>2, BlocksApart, Geometry DEF Allocated, TypeInv
        <5>2. at = x + inBlock
          BY <5>1 DEF Place
        <5>3. i - x \in Places /\ i = x + (i - x)
          BY <1>1, <1>2, <1>3, <5>1, <5>2 DEF Places
        <5>4. PICK r \in Places : i = x + r
          BY <5>3
        <5>5. Place(blockNo, r) = x + r
          BY <5>1 DEF Place
        <5> QED
          BY <5>4, <5>5
      <4>2. \A b, c \in Allocated : \A v, s \in Places : Place(b, v) = Place(c, s) => b = c
        BY PlacesApart
      <4>3. BlockOf(w) = blockNo
        BY <1>2, <1>3, <2>1, <4>1, <4>2
      <4>4. i = at + (w - pos)
        BY <2>3, <4>3
      <4> QED
        BY <1>1, <1>2, <1>3, <2>5, <4>4
    <3> QED
      BY <1>1, <2>1, <2>2, <2>5, <3>1
  <2> QED
    BY <2>4, <2>5
<1> QED
  BY <1>5, <1>6

\* A piece is dealt with: its words hold what was wanted, the others what they
\* held, and a block that has no place was a piece as a whole.
LEMMA ReadAdvance ==
  ASSUME TypeInv, ReadInv, Unfinished, pos' = pos + want,
         UNCHANGED <<pc, entries, source, written, chunk, cut>>,
         \A w \in Words : HeldAt(w)' = IF w \in Piece THEN Wanted(w) ELSE HeldAt(w),
         entries[blockNo] = BlockFree => inBlock = 0 /\ want = BlockWords
  PROVE  ReadInv'
<1>1. /\ pc = "piece" /\ chunk \in Chunks /\ pos \in Nat /\ want \in Nat \ {0}
      /\ Piece \subseteq ChunkData(chunk) /\ Piece \subseteq Words
      /\ \A w \in Piece : BlockOf(w) = blockNo
      /\ \A w \in Words : BlockOf(w) = blockNo /\ inBlock = 0 /\ want = BlockWords => w \in Piece
  BY LoopFacts
<1>2. ASSUME NEW k \in Chunks, NEW w \in Words
      PROVE  DoneBy(k, w)' <=> DoneBy(k, w) \/ (k = chunk /\ w \in Piece)
  <2>1. w \in Nat
    BY WordFacts
  <2>2. w < pos + want <=> w < pos \/ w \in Piece
    BY <1>1, <2>1 DEF Piece
  <2>3. DoneBy(k, w)' <=> /\ w \in ChunkData(k)
                          /\ k \in written \/ (k = chunk /\ w < pos + want)
    BY <1>1 DEF DoneBy
  <2>4. DoneBy(k, w) <=> /\ w \in ChunkData(k)
                         /\ k \in written \/ (k = chunk /\ w < pos)
    BY <1>1 DEF DoneBy
  <2> QED
    BY <1>1, <2>2, <2>3, <2>4
<1>3. \A w : Wanted(w)' = Wanted(w) /\ (Asked(w) <=> Asked(w)')
  BY DEF Wanted, Asked
<1>4. SkippedOK'
  <2> SUFFICES ASSUME NEW k \in Chunks, NEW v \in Words, NEW w \in Words, DoneBy(k, w)',
                      BlockOf(v) = BlockOf(w), entries[BlockOf(w)] = BlockFree
               PROVE  DoneBy(k, v)'
    BY DEF SkippedOK, BlockOf
  <2>1. CASE DoneBy(k, w)
    BY <1>2, <2>1 DEF ReadInv, SkippedOK
  <2>2. CASE k = chunk /\ w \in Piece
    BY <1>1, <1>2, <2>2
  <2> QED
    BY <1>2, <2>1, <2>2
<1>5. CutOK'
  BY DEF ReadInv, CutOK, BlockOf
<1>6. DataOK'
  <2> SUFFICES ASSUME NEW w \in Words
               PROVE  /\ BlockOf(w) \notin cut =>
                           /\ HeldAt(w)' \in {Zero, Wanted(w)}
                           /\ \A k \in Chunks : DoneBy(k, w)' => HeldAt(w)' = Wanted(w)
                      /\ w \in source => Asked(w)'
    BY <1>3 DEF DataOK, BlockOf
  <2> QED
    BY <1>2, <1>3 DEF ReadInv, DataOK
<1> QED
  BY <1>4, <1>5, <1>6 DEF ReadInv

LEMMA ReadAllocate ==
  ASSUME DataOffsetFits, TypeInv, PlacesOK, FileOK, ReadInv, AllocateBlock
  PROVE  ReadInv'
<1>1. /\ \A b \in Blocks : b # blockNo => entries'[b] = entries[b]
      /\ entries'[blockNo] = nextBlock /\ nextBlock < blocksInHDD /\ nextBlock \in Nat
      /\ UNCHANGED <<pc, source, written, chunk, pos, cut>>
  BY AllocateFacts DEF AllocateBlock, call
<1>2. \A w \in Words : HeldAt(w)' = HeldAt(w)
  BY HeldAllocate
<1>3. /\ \A w : Wanted(w)' = Wanted(w) /\ (Asked(w) <=> Asked(w)')
      /\ \A k, w : DoneBy(k, w)' <=> DoneBy(k, w)
  BY <1>1 DEF Wanted, Asked, DoneBy
<1>4. blocksInHDD \in Nat
  BY Geometry
<1>5. SkippedOK'
  <2>1. \A w \in Words : entries'[BlockOf(w)] = BlockFree => entries[BlockOf(w)] = BlockFree
    BY <1>1, <1>4, WordFacts DEF BlockFree
  <2> QED
    BY <1>3, <2>1 DEF ReadInv, SkippedOK, BlockOf, BlockFree
<1>6. CutOK'
  BY <1>1 DEF ReadInv, CutOK, BlockOf
<1>7. DataOK'
  BY <1>1, <1>2, <1>3 DEF ReadInv, DataOK, BlockOf
<1> QED
  BY <1>5, <1>6, <1>7 DEF ReadInv

\* No chunk that was written has a word in the block that Truncate has failed
\* for: the block would have had its place by then.
LEMMA ReadCut ==
  ASSUME TypeInv, PlacesOK, ReadInv, AllocateFails
  PROVE  ReadInv'
<1>1. /\ \A b \in Blocks : b # blockNo => entries'[b] = entries[b]
      /\ entries'[blockNo] = nextBlock /\ nextBlock < blocksInHDD /\ nextBlock \in Nat
      /\ blockNo \in Blocks /\ entries[blockNo] = BlockFree
      /\ UNCHANGED <<file, source, written, chunk, pos>>
      /\ cut' = cut \union {blockNo} /\ pc' = "stopped" /\ pc = "piece"
  BY AllocateFacts DEF AllocateFails, NeedsBlock, Unfinished, call
<1>2. /\ chunk \in Chunks /\ chunk \notin written /\ cut = {}
      /\ pos \in Words /\ pos \in ChunkData(chunk) /\ blockNo = BlockOf(pos)
  BY LoopFacts DEF AllocateFails, NeedsBlock
<1>3. /\ \A w : Wanted(w)' = Wanted(w) /\ (Asked(w) <=> Asked(w)')
      /\ \A k, w : DoneBy(k, w)' <=> k \in written /\ w \in ChunkData(k)
      /\ \A k, w : k \in written /\ w \in ChunkData(k) => DoneBy(k, w)
  BY <1>1 DEF Wanted, Asked, DoneBy
<1>4. blocksInHDD \in Nat
  BY Geometry
<1>5. SkippedOK'
  <2> SUFFICES ASSUME NEW k \in Chunks, NEW v \in Words, NEW w \in Words, DoneBy(k, w)',
                      BlockOf(v) = BlockOf(w), entries'[BlockOf(w)] = BlockFree
               PROVE  DoneBy(k, v)'
    BY DEF SkippedOK, BlockOf, BlockFree
  <2>1. entries[BlockOf(w)] = BlockFree
    BY <1>1, <1>4, WordFacts DEF BlockFree
  <2>2. k \in written /\ DoneBy(k, w)
    BY <1>3
  <2>3. DoneBy(k, v)
    BY <2>1, <2>2 DEF ReadInv, SkippedOK
  <2> QED
    BY <1>3, <2>2, <2>3 DEF DoneBy
<1>6. ASSUME NEW k \in written, NEW w \in ChunkData(k) PROVE BlockOf(w) # blockNo
  <2> SUFFICES ASSUME BlockOf(w) = blockNo PROVE FALSE
    OBVIOUS
  <2>1. k \in Chunks /\ w \in Words
    BY ChunkFacts DEF TypeInv
  <2>2. DoneBy(k, w)
    BY <1>3
  <2>3. DoneBy(k, pos)
    BY <1>1, <1>2, <2>1, <2>2 DEF ReadInv, SkippedOK
  <2>4. pos \in ChunkData(k)
    BY <2>3 DEF DoneBy
  <2>5. k = chunk
    BY <1>2, <2>1, <2>4, ChunksApart
  <2> QED
    BY <1>2, <2>5
<1>7. CutOK'
  BY <1>1, <1>2, <1>6 DEF CutOK, BlockOf
<1>8. DataOK'
  <2> SUFFICES ASSUME NEW w \in Words
               PROVE  /\ BlockOf(w) \notin cut' =>
                           /\ HeldAt(w)' \in {Zero, Wanted(w)}
                           /\ \A k \in Chunks : DoneBy(k, w)' => HeldAt(w)' = Wanted(w)
                      /\ w \in source => Asked(w)'
    BY <1>1, <1>3 DEF DataOK, BlockOf
  <2>1. ASSUME BlockOf(w) \notin cut' PROVE HeldAt(w)' = HeldAt(w)
    <3>1. entries'[BlockOf(w)] = entries[BlockOf(w)]
      BY <1>1, <2>1, WordFacts
    <3> QED
      BY <1>1, <3>1 DEF HeldAt, Place, BlockOf, PlaceOf, BlockDataOffset
  <2> QED
    BY <1>1, <1>2, <1>3, <2>1 DEF ReadInv, DataOK
<1> QED
  BY <1>5, <1>7, <1>8 DEF ReadInv

\* A chunk that nobody has asked for holds zeros until its WriteAt.
LEMMA ReadAsked ==
  ASSUME TypeInv, ReadInv, WriteAt
  PROVE  ReadInv'
<1>1. PICK m \in Chunks \ written, data \in SUBSET Words :
        /\ data \subseteq ChunkData(m) /\ source' = source \union data
        /\ chunk' = m /\ pos' = m * ChunkWords
  BY DEF WriteAt
<1>2. pc = "idle" /\ pc' = "piece" /\ UNCHANGED <<entries, file, written, cut>>
  BY DEF WriteAt
<1>3. ASSUME NEW k \in Chunks, NEW w \in Words
      PROVE  /\ DoneBy(k, w)' <=> k \in written /\ w \in ChunkData(k)
             /\ DoneBy(k, w) <=> k \in written /\ w \in ChunkData(k)
  <2>1. DoneBy(k, w) <=> k \in written /\ w \in ChunkData(k)
    BY <1>2 DEF DoneBy
  <2>2. w \in ChunkData(m) => ~(w < m * ChunkWords)
    BY ChunkFacts, WordFacts DEF ChunkData
  <2>3. DoneBy(k, w)' <=> /\ w \in ChunkData(k)
                          /\ k \in written \/ (k = m /\ w < m * ChunkWords)
    BY <1>1, <1>2 DEF DoneBy
  <2> QED
    BY <2>1, <2>2, <2>3
<1>4. \A w \in Words : HeldAt(w)' = HeldAt(w) /\ BlockOf(w)' = BlockOf(w)
  BY <1>2 DEF HeldAt, Place, BlockOf, PlaceOf, BlockDataOffset
<1>5. SkippedOK'
  BY <1>2, <1>3 DEF ReadInv, SkippedOK, BlockOf
<1>6. CutOK'
  BY <1>2 DEF ReadInv, CutOK, BlockOf
<1>7. ASSUME NEW w \in Words
      PROVE  /\ Wanted(w) \in {Zero, Wanted(w)'}
             /\ \A k \in written : w \in ChunkData(k) => Wanted(w)' = Wanted(w)
             /\ w \in source' => Asked(w)'
  <2>1. CASE w \in data
    <3>1. w \in ChunkData(m)
      BY <1>1, <2>1
    <3>2. \A k \in written : w \notin ChunkData(k)
      BY <1>1, <3>1, ChunksApart DEF TypeInv
    <3>3. w \notin source
      BY <1>2, <3>2 DEF ReadInv, DataOK, Asked
    <3> QED
      BY <1>1, <1>2, <3>1, <3>2, <3>3 DEF Wanted, Asked
  <2>2. CASE w \notin data
    <3>1. w \in source' <=> w \in source
      BY <1>1, <2>2
    <3>2. Wanted(w)' = Wanted(w)
      BY <3>1 DEF Wanted
    <3>3. Asked(w) => Asked(w)'
      BY <1>2 DEF Asked
    <3> QED
      BY <3>1, <3>2, <3>3 DEF ReadInv, DataOK
  <2> QED
    BY <2>1, <2>2
<1>8. DataOK'
  <2> SUFFICES ASSUME NEW w \in Words
               PROVE  /\ BlockOf(w) \notin cut =>
                           /\ HeldAt(w) \in {Zero, Wanted(w)'}
                           /\ \A k \in Chunks : DoneBy(k, w)' => HeldAt(w) = Wanted(w)'
                      /\ w \in source' => Asked(w)'
    BY <1>2, <1>4 DEF DataOK
  <2> QED
    BY <1>3, <1>7 DEF ReadInv, DataOK
<1> QED
  BY <1>5, <1>6, <1>8 DEF ReadInv

LEMMA ReadReturned ==
  ASSUME TypeInv, ReadInv, Returned
  PROVE  ReadInv'
<1>1. /\ pc = "piece" /\ pc' = "idle" /\ written' = written \union {chunk} /\ cut = {}
      /\ UNCHANGED <<entries, file, source, chunk, pos, cut>>
      /\ chunk \in Chunks /\ pos \in Nat /\ pos >= ChunkEnd(chunk)
  BY DEF Returned, TypeInv, EndPCs
<1>2. ASSUME NEW k \in Chunks, NEW w \in Words PROVE DoneBy(k, w)' <=> DoneBy(k, w)
  <2>1. w \in ChunkData(chunk) => w < pos
    BY <1>1, ChunkFacts, WordFacts DEF ChunkData
  <2> QED
    BY <1>1, <2>1 DEF DoneBy
<1>3. \A w : Wanted(w)' = Wanted(w) /\ (Asked(w) => Asked(w)') /\ HeldAt(w)' = HeldAt(w)
  BY <1>1 DEF Wanted, Asked, HeldAt, Place, BlockOf, PlaceOf, BlockDataOffset
<1>4. SkippedOK'
  BY <1>1, <1>2 DEF ReadInv, SkippedOK, BlockOf
<1>5. CutOK'
  BY <1>1 DEF CutOK
<1>6. DataOK'
  BY <1>1, <1>2, <1>3 DEF ReadInv, DataOK, BlockOf
<1> QED
  BY <1>4, <1>5, <1>6 DEF ReadInv

LEMMA ReadStep ==
  DataOffsetFits /\ TypeInv /\ PlacesOK /\ FileOK /\ ReadInv /\ [Next]_vars => ReadInv'
<1> SUFFICES ASSUME DataOffsetFits, TypeInv, PlacesOK, FileOK, ReadInv, [Next]_vars
             PROVE  ReadInv'
  OBVIOUS
<1> USE DEF call
<1>1. CASE AllocateBlock
  BY <1>1, ReadAllocate
<1>2. CASE AllocateFails
  BY <1>2, ReadCut
<1>3. CASE WriteAt
  BY <1>3, ReadAsked
<1>4. CASE Returned
  BY <1>4, ReadReturned
<1>5. CASE SkipZeros
  <2>1. /\ Unfinished /\ Skippable /\ pos' = pos + want
        /\ UNCHANGED <<pc, entries, source, written, chunk, cut, file>>
    BY <1>5 DEF SkipZeros
  <2>2. \A w \in Piece : BlockOf(w) = blockNo
    BY <2>1, LoopFacts
  <2>3. \A w \in Piece : HeldAt(w) = Zero /\ Wanted(w) = Zero
    BY <2>1, <2>2 DEF Skippable, HeldAt, Wanted
  <2>4. \A w \in Words : HeldAt(w)' = IF w \in Piece THEN Wanted(w) ELSE HeldAt(w)
    BY <2>1, <2>3 DEF HeldAt, Place, BlockOf, PlaceOf, BlockDataOffset
  <2>5. inBlock = 0 /\ want = BlockWords
    BY <2>1 DEF Skippable
  <2> QED
    BY <2>1, <2>4, <2>5, ReadAdvance
<1>6. CASE WriteData
  <2>1. /\ HasBlock /\ Unfinished /\ pos' = pos + want /\ file' = Overwritten(want)
        /\ UNCHANGED <<pc, entries, source, written, chunk, cut>>
        /\ entries[blockNo] # BlockFree
    BY <1>6 DEF WriteData, HasBlock
  <2>2. want \in 0 .. want
    BY <2>1, LoopFacts
  <2>3. \A w \in Words : HeldAt(w)' = IF w \in Piece THEN Wanted(w) ELSE HeldAt(w)
    BY <2>1, <2>2, HeldAfterWrite DEF Piece
  <2> QED
    BY <2>1, <2>3, ReadAdvance
<1>7. CASE WriteFails
  <2>1. PICK n \in 0 .. want : file' = Overwritten(n)
    BY <1>7 DEF WriteFails
  <2>2. /\ HasBlock /\ pc = "piece" /\ pc' = "stopped"
        /\ UNCHANGED <<entries, source, written, chunk, cut>>
    BY <1>7 DEF WriteFails, HasBlock, Unfinished
  <2>3. \A w \in Words : HeldAt(w)' \in {HeldAt(w), Wanted(w)}
    BY <2>1, <2>2, HeldAfterWrite
  <2> QED
    BY <2>2, <2>3, ReadQuiet
<1>8. CASE WriteEntries \/ CloseFails
  <2>1. /\ pc # "piece" /\ pc' \in {"header", "closed"}
        /\ UNCHANGED <<entries, source, written, chunk, cut>>
    BY <1>8 DEF WriteEntries, CloseFails
  <2>2. \A i \in DOMAIN file : i \notin Table => file'[i] = file[i]
    BY <1>8, TableClosed
  <2>3. ASSUME NEW w \in Words, BlockOf(w) \notin cut PROVE HeldAt(w)' = HeldAt(w)
    <3>1. BlockOf(w) \in Blocks /\ PlaceOf(w) \in Places
      BY WordFacts DEF Places
    <3>2. ASSUME entries[BlockOf(w)] # BlockFree
          PROVE  file'[Place(BlockOf(w), PlaceOf(w))] = file[Place(BlockOf(w), PlaceOf(w))]
      <4>1. BlockOf(w) \in Allocated
        BY <3>1, <3>2 DEF Allocated
      <4>2. /\ Place(BlockOf(w), PlaceOf(w)) \in DOMAIN file
            /\ Place(BlockOf(w), PlaceOf(w)) \in Nat
            /\ HeaderWords + blocksInHDD <= Place(BlockOf(w), PlaceOf(w))
        BY <2>3, <3>1, <4>1, PlacesApart DEF FileOK
      <4>3. Place(BlockOf(w), PlaceOf(w)) \notin Table
        BY <4>2, Geometry DEF Table
      <4> QED
        BY <2>2, <4>2, <4>3
    <3> QED
      BY <2>1, <3>2 DEF HeldAt, Place, BlockOf, PlaceOf, BlockDataOffset
  <2> QED
    BY <2>1, <2>3, ReadQuiet
<1>9. CASE WriteHeader \/ Terminated \/ UNCHANGED vars
  <2>1. /\ UNCHANGED <<file, entries, source, written, chunk, cut, pos>>
        /\ pc' = pc \/ (pc = "header" /\ pc' = "closed")
    BY <1>9 DEF WriteHeader, Terminated, vars
  <2>2. \A w \in Words : HeldAt(w)' = HeldAt(w)
    BY <2>1 DEF HeldAt, Place, BlockOf, PlaceOf, BlockDataOffset
  <2> QED
    BY <2>1, <2>2, ReadQuiet
<1> QED
  BY <1>1, <1>2, <1>3, <1>4, <1>5, <1>6, <1>7, <1>8, <1>9 DEF Next, Step

-----------------------------------------------------------------------------
(* What the reader makes of the file.                                      *)

\* A word that is found by way of the table in the file is the one found by way
\* of the table in memory, or zero when the file does not name the block yet.
LEMMA ReaderFinds ==
  ASSUME DataOffsetFits, TypeInv, PlacesOK, FileOK, NEW w \in Words, BlockOf(w) \notin cut
  PROVE  /\ ReadAt(w) \in {Zero, HeldAt(w)}
         /\ InTable(BlockOf(w)) = <<"entry", entries[BlockOf(w)]>> => ReadAt(w) = HeldAt(w)
<1>1. BlockOf(w) \in Blocks /\ PlaceOf(w) \in Places /\ BlockFree \in Nat
  BY WordFacts, Geometry DEF Places, BlockFree
<1>2. InTable(BlockOf(w)) = file[HeaderWords + w \div BlockWords]
  BY DEF InTable, BlockOf
<1>3. InTable(BlockOf(w)) \in {<<"entry", BlockFree>>, <<"entry", entries[BlockOf(w)]>>}
  BY <1>1 DEF FileOK
<1>4. CASE InTable(BlockOf(w)) = <<"entry", BlockFree>>
  <2>1. ReadAt(w) = Zero
    BY <1>2, <1>4 DEF ReadAt
  <2>2. InTable(BlockOf(w)) = <<"entry", entries[BlockOf(w)]>> => HeldAt(w) = Zero
    BY <1>4 DEF HeldAt
  <2> QED
    BY <2>1, <2>2
<1>5. CASE InTable(BlockOf(w)) # <<"entry", BlockFree>>
  <2>1. /\ InTable(BlockOf(w)) = <<"entry", entries[BlockOf(w)]>>
        /\ entries[BlockOf(w)] # BlockFree /\ BlockOf(w) \in Allocated
    BY <1>1, <1>3, <1>5 DEF Allocated
  <2>2. Place(BlockOf(w), PlaceOf(w)) \in DOMAIN file
    BY <1>1, <2>1 DEF FileOK
  <2>3. Place(BlockOf(w), PlaceOf(w)) = BlockDataOffset(InTable(BlockOf(w))[2]) + (w % BlockWords)
    BY <2>1 DEF Place, PlaceOf
  <2>4. ReadAt(w) = file[Place(BlockOf(w), PlaceOf(w))]
    BY <1>2, <1>5, <2>2, <2>3 DEF ReadAt
  <2> QED
    BY <2>1, <2>4 DEF HeldAt
<1> QED
  BY <1>4, <1>5

\* As many entries of a table that was written are in use as blocks have a place.
LEMMA EntriesCounted ==
  ASSUME TypeInv, \A b \in Blocks : InTable(b) = <<"entry", entries[b]>>
  PROVE  Cardinality({i \in Table : file[i] # <<"entry", BlockFree>>}) = Cardinality(Allocated)
<1> DEFINE T == {i \in Table : file[i] # <<"entry", BlockFree>>}
           f == [b \in Allocated |-> HeaderWords + b]
<1>1. HeaderWords \in Nat /\ blocksInHDD \in Nat
  BY Geometry
<1>2. IsFiniteSet(Allocated)
  <2>1. IsFiniteSet(Blocks) /\ Allocated \in SUBSET Blocks
    BY <1>1, FS_Interval DEF Allocated, Blocks
  <2> QED
    BY <2>1, FS_Subset
<1>3. ASSUME NEW b \in Blocks PROVE HeaderWords + b \in T <=> b \in Allocated
  BY TableFacts DEF InTable, Allocated
<1>4. f \in [Allocated -> T]
  BY <1>3 DEF Allocated
<1>5. \A b, c \in Allocated : f[b] = f[c] => b = c
  BY <1>1 DEF Allocated, Blocks
<1>6. \A i \in T : \E b \in Allocated : f[b] = i
  <2> SUFFICES ASSUME NEW i \in T PROVE \E b \in Allocated : f[b] = i
    OBVIOUS
  <2>1. i - HeaderWords \in Blocks /\ HeaderWords + (i - HeaderWords) = i
    BY TableFacts
  <2>2. i - HeaderWords \in Allocated
    BY <1>3, <2>1
  <2> QED
    BY <2>1, <2>2
<1> HIDE DEF T, f
<1>7. f \in Bijection(Allocated, T)
  BY <1>4, <1>5, <1>6, Fun_IsBij
<1>8. Cardinality(T) = Cardinality(Allocated)
  BY <1>2, <1>7, FS_Bijection DEF ExistsBijection
<1> QED
  BY <1>8 DEF T

VdiInv == TypeInv /\ PlacesOK /\ FileOK /\ ReadInv

LEMMA VdiInvariant ==
  ASSUME DataOffsetFits PROVE Spec => []VdiInv
<1>1. Init => VdiInv
  BY TypeInit, FileInit, ReadInit DEF VdiInv
<1>2. VdiInv /\ [Next]_vars => VdiInv'
  BY TypeStep, PlacesStep, FileStep, ReadStep DEF VdiInv
<1> QED
  BY <1>1, <1>2, PTL DEF Spec

\* Killed at any step, the file reads everywhere as zeros or as what was to be
\* written there, for every size of the disk whose data offset fits its field,
\* whichever order the chunks come in and whichever call of the system fails.
THEOREM KilledVdiIsSound ==
  ASSUME DataOffsetFits PROVE Spec => []KilledIsSound
<1>1. VdiInv => KilledIsSound
  <2> SUFFICES ASSUME VdiInv, NEW w \in Words, BlockOf(w) \notin cut
               PROVE  ReadAt(w) \in {Zero, Wanted(w)}
    BY DEF KilledIsSound, BlockOf
  <2> QED
    BY ReaderFinds DEF VdiInv, ReadInv, DataOK
<1> QED
  BY <1>1, VdiInvariant, PTL

\* Once Close has returned nil a reader finds every word that was written, and
\* the header counts the entries of the table that are in use.
THEOREM ClosedVdiReadsBack ==
  ASSUME DataOffsetFits PROVE Spec => []SealedReadsBack
<1>1. VdiInv => SealedReadsBack
  <2> SUFFICES ASSUME VdiInv, result = "ok"
               PROVE  /\ \A k \in written : \A w \in ChunkData(k) : ReadAt(w) = Wanted(w)
                      /\ allocated = Cardinality({i \in Table : file[i] # <<"entry", BlockFree>>})
    BY DEF SealedReadsBack
  <2>1. \A b \in Blocks : InTable(b) = <<"entry", entries[b]>>
    BY DEF VdiInv, FileOK
  <2>2. ASSUME NEW k \in written, NEW w \in ChunkData(k) PROVE ReadAt(w) = Wanted(w)
    <3>1. k \in Chunks /\ w \in Words
      BY ChunkFacts DEF VdiInv, TypeInv
    <3>2. BlockOf(w) \notin cut /\ BlockOf(w) \in Blocks
      BY <3>1, WordFacts DEF VdiInv, ReadInv, CutOK
    <3>3. HeldAt(w) = Wanted(w)
      BY <3>1, <3>2 DEF VdiInv, ReadInv, DataOK, DoneBy
    <3> QED
      BY <2>1, <3>1, <3>2, <3>3, ReaderFinds DEF VdiInv
  <2>3. allocated = Cardinality({i \in Table : file[i] # <<"entry", BlockFree>>})
    BY <2>1, EntriesCounted DEF VdiInv, FileOK, PlacesOK
  <2> QED
    BY <2>2, <2>3
<1> QED
  BY <1>1, VdiInvariant, PTL
=============================================================================
