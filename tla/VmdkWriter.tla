------------------------------ MODULE VmdkWriter ------------------------------
(***************************************************************************)
(* The monolithic sparse VMDK writer of internal/formats/vmdk/writer.go,   *)
(* from Create to Close, and what the hosted sparse reader (sparse.go)     *)
(* makes of the file it leaves, whole or killed half way.                  *)
(*                                                                         *)
(* Data is counted in words, SectorWords to the sector, as a disk may end  *)
(* in the middle of one. The data sectors of the file are a set of words:  *)
(* those that hold the data of the guest word found there. The grain       *)
(* tables of the file are kept apart; header, descriptor and grain         *)
(* directory do not change after Create.                                   *)
(***************************************************************************)
EXTENDS Naturals, FiniteSets

CONSTANTS
  SectorWords,    \* words of a sector
  GrainSectors,   \* GrainSizeSectors
  NumGTEsPerGT,   \* entries of a grain table
  OverHead,       \* OverHeadSectors: header, descriptor, directory and tables
  MaxSector,      \* the largest sector number an entry holds (2^32 - 1)
  Sizes,          \* sizes Create may be called with, in words
  ChunkWords,     \* length of a WriteAt call: the chunk size of the pipeline
  MaxWrites,      \* bound: WriteAt calls
  Sparse,         \* WriterOptions.Sparse
  MayFail         \* system calls may fail

ASSUME GeometryAssumption ==
  /\ SectorWords \in Nat \ {0} /\ GrainSectors \in Nat \ {0}
  /\ NumGTEsPerGT \in Nat \ {0} /\ OverHead \in Nat \ {0}
  /\ MaxSector \in Nat /\ OverHead <= MaxSector
  /\ Sizes \subseteq Nat \ {0} /\ ChunkWords \in Nat \ {0} /\ MaxWrites \in Nat
ASSUME FlagsAssumption == Sparse \in BOOLEAN /\ MayFail \in BOOLEAN

VARIABLES
  pc,        \* the next statement of the method under way
  size,      \* w.size
  gts,       \* w.gtTables
  nextData,  \* w.nextDataSector
  length,    \* of the file, in sectors
  onDisk,    \* the grain tables of the file
  data,      \* file words that hold data: <<file word, guest word>>
  source,    \* the words the caller asked to write that are not zero
  written,   \* the chunks WriteAt has returned nil for
  chunk,     \* the chunk being written
  pos,       \* off + written of WriteAt
  flushed,   \* writeAllGTs of Close: tables written
  result     \* what Close returned

disk == <<length, onDisk, data>>
call == <<source, written, chunk>>
vars == <<pc, size, gts, nextData, disk, call, pos, flushed, result>>

ceilDiv(x, y) == (x + y - 1) \div y
Least(x, y)   == IF x <= y THEN x ELSE y

Words           == 0 .. size - 1
grainWords      == GrainSectors * SectorWords
capacitySectors == ceilDiv(size, SectorWords)
numGrains       == ceilDiv(capacitySectors, GrainSectors)
numGTs          == ceilDiv(numGrains, NumGTEsPerGT)
Tables          == 0 .. numGTs - 1
Entries         == 0 .. NumGTEsPerGT - 1

Init ==             \* Create has returned
  /\ pc = "idle" /\ size \in Sizes
  /\ gts = [t \in Tables |-> [e \in Entries |-> 0]]
  /\ nextData = OverHead /\ length = OverHead
  /\ onDisk = gts /\ data = {}
  /\ source = {} /\ written = {} /\ chunk = 0 /\ pos = 0 /\ flushed = 0
  /\ result = "none"

-----------------------------------------------------------------------------
(* WriteAt.                                                                *)

Chunks       == 0 .. ceilDiv(size, ChunkWords) - 1
ChunkEnd(k)  == Least((k + 1) * ChunkWords, size)
ChunkData(k) == k * ChunkWords .. ChunkEnd(k) - 1

grainIdx == pos \div grainWords
inGrain  == pos % grainWords
want     == Least(ChunkEnd(chunk) - pos, grainWords - inGrain)
Piece    == pos .. pos + want - 1
gtIdx    == grainIdx \div NumGTEsPerGT
gtEnt    == grainIdx % NumGTEsPerGT
sec      == gts[gtIdx][gtEnt]

\* The caller writes every chunk at most once, in any order, and nothing after
\* an error.
WriteAt ==
  /\ pc = "idle" /\ Cardinality(written) < MaxWrites
  /\ \E k \in Chunks \ written, new \in SUBSET Words :
       /\ new \subseteq ChunkData(k)
       /\ source' = source \union new
       /\ chunk' = k /\ pos' = k * ChunkWords
  /\ pc' = "piece"
  /\ UNCHANGED <<size, gts, nextData, disk, written, flushed, result>>

Unfinished == pc = "piece" /\ pos < ChunkEnd(chunk)

Skippable ==
  Sparse /\ inGrain = 0 /\ want = grainWords /\ Piece \intersect source = {}

SkipZeros ==
  /\ Unfinished /\ Skippable
  /\ pos' = pos + want
  /\ UNCHANGED <<pc, size, gts, nextData, disk, call, flushed, result>>

\* Mutant: the sector number is cut to 32 bits without a check.
AllocateUnchecked ==
  /\ gts' = [gts EXCEPT ![gtIdx][gtEnt] = nextData % (MaxSector + 1)]
  /\ nextData' = nextData + GrainSectors

\* ensureGrain, up to the call of Truncate.
Allocate ==
  /\ nextData <= MaxSector
  /\ gts' = [gts EXCEPT ![gtIdx][gtEnt] = nextData]
  /\ nextData' = nextData + GrainSectors

NeedsGrain == Unfinished /\ ~Skippable /\ sec = 0

AllocateGrain ==
  /\ NeedsGrain /\ Allocate
  /\ length' = nextData'
  /\ pc' = "table"
  /\ UNCHANGED <<size, onDisk, data, call, pos, flushed, result>>

\* Truncate failed: the entry stays, in memory.
AllocateFails ==
  /\ MayFail /\ NeedsGrain /\ Allocate
  /\ pc' = "stopped"
  /\ UNCHANGED <<size, disk, call, pos, flushed, result>>

\* "sector offset exceeds uint32"
TooFar ==
  /\ NeedsGrain /\ nextData > MaxSector
  /\ pc' = "stopped"
  /\ UNCHANGED <<size, gts, nextData, disk, call, pos, flushed, result>>

WriteGT ==          \* the table of the new grain, at once
  /\ pc = "table"
  /\ onDisk' = [onDisk EXCEPT ![gtIdx] = gts[gtIdx]]
  /\ pc' = "piece"
  /\ UNCHANGED <<size, gts, nextData, length, data, call, pos, flushed, result>>

\* The data of the file once the first n words of the piece are in place.
Overwritten(n) ==
  LET at == sec * SectorWords + inGrain
  IN  {d \in data : d[1] \notin at .. at + n - 1}
        \union {<<at + w - pos, w>> : w \in (pos .. pos + n - 1) \intersect source}

\* Mutant: the piece goes to the start of the grain.
WriteDataAtStart ==
  /\ Unfinished /\ ~Skippable /\ sec # 0
  /\ data' = {d \in data : d[1] \notin sec * SectorWords .. sec * SectorWords + want - 1}
        \union {<<sec * SectorWords + w - pos, w>> : w \in Piece \intersect source}
  /\ pos' = pos + want
  /\ UNCHANGED <<pc, size, gts, nextData, length, onDisk, call, flushed, result>>

WriteData ==
  /\ Unfinished /\ ~Skippable /\ sec # 0
  /\ data' = Overwritten(want)
  /\ pos' = pos + want
  /\ UNCHANGED <<pc, size, gts, nextData, length, onDisk, call, flushed, result>>

WriteFails ==       \* the table, or the data, of which a part is written
  /\ MayFail
  /\ \/ pc = "table" /\ data' = data
     \/ /\ Unfinished /\ ~Skippable /\ sec # 0
        /\ \E n \in 0 .. want : data' = Overwritten(n)
  /\ pc' = "stopped"
  /\ UNCHANGED <<size, gts, nextData, length, onDisk, call, pos, flushed, result>>

Returned ==
  /\ pc = "piece" /\ pos >= ChunkEnd(chunk)
  /\ written' = written \union {chunk}
  /\ pc' = "idle"
  /\ UNCHANGED <<size, gts, nextData, disk, source, chunk, pos, flushed, result>>

-----------------------------------------------------------------------------
(* Close. The caller closes at the end, on an error and when cancelled.    *)

Close ==
  /\ pc \in {"idle", "stopped"}
  /\ pc' = "flush"
  /\ UNCHANGED <<size, gts, nextData, disk, call, pos, flushed, result>>

FlushGT ==          \* writeAllGTs
  /\ pc = "flush" /\ flushed \in Tables
  /\ onDisk' = [onDisk EXCEPT ![flushed] = gts[flushed]]
  /\ flushed' = flushed + 1
  /\ UNCHANGED <<pc, size, gts, nextData, length, data, call, pos, result>>

Closed ==
  /\ pc = "flush" /\ flushed \notin Tables
  /\ pc' = "closed" /\ result' = "ok"
  /\ UNCHANGED <<size, gts, nextData, disk, call, pos, flushed>>

CloseFails ==
  /\ MayFail /\ pc = "flush"
  /\ pc' = "closed" /\ result' = "error"
  /\ UNCHANGED <<size, gts, nextData, disk, call, pos, flushed>>

Terminated == pc = "closed" /\ UNCHANGED vars

Step ==
  \/ SkipZeros \/ AllocateGrain \/ AllocateFails \/ TooFar \/ WriteGT
  \/ WriteData \/ WriteFails \/ Returned \/ FlushGT \/ Closed \/ CloseFails

Next == WriteAt \/ Close \/ Step \/ Terminated

Spec == Init /\ [][Next]_vars

-----------------------------------------------------------------------------
(* The hosted sparse reader on the file as it is: a grain without entry    *)
(* and a read past the end of the file give zeros, a sector below OverHead *)
(* gives header or tables.                                                 *)

Zero      == <<"zero", 0>>
\* What word w holds once it was written.
Wanted(w) == IF w \in source THEN <<"data", w>> ELSE Zero

ReadAt(w) ==
  LET g     == w \div grainWords
      entry == onDisk[g \div NumGTEsPerGT][g % NumGTEsPerGT]
      at    == entry * SectorWords + (w % grainWords)
      found == {d \in data : d[1] = at}
  IN  CASE entry = 0 -> Zero
        [] entry \in 1 .. OverHead - 1 -> <<"metadata", 0>>
        [] entry >= OverHead /\ found = {} -> Zero
        [] OTHER -> <<"data", (CHOOSE d \in found : TRUE)[2]>>

-----------------------------------------------------------------------------
(* Properties.                                                             *)

\* Whenever the program is killed, and after whatever call failed, every word
\* reads as zeros or as what was to be written there.
KilledIsSound == \A w \in Words : ReadAt(w) \in {Zero, Wanted(w)}

\* A chunk that WriteAt returned nil for is readable at once, before Close.
WrittenReadsBack ==
  \A k \in written : \A w \in ChunkData(k) : ReadAt(w) = Wanted(w)
=============================================================================
