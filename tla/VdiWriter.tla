------------------------------ MODULE VdiWriter ------------------------------
(***************************************************************************)
(* The dynamic VDI writer of internal/formats/vdi/writer.go, from Create   *)
(* to Close, and what Reader.ReadAt (reader.go) makes of the file it       *)
(* leaves, whole or killed half way.                                       *)
(*                                                                         *)
(* The file is a sequence of words of 4 bytes, the size of an entry of the *)
(* block table: <<"entry", e>>, <<"data", w>> for the data of guest word w *)
(* or Zero. Header, table and blocks are at the offsets the code computes, *)
(* so that an area that runs into another is seen to. The fields of the    *)
(* header that change are kept apart.                                      *)
(***************************************************************************)
EXTENDS Naturals, FiniteSets

CONSTANTS
  BlockWords,    \* words of a block
  HeaderWords,   \* BlocksOffset: the table follows the header
  AlignWords,    \* alignment of the data area (4096 bytes)
  OffsetLimit,   \* words that a uint32 offset can tell apart
  Size,          \* DiskSize
  ChunkWords,    \* length of a WriteAt call: the chunk size of the pipeline
  MaxWrites,     \* bound: WriteAt calls
  Sparse,        \* WriterOptions.Sparse
  MayFail        \* system calls may fail

ASSUME GeometryAssumption ==
  /\ BlockWords \in Nat \ {0} /\ HeaderWords \in Nat \ {0}
  /\ AlignWords \in Nat \ {0} /\ OffsetLimit \in Nat \ {0}
  /\ Size \in Nat \ {0} /\ ChunkWords \in Nat \ {0} /\ MaxWrites \in Nat
ASSUME FlagsAssumption == Sparse \in BOOLEAN /\ MayFail \in BOOLEAN

ceilDiv(x, y) == (x + y - 1) \div y
Least(x, y)   == IF x <= y THEN x ELSE y

Zero == <<"zero", 0>>

blocksInHDD == ceilDiv(Size, BlockWords)
BlockFree   == blocksInHDD     \* the number of no block: 0xFFFFFFFF in the code
Blocks      == 0 .. blocksInHDD - 1
Words       == 0 .. Size - 1
Table       == HeaderWords .. HeaderWords + blocksInHDD - 1

\* The data area follows the table, aligned; h.DataOffset is a uint32.
DataOffset == (ceilDiv(HeaderWords + blocksInHDD, AlignWords) * AlignWords) % OffsetLimit

BlockDataOffset(e) == DataOffset + e * BlockWords

VARIABLES
  pc,         \* the next statement of the method under way
  entries,    \* w.entries
  nextBlock,  \* w.nextBlock, always equal to w.allocatedCount
  file,       \* the words of the file
  allocated,  \* BlocksAllocated of the header in the file
  source,     \* the words the caller asked to write that are not zero
  written,    \* the chunks WriteAt has returned nil for
  chunk,      \* the chunk being written
  pos,        \* off + written of WriteAt
  cut,        \* history: blocks whose Truncate failed
  result      \* what Close returned

call == <<source, written, chunk>>
vars == <<pc, entries, nextBlock, file, allocated, call, pos, cut, result>>

\* The file as writeEntries leaves it.
WithEntries ==
  [i \in DOMAIN file \union Table |->
     IF i \in Table THEN <<"entry", entries[i - HeaderWords]>> ELSE file[i]]

Init ==             \* Create has returned: header and table are in the file
  /\ pc = "idle"
  /\ entries = [b \in Blocks |-> BlockFree] /\ nextBlock = 0
  /\ file = [i \in 0 .. HeaderWords + blocksInHDD - 1 |->
               IF i \in Table THEN <<"entry", BlockFree>> ELSE Zero]
  /\ allocated = 0
  /\ source = {} /\ written = {} /\ chunk = 0 /\ pos = 0 /\ cut = {}
  /\ result = "none"

-----------------------------------------------------------------------------
(* WriteAt.                                                                *)

Chunks       == 0 .. ceilDiv(Size, ChunkWords) - 1
ChunkEnd(k)  == Least((k + 1) * ChunkWords, Size)
ChunkData(k) == k * ChunkWords .. ChunkEnd(k) - 1

blockNo == pos \div BlockWords
inBlock == pos % BlockWords
want    == Least(ChunkEnd(chunk) - pos, BlockWords - inBlock)
Piece   == pos .. pos + want - 1

\* The caller writes every chunk at most once, in any order, and nothing after
\* an error.
WriteAt ==
  /\ pc = "idle" /\ Cardinality(written) < MaxWrites
  /\ \E k \in Chunks \ written, data \in SUBSET Words :
       /\ data \subseteq ChunkData(k)
       /\ source' = source \union data
       /\ chunk' = k /\ pos' = k * ChunkWords
  /\ pc' = "piece"
  /\ UNCHANGED <<entries, nextBlock, file, allocated, written, cut, result>>

Unfinished == pc = "piece" /\ pos < ChunkEnd(chunk)

Skippable ==
  Sparse /\ entries[blockNo] = BlockFree /\ inBlock = 0 /\ want = BlockWords
    /\ Piece \intersect source = {}

SkipZeros ==
  /\ Unfinished /\ Skippable
  /\ pos' = pos + want
  /\ UNCHANGED <<pc, entries, nextBlock, file, allocated, call, cut, result>>

\* Mutant: a block is given the place of the one allocated before it.
AllocateStuck ==
  /\ entries' = [entries EXCEPT ![blockNo] = IF nextBlock = 0 THEN 0 ELSE nextBlock - 1]
  /\ nextBlock' = nextBlock + 1

\* allocateBlock, up to the call of Truncate.
Allocate ==
  /\ entries' = [entries EXCEPT ![blockNo] = nextBlock]
  /\ nextBlock' = nextBlock + 1

NeedsBlock == Unfinished /\ ~Skippable /\ entries[blockNo] = BlockFree

AllocateBlock ==
  /\ NeedsBlock /\ Allocate
  /\ file' = [i \in 0 .. BlockDataOffset(nextBlock) + BlockWords - 1 |->
                IF i \in DOMAIN file THEN file[i] ELSE Zero]
  /\ UNCHANGED <<pc, allocated, call, pos, cut, result>>

\* Truncate failed: the entry stays in the table.
AllocateFails ==
  /\ MayFail /\ NeedsBlock /\ Allocate
  /\ cut' = cut \union {blockNo}
  /\ pc' = "stopped"
  /\ UNCHANGED <<file, allocated, call, pos, result>>

\* The file once the first n words of the piece are in their block.
Overwritten(n) ==
  LET at == BlockDataOffset(entries[blockNo]) + inBlock
  IN  [i \in DOMAIN file \union at .. at + n - 1 |->
         IF i \in at .. at + n - 1
         THEN LET w == pos + i - at IN IF w \in source THEN <<"data", w>> ELSE Zero
         ELSE file[i]]

HasBlock == Unfinished /\ entries[blockNo] # BlockFree

WriteData ==
  /\ HasBlock
  /\ file' = Overwritten(want)
  /\ pos' = pos + want
  /\ UNCHANGED <<pc, entries, nextBlock, allocated, call, cut, result>>

WriteFails ==
  /\ MayFail /\ HasBlock
  /\ \E n \in 0 .. want : file' = Overwritten(n)
  /\ pc' = "stopped"
  /\ UNCHANGED <<entries, nextBlock, allocated, call, pos, cut, result>>

Returned ==
  /\ pc = "piece" /\ pos >= ChunkEnd(chunk)
  /\ written' = written \union {chunk}
  /\ pc' = "idle"
  /\ UNCHANGED <<entries, nextBlock, file, allocated, source, chunk, pos, cut,
                 result>>

-----------------------------------------------------------------------------
(* Close. The caller closes at the end, on an error and when cancelled.    *)

\* Mutant: Close leaves the table as Create wrote it.
WriteEntriesSkipped ==
  /\ pc \in {"idle", "stopped"}
  /\ pc' = "header"
  /\ UNCHANGED <<entries, nextBlock, file, allocated, call, pos, cut, result>>

WriteEntries ==
  /\ pc \in {"idle", "stopped"}
  /\ file' = WithEntries
  /\ pc' = "header"
  /\ UNCHANGED <<entries, nextBlock, allocated, call, pos, cut, result>>

WriteHeader ==
  /\ pc = "header"
  /\ allocated' = nextBlock
  /\ pc' = "closed" /\ result' = "ok"
  /\ UNCHANGED <<entries, nextBlock, file, call, pos, cut>>

CloseFails ==       \* in the table, of which a part is written, or in the header
  /\ MayFail /\ pc \in {"idle", "stopped", "header"}
  /\ IF pc = "header" THEN file' = file
     ELSE \E n \in 0 .. blocksInHDD :
            file' = [i \in DOMAIN file |-> IF i < HeaderWords + n THEN WithEntries[i]
                                                                  ELSE file[i]]
  /\ pc' = "closed" /\ result' = "error"
  /\ UNCHANGED <<entries, nextBlock, allocated, call, pos, cut>>

Terminated == pc = "closed" /\ UNCHANGED vars

Step ==
  \/ SkipZeros \/ AllocateBlock \/ AllocateFails \/ WriteData \/ WriteFails
  \/ Returned \/ WriteHeader

Next == WriteAt \/ Step \/ WriteEntries \/ CloseFails \/ Terminated

Spec == Init /\ [][Next]_vars

-----------------------------------------------------------------------------
(* Reader.ReadAt of one word of the file as it is: its loop indexes the    *)
(* buffer out of range when a block ends before the file does.             *)

ReadAt(w) ==
  LET entry == file[HeaderWords + w \div BlockWords]
      at    == BlockDataOffset(entry[2]) + (w % BlockWords)
  IN  CASE entry = <<"entry", BlockFree>> -> Zero
        [] entry # <<"entry", BlockFree>> /\ at \in DOMAIN file -> file[at]
        [] OTHER -> <<"panic", 0>>

-----------------------------------------------------------------------------
(* Properties.                                                             *)

\* What word w holds once it was written.
Wanted(w) == IF w \in source THEN <<"data", w>> ELSE Zero

\* Whenever the program is killed the file reads as zeros or as what was to be
\* written there, whichever order the chunks come in; except, in a file that
\* was closed after the file could not be extended, for the block that lacks.
KilledIsSound ==
  \A w \in Words : w \div BlockWords \notin cut => ReadAt(w) \in {Zero, Wanted(w)}

\* When Close has returned nil, a reader finds everything that was written, and
\* the header counts the blocks of the table.
SealedReadsBack ==
  result = "ok" =>
    /\ \A k \in written : \A w \in ChunkData(k) : ReadAt(w) = Wanted(w)
    /\ allocated = Cardinality({i \in Table : file[i] # <<"entry", BlockFree>>})
=============================================================================
