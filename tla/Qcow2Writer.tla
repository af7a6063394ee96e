----------------------------- MODULE Qcow2Writer -----------------------------
(***************************************************************************)
(* The qcow2 writer of internal/formats/qcow2/writer.go, from Create to    *)
(* Close, and what Reader.ReadAt (reader.go) and CheckFile (check.go) make *)
(* of the file it leaves, whole or killed half way.                        *)
(*                                                                         *)
(* The file is a sequence of clusters of EntriesPerL2 words of 8 bytes: a  *)
(* word is an entry of a table (the number of a cluster, 0 for none) or 8  *)
(* bytes of guest data (0 for zeros, w+1 for the data of guest word w). A  *)
(* cluster used for two things is thus seen to be overwritten. The         *)
(* refcount table and blocks are kept apart, as the clusters counted.      *)
(***************************************************************************)
EXTENDS Naturals, FiniteSets

CONSTANTS
  EntriesPerL2,  \* clusterSize / 8: entries of a table, words of a cluster
  Sizes,         \* virtual sizes Create may be called with, in words
  ChunkWords,    \* length of a WriteAt call: the chunk size of the pipeline
  MaxWrites,     \* bound: WriteAt calls
  Sparse,        \* WriterOptions.Sparse
  MayFail        \* system calls may fail

ASSUME GeometryAssumption ==
  /\ EntriesPerL2 \in Nat \ {0} /\ ChunkWords \in Nat \ {0} /\ MaxWrites \in Nat
  /\ Sizes \subseteq Nat \ {0}
ASSUME FlagsAssumption == Sparse \in BOOLEAN /\ MayFail \in BOOLEAN

VARIABLES
  pc,         \* the next statement of the method under way
  size,       \* h.Size, in words
  blocks,     \* refcountBlockCount
  nextOff,    \* in clusters
  l1,         \* w.l1
  l2cache,    \* w.l2cache: a function from the indices cached to tables
  file,       \* the clusters of the file
  counted,    \* clusters whose refcount in the file is 1
  source,     \* what the caller asked to write, up to now
  written,    \* the chunks WriteAt has returned nil for
  chunk,      \* the chunk being written
  pos,        \* off + written of WriteAt
  off,        \* the cluster in hand
  unflushed,  \* flushAllL2: tables not flushed yet
  result      \* what Create or Close returned

tables == <<nextOff, l1, l2cache, counted>>
call   == <<source, written, chunk, pos, off, unflushed>>
vars   == <<pc, size, blocks, tables, file, call, result>>

-----------------------------------------------------------------------------
(* Geometry.                                                               *)

ceilDiv(x, y) == (x + y - 1) \div y
Min2(x, y)    == IF x <= y THEN x ELSE y

Entries  == 0 .. EntriesPerL2 - 1
Words    == 0 .. size - 1
Zeros    == [i \in Entries |-> 0]

l1Size          == ceilDiv(size, EntriesPerL2 * EntriesPerL2)
l1Clusters      == ceilDiv(l1Size, EntriesPerL2)
dataClustersMax == ceilDiv(size, EntriesPerL2)
l2ClustersMax   == ceilDiv(dataClustersMax, EntriesPerL2)

\* A refcount is two bytes, an entry of a table eight.
refcountBlockEntries     == 4 * EntriesPerL2
refcountTableClusters(b) == ceilDiv(b, EntriesPerL2)
\* Mutant: the clusters of the L2 tables are not counted in.
totalClustersMaxNoL2(b) ==
  1 + refcountTableClusters(b) + b + l1Clusters + dataClustersMax
totalClustersMax(b) ==
  1 + refcountTableClusters(b) + b + l1Clusters + l2ClustersMax + dataClustersMax

\* Mutant: the refcount blocks do not count themselves.
newRefcountBlockCountNoSelf(b) ==
  ceilDiv(totalClustersMax(b) - b, refcountBlockEntries)
newRefcountBlockCount(b) == ceilDiv(totalClustersMax(b), refcountBlockEntries)

\* Clusters that have a refcount.
Capacity == blocks * refcountBlockEntries
l1Start  == 1 + refcountTableClusters(blocks) + blocks
FirstOff == l1Start + l1Clusters       \* the first cluster left to allocate

-----------------------------------------------------------------------------
(* Create.                                                                 *)

Init ==
  /\ pc = "geometry" /\ size \in Sizes /\ blocks = 1
  /\ nextOff = 0 /\ l1 = <<>> /\ l2cache = <<>>
  /\ file = <<>> /\ counted = {}
  /\ source = [w \in Words |-> 0] /\ written = {}
  /\ chunk = 0 /\ pos = 0 /\ off = 0 /\ unflushed = {}
  /\ result = "none"

GrowRefcounts ==    \* another turn of the loop that sizes the refcount area
  /\ pc = "geometry" /\ newRefcountBlockCount(blocks) # blocks
  /\ blocks' = newRefcountBlockCount(blocks)
  /\ UNCHANGED <<pc, size, tables, file, call, result>>

\* Truncate the file, write header, backing name, refcount table, zeroed
\* refcount blocks and L1 table, and count the clusters they take.
Format ==
  /\ pc = "geometry" /\ newRefcountBlockCount(blocks) = blocks
  /\ FirstOff <= Capacity
  /\ nextOff' = FirstOff
  /\ file' = [c \in 0 .. FirstOff - 1 |-> Zeros]
  /\ counted' = 0 .. FirstOff - 1
  /\ l1' = [i \in 0 .. l1Size - 1 |-> 0]
  /\ pc' = "idle"
  /\ UNCHANGED <<size, blocks, l2cache, call, result>>

CreateFails ==
  /\ pc = "geometry" /\ newRefcountBlockCount(blocks) = blocks
  /\ MayFail \/ FirstOff > Capacity
  /\ pc' = "closed" /\ result' = "create_error"
  /\ UNCHANGED <<size, blocks, tables, file, call>>

-----------------------------------------------------------------------------
(* WriteAt.                                                                *)

Chunks       == 0 .. ceilDiv(size, ChunkWords) - 1
ChunkEnd(k)  == Min2((k + 1) * ChunkWords, size)     \* trimmed to the size
ChunkData(k) == k * ChunkWords .. ChunkEnd(k) - 1

\* The part of the chunk that falls in the cluster at pos.
want       == Min2(ChunkEnd(chunk) - pos, EntriesPerL2 - (pos % EntriesPerL2))
Piece      == pos .. pos + want - 1
clusterIdx == pos \div EntriesPerL2
l1Idx      == clusterIdx \div EntriesPerL2
l2Idx      == clusterIdx % EntriesPerL2

\* The caller writes every chunk at most once, in any order, and nothing after
\* an error.
WriteAt ==
  /\ pc = "idle" /\ Cardinality(written) < MaxWrites
  /\ \E k \in Chunks \ written, data \in SUBSET Words :
       /\ data \subseteq ChunkData(k)
       /\ source' = [w \in Words |-> IF w \in data THEN w + 1 ELSE source[w]]
       /\ chunk' = k /\ pos' = k * ChunkWords
  /\ pc' = "piece"
  /\ UNCHANGED <<size, blocks, tables, file, written, off, unflushed, result>>

Skippable == Sparse /\ pos % EntriesPerL2 = 0 /\ want = EntriesPerL2
             /\ \A w \in Piece : source[w] = 0

\* Mutant: continue without moving on.
SkipZerosStuck ==
  /\ pc = "piece" /\ pos < ChunkEnd(chunk) /\ Skippable
  /\ UNCHANGED vars

SkipZeros ==
  /\ pc = "piece" /\ pos < ChunkEnd(chunk) /\ Skippable
  /\ pos' = pos + want
  /\ UNCHANGED <<pc, size, blocks, tables, file, source, written, chunk, off,
                 unflushed, result>>

Returned ==
  /\ pc = "piece" /\ pos >= ChunkEnd(chunk)
  /\ written' = written \union {chunk}
  /\ pc' = "idle"
  /\ UNCHANGED <<size, blocks, tables, file, source, chunk, pos, off, unflushed,
                 result>>

\* ensureL2: the table is cached, to be cached, or to be allocated first.
FindL2 ==
  /\ pc = "piece" /\ pos < ChunkEnd(chunk) /\ ~Skippable
  /\ pc' = CASE l1Idx \in DOMAIN l2cache -> "entry"
             [] l1Idx \notin DOMAIN l2cache /\ l1[l1Idx] = 0 -> "alloc_l2"
             [] OTHER -> "cache_l2"
  /\ UNCHANGED <<size, blocks, tables, file, call, result>>

\* Mutant: allocCluster hands out the cluster it handed out before.
AllocClusterStuck ==
  /\ pc \in {"alloc_l2", "alloc_data"}
  /\ off' = nextOff
  /\ file' = [c \in DOMAIN file \union {nextOff} |->
                IF c \in DOMAIN file THEN file[c] ELSE Zeros]
  /\ pc' = IF pc = "alloc_l2" THEN "count_l2" ELSE "count_data"
  /\ UNCHANGED <<size, blocks, nextOff, l1, l2cache, counted, source, written,
                 chunk, pos, unflushed, result>>

AllocCluster ==     \* nextOff moves on, then the file is extended up to it
  /\ pc \in {"alloc_l2", "alloc_data"}
  /\ off' = nextOff /\ nextOff' = nextOff + 1
  /\ file' = [c \in DOMAIN file \union {nextOff} |->
                IF c \in DOMAIN file THEN file[c] ELSE Zeros]
  /\ pc' = IF pc = "alloc_l2" THEN "count_l2" ELSE "count_data"
  /\ UNCHANGED <<size, blocks, l1, l2cache, counted, source, written, chunk,
                 pos, unflushed, result>>

\* Mutant: the clusters of L2 tables are not counted.
SetRefcountOfData ==
  /\ pc \in {"count_l2", "count_data"} /\ off < Capacity
  /\ counted' = IF pc = "count_data" THEN counted \union {off} ELSE counted
  /\ pc' = IF pc = "count_l2" THEN "zero_l2" ELSE "zero_data"
  /\ UNCHANGED <<size, blocks, nextOff, l1, l2cache, file, call, result>>

SetRefcount ==
  /\ pc \in {"count_l2", "count_data"} /\ off < Capacity
  /\ counted' = counted \union {off}
  /\ pc' = IF pc = "count_l2" THEN "zero_l2" ELSE "zero_data"
  /\ UNCHANGED <<size, blocks, nextOff, l1, l2cache, file, call, result>>

ZeroL2 ==           \* writeZeroCluster, then the entry of l1 (in memory only)
  /\ pc = "zero_l2"
  /\ file' = [file EXCEPT ![off] = Zeros]
  /\ l1' = [l1 EXCEPT ![l1Idx] = off]
  /\ pc' = "cache_l2"
  /\ UNCHANGED <<size, blocks, nextOff, l2cache, counted, call, result>>

CacheL2 ==
  /\ pc = "cache_l2"
  /\ l2cache' = [i \in DOMAIN l2cache \union {l1Idx} |->
                   IF i = l1Idx THEN Zeros ELSE l2cache[i]]
  /\ pc' = "entry"
  /\ UNCHANGED <<size, blocks, nextOff, l1, counted, file, call, result>>

\* ensureDataCluster.
FindData ==
  /\ pc = "entry"
  /\ LET e == l2cache[l1Idx][l2Idx] IN
       IF e # 0 THEN off' = e /\ pc' = "data"
                ELSE pc' = "alloc_data" /\ UNCHANGED off
  /\ UNCHANGED <<size, blocks, tables, file, source, written, chunk, pos,
                 unflushed, result>>

ZeroData ==
  /\ pc = "zero_data"
  /\ file' = [file EXCEPT ![off] = Zeros]
  /\ l2cache' = [l2cache EXCEPT ![l1Idx][l2Idx] = off]
  /\ pc' = "flush_l2"
  /\ UNCHANGED <<size, blocks, nextOff, l1, counted, call, result>>

FlushL2 ==
  /\ pc = "flush_l2"
  /\ file' = [file EXCEPT ![l1[l1Idx]] = l2cache[l1Idx]]
  /\ pc' = "data"
  /\ UNCHANGED <<size, blocks, tables, call, result>>

\* The cluster c after the first n words of the piece were written to it.
Overwritten(c, n) ==
  [i \in Entries |->
     LET w == clusterIdx * EntriesPerL2 + i
     IN  IF w \in pos .. pos + n - 1 THEN source[w] ELSE file[c][i]]

\* Mutant: the piece goes to the start of the cluster.
WriteDataAtStart ==
  /\ pc = "data"
  /\ file' = [file EXCEPT ![off] =
                [i \in Entries |-> IF i < want THEN source[pos + i] ELSE @[i]]]
  /\ pos' = pos + want
  /\ pc' = "piece"
  /\ UNCHANGED <<size, blocks, tables, source, written, chunk, off, unflushed,
                 result>>

\* Mutant: the loop goes on with the next cluster, wherever the chunk ends.
WriteDataWholeCluster ==
  /\ pc = "data"
  /\ file' = [file EXCEPT ![off] = Overwritten(off, want)]
  /\ pos' = pos + EntriesPerL2
  /\ pc' = "piece"
  /\ UNCHANGED <<size, blocks, tables, source, written, chunk, off, unflushed,
                 result>>

WriteData ==
  /\ pc = "data"
  /\ file' = [file EXCEPT ![off] = Overwritten(off, want)]
  /\ pos' = pos + want
  /\ pc' = "piece"
  /\ UNCHANGED <<size, blocks, tables, source, written, chunk, off, unflushed,
                 result>>

\* An error return of WriteAt: a call failed, having written a part of the
\* piece at most, or the cluster has no refcount.
WriteFails ==
  /\ \/ MayFail /\ pc \in {"alloc_l2", "count_l2", "zero_l2", "alloc_data",
                          "count_data", "zero_data", "flush_l2", "data"}
     \/ pc \in {"count_l2", "count_data"} /\ off >= Capacity
  /\ nextOff' = IF pc \in {"alloc_l2", "alloc_data"} THEN nextOff + 1 ELSE nextOff
  /\ IF pc = "data" THEN \E n \in 0 .. want :
                           file' = [file EXCEPT ![off] = Overwritten(off, n)]
                    ELSE file' = file
  /\ pc' = "stopped"
  /\ UNCHANGED <<size, blocks, l1, l2cache, counted, call, result>>

-----------------------------------------------------------------------------
(* Close.                                                                  *)

Close ==        \* the caller closes at the end, on an error and when cancelled
  /\ pc \in {"idle", "stopped"}
  /\ unflushed' = DOMAIN l2cache
  /\ pc' = "flush_all"
  /\ UNCHANGED <<size, blocks, tables, file, source, written, chunk, pos, off,
                 result>>

FlushOne ==     \* in the order of a map: any
  /\ pc = "flush_all"
  /\ \E i \in unflushed :
       /\ file' = [file EXCEPT ![l1[i]] = l2cache[i]]
       /\ unflushed' = unflushed \ {i}
  /\ UNCHANGED <<pc, size, blocks, tables, source, written, chunk, pos, off,
                 result>>

\* Mutant: Close does not write the L1 table.
WriteL1Skipped ==
  /\ pc = "flush_all" /\ unflushed = {}
  /\ pc' = "header"
  /\ UNCHANGED <<size, blocks, tables, file, call, result>>

WriteL1 ==
  /\ pc = "flush_all" /\ unflushed = {}
  /\ file' = [c \in DOMAIN file |->
                IF c \in l1Start .. FirstOff - 1
                THEN [i \in Entries |->
                        LET n == (c - l1Start) * EntriesPerL2 + i
                        IN  IF n < l1Size THEN l1[n] ELSE 0]
                ELSE file[c]]
  /\ pc' = "header"
  /\ UNCHANGED <<size, blocks, tables, call, result>>

\* The header and the backing name are those that Create wrote.
Closed ==
  /\ pc = "header"
  /\ pc' = "closed" /\ result' = "ok"
  /\ UNCHANGED <<size, blocks, tables, file, call>>

CloseFails ==
  /\ MayFail /\ pc \in {"flush_all", "header"}
  /\ pc' = "closed" /\ result' = "error"
  /\ UNCHANGED <<size, blocks, tables, file, call>>

Terminated == pc = "closed" /\ UNCHANGED vars

Step ==
  \/ GrowRefcounts \/ Format \/ CreateFails
  \/ SkipZeros \/ Returned \/ FindL2 \/ AllocCluster \/ SetRefcount
  \/ ZeroL2 \/ CacheL2 \/ FindData \/ ZeroData \/ FlushL2 \/ WriteData \/ WriteFails
  \/ FlushOne \/ WriteL1 \/ Closed \/ CloseFails

Next == WriteAt \/ Close \/ Step \/ Terminated

Spec == Init /\ [][Next]_vars

\* A method that was called runs on; the caller may never call.
FairSpec == Spec /\ WF_vars(Step)

-----------------------------------------------------------------------------
(* What the other parts of the package find in the file.                   *)

\* A read past the end of the file finds zeros (io.EOF is ignored).
At(c, i) == IF c \in DOMAIN file THEN file[c][i] ELSE 0

L1Entry(i) == At(l1Start + i \div EntriesPerL2, i % EntriesPerL2)

\* Reader.ReadAt of one word, by way of lookupCluster; no backing file.
ReadAt(w) ==
  LET cluster == w \div EntriesPerL2
      l2      == L1Entry(cluster \div EntriesPerL2)
      data    == At(l2, cluster % EntriesPerL2)
  IN  IF l2 = 0 \/ data = 0 THEN 0 ELSE At(data, w % EntriesPerL2)

\* CheckFile finds nothing wrong: what the tables refer to is in the file.
CheckFile ==
  \A i \in 0 .. l1Size - 1 : L1Entry(i) # 0 =>
    /\ L1Entry(i) \in DOMAIN file
    /\ \A j \in Entries : file[L1Entry(i)][j] # 0 => file[L1Entry(i)][j] \in DOMAIN file

-----------------------------------------------------------------------------
(* Properties.                                                             *)

Created == result # "create_error" /\ pc # "geometry"

TypeOK ==
  /\ pc \in {"geometry", "idle", "piece", "alloc_l2", "count_l2", "zero_l2",
             "cache_l2", "entry", "alloc_data", "count_data", "zero_data",
             "flush_l2", "data", "stopped", "flush_all", "header", "closed"}
  /\ size \in Sizes /\ blocks \in Nat \ {0} /\ nextOff \in Nat
  /\ counted \subseteq Nat
  /\ DOMAIN l2cache \subseteq 0 .. l1Size - 1
  /\ \A i \in DOMAIN l2cache : l2cache[i] \in [Entries -> Nat]
  /\ Created => l1 \in [0 .. l1Size - 1 -> Nat]
  /\ Created => FirstOff <= nextOff
  /\ Created => DOMAIN file \in {0 .. nextOff - 1, 0 .. nextOff - 2}
  /\ \A c \in DOMAIN file : file[c] \in [Entries -> Nat]
  /\ source \in [Words -> 0 .. size] /\ written \subseteq Chunks
  /\ pos \in 0 .. size /\ off \in Nat
  /\ unflushed \subseteq DOMAIN l2cache
  /\ result \in {"none", "create_error", "ok", "error"}

L2Clusters  == {l1[i] : i \in DOMAIN l1} \ {0}
DataEntries == {e \in (DOMAIN l2cache) \X Entries : l2cache[e[1]][e[2]] # 0}

\* No cluster is used twice: not for two L2 tables, not for the data of two
\* guest clusters, not for a table and data, never for the metadata; and a
\* cached table has a place to be flushed to.
NoSharing ==
  /\ \A i, j \in DOMAIN l1 : l1[i] = l1[j] /\ l1[i] # 0 => i = j
  /\ \A d, e \in DataEntries :
       l2cache[d[1]][d[2]] = l2cache[e[1]][e[2]] => d = e
  /\ \A c \in L2Clusters : c \in FirstOff .. nextOff - 1
  /\ \A e \in DataEntries :
       l2cache[e[1]][e[2]] \in (FirstOff .. nextOff - 1) \ L2Clusters
  /\ \A i \in DOMAIN l2cache : l1[i] # 0

InUse == (0 .. FirstOff - 1) \union L2Clusters
           \union {l2cache[e[1]][e[2]] : e \in DataEntries}

\* A cluster in use is counted, at every step; and when nothing failed, Close
\* leaves no cluster counted that is not in use.
RefcountsRight ==
  Created =>
    /\ InUse \subseteq counted
    /\ result = "ok" /\ Cardinality(written) = Cardinality(Chunks) => counted = InUse

\* The refcount area that Create lays out has room for every cluster a full
\* image may come to use.
RefcountsFit ==
  Created => FirstOff + l2ClustersMax + dataClustersMax <= Capacity

\* A writer that meets no error never runs out of refcounts.
NeverFull == pc \in {"count_l2", "count_data"} => off < Capacity

\* Whenever the program is killed the file is a sound image, whose words are
\* zeros or what was to be written there.
KilledIsSound ==
  Created => CheckFile /\ \A w \in Words : ReadAt(w) \in {0, source[w]}

\* When Close has returned nil, a reader finds everything that was written.
SealedReadsBack ==
  result = "ok" =>
    \A k \in written : \A w \in ChunkData(k) : ReadAt(w) = source[w]

\* Create ends its search for the size of the refcount area, and a WriteAt or a
\* Close that was called returns.
EveryCallReturns == []<>(pc \in {"idle", "stopped", "closed"})
=============================================================================
