# imgconv in TLA+

TLA+ models of `imgconv`, a Go library and command line that converts, creates,
checks, compares, rebases and commits disk images in the formats raw, qcow2,
VDI and VMDK. The modules model the parts whose correctness depends on order:
the concurrent conversion, the crash-safe commit, the writers that must leave a
sound file wherever they stop, the rebase that edits a header in place, and the
readers, streams and comparisons that work piece by piece. TLC checks them on
small instances; what the properties say of safety TLAPS proves for every size.

Every definition that models code is listed in `PROJECT.json` under `map`, with
the lines it stands for.

## The system

| component | state | operations | who it talks to |
|---|---|---|---|
| `internal/pipeline/convert_range.go` | channels `jobs`, `writes`, `errCh`; a `sync.Pool`; a context; a byte counter | `ConvertRange` | starts a dispatcher, N workers, one writer and a progress goroutine; reads a `RangeReader` concurrently, writes a `RangeWriter` from one goroutine |
| `internal/pipeline/stream_raw.go` | an offset | `ConvertToRawWriter` | the sequential sibling, to an `io.Writer` |
| `internal/pipeline/verify.go`, `internal/ops/compare.go` | two buffers | `VerifyRange`, `CompareReaders` | two readers |
| `internal/ops/commit.go` | files and directories | `CommitQCOW2Overlay` | the file system, a qcow2 chain, a writer, the comparison |
| `internal/formats/qcow2/writer.go` | L1 table, cache of L2 tables, next offset | `Create`, `WriteAt`, `Close` | the file |
| `internal/formats/qcow2/reader.go`, `check.go` | L1 table, backing reader | `Open`, `ReadAt`, `CheckFile` | the file, any reader as the backing image |
| `internal/formats/vdi` | block table, next block | `Create`, `WriteAt`, `Close`; `Open`, `ReadAt` | the file |
| `internal/formats/vmdk/writer.go`, `sparse.go` | grain tables, next sector | `Create`, `WriteAt`, `Close`; `ReadAt` | the file |
| `internal/formats/vmdk/extent.go`, `flat.go`, `stream.go`, `reader.go` | spans | `OpenRange`, `ReadAt` | several files |
| `internal/formats/vmdk/stream_scan.go`, `stream_payload.go`, `stream.go` | a map of grains | `openStreamOptimizedExtent`, `ReadAt` | one file |
| `internal/formats/qcow2/{rebase,header}.go` | the first cluster of a file | `RebasePath` | the file; `Open` finds what it left |
| `internal/formats/qcow2/{map,measure}.go` | none | `MapFile`, `Measure` | the reader's lookup; the layout of `Create` |
| `pkg/imgconv/convert.go` | none | `Convert`, `ConvertToRawWriter` | `ConvertRange`, then `VerifyRange` |
| `internal/image`, the rest of `pkg/imgconv`, `cmd/imgconv` | none | dispatch on the format, argument checks, messages | all of the above |

What is hard in it: a buffer changes hands between goroutines while errors and
cancellation may stop any of them; two renames in two directories have to look
like one to whoever comes after a crash; a writer that is killed has written
data and not the tables, or the reverse; and every reader has its own idea of
when to return `io.EOF`. The hazards are listed with their lines and the
properties that cover them in `PROJECT.json`.

## Modules

`MC<name>.tla` instantiates `<name>.tla` for TLC. A `\* Mutant:` comment marks an
operator that no specification uses: it is a plausible bug in the definition
that follows it, kept to show that a property would find it.

### ConvertRange, ImageCopy: the concurrent copy

One action per step of a goroutine between two points where another may run:
receiving from a channel, the context check, `ReadAt`, sending, `WriteAt`,
counting, and both halves of `setErr` (the send on `errCh` and the `cancel()`
that follows). Channels are sequences with the capacities of the code
(`Threads*4`, `Threads*2`; any capacities in the model), a `select` is a choice
between the enabled actions, `close` a flag. A chunk is a number, the bytes of a
buffer the chunk they were read from and whether all of it was read. `ReadAt`
may give all, a part, nothing or an error; `WriteAt` may fail having written a
part; the caller may cancel at any moment; zero chunks are elided when the
output is a sparse raw file. The deferred calls run in their order: cancel, close
of `doneCh`, `outClose`. The progress goroutine may report at any tick, which
covers whatever the throttling of `progress.go` lets through, and reports a last
time when `doneCh` is closed.

`ImageCopy` is what a caller may rely on: chunks are copied once each, in any
order, until the copy finishes, fails or is interrupted; an error is returned
exactly if something failed. `ImplementsImageCopy` is the refinement
(`INSTANCE ImageCopy WITH ...`): a chunk that held bytes from elsewhere would have no
abstract counterpart.

### Commit: folding an overlay into its backing file

One action per system call of `CommitQCOW2Overlay`, with its error return. The
file system is the external part. A directory is the set of states a crash may
leave it in (`onDisk`), which grows with each change and is cut to the present
one by `syncDir`; a file that was not synced may be torn by a crash. Overlay and
backing file may be in two directories that reach the disk independently. After
a crash or an error the operation may be called again, finding what the last
call left. The content of a file is one cell for each block of the guest: `hole`
(read from below), `zero`, the old backing file's data or the overlay's.

`ViewPreserved` is the central property: in every state, those a crash leaves
included, the chain opens and the guest finds the disk it had. It holds because
the new backing file, synced and compared, shows the same disk under the old
overlay as under the empty one, and because the first rename is durable before
the overlay is replaced.

### Qcow2Writer, VdiWriter, VmdkWriter: the writers

From `Create` to `Close`, one action per system call or decision. Sizes, offsets
and table indices are computed as in the code on clusters, blocks or grains of
a few words; a file is an array of words, so that two uses of one place show as
wrong data and not as an assumption. Each word of guest data has a value of its
own. The caller is the pipeline or the commit: chunks of one length, each
written at most once, in any order, nothing after an error, and `Close` in
every case. Every system call may fail, a write after a part.

The reader of the format is an operator (`ReadAt`) on the file as it is at any
moment, with which the properties are stated: `KilledIsSound` (killed anywhere,
a word is zero or what was to be written there, and for qcow2 `CheckFile` finds
nothing), `SealedReadsBack` or `WrittenReadsBack` (for VDI with the counts of
the header), `NoSharing` and `RefcountsRight` for clusters.

`Measure` extends `Qcow2Writer` with `measure.go`, which computes the layout of an
image in code of its own. `MeasureForetells` relates the two: the refcount area
is the one that `Create` lays out, the file never grows past what was told, and
an image written in full takes all of it.

### Rebase, Qcow2Map, Qcow2Reader: a qcow2 chain

`Rebase` has the first cluster of a file in units of 36 bytes, which are what the
headers of version 2 (72 bytes) and 3 (104, rounded up) and the names are told
apart by, and one action per write of `RebasePath`. A write may fail or be the
last with any part of it done; the header is written whole or not at all. Then
another process opens the image, finds the name that the fields of the header
lead to, and reads through the chain: `OpenChain` starts the `ReadAt` of
`Qcow2Reader`, in which one action is a turn of the loop, over every mix of clusters (stored,
compressed, zero, unallocated) and every request. `StoppedOpensOn` states what a stopped rebase may
leave behind: the old backing file, the new one, or what a piece of the new name leads to, since the
old length stays until the header is written; never a mixture of letters.

The backing image is any that `openBackingAny` opens, told by what its reader makes of
it (`BackingImage`): a size, the words before which a call stops, and the words that no call
gives. A VMDK has both: `readAcrossSpans` returns fewer words with `io.EOF` at the
end of a flat extent, and none where a flat file is shorter than its line of the
descriptor (`VmdkSpans` has the details). `nBacking` is then the number of words that one
call gives, and `ReadBackingShort` what reader.go:162-172 makes of too few: it
zeroes words by an index that is off by them, or panics. `WrongOnlyAtStops` tells
all that this spoils: a word that a read gets wrong is a zero at most a cluster ahead of a
stop, and a panic comes from a stop less than a cluster into the request.
That a read is right wherever the backing image has the words (`ReadsGuest`) is what the
code should hold and does not, as the table of changes to the runs below shows. Reads of
words that are there return (`CoveredReturns`), others spin.

`Qcow2Map` is `MapFile` on the same images: `MapTellsReads` compares the extents
it reports with what each word of a read came from, but for words zeroed ahead of a stop.

### VmdkSpans, RawStream: extents, and the sequential copy over them

`VmdkSpans` is `readAcrossSpans`: one action per extent that is read, over every
list of extents, of every kind and length, with a file that may be shorter than
its line of the descriptor. A sector reads as the pair of its extent and position.
`RawStream` is `ConvertToRawWriter` over that reader (and, with `chunkSize = 0`,
the reader alone): reads that stop short, writes that take a part or nothing,
errors and cancellation between the turns. What must hold is
`StreamFaithful`, that the writer took a prefix of the image, and `StreamComplete`, that
nil means all of it, unless an extent is shorter than its line.

### StreamOptimized: opening and reading a marker stream

The scan from marker to marker, the map from grains to the last payload that
holds them, and `ReadAt` over that map. What a sector holds is chosen when the scan
reaches it, so that every stream of the size is covered, with wrong lengths,
counts that overflow, grains out of line and grains that come twice. A payload is what
`readPayload` tells apart: its size, whether it begins like zlib, and what inflating it
gives; and what its writer meant by it. `Ambiguous` names the payloads that no
reader could tell from one of the other kind, a corrupt one among them that does not
look like compressed data. The variables are not named like those of `VmdkSpans`
(`scanned` is `off` of the scan; `buffer`, `given` and `failure` are `p`, `read` and
`err` of `ReadAt`), so that both can be reasoned about in one module.

### Compare, Convert: comparison, and a conversion that is verified

`Compare` is the algorithm that `verify.go` and `compare.go` share, in both modes, for every
pair of images over two values: sizes compared first, then chunk by chunk with
both buffers kept. The breaks of a reader are the places where it stops inside
of a request, as `VmdkSpans` shows a multi-extent VMDK to do. What a reader did
not give is compared as an earlier chunk left it, so that `Verdict` speaks of
the words that both readers gave.

`Convert` composes it with the copy. Of `ConvertRange` it takes the actions of `ImageCopy`,
which `ConvertRange` is shown to implement, so that a cancelled copy returns nil with chunks
missing, and a chunk in which the source stops is copied in part. The output that is
verified may be larger (a VMDK is rounded up to sectors) and may have lost what
a `Close` that failed did not write. `ConvertVerdict`: a conversion that returns nil
after a full verification holds every word that the source gives.

## Runs

| run | instance | what it shows |
|---|---|---|
| `ConvertRangeAll` | 2 workers, 4 chunks, 4 buffers, channels of capacity 1; every read may fail, one be short or empty, one chunk be zeros and elided, fair | `BufferExclusive`, `Faithful`, `NoSendOnClosed`, `DoneNotAhead`, `FinalReport`, `ImplementsImageCopy`, `EventuallyAllReturned` |
| `CommitTwoDirs` | 2 blocks, 2 directories, failures, crashes, 2 calls | `ViewPreserved`, `OKIsDurable`, `MarkerCovers` |
| `Qcow2WriterAll` | 2 entries per table, sizes of 1 to 8 words, chunks of 3, 3 writes, failures, fair | `NoSharing`, `RefcountsRight`, `RefcountsFit`, `NeverFull`, `KilledIsSound`, `SealedReadsBack`, `MeasureForetells`, `EveryCallReturns` |
| `Qcow2ReaderAll` | a first cluster of 7 units, headers of 3 and 4, names of up to 5 letters, 2 rebases; then clusters of 3 words, an image of 7, backing images of 0 to 8 words, of one piece, of several extents and cut short, fair | `NewNameReadsBack`, `StoppedOpensOn`, `WrongOnlyAtStops`, `MapTellsReads`, `CoveredReturns` |
| `VdiWriterAll` | blocks of 2 words, 7 words, chunks of 3, 3 writes, failures | `KilledIsSound`, `SealedReadsBack` |
| `VmdkWriterAll` | grains of 2 words, 2 entries per table, 7 words, sector numbers that run out | `KilledIsSound`, `WrittenReadsBack` |
| `VmdkSpansAll` | 1 or 2 extents of up to 3 sectors, all kinds; every read, and every stream with chunks of 1, 2 and 4, fair | `SpansContract`, `StreamFaithful`, `StreamComplete`, `StreamReturns` |
| `StreamOptimizedAll` | files of 3 and 6 sectors, grains of 2, a disk of 3; 10 payloads, counts of 0, 1 and one that overflows | `OpenedIsWhole`, `ReadsLast` |
| `CompareAll` | pairs of images of 3 and 5 words, and conversions of 5; chunks of 2, 2 samples, one break in each reader, cancellation, a lost `Close` | `Verdict`, `SamplesDistinct`, `ConvertVerdict` |

`ConvertRangeAll`, `CommitTwoDirs`, `Qcow2WriterAll` and `Qcow2ReaderAll` check the
`TypeOK` of their module too, on which the proofs build.

Why the bounds are enough. Two workers are the least that race. The capacities of
the channels are 1 and not 8 and 4, the code's for two workers, so that four chunks
fill them in both of the ways a deadlock could come about: the writer stops on
an error, with a chunk in `writes` and both workers waiting to send theirs; both
workers stop, with a chunk in `jobs` and the dispatcher waiting to send the last. With
fewer chunks, or the code's capacities, nobody would wait. Four buffers are
one for each chunk, so that a worker never waits for the pool, as in the code. Chunks of 3 words over
clusters, blocks and grains of 2 make every position occur: a piece that starts
or ends inside of a cluster, a whole cluster, a cluster written by two chunks, a
short last cluster; 7 words are 4 clusters and thus two L2 or grain tables, and
three chunks fill an image of 8. The sizes up to 8 words take one and two
refcount blocks. The reader's clusters are of 3 words, so that a stop leaves more to
zero than was read before it: that is when data of an earlier piece is zeroed, or the index
is below 0; 7 words are two whole clusters and a short one. Two calls of commit are a first one and a retry over what a
crash or an error left; a crash may come at any step of either and after it. Two
rebases are one onto a name that is longer, shorter or the start of another, over what the
first one or its failure left. Two extents have one boundary, with a chunk
that ends before it, at it and across it; six sectors of a stream hold a grain
twice with another one in between and the end marker; an image of 5 words
in chunks of 2 has a first, a middle and a short last chunk. The
proofs hold for every size.

Runs that end in a violation show where the code departs from what the
repository says of it; each checks one property, and `PROJECT.json` quotes the
lines under `findings`:

| run | what happens |
|---|---|
| `ConvertRangeCancel` | a cancelled conversion may return nil with chunks missing |
| `ConvertVerified` | a source whose reader stops inside of a chunk is copied in part, and its full verification passes |
| `RebaseVersion2` | on an image of version 2 the header overwrites the start of the new backing name |

Where a property or a run has a precondition, the code does not do without. To
see that, change a run:

| change | what TLC then shows |
|---|---|
| `ConvertRangeCancel` with the invariant `NilMeansSealed`, `OutputMayFail = TRUE`, `CallerMayCancel = FALSE` | it fails: an error of closing the output is dropped (convert_range.go:96) |
| `ConvertRangeCancel` with `CallerMayCancel = FALSE`, `ReadOutcomes <- MCShortReads` | `NilMeansComplete` fails: a short read leaves a hole (convert_range.go:187-207) and nil is returned |
| `CommitTwoDirs` with `BackingReadAs = "raw"` | `ViewPreserved` fails: the format is found by content for writing (commit.go:42) and by extension for reading (reader.go:327-338) |
| `Qcow2ReaderAll` with `Images <- MCFlatImages` and the invariant `ReadsGuest` | it fails: over a backing VMDK of two flat extents (reader.go:336-337), which has every word, a read that crosses from one to the other panics or zeroes words that it had read (reader.go:167-171), though backing_test.go:68 holds that a read gives the base's data |
| `Qcow2ReaderAll` with `Images <- MCShorterImages` and the property `ReadsReturn` | it fails: over a backing image that is shorter than the one on top, or that has a flat file cut short, a read asks for the same words for ever (reader.go:172), which extent.go:71-72 guards against |
| `VmdkSpansAll` with `Kinds = {"flat"}` and the invariant `EOFOnlyAtEnd` | it fails: `io.EOF` in the middle of an image, against extent.go:77-79 |
| `StreamOptimizedAll` with the invariant `StoredReadsBack` | it fails: a stored grain that begins like zlib is inflated, and the read fails (stream_payload.go:106 says that what does not inflate is stored) |
| `StreamOptimizedAll` with `Counts = {63}` and the invariant `ScanMoves` | it fails: a meta marker whose count overflows to -1 is read again for ever (stream_scan.go:122-134) |
| `VdiWriterAll` with `BlockWords = 1`, `OffsetLimit = 8`, `Size = 8` | `SealedReadsBack` alone is violated, and `KilledIsSound` runs into a table that holds data: the 32-bit data offset (vdi/writer.go:70) has wrapped and data overwrites the table |

## Fairness

`ConvertRange`: weak fairness of each goroutine, which is what the Go scheduler
gives one that stays runnable. None is assumed of the ticker or of the caller's
cancellation. In `Qcow2Writer` weak fairness of `Step`: a method that was called
runs on; that the caller calls again, or closes, is not assumed. In `Rebase`
weak fairness of `ReadGoesOn`, a read that has begun goes on; that it ever fails is not
promised, and nobody is made to rebase or to open. In
`RawStream` weak fairness of `StreamStep`, the loop of one goroutine; errors, short writes of
nothing and cancellation are not promised, so that no fault is needed for the copy to end. The other
modules have no liveness property and no fairness.

## Proofs

Every safety property of a passing run, the action property `MarkerCovers` and the
refinement `ImplementsImageCopy` are theorems of their specifications, for all
values of the constants that the assumptions of the modules allow; where more is
assumed, the theorem says so. Each follows from an inductive invariant, a
conjunction of named parts, which the initial states satisfy and every step
preserves: one lemma for each action or kind of action.

Where a proof needs induction over numbers (the recursive functions `GrainMap`,
`Start`, `mapped`, and the rounding loop of `Create`), it takes the least
counterexample: `LeastElement` follows from the cardinality of finite sets. Facts
about quotients and remainders are lemmas of the module that needs them.

`ConvertRangeProofs` holds for any finite set of workers, any number of chunks, any
finite set of at least as many buffers and any channel capacities:

* `TypeCorrect`: `TypeOK` together with `HandsOK`, which says what each control
  state holds in its hands (a job from "check" on, a buffer at "send", a write job
  at "write" and "count"). `TypeOK` alone is not inductive: a write job without a
  buffer would be well typed.
* `ChannelsSafe`: a flag is raised in a state that its senders have left for good;
  the invariant ties both channel flags to the control states of those who send.
* `BuffersExclusive`, `CopyFaithful`: the strengthening says that what is in a
  buffer in hand, in flight or at the writer was read from the chunk it travels
  with; this is preserved because nobody else holds the buffer, which is why the two
  are proved together.
* `ProgressNotAhead`, `FinalReportRight` and `ConvertRangeCopies`, the refinement of
  `ImageCopy`, share `CopyInv`. Its parts: `WayOK`, a chunk is in one place of its
  way at a time (not yet sent, in `jobs`, at one worker, in `writes`, at the writer,
  settled), so that none is written or counted twice; `KindOK`, a buffer holds all
  of its chunk, or the part that its read gave; `StopsOK`, who has stopped before
  whom, and that a context is cancelled for a reason; `CompleteOK`, that
  unless it was given up the channels close only behind the last chunk, and a chunk
  that is past everybody is settled; `CountOK`, the counter is the number of chunks written or elided, one
  behind while one of them is being counted. The step theorem maps each action to a
  copy, a failure, an interruption, the end of the copy or a stutter.

`CommitProofs` holds for any number of blocks and calls and for one or two
directories, under `BackingReadAs = BackingFormat`: the last table above tells of
the other case.

* `CommitTypeCorrect`, `GuestDiskPreserved` and `CommitDurable`. The inductive
  invariant `CommitInv` speaks of all the states that a crash may leave and not of
  the present one only. `ChainsGood`: every pair of an overlay and a backing file
  that the two directories may show after a crash is a good chain: whole and with
  the guest's disk. `SeenSafe`: none of the files it may show is unsynced. `Fresh`:
  files of later calls are nowhere yet. `Stages`: what each control state knows of
  the new files (after `verify` the new backing file shows the whole disk; after
  `sync_backing_dir` no crash brings the old one back). The view is preserved across
  the two renames only because of the last one, which is the point of the code.
* `MarkerTells`: a crash that leaves the new backing file under an overlay that was
  not reset leaves the marker too. `MarkerOK` says where it is from: in the
  directory from its rename on, and from the sync of that directory on in every
  state that a crash may leave, until it is removed.

`Qcow2WriterProofs` holds for any number of entries per table, any virtual size and
any length of a chunk:

* `RefcountAreaFits`: from the end of the loop in `Create` on, the number of
  refcount blocks is a fixed point of the rounded-up division that computes it
  (`GeometryInv`), and rounding up loses nothing (`CeilDivCovers`), so that the
  blocks have a place for every cluster of a full image.
* `WriterTypes`: `TypeInv` adds to `TypeOK` what each statement knows of the call
  under way (`CallOK`), of the cached and the stored tables (`StoreOK`), and that an
  image that is not yet created is empty (`EmptyOK`).
* `ClustersApart`: `PlacesOK`: tables and data lie behind the metadata and before
  `nextOff` (`TablesOK`, `FreshOK`), a cluster that was just allocated is nobody's
  (`GivenOK`), and no two entries share one (`ApartOK`).
* `KilledImageIsSound`, `ClosedImageReadsBack`: `FlushedOK` and `L1OK` relate the
  tables of the file to those in memory (an entry of the file is the one in memory
  or still zero, and there once it was flushed), `DataOK` each word of guest data to
  what the entries in memory lead to: as written for what is done, that or zero for
  the call under way.
* `RefcountsOfUsed`: `CountedOK`: the clusters before `nextOff` are those in use and
  the one handed out last, and the ones counted are those in use and it once it is
  counted; after an error a count may be left over, never missing.
* `RefcountsNeverRunOut` (`NeverFull`): the entries in use are those of words of the
  image (`BoundOK`), and no two share a cluster, so that by counting no more
  clusters are taken than `RefcountAreaFits` has room for.
* `MeasureIsRight`: the loop of `measure.go` and that of `Create` compute one number
  of refcount blocks (`SameLoop`; that there is such a number follows whether or not
  the loop ends); the file stays within what was told (`FileFits`), and a full image
  takes all of it, since then every slot of every table has a cluster of its own.

Whether the loop ends is a matter of liveness, `EveryCallReturns`.

`VdiWriterProofs` holds for any block and any size, under `DataOffsetFits`: the
32-bit field of the data offset is not checked by `Create`, and the last table above
shows what a wrapped one does. `KilledVdiIsSound` and `ClosedVdiReadsBack`: the
blocks allocated are the first of the data area, each block's number is its own
(`PlacesOK`), the file holds the table, as it is in memory or not yet written, and
the blocks behind it (`FileOK`), and a word reads as what was asked for or as zero,
and as what was asked for once it is done, but for a block cut short by a failed
write, which is none of a chunk that succeeded (`ReadInv`). That the header counts
the blocks of the table is a bijection between the two.

`VmdkWriterProofs` holds for any grain, table and size, and any greatest sector
number: `KilledVmdkIsSound` and `WrittenVmdkReadsBack`. The grains lie behind the
tables and no two in the same sectors (`SectorsOK`), the tables of the file are
those in memory but for the entries of the one being written (`TablesOK`), the file
holds nothing but words that were asked for, each where it is found (`DataOK`), and
all of those that are done (`DoneOK`).

`VmdkReadProofs`:

* `SpansAreRight`, for any number of extents of any kinds and sizes, and any
  request: the spans cover the image once, so that the span of an offset is the only
  one, and a sector that was read is the one that the descriptor has there.
* `StreamIsFaithful`, `StreamIsComplete`, for any size of a chunk: the output is
  always the start of the image; where the copy is can be reached only through
  extents that hold it (`Reachable`), and it ends before the end only where an
  extent is shorter than its line (`Exhausted`).
* `OpenedStreamIsWhole`, `StreamReadsLast`, for any stream-optimized file: the
  events lie one behind the other, so that no two payloads overlap (`EventsOK`), and
  the map leads from each grain to the last of its events (`Latest`). For an `int64`
  that wraps, a marker that moves the scan back is refused.

`CompareProofs` covers `Compare` and `Convert`, for any sizes, chunks, samples and
any breaks of the readers: `VerdictIsRight`, `SamplesAreDistinct`,
`VerifiedLeftNothingOut`. The buffers hold what the readers gave (`Filled`), the
chunks seen are those of the turns so far (`LoopOK`) and agree where both readers
gave them (`AgreeOK`); a mismatch is one of the images when no reader breaks
(`AgainstOK`); the chunks sampled are as many as the turns (`SamplesOK`, by
arithmetic on their numbers). For the conversion, a verification that has begun
finds the copy settled (`SettledOK`): a copy that left chunks out was interrupted,
and the interrupted context stops the verification before its first chunk.

`Qcow2ReaderProofs` holds for any cluster size, any sizes of images and requests,
any first cluster and any names, under the assumptions of `Qcow2Reader` and `Rebase`
(no path holds a zero byte):

* `ChainTypeCorrect`: the invariant `ChainOK` adds to `TypeOK` that a header on its
  way to the file points into the first cluster, and that a call that is done has
  read all it was asked.
* `ReadsWrongOnlyAtStops`: the words read so far are right or were zeroed ahead of a stop,
  and a panic has one close to it (`ReadSoFar`), for all backing images. A turn of the
  loop reads a piece that ends with the request and lies in one cluster (`PieceOK`, by the
  lemma `SameCluster` about quotients), so that one table entry speaks for all of it; a
  call of the backing reader gives words that are there (`BackingWords`), and where it
  ends short is a stop (`ShortIsStop`), from which the words that are zeroed are less
  than a piece away.
* `WholeBackingReadsGuest`: with no stops inside of the image there is nothing to zero, and
  reads are right without exception.
* `MapAgreesWithReads`: the extents of `MapFile` and the read of a word that was not zeroed
  ahead of a stop tell the same of it, from the least cluster that would disagree.
* `NewNameFound` (for `HeaderLengths` of 3 and more, as version 3 has; the finding
  is about the others) and `StoppedRebaseOpens` (for all). `NameInv` says what each
  write has left in the cluster: the area behind the header is zero before the name
  is written, and is the new name followed by zeros after that. A name with a zero
  byte leads to no image, so that a header with the old fields, over any part of
  this, leads to the old name, to a piece of the new one, or to nothing that opens.

Model-checked only: liveness, that is `EventuallyAllReturned` (`ConvertRange`),
`EveryCallReturns` (`Qcow2Writer`), `CoveredReturns` (`Rebase`) and `StreamReturns`
(`RawStream`). They rest on fairness, and the proof system has no way to tell when
an action is enabled.

## What is not modelled

* The bytes of headers and descriptors, and their parsing, but for what rebase
  changes: no state, and no property here is about them. A write of the header that
  reaches the file in part is left out of `Rebase`, and so are header extensions, which
  the zeroing of the name area overwrites.
* A qcow2 chain that refers back to itself: `Open` recurses without end
  (reader.go:331). Nothing in the repository speaks of it; the images that names
  lead to in `Rebase` have no backing file. What a backing reader gives is taken to be right;
  that it may panic or spin itself, as one of a qcow2 image on another, is left out.
* The debugging output of the stream-optimized reader, and offsets in it that overflow, but for the counts of
  meta markers.
* The reads of a VDI and of a hosted sparse VMDK as steps: each is one operator on the file.
  The grain table cache is guarded by a mutex that is held over the whole lookup
  (sparse.go:94-134), so that concurrent reads are reads one after the other.
* Compression: a compressed cluster inflates to its data or fails.
* The raw format, the facade, the public API but for `Convert` and the command line: pure I/O or
  dispatch.
* Code that nothing calls: the inline and indexed readers of stream-optimized
  VMDKs and the embedded sparse reader.
* The count of VDI blocks is a `uint32` too; that it wraps (from 16 TiB with
  blocks of 4096 bytes) is left out.
* Zeros written over data that is there already (skipped by the qcow2 and VMDK
  writers when sparse): no code of the repository writes a place twice.

## Plan

1. Done: the concurrent copy with its abstract specification; commit
   over a crashing file system; the three writers and `Measure`; rebase, map and reader of a qcow2 chain;
   the multi-extent reader with the sequential copy over it; the stream-optimized reader; comparison, and a
   conversion that is verified over the abstract copy. All of their safety properties are proved.
2. Left to model: the grain table cache and the VDI reader as
   steps, header extensions under rebase, the throttling of progress.
3. Next theorems: what those models will promise; for the copy with a source
   that is never short and no cancellation, that nil means every chunk, as a theorem of its
   own.
