------------------------------ MODULE RawStream ------------------------------
(***************************************************************************)
(* ConvertToRawWriter of internal/pipeline/stream_raw.go: an image written *)
(* to an io.Writer, chunk after chunk, over the reader whose reads stop    *)
(* short most often, that of several VMDK extents.                         *)
(*                                                                         *)
(* A read that ends with io.EOF is taken for what it gave, and the copy    *)
(* goes on behind it; only a read of nothing ends it.                      *)
(***************************************************************************)
EXTENDS VmdkSpans

CONSTANT ChunkSizes   \* values of opts.ChunkSize; 0: a ReadAt of its own

ASSUME ChunkSizesAssumption == ChunkSizes \subseteq Nat

VARIABLES
  chunkSize,  \* opts.ChunkSize; 0 when readAcrossSpans is called on its own
  pc,         \* "loop", "read", "write", "returned"
  soff,       \* off of ConvertToRawWriter
  written,    \* sectors of the chunk written
  out,        \* what the io.Writer took
  result      \* "none", "nil", "error" or "cancelled"

streamVars == <<chunkSize, pc, soff, written, out, result>>
vars == <<spanVars, streamVars>>

StreamInit ==
  /\ chunkSize \in ChunkSizes
  /\ soff = 0 /\ written = 0 /\ out = <<>> /\ result = "none"
  /\ IF chunkSize = 0
     THEN pc = "read" /\ Init
     ELSE /\ pc = "loop"
          /\ \E n \in 1 .. MaxExtents : extents \in [1 .. n -> Extents]
          /\ off = 0 /\ len = 0 /\ read = 0 /\ err = "none"
          /\ p = Untouched(chunkSize)         \* buf, made once

ReadChunk ==        \* buf[:want], with what the chunk before left in it
  /\ pc = "loop" /\ soff < totalSize
  /\ pc' = "read"
  /\ off' = soff /\ len' = Least(chunkSize, totalSize - soff)
  /\ read' = 0 /\ err' = "none"
  /\ UNCHANGED <<extents, p, chunkSize, soff, written, out, result>>

StreamCancelled ==  \* ctx.Done(), looked at once a turn
  /\ pc = "loop" /\ soff < totalSize
  /\ pc' = "returned" /\ result' = "cancelled"
  /\ UNCHANGED <<spanVars, chunkSize, soff, written, out>>

Reading    == pc = "read" /\ ReadStep /\ UNCHANGED streamVars
ReadBreaks == pc = "read" /\ ExtentFails /\ UNCHANGED streamVars

\* ReadAt has returned to ConvertToRawWriter.
ReadDone == pc = "read" /\ err # "none" /\ chunkSize > 0

ReadFailed ==
  /\ ReadDone /\ err = "error"
  /\ pc' = "returned" /\ result' = "error"
  /\ UNCHANGED <<spanVars, chunkSize, soff, written, out>>

\* Mutant: the end of the file ends the copy.
EndsCopyAtEOF == read = 0 \/ err = "eof"
EndsCopy      == read = 0

NothingRead ==
  /\ ReadDone /\ err # "error" /\ EndsCopy
  /\ pc' = "returned" /\ result' = "nil"
  /\ UNCHANGED <<spanVars, chunkSize, soff, written, out>>

ChunkRead ==
  /\ ReadDone /\ err # "error" /\ ~EndsCopy
  /\ pc' = "write" /\ written' = 0
  /\ UNCHANGED <<spanVars, chunkSize, soff, out, result>>

\* Mutant: a short write is tried again from the start of the chunk.
PendingFromStart(n) == SubSeq(p, 1, n)
Pending(n)          == SubSeq(p, written + 1, written + n)

WriteSome ==        \* a Write that may take less than it is given
  /\ pc = "write" /\ written < read
  /\ \E n \in 1 .. read - written : out' = out \o Pending(n) /\ written' = written + n
  /\ UNCHANGED <<spanVars, chunkSize, pc, soff, result>>

StreamWriteFails == \* an error, or a Write of nothing
  /\ pc = "write" /\ written < read
  /\ pc' = "returned" /\ result' = "error"
  /\ UNCHANGED <<spanVars, chunkSize, soff, written, out>>

\* Mutant: the copy goes on behind the chunk, all of it read or not.
advanceByWant == len
advance       == read

NextChunk ==
  /\ pc = "write" /\ written >= read
  /\ pc' = "loop" /\ soff' = soff + advance
  /\ UNCHANGED <<spanVars, chunkSize, written, out, result>>

EndOfImage ==
  /\ pc = "loop" /\ soff >= totalSize
  /\ pc' = "returned" /\ result' = "nil"
  /\ UNCHANGED <<spanVars, chunkSize, soff, written, out>>

Terminated ==
  /\ pc = "returned" \/ (pc = "read" /\ err # "none" /\ chunkSize = 0)
  /\ UNCHANGED vars

StreamStep ==
  \/ ReadChunk \/ Reading \/ ReadFailed \/ NothingRead \/ ChunkRead
  \/ WriteSome \/ NextChunk \/ EndOfImage

StreamNext ==
  \/ StreamStep
  \/ StreamCancelled \/ ReadBreaks \/ StreamWriteFails
  \/ Terminated

\* The goroutine runs on; no fault is promised to end it.
StreamSpec == StreamInit /\ [][StreamNext]_vars /\ WF_vars(StreamStep)

-----------------------------------------------------------------------------

\* What the writer took is the start of the image, sector for sector, whatever
\* was read or written short, and however the copy ended.
StreamFaithful ==
  \A k \in 1 .. Len(out) : \E i \in 1 .. Len(extents) :
    /\ k - 1 \in Start[i] .. Start[i + 1] - 1
    /\ out[k] = Sector(i, k - 1 - Start[i])

\* A copy without error is the whole image, or ends where an extent holds less
\* than its line says: a read that stops at the end of an extent does not end it.
StreamComplete ==
  result = "nil" =>
    \/ Len(out) = totalSize
    \/ \E i \in 1 .. Len(extents) :
         /\ extents[i].has < extents[i].sectors
         /\ Len(out) = Start[i] + extents[i].has

\* A read and a copy come to an end, whatever the extents hold.
StreamReturns == <>(pc = "returned" \/ (chunkSize = 0 /\ err # "none"))
=============================================================================
