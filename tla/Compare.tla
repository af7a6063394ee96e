------------------------------- MODULE Compare -------------------------------
(***************************************************************************)
(* The comparison of two images, of VerifyRange (internal/pipeline/        *)
(* verify.go) after a conversion and of CompareReaders (internal/ops/      *)
(* compare.go): the same algorithm twice, in full or by samples, through   *)
(* two buffers that are used again from chunk to chunk.                    *)
(*                                                                         *)
(* A reader may stop inside of a request, with io.EOF and a part of it: a  *)
(* multi-extent VMDK does at the end of a flat extent (VmdkSpans). Those   *)
(* are the breaks of a reader.                                             *)
(***************************************************************************)
EXTENDS Naturals, FiniteSets

CONSTANTS
  Sizes,       \* sizes of the images, in words
  ChunkWords,  \* opts.ChunkSize
  Samples,     \* opts.SampleBlocks
  Modes,       \* among "full", "sample", and "none" for no verification
  MaxBreaks,   \* bound: breaks of a reader
  MayFail,     \* reads may fail
  MayCancel    \* the context may be cancelled

ASSUME SizesAssumption ==
  /\ Sizes \subseteq Nat \ {0} /\ ChunkWords \in Nat \ {0} /\ Samples \in Nat \ {0}
  /\ Modes \subseteq {"none", "full", "sample"} /\ MaxBreaks \in Nat
ASSUME FlagsAssumption == MayFail \in BOOLEAN /\ MayCancel \in BOOLEAN

Sides == {"src", "dst"}
Values == {0, 1}        \* 0: zeros, what a new buffer holds

VARIABLES
  pc,       \* "open", "src", "dst", "compare", "returned"
  mode,
  image,    \* side -> what the guest finds: a function from words to values
  breaks,   \* side -> words its reader stops before
  buf,      \* side -> srcBuf, dstBuf
  step,     \* the iteration of the loop
  seen,     \* history: chunks compared
  interrupted,  \* the caller cancelled
  result    \* "none", "nil", "size", "mismatch", "error", "cancelled"

vars == <<pc, mode, image, breaks, buf, step, seen, interrupted, result>>

Least(x, y)   == IF x <= y THEN x ELSE y
ceilDiv(x, y) == (x + y - 1) \div y

SizeOf(s) == Cardinality(DOMAIN image[s])
size      == SizeOf("src")

\* Samples that would read as much as there is read it all.
Sampling == mode = "sample" /\ Samples * ChunkWords < size
Turns    == IF Sampling THEN Samples ELSE ceilDiv(size, ChunkWords)

\* Mutant: the samples are half as far from one another.
ChunkOfHalf(i) ==
  IF Sampling THEN (i * (size \div (2 * Samples))) \div ChunkWords ELSE i

\* The chunk compared in turn i: sample offsets are rounded down to a chunk.
ChunkOf(i) ==
  IF Sampling THEN Least(i * (size \div Samples), size - 1) \div ChunkWords ELSE i

off  == ChunkOf(step) * ChunkWords
want == Least(ChunkWords, size - off)

Init ==
  /\ pc = "open" /\ mode \in Modes
  /\ \E m, n \in Sizes : image \in [Sides -> UNION {[0 .. k - 1 -> Values] : k \in {m, n}}]
  /\ breaks \in [Sides -> {B \in SUBSET (1 .. size - 1) : Cardinality(B) <= MaxBreaks}]
  /\ buf = [s \in Sides |-> [i \in 0 .. ChunkWords - 1 |-> 0]]
  /\ step = 0 /\ seen = {} /\ interrupted = FALSE /\ result = "none"

Open ==             \* the sizes are compared, the buffers made
  /\ pc = "open"
  /\ IF SizeOf("dst") = size THEN pc' = "src" /\ UNCHANGED result
                             ELSE pc' = "returned" /\ result' = "size"
  /\ UNCHANGED <<mode, image, breaks, buf, step, seen, interrupted>>

\* readFullAt: how much of the chunk it reads. An io.EOF ends it and is not an
\* error of the comparison.
Got(s) == Cardinality({w \in off .. off + want - 1 : ~\E b \in breaks[s] : off < b /\ b <= w})

\* Mutant: every chunk is read from the start of the image.
FillFromStart(s) ==
  buf' = [buf EXCEPT ![s] = [i \in DOMAIN @ |-> IF i < Got(s) THEN image[s][i] ELSE @[i]]]

\* What was not read is left as the last chunk was.
Fill(s) ==
  buf' = [buf EXCEPT ![s] = [i \in DOMAIN @ |-> IF i < Got(s) THEN image[s][off + i] ELSE @[i]]]

\* Mutant: the context of the caller is not passed on.
ReadSourceUncancelled ==
  /\ pc = "src" /\ step < Turns
  /\ Fill("src")
  /\ pc' = "dst"
  /\ UNCHANGED <<mode, image, breaks, step, seen, interrupted, result>>

ReadSource ==       \* top of the loop: ctx.Done() is looked at once a turn
  /\ pc = "src" /\ step < Turns /\ ~interrupted
  /\ Fill("src")
  /\ pc' = "dst"
  /\ UNCHANGED <<mode, image, breaks, step, seen, interrupted, result>>

ReadDestination ==
  /\ pc = "dst"
  /\ Fill("dst")
  /\ pc' = "compare"
  /\ UNCHANGED <<mode, image, breaks, step, seen, interrupted, result>>

Differ == \E i \in 0 .. want - 1 : buf["src"][i] # buf["dst"][i]

Mismatch ==
  /\ pc = "compare" /\ Differ
  /\ pc' = "returned" /\ result' = "mismatch"
  /\ UNCHANGED <<mode, image, breaks, buf, step, seen, interrupted>>

Match ==
  /\ pc = "compare" /\ ~Differ
  /\ seen' = seen \union {ChunkOf(step)}
  /\ step' = step + 1
  /\ pc' = "src"
  /\ UNCHANGED <<mode, image, breaks, buf, interrupted, result>>

Returned ==
  /\ pc = "src" /\ step >= Turns
  /\ pc' = "returned" /\ result' = "nil"
  /\ UNCHANGED <<mode, image, breaks, buf, step, seen, interrupted>>

Fails ==            \* the open fails, or a read does with an error that is not io.EOF
  /\ MayFail /\ (pc \in {"open", "dst"} \/ (pc = "src" /\ step < Turns /\ ~interrupted))
  /\ pc' = "returned" /\ result' = "error"
  /\ UNCHANGED <<mode, image, breaks, buf, step, seen, interrupted>>

Cancelled ==
  /\ pc = "src" /\ step < Turns /\ interrupted
  /\ pc' = "returned" /\ result' = "cancelled"
  /\ UNCHANGED <<mode, image, breaks, buf, step, seen, interrupted>>

Interrupt ==        \* the caller, at any moment
  /\ MayCancel /\ ~interrupted
  /\ interrupted' = TRUE
  /\ UNCHANGED <<pc, mode, image, breaks, buf, step, seen, result>>

CompareStep ==
  \/ Open \/ ReadSource \/ ReadDestination \/ Mismatch \/ Match \/ Returned
  \/ Fails \/ Cancelled

-----------------------------------------------------------------------------

\* The words of a chunk that the reader of s gives when it is asked for it.
Given(s, w) == ~\E b \in breaks[s] : (w \div ChunkWords) * ChunkWords < b /\ b <= w

\* Images that are found to be the same agree wherever both readers gave what a
\* compared chunk holds, the short last chunk included; and between readers that
\* give all they are asked for the verdict is right either way: nothing that an
\* earlier chunk left in the buffers counts.
Verdict ==
  /\ result = "nil" /\ mode # "none" =>
       \A w \in DOMAIN image["src"] :
         w \div ChunkWords \in seen /\ (\A s \in Sides : Given(s, w))
           => image["src"][w] = image["dst"][w]
  /\ result = "nil" /\ mode # "none" /\ ~Sampling => seen = 0 .. ceilDiv(size, ChunkWords) - 1
  /\ result \in {"size", "mismatch"} /\ (\A s \in Sides : breaks[s] = {})
       => image["src"] # image["dst"]

\* No sample is spent on a chunk that another one compared.
SamplesDistinct == Sampling => Cardinality(seen) = step
=============================================================================
