------------------------------- MODULE Convert -------------------------------
(***************************************************************************)
(* Convert of pkg/imgconv/convert.go: ConvertRange and then, unless the    *)
(* caller wants none, VerifyRange over the output, both under the context  *)
(* of the caller and with chunks of the same size.                         *)
(*                                                                         *)
(* Of ConvertRange there is what ImageCopy promises, which the goroutines  *)
(* of ConvertRange are shown to keep. The source is read by the same kind  *)
(* of reader in both: one that stops inside of a chunk has that chunk      *)
(* copied in part, and compared in part.                                   *)
(***************************************************************************)
EXTENDS Compare

CONSTANTS
  ImageWords,   \* size of the image that is converted
  SectorWords,  \* what the VMDK writer rounds a size up to
  SparseRaw,    \* the output is a sparse raw file: zero chunks are elided
  MayLose       \* closing the output may fail

ASSUME ConvertAssumption ==
  /\ ImageWords \in Sizes /\ SectorWords \in Nat \ {0}
  /\ SparseRaw \in BOOLEAN /\ MayLose \in BOOLEAN

NumChunks == ceilDiv(ImageWords, ChunkWords)

VARIABLES
  task,     \* "compare": a comparison of its own; "copy", then "verify"
  copied,   \* chunk -> what ConvertRange wrote of it
  clipped,  \* chunks the reader gave only in part
  failed,   \* a read or a write of the copy failed
  outcome   \* what ConvertRange returned

copyVars == <<copied, clipped, failed, outcome>>
convertVars == <<vars, task, copyVars>>

\* The words of chunk c, of 1 .. NumChunks as in ConvertRange.
WordsOf(c) ==
  {w \in DOMAIN image["src"] : w \div ChunkWords = c - 1}

Copying == INSTANCE ImageCopy WITH
  ElideZeros <- SparseRaw,
  zeros <- {c \in 1 .. NumChunks : \A w \in WordsOf(c) : image["src"][w] = 0},
  image <- copied

ConvertInit ==
  /\ Init
  /\ copied = [c \in 1 .. NumChunks |-> "blank"]
  /\ clipped = {} /\ failed = FALSE /\ outcome = "none"
  /\ \/ task = "compare" /\ mode # "none"
     \/ /\ task = "copy"
        /\ SizeOf("src") = ImageWords /\ image["dst"] = image["src"]   \* not yet there
        /\ breaks["dst"] = {}

\* The source stops inside of chunk c.
Stops(c) == \E b \in breaks["src"] : (c - 1) * ChunkWords < b /\ b < c * ChunkWords

\* A part that was read is written, or reads as zeros.
Written(c) ==
  \/ copied[c] # "blank"
  \/ SparseRaw /\ \A w \in WordsOf(c) : Given("src", w) => image["src"][w] = 0

CopyStep ==         \* ConvertRange
  /\ task = "copy" /\ outcome = "none"
  /\ UNCHANGED <<vars, task>>
  /\ \/ \E c \in 1 .. NumChunks :
          \/ Stops(c) /\ c \notin clipped /\ Copying!Clip(c)
          \/ (Stops(c) => c \in clipped) /\ Copying!Copy(c)
     \/ MayFail /\ ~failed /\ Copying!Fail
     \/ Copying!Finish /\ (failed \/ interrupted \/ \A c \in clipped : Written(c))

\* What the output reads as: what was copied, and zeros.
Copy(w) ==
  LET c == w \div ChunkWords + 1
  IN  IF /\ w \in DOMAIN image["src"]
         /\ copied[c] = "full" \/ (copied[c] = "short" /\ Given("src", w))
      THEN image["src"][w] ELSE 0

CopyReturns ==      \* an error is returned; without one, VerifyNone is done
  /\ task = "copy" /\ pc = "open" /\ outcome # "none"
  /\ outcome = "error" \/ mode = "none"
  /\ pc' = "returned" /\ result' = outcome
  /\ UNCHANGED <<mode, image, breaks, buf, step, seen, interrupted, task, copyVars>>

\* The output as VerifyRange opens it: a VMDK is rounded up to sectors, and a
\* Close that failed, which nobody is told of, may have left any part unmapped.
VerifyOutput ==
  /\ task = "copy" /\ outcome = "nil" /\ mode # "none"
  /\ task' = "verify"
  /\ \E n \in {ImageWords, ceilDiv(ImageWords, SectorWords) * SectorWords} :
       \E lost \in IF MayLose THEN SUBSET (0 .. n - 1) ELSE {{}} :
         image' = [image EXCEPT !["dst"] =
                    [w \in 0 .. n - 1 |-> IF w \in lost THEN 0 ELSE Copy(w)]]
  /\ UNCHANGED <<pc, mode, breaks, buf, step, seen, interrupted, result, copyVars>>

Comparing == task # "copy" /\ CompareStep /\ UNCHANGED <<task, copyVars>>
Cancel    == pc # "returned" /\ Interrupt /\ UNCHANGED <<task, copyVars>>
Stopped   == pc = "returned" /\ UNCHANGED convertVars

ConvertNext ==
  \/ CopyStep \/ CopyReturns \/ VerifyOutput \/ Comparing \/ Cancel \/ Stopped

ConvertSpec == ConvertInit /\ [][ConvertNext]_convertVars

-----------------------------------------------------------------------------

\* A conversion that was verified and found good left nothing out: no chunk was
\* skipped for a cancellation, although ConvertRange itself returns nil then,
\* and after a full verification the output has the size of the source and
\* holds every word that its reader gave, whatever became of Close.
ConvertVerdict ==
  result = "nil" /\ task = "verify" =>
    /\ \A c \in 1 .. NumChunks : Copying!Settled(c)
    /\ SizeOf("dst") = size
    /\ mode = "full" =>
         \A w \in DOMAIN image["src"] : Given("src", w) => image["dst"][w] = image["src"][w]

\* A fully verified conversion is the source.
VerifiedIsSource ==
  result = "nil" /\ task = "verify" /\ mode = "full" => image["dst"] = image["src"]
=============================================================================
