------------------------------ MODULE VmdkSpans ------------------------------
(***************************************************************************)
(* Reading a VMDK of several extents: readAcrossSpans of                   *)
(* internal/formats/vmdk/extent.go over the ReadAt of flat (flat.go),      *)
(* hosted sparse (sparse.go) and stream-optimized (stream.go) extents, as  *)
(* OpenRange (reader.go) lines them up.                                    *)
(*                                                                         *)
(* A unit is a sector: sector w of extent i reads as the pair <<i, w>>.    *)
(***************************************************************************)
EXTENDS Naturals, Sequences

CONSTANTS
  MaxExtents,   \* extents of the descriptor
  MaxSectors,   \* the largest sector count of an extent line
  Kinds         \* among "flat", "sparse", "stream"

ASSUME BoundsAssumption ==
  /\ MaxExtents \in Nat \ {0} /\ MaxSectors \in Nat \ {0}
  /\ Kinds \subseteq {"flat", "sparse", "stream"}

\* An extent line of the descriptor, and what its file holds: the sectors of
\* data of a flat file, the capacity in the header of another one.
Extents == [kind : Kinds, sectors : 1 .. MaxSectors, has : 0 .. MaxSectors]

VARIABLES
  extents,  \* d.extents, in the order of the descriptor
  off,      \* the request
  len,      \* len(p) of the caller: origLen
  p,        \* the buffer
  read,     \* sectors read so far; curOff is off + read
  err       \* "none" while reading, then "nil", "eof" or "error"

spanVars == <<extents, off, len, p, read, err>>

Least(x, y) == IF x <= y THEN x ELSE y

\* OpenRange: span i covers Start(i) to Start(i + 1), by the sector counts of
\* the descriptor, whatever the extents turn out to hold.
Start[i \in 1 .. MaxExtents + 1] ==
  IF i = 1 \/ i > Len(extents) + 1 THEN 0 ELSE Start[i - 1] + extents[i - 1].sectors
totalSize == Start[Len(extents) + 1]

\* Len(p) once the request is cut at the end of the image.
trimmed == Least(len, totalSize - off)
curOff  == off + read

-----------------------------------------------------------------------------
(* ReadAt of an extent: how many of n sectors it reads from sector at on,    *)
(* and the error it returns.                                               *)

Size(e) == IF e.kind = "flat" THEN e.sectors ELSE e.has

Got(e, at, n) ==
  CASE at >= Size(e) -> 0
    [] at < Size(e) /\ e.kind = "flat" ->       \* the file may be shorter
         IF at >= e.has THEN 0 ELSE Least(n, Least(e.has, e.sectors) - at)
    [] OTHER -> Least(n, Size(e) - at)

\* Mutant: a hosted sparse extent reports the end like the others.
ReadErrAtEnd(e, at, n) ==
  IF at >= Size(e) \/ at + Got(e, at, n) >= Size(e) THEN "eof" ELSE "nil"

\* A hosted sparse extent reports the end only to a request it had to cut; the
\* other two whenever the read reaches it.
ReadErr(e, at, n) ==
  IF \/ at >= Size(e)
     \/ e.kind = "sparse" /\ n > Size(e) - at
     \/ e.kind # "sparse" /\ at + Got(e, at, n) >= Size(e)
  THEN "eof" ELSE "nil"

\* What sector w of extent i holds.
Sector(i, w) == <<i, w>>

\* What the caller left in a buffer of n sectors.
Untouched(n) == [i \in 1 .. n |-> Sector(0, 0)]

-----------------------------------------------------------------------------

\* A call of its own, for any request.
Init ==
  /\ \E n \in 1 .. MaxExtents : extents \in [1 .. n -> Extents]
  /\ off \in 0 .. MaxExtents * MaxSectors
  /\ len \in 1 .. MaxExtents * MaxSectors + 1
  /\ p = Untouched(len)
  /\ read = 0 /\ err = "none"

PastEnd ==
  /\ err = "none" /\ off >= totalSize
  /\ err' = "eof"
  /\ UNCHANGED <<extents, off, len, p, read>>

\* The span of curOff: the spans leave no hole between them.
Current ==
  CHOOSE i \in 1 .. Len(extents) : Start[i] <= curOff /\ curOff < Start[i + 1]

\* Mutant: the offset of the image is taken for that of the extent.
withinImage == curOff
within      == curOff - Start[Current]

want    == Least(trimmed - read, Start[Current + 1] - curOff)

\* Mutant: no guard against a read of nothing.
AfterReadUnguarded(n, e) ==
  IF e = "eof" /\ read + n # trimmed THEN "eof" ELSE "none"

\* What becomes of err after n sectors were read: the end of an extent is
\* forgiven where the request ends too, a read of nothing ends the loop.
AfterRead(n, e) ==
  IF (e = "eof" /\ read + n # trimmed) \/ n = 0 THEN "eof" ELSE "none"

\* n more sectors of the buffer come from the current span.
Take(n) ==
  /\ p' = [i \in DOMAIN p |-> IF i \in read + 1 .. read + n
                              THEN Sector(Current, within + i - 1 - read)
                              ELSE p[i]]
  /\ read' = read + n

ReadSpan ==         \* one turn of the loop
  /\ err = "none" /\ off < totalSize /\ read < trimmed
  /\ LET e == extents[Current]
         n == Got(e, within, want)
     IN  Take(n) /\ err' = AfterRead(n, ReadErr(e, within, want))
  /\ UNCHANGED <<extents, off, len>>

ExtentFails ==      \* an error that is not io.EOF, after a part of the span
  /\ err = "none" /\ off < totalSize /\ read < trimmed
  /\ \E n \in 0 .. Got(extents[Current], within, want) : Take(n)
  /\ err' = "error"
  /\ UNCHANGED <<extents, off, len>>

Return ==
  /\ err = "none" /\ off < totalSize /\ read >= trimmed
  /\ err' = IF trimmed = len THEN "nil" ELSE "eof"
  /\ UNCHANGED <<extents, off, len, p, read>>

ReadStep == PastEnd \/ ReadSpan \/ Return

-----------------------------------------------------------------------------

\* Every sector that was read is the one that the descriptor puts there, and no
\* error means that the whole buffer was read ...
RightSectors ==
  /\ \A k \in 1 .. read : \E i \in 1 .. Len(extents) :
       /\ off + k - 1 \in Start[i] .. Start[i + 1] - 1
       /\ p[k] = Sector(i, off + k - 1 - Start[i])
  /\ err = "nil" => read = len

\* The extents hold what the descriptor says.
Intact == \A i \in 1 .. Len(extents) : extents[i].has >= extents[i].sectors

\* The contract stated in the code: io.EOF only for a request that was cut at
\* the end of the image. It does not hold: see EOFAtExtentEnd.
EOFOnlyAtEnd == Intact /\ err = "eof" => off + len > totalSize

\* ... What the code keeps of it: io.EOF in the middle of the image comes from a
\* flat or stream-optimized extent that was read to its very end.
EOFAtExtentEnd ==
  Intact /\ err = "eof" =>
    \/ off + len > totalSize
    \/ \E i \in 1 .. Len(extents) :
         extents[i].kind # "sparse" /\ curOff = Start[i + 1]

\* What a caller of readAcrossSpans may rely on: all that was read is right, and
\* it may go on where the read stopped.
SpansContract == RightSectors /\ EOFAtExtentEnd
=============================================================================
