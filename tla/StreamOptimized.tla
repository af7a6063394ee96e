--------------------------- MODULE StreamOptimized ---------------------------
(***************************************************************************)
(* A stream-optimized VMDK as internal/formats/vmdk opens and reads it: a  *)
(* file of markers, each telling where the next one is (stream_scan.go), a *)
(* map from grains to the payloads of their last occurrence                *)
(* (stream_payload.go), and ReadAt over that map (stream.go).              *)
(*                                                                         *)
(* What a sector holds as a marker is chosen when it is read. Offsets are  *)
(* in sectors; a payload is counted in units, of which a sector has        *)
(* SectorUnits, and so has the header of a data marker one.                *)
(***************************************************************************)
EXTENDS Integers, Sequences

CONSTANTS
  FileSizes,     \* sizes of the file, in sectors
  HeaderEnds,    \* where the descriptor and the metadata may end
  SectorUnits,   \* units of a sector
  GrainSectors,  \* h.GrainSizeSectors
  Capacity,      \* h.CapacitySectors
  Wrap,          \* offsets are taken modulo Wrap, and the upper half is negative
  Types,         \* types of meta markers, "eos" and "unknown" among them
  Counts,        \* what a meta marker may say of its sectors
  Lbas,          \* what a data marker may say of its place
  Payloads       \* what it may hold

ASSUME StreamAssumption ==
  /\ FileSizes \subseteq Nat \ {0} /\ HeaderEnds \subseteq Nat
  /\ SectorUnits \in Nat \ {0} /\ GrainSectors \in Nat \ {0} /\ Capacity \in Nat \ {0}
  /\ Wrap \in Nat /\ \A n \in FileSizes : 4 * n < Wrap
  /\ "data" \notin Types
  /\ Counts \subseteq 0 .. Wrap - 1 /\ Lbas \subseteq Nat

GrainUnits == GrainSectors * SectorUnits

\* A payload: its size; whether it starts like zlib; what zlib makes of it;
\* whether it inflates without the header of zlib; and what the program that
\* wrote it meant: a grain "deflated" or "stored" as it is.
ASSUME PayloadsAssumption ==
  Payloads \subseteq [size : Nat \ {0}, looks : BOOLEAN, zlib : {"inflates", "corrupt", "no"},
                      flate : BOOLEAN, holds : {"deflated", "stored"}]

Data == [kind : {"data"}, lba : Lbas, payload : Payloads]
Meta == [kind : Types, count : Counts]

VARIABLES
  phase,     \* "scan", "build", "open", "read", "returned", "refused"
  fileSize,
  scanned,   \* off: where the scan is
  events,    \* the markers read, with their offsets
  grains,    \* m.grains: grain -> the event that holds it
  buffer, pOff, given, failure   \* a ReadAt: p, its offset, read and err

scanVars == <<fileSize, scanned, events>>
readVars == <<buffer, pOff, given, failure>>
fileVars == <<phase, scanVars, grains, readVars>>

Smaller(x, y) == IF x <= y THEN x ELSE y
Larger(x, y)  == IF x >= y THEN x ELSE y
ceilDiv(x, y) == (x + y - 1) \div y
int64(x)      == IF x % Wrap >= Wrap \div 2 THEN (x % Wrap) - Wrap ELSE x % Wrap

Zero == <<0, 0, "zero">>

ScanInit ==         \* behind the header, the descriptor and the metadata
  /\ phase = "scan" /\ fileSize \in FileSizes
  /\ \E overHead, descEnd \in HeaderEnds : scanned = Larger(1, Larger(overHead, descEnd))
  /\ events = <<>> /\ grains = <<>>
  /\ buffer = <<>> /\ pOff = 0 /\ given = 0 /\ failure = "none"

-----------------------------------------------------------------------------
(* scanStreamOptimized                                                     *)

\* Mutant: the header of a data marker is not counted.
AdvanceHeaderless(m) ==
  IF m.kind = "data" THEN scanned + ceilDiv(m.payload.size, SectorUnits)
                     ELSE int64(scanned + 1 + m.count)

\* The offset behind a marker.
Advance(m) ==
  IF m.kind = "data" THEN scanned + ceilDiv(1 + m.payload.size, SectorUnits)
                     ELSE int64(scanned + 1 + m.count)

\* A marker that does not move the scan is read again.
SectorHolds(m) ==
  events # <<>> /\ events[Len(events)].off = scanned => m = events[Len(events)].marker

Refuse ==
  /\ phase' = "refused"
  /\ UNCHANGED <<scanVars, grains, readVars>>

OutOfFile ==        \* no marker where the last one said: a truncated file
  /\ phase = "scan" /\ scanned + 1 > fileSize
  /\ Refuse

BadMarker ==
  /\ phase = "scan" /\ scanned + 1 <= fileSize
  /\ \E m \in Data \union Meta :
       /\ SectorHolds(m)
       /\ m.kind = "unknown" \/ Advance(m) < scanned \/ Advance(m) > fileSize
  /\ Refuse

Marker ==
  /\ phase = "scan" /\ scanned + 1 <= fileSize
  /\ \E m \in Data \union Meta :
       /\ SectorHolds(m) /\ m.kind # "unknown"
       /\ Advance(m) >= scanned /\ Advance(m) <= fileSize
       /\ events' = Append(events, [marker |-> m, off |-> scanned])
       /\ scanned' = Advance(m)
       /\ phase' = IF m.kind = "eos" THEN "build" ELSE "scan"
  /\ UNCHANGED <<fileSize, grains, readVars>>

-----------------------------------------------------------------------------
(* buildStreamGrainMap                                                     *)

Aligned(k) == events[k].marker.kind = "data" /\ events[k].marker.lba % GrainSectors = 0
GrainOf(k) == events[k].marker.lba \div GrainSectors

\* Mutant: the first occurrence counts.
NotedOnce(m, k) ==
  [g \in DOMAIN m \union {GrainOf(k)} |-> IF g \in DOMAIN m THEN m[g] ELSE k]

\* m with the grain of event k overwritten.
Noted(m, k) ==
  [g \in DOMAIN m \union {GrainOf(k)} |-> IF g = GrainOf(k) THEN k ELSE m[g]]

\* The map after the first k events; a grain that is not aligned is left out.
GrainMap[k \in 0 .. Len(events)] ==
  IF k = 0 THEN <<>>
  ELSE IF Aligned(k) THEN Noted(GrainMap[k - 1], k) ELSE GrainMap[k - 1]

BuildGrainMap ==
  /\ phase = "build"
  /\ grains' = GrainMap[Len(events)]
  /\ phase' = "open"
  /\ UNCHANGED <<scanVars, readVars>>

-----------------------------------------------------------------------------
(* ReadAt                                                                  *)

\* readPayload: what it takes the payload for.
Decode(pl) ==
  CASE pl.looks /\ pl.zlib = "corrupt"  -> "error"
    [] pl.looks /\ pl.zlib = "inflates" -> "deflated"
    [] pl.looks /\ pl.zlib = "no" /\ pl.flate -> "deflated"
    [] ~(pl.looks /\ (pl.zlib # "no" \/ pl.flate)) ->
         CASE pl.size = GrainUnits -> "stored"
           [] pl.size # GrainUnits /\ pl.flate -> "deflated"
           [] pl.size < GrainUnits /\ ~pl.flate /\ ~pl.looks -> "stored"
           [] OTHER -> "error"

ReadAt ==
  /\ phase = "open"
  /\ \E o \in 0 .. Capacity, n \in 1 .. Capacity + 1 :
       /\ pOff' = o
       /\ buffer' = [i \in 1 .. Smaller(n, Capacity - o) |-> Zero]
  /\ given' = 0 /\ failure' = "none" /\ phase' = "read"
  /\ UNCHANGED <<scanVars, grains>>

curSector == pOff + given
grainIdx  == curSector \div GrainSectors
\* Mutant: every grain is read from its start.
inGrainStart == 0
inGrain   == curSector % GrainSectors
take      == Smaller(Len(buffer) - given, GrainSectors - (curSector % GrainSectors))

Fill(piece) ==
  /\ buffer' = [i \in DOMAIN buffer |-> IF i \in given + 1 .. given + take
                                   THEN piece[i - given] ELSE buffer[i]]
  /\ given' = given + take
  /\ UNCHANGED <<phase, scanVars, grains, pOff, failure>>

ReadHole ==
  /\ phase = "read" /\ given < Len(buffer) /\ grainIdx \notin DOMAIN grains
  /\ Fill([i \in 1 .. take |-> Zero])

ReadGrain ==
  /\ phase = "read" /\ given < Len(buffer) /\ grainIdx \in DOMAIN grains
  /\ LET k   == grains[grainIdx]
         how == Decode(events[k].marker.payload)
     IN  how # "error" /\ Fill([i \in 1 .. take |-> <<k, inGrain + i - 1, how>>])

Done(e) ==
  /\ phase' = "returned" /\ failure' = e
  /\ UNCHANGED <<scanVars, grains, buffer, pOff, given>>

BadGrain ==
  /\ phase = "read" /\ given < Len(buffer) /\ grainIdx \in DOMAIN grains
  /\ Decode(events[grains[grainIdx]].marker.payload) = "error"
  /\ Done("error")

ReadEnds ==
  /\ phase = "read" /\ given >= Len(buffer)
  /\ Done(IF pOff + given >= Capacity THEN "eof" ELSE "nil")

Ended == phase \in {"refused", "returned"} /\ UNCHANGED fileVars

Next ==
  \/ OutOfFile \/ BadMarker \/ Marker \/ BuildGrainMap
  \/ ReadAt \/ ReadHole \/ ReadGrain \/ BadGrain \/ ReadEnds
  \/ Ended

Spec == ScanInit /\ [][Next]_fileVars

-----------------------------------------------------------------------------

\* The first and the last sector of the payload of event k, header included.
FirstOf(k) == events[k].off
LastOf(k)  == events[k].off + ((events[k].marker.payload.size) \div SectorUnits)

\* A stream that is opened was not cut: its markers end with the only
\* end-of-stream marker, and the payloads of the grains lie inside of the file
\* and share no sector with one another, so that no read of one comes up short.
OpenedIsWhole ==
  phase \in {"open", "read", "returned"} =>
    /\ \A k \in 1 .. Len(events) : events[k].marker.kind = "eos" <=> k = Len(events)
    /\ \A g \in DOMAIN grains : LastOf(grains[g]) < fileSize
    /\ \A g, h \in DOMAIN grains : g # h =>
         LastOf(grains[g]) < FirstOf(grains[h]) \/ LastOf(grains[h]) < FirstOf(grains[g])

\* Payloads that cannot be told from one of the other kind. A corrupt one that
\* was deflated without the header of zlib, or has lost it, looks like any data.
Ambiguous(pl) ==
  \/ pl.holds = "stored" /\ (pl.looks \/ (pl.flate /\ pl.size # GrainUnits))
  \/ pl.holds = "deflated" /\ ~pl.looks /\ pl.size = GrainUnits
  \/ pl.holds = "deflated" /\ ~pl.flate /\ (pl.looks => pl.zlib = "no")

\* The events that give sector w of the disk its data.
Occurrences(w) ==
  {k \in 1 .. Len(events) : Aligned(k) /\ GrainOf(k) = w \div GrainSectors}

\* Sector w of the disk as it should read.
Shows(w, value) ==
  IF Occurrences(w) = {} THEN value = Zero
  ELSE \E k \in Occurrences(w) :
         /\ \A j \in Occurrences(w) : j <= k
         /\ value[1] = k /\ value[2] = w % GrainSectors
         /\ \/ value[3] = events[k].marker.payload.holds
            \/ Ambiguous(events[k].marker.payload)

\* A read gives every sector from the last occurrence of its grain, zeros where
\* there is none, as the program that wrote it meant it; it fails only at a grain
\* that is corrupt, too long or ambiguous, and what it gave before is right.
ReadsLast ==
  phase = "returned" =>
    /\ \A i \in 1 .. given : Shows(pOff + i - 1, buffer[i])
    /\ failure \in {"nil", "eof"} => given = Len(buffer)
    /\ failure = "error" =>
         LET pl == events[grains[grainIdx]].marker.payload
         IN  pl.zlib = "corrupt" \/ pl.size > GrainUnits \/ Ambiguous(pl)

\* What stream_payload.go says: a payload that does not inflate is a stored one.
StoredReadsBack ==
  failure = "error" => events[grains[grainIdx]].marker.payload.holds # "stored"

\* The scan goes forward. It does not at a meta marker whose count of sectors,
\* taken modulo Wrap, is -1: that marker is read again without end.
ScanMoves ==
  \A k \in 1 .. Len(events) - 1 : events[k].off < events[k + 1].off
=============================================================================
