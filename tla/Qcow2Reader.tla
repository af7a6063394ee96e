----------------------------- MODULE Qcow2Reader -----------------------------
(***************************************************************************)
(* Reader.ReadAt of internal/formats/qcow2/reader.go: a read of an image   *)
(* whose clusters are stored, compressed, marked zero or left to a backing *)
(* image. That may have another size than the image on top of it, and its  *)
(* reader may stop a call short: the reader of a VMDK does so at the end   *)
(* of a flat extent, and where a flat file is shorter than its line        *)
(* (VmdkSpans).                                                            *)
(*                                                                         *)
(* Guest words read as the pair <<source, word>>, with the word 0 for      *)
(* zeros, so that data that comes from the wrong place shows.              *)
(***************************************************************************)
EXTENDS Integers

CONSTANTS
  ClusterWords,   \* words of a cluster
  Size,           \* h.Size, in words
  MayFail         \* the file or the backing image may fail a read

ASSUME SizesAssumption ==
  ClusterWords \in Nat \ {0} /\ Size \in Nat \ {0}
ASSUME FlagsAssumption == MayFail \in BOOLEAN

Least(x, y) == IF x <= y THEN x ELSE y

Clusters == 0 .. (Size - 1) \div ClusterWords

\* lookupCluster: what the L2 entry of a cluster (or its absence) says.
ClusterRef == {"data", "compressed", "zero", "unallocated"}

\* What its reader makes of a backing image: its Size(), the words that no call
\* reads on to from the word before, and those that no call gives.
BackingImage == [size : Nat, stops : SUBSET Nat, lost : SUBSET Nat]

NoBacking == [size |-> 0, stops |-> {}, lost |-> {}]

VARIABLES
  refs,     \* lookupCluster of every cluster
  backed,   \* r.backing # nil
  backing,  \* r.backing
  off,      \* the request
  len,      \* len(p), cut at the end of the image
  read,     \* words read so far
  p,        \* the buffer
  pc        \* "closed", "loop", "done", "failed", "panic"

vars == <<refs, backed, backing, off, len, read, p, pc>>

Zero == <<"zero", 0>>

\* What the guest should find at word w.
Guest(w) ==
  LET r == refs[w \div ClusterWords] IN
    CASE r \in {"data", "compressed"} -> <<"own", w>>
      [] r = "unallocated" /\ backed /\ w < backing.size -> <<"backing", w>>
      [] OTHER -> Zero

\* No image is open yet.
Closed ==
  /\ refs = [c \in Clusters |-> "unallocated"] /\ backed = FALSE /\ backing = NoBacking
  /\ off = 0 /\ len = 0 /\ read = 0 /\ p = <<>> /\ pc = "closed"

\* ReadAt is called for a part of an image of any clusters; what is below it is
\* for Open to find (Rebase).
ReadAt ==
  /\ refs' \in [Clusters -> ClusterRef]
  /\ off' \in 0 .. Size - 1
  /\ len' \in 1 .. Size - off'
  /\ read' = 0 /\ p' = [i \in 0 .. len' - 1 |-> <<"junk", 0>>]
  /\ pc' = "loop"

curOff    == off + read
inCluster == curOff % ClusterWords
\* Mutant: the piece goes to the end of the cluster, past that of the request.
wantCluster == ClusterWords - inCluster
want == Least(len - read, ClusterWords - inCluster)
\* Mutant: the zero flag of an L2 entry is overlooked.
refUnflagged ==
  LET r == refs[curOff \div ClusterWords] IN IF r = "zero" THEN "unallocated" ELSE r
ref == refs[curOff \div ClusterWords]

Reading == pc = "loop" /\ read < len

\* Copy the piece of the cluster in hand, which is there as a whole.
Fill(src) ==
  p' = [i \in DOMAIN p |-> IF i \in read .. read + want - 1
                           THEN <<src, off + i>> ELSE p[i]]

ZeroFill(I) == p' = [i \in DOMAIN p |-> IF i \in I THEN Zero ELSE p[i]]

ReadZeros ==
  /\ Reading /\ (ref = "zero" \/ (ref = "unallocated" /\ ~backed))
  /\ ZeroFill(read .. read + want - 1)
  /\ read' = read + want
  /\ UNCHANGED <<refs, backed, backing, off, len, pc>>

ReadStored ==       \* data, or a compressed cluster inflated as a whole
  /\ Reading /\ ref \in {"data", "compressed"}
  /\ Fill("own")
  /\ read' = read + want
  /\ UNCHANGED <<refs, backed, backing, off, len, pc>>

\* The backing image has word w.
Has(w) == w < backing.size /\ w \notin backing.lost

\* A call of the backing reader at curOff ends after n words, full or not.
EndsAfter(n) ==
  n = want \/ ~Has(curOff + n) \/ (n > 0 /\ curOff + n \in backing.stops)

\* The words that the backing reader gives at curOff.
nBacking == CHOOSE n \in 0 .. want :
              EndsAfter(n) /\ \A m \in 0 .. want : EndsAfter(m) => n <= m

ReadBacking ==
  /\ Reading /\ ref = "unallocated" /\ backed /\ nBacking = want
  /\ Fill("backing")
  /\ read' = read + nBacking
  /\ UNCHANGED <<refs, backed, backing, off, len, pc>>

\* The backing reader stops short, with io.EOF. read has moved on by nBacking
\* when the words p[read-want+nBacking] to p[read-1] are zeroed.
ShortPiece(moved) ==
  LET filled == [i \in DOMAIN p |-> IF i \in read .. read + nBacking - 1
                                    THEN <<"backing", off + i>> ELSE p[i]]
      zeroed == read + moved - want + nBacking .. read + moved - 1
  IN  /\ p' = [i \in DOMAIN p |-> IF i \in zeroed THEN Zero ELSE filled[i]]
      /\ pc' = IF \E i \in zeroed : i < 0 THEN "panic" ELSE "loop"
      /\ read' = read + moved

\* Mutant: the words that were read are not counted.
ReadBackingShortStuck ==
  /\ Reading /\ ref = "unallocated" /\ backed /\ nBacking < want
  /\ ShortPiece(0)
  /\ UNCHANGED <<refs, backed, backing, off, len>>

ReadBackingShort ==
  /\ Reading /\ ref = "unallocated" /\ backed /\ nBacking < want
  /\ ShortPiece(nBacking)
  /\ UNCHANGED <<refs, backed, backing, off, len>>

\* A table, a cluster or the backing image cannot be read, or a cluster not be
\* inflated.
ReadFails ==
  /\ MayFail /\ Reading
  /\ pc' = "failed"
  /\ UNCHANGED <<refs, backed, backing, off, len, read, p>>

Return ==
  /\ pc = "loop" /\ read >= len
  /\ pc' = "done"
  /\ UNCHANGED <<refs, backed, backing, off, len, read, p>>

Returned == pc # "loop" /\ UNCHANGED vars

Step == ReadZeros \/ ReadStored \/ ReadBacking \/ ReadBackingShort \/ ReadFails
          \/ Return \/ Returned

-----------------------------------------------------------------------------

ReaderTypeOK ==
  /\ refs \in [Clusters -> ClusterRef]
  /\ backed \in BOOLEAN /\ backing \in BackingImage
  /\ off + len <= Size /\ read \in 0 .. len
  /\ DOMAIN p = 0 .. len - 1
  /\ pc \in {"loop", "done", "failed", "panic"}

\* A read that succeeds returns the guest's data, whatever mix of clusters it
\* goes over, and never indexes outside of the buffer: what the tests ask of
\* ReadAt. The zero filling of reader.go:167-171 breaks it.
ReadsGuest ==
  pc # "panic" /\ (pc = "done" => \A i \in DOMAIN p : p[i] = Guest(off + i))

\* The backing reader cannot give the request word w after the word before it,
\* though both lie in one cluster, or cannot give it at all.
StopsShort(w) ==
  /\ w \in off .. off + len - 1 /\ backed /\ refs[w \div ClusterWords] = "unallocated"
  /\ ~Has(w) \/ (w > off /\ w % ClusterWords # 0 /\ w \in backing.stops)

\* Word i of the buffer was zeroed for a stop that lies up to a cluster ahead.
Overzeroed(i) ==
  p[i] = Zero /\ \E w \in off + i + 1 .. off + i + ClusterWords : StopsShort(w)

\* A wrong read always goes back to the zero filling after a stop: a word that is
\* not the guest's is a zero ahead of a stop, an index out of range comes from a
\* stop less than a cluster into the request, and a read over a backing image
\* that never stops short is right.
WrongOnlyAtStops ==
  /\ pc = "done" => \A i \in DOMAIN p : p[i] = Guest(off + i) \/ Overzeroed(i)
  /\ pc = "panic" => \E w \in off .. off + ClusterWords - 1 : StopsShort(w)

\* Every read returns. That is not so where the backing image has no words for
\* it: reader.go:172 asks for them again and again.
ReadsReturn == pc = "loop" ~> pc # "loop"

\* The backing image has every word that is left to it.
Covered ==
  backed => \A w \in off .. off + len - 1 :
              refs[w \div ClusterWords] = "unallocated" => Has(w)

\* A read of words that are there returns, however often the backing reader
\* stops short in it.
CoveredReturns == Covered ~> pc # "loop"
=============================================================================
