------------------------------ MODULE Measure ------------------------------
(***************************************************************************)
(* Measure of internal/formats/qcow2/measure.go: what an image of a size   *)
(* will take, computed before there is one, in code of its own; against    *)
(* what the writer (Qcow2Writer) then lays out and comes to use.           *)
(***************************************************************************)
EXTENDS Qcow2Writer

AtLeastOne(x) == IF x = 0 THEN 1 ELSE x

\* MeasureResult for the size and the clusters of the writer, in words.
L1Entries       == AtLeastOne(ceilDiv(size, EntriesPerL2 * EntriesPerL2))
L1Clusters      == AtLeastOne(ceilDiv(L1Entries * 8, EntriesPerL2 * 8))
MaxDataClusters == ceilDiv(size, EntriesPerL2)
MaxL2Clusters   == ceilDiv(MaxDataClusters, EntriesPerL2)
RefcountTableClusters(b) == AtLeastOne(ceilDiv(b * 8, EntriesPerL2 * 8))

\* Mutant: the refcount table is left out.
MetadataClustersNoTable(b) == 1 + b + L1Clusters + MaxL2Clusters

\* The metadata of an image with b refcount blocks.
MetadataClusters(b) ==
  1 + RefcountTableClusters(b) + b + L1Clusters + MaxL2Clusters

\* The loop from b blocks on: a cluster holds 2-byte refcounts.
RefcountBlockCountFrom[b \in Nat] ==
  LET new == AtLeastOne(ceilDiv(MetadataClusters(b) + MaxDataClusters,
                                (EntriesPerL2 * 8) \div 2))
  IN  IF new = b THEN b ELSE RefcountBlockCountFrom[new]

RefcountBlockCount == RefcountBlockCountFrom[1]

-----------------------------------------------------------------------------

\* Measure foretells the image: its refcount area is the one that Create lays
\* out; the file never grows past the clusters it tells of, whatever is written
\* and fails; and a full image without zeros takes them all.
MeasureForetells ==
  Created =>
    LET most == MetadataClusters(RefcountBlockCount) + MaxDataClusters IN
      /\ blocks = RefcountBlockCount
      /\ DOMAIN file \subseteq 0 .. most - 1
      /\ result = "ok" /\ (\A w \in Words : source[w] # 0) /\ written = Chunks
           => DOMAIN file = 0 .. most - 1
=============================================================================
