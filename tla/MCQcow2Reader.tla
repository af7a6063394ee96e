---------------------------- MODULE MCQcow2Reader ----------------------------
(* Instances of Rebase, and with it of Qcow2Map and Qcow2Reader, for TLC.  *)
EXTENDS Rebase, TLC

Whole(n) == [size |-> n, stops |-> {}, lost |-> {}]

\* A VMDK of flat extents that start at the words of starts.
Flat(n, starts) == [size |-> n, stops |-> starts, lost |-> {}]

\* The same with flat files that are shorter than their lines.
Truncated(n, starts, lost) == [size |-> n, stops |-> starts, lost |-> lost]

\* Names of which one may start with another. They lead to images that are
\* shorter than the one on top, of its length or longer, in one piece, of several
\* extents, and cut short.
MCImages ==
  (<<"a">> :> {Whole(1)}) @@ (<<"b">> :> {Whole(5)}) @@ (<<"a", "a">> :> {Whole(0)})
    @@ (<<"a", "b">> :> {Flat(7, {1, 4})}) @@ (<<"b", "a">> :> {Truncated(7, {6}, {5})})
    @@ (<<"b", "b">> :> {Whole(8), Flat(8, {2, 3, 5})})

\* The images have every word of the one on top.
MCFlatImages == [n \in DOMAIN MCImages |-> {Flat(8, {4})}]

\* The images are shorter than the one on top, or the file of the first extent
\* lacks its last word.
MCShorterImages == [n \in DOMAIN MCImages |-> {Whole(4), Truncated(8, {6}, {5})}]

MCNames == {<<>>, <<"a">>, <<"a", "b">>, <<"b", "a", "a">>, <<"b", "b", "b", "b", "b">>}
=============================================================================
