--------------------------- MODULE MCConvertRange ---------------------------
(* Instances of ConvertRange for TLC.                                      *)
EXTENDS ConvertRange

CONSTANTS w1, w2, b1, b2, b3, b4, none

MCThreads == {w1, w2}
MCBuffers == {b1, b2, b3, b4}
MCZeros   == {3}

\* Every chunk may be read or fail, and one of them do all that a read may.
MCReads ==
  [c \in Chunks |-> IF c = 2 THEN {"full", "short", "empty", "fail"} ELSE {"full", "fail"}]
MCFullReads  == [c \in Chunks |-> {"full"}]
MCShortReads == [c \in Chunks |-> {"full", "short"}]
=============================================================================
