---------------------------- MODULE MCQcow2Writer ----------------------------
(* Instances of Qcow2Writer, with Measure, for TLC.                        *)
EXTENDS Measure

CONSTANT LargestSize
UpToLargest == 1 .. LargestSize
OnlyLargest == {LargestSize}
=============================================================================
