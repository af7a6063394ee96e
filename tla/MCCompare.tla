------------------------------ MODULE MCCompare ------------------------------
(* Instances of Convert over Compare for TLC.                              *)
EXTENDS Convert
=============================================================================
