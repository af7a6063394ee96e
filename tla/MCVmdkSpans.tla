---------------------------- MODULE MCVmdkSpans ----------------------------
(* Instances of RawStream over VmdkSpans for TLC.                          *)
EXTENDS RawStream
=============================================================================
