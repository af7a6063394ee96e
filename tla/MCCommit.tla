------------------------------ MODULE MCCommit ------------------------------
(* Instances of Commit for TLC.                                            *)
EXTENDS Commit

CONSTANTS d1, d2
=============================================================================
