---------------------------- MODULE MCVmdkWriter ----------------------------
(* Instances of VmdkWriter for TLC.                                        *)
EXTENDS VmdkWriter
=============================================================================
