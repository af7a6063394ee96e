---------------------------- MODULE MCVdiWriter ----------------------------
(* Instances of VdiWriter for TLC.                                         *)
EXTENDS VdiWriter
=============================================================================
