-------------------------- MODULE MCStreamOptimized --------------------------
(* Instances of StreamOptimized for TLC.                                   *)
EXTENDS StreamOptimized

Payload(size, looks, zlib, flate, holds) ==
  [size |-> size, looks |-> looks, zlib |-> zlib, flate |-> flate, holds |-> holds]

\* Every way through readPayload, for grains of 4 units.
MCPayloads ==
  { Payload(1, TRUE,  "inflates", FALSE, "deflated"),
    Payload(2, FALSE, "no",       TRUE,  "deflated"),   \* without a zlib header
    Payload(1, FALSE, "no",       FALSE, "stored"),     \* the rest is zeros
    Payload(2, TRUE,  "corrupt",  FALSE, "deflated"),
    Payload(2, FALSE, "no",       FALSE, "deflated"),   \* corrupt, and taken for stored
    Payload(1, TRUE,  "no",       TRUE,  "deflated"),
    Payload(4, TRUE,  "inflates", FALSE, "deflated"),   \* padded to a grain
    Payload(4, FALSE, "no",       FALSE, "stored"),
    Payload(4, TRUE,  "corrupt",  FALSE, "stored"),     \* starts like zlib
    Payload(5, FALSE, "no",       FALSE, "stored") }
=============================================================================
