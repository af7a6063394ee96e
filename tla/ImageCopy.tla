------------------------------ MODULE ImageCopy ------------------------------
(***************************************************************************)
(* What a copy of a disk image promises its caller, whatever goroutines,   *)
(* channels and buffers carry it out: every chunk of the output is written *)
(* at most once and only with the bytes of that chunk, nothing is written  *)
(* after the outcome is known, the outcome is an error exactly when        *)
(* something failed, and otherwise every chunk was copied, except those    *)
(* that read as zeros anyway, those the source gave only in part, and      *)
(* those not reached before the caller cancelled.                          *)
(***************************************************************************)
EXTENDS Naturals

CONSTANTS NumChunks, ElideZeros

Chunks == 1 .. NumChunks

VARIABLES
  zeros,        \* chunks of the source that hold only zeros
  image,        \* state of each chunk of the output
  clipped,      \* chunks the source gave only in part
  interrupted,  \* the caller cancelled
  failed,       \* a read or a write failed
  outcome       \* "none" until the copy is over

vars == <<zeros, image, clipped, interrupted, failed, outcome>>

Init ==
  /\ zeros \in SUBSET Chunks
  /\ image = [c \in Chunks |-> "blank"]
  /\ clipped = {}
  /\ interrupted = FALSE
  /\ failed = FALSE
  /\ outcome = "none"

Clip(c) ==
  /\ outcome = "none" /\ image[c] = "blank"
  /\ clipped' = clipped \union {c}
  /\ UNCHANGED <<zeros, image, interrupted, failed, outcome>>

Copy(c) ==
  /\ outcome = "none" /\ image[c] = "blank"
  /\ image' = [image EXCEPT ![c] = IF c \in clipped THEN "short" ELSE "full"]
  /\ UNCHANGED <<zeros, clipped, interrupted, failed, outcome>>

Fail ==
  /\ outcome = "none"
  /\ failed' = TRUE
  /\ \/ UNCHANGED image
     \/ \E c \in Chunks : /\ image[c] = "blank"
                          /\ image' = [image EXCEPT ![c] = "torn"]
  /\ UNCHANGED <<zeros, clipped, interrupted, outcome>>

Interrupt ==
  /\ interrupted' = TRUE
  /\ UNCHANGED <<zeros, image, clipped, failed, outcome>>

Settled(c) ==
  \/ image[c] = "full"
  \/ c \in clipped
  \/ ElideZeros /\ c \in zeros

Finish ==
  /\ outcome = "none"
  /\ failed \/ interrupted \/ \A c \in Chunks : Settled(c)
  /\ outcome' = IF failed THEN "error" ELSE "nil"
  /\ UNCHANGED <<zeros, image, clipped, interrupted, failed>>

Next ==
  \/ \E c \in Chunks : Clip(c) \/ Copy(c)
  \/ Fail
  \/ Interrupt
  \/ Finish

Spec == Init /\ [][Next]_vars
=============================================================================
