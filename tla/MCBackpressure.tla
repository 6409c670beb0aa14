--------------------------- MODULE MCBackpressure ---------------------------
(* Backpressure for TLC.                                                    *)
EXTENDS Backpressure
=============================================================================
