------------------------------- MODULE MCMemq -------------------------------
(* Memq for TLC.                                                            *)
EXTENDS Memq
=============================================================================
