---------------------------- MODULE MCPassthru ----------------------------
(* Buffers and FIFOs small enough to be full.                              *)
EXTENDS Passthru
==========================================================================
