----------------------------- MODULE MCRingBuf -----------------------------
(* Small instances of RingBuf for TLC: the producers are model values.     *)
EXTENDS RingBuf
=============================================================================
