------------------------------ MODULE MCRingLog ------------------------------
(* RingLog for TLC: two characters, a ring of four bytes, messages of at    *)
(* most three stored bytes out of four formatted ones, so that a message    *)
(* can end exactly on the end of the ring, straddle it and be cut.          *)
EXTENDS RingLog
=============================================================================
