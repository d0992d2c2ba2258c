----------------------------- MODULE MCBitmask -----------------------------
(* Bitmask with buckets of four bits. *)
EXTENDS Bitmask

MCArraySizes == 1..30
MCElemSizes == 2..6
=============================================================================
