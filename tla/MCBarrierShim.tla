--------------------------- MODULE MCBarrierShim ---------------------------
(* BarrierShim as a pool of three threads and one caller uses it. *)
EXTENDS BarrierShim
=============================================================================
