----------------------------- MODULE MCPumaSet -----------------------------
(* PumaSet on four CPUs, numbered alternately in two NUMA domains. *)
EXTENDS PumaSet, TLC

TwoDomains == [c \in 0..3 |-> c % 2]
=============================================================================
