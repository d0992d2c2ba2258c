----------------------------- MODULE MCBalance -----------------------------
(* Balance with a few lists in two NUMA domains. *)
EXTENDS Balance
=============================================================================
