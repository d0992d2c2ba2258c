---------------------------- MODULE MCStaticVar ----------------------------
(* Instances of StaticVar for TLC. *)
EXTENDS StaticVar
=============================================================================
