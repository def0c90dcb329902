------------------------------ MODULE MCRlcUm ------------------------------
(* Small instances of RlcUm for TLC. *)
EXTENDS RlcUm
=============================================================================
