----------------------------- MODULE MCUlHarq -----------------------------
(* Small instances of UlHarq for TLC. *)
EXTENDS UlHarq, TLC

CONSTANTS u1, u2
===========================================================================
