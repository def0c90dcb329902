----------------------------- MODULE MCDlHarq -----------------------------
(* Small instances of DlHarq for TLC. *)
EXTENDS DlHarq, TLC

CONSTANTS u1, u2
===========================================================================
