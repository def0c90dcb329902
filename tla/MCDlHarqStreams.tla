-------------------------- MODULE MCDlHarqStreams --------------------------
(* Small instances of DlHarqStreams for TLC. *)
EXTENDS DlHarqStreams, TLC
=============================================================================
