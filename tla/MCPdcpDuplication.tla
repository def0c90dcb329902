------------------------ MODULE MCPdcpDuplication --------------------------
(* Small instances of PdcpDuplication for TLC. *)
EXTENDS PdcpDuplication
=============================================================================
