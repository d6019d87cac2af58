------------------------- MODULE MCServerLifecycle --------------------------
(* ServerLifecycle for TLC.                                                 *)
EXTENDS MCPangoServer, ServerLifecycle
=============================================================================
