------------------------- MODULE MCPangoServerMeter -------------------------
(* PangoServer with its histories, for TLC.                                 *)
EXTENDS MCPangoServer, PangoServerMeter
=============================================================================
