---------------------------- MODULE MCPangoServer ----------------------------
(* Values of the constants of PangoServer for TLC.                          *)
EXTENDS PangoServer

\* All the devices are in Ashkelon,
OneCity == {<<70, 70>>}
\* or move between Ashkelon and Petah-Tikva, which differ in one coordinate.
TwoCities == {<<70, 70>>, <<71, 70>>}
=============================================================================
