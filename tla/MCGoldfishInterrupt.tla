------------------------ MODULE MCGoldfishInterrupt ------------------------
(* A small instance of GoldfishInterrupt for TLC. *)
EXTENDS GoldfishInterrupt

CONSTANTS p1, p2
MCPipeId2 == {p1, p2}
MCChannel2 == 1..2
MCService == {"service"}
MCRaisableRead == {{"READ"}, {"CLOSED"}}
MCThread1 == {<<1, "READ">>}
=============================================================================
