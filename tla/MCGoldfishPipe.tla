--------------------------- MODULE MCGoldfishPipe ---------------------------
(* Small instances of GoldfishPipe for TLC. *)
EXTENDS GoldfishPipe

CONSTANTS p1, p2
MCPipeId2 == {p1, p2}
MCSymmetry == Permutations(MCPipeId2)
MCChannel2 == 1..2
MCThread3 == {<<1, "READ">>, <<1, "WRITE">>, <<2, "READ">>}
MCService == {"service"}
MCRaisable == {{"READ"}, {"WRITE"}, {"CLOSED"}}
=============================================================================
