----------------------- MODULE MCGoldfishPipeSnapshot -----------------------
(* Small instances of GoldfishPipeSnapshot for TLC. *)
EXTENDS GoldfishPipeSnapshot

CONSTANTS p1, p2
MCPipeId == {p1, p2}
MCSymmetry == Permutations(MCPipeId)
MCChannel == {1}
MCThread == {<<1, "READ">>}
MCService == {"net", "qemud"}
MCSaveable == {"qemud"}
MCRaisable == {{"READ"}, {"CLOSED"}}
(* A service raises data and closes in one call. *)
MCRaisableBoth == {{"READ", "CLOSED"}}
=============================================================================
