----------------------------- MODULE MCNetPipe ------------------------------
(* Small instances of NetPipe for TLC. *)
EXTENDS NetPipe

CONSTANTS p1, p2
MCPipeId1 == {p1}
MCPipeId2 == {p1, p2}
MCChannel1 == {1}
MCThread2 == MCChannel1 \X IoEvent
MCService == {"tcp"}
MCRaisable == {{"READ"}, {"WRITE"}, {"READ", "WRITE"}, {"CLOSED"}}
=============================================================================
