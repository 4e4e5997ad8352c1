---------------------------- MODULE MCQemudPipe -----------------------------
(* Small instances of QemudPipe for TLC. *)
EXTENDS QemudPipe

CONSTANTS p1, p2
MCPipeId == {p1, p2}
MCSymmetry == Permutations(MCPipeId)
MCChannel1 == {1}
MCChannel2 == 1..2
MCThread1 == MCChannel1 \X IoEvent
MCThread2 == MCChannel2 \X IoEvent
MCService == {"qemud"}
MCRaisable == {{"READ"}}
=============================================================================
