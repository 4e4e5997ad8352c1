--------------------------- MODULE MCQemudSerial ----------------------------
(* A small instance of QemudSerial for TLC. *)
EXTENDS QemudSerial

MCService == {1, 2}
MCFramed == {1}
MCPipeService == {1}
MCMaxClients == [s \in MCService |-> IF s = 1 THEN 1 ELSE 0]
=============================================================================
