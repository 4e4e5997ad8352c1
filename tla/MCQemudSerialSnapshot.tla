----------------------- MODULE MCQemudSerialSnapshot ------------------------
(* A small instance of QemudSerialSnapshot for TLC. *)
EXTENDS QemudSerialSnapshot

MCService == {1}
MCMaxClients == [s \in MCService |-> 1]
=============================================================================
