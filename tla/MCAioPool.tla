----------------------------- MODULE MCAioPool ------------------------------
(* A small instance of AioPool for TLC. *)
EXTENDS AioPool

CONSTANTS r1, r2, w1, w2
MCRequest == {r1, r2}
MCWorker == {w1, w2}
=============================================================================
