------------------------------ MODULE MCLwpEvent ------------------------------
(* Instances of LwpEvent for TLC.                                          *)
EXTENDS LwpEvent

CONSTANTS w1, w2, w3

ThreeWaiters == {w1, w2, w3}
=============================================================================
