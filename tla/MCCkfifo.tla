------------------------------- MODULE MCCkfifo -------------------------------
(* Instances of Ckfifo for TLC: a ring of four bytes whose counters wrap   *)
(* after two rounds of it.                                                 *)
EXTENDS Ckfifo

TwoValues == {0, 1}
=============================================================================
