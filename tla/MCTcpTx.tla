------------------------------- MODULE MCTcpTx -------------------------------
(* Instances of TcpTx for TLC.                                             *)
EXTENDS TcpTx, TLC

CONSTANTS w1, w2

OneWriter == {w1}
TwoWriters == {w1, w2}

AnyAttribute == {TRUE, FALSE}
IgnoredErrors == {"EISCONN", "EAGAIN"}

\* Writers are interchangeable; sound for the safety runs.
Symmetry == Permutations(TwoWriters)
=============================================================================
