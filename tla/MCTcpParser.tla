----------------------------- MODULE MCTcpParser -----------------------------
(* Instances of TcpParser for TLC.                                         *)
EXTENDS TcpParser

\* With a header of 2, a buffer of 5 and a largest payload of 7: zero, small,
\* exactly one buffer, large, the largest, too large; and one
\* whose header the parser refuses.
AllPayloads == {0, 1, 2, 3, 4, 7, 8}
RefusedPayloads == {2}
LegalPayloads == {1, 3, 4, 7}
=============================================================================
