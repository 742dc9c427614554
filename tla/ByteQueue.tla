------------------------------ MODULE ByteQueue ------------------------------
(* What a bounded byte queue promises: bytes come out in the order in which *)
(* they went in, and no more are taken than there is room for.  A transfer  *)
(* that can be done in full is; how much of another one is done, if any, is *)
(* left open.                                                               *)
EXTENDS Naturals, Sequences

CONSTANT Capacity

VARIABLES queue,
          call  \* the last call: its name, the bytes given or delivered, and
                \* the bytes taken or asked for

Init == queue = <<>> /\ call = <<"none", <<>>, 0>>

\* The first n bytes of data are appended: all of them when they fit.
Put(data, n) ==
    /\ call' = <<"put", data, n>>
    /\ n <= Len(data) /\ Len(queue) + n <= Capacity
    /\ Len(queue) + Len(data) <= Capacity => n = Len(data)
    /\ queue' = queue \o SubSeq(data, 1, n)

\* The oldest n bytes are delivered: all asked for when they are there.
Get(n, asked) ==
    /\ call' = <<"get", SubSeq(queue, 1, n), asked>>
    /\ n <= asked
    /\ asked <= Len(queue) => n = asked
    /\ queue' = SubSeq(queue, n + 1, Len(queue))

\* The bytes of a put are the caller's: any, and call records them.
Next ==
    \/ Put(call'[2], call'[3])
    \/ \E n \in 0..Len(queue) : Get(n, call'[3])

Spec == Init /\ [][Next]_<<queue, call>>
=============================================================================
