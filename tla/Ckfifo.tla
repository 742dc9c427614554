-------------------------------- MODULE Ckfifo --------------------------------
(***************************************************************************)
(* The ring buffer of src/src/cfifo.c.  Positions are unsigned counters    *)
(* that run freely and wrap at Modulus (2^32 in the code); the place in    *)
(* the buffer is their remainder by the buffer's size, a power of two.     *)
(* Every call holds the ring's mutex from beginning to end.                *)
(***************************************************************************)
EXTENDS Integers, Sequences

CONSTANTS Bytes,   \* values of a byte
          size,    \* capacity of the ring
          Modulus  \* range of uint32_t

\* What the constants must satisfy; ckfifo_init insists on the power of two.
SizeAssumption ==
    /\ size \in Nat \ {0} /\ Modulus \in Nat
    /\ \E k \in 0..size : size = 2^k
    /\ size < Modulus /\ Modulus % size = 0

VARIABLES buffer, \* the memory, 0..size-1
          in, out,
          call    \* the last call: its name, the bytes given or delivered, and
                  \* the bytes taken or asked for

vars == <<buffer, in, out, call>>

TypeOK ==
    /\ buffer \in [0..(size - 1) -> Bytes]
    /\ in \in 0..(Modulus - 1) /\ out \in 0..(Modulus - 1)
    /\ call \in {"none", "put", "get"} \X Seq(Bytes) \X (0..(size + 1))

MinOf(a, b) == IF a < b THEN a ELSE b

\* Mutant: a signed difference is not brought back into range.
Mut_uint32(n) == n % (Modulus + 1)

uint32(n) == n % Modulus

ckfifo_len == uint32(in - out)

Room == uint32(size - in + out)

\* Place in the buffer of a position, and length of the part before the wrap.
Place(pos) == pos % size
Part(n, pos) == MinOf(n, size - Place(pos))

Init ==
    /\ buffer \in [0..(size - 1) -> Bytes]
    /\ in = 0 /\ out = 0 /\ call = <<"none", <<>>, 0>>

\* Mutant: the second copy does not go back to the beginning of the buffer.
Mut_CopyIn(data, n) ==
    buffer' = [i \in 0..(size - 1) |->
                 IF i >= Place(in) /\ i < Place(in) + Part(n, in)
                 THEN data[i - Place(in) + 1] ELSE buffer[i]]

\* The two memcpy of _ckfifo_put: n bytes from in on, wrapping once.
CopyIn(data, n) ==
    LET len == Part(n, in) IN
    buffer' = [i \in 0..(size - 1) |->
                 IF i >= Place(in) /\ i < Place(in) + len THEN data[i - Place(in) + 1]
                 ELSE IF i < n - len THEN data[len + i + 1]
                 ELSE buffer[i]]

ckfifo_put(data) ==
    LET n == MinOf(Len(data), Room) IN
    /\ CopyIn(data, n)
    /\ in' = uint32(in + n)
    /\ call' = <<"put", data, n>>
    /\ UNCHANGED out

\* The two memcpy of _ckfifo_get.
CopyOut(n) ==
    LET len == Part(n, out) IN
    [i \in 1..n |-> IF i <= len THEN buffer[Place(out) + i - 1] ELSE buffer[i - len - 1]]

\* After a read that empties the ring both positions start again at zero.
Rewind(pos) == IF in = pos THEN in' = 0 /\ out' = 0 ELSE out' = pos /\ UNCHANGED in

ckfifo_get(asked) ==
    LET n == MinOf(asked, ckfifo_len) IN
    /\ call' = <<"get", CopyOut(n), asked>>
    /\ Rewind(uint32(out + n))
    /\ UNCHANGED buffer

Next ==
    \/ \E n \in 0..(size + 1) : \E data \in [1..n -> Bytes] : ckfifo_put(data)
    \/ \E n \in 0..(size + 1) : ckfifo_get(n)

Spec == Init /\ [][Next]_vars

----------------------------------------------------------------------------
(* Properties.                                                             *)

\* The bytes the ring holds, oldest first.
Contents == [i \in 1..ckfifo_len |-> buffer[Place(out + i - 1)]]

Queue == INSTANCE ByteQueue WITH Capacity <- size, queue <- Contents

\* The ring is a bounded first-in first-out queue of bytes: what
\* ckfifo_put reports as taken is appended, ckfifo_get delivers the oldest
\* bytes, and a call that can be served in full is.
IsQueue == Queue!Spec

\* "on success, return value equal to @size, otherwise 0 indicate error"
\* (include/cfifo.h:12, 14): a put or a get transfers all it was asked to, or
\* nothing.
AllOrNothing ==
    /\ call[1] = "put" => call[3] \in {0, Len(call[2])}
    /\ call[1] = "get" => Len(call[2]) \in {0, call[3]}
=============================================================================
