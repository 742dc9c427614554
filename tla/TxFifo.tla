------------------------------- MODULE TxFifo -------------------------------
(***************************************************************************)
(* The transmit queue of one link (src/src/posix/fifo.c) and the epoll     *)
(* interest it drives (io_modify and io_detach in src/src/posix/io.c).     *)
(* The parts here run under fifo->lock, or are single system calls, and    *)
(* become actions in the modules that use them: TcpTx and UdpTx.           *)
(*                                                                         *)
(* A node is a record [pkt, off]: the packet and how much of it the kernel *)
(* has taken.  The kernel's send queue holds SendQ units.                  *)
(***************************************************************************)
EXTENDS Naturals, Sequences

CONSTANTS MAXIMUM_FIFO_SIZE, \* nodes the queue may hold (100 in the code)
          SendQ              \* units the kernel buffers for the socket

ASSUME FifoSizeAssumption == MAXIMUM_FIFO_SIZE \in Nat \ {0}
ASSUME SendQAssumption == SendQ \in Nat \ {0}

VARIABLES fifo,      \* tx_fifo.head, the nodes in order
          size,      \* tx_fifo.size
          overflow,  \* tx_fifo.tx_overflow
          attached,  \* the socket is in its epoll set: epoll_ctl succeeds
          epollout,  \* EPOLLOUT is in the interest mask
          ready,     \* the socket is on the epoll ready list
          wire,      \* everything the kernel took, in order
          acked      \* how much of the wire has left the send queue

fifoVars == <<fifo, size, overflow>>
epollVars == <<attached, epollout, ready>>

FifoInit == fifo = <<>> /\ size = 0 /\ overflow = FALSE

Room == SendQ - (Len(wire) - acked)

----------------------------------------------------------------------------
(* epoll.  Sockets are edge-triggered: a modification of the mask and the  *)
(* transition of the send queue from full to not full put the socket on    *)
(* the ready list; what is delivered is decided when the list is read.     *)

\* io_modify(ncb, EPOLLIN | EPOLLOUT) when out, io_modify(ncb, EPOLLIN)
\* otherwise; it fails, and changes nothing, once the socket is detached.
io_modify(out) ==
    /\ epollout' = IF attached THEN out ELSE epollout
    /\ ready' = (ready \/ (attached /\ out /\ Room > 0))
    /\ UNCHANGED attached

\* The peer acknowledges one unit.
Drain ==
    /\ acked < Len(wire)
    /\ acked' = acked + 1
    /\ ready' = (ready \/ (attached /\ epollout /\ Room = 0))
    /\ UNCHANGED <<wire, attached, epollout>> /\ UNCHANGED fifoVars

----------------------------------------------------------------------------
(* fifo.c.                                                                 *)

\* fifo_tx_overflow; the attribute is LINKATTR_NONBLOCK of the link.
fifo_tx_overflow(nonblock) == nonblock /\ overflow

\* fifo_queue, when it refuses the node: the queue is full (EBUSY), or
\* EPOLLOUT cannot be armed and the node is taken back.
QueueRefuses ==
    /\ size >= MAXIMUM_FIFO_SIZE \/ (~overflow /\ ~attached)
    /\ UNCHANGED <<fifoVars, epollVars>>

\* Mutant: the node is queued before the size is looked at.
Mut_QueueUnbounded(node) ==
    /\ size <= MAXIMUM_FIFO_SIZE
    /\ overflow \/ attached
    /\ fifo' = Append(fifo, node)
    /\ size' = size + 1
    /\ overflow' = TRUE
    /\ IF overflow THEN UNCHANGED epollVars ELSE io_modify(TRUE)

\* fifo_queue, when it takes the node: the first one arms EPOLLOUT.
QueueTakes(node) ==
    /\ size < MAXIMUM_FIFO_SIZE
    /\ overflow \/ attached
    /\ fifo' = Append(fifo, node)
    /\ size' = size + 1
    /\ overflow' = TRUE
    /\ IF overflow THEN UNCHANGED epollVars ELSE io_modify(TRUE)

\* Does the locked part of fifo_pop cancel the overflow?  The caller then
\* disarms EPOLLOUT after it has released the lock.
PopCancels == fifo # <<>> /\ size = 1 /\ overflow

\* The locked part of fifo_pop.
PopLocked ==
    /\ fifo' = IF fifo = <<>> THEN fifo ELSE Tail(fifo)
    /\ size' = IF fifo = <<>> THEN size ELSE size - 1
    /\ overflow' = (overflow /\ ~PopCancels)

----------------------------------------------------------------------------
(* What the queue promises to the modules that use it.                     *)

\* The counter fifo_queue and fifo_pop decide by agrees with the list, the
\* queue never exceeds its limit, and the overflow flag that makes writers
\* queue is up exactly while nodes are waiting.
FifoConsistent ==
    /\ size = Len(fifo)
    /\ size <= MAXIMUM_FIFO_SIZE
    /\ overflow <=> fifo # <<>>
=============================================================================
