-------------------------------- MODULE UdpTx --------------------------------
(***************************************************************************)
(* The transmit path of one non-blocking UDP link: threads in udp_write    *)
(* (src/src/posix/udp.c), the epoll thread, and the writer-pool thread     *)
(* running udp_tx (udpio.c) from _wp_exec (wpool.c).  A datagram is one    *)
(* unit: the kernel takes it whole or answers EAGAIN.                      *)
(***************************************************************************)
EXTENDS TxFifo, Integers, FiniteSets

CONSTANTS Writers,    \* threads that call udp_write
          MaxPackets  \* bound: datagrams a writer writes

\* What the constants must satisfy.
WritersAssumption == IsFiniteSet(Writers) /\ MaxPackets \in Nat

VARIABLES sock,     \* "open", "shut" (udp_destroy) or "closed"
          closing,  \* objclos was called on the link
          freed,    \* ncb_deconstruct ran
          wpc, rets, \* a writer's program counter, and what its calls returned
          kpc, tasks, \* the worker's program counter, and its tasks
          epc       \* the epoll thread's program counter

linkVars == <<sock, closing, freed>>
writerVars == <<wpc, rets>>
kernelVars == <<wire, acked>>
vars == <<fifoVars, epollVars, kernelVars, linkVars, writerVars, kpc, tasks, epc>>

Packets == Writers \X (1..MaxPackets)

TypeOK ==
    /\ fifo \in Seq([pkt : Packets, off : {0, 1}]) /\ size \in Nat
    /\ {overflow, attached, epollout, ready, closing, freed} \subseteq BOOLEAN
    /\ wire \in Seq(Packets) /\ acked \in 0..Len(wire) /\ Len(wire) - acked <= SendQ
    /\ sock \in {"open", "shut", "closed"}
    /\ wpc \in [Writers -> {"idle", "test", "send", "queue"}]
    /\ rets \in [Writers -> Seq({"success", "failure"})]
    /\ kpc \in {"idle", "top", "send", "pop", "disarm", "pop2", "disarm2"}
    /\ tasks \in Nat
    /\ epc \in {"idle", "rdhup"}

Init ==
    /\ FifoInit
    /\ attached = TRUE /\ epollout = FALSE /\ ready = FALSE
    /\ wire = <<>> /\ acked = 0
    /\ sock = "open" /\ closing = FALSE /\ freed = FALSE
    /\ wpc = [w \in Writers |-> "idle"] /\ rets = [w \in Writers |-> <<>>]
    /\ kpc = "idle" /\ tasks = 0 /\ epc = "idle"

\* What udp_txn on a fresh node can come to: one datagram, one system call,
\* which may fail on an open socket, too (an unreachable target).
Outcomes ==
    {"fatal"} \union (IF sock # "open" THEN {} ELSE {IF Room = 0 THEN "EAGAIN" ELSE "success"})

\* What that does to the wire.
Take(p, outcome) ==
    wire' = (IF outcome = "success" THEN Append(wire, p) ELSE wire) /\ UNCHANGED acked

----------------------------------------------------------------------------
(* udp_write.                                                              *)

Packet(w) == <<w, Len(rets[w]) + 1>>

WriterReturns(w, status) ==
    rets' = [rets EXCEPT ![w] = Append(@, status)] /\ wpc' = [wpc EXCEPT ![w] = "idle"]

WriterAt(w, label) == wpc' = [wpc EXCEPT ![w] = label] /\ UNCHANGED rets

\* _udprefr, and the node is built.
WriteBegin(w) ==
    /\ wpc[w] = "idle" /\ Len(rets[w]) < MaxPackets
    /\ ~closing
    /\ WriterAt(w, "test")
    /\ UNCHANGED <<fifoVars, epollVars, kernelVars, linkVars, kpc, tasks, epc>>

\* The handle is closed, the port is zero, there is no memory for the
\* datagram or its node, or the serializer fails.
WriteRefused(w) ==
    /\ wpc[w] = "idle" /\ Len(rets[w]) < MaxPackets
    /\ WriterReturns(w, "failure")
    /\ UNCHANGED <<fifoVars, epollVars, kernelVars, linkVars, kpc, tasks, epc>>

WriteTest(w) ==
    /\ wpc[w] = "test"
    /\ WriterAt(w, IF fifo_tx_overflow(TRUE) THEN "queue" ELSE "send")
    /\ UNCHANGED <<fifoVars, epollVars, kernelVars, linkVars, kpc, tasks, epc>>

\* Mutant: the datagram is queued whatever became of the direct send.
Mut_WriteSendQueues(w) ==
    /\ wpc[w] = "send"
    /\ \E outcome \in Outcomes : Take(Packet(w), outcome)
    /\ WriterAt(w, "queue")
    /\ UNCHANGED <<fifoVars, epollVars, linkVars, kpc, tasks, epc>>

WriteSend(w) ==
    /\ wpc[w] = "send"
    /\ \E outcome \in Outcomes :
          /\ Take(Packet(w), outcome)
          /\ CASE outcome = "success" -> WriterReturns(w, "success")
               [] outcome = "fatal" -> WriterReturns(w, "failure")
               [] outcome = "EAGAIN" -> WriterAt(w, "queue")
    /\ UNCHANGED <<fifoVars, epollVars, linkVars, kpc, tasks, epc>>

WriteQueue(w) ==
    /\ wpc[w] = "queue"
    /\ \/ QueueTakes([pkt |-> Packet(w), off |-> 0]) /\ WriterReturns(w, "success")
       \/ QueueRefuses /\ WriterReturns(w, "failure")
    /\ UNCHANGED <<kernelVars, linkVars, kpc, tasks, epc>>

----------------------------------------------------------------------------
(* The writer-pool thread.                                                 *)

\* Mutant: the counter goes down before the list is looked at.
Mut_WorkerTakeUnguarded ==
    /\ kpc = "idle"
    /\ tasks' = tasks - 1
    /\ kpc' = IF closing THEN "idle" ELSE "top"
    /\ UNCHANGED <<fifoVars, epollVars, kernelVars, linkVars, writerVars, epc>>

WorkerTake ==
    /\ kpc = "idle" /\ tasks > 0
    /\ tasks' = tasks - 1
    /\ kpc' = IF closing THEN "idle" ELSE "top"
    /\ UNCHANGED <<fifoVars, epollVars, kernelVars, linkVars, writerVars, epc>>

WorkerTop ==
    /\ kpc = "top"
    /\ kpc' = IF fifo = <<>> THEN "idle" ELSE "send"
    /\ UNCHANGED <<fifoVars, epollVars, kernelVars, linkVars, writerVars, tasks, epc>>

WorkerSend ==
    /\ kpc = "send"
    /\ \E outcome \in Outcomes :
          /\ Take(fifo[1].pkt, outcome)
          /\ fifo' = [fifo EXCEPT ![1].off = IF outcome = "success" THEN 1 ELSE 0]
          /\ kpc' = IF outcome = "success" THEN "pop" ELSE "idle"
          /\ closing' = (closing \/ outcome = "fatal")
    /\ UNCHANGED <<size, overflow, sock, freed, epollVars, writerVars, tasks, epc>>

\* udp_tx pops the datagram it has sent ...
WorkerPop ==
    /\ kpc = "pop"
    /\ PopLocked
    /\ kpc' = IF PopCancels THEN "disarm" ELSE "pop2"
    /\ UNCHANGED <<epollVars, kernelVars, linkVars, writerVars, tasks, epc>>

WorkerDisarm ==
    /\ kpc = "disarm"
    /\ io_modify(FALSE)
    /\ kpc' = "pop2"
    /\ UNCHANGED <<fifoVars, kernelVars, linkVars, writerVars, tasks, epc>>

\* ... and _wp_exec, seeing success, pops once more; only if that finds a
\* node does the task go back to the pool.
WorkerPop2 ==
    /\ kpc = "pop2"
    /\ PopLocked
    /\ kpc' = IF PopCancels THEN "disarm2" ELSE "idle"
    /\ tasks' = IF fifo # <<>> /\ ~PopCancels THEN tasks + 1 ELSE tasks
    /\ UNCHANGED <<epollVars, kernelVars, linkVars, writerVars, epc>>

WorkerDisarm2 ==
    /\ kpc = "disarm2"
    /\ io_modify(FALSE)
    /\ kpc' = "idle" /\ tasks' = tasks + 1
    /\ UNCHANGED <<fifoVars, kernelVars, linkVars, writerVars, epc>>

----------------------------------------------------------------------------
(* The epoll thread, udp_destroy and the end of the link.                  *)

\* The event is reported if the socket is writable and interested now, and
\* wp_queued makes a task of it, or fails, which nobody looks at.
EpollOut ==
    /\ ready /\ epc = "idle" /\ sock = "open"
    /\ ready' = FALSE
    /\ \/ attached /\ epollout /\ Room > 0 /\ ~closing /\ tasks' = tasks + 1
       \/ UNCHANGED tasks
    /\ UNCHANGED <<attached, epollout, fifoVars, kernelVars, linkVars, writerVars, kpc, epc>>

\* EPOLLERR, or a read that failed: the link is closed, the socket is not
\* touched.
EpollErr ==
    /\ attached /\ ~closing /\ epc = "idle"
    /\ closing' = TRUE
    /\ UNCHANGED <<sock, freed, fifoVars, epollVars, kernelVars, writerVars, kpc, tasks, epc>>

\* udp_destroy only shuts the socket down; the rest follows from the event.
Destroy ==
    /\ sock = "open" /\ ~closing
    /\ sock' = "shut"
    /\ UNCHANGED <<closing, freed, fifoVars, epollVars, kernelVars, writerVars, kpc, tasks, epc>>

RdhupDetach ==
    /\ sock = "shut" /\ attached /\ ~closing /\ epc = "idle"
    /\ attached' = FALSE /\ epollout' = FALSE /\ ready' = FALSE
    /\ epc' = "rdhup"
    /\ UNCHANGED <<fifoVars, kernelVars, linkVars, writerVars, kpc, tasks>>

RdhupClose ==
    /\ epc = "rdhup"
    /\ sock' = "closed" /\ closing' = TRUE /\ epc' = "idle"
    /\ UNCHANGED <<freed, fifoVars, epollVars, kernelVars, writerVars, kpc, tasks>>

Referenced == kpc # "idle" \/ epc # "idle" \/ \E w \in Writers : wpc[w] # "idle"

Deconstruct ==
    /\ closing /\ ~freed /\ ~Referenced
    /\ freed' = TRUE /\ sock' = "closed" /\ fifo' = <<>>
    /\ attached' = FALSE /\ epollout' = FALSE /\ ready' = FALSE
    /\ UNCHANGED <<closing, size, overflow, kernelVars, writerVars, kpc, tasks, epc>>

Peer == Drain /\ UNCHANGED <<linkVars, writerVars, kpc, tasks, epc>>

Next ==
    \/ \E w \in Writers :
          WriteBegin(w) \/ WriteRefused(w) \/ WriteTest(w) \/ WriteSend(w) \/ WriteQueue(w)
    \/ WorkerTake \/ WorkerTop \/ WorkerSend
    \/ WorkerPop \/ WorkerDisarm \/ WorkerPop2 \/ WorkerDisarm2
    \/ EpollOut \/ EpollErr \/ Destroy \/ RdhupDetach \/ RdhupClose \/ Deconstruct \/ Peer

Spec == Init /\ [][Next]_vars

----------------------------------------------------------------------------
(* Properties.                                                             *)

\* The queue's counter, list and overflow flag agree although udp_tx and
\* _wp_exec both pop, and the node the worker sends is at its head.
QueueConsistent ==
    /\ ~freed => FifoConsistent
    /\ kpc \in {"send", "pop"} => ~freed /\ fifo # <<>>

OnWire(p) == {i \in 1..Len(wire) : wire[i] = p}
Queued(p) == {i \in 1..Len(fifo) : fifo[i].pkt = p}
Returned(p, status) == Len(rets[p[1]]) >= p[2] /\ rets[p[1]][p[2]] = status

\* No datagram is sent twice, and one that udp_write refused is not sent.
SentAtMostOnce ==
    \A p \in Packets : /\ Cardinality(OnWire(p)) <= 1
                       /\ Returned(p, "failure") => OnWire(p) = {}
=============================================================================
