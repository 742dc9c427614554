-------------------------------- MODULE TcpTx --------------------------------
(***************************************************************************)
(* The transmit path of one TCP link: application threads in tcp_write     *)
(* (src/src/posix/tcp.c), the epoll thread that reports writability        *)
(* (io.c), and the writer-pool thread that sends what was queued (wpool.c, *)
(* tcpio.c).  They share the queue of TxFifo and the kernel's send queue.  *)
(*                                                                         *)
(* A step is one locked region or one system call.  Packets are numbered   *)
(* per writer and are PacketLength units long; the wire is a sequence of   *)
(* units <<packet, i>>.                                                    *)
(***************************************************************************)
EXTENDS TxFifo, FiniteSets, Functions

CONSTANTS Writers,       \* threads that call tcp_write
          MaxPackets,    \* bound: packets written
          PacketLength,  \* units of a packet
          Nonblock,      \* values LINKATTR_NONBLOCK of the link may have
          EarlyWrite,    \* writers start before the link's set-up is over
          Hangup,        \* the peer or tcp_destroy may shut the link down
          NoMemory,      \* ztrymalloc, the serializer and the builder may fail
          SoErrors,      \* values SO_ERROR may have on an established link
          ChecksInverted \* ILLEGAL_PARAMETER_CHECK exactly as compiler.h has it

ASSUME WritersAssumption == IsFiniteSet(Writers)
ASSUME PacketsAssumption == MaxPackets \in Nat /\ PacketLength \in Nat \ {0}
ASSUME SwitchAssumption ==
    /\ Nonblock \union {EarlyWrite, Hangup, NoMemory, ChecksInverted} \subseteq BOOLEAN
    /\ SoErrors \subseteq {"EISCONN", "EAGAIN"}

VARIABLES origin,   \* how the link came to be: "accepted" or "connected"
          nonblock, \* LINKATTR_NONBLOCK of the link
          kstate,   \* tcpi_state, as far as the code looks at it
          sock,     \* sockfd is open
          closing,  \* objclos was called on the link
          freed,    \* ncb_deconstruct ran
          setup,    \* accept or connect has finished setting the link up
          handler,  \* ncb_write
          wpc, off, \* a writer's program counter, and offset of its node
          rets,     \* what tcp_write returned to a writer, call by call
          kpc, top, \* the worker's program counter, and tcp_tx's node of fifo_top
          tasks,    \* tasks of this link in the writer pool
          epc       \* the epoll thread's program counter

linkVars == <<origin, nonblock, kstate, sock, closing, freed, setup, handler>>
writerVars == <<wpc, off, rets>>
workerVars == <<kpc, top, tasks>>
kernelVars == <<wire, acked>>
vars == <<fifoVars, epollVars, kernelVars, linkVars, writerVars, workerVars, epc>>

Packets == Writers \X (1..MaxPackets)
Units == Packets \X (1..PacketLength)
Nodes == [pkt : Packets, off : 0..PacketLength]

TypeOK ==
    /\ fifo \in Seq(Nodes) /\ size \in Nat
    /\ {overflow, attached, epollout, ready} \subseteq BOOLEAN
    /\ {nonblock, sock, closing, freed, setup} \subseteq BOOLEAN
    /\ wire \in Seq(Units) /\ acked \in 0..Len(wire)
    /\ Len(wire) - acked <= SendQ
    /\ origin \in {"accepted", "connected"}
    /\ kstate \in {"ESTABLISHED", "CLOSE_WAIT", "SHUT"}
    /\ handler \in {"tcp_tx", "tcp_tx_syn"}
    /\ wpc \in [Writers -> {"idle", "test", "send", "queue"}]
    /\ off \in [Writers -> 0..PacketLength]
    /\ rets \in [Writers -> Seq({"success", "failure"})]
    /\ kpc \in {"idle", "syn", "top", "send", "pop", "disarm"}
    /\ top \in Packets \union {<<>>}
    /\ tasks \in Nat
    /\ epc \in {"idle", "rdhup"}

\* An accepted link is attached without EPOLLOUT and its callback is running;
\* a connecting link was attached with EPOLLOUT, the connection has just been
\* established and the worker has the task.  LINKATTR_NONBLOCK is set by
\* _tcp_connect2, but not for domain sockets and not for accepted links, whose
\* sockets do not block either; an accepted link gets it from its listener
\* (LINKATTR_TCP_UPDATE_ACCEPT_CONTEXT) or from the application.
Init ==
    /\ FifoInit
    /\ origin \in {"accepted", "connected"} /\ nonblock \in Nonblock
    /\ attached = TRUE
    /\ epollout = (origin = "connected")
    /\ ready = FALSE
    /\ wire = <<>> /\ acked = 0
    /\ kstate = "ESTABLISHED" /\ sock = TRUE
    /\ closing = FALSE /\ freed = FALSE /\ setup = FALSE
    /\ handler = IF origin = "accepted" THEN "tcp_tx" ELSE "tcp_tx_syn"
    /\ wpc = [w \in Writers |-> "idle"]
    /\ off = [w \in Writers |-> 0]
    /\ rets = [w \in Writers |-> <<>>]
    /\ kpc = "idle" /\ top = <<>>
    /\ tasks = IF origin = "accepted" THEN 0 ELSE 1
    /\ epc = "idle"

\* Does ILLEGAL_PARAMETER_CHECK(illegal) make its function return?
Rejects(illegal) == IF ChecksInverted THEN ~illegal ELSE illegal

----------------------------------------------------------------------------
(* ncb_senddata and the loop of tcp_txn around it.                         *)

\* What one round of the loop can come to: the unsent units the kernel takes
\* and how the loop goes on.  A rejected call leaves errno as it was, and
\* tcp_txn returns the negated errno, zero included.
Rounds(done) ==
    IF Rejects(FALSE) THEN [took : {0}, then : {"success", "EAGAIN", "fatal"}]
    ELSE IF ~sock \/ kstate = "SHUT" THEN [took : {0}, then : {"fatal"}]
    ELSE IF Room = 0 THEN [took : {0}, then : {"EAGAIN"}]
    ELSE IF Room < PacketLength - done THEN [took : {Room}, then : {"again"}]
    ELSE [took : {PacketLength - done}, then : {"success"}]

\* The kernel takes units done+1 .. done+n of packet p.
Take(p, done, n) ==
    /\ wire' = wire \o [i \in 1..n |-> <<p, done + i>>]
    /\ UNCHANGED acked

----------------------------------------------------------------------------
(* tcp_write.                                                              *)

Packet(w) == <<w, Len(rets[w]) + 1>>

\* Calls of tcp_write so far, and whether w may make another one.
Calls == FoldFunction(+, 0, [w \in Writers |-> Len(rets[w]) + (IF wpc[w] = "idle" THEN 0 ELSE 1)])

MayWrite(w) == wpc[w] = "idle" /\ Calls < MaxPackets /\ (setup \/ EarlyWrite)

WriterReturns(w, status) ==
    /\ rets' = [rets EXCEPT ![w] = Append(@, status)]
    /\ wpc' = [wpc EXCEPT ![w] = "idle"]
    /\ off' = [off EXCEPT ![w] = 0]

WriterAt(w, label) == wpc' = [wpc EXCEPT ![w] = label] /\ UNCHANGED <<off, rets>>

\* The link is referenced and the kernel asked for its state.  In a state
\* other than ESTABLISHED the call ends, with the status of the question.
WriteBegin(w) ==
    /\ MayWrite(w)
    /\ ~closing
    /\ IF sock /\ kstate # "ESTABLISHED"
       THEN WriterReturns(w, "success")
       ELSE WriterAt(w, "test")
    /\ UNCHANGED <<fifoVars, epollVars, kernelVars, linkVars, workerVars, epc>>

\* The handle is closed, or, on a link whose state is no objection, there is
\* no memory for the packet or its node, or the application's builder or
\* serializer fails.
WriteRefused(w) ==
    /\ MayWrite(w)
    /\ closing \/ (NoMemory /\ ~(sock /\ kstate # "ESTABLISHED"))
    /\ WriterReturns(w, "failure")
    /\ UNCHANGED <<fifoVars, epollVars, kernelVars, linkVars, workerVars, epc>>

\* Mutant: the overflow flag is not consulted.
Mut_WriteTestSkipped(w) ==
    /\ wpc[w] = "test"
    /\ WriterAt(w, "send")
    /\ UNCHANGED <<fifoVars, epollVars, kernelVars, linkVars, workerVars, epc>>

WriteTest(w) ==
    /\ wpc[w] = "test"
    /\ WriterAt(w, IF fifo_tx_overflow(nonblock) THEN "queue" ELSE "send")
    /\ UNCHANGED <<fifoVars, epollVars, kernelVars, linkVars, workerVars, epc>>

WriteSend(w) ==
    /\ wpc[w] = "send"
    /\ \E r \in Rounds(off[w]) :
          /\ Take(Packet(w), off[w], r.took)
          /\ CASE r.then = "success" -> WriterReturns(w, "success")
               [] r.then = "fatal" -> WriterReturns(w, "failure")
               [] r.then = "EAGAIN" -> WriterAt(w, "queue")
               [] r.then = "again" -> /\ off' = [off EXCEPT ![w] = @ + r.took]
                                      /\ UNCHANGED <<wpc, rets>>
    /\ UNCHANGED <<fifoVars, epollVars, linkVars, workerVars, epc>>

\* Mutant: the node is queued as if nothing of it had been sent.
Mut_WriteQueueRewinds(w) ==
    /\ wpc[w] = "queue"
    /\ \/ QueueTakes([pkt |-> Packet(w), off |-> 0]) /\ WriterReturns(w, "success")
       \/ QueueRefuses /\ WriterReturns(w, "failure")
    /\ UNCHANGED <<kernelVars, linkVars, workerVars, epc>>

WriteQueue(w) ==
    /\ wpc[w] = "queue"
    /\ \/ QueueTakes([pkt |-> Packet(w), off |-> off[w]]) /\ WriterReturns(w, "success")
       \/ QueueRefuses /\ WriterReturns(w, "failure")
    /\ UNCHANGED <<kernelVars, linkVars, workerVars, epc>>

----------------------------------------------------------------------------
(* The writer-pool thread: _wp_run, _wp_exec, tcp_tx, tcp_txn.             *)

\* _wp_get_task, objrefr, and the state check of tcp_tx.
WorkerTake ==
    /\ kpc = "idle" /\ tasks > 0
    /\ tasks' = tasks - 1
    /\ IF closing THEN UNCHANGED <<kpc, closing>>
       ELSE IF handler = "tcp_tx_syn" THEN kpc' = "syn" /\ UNCHANGED closing
       ELSE IF sock /\ kstate # "ESTABLISHED" THEN closing' = TRUE /\ UNCHANGED kpc
       ELSE kpc' = "top" /\ UNCHANGED closing
    /\ UNCHANGED <<top, origin, nonblock, kstate, sock, freed, setup, handler>>
    /\ UNCHANGED <<fifoVars, epollVars, kernelVars, writerVars, epc>>

\* fifo_top.
WorkerTop ==
    /\ kpc = "top"
    /\ IF fifo = <<>> THEN kpc' = "idle" /\ UNCHANGED top
                      ELSE kpc' = "send" /\ top' = fifo[1].pkt
    /\ UNCHANGED <<fifoVars, epollVars, kernelVars, linkVars, writerVars, tasks, epc>>

\* Mutant: the offset runs ahead of what was sent.
Mut_AdvanceBeyond(n) == fifo' = [fifo EXCEPT ![1].off = @ + n + 1]

\* Mutant: the offset is left where it was.
Mut_AdvanceNot(n) == UNCHANGED fifo

\* node->offset += wcb.
Advance(n) == fifo' = [fifo EXCEPT ![1].off = @ + n]

\* One round of tcp_txn on the node that fifo_top returned.
WorkerSend ==
    /\ kpc = "send"
    /\ \E r \in Rounds(fifo[1].off) :
          /\ Take(top, fifo[1].off, r.took)
          /\ Advance(r.took)
          /\ CASE r.then = "success" -> kpc' = "pop" /\ UNCHANGED closing
               [] r.then = "fatal" -> kpc' = "idle" /\ closing' = TRUE
               [] r.then = "EAGAIN" -> kpc' = "idle" /\ UNCHANGED closing
               [] r.then = "again" -> UNCHANGED <<kpc, closing>>
          /\ top' = IF r.then = "again" THEN top ELSE <<>>
    /\ UNCHANGED <<size, overflow, tasks, origin, nonblock, kstate, sock, freed>>
    /\ UNCHANGED <<setup, handler>>
    /\ UNCHANGED <<epollVars, writerVars, epc>>

\* fifo_pop after a send that succeeded; a node that was popped puts the
\* task back in the pool, after EPOLLOUT was disarmed if that is due.
WorkerPop ==
    /\ kpc = "pop"
    /\ PopLocked
    /\ kpc' = IF PopCancels THEN "disarm" ELSE "idle"
    /\ tasks' = IF fifo # <<>> /\ ~PopCancels THEN tasks + 1 ELSE tasks
    /\ UNCHANGED <<epollVars, kernelVars, linkVars, writerVars, top, epc>>

WorkerDisarm ==
    /\ kpc = "disarm"
    /\ io_modify(FALSE)
    /\ kpc' = "idle" /\ tasks' = tasks + 1
    /\ UNCHANGED <<fifoVars, kernelVars, linkVars, writerVars, top, epc>>

\* tcp_tx_syn where SO_ERROR is zero: the handlers are replaced, only EPOLLIN
\* is left in the mask, and the caller goes on to fifo_pop.
WorkerSyn ==
    /\ kpc = "syn" /\ sock
    /\ handler' = "tcp_tx"
    /\ io_modify(FALSE)
    /\ IF attached THEN kpc' = "pop" /\ setup' = TRUE /\ UNCHANGED closing
                   ELSE kpc' = "idle" /\ closing' = TRUE /\ UNCHANGED setup
    /\ UNCHANGED <<fifoVars, kernelVars, writerVars, origin, nonblock, kstate, sock, freed>>
    /\ UNCHANGED <<tasks, top, epc>>

\* There is no memory for the rx buffer, or SO_ERROR is fatal: the link has
\* been shut down or reset, or the socket is closed.
WorkerSynFails ==
    /\ kpc = "syn"
    /\ NoMemory \/ ~sock \/ kstate # "ESTABLISHED"
    /\ kpc' = "idle" /\ closing' = TRUE
    /\ UNCHANGED <<origin, nonblock, kstate, sock, freed, setup, handler, tasks, top>>
    /\ UNCHANGED <<fifoVars, epollVars, kernelVars, writerVars, epc>>

\* EISCONN and EALREADY count as success, EAGAIN waits for the next event; the
\* handlers stay.
WorkerSynLeft ==
    /\ kpc = "syn" /\ sock
    /\ \/ "EISCONN" \in SoErrors /\ kpc' = "pop"
       \/ "EAGAIN" \in SoErrors /\ kpc' = "idle"
    /\ UNCHANGED <<fifoVars, epollVars, kernelVars, linkVars, writerVars, tasks, top, epc>>

----------------------------------------------------------------------------
(* The epoll thread of the link: _iorun and _io_rdhup; and the end of      *)
(* _tcp_syn_dpc, which runs in the listener's, the same one or another.    *)

\* After the accepted callback EPOLLIN is enabled.
EpollAccepted ==
    /\ origin = "accepted" /\ ~setup
    /\ setup' = TRUE
    /\ io_modify(FALSE)
    /\ UNCHANGED <<fifoVars, kernelVars, writerVars, workerVars, epc>>
    /\ UNCHANGED <<origin, nonblock, kstate, sock, closing, freed, handler>>

\* Mutant: the event is taken but no task is queued.
Mut_EpollOutIgnored ==
    /\ ready /\ epc = "idle" /\ kstate = "ESTABLISHED"
    /\ ready' = FALSE
    /\ UNCHANGED <<attached, epollout, tasks, kpc, top, epc>>
    /\ UNCHANGED <<fifoVars, kernelVars, linkVars, writerVars>>

\* The ready list is read: the event is reported if the socket is writable
\* and interested now, and wp_queued makes a task of it.  Its failure is
\* not looked at.
EpollOut ==
    /\ ready /\ epc = "idle" /\ kstate = "ESTABLISHED"
    /\ ready' = FALSE
    /\ \/ tasks' = tasks + (IF attached /\ epollout /\ Room > 0 /\ ~closing THEN 1 ELSE 0)
       \/ NoMemory /\ tasks' = tasks
    /\ UNCHANGED <<attached, epollout, kpc, top, epc>>
    /\ UNCHANGED <<fifoVars, kernelVars, linkVars, writerVars>>

\* EPOLLRDHUP: the socket is detached first ...
RdhupDetach ==
    /\ kstate # "ESTABLISHED" /\ attached /\ ~closing /\ epc = "idle"
    /\ attached' = FALSE /\ epollout' = FALSE /\ ready' = FALSE
    /\ epc' = "rdhup"
    /\ UNCHANGED <<fifoVars, kernelVars, linkVars, writerVars, workerVars>>

\* ... and, when pending data has been read, closed, the link with it.
RdhupClose ==
    /\ epc = "rdhup"
    /\ sock' = FALSE /\ closing' = TRUE
    /\ epc' = "idle"
    /\ UNCHANGED <<origin, nonblock, kstate, freed, setup, handler>>
    /\ UNCHANGED <<fifoVars, epollVars, kernelVars, writerVars, workerVars>>

\* EPOLLERR on a reset link, or a tcp_rx that failed on what the peer sent:
\* the link is closed without touching its socket.
EpollErr ==
    /\ attached /\ ~closing /\ epc = "idle"
    /\ kstate = "SHUT" \/ (Hangup /\ setup)
    /\ closing' = TRUE
    /\ UNCHANGED <<origin, nonblock, kstate, sock, freed, setup, handler>>
    /\ UNCHANGED <<fifoVars, epollVars, kernelVars, writerVars, workerVars, epc>>

----------------------------------------------------------------------------
\* The peer closes its end, or tcp_destroy shuts the socket down.
Shutdown ==
    /\ Hangup /\ kstate = "ESTABLISHED" /\ sock
    /\ kstate' \in {"CLOSE_WAIT", "SHUT"}
    /\ UNCHANGED <<origin, nonblock, sock, closing, freed, setup, handler>>
    /\ UNCHANGED <<fifoVars, epollVars, kernelVars, writerVars, workerVars, epc>>

Peer == Drain /\ UNCHANGED <<linkVars, writerVars, workerVars, epc>>

\* Mutant: the worker does not count as a holder.
Mut_ReferencedNotByWorker ==
    (\E w \in Writers : wpc[w] # "idle") \/ epc # "idle" \/ (origin = "accepted" /\ ~setup)

\* The threads that hold a reference to the link.
Referenced ==
    \/ \E w \in Writers : wpc[w] # "idle"
    \/ kpc # "idle" \/ epc # "idle"
    \/ origin = "accepted" /\ ~setup

\* Mutant: the queue is not cleaned up.
Mut_ReleaseSocketOnly ==
    /\ sock' = FALSE /\ attached' = FALSE /\ epollout' = FALSE /\ ready' = FALSE
    /\ UNCHANGED fifo

\* io_close and fifo_uninit.
Release ==
    /\ sock' = FALSE /\ attached' = FALSE /\ epollout' = FALSE /\ ready' = FALSE
    /\ fifo' = <<>>

\* ncb_deconstruct, run by whoever gives the last reference back.
Deconstruct ==
    /\ closing /\ ~freed /\ ~Referenced
    /\ freed' = TRUE
    /\ IF Rejects(FALSE) THEN UNCHANGED <<fifo, sock, epollVars>> ELSE Release
    /\ UNCHANGED <<size, overflow, origin, nonblock, kstate, closing, setup, handler>>
    /\ UNCHANGED <<kernelVars, writerVars, workerVars, epc>>

Worker ==
    \/ WorkerTake \/ WorkerTop \/ WorkerSend \/ WorkerPop \/ WorkerDisarm
    \/ WorkerSyn \/ WorkerSynFails \/ WorkerSynLeft
\* What the epoll thread does of itself; that tcp_rx fails is up to the peer.
Epoll ==
    EpollAccepted \/ EpollOut \/ RdhupDetach \/ RdhupClose \/ (kstate = "SHUT" /\ EpollErr)

Next ==
    \/ \E w \in Writers :
          WriteBegin(w) \/ WriteRefused(w) \/ WriteTest(w) \/ WriteSend(w) \/ WriteQueue(w)
    \/ WorkerTake \/ WorkerTop \/ WorkerSend \/ WorkerPop \/ WorkerDisarm
    \/ WorkerSyn \/ WorkerSynFails \/ WorkerSynLeft
    \/ EpollAccepted \/ EpollOut \/ RdhupDetach \/ RdhupClose \/ EpollErr
    \/ Shutdown \/ Peer \/ Deconstruct

Spec == Init /\ [][Next]_vars

\* The worker wakes up at least every 10 ms and the epoll thread whenever
\* its ready list is not empty; a thread inside tcp_write goes on; a peer
\* that is alive acknowledges what it receives.
Fairness ==
    /\ WF_vars(Worker) /\ WF_vars(Epoll) /\ WF_vars(Peer)
    /\ \A w \in Writers : WF_vars(WriteTest(w) \/ WriteSend(w) \/ WriteQueue(w))

FairSpec == Spec /\ Fairness

----------------------------------------------------------------------------
(* Properties.                                                             *)

\* fifo->size, the list and the overflow flag agree in every state in which
\* the queue's lock is free, whatever writers and the worker do.
QueueConsistent == ~freed => FifoConsistent

\* The node the worker got from fifo_top stays at the head of the queue, and
\* the queue alive, while the worker sends it outside the lock.
WorkerOwnsHead ==
    kpc = "send" => ~freed /\ fifo # <<>> /\ fifo[1].pkt = top

UnitsOf(p) == SelectSeq(wire, LAMBDA u : u[1] = p)

\* The bytes of a packet leave in order and none leaves twice, although a
\* writer may have sent the first of them and the worker sends the rest.
UnitsInOrder ==
    \A p \in Packets : \A i \in 1..Len(UnitsOf(p)) : UnitsOf(p)[i][2] = i

InFlight(p) == \E i \in 1..Len(fifo) : fifo[i].pkt = p /\ fifo[i].off = Len(UnitsOf(p))

Handled(p) == Len(UnitsOf(p)) = PacketLength \/ InFlight(p)

Accepted(p) == Len(rets[p[1]]) >= p[2] /\ rets[p[1]][p[2]] = "success"

\* A packet tcp_write accepted on an established link is with the kernel, or
\* in the queue with exactly the part that the kernel does not have.  (On a
\* connected link the fifo_pop that follows tcp_tx_syn may take one away.)
AcceptedIsHandled ==
    origin = "accepted" /\ kstate = "ESTABLISHED" /\ ~closing =>
        \A p \in Packets : Accepted(p) => Handled(p)

Follows(a, b) ==
    \/ b[1] = a[1] /\ b[2] = a[2] + 1
    \/ a[2] = PacketLength /\ b[2] = 1 /\ (b[1][1] = a[1][1] => b[1][2] > a[1][2])

\* The packets of a single writer leave an accepted link with
\* LINKATTR_NONBLOCK whole and in the order in which they were written.
PacketsContiguous ==
    origin = "accepted" /\ nonblock =>
        \A i \in 1..(Len(wire) - 1) : Follows(wire[i], wire[i + 1])

\* "queue data to the tail of fifo manager, preserve the sequence of output
\* order" (tcp.c:997): the same whatever the attributes of the accepted link.
OutputOrder ==
    origin = "accepted" => \A i \in 1..(Len(wire) - 1) : Follows(wire[i], wire[i + 1])

\* Data does not stay in the queue while the link is established and
\* EPOLLOUT is armed: the worker is woken for it.
ArmedQueueDrains ==
    []<>~(fifo # <<>> /\ epollout /\ kstate = "ESTABLISHED" /\ ~closing)

\* "after fifo_queue success called, IO blocking flag is set, and EPOLLOUT
\* event has been associated with ncb object": while the flag is up on a
\* link that is in its epoll set, the event is armed.
OverflowIsArmed == overflow /\ attached => epollout

\* A link that is gone has released its socket and its queue.
ClosedReleases == freed => ~sock /\ fifo = <<>>
=============================================================================
