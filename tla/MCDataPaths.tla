----------------------------- MODULE MCDataPaths -----------------------------
(* The paths data takes, one behaviour for each: a TCP link with a single  *)
(* writer, a UDP link, the reassembly of packets, and the ring buffer.     *)
(* `part' says which one a behaviour is about; the others stay as they     *)
(* were created.                                                           *)
EXTENDS TcpTx

CONSTANTS w1, w2

VARIABLES part,
          u_fifo, u_size, u_overflow, u_attached, u_epollout, u_ready, u_wire, u_acked,
          u_sock, u_closing, u_freed, u_wpc, u_rets, u_kpc, u_tasks, u_epc,
          p_template, p_sizes, p_got, p_rx, p_parse, p_lb, p_lbsize, p_posted, p_closed,
          p_split,
          r_buffer, r_in, r_out, r_call

OneWriter == {w1}
AnyAttribute == {TRUE, FALSE}

\* Two writers with two datagrams each, and room for one in the kernel.
Udp == INSTANCE UdpTx WITH
    Writers <- {w1, w2}, MaxPackets <- 2, SendQ <- 1, MAXIMUM_FIFO_SIZE <- 2,
    fifo <- u_fifo, size <- u_size, overflow <- u_overflow, attached <- u_attached,
    epollout <- u_epollout, ready <- u_ready, wire <- u_wire, acked <- u_acked,
    sock <- u_sock, closing <- u_closing, freed <- u_freed, wpc <- u_wpc, rets <- u_rets,
    kpc <- u_kpc, tasks <- u_tasks, epc <- u_epc

\* A header of 2, a buffer of 5 and a largest payload of 7: payloads of zero,
\* small, exactly one buffer, large, the largest and too large; and one whose
\* header the parser refuses.
Parser == INSTANCE TcpParser WITH
    cb_ <- 2, TCP_BUFFER_SIZE <- 5, Refused <- {2}, Misread <- 1,
    TCP_MAXIMUM_PACKET_SIZE <- 7, PayloadSizes <- {0, 1, 2, 3, 4, 7, 8}, MaxPackets <- 3,
    template <- p_template, sizes <- p_sizes, got <- p_got, rx <- p_rx, parse <- p_parse,
    lb <- p_lb, lbsize <- p_lbsize, posted <- p_posted, closed <- p_closed, split <- p_split

\* A ring of four bytes whose counters wrap after two rounds of it.
Ring == INSTANCE Ckfifo WITH
    Bytes <- {0, 1}, size <- 4, Modulus <- 8,
    buffer <- r_buffer, in <- r_in, out <- r_out, call <- r_call

ASSUME Udp!WritersAssumption /\ Parser!SizesAssumption /\ Ring!SizeAssumption

udpVars == <<u_fifo, u_size, u_overflow, u_attached, u_epollout, u_ready, u_wire, u_acked,
             u_sock, u_closing, u_freed, u_wpc, u_rets, u_kpc, u_tasks, u_epc>>
parserVars == <<p_template, p_sizes, p_got, p_rx, p_parse, p_lb, p_lbsize, p_posted,
                p_closed, p_split>>
ringVars == <<r_buffer, r_in, r_out, r_call>>
allVars == <<part, vars, udpVars, parserVars, ringVars>>

\* A part that a behaviour is not about has one initial state.
DataInit ==
    /\ part \in {"tcp", "udp", "parser", "ring"}
    /\ Init /\ (part # "tcp" => origin = "accepted" /\ nonblock)
    /\ Udp!Init
    /\ Parser!Init /\ (part # "parser" => p_template = "raw" /\ p_sizes = <<1>>)
    /\ Ring!Init /\ (part # "ring" => \A i \in DOMAIN r_buffer : r_buffer[i] = 0)

InTcp(A) == part = "tcp" /\ A /\ UNCHANGED <<part, udpVars, parserVars, ringVars>>

DataNext ==
    \/ InTcp(Next)
    \/ part = "udp" /\ Udp!Next /\ UNCHANGED <<part, vars, parserVars, ringVars>>
    \/ part = "parser" /\ Parser!Next /\ UNCHANGED <<part, vars, udpVars, ringVars>>
    \/ part = "ring" /\ Ring!Next /\ UNCHANGED <<part, vars, udpVars, parserVars>>

\* The fairness of TcpTx.
DataSpec ==
    /\ DataInit /\ [][DataNext]_allVars
    /\ WF_allVars(InTcp(Worker)) /\ WF_allVars(InTcp(Epoll)) /\ WF_allVars(InTcp(Peer))
    /\ \A w \in Writers :
          WF_allVars(InTcp(WriteTest(w) \/ WriteSend(w) \/ WriteQueue(w)))

\* The variables of the UDP link, the parser and the ring keep their types and
\* ranges: the counter of tasks, rx_parse_buffer, and in and out.
UdpTypeOK == Udp!TypeOK
ParserTypeOK == Parser!TypeOK
RingTypeOK == Ring!TypeOK

\* The transmit queue of a UDP link is consistent although udp_tx and _wp_exec
\* both pop, and the node the worker sends is at its head.
UdpQueueConsistent == Udp!QueueConsistent

\* No datagram is sent twice, and one that udp_write refused is not sent.
SentAtMostOnce == Udp!SentAtMostOnce

\* tcp_parse_pkt loses, repeats and reorders nothing of the stream, except
\* for a large block whose header arrives in two pieces.
StreamPreserved == Parser!StreamPreserved

\* With a template every callback gets exactly the next packet the peer sent.
PacketPerCallback == Parser!PacketPerCallback

\* tcp_parse_pkt fails only for want of a parser or because of the next packet.
ClosedForCause == Parser!ClosedForCause

\* ckfifo_put and ckfifo_get implement a bounded first-in first-out queue.
IsQueue == Ring!IsQueue
=============================================================================
