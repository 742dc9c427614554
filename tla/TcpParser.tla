------------------------------ MODULE TcpParser ------------------------------
(***************************************************************************)
(* Reassembly of packets from the TCP stream: tcp_rx and _tcp_rx in        *)
(* src/src/posix/tcpio.c, tcp_parse_pkt and _tcp_parse_marked_lb in        *)
(* tcpal.c.  The peer sends packets of a header of cb_ bytes and a payload *)
(* whose length the template's parser reads from the header; the stream is *)
(* received in pieces of any length.                                       *)
(*                                                                         *)
(* A byte is <<k, i>>, the i-th byte of the k-th packet.                   *)
(***************************************************************************)
EXTENDS Naturals, Sequences, SequencesExt

CONSTANTS cb_,                     \* template.cb_, the length of a header
          TCP_BUFFER_SIZE,         \* capacity of rx_buffer and rx_parse_buffer
          Refused,                 \* payload lengths whose header the parser refuses
          Misread,                 \* what the parser reads from bytes that are no header
          TCP_MAXIMUM_PACKET_SIZE, \* largest payload that is accepted
          PayloadSizes,            \* bound: payload lengths the peer sends
          MaxPackets               \* bound: packets the peer sends

\* What the constants must satisfy.
SizesAssumption ==
    /\ cb_ \in Nat \ {0} /\ TCP_BUFFER_SIZE \in Nat \ {0} /\ cb_ <= TCP_BUFFER_SIZE
    /\ TCP_MAXIMUM_PACKET_SIZE \in Nat /\ PayloadSizes \subseteq Nat /\ Refused \subseteq Nat
    /\ Misread \in Nat /\ MaxPackets \in Nat

VARIABLES template, \* the link's template is "full", has a header but "noparser",
                    \* or there is none and the stream is "raw"
          sizes,  \* payload length of each packet the peer sends
          got,    \* bytes of the stream received so far
          rx,     \* what is left to parse of rx_buffer
          parse,  \* rx_parse_buffer up to rx_parse_offset
          lb,     \* lbdata up to lboffset
          lbsize, \* lbsize; 0 when no large block is being built
          posted, \* the data of each EVT_RECEIVEDATA, headers included
          closed, \* a parse failed and the link was closed
          split   \* history: a large block was begun when part of its header had
                  \* arrived in an earlier piece

vars == <<template, sizes, got, rx, parse, lb, lbsize, posted, closed, split>>

PacketBytes(k) == [i \in 1..(cb_ + sizes[k]) |-> <<k, i>>]

Packets == [k \in 1..Len(sizes) |-> PacketBytes(k)]

Stream == FlattenSeq(Packets)

TypeOK ==
    /\ sizes \in Seq(PayloadSizes)
    /\ got \in 0..Len(Stream)
    /\ Len(rx) <= TCP_BUFFER_SIZE
    /\ Len(parse) < TCP_BUFFER_SIZE
    /\ lbsize \in Nat /\ Len(lb) <= lbsize
    /\ template \in {"full", "noparser", "raw"} /\ closed \in BOOLEAN /\ split \in BOOLEAN

Init ==
    /\ template \in {"full", "noparser", "raw"}
    /\ sizes \in UNION {[1..n -> PayloadSizes] :
                        n \in 1..(IF template = "full" THEN MaxPackets ELSE 1)}
    /\ got = 0 /\ rx = <<>> /\ parse = <<>> /\ lb = <<>> /\ lbsize = 0
    /\ posted = <<>> /\ closed = FALSE /\ split = FALSE

\* ncb_recvdata fills rx_buffer with what has arrived.
Receive ==
    /\ ~closed /\ rx = <<>>
    /\ \E n \in 1..TCP_BUFFER_SIZE :
          /\ got + n <= Len(Stream)
          /\ rx' = SubSeq(Stream, got + 1, got + n)
          /\ got' = got + n
    /\ UNCHANGED <<template, sizes, parse, lb, lbsize, posted, closed, split>>

----------------------------------------------------------------------------
(* tcp_parse_pkt, one action per way through it.  Each is a call with the  *)
(* rest of rx_buffer; what it does not use is the argument of the next.    *)

Calling == ~closed /\ rx # <<>>

\* Without a template the data is given to the callback as it is.
ParseRaw ==
    /\ Calling /\ template = "raw"
    /\ posted' = Append(posted, rx)
    /\ rx' = <<>> /\ parse' = <<>>
    /\ UNCHANGED <<template, sizes, got, lb, lbsize, closed, split>>

\* Mutant: a block that is exactly full waits for more.
Mut_LargeNeverFull == Len(rx) + Len(lb) > lbsize

\* _tcp_parse_marked_lb: does the data fill the large block?
LargeFull == Len(rx) + Len(lb) >= lbsize

LargeFill ==
    /\ Calling /\ template # "raw" /\ lbsize > 0 /\ ~LargeFull
    /\ lb' = lb \o rx /\ rx' = <<>>
    /\ UNCHANGED <<template, sizes, got, parse, lbsize, posted, closed, split>>

\* Mutant: what follows the block in the piece is not given back.
Mut_LargeCompleteDropsRest ==
    /\ Calling /\ template # "raw" /\ lbsize > 0 /\ LargeFull
    /\ posted' = Append(posted, lb \o SubSeq(rx, 1, lbsize - Len(lb)))
    /\ rx' = <<>> /\ lb' = <<>> /\ lbsize' = 0
    /\ UNCHANGED <<template, sizes, got, parse, closed, split>>

LargeComplete ==
    /\ Calling /\ template # "raw" /\ lbsize > 0 /\ LargeFull
    /\ LET overplus == lbsize - Len(lb) IN
          /\ posted' = Append(posted, lb \o SubSeq(rx, 1, overplus))
          /\ rx' = SubSeq(rx, overplus + 1, Len(rx))
    /\ lb' = <<>> /\ lbsize' = 0
    /\ UNCHANGED <<template, sizes, got, parse, closed, split>>

\* Still not a whole header.
ParseShort ==
    /\ Calling /\ template # "raw" /\ lbsize = 0 /\ Len(parse) + Len(rx) < cb_
    /\ parse' = parse \o rx /\ rx' = <<>>
    /\ UNCHANGED <<template, sizes, got, lb, lbsize, posted, closed, split>>

HasHeader == Calling /\ template # "raw" /\ lbsize = 0 /\ Len(parse) + Len(rx) >= cb_

\* Bytes of this call that complete the header.
Used == IF Len(parse) < cb_ THEN cb_ - Len(parse) ELSE 0

\* rx_parse_buffer once the header is in it, and what is left of the data.
Parsed == parse \o SubSeq(rx, 1, Used)
Rest == SubSeq(rx, Used + 1, Len(rx))

\* What the parser says of the header: the payload's length, if the bytes
\* are a packet's header.
Length ==
    IF \A i \in 1..cb_ : Parsed[i] = <<Parsed[1][1], i>>
    THEN sizes[Parsed[1][1]] ELSE Misread

\* Mutant: a payload of one byte is refused.
Mut_Legal(n) ==
    /\ template = "full" /\ n \notin Refused
    /\ 1 < n /\ n <= TCP_MAXIMUM_PACKET_SIZE

\* There is a parser, it accepts the header, and the length is in range.
Legal(n) ==
    /\ template = "full" /\ n \notin Refused
    /\ 0 < n /\ n <= TCP_MAXIMUM_PACKET_SIZE

\* Mutant: the header is forgotten, a packet larger than the buffer goes in.
Mut_Large(n) == n > TCP_BUFFER_SIZE

Large(n) == n + cb_ > TCP_BUFFER_SIZE

\* The header is refused, or there is no memory for a large block: the link
\* is closed.
ParseFail ==
    /\ HasHeader
    /\ ~Legal(Length) \/ Large(Length)
    /\ closed' = TRUE
    /\ parse' = Parsed /\ rx' = Rest
    /\ UNCHANGED <<template, sizes, got, lb, lbsize, posted, split>>

\* A large block is begun with the data of this call.
ParseLarge ==
    /\ HasHeader
    /\ Legal(Length) /\ Large(Length)
    /\ lbsize' = Length + cb_
    /\ lb' = rx /\ rx' = <<>> /\ parse' = <<>>
    /\ split' = (split \/ parse # <<>>)
    /\ UNCHANGED <<template, sizes, got, posted, closed>>

\* Bytes that complete a packet that fits the buffer.
Needed == Length + cb_ - Len(Parsed)

\* The packet is complete.
ParsePacket ==
    /\ HasHeader
    /\ Legal(Length) /\ ~Large(Length) /\ Len(Rest) >= Needed
    /\ posted' = Append(posted, Parsed \o SubSeq(Rest, 1, Needed))
    /\ rx' = SubSeq(Rest, Needed + 1, Len(Rest)) /\ parse' = <<>>
    /\ UNCHANGED <<template, sizes, got, lb, lbsize, closed, split>>

\* The packet is not complete yet.
ParsePart ==
    /\ HasHeader
    /\ Legal(Length) /\ ~Large(Length) /\ Len(Rest) < Needed
    /\ parse' = Parsed \o Rest /\ rx' = <<>>
    /\ UNCHANGED <<template, sizes, got, lb, lbsize, posted, closed, split>>

Next ==
    \/ Receive \/ ParseRaw \/ LargeFill \/ LargeComplete
    \/ ParseShort \/ ParseFail \/ ParseLarge \/ ParsePacket \/ ParsePart

Spec == Init /\ [][Next]_vars

----------------------------------------------------------------------------
(* Properties.                                                             *)

\* Nothing is lost, repeated or reordered on the way to the callback: what
\* was posted and what the two buffers hold are the stream as received, and
\* once all of it has been parsed without an error no packet is left behind in
\* a buffer.  (A large block whose header arrives in two pieces loses the
\* first of them.)
StreamPreserved ==
    ~split => /\ FlattenSeq(posted) \o lb \o parse \o rx = SubSeq(Stream, 1, got)
              /\ got = Len(Stream) /\ rx = <<>> /\ ~closed => lb = <<>> /\ parse = <<>>

\* With a template every callback gets exactly the next packet the peer
\* sent, however the stream was cut.
PacketPerCallback == template # "raw" /\ ~split => IsPrefix(posted, Packets)

\* The same without the exception: lbsize is "total large-block length,
\* include the low-level protocol head length" (tcpal.c:112), and the block
\* gets "all data" (tcpal.c:115).
PacketPerCallbackAlways == template # "raw" => IsPrefix(posted, Packets)

\* tcp_parse_pkt fails only for want of a parser, or because of the next
\* packet the peer sent: its parser refuses the header, its length is zero or
\* above TCP_MAXIMUM_PACKET_SIZE, or it needs a large block.
ClosedForCause ==
    closed /\ ~split =>
        LET n == sizes[Len(posted) + 1] IN
        \/ template = "noparser" \/ n \in Refused
        \/ n \notin 1..TCP_MAXIMUM_PACKET_SIZE \/ Large(n)
=============================================================================
