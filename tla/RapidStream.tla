----------------------------- MODULE RapidStream ------------------------------
(***************************************************************************)
(* Rapid frames over one direction of a connection: net/connect's OnWrite  *)
(* and OnRead with the frames of protocol/rapid, between two processes.    *)
(*                                                                         *)
(* A frame is a header, which says how long it is, and a body; what is     *)
(* sent and read here are pieces of frames.  <<f, i>> is the i-th piece of *)
(* frame f: the pieces up to HeadSize are its header, the first of them    *)
(* has the magic number, the last the size.  The buffers are byte queues   *)
(* (see module Buffer).                                                    *)
(***************************************************************************)
EXTENDS Integers, Sequences

CONSTANTS
    FrameSize,      \* the sizes of the frames, in the order in which they are sent
    HeadSize,       \* sizeof(RapidHead)
    Chunk,          \* the 8 K that OnRead reads at a time
    Room,           \* what the kernel takes before a write would block
    max_send_buf_failed_size

ASSUME StreamAssumption ==
    /\ HeadSize \in Nat \ {0} /\ Chunk \in Nat \ {0} /\ Room \in Nat
    /\ max_send_buf_failed_size \in Nat
    /\ FrameSize \in Seq(Nat) /\ \A f \in DOMAIN FrameSize : FrameSize[f] >= HeadSize

VARIABLES
    next,       \* the frame to be sent next
    outgoing,   \* the sender's outbuf_
    network,    \* sent and not read
    closed,     \* the sender has ended the connection
    torn,       \* the sender has dropped the rest of a frame it had begun to send
    incoming,   \* the receiver's inbuf_
    shutdown,       \* the receiver has shutdown the connection down
    decoded,    \* the messages it has decoded: the pieces of each
    unread      \* complete frames that it read and did not look at

streamVars == <<next, outgoing, network, closed, torn, incoming, shutdown, decoded, unread>>

Pieces(f) == [i \in 1 .. FrameSize[f] |-> <<f, i>>]
DropFront(q, n) == SubSeq(q, n + 1, Len(q))

StreamInit ==
    /\ next = 1 /\ outgoing = <<>> /\ network = <<>> /\ closed = FALSE /\ torn = FALSE
    /\ incoming = <<>> /\ shutdown = FALSE /\ decoded = <<>> /\ unread = FALSE

----------------------------------------------------------------------------
(* The sender.                                                             *)

(* OnWrite of a buffer: it goes out as far as the kernel takes it.  What   *)
(* would block is kept, unless it is long or nothing at all went out; and  *)
(* nothing but the next message makes it go out later.                     *)
OnWrite(buffer) ==
    LET room == Room - Len(network)
        size == IF Len(buffer) < room THEN Len(buffer) ELSE room
        rest == DropFront(buffer, size)
        kept == IF size > 0 /\ Len(rest) <= max_send_buf_failed_size THEN rest ELSE <<>> IN
    /\ network' = network \o SubSeq(buffer, 1, size)
    /\ outgoing' = kept
    /\ torn' = (torn \/ (rest # <<>> /\ kept = <<>> /\ rest[1][2] # 1))

(* HandleIoMessageEvent: Encode, then OnWrite, which shuts down a          *)
(* connection whose other end is gone. *)
SendFrame ==
    /\ next \in DOMAIN FrameSize /\ ~closed
    /\ next' = next + 1
    /\ IF shutdown
       THEN outgoing' = outgoing \o Pieces(next) /\ closed' = TRUE /\ UNCHANGED <<network, torn>>
       ELSE OnWrite(outgoing \o Pieces(next)) /\ UNCHANGED closed
    /\ UNCHANGED <<incoming, shutdown, decoded, unread>>

(* The sender's process closes the connection. *)
CloseSend ==
    /\ ~closed /\ closed' = TRUE
    /\ outgoing' = <<>>
    /\ UNCHANGED <<next, network, torn, incoming, shutdown, decoded, unread>>

----------------------------------------------------------------------------
(* The receiver.                                                           *)

(* RapidProtocol::Decode at position p of a buffer: the size of the frame, *)
(* 0 for "not yet", -1 for "failed" (no magic number, a size out of the    *)
(* pieces of two headers, or a frame that is not complete).                *)
DecodeFrame(buffer, p) ==
    LET total == Len(buffer) - p
        f == buffer[p + 1][1] IN
    IF total < HeadSize THEN 0
    ELSE IF \E i \in 1 .. HeadSize : buffer[p + i] # <<f, i>> THEN -1
    ELSE IF total < FrameSize[f] THEN -1
    ELSE FrameSize[f]

(* Slip: what follows the first frame waits for the next read. *)
ParsedOnce(buffer) ==
    LET size == DecodeFrame(buffer, 0) IN
    [msgs |-> IF size > 0 THEN <<SubSeq(buffer, 1, size)>> ELSE <<>>,
     at |-> IF size > 0 THEN size ELSE 0, failed |-> size = -1]

(* DecodeMsg: frame after frame; what was decoded, up to where, and        *)
(* whether it failed. *)
Parsed(buffer) ==
    LET parse[p \in 0 .. Len(buffer)] ==
            LET size == DecodeFrame(buffer, p) IN
            IF size <= 0 THEN [msgs |-> <<>>, at |-> p, failed |-> size = -1]
            ELSE LET more == parse[p + size] IN
                 [more EXCEPT !.msgs = <<SubSeq(buffer, p + 1, p + size)>> \o @] IN
    parse[0]

(* OnRead of what has arrived, chunk by chunk: if the end of the stream    *)
(* comes right after a full chunk, it returns before it decodes.           *)
OnRead(n) ==
    LET ends == closed /\ n = Len(network)
        buffer == incoming \o SubSeq(network, 1, n)
        result == Parsed(buffer) IN
    /\ ~shutdown /\ (n > 0 \/ ends)
    /\ network' = DropFront(network, n)
    /\ IF ends /\ n % Chunk = 0
       THEN /\ shutdown' = TRUE /\ incoming' = buffer
            /\ unread' = (result.msgs # <<>>) /\ UNCHANGED decoded
       ELSE /\ shutdown' = result.failed /\ incoming' = DropFront(buffer, result.at)
            /\ decoded' = decoded \o result.msgs /\ UNCHANGED unread
    /\ UNCHANGED <<next, outgoing, closed, torn>>

StreamNext ==
    \/ SendFrame \/ CloseSend
    \/ \E n \in 0 .. Room : n <= Len(network) /\ OnRead(n)

StreamSpec == StreamInit /\ [][StreamNext]_streamVars

----------------------------------------------------------------------------
(* Properties.                                                             *)

(* The sender may write a frame in parts, keep a part, or drop whole       *)
(* messages; the receiver may be given any part at a time.  Unless the     *)
(* sender dropped the rest of a frame it had begun (connect.cpp:187),      *)
(* every message decoded is one that was sent, whole, and in order.        *)
DecodedIsSent ==
    ~torn =>
        /\ \A i \in DOMAIN decoded : \E f \in DOMAIN FrameSize : decoded[i] = Pieces(f)
        /\ \A i, j \in DOMAIN decoded : i < j => decoded[i][1][1] < decoded[j][1][1]

(* No complete frame is left behind: when the receiver waits, or has seen  *)
(* the end, what it has is less than a frame, unless the last chunk it     *)
(* read was full.                                                          *)
NothingLeftBehind ==
    ~torn /\ ~unread => Parsed(incoming).msgs = <<>>

(* What is decoded of a stream of frames is what was sent, and nothing     *)
(* that could be decoded waits.                                            *)
StreamInOrder == DecodedIsSent /\ NothingLeftBehind

(* "Some bytes will decode next time" (rapid_protocol.cpp:62)              *)
(* of a frame that has not arrived completely: the connection goes on.     *)
PartialFrameWaits == ~torn /\ ~closed => ~shutdown
=============================================================================
