------------------------------- MODULE Framing -------------------------------
(***************************************************************************)
(* One direction of a session below the streams: send_frame writes a frame, *)
(* SnappyStreamEncoder wraps it into chunks unless nocomp is set, KCP       *)
(* carries the bytes in segments cut anywhere (stream mode), and            *)
(* on_transport_bytes takes them apart again: SnappyStreamDecoder collects  *)
(* chunks, consume_stream_bytes collects frames.                            *)
(*                                                                         *)
(* The bytes of a unit (a frame, an identifier, a chunk) are numbered; what *)
(* a header says is taken from the unit its first byte belongs to, and a    *)
(* header read anywhere but at the start of a unit is an error.  The first  *)
(* frame is a SYN, as from client to server.                                *)
(***************************************************************************)
EXTENDS Integers, Sequences, FiniteSets, FiniteSetsExt

CONSTANTS
    Payloads,       \* payload lengths of frames
    HeaderSize,     \* smux_header_size (8 in the code)
    ChunkHeader,    \* type and length of a chunk (4 in the code)
    ChunkCrc,       \* CRC of a data chunk (4 in the code)
    IdentifierSize, \* stream_identifier (10 in the code)
    MaxChunk,       \* max_uncompressed_chunk (65536 in the code)
    Mss,            \* the most bytes KCP delivers at once
    SmuxBufs,       \* sizes for config smuxbuf of the receiving end
    MaxFrames       \* bound: frames sent

Frames == [cmd : {"syn", "other"}, len : Payloads]

ASSUME FramingAssumption ==
    /\ Payloads \subseteq Nat /\ 0 \in Payloads /\ IsFiniteSet(Payloads)
    /\ HeaderSize \in Nat \ {0} /\ ChunkHeader \in Nat \ {0} /\ ChunkCrc \in Nat
    /\ IdentifierSize \in Nat /\ ChunkHeader <= HeaderSize /\ HeaderSize <= IdentifierSize
    /\ MaxChunk \in Nat \ {0} /\ Mss \in Nat \ {0}
    /\ SmuxBufs \subseteq Nat \ {0} /\ MaxFrames \in Nat

VARIABLES
    config,        \* smuxver and nocomp of the two ends, smuxbuf of one
    sentFrames,    \* frames sent
    wroteId,       \* wrote_identifier_
    kcp,           \* bytes given to KCP and not delivered yet
    decoder,       \* SnappyStreamDecoder: buffer_, saw_identifier_
    receiveBuffer, \* receive_buffer_
    receivedFrames, \* frames handed to the streams
    closed         \* closed_ of the receiving session

framingVars == <<config, sentFrames, wroteId, kcp, decoder, receiveBuffer, receivedFrames, closed>>

SmuxBuf == config.smuxbuf

\* The two ends have the same smuxver and nocomp.
Same == config.from = config.to

\* The bytes of a unit of the given size.
BytesOf(unit, size) == [k \in 1..size |-> [unit |-> unit, pos |-> k, size |-> size]]

-----------------------------------------------------------------------------
(* Sending.                                                                 *)

FrameBytes(f, version) ==
    BytesOf([kind |-> "frame", frame |-> f, version |-> version], HeaderSize + f.len)

Identifier == BytesOf([kind |-> "identifier"], IdentifierSize)

\* make_data_chunk: a chunk carries the compressed bytes if they are fewer.
MakeDataChunk(plain, squeezed) ==
    BytesOf([kind |-> "data", plain |-> plain], ChunkHeader + ChunkCrc + squeezed)

\* One round of the loop of encode: the next chunk of what is left of its
\* argument, where compression divides lengths by `ratio`.
EncodeRound(s, ratio) ==
    LET count == IF Len(s.left) < MaxChunk THEN Len(s.left) ELSE MaxChunk
    IN  IF s.left = <<>> THEN s
        ELSE [left |-> SubSeq(s.left, count + 1, Len(s.left)),
              out |-> s.out \o MakeDataChunk(SubSeq(s.left, 1, count), (count + ratio - 1) \div ratio)]

\* The loop, of which every round takes a byte at least.
EncodeRounds(s, ratio) ==
    LET rounds[n \in 0..Len(s.left)] == IF n = 0 THEN s ELSE EncodeRound(rounds[n - 1], ratio)
    IN  rounds[Len(s.left)]

\* SnappyStreamEncoder::encode.
EncodeChunks(bytes, ratio) ==
    EncodeRounds([left |-> bytes, out |-> IF wroteId THEN <<>> ELSE Identifier], ratio).out

\* SmuxSession::send_frame and KcpTransport::send.  The first frame of a
\* client is a SYN: a stream is what brings the session into being.
SendFrame(f) ==
    /\ Len(sentFrames) < MaxFrames
    /\ Len(sentFrames) = 0 => f.cmd = "syn" /\ f.len = 0
    /\ sentFrames' = Append(sentFrames, f)
    /\ LET bytes == FrameBytes(f, config.from.smuxver)
       IN  \/ /\ config.from.nocomp
              /\ kcp' = kcp \o bytes
              /\ UNCHANGED wroteId
           \/ /\ ~config.from.nocomp
              /\ \E ratio \in {1, 2} : kcp' = kcp \o EncodeChunks(bytes, ratio)
              /\ wroteId' = TRUE
    /\ UNCHANGED <<config, decoder, receiveBuffer, receivedFrames, closed>>

-----------------------------------------------------------------------------
(* Receiving.                                                               *)

\* Mutation: the buffer loses what it held whenever a segment comes.
CollectedForgets(buffer, bytes) == bytes

\* What decode works on: what it has kept, and what came.
Collected(buffer, bytes) == buffer \o bytes

(* One round of the loop of SnappyStreamDecoder::decode.  A data chunk      *)
(* before the identifier, or anything that is no chunk, throws.  Read as a  *)
(* chunk header a SYN says: no payload, and a type that is not allowed here.*)
DecodeRound(d) ==
    LET head == d.buffer[1]
        rest == SubSeq(d.buffer, head.size + 1, Len(d.buffer))
    IN  IF d.error \/ Len(d.buffer) < ChunkHeader THEN d
        ELSE IF head.pos # 1 \/ head.unit.kind = "frame" THEN [d EXCEPT !.error = TRUE]
        ELSE IF Len(d.buffer) < head.size THEN d
        ELSE IF head.unit.kind = "identifier" THEN [d EXCEPT !.buffer = rest, !.saw = TRUE]
        ELSE IF ~d.saw THEN [d EXCEPT !.error = TRUE]
        ELSE [d EXCEPT !.buffer = rest, !.out = Append(@, head.unit.plain)]

DecodeRounds(d) ==
    LET rounds[n \in 0..Len(d.buffer)] == IF n = 0 THEN d ELSE DecodeRound(rounds[n - 1])
    IN  rounds[Len(d.buffer)]

\* SnappyStreamDecoder::decode.  What was decoded before an error is lost.
DecodeChunks(bytes) ==
    LET start == [buffer |-> Collected(decoder.buffer, bytes), saw |-> decoder.saw,
                  out |-> <<>>, error |-> FALSE]
        done == DecodeRounds(start)
    IN  [out |-> IF done.error THEN <<>> ELSE done.out, error |-> done.error,
         decoder |-> [buffer |-> done.buffer, saw |-> done.saw]]

(* What consume_stream_bytes works on: the buffer, the frames it has found  *)
(* and whether it has called protocol_error.                                *)
Consumer == [buffer |-> receiveBuffer, frames |-> <<>>, error |-> FALSE]

\* Mutation: a header is looked at only when more than a header is there.
HeaderThereOffByOne(left) == left > HeaderSize

\* The loop condition: enough for a header.
HeaderThere(left) == left >= HeaderSize

\* Mutation: the version byte is not looked at.
AcceptableAnyVersion(head) == head.pos = 1 /\ head.unit.kind = "frame"

\* A frame of this end's version starts here.
Acceptable(head) ==
    /\ head.pos = 1 /\ head.unit.kind = "frame"
    /\ head.unit.version = config.to.smuxver

\* One round of the while loop: a whole frame is taken off the front.
TakeFrame(c) ==
    LET head == c.buffer[1]
    IN  IF c.error \/ ~HeaderThere(Len(c.buffer)) THEN c
        ELSE IF ~Acceptable(head) THEN [c EXCEPT !.error = TRUE]
        ELSE IF Len(c.buffer) < head.size THEN c
        ELSE [c EXCEPT !.buffer = SubSeq(@, head.size + 1, Len(@)), !.frames = Append(@, head.unit.frame)]

TakeFrames(c) ==
    LET rounds[n \in 0..Len(c.buffer)] == IF n = 0 THEN c ELSE TakeFrame(rounds[n - 1])
    IN  rounds[Len(c.buffer)]

\* Mutation: the limit counts what was received and processed long ago, too.
ConsumeStreamBytesKeeps(c, bytes) ==
    IF c.error \/ Len(c.buffer) + Len(bytes) > SmuxBuf THEN [c EXCEPT !.error = TRUE]
    ELSE [TakeFrames([c EXCEPT !.buffer = @ \o bytes]) EXCEPT !.buffer = c.buffer \o bytes]

\* consume_stream_bytes.
ConsumeStreamBytes(c, bytes) ==
    IF c.error \/ Len(c.buffer) + Len(bytes) > SmuxBuf THEN [c EXCEPT !.error = TRUE]
    ELSE TakeFrames([c EXCEPT !.buffer = @ \o bytes])

\* on_transport_bytes once decompression has made `chunks` of the segment.
Consumed(chunks) ==
    LET after[k \in 0..Len(chunks)] ==
            IF k = 0 THEN Consumer ELSE ConsumeStreamBytes(after[k - 1], chunks[k])
    IN  after[Len(chunks)]

Consume(chunks, error) ==
    \E c \in {Consumed(chunks)} :
        /\ receiveBuffer' = c.buffer
        /\ receivedFrames' = receivedFrames \o c.frames
        /\ closed' = (c.error \/ error)

\* drain_kcp delivers the next n bytes of the KCP stream.
Deliver(n) ==
    LET bytes == SubSeq(kcp, 1, n)
    IN  /\ ~closed /\ n <= Len(kcp)
        /\ kcp' = SubSeq(kcp, n + 1, Len(kcp))
        /\ \/ /\ config.to.nocomp
              /\ Consume(<<bytes>>, FALSE)
              /\ UNCHANGED decoder
           \/ /\ ~config.to.nocomp
              /\ \E d \in {DecodeChunks(bytes)} :
                    /\ decoder' = d.decoder
                    /\ Consume(d.out, d.error)
        /\ UNCHANGED <<config, sentFrames, wroteId>>

-----------------------------------------------------------------------------
EndConfig == [smuxver : {1, 2}, nocomp : BOOLEAN]

FramingInit ==
    /\ config \in [from : EndConfig, to : EndConfig, smuxbuf : SmuxBufs]
    /\ sentFrames = <<>> /\ wroteId = FALSE /\ kcp = <<>>
    /\ decoder = [buffer |-> <<>>, saw |-> FALSE]
    /\ receiveBuffer = <<>> /\ receivedFrames = <<>> /\ closed = FALSE

FramingNext ==
    \/ \E f \in Frames : SendFrame(f)
    \/ \E n \in 1..Mss : Deliver(n)

FramingSpec == FramingInit /\ [][FramingNext]_framingVars

-----------------------------------------------------------------------------
\* The largest frame, and the most bytes that can wait in receive_buffer_.
Longest == HeaderSize + Max(Payloads)
MostWaiting == Longest - 1

(* The state is well typed: the sender's and the receiver's frames are      *)
(* frames, and both reassembly buffers hold bytes of one unit that is not   *)
(* complete yet.                                                            *)
TypeOK ==
    /\ config \in [from : EndConfig, to : EndConfig, smuxbuf : SmuxBufs]
    /\ sentFrames \in Seq(Frames) /\ receivedFrames \in Seq(Frames)
    /\ wroteId \in BOOLEAN /\ closed \in BOOLEAN /\ decoder.saw \in BOOLEAN
    /\ (Same /\ ~closed) => \A buf \in {decoder.buffer, receiveBuffer} :
          buf # <<>> => buf[1].pos = 1 /\ Len(buf) < buf[1].size

(* Between ends with the same configuration, and with smuxbuf large enough  *)
(* for an unfinished frame and one delivery, no cutting of the byte stream  *)
(* makes consume_stream_bytes or the decoder call protocol_error.           *)
NoFalseError ==
    (Same /\ SmuxBuf >= MostWaiting + Max({Mss, Longest})) => ~closed

(* Nothing is held back: when every byte sent has been delivered, every     *)
(* frame sent has been handed on, so no frame waits for bytes of the next.  *)
NothingHeld == (Same /\ ~closed /\ kcp = <<>>) => receivedFrames = sentFrames

(* Ends that differ in smuxver or nocomp never pass a frame on, and the     *)
(* receiving session is closed by the first frame.                          *)
MismatchRefused ==
    ~Same => receivedFrames = <<>> /\ (kcp = <<>> /\ sentFrames # <<>> => closed)

(* The byte path implements the channel of whole frames.                    *)
Channel == INSTANCE FrameChannel WITH
    sent <- sentFrames, received <- receivedFrames, broken <- closed
ChannelSpec == Channel!Spec
=============================================================================
