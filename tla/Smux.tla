-------------------------------- MODULE Smux --------------------------------
(***************************************************************************)
(* One smux session between the client and the server of a Shimakaze       *)
(* tunnel (smux.cpp): the two SmuxSession objects, the SmuxStream objects   *)
(* of both ends, the application sockets behind them and the reliable byte  *)
(* stream (KCP) that joins the two sessions.                               *)
(*                                                                         *)
(* Both processes run one io_context on one thread, so a handler is one     *)
(* atomic step and every interleaving below is an order of completions.     *)
(* A handler is written as an operator from stream record to stream record; *)
(* the frames it hands to send_frame collect in the field `out` and go to   *)
(* the wire when the step ends.                                             *)
(*                                                                         *)
(* Bytes are abstract tags <<stream, position>>.  Compression, QPP and the  *)
(* byte layout of frames are left out: they are functions on the byte       *)
(* stream.  NOP frames carry no stream state and are not modelled here.     *)
(***************************************************************************)
EXTENDS Integers, Sequences, FiniteSets, SequencesExt

CONSTANTS
    FrameSize,      \* config framesize
    StreamBuf,      \* config streambuf
    InitWindow,     \* peer_window_ before the first UPD (262144 in the code)
    ReadBuf,        \* size of tcp_read_buffer_ (32768 in the code)
    Modulus,        \* 2^32 in the code: counters are uint32
    MaxStreams,     \* bound: streams opened in the session
    Scenarios       \* the configurations and environments, see Scenario

Side == {"client", "server"}
Peer(s) == IF s = "client" THEN "server" ELSE "client"

\* next_stream_id_ starts at 1 and grows by 2 before each use.
Ids == {2 * k + 1 : k \in 1..MaxStreams}

\* What stays the same during a behaviour: options of the two programs, and
\* what applications, targets and the link may do.
Scenario ==
    [version : [Side -> 1..2],      \* config smuxver of each end
     quiet : BOOLEAN,               \* config quiet
     unixSockets : BOOLEAN,         \* Client::local_is_unix_, Server::target_is_unix_
     streams : 1..MaxStreams,       \* bound: streams in this scenario
     dataLen : [Side -> Nat],       \* bound: bytes the application of a side sends
     targetMayFail : BOOLEAN,       \* resolving or connecting to the target may fail
     appMayFail : BOOLEAN,          \* an application may reset its connection
     linkMayFail : BOOLEAN]         \* the UDP path may stop, the client may scavenge

ASSUME SmuxAssumption ==
    /\ FrameSize \in Nat \ {0}
    /\ StreamBuf \in Nat \ {0}
    /\ InitWindow \in Nat \ {0}
    /\ ReadBuf \in Nat \ {0}
    /\ Modulus \in Nat /\ 2 * StreamBuf < Modulus /\ 2 * InitWindow < Modulus
    /\ MaxStreams \in Nat
    /\ Scenarios \subseteq Scenario

VARIABLES
    config,    \* the scenario of this behaviour
    session,   \* [Side -> record]: SmuxSession::closed_, next_stream_id_
    stream,    \* [Side -> [Ids -> record]]: the SmuxStream objects
    net,       \* [Side -> Seq(frame)]: frames on their way to a side
    app,       \* [Side -> [Ids -> record]]: the application socket of a stream
    linkUp,    \* the UDP path still carries packets
    exited     \* sides whose process has ended

vars == <<config, session, stream, net, app, linkUp, exited>>

Version == config.version

\* Both ends understand each other and nothing fails.
Healthy ==
    /\ Version["client"] = Version["server"]
    /\ ~config.targetMayFail /\ ~config.appMayFail /\ ~config.linkMayFail

-----------------------------------------------------------------------------
(* Frames.  The version byte of a frame is Version of its sender.           *)

Syn(i) == [cmd |-> "syn", id |-> i]
Fin(i) == [cmd |-> "fin", id |-> i]
Psh(i, bytes) == [cmd |-> "psh", id |-> i, data |-> bytes]
Upd(i, c, w) == [cmd |-> "upd", id |-> i, consumed |-> c, window |-> w]

(* A stream before it exists.  `reads` counts the async_read_some calls the *)
(* reactor holds, `done` their completions whose handler has not run yet:   *)
(* n > 0 bytes, or one of the two results below.  All of them share the one *)
(* array tcp_read_buffer_.  `queued` and `delivered` are history: the bytes *)
(* given to queue_outbound and the bytes written to the application.        *)
EndOfStream == 0     \* eof, connection_reset, operation_aborted
ReadFailed == -1     \* any other error

NoStream ==
    [created |-> FALSE, phase |-> "idle", tcp_ready |-> FALSE,
     tcp_write_active |-> FALSE, local_fin_sent |-> FALSE,
     remote_fin_received |-> FALSE, closed |-> FALSE, close_timer |-> FALSE,
     reads |-> 0, done |-> <<>>, tcp_read_buffer |-> <<>>,
     pending_outbound |-> <<>>, pending_tcp_writes |-> <<>>,
     num_read |-> 0, num_written |-> 0, incr |-> 0,
     peer_consumed |-> 0, peer_window |-> InitWindow,
     send_shut |-> FALSE, queued |-> <<>>, delivered |-> <<>>, out |-> <<>>]

NewStream(phase) == [NoStream EXCEPT !.created = TRUE, !.phase = phase]

(* The application end of a socket: bytes written, bytes the kernel has     *)
(* handed to a read, half-closed, reset.                                    *)
NoApp == [sent |-> 0, taken |-> 0, eof |-> FALSE, gone |-> FALSE]

AppBytes(i, from, to) == [k \in 1..(to - from) |-> <<i, from + k>>]

AppConnected(s, i) == stream[s][i].tcp_ready /\ ~stream[s][i].closed

-----------------------------------------------------------------------------
(* SmuxStream: sending.                                                     *)

SendFrame(r, f) == [r EXCEPT !.out = Append(@, f)]

\* Mutation: the bytes in flight are not counted.
AvailableIgnoresInflight(r) == r.peer_window

AvailablePeerWindow(r) ==
    LET inflight == (r.num_written - r.peer_consumed) % Modulus
    IN  IF inflight >= Modulus \div 2 THEN 0 ELSE r.peer_window - inflight

HasPendingOutbound(r) == r.pending_outbound # <<>>

QueueOutbound(r, bytes) ==
    [r EXCEPT !.pending_outbound = Append(@, bytes), !.queued = @ \o bytes]

TotalLen(bufs) == Len(FlattenSeq(bufs))

\* One buffer cut into frames of at most FrameSize bytes.
Chunks(buf) ==
    [k \in 1..((Len(buf) + FrameSize - 1) \div FrameSize) |->
        SubSeq(buf, (k - 1) * FrameSize + 1, Min({k * FrameSize, Len(buf)}))]

\* How many of the first n bytes of a queue of buffers lie in buffer j.
Share(bufs, n, j) ==
    Max({0, Min({Len(bufs[j]), n - TotalLen(SubSeq(bufs, 1, j - 1))})})

(* The loop of try_flush_outbound sends what the window allows, buffer by   *)
(* buffer and frame by frame, and drops the buffers it has emptied.         *)
TryFlushOutbound(s, i, r) ==
    LET bufs == r.pending_outbound
        total == TotalLen(bufs)
        n == IF Version[s] = 2 THEN Max({0, Min({total, AvailablePeerWindow(r)})}) ELSE total
        chunks == FlattenSeq([j \in DOMAIN bufs |->
                      Chunks(SubSeq(bufs[j], 1, Share(bufs, n, j)))])
        rest == [j \in DOMAIN bufs |->
                    SubSeq(bufs[j], Share(bufs, n, j) + 1, Len(bufs[j]))]
        front == Min({j \in DOMAIN bufs : rest[j] # <<>>} \cup {Len(bufs) + 1})
    IN  IF r.closed THEN r
        ELSE [r EXCEPT !.out = @ \o [k \in DOMAIN chunks |-> Psh(i, chunks[k])],
                       !.num_written = (@ + n) % Modulus,
                       !.pending_outbound = SubSeq(rest, front, Len(rest))]

SendLocalFin(i, r) ==
    IF r.local_fin_sent \/ r.closed THEN r
    ELSE SendFrame([r EXCEPT !.local_fin_sent = TRUE], Fin(i))

-----------------------------------------------------------------------------
(* SmuxStream: the application socket.                                      *)

StartTcpRead(r) ==
    IF r.closed \/ ~r.tcp_ready \/ r.local_fin_sent \/ HasPendingOutbound(r) THEN r
    ELSE [r EXCEPT !.reads = @ + 1]

\* Mutation: no test for an empty queue.
FlushTcpWritesUnchecked(r) ==
    IF r.closed \/ ~r.tcp_ready \/ r.tcp_write_active THEN r
    ELSE [r EXCEPT !.tcp_write_active = TRUE]

FlushTcpWrites(r) ==
    IF r.closed \/ ~r.tcp_ready \/ r.tcp_write_active \/ r.pending_tcp_writes = <<>> THEN r
    ELSE [r EXCEPT !.tcp_write_active = TRUE]

\* Mutation: the socket is shut although payloads still wait for it.
ShutdownTcpSendEarly(r) ==
    IF ~r.remote_fin_received \/ ~r.tcp_ready \/ r.closed THEN r
    ELSE [r EXCEPT !.send_shut = TRUE]

ShutdownTcpSendIfReady(r) ==
    IF \/ ~r.remote_fin_received \/ r.tcp_write_active
       \/ r.pending_tcp_writes # <<>> \/ ~r.tcp_ready \/ r.closed
    THEN r
    ELSE [r EXCEPT !.send_shut = TRUE]

\* maybe_finish and schedule_close_after_fin: arm (or re-arm) close_timer_.
MaybeFinish(r) ==
    IF /\ ~r.closed /\ r.local_fin_sent /\ r.remote_fin_received
       /\ r.pending_tcp_writes = <<>> /\ ~r.tcp_write_active
       /\ r.pending_outbound = <<>>
    THEN [r EXCEPT !.close_timer = TRUE]
    ELSE r

(* SmuxStream::close.  Closing the socket aborts the outstanding reads; the *)
(* read handlers that still run see closed_ and leave nothing behind, so    *)
(* they are dropped here.  An outstanding write still completes.            *)
Close(i, r) ==
    IF r.closed THEN r
    ELSE [SendLocalFin(i, r) EXCEPT
             !.closed = TRUE, !.close_timer = FALSE, !.reads = 0, !.done = <<>>,
             !.tcp_read_buffer = <<>>, !.pending_outbound = <<>>]

MarkPayloadConsumed(s, i, r, bytes) ==
    LET read == (r.num_read + bytes) % Modulus
        unacked == (r.incr + bytes) % Modulus
        due == unacked >= Max({1, StreamBuf \div 2}) \/ read = bytes
        counted == [r EXCEPT !.num_read = read, !.incr = IF due THEN 0 ELSE unacked]
    IN  IF Version[s] # 2 THEN r
        ELSE IF due THEN SendFrame(counted, Upd(i, read, Max({1, StreamBuf})))
        ELSE counted

-----------------------------------------------------------------------------
(* SmuxStream: frames from the peer.                                        *)

OnData(i, r, bytes) ==
    FlushTcpWrites([r EXCEPT !.pending_tcp_writes = Append(@, bytes)])

\* Mutation: a FIN that completes the exchange does not arm close_timer_.
OnFinForgetsFinish(r) == ShutdownTcpSendIfReady([r EXCEPT !.remote_fin_received = TRUE])

OnFin(r) ==
    IF r.remote_fin_received THEN r
    ELSE MaybeFinish(ShutdownTcpSendIfReady([r EXCEPT !.remote_fin_received = TRUE]))

OnUpdate(s, i, r, c, w) ==
    LET flushed == TryFlushOutbound(s, i, [r EXCEPT !.peer_consumed = c, !.peer_window = w])
    IN  IF HasPendingOutbound(flushed) THEN flushed ELSE StartTcpRead(flushed)

-----------------------------------------------------------------------------
(* Steps.                                                                   *)

Running(s) == s \notin exited

\* send_frame drops a frame of a closed session; what a live session sends to
\* a peer that is gone is never acknowledged.
Transmitted(s, channel, frames) ==
    IF session[s].closed \/ session[Peer(s)].closed THEN channel ELSE channel \o frames

\* A handler of stream i of side s ends with record r.  (Here and below a value
\* is bound as a member of a singleton so that TLC computes it once.)
StreamStep(s, i, r0) == \E r \in {r0} :
    /\ stream' = [stream EXCEPT ![s][i] = [r EXCEPT !.out = <<>>]]
    /\ net' = [net EXCEPT ![Peer(s)] = Transmitted(s, @, r.out)]

InStreams(s, i) == stream[s][i].created /\ ~stream[s][i].closed

\* SmuxStream::start_client after the socket is in place.  With logging on,
\* remote_endpoint() of a TCP socket whose peer has reset throws; handle_accept
\* catches it and the stream stays without a read.
StartClient(r, gone) ==
    LET ready == [r EXCEPT !.tcp_ready = TRUE]
    IN  IF ~config.quiet /\ ~config.unixSockets /\ gone THEN ready
        ELSE StartTcpRead(FlushTcpWrites(ready))

\* Mutation: the id of the first stream is used for every stream.
NextStreamIdReused(id) == 3

\* open_stream: next_stream_id_ += 2.
NextStreamId(id) == id + 2

\* Client::handle_accept on this session: open_stream, then start_client.
HandleAccept ==
    LET i == NextStreamId(session["client"].next_stream_id)
    IN  /\ Running("client") /\ ~session["client"].closed
        /\ i \in Ids /\ i <= 2 * config.streams + 1
        /\ \E gone \in (IF config.appMayFail THEN BOOLEAN ELSE {FALSE}) :
              /\ StreamStep("client", i, StartClient(SendFrame(NewStream("idle"), Syn(i)), gone))
              /\ app' = [app EXCEPT !["client"][i].gone = gone]
        /\ session' = [session EXCEPT !["client"].next_stream_id = i]
        /\ UNCHANGED <<linkUp, exited>>

\* The resolver's handler of start_server.
ResolveDone(i) ==
    LET r == stream["server"][i]
    IN  /\ Running("server") /\ r.phase = "resolve"
        /\ \/ StreamStep("server", i, [r EXCEPT !.phase = "connect"])
           \/ /\ config.targetMayFail \/ r.closed
              /\ StreamStep("server", i, Close(i, [r EXCEPT !.phase = "idle"]))
        /\ UNCHANGED <<session, app, linkUp, exited>>

\* The connect handler of start_server and start_server_unix.  With logging on,
\* a TCP target that resets before the handler runs makes remote_endpoint()
\* throw; nothing catches it below main, so the process ends.
ConnectDone(i) ==
    LET r == [stream["server"][i] EXCEPT !.phase = "idle"]
        ready == [r EXCEPT !.tcp_ready = TRUE]
    IN  /\ Running("server") /\ stream["server"][i].phase = "connect"
        /\ \/ \E gone \in (IF config.appMayFail THEN BOOLEAN ELSE {FALSE}) :
                 /\ app' = [app EXCEPT !["server"][i].gone = gone]
                 /\ IF ~config.quiet /\ ~config.unixSockets /\ gone
                    THEN /\ exited' = exited \cup {"server"}
                         /\ UNCHANGED <<stream, net>>
                    ELSE /\ StreamStep("server", i,
                               ShutdownTcpSendIfReady(StartTcpRead(FlushTcpWrites(ready))))
                         /\ UNCHANGED exited
           \/ /\ config.targetMayFail \/ r.closed
              /\ StreamStep("server", i, Close(i, r))
              /\ UNCHANGED <<app, exited>>
        /\ UNCHANGED <<session, linkUp>>

(* The reactor completes one outstanding read (external: Asio and the       *)
(* kernel).  The bytes land in tcp_read_buffer_ at once; the handler runs   *)
(* later, in ReadHandler.                                                   *)
Receive(s, i) ==
    LET r == stream[s][i]
        a == app[s][i]
        n == Min({ReadBuf, a.sent - a.taken})
        bytes == AppBytes(i, a.taken, a.taken + n)
        complete(result, buf) ==
            stream' = [stream EXCEPT ![s][i] =
                [r EXCEPT !.reads = @ - 1, !.done = Append(@, result), !.tcp_read_buffer = buf]]
    IN  /\ Running(s) /\ r.reads > 0
        /\ \/ /\ n > 0 /\ ~a.gone
              /\ complete(n, bytes \o SubSeq(r.tcp_read_buffer, n + 1, Len(r.tcp_read_buffer)))
              /\ app' = [app EXCEPT ![s][i].taken = @ + n]
           \/ /\ a.gone \/ (a.eof /\ n = 0)
              /\ complete(EndOfStream, r.tcp_read_buffer)
              /\ UNCHANGED app
           \/ /\ config.appMayFail
              /\ complete(ReadFailed, r.tcp_read_buffer)
              /\ UNCHANGED app
        /\ UNCHANGED <<session, net, linkUp, exited>>

\* The completion handler of start_tcp_read.
ReadHandler(s, i) ==
    LET r == [stream[s][i] EXCEPT !.done = Tail(@)]
        result == Head(stream[s][i].done)
    IN  /\ Running(s) /\ stream[s][i].done # <<>>
        /\ \/ /\ result > 0
              /\ \E queued \in {QueueOutbound(r, SubSeq(r.tcp_read_buffer, 1, result))} :
                 \E flushed \in {TryFlushOutbound(s, i, queued)} :
                    StreamStep(s, i, IF HasPendingOutbound(flushed) THEN flushed ELSE StartTcpRead(flushed))
           \/ /\ result = EndOfStream
              /\ StreamStep(s, i, MaybeFinish(SendLocalFin(i, r)))
           \/ /\ result = ReadFailed
              /\ StreamStep(s, i, Close(i, r))
        /\ UNCHANGED <<session, app, linkUp, exited>>

(* The completion handler of flush_tcp_writes.  A write fails softly (reset,*)
(* broken pipe, aborted) once the application is gone, this side has shut   *)
(* the socket's send direction or the stream is closed.                     *)
WriteHandler(s, i) ==
    LET r == [stream[s][i] EXCEPT !.tcp_write_active = FALSE]
        front == Head(r.pending_tcp_writes)
        written == [r EXCEPT !.pending_tcp_writes = Tail(@), !.delivered = @ \o front]
    IN  /\ Running(s) /\ stream[s][i].tcp_write_active
        /\ \/ /\ ~app[s][i].gone /\ ~r.send_shut
              /\ \E next \in {FlushTcpWrites(MarkPayloadConsumed(s, i, written, Len(front)))} :
                    StreamStep(s, i, MaybeFinish(ShutdownTcpSendIfReady(next)))
           \/ /\ app[s][i].gone \/ r.send_shut \/ r.closed
              /\ StreamStep(s, i, MaybeFinish(SendLocalFin(i, r)))
           \/ /\ config.appMayFail
              /\ StreamStep(s, i, Close(i, r))
        /\ UNCHANGED <<session, app, linkUp, exited>>

\* The wait handler of schedule_close_after_fin.
CloseTimer(s, i) ==
    /\ Running(s) /\ stream[s][i].close_timer
    /\ StreamStep(s, i, Close(i, stream[s][i]))
    /\ UNCHANGED <<session, app, linkUp, exited>>

\* Mutation: SmuxSession::close passes over the streams that are still connecting.
SessionCloseReadyOnly(s) ==
    /\ session' = [session EXCEPT ![s].closed = TRUE]
    /\ stream' = [stream EXCEPT ![s] =
          [i \in Ids |-> IF @[i].tcp_ready THEN [Close(i, @[i]) EXCEPT !.out = <<>>] ELSE @[i]]]
    /\ net' = [net EXCEPT ![s] = <<>>]

(* SmuxSession::close on side s: closed_ is set first, so the streams'      *)
(* FINs are dropped; what KCP had not got across yet is lost with the       *)
(* transport, so the peer receives some prefix of what is on the wire.      *)
SessionClose(s) ==
    /\ session' = [session EXCEPT ![s].closed = TRUE]
    /\ stream' = [stream EXCEPT ![s] =
          [i \in Ids |-> IF @[i].created THEN [Close(i, @[i]) EXCEPT !.out = <<>>] ELSE @[i]]]
    /\ \E k \in 0..Len(net[Peer(s)]) :
          net' = [net EXCEPT ![s] = <<>>, ![Peer(s)] = SubSeq(@, 1, k)]

\* Mutation: only the server watches last_activity_.
KeepaliveTimeoutServerOnly(s) ==
    /\ s = "server" /\ Running(s) /\ ~session[s].closed
    /\ ~linkUp \/ session[Peer(s)].closed
    /\ SessionClose(s)
    /\ UNCHANGED <<app, linkUp, exited>>

\* Mutation: only the client watches last_activity_.
KeepaliveTimeoutClientOnly(s) ==
    /\ s = "client" /\ ~session[s].closed
    /\ ~linkUp \/ session[Peer(s)].closed \/ ~Running(Peer(s))
    /\ SessionClose(s)
    /\ UNCHANGED <<app, linkUp, exited>>

\* keepalive_tick after smux_timeout without a byte from the peer.
KeepaliveTimeout(s) ==
    /\ Running(s) /\ ~session[s].closed
    /\ ~linkUp \/ session[Peer(s)].closed \/ ~Running(Peer(s))
    /\ SessionClose(s)
    /\ UNCHANGED <<app, linkUp, exited>>

\* The scavenge timer of the client closes a session past its lifetime.
Scavenge ==
    /\ config.linkMayFail /\ Running("client") /\ ~session["client"].closed
    /\ SessionClose("client")
    /\ UNCHANGED <<app, linkUp, exited>>

\* The version byte of the peer's frames against config smuxver.
VersionAccepted(s) == Version[s] = Version[Peer(s)]

(* One frame of consume_stream_bytes on side s.  Frames come from a peer    *)
(* that runs the same code and smuxbuf is taken to hold a frame and a KCP   *)
(* segment, so the one error left is a version mismatch.                    *)
ReceiveFrame(s) ==
    LET f == Head(net[s])
        r == stream[s][f.id]
        phase == IF config.unixSockets THEN "connect" ELSE "resolve"
        after(new0) == \E new \in {new0} :
            /\ stream' = [stream EXCEPT ![s][f.id] = [new EXCEPT !.out = <<>>]]
            /\ net' = [net EXCEPT ![s] = Tail(@), ![Peer(s)] = Transmitted(s, @, new.out)]
            /\ UNCHANGED session
    IN  /\ Running(s) /\ ~session[s].closed /\ net[s] # <<>>
        /\ linkUp
        /\ \/ /\ ~VersionAccepted(s)
              /\ SessionClose(s)                   \* protocol_error
           \/ /\ VersionAccepted(s)
              /\ \/ /\ f.cmd = "syn"
                    /\ after(IF InStreams(s, f.id) THEN r ELSE NewStream(phase))
                 \/ /\ f.cmd # "syn" /\ ~InStreams(s, f.id)
                    /\ after(r)
                 \/ /\ f.cmd = "fin" /\ InStreams(s, f.id)
                    /\ after(OnFin(r))
                 \/ /\ f.cmd = "psh" /\ InStreams(s, f.id)
                    /\ after(OnData(f.id, r, f.data))
                 \/ /\ f.cmd = "upd" /\ InStreams(s, f.id)
                    /\ after(OnUpdate(s, f.id, r, f.consumed, f.window))
        /\ UNCHANGED <<app, linkUp, exited>>

(* The environment: the applications and the link.                          *)
AppSend(s, i) ==
    /\ AppConnected(s, i) /\ ~app[s][i].eof /\ ~app[s][i].gone
    /\ app[s][i].sent < config.dataLen[s]
    /\ app' = [app EXCEPT ![s][i].sent = @ + 1]
    /\ UNCHANGED <<session, stream, net, linkUp, exited>>

AppEof(s, i) ==
    /\ AppConnected(s, i) /\ ~app[s][i].eof /\ ~app[s][i].gone
    /\ app' = [app EXCEPT ![s][i].eof = TRUE]
    /\ UNCHANGED <<session, stream, net, linkUp, exited>>

AppReset(s, i) ==
    /\ config.appMayFail /\ AppConnected(s, i) /\ ~app[s][i].gone
    /\ app' = [app EXCEPT ![s][i].gone = TRUE]
    /\ UNCHANGED <<session, stream, net, linkUp, exited>>

LinkDown ==
    /\ config.linkMayFail /\ linkUp
    /\ linkUp' = FALSE
    /\ UNCHANGED <<session, stream, net, app, exited>>

-----------------------------------------------------------------------------
Init ==
    /\ config \in Scenarios
    /\ session = [s \in Side |-> [closed |-> FALSE, next_stream_id |-> IF s = "client" THEN 1 ELSE 0]]
    /\ stream = [s \in Side |-> [i \in Ids |-> NoStream]]
    /\ net = [s \in Side |-> <<>>]
    /\ app = [s \in Side |-> [i \in Ids |-> NoApp]]
    /\ linkUp = TRUE
    /\ exited = {}

\* The handlers the io_context of side s may run.
ProcessStep(s) == UNCHANGED config /\ (
    \/ \E i \in Ids : \/ Receive(s, i)
                      \/ ReadHandler(s, i)
                      \/ WriteHandler(s, i)
                      \/ CloseTimer(s, i)
                      \/ s = "server" /\ (ResolveDone(i) \/ ConnectDone(i))
    \/ ReceiveFrame(s)
    \/ KeepaliveTimeout(s) )

EnvironmentStep == UNCHANGED config /\ (
    \/ HandleAccept
    \/ \E s \in Side, i \in Ids : AppSend(s, i) \/ AppEof(s, i) \/ AppReset(s, i)
    \/ Scavenge
    \/ LinkDown )

Next == EnvironmentStep \/ \E s \in Side : ProcessStep(s)

Spec == Init /\ [][Next]_vars

(* Neither io_context idles while one of its handlers is ready.  The number *)
(* of handlers is finite once the applications stop, so no handler starves. *)
Fairness == \A s \in Side : WF_vars(ProcessStep(s))

FairSpec == Spec /\ Fairness

-----------------------------------------------------------------------------
Bytes == Ids \X (1..Max({scenario.dataLen[s] : scenario \in Scenarios, s \in Side}))

(* The state is well typed: counters are uint32, no frame is longer than    *)
(* framesize, no empty buffer is queued, the read buffer of a stream holds  *)
(* only what its own application sent, and a write is outstanding only      *)
(* while the payload it reads from is still in pending_tcp_writes_.         *)
TypeOK ==
    /\ \A s \in Side : /\ session[s].closed \in BOOLEAN
                       /\ session[s].next_stream_id \in Ids \cup {0, 1}
    /\ \A s \in Side, i \in Ids :
          LET r == stream[s][i]
          IN  /\ r.phase \in {"idle", "resolve", "connect"}
              /\ r.reads \in Nat
              /\ \A k \in DOMAIN r.done : r.done[k] \in -1..ReadBuf
              /\ \A k \in DOMAIN r.tcp_read_buffer :
                    r.tcp_read_buffer[k] \in {i} \X (1..app[s][i].taken)
              /\ \A k \in DOMAIN r.pending_outbound : Len(r.pending_outbound[k]) \in 1..ReadBuf
              /\ \A k \in DOMAIN r.pending_tcp_writes : Len(r.pending_tcp_writes[k]) \in 1..FrameSize
              /\ {r.num_read, r.num_written, r.incr, r.peer_consumed, r.peer_window}
                    \subseteq 0..(Modulus - 1)
              /\ r.tcp_write_active => r.pending_tcp_writes # <<>>
              /\ r.out = <<>>
    /\ \A s \in Side : \A k \in DOMAIN net[s] :
          net[s][k].cmd \in {"syn", "fin", "psh", "upd"} /\ net[s][k].id \in Ids
    /\ \A s \in Side, i \in Ids : app[s][i].taken <= app[s][i].sent
    /\ linkUp \in BOOLEAN /\ exited \subseteq Side

\* The payload of stream i on its way to side s.
OnWire(s, i) ==
    FlattenSeq([k \in DOMAIN net[s] |->
        IF net[s][k].cmd = "psh" /\ net[s][k].id = i THEN net[s][k].data ELSE <<>>])

(* Between queue_outbound at one end and the application socket at the      *)
(* other nothing is lost, repeated, reordered or moved to another stream:   *)
(* while the receiving stream lives, what was queued is exactly what was    *)
(* delivered, waits in pending_tcp_writes_, is on the wire or waits in      *)
(* pending_outbound_; and what was delivered is always a prefix of it.      *)
WireConservation ==
    \A s \in Side, i \in Ids :
        LET from == stream[Peer(s)][i]
            to == stream[s][i]
        IN  /\ IsPrefix(to.delivered, from.queued)
            /\ (InStreams(Peer(s), i) /\ ~to.closed /\ ~session[s].closed) =>
                  from.queued = to.delivered \o FlattenSeq(to.pending_tcp_writes)
                                   \o OnWire(s, i) \o FlattenSeq(from.pending_outbound)

(* What reaches an application is a prefix of what the application at the   *)
(* other end of the same stream wrote.                                      *)
EndToEnd ==
    \A s \in Side, i \in Ids :
        IsPrefix(stream[s][i].delivered, AppBytes(i, 0, app[Peer(s)][i].sent))

\* The two pipes of each stream, by their reading side.
Pipes == Side \X Ids

\* The state of StreamPipe that a state of the session stands for.
Announced(p) == stream[p[1]][p[2]].send_shut \/ stream[p[1]][p[2]].closed

Pipe == INSTANCE StreamPipe WITH
    written <- [p \in Pipes |-> AppBytes(p[2], 0, app[Peer(p[1])][p[2]].sent)],
    ended <- {p \in Pipes : app[Peer(p[1])][p[2]].eof},
    delivered <- [p \in Pipes |-> stream[p[1]][p[2]].delivered],
    announced <- {p \in Pipes : Announced(p)},
    mayFail <- ~Healthy

(* Both directions of every stream are pipes: an application is given the   *)
(* beginning of what the other end of its stream wrote, never takes any of  *)
(* it back, and unless something fails is told the end (shutdown of the     *)
(* send side, or close) only when the other application has ended its       *)
(* stream and every byte it wrote has been delivered.                       *)
PipeSpec == Pipe!Spec

(* smux v2: the bytes a receiver has to hold for one stream, and those on   *)
(* their way to it, never exceed the window it granted.                     *)
WindowRespected ==
    \A s \in Side, i \in Ids :
        Version[s] = 2 /\ InStreams(s, i) =>
            TotalLen(stream[s][i].pending_tcp_writes) + Len(OnWire(s, i))
                <= Max({InitWindow, StreamBuf})

\* The credits of the direction out of side s, as FlowControl sees them.  Where
\* framesize is 1 every position ends a frame, and below Modulus the counters
\* are the positions.
Upds(s, i) == {net[s][k].consumed : k \in {j \in DOMAIN net[s] : net[s][j].cmd = "upd" /\ net[s][j].id = i}}

Flow(s, i) == INSTANCE FlowControl WITH
    MaxBytes <- Max({scenario.dataLen[s] : scenario \in Scenarios}),
    open <- ~stream[s][i].closed,
    pending <- Len(stream[s][i].queued) - stream[s][i].num_written,
    sent <- stream[s][i].num_written, num_written <- stream[s][i].num_written,
    acked <- stream[s][i].peer_consumed, peer_consumed <- stream[s][i].peer_consumed,
    peer_window <- stream[s][i].peer_window,
    ends <- 1..stream[s][i].num_written,
    arrived <- stream[Peer(s)][i].num_read + TotalLen(stream[Peer(s)][i].pending_tcp_writes),
    consumed <- stream[Peer(s)][i].num_read, num_read <- stream[Peer(s)][i].num_read,
    incr <- stream[Peer(s)][i].incr,
    upds <- Upds(s, i)

(* Every step of a v2 session that nothing fails in is, for each direction  *)
(* of each stream, a step of FlowControl or none: whatever reads, FINs,     *)
(* closes and frames of the other direction come between, the two streams   *)
(* keep to the credit protocol of which PacingProofs proves the             *)
(* bounds.                                                                  *)
KeepsFlowControl ==
    [][\A s \in Side, i \in Ids :
          Healthy /\ Version[s] = 2 => [Flow(s, i)!Next]_(Flow(s, i)!vars)]_vars

(* A stream whose two applications have both ended their side, and of which *)
(* nothing failed, is torn down on both ends, which also removes it from    *)
(* streams_.                                                                *)
BothEofCloses ==
    \A i \in Ids :
        (Healthy /\ \A s \in Side : app[s][i].eof)
            ~> (\A s \in Side : stream[s][i].closed)

(* When the link is lost, every process that still runs closes the session  *)
(* and every stream of it, however far that had got and whatever else has   *)
(* failed, so that no application is left holding a dead connection.        *)
LinkLossClosesAll ==
    ~linkUp ~> \A s \in Side \ exited : \A i \in Ids :
                   stream[s][i].created => stream[s][i].closed

(* A closed session leaves nothing behind: every stream it ever had is      *)
(* closed, however far its connection attempt, its reads or its writes had  *)
(* got, and no stream is added to it later.                                 *)
NoOrphans ==
    \A s \in Side, i \in Ids :
        (session[s].closed /\ stream[s][i].created) => stream[s][i].closed

(* With different smuxver at its ends a session is given up by both as soon *)
(* as there is a stream: by the server on the version byte, by the client   *)
(* when its keepalives go unanswered.                                       *)
MismatchCloses ==
    (Version["client"] # Version["server"] /\ \E i \in Ids : stream["client"][i].created)
        ~> \A s \in Side : session[s].closed

(* A routine log line never ends the server process.                        *)
ServerKeepsRunning == "server" \notin exited
=============================================================================
