# A verification model of Shimakaze

Shimakaze is a UDP accelerator: a client accepts TCP (or Unix-socket)
connections, multiplexes them with smux into sessions, carries each session over
KCP on a UDP socket, optionally with Snappy compression, forward error
correction (FEC), packet encryption, QPP scrambling and a rate limit, and a
server connects each stream to its target. This directory holds TLA+ models of
that program, the TLC configurations that check them, and TLAPS proofs about
most of them. Paths below are relative to `src/shimakaze/src/shimakaze/`.

`PROJECT.json` lists the components, the runs, the mutants, the lines every
definition models, the findings, the hazards and the theorems.

## 1. The system

Each of the two programs runs one `io_context` on one thread
(`client_main.cpp`, `server_main.cpp`). A handler is therefore atomic; what makes the program hard
is the order in which handlers complete, and the network between the two.

| Component | State | Operations | Correct if |
|---|---|---|---|
| **smux** (`smux.cpp`) | `SmuxSession`: `streams_`, `closed_`, `next_stream_id_`, `receive_buffer_`, `last_activity_`. `SmuxStream`: `pending_outbound_`, `pending_tcp_writes_`, FIN flags, v2 counters, `close_timer_` | open, connect, read and write handlers, the five frames, half-close, close timer, keepalive tick, close | bytes arrive whole, in order and on their stream; ends of streams are announced after the last byte; streams and sessions end; no stream survives its session |
| **v2 flow control** (part of `smux.cpp`) | `num_read_`, `num_written_`, `incr_`, `peer_consumed_`, `peer_window_` (uint32, wrapping) | `try_flush_outbound`, `mark_payload_consumed`, `on_update` | buffer bounded, window exact across the wrap, no deadlock of credits |
| **framing** (`smux.cpp`, `snappy_stream.cpp`) | both reassembly buffers, the stream identifier flags | `send_frame`, `encode`, `decode`, `consume_stream_bytes` | frames come out as they went in whatever KCP's cuts; ends that disagree exchange nothing |
| **FEC** (`fec.cpp`) | `next_seq_`, `shard_count_`, cached shards; `decode_sets_`, `newest_shard_id_` | `encode`, `decode`, `skip_parity`, `discard_old_shards`, the Reed-Solomon code | what is recovered is genuine, what can be recovered is |
| **KCP transport** (`kcp_transport.cpp`) | the KCP control block, `closing_`, `pending_udp_`, `rate_send_active_`, `next_tx_time_` | input, send, update timer, `send_udp`, rate-limited queue, close | packets leave in order and no faster than allowed; closing happens once |
| **client** (`client.cpp`) | `muxes_`, `rr_`, `transports_`, scavenge timers, one chain of UDP receives per connection | start, accept, `ensure_session`, `create_connection`, receiving, scavenging | slots, ids and counters agree; replaced connections end; open ones go on receiving |
| **server** (`server.cpp`) | `sessions_` per listener, listeners | start, `handle_packet`, close handler | one live session per key; no leak through late datagrams; each configured port has one listener |
| **configuration** (`config.cpp`) | `ClientConfig`, `ServerConfig` | environment, command line, JSON, mode preset, sanitizing, validation | the documented precedence and limits hold |
| **addresses** (`utils.cpp`) | | `parse_multiport`, `choose_port`, `endpoint_key` | what a client dials the server listens on; invalid ports are refused |
| **QPP** (`qpp.cpp`) | two generators per stream and end | encrypt, decrypt | both ends' generators stay in step |
| **packet encryption** (`crypto.cpp`) | method, key, tables | encrypt, decrypt in place | a packet comes back as it was, a damaged one not at all |
| **statistics, diagnostics, logger, mains** | counters | | (see section 6) |

How they interact. `Client::handle_accept` takes a slot, opens a stream in the
slot's session (SYN) and starts reading the local socket. Frames go through
`send_frame`, the Snappy encoder and KCP's stream mode; KCP calls `send_udp`,
which runs FEC, encryption and the rate limiter. `UdpListener::handle_packet`
decrypts, finds or creates the session by endpoint and conversation id, and
feeds FEC, KCP, the Snappy decoder and `consume_stream_bytes`, which creates
streams and calls `on_data`, `on_fin`, `on_update`. Closing runs downwards
(session closes streams and transport, the transport calls its close handler,
which erases the table entry) and never upwards: a transport that closes by
itself does not tell its session.

What is hard: two outstanding reads on one buffer; FINs, resets and closes at
any point of a stream's life; credits, and counters that wrap; a peer that
vanishes without a word; datagrams that are lost, repeated, reordered and
late; sequence numbers that wrap at `paws_`; transports, sessions and table
entries that die in different orders; timers that fire late. `PROJECT.json`
lists 40 such hazards with the line at which each bites and the properties that
watch it, among them those no property covers and why.

## 2. The modules

| Module | Models | State against code | Actions against code |
|---|---|---|---|
| `Smux` | one session, both ends, with its streams, sockets and wire | `session[s]`: `SmuxSession`; `stream[s][i]`: `SmuxStream`, one field per member; `reads`, `done`: reads the reactor holds and completions whose handler has not run; `net`: frames in KCP; `app`: the application's socket | `HandleAccept`, `ResolveDone`, `ConnectDone`, `ReadHandler`, `WriteHandler`, `CloseTimer`, `ReceiveFrame`, `KeepaliveTimeout`, `Scavenge`: one handler each, with every call it makes; `Receive`, `App*`, `LinkDown`: kernel, applications, path |
| `SmuxProofs` | | | theorems about `Smux` and its wire, after lemmas about numbers and queues of buffers |
| `SmuxPipeProofs` | | | theorems about `Smux` from its ends: the pipes, the sizes of buffers |
| `StreamPipe` | *abstract*: pipes that hand over in order what was written, and announce the end last | | |
| `FlowControl` | the credit protocol of one direction of a v2 stream | the uint32 counters, and beside them the positions they stand for | `Produce` (read handler), `Arrive` (`on_data`), `Consume` (write handler), `OnUpdate`, `CloseSender` |
| `FrameChannel` | *abstract*: frames come out in order, once, until the receiver gives up | | |
| `Framing` | `send_frame` to `consume_stream_bytes` over a byte stream | `decoder`, `receiveBuffer`, `wroteId`; `kcp`: the bytes in KCP | `SendFrame`; `Deliver(n)`: one `ikcp_recv` of n bytes |
| `Fec` | `FecCodec` at both ends of a lossy path | encoder and decoder members; `wire`: datagrams that may still come | `Encode`, `Decode` |
| `ReedSolomon` | GF(256), the coding matrix, length prefix and padding | | operators |
| `Qpp` | the pads and generators of one stream, in both directions | `write_rand`, `read_rand`; `frames`: scrambled and under way | `Send` (`try_flush_outbound`), `Receive` (`on_data`) |
| `CodecProofs` | | | theorems about `Fec`, `Qpp` and `Framing` |
| `PacketCrypt` | `PacketCrypt` for every method, and a path that cuts or damages | `method`; `datagram`, `arrived`, `opened`: one packet's way | `Encrypt`, `Deliver`, `Decrypt` |
| `MCCodecs` | the four codecs as one run: `Fec`, one group through `ReedSolomon`, `Qpp`, `PacketCrypt` | `part`; `shape`, `packets`, `present`, `result` of the group | `GroupArrives`, `GroupDecoded` |
| `ClientPool` | slots, scavenging, ids, counters, UDP receives | `muxes_`, `transports_`, `rr_`, timers, SNMP counters; `receive`: where a connection's chain of receives stands | `HandleAccept`, `Scavenge`, `SessionEnds`, `EncryptionFails`, `HandleReceive`; `Completes` (kernel), `Tick` |
| `ClientPoolProofs` | | | theorems about `ClientPool` |
| `ServerSessions` | the table of sessions | `sessions_`; `instances`: session objects, which outlive their entry | `HandlePacket`, `SessionEnds`, `EncryptionFails`; `Send`, `ClientClose` for the clients |
| `SessionLife` | one idle session under the clock, with a server that may restart or lose it | `running`, `last_activity`, `timer` of both ends; KCP's numbers (`sent`, `got`), `wire` | `Arrive` (`KcpTransport::input` to `on_transport_bytes`, and the session `handle_packet` makes), `KeepaliveTick`; `Restart`, `LinkDown`, `Tick` |
| `ServerSessionsProofs`, `SessionLifeProofs` | | | theorems about the two, the first also about the run's composition of them |
| `RateLimiter` | the rate-limited queue of a transport | `pending_udp_`, `rate_send_active_`, `next_tx_time_`, the timer's expiry | `Enqueue`, `TimerFires`, `Close`, `Tick` |
| `PacingProofs` | | | theorems about `FlowControl` and `RateLimiter` |
| `Config` | how the configuration of either end comes about | `step`: the function of `parse_client_config` or `parse_server_config` that runs next; `args`, `cli`, `json`, `config` | one action per function; `Scan`: one round of `scan_args` |
| `Ports` | addresses from their text to listeners and dialled ports | `port`: the loop's 16-bit variable; `bound`: the listeners | `ConstructServer`, `Bind`, `ConstructClient`, `StartClient`, `Dial` |
| `ConfigProofs` | | | theorems about `Config`, and about `Ports` as the instance `Address` of `MCConfig` |
| `MCSmux`, `MCClientPool` | values for the constants of the module they extend | | |
| `MCServerSessions`, `MCConfig` | the same, and beside it `SessionLife` and `Ports` as instances | `part`: which of the two a behaviour runs | |

How they fit together. `Smux` takes for granted that KCP and the framing carry
whole frames in order; that promise is `FrameChannel`, and `Framing` is shown to
implement it (`ChannelSpec`). What `Smux` promises upwards is `StreamPipe`, and
with v1 it is shown to implement it (`PipeSpec`): a step of the program hands
bytes to an application in order or changes nothing it can see, and the end
comes after the last byte unless something may fail. `Smux` runs v2 streams with
windows of a few bytes; `FlowControl` isolates the credits so that they can be
proved for all windows and counters, and `KeepsFlowControl` shows that every
step of `Smux` with v2 and without failures is, for each direction, a step of
`FlowControl` or none (with frames of one byte, and counters that do not wrap in
that run). `Fec` takes from
`ReedSolomon` that any `data_shards_` shards give back the group. `ClientPool`
and `ServerSessions` are the two ends' views of sessions that come and go, and
take from `Smux` that a session may end at any time, from within or because its
peer is silent; `SessionLife` says when the second may happen. `Qpp` works on
the payloads of `Smux`'s frames and takes from it that they arrive whole and in
order; `PacketCrypt` is why the other models may take a datagram to arrive as it
was sent or not at all. `Config` ends with the addresses `Ports` begins with.

Abstractions worth knowing:

* Bytes in `Smux` are `<<stream, position>>`, so that loss, repetition,
  reordering and mixing of streams all show. In `FlowControl` they are only
  counted. In `Framing` each byte knows the frame, identifier or chunk it
  belongs to and where it stands in it; a header read anywhere but at the start
  of a unit is an error.
* In `Smux` the two steps of an asynchronous read, the kernel filling
  `tcp_read_buffer_` and the handler running, are separate, because v2 may
  have two reads outstanding on the one buffer.
* FEC shards are `[group, index]` and stand for their contents: reconstruction
  gives the group's data exactly when every shard it uses is of that group and
  in its place, and `Garbage` otherwise. `ReedSolomon` is where the arithmetic
  is checked.
* Time in `ClientPool` is in seconds and a due timer fires before the clock
  moves; in `RateLimiter` it is in units of the clock and a timer may be late by
  any amount; in `Smux` the 30 seconds of `smux_timeout` are not counted: a
  timeout happens only if the peer is gone, closed or unreachable. That this is
  so, and for which intervals of `keepalive`, is `HealthyStaysOpen` of
  `SessionLife`, where the clock is modelled. There too, and not by the closing
  properties of `Smux`, is it checked that the timer goes on being set
  (`SilenceBounded`).
* A write of `Smux` reaches the application whole or, if it fails, not at all;
  `async_write` may have written a part by then. `ShutdownTcpSendIfReady` leaves a
  closed stream alone, where the code shuts a socket that is closed anyway.
* `SessionLife` reduces KCP to what a reader of the other end's bytes depends on:
  segments are numbered, repeated until acknowledged and handed on without gaps.
  Timers are at most `Late` ticks late, and a path that works brings a segment
  across within `Lag`. Streams are idle.
* The run of `Qpp` has bytes of two bits, words of two bytes and two pads; shuffling,
  inverse pads and drawing words are the code's. A word is the sequence of its bytes,
  lowest first. `PacketCrypt` has whole bytes,
  the code's CRC and block sizes, and arbitrary functions for ciphers, Salsa20
  and the GCM tag.
* In `Config` an argument is a record of flag, inline value and text, and nine
  options stand for all, at least one for each way an option is treated. In
  `Ports` the text of an address is the one or two texts around its dash.

## 3. The runs

Each passing property is also shown to be breakable by a plausible change of the
code: `PROJECT.json` gives for each a mutated definition (commented
`Mutation:` in the modules) with which TLC finds it violated.

| Run | Bounds | What it shows |
|---|---|---|
| `smux_delivery` | v1, one stream: 2 bytes each way with nothing failing; 2 up, 1 down over Unix sockets with a link that may be lost; v1 against v2 and v2 against v1. Frames of 1, reads of 2 | every order of reads, writes, frames and half-closes delivers what was written and announces the end after the last byte (`PipeSpec`: `Smux` implements `StreamPipe`) and takes finished streams down (`BothEofCloses`); a lost link closes everything (`LinkLossClosesAll`); unequal versions give the session up (`MismatchCloses`) |
| `smux_failures` | v1, 2 bytes up, 1 down, logging on, and v2, 2 bytes up: resets, failed reads, writes and connects, loss of the link, scavenging, the end of the server. v1 with two streams. v2, 2 bytes each way, windows of one byte | between `queue_outbound` and the other socket nothing is lost, repeated or moved to another stream (`WireConservation`), a v2 receiver holds at most a window (`WindowRespected`), a closed session leaves no live stream (`NoOrphans`); v2 without failures takes only steps of `FlowControl` (`KeepsFlowControl`) |
| `flow_control` | frames and reads of 2, streambuf 6, initial window 2, modulus 13, 15 bytes | counters wrap once; the initial window is smaller than half of streambuf, the case the UPD for the first payload exists for. `IndInv` is the invariant of the proofs |
| `framing` | payloads 0, 1, 4; headers of 2, chunk headers and CRCs of 1; chunks of 4, so that one frame fills two; KCP segments up to 4; four frames; smuxbuf 14, enough, and 4, less than the longest frame; all combinations of smuxver and nocomp at both ends | every cutting gives the frames back (`ChannelSpec`), in time (`NothingHeld`), without false alarms (`NoFalseError`); with a small smuxbuf the session may end, but what came before is right; ends that differ pass nothing on (`MismatchRefused`) |
| `codecs` | FEC: 2 + 1 shards, modulus 48 (`paws_` 45), 32 packets, datagrams up to 4 places late, outages up to 4. The code: six shapes up to 4 + 3, packets of different length. QPP: every shuffle of one pad, 3 bytes each way in frames of 1 and 2. Encryption: seven methods, packets whose last block is empty, partial and full, every cut and two damages of each byte | `Genuine`, `Recovery` while numbers wrap; every choice of shards gives the packets back (`RoundTrip`); the generators stay in step (`QppInStep`); a packet comes back as it was or not at all (`CryptFaithful`) |
| `client_pool` | one slot with autoexpire 1 s and scavengettl 1 s, and two slots without autoexpire; 3 connections, 3 s | `EstabExact`, `LifetimeBounded`; however a receive ends and whoever closes the transport, an open one goes on receiving and a closed one lets its connection go (`ReceivePending`) |
| `server_sessions` | the table: two connections behind one endpoint, 2 data and 1 parity datagram each, repeats included. One session's life: keepalive of 2 and 2 and of 2 and 6 ticks, timeout 5, timers 1 tick late, lag 1, one restart, 12 ticks | `TableExact`, `FedByOwner`, `ZombiesEnd`; intervals that leave room within the timeout for a late timer and the way there and back keep an idle session open (`HealthyStaysOpen`), a dead peer is given up in time (`SilenceBounded`), and a client whose server lost the session is not kept alive by what the new one sends (`OrphanStarves`) |
| `rate_limiter` | packets of 1 and 5 bytes at 6 bytes per 4 ticks, 4 packets, 9 ticks | delays that truncate and the minimum of one tick both occur; `RateRespected`, `Fifo`, `QueueTimed`, `QueueDrains` |
| `config` | both ends; the environment; every way to give key, mode, interval, datashard and its alias on the command line and in the file, and all lines of up to three arguments from fourteen (inline, apart, missing, repeated, unknown, of the other end); files with the members of one end; a file that cannot be read. Addresses: thirteen forms with the highest port 4 | `Precedence`; the server listens exactly once on each port a client may dial, the highest included, or does not run (`PortsCovered`) |
| `smux_double_read`, `smux_quiet`, `config_json` | | the findings of section 4 |

Options that a user may set differently are not separate runs: `Smux`, `Framing`
and `ClientPool` choose a configuration in `Init` and keep it. `MCCodecs`,
`MCServerSessions` and `MCConfig` hold parts that look at no common variable:
each behaviour chooses its part in `Init`, runs that part alone, and leaves the
others where they start.

Why the bounds are enough. Faults in `Smux` come from the order of handlers of
one stream at its two ends, and two bytes are enough for a byte to be
at every place at once (buffer, wire, queue, socket) and for the window to be
full; two streams are enough to tell streams apart; reuse needs a third only if
ids were reused, which `next_stream_id_` rules out. Counters need one wrap, FEC
one wrap of `paws_`, the table one session closed and one created for the same
key while the first object lives, the pool one more generation of connections
than may be open at once. In `SessionLife` 12 ticks hold a timeout after a
restart and the timeout of the session made thereafter, and the intervals are
at the edge: with one tick more of keepalive `HealthyStaysOpen` would not hold
without its condition, which is tight. An address range needs one port inside,
one outside, and the last. `FlowControl` has no such question left: it is
proved. Symmetry is used only for conversation ids, which are compared and
nothing else, in runs without liveness.

Deadlock is not checked: all systems here stop when their bounded clients have
nothing more to send, which is a legal end.

Fairness. `Smux`: `WF` of each process's step, because an `io_context` that has
a ready handler runs one and no handler of the model re-enables itself for
ever once the applications stop; no fairness for applications, failures or the
link. `FlowControl`: `WF` of `Arrive`, `Consume`, `OnUpdate`, because KCP
delivers what was sent while the link is up and the property is about a
receiver that keeps reading; none for the sender's application. `RateLimiter`:
`WF` of `Tick` and of the timer. `ServerSessions`: `WF` of the closing of a
session that hears nothing, because its keepalive timer is re-armed until it is
closed; none for the clients or the network.

## 4. Findings

Three runs look for something a doc says of the program, and find that the code
does otherwise.

* `smux_double_read` (`smux.cpp:371`). `on_update` calls `start_tcp_read` while a
  read is usually outstanding; two reads share `tcp_read_buffer_`, and the second
  may complete before the handler of the first has copied its bytes. Bytes are
  repeated and lost (v2 only; `EndToEnd`).
* `smux_quiet` (`smux.cpp:114`). Without `--quiet` the connect handler evaluates
  the throwing `remote_endpoint()` for a log line; a target that has reset the
  connection by then ends the server (`ServerKeepsRunning`).
* `config_json` (`config.cpp:194`). A JSON member `Conn` or `auto-expire` is
  skipped as known by one function and looked up by its exact name by another:
  accepted, not applied, not reported (`JsonOverrides`).

Two more were met while modelling and have no run of their own:

* `smux.cpp:365`: a v2 stream whose last bytes leave in `on_update`, after both
  FINs, is never finished, because `maybe_finish` is not called there. With
  `Scenarios <- V2Upload`, windows of one byte and `FairSpec`, TLC finds
  `BothEofCloses` violated.
* `config.cpp:394`: `datashard + parityshard` overflows `int`, and 2147483647 and 1
  pass the limit of 256 (`Valid` in `Config`, where `Plus` wraps).

`PipeSpec` and `BothEofCloses` are therefore checked for v1 only; for v2 there
are `WireConservation` and `KeepsFlowControl`, which start at `queue_outbound`,
behind the first defect.

## 5. What is proved

`PacingProofs` proves, for every `FrameSize`, `StreamBuf`, `InitWindow`,
`ReadBuf`, `Modulus` and `MaxBytes` that `FlowAssumption` admits:

| Theorem | Statement | Meaning |
|---|---|---|
| `FlowInvariant` | `Spec => []IndInv` | the invariant below |
| `FlowTypes` | `Spec => []TypeOK` | the counters stay uint32; a part of `IndInv` |
| `FlowBuffer` | `Spec => []BufferBounded` | the receiver never holds more than the larger window, with what is on its way |
| `FlowWindow` | `Spec => []WindowExact` | the window computed from wrapped counters is the true one |
| `FlowNoStall` | `Spec => []NoStall` | bytes are held back only while something under way will release them |

The assumption is that all sizes are positive and twice a window is less than
the modulus. The code justifies it: `validate_common_config` demands positive
sizes, they are `int`, and the counters are `uint32`.

The properties are not inductive. That the window is exact needs that what is
in flight is below half of the modulus, which needs the window to have been
respected (`CreditKept`: `sent - acked <= MaxWindow`), which needs the wrapped
counters to stand for the positions (`CountersWrap`), the acknowledged position
to be below the sent one (`Positions`) and the UPDs under way to lie between
(`UpdatesInOrder`). That nothing stalls needs in addition that the last UPD
stands at `consumed - incr` with `incr` below the threshold, that a sender with
pending bytes has used its whole window, and that the window in force is the
initial one exactly until the first UPD (`WindowInForce`), which the `num_read_
== bytes` clause of `mark_payload_consumed` guarantees. Then, if everything
sent were consumed and no UPD under way, less than half of `streambuf` would be
unacknowledged although a whole window is: a contradiction. `IndInv` is the
conjunction, TLC checks it in `flow_control`, and the proof takes it through
each action: first the arithmetic of wrapped counters (`DivMod` to `WrapSub`),
then what one call of `try_flush_outbound` does (`FlushFacts`), then one lemma
per action.

Of `RateLimiter` it proves, for every set of packet sizes, every `RateLimit`, every
resolution of the clock (`Second`) and every bound that `RateAssumption` admits:

| Theorem | Statement | Meaning |
|---|---|---|
| `RateInvariant` | `RateSpec => []RateIndInv` | the invariant below |
| `RateTypes` | `RateSpec => []RateTypeOK` | among it: the timer's handler finds a packet |
| `RateSpacing` | `RateSpec => []RateRespected` | no two packets leave closer than the rate allows |
| `RateFifo` | `RateSpec => []Fifo` | nothing is lost, repeated or overtaken before close |
| `RateTimed` | `RateSpec => []QueueTimed` | a waiting packet has a timer |

The assumption is that sizes, rate and second are positive: `schedule_rate_limited_send`
runs only for a positive `ratelimit`. Spacing is not inductive: it needs that
`next_tx_time` is at least the last packet's time plus its delay (`Paced`), and
that a running timer expires exactly at `next_tx_time` and stands for a packet
(`TimerServes`). The first survives an enqueue on an idle transport because
scheduling only moves `next_tx_time` forward (`ScheduleFacts`), and a late timer
because the next time is counted from the later of the due time and now
(`NextTxTimeLater`). `InOrder` states `Fifo` position by position, which is the form
in which a step is easy to follow; `FifoFromInOrder` puts the sequence together.
The proofs do not use the bounds `MaxPackets` and `MaxTime` beyond the type of `now`.

`SmuxProofs` and, the last three, `SmuxPipeProofs` prove, for every frame size, streambuf, initial window, read
buffer, modulus, number of streams and set of scenarios that `SmuxAssumption`
admits:

| Theorem | Statement | Meaning |
|---|---|---|
| `SmuxInvariant` | `Spec => []SmuxInv` | the invariant below |
| `SmuxConservation` | `Spec => []WireConservation` | between `queue_outbound` and the other socket no byte is lost, repeated, reordered or moved to another stream, whatever fails |
| `SmuxNoOrphans` | `Spec => []NoOrphans` | a closed session has no open stream and gets none |
| `SmuxWindow` | `Spec => []WindowRespected` | a v2 receiver holds at most the larger window, with what is on its way, whatever fails |
| `SmuxEndToEnd` | `Spec => []EndToEnd` | an application gets the beginning of what the application at the other end wrote, whatever fails |
| `SmuxPipe` | `Spec => PipeSpec` | every step is one of `StreamPipe` or none: a session implements its pipes |
| `SmuxTypes` | `Spec => []TypeOK` | among it: no queued buffer is empty or longer than what was read, no frame longer than `framesize` |

The assumption is that of the code: sizes are positive, and twice a window is
less than the range of the counters. `SmuxEndToEnd` and `SmuxPipe` say by a
hypothesis what the runs of these properties say by their scenarios: not both
ends speak version 2. With version 2 at both ends the two properties are false
(`smux_double_read`). `SmuxPipe` bounds the bytes applications write, because the
positions that `Smux` gives `StreamPipe` as its bytes end with the largest of them.
`SmuxInv` is the conjunction of `Types`,
`NoOrphans`, `Conserved` and `Order`. `Types` gives every record its type and
says what holds of it between handlers (`Sound`: a write is outstanding only
with its payload in the queue, a completed read lies within the buffer, a closed
stream reads and sends no more). `Conserved` is stronger than the property at
its edges: when a stream or a session at either end has closed, what is still
on its way continues what was delivered (`Balanced`), because frames of a closed
stream are still received by the other end. `Order` says that on the way to the
server the SYN of a stream comes before every other frame of it, and that a
stream that does not exist yet has neither sent nor been sent anything else; without
it a frame for an unknown stream, which `consume_stream_bytes` drops, could carry
a byte of a live one. Each handler is first shown to be a step of a simple
shape on its stream's record (`Moves`, `Steps`), by one lemma per helper; the
actions then follow from those shapes. TLC has checked `SmuxInv` on the runs
`smux_delivery` and `smux_failures`. `FlattenSeq` is defined in the community modules
by a recursive function; what it does to `Append`, `Tail` and `\o` is proved by
induction over a set of numbers (`SetInduction`, from the least element of a
set), which needs no operator as a parameter.

`SmuxWindow` needs a second invariant on top of `SmuxInv`: `WindowInv`. Where both
ends speak version 2, `Windowed` says of each direction of each stream that the
load (what the receiver holds and what is on its way there) is at most the
larger window; and, while both ends and both sessions are open, that `num_written_`
is `num_read_` plus the load modulo the counters' range, that the load and the
distance by which the acknowledged position lags behind `num_read_` together
stay within a window, and that the UPDs under way carry positions that lag less
and less (`Credits`). The middle one is what `try_flush_outbound` relies on when
it subtracts wrapped counters; the last one is why an UPD can only shorten the
lag. The first is kept apart from the others because the load may only shrink
once either end has closed, when the counters no longer agree. Where the
versions differ, the server refuses the first frame and neither end ever takes
a byte (`Refused`), so that a v2 end beside a v1 end, which sends without regard to
windows, is not an exception. Each handler is shown to be a trade between the
record and the frames it sends (`Trades`: `try_flush_outbound` writes within the window,
`mark_payload_consumed` reads and may acknowledge), and one lemma carries the
invariant over any trade (`PaysWindow`). TLC has checked `WindowInv` on two
configurations with half a million states each, one of them with different
versions. The property is stated by `FlowControl` as well (`BufferBounded`); this
proof is about the counters inside the session, with resets, failures and other
streams beside them.

`SmuxEndToEnd` and `SmuxPipe` rest on `Piped`. Towards the sending application,
`Reader`: a stream has at most one read in the kernel or completed, and what was
queued is the beginning of what that application sent, followed by the bytes the
one completed read holds and then by what the kernel took; this is what a second
read outstanding on `tcp_read_buffer_` breaks in version 2, and why the theorem is
about version 1. `Finished`: the FIN is sent only once all of it is queued.
Between the ends, `Paired`: what one end queued is what the other end was
given and holds, followed by what the wire carries, no PSH comes behind a FIN, and
no FIN is known of before everything is there. Towards the
receiving application, `Drained`: the end is announced by `maybe_finish` only after the remote FIN and with
`pending_tcp_writes_` empty. `Calm`: while nothing may fail, nothing is closed,
and nobody is gone, except streams that have finished in both directions. That a session whose
ends disagree on the version moves no byte is `Refused` of `WindowInv`. `AllGrow`, a fact about
steps, is the promise of the pipes: bytes delivered stay delivered. TLC
has checked the invariant (`PipeInv`) on a configuration of 160,000 states.

`SmuxTypes` needs the ranges that `Types` leaves out. `Boxes` says that the
buffers in the two queues are non-empty and at most `tcp_read_buffer_` or
`framesize` long, and the buffer of a completed read one of that stream's own
application's; `Wires` that frames under way fit `framesize`; `Taken` that
the kernel has not taken more than was sent. The step that is hard is
`try_flush_outbound`, which takes frames from a queue of buffers at any
boundary: what it leaves is a non-empty rest of one buffer and then whole ones
(`LeftSized`). TLC has checked the invariant (`TypeInv`) on 582,000 states.

`ClientPoolProofs` proves, for every set of configurations, wrap of `rr_`, and
bound that `PoolAssumption` admits:

| Theorem | Statement | Meaning |
|---|---|---|
| `PoolInvariant` | `Spec => []PoolIndInv` | the invariant below |
| `PoolEstabExact` | `Spec => []EstabExact` | ids in use and `curr_estab` agree with the open transports |
| `PoolReceivePending` | `Spec => []ReceivePending` | an open transport is never deaf, a closed one lets its connection go |
| `PoolLifetime` | `Spec => []LifetimeBounded` | with autoexpire no connection outlives autoexpire + scavengettl |

The assumption says that `conn` is positive (`validate_client_config`) and the
other options are natural numbers. `PoolIndInv` adds to the properties the types, that a session that ended took its
transport with it (`ClosedThrough`, without which a second close would count
twice), and that with autoexpire each open connection has a scavenge timer set at
its birth and not yet due (`ScavengeSet`).

`ServerSessionsProofs` proves, for every finite set of clients on however many
endpoints, provided that two clients of one endpoint have different conversation ids
(`ServerAssumption`: the client draws an id that is not in use):

| Theorem | Statement | Meaning |
|---|---|---|
| `ServerInvariant` | `Spec => []ServerIndInv` | the invariant below |
| `ServerTypes` | `Spec => []TypeOK` | among it: `curr_estab` never becomes negative |
| `ServerTable` | `Spec => []TableExact` | the table holds exactly the sessions with an open transport |
| `ServerFedByOwner` | `Spec => []FedByOwner` | no session is fed what belongs to another endpoint, or data of another conversation |
| `HealthySessions`, `SilentSessions`, `OrphanSessions` | `MCSpec => []HealthyStaysOpen`, `[]SilenceBounded`, `[]OrphanStarves` | the results below in the system the run checks |

`ServerIndInv` adds that every entry names a session created under its key
(`EntriesOwn`) and that a key is its session's endpoint and id (`KeysOwn`).

`SessionLifeProofs` proves, for all intervals, timeouts, lags and delays of timers
that `LifeAssumption` admits (all are natural numbers):

| Theorem | Statement | Meaning |
|---|---|---|
| `LifeClock`, `LifeSilence` | `Spec => []ClockInv`, `[]SilenceBounded` | whoever hears nothing has closed after `smux_timeout`, one interval and one late tick |
| `LifeInvariant`, `LifeHealthy` | `Spec => []LifeInv`, `[]HealthyStaysOpen` | intervals that leave room within the timeout keep an idle session open |
| `LifeOrphan`, `LifeOrphanStarves` | `Spec => []OrphanInv`, `[]OrphanStarves` | a client whose server lost the session hears a bounded number of what the new sessions send |

`ClockInv` ties each running end's timer to its last activity and to the clock.
`LifeInv` says, for a path that works, that every segment has arrived or is
under way and not overdue, that the server does not yet run or the segment with
which the client began is there, and that each end heard of the other recently. `OrphanInv` counts: the numbers the
client can still take for new are among the stray datagrams and those below
`Nops`, as no session the server makes lives long enough to send more; each one heard is used up
(`Spent`). TLC has checked all three on the run's 5 million states with smaller
intervals. The module's theorems have the assumption as a hypothesis, because it
is used as an instance; `MCServerSessions` assumes it of the run's constants
(`LifeConstants`), and TLC evaluates it there.

`CodecProofs` proves, for every number of data and parity shards, range of the
sequence numbers, number of sets kept, delay and outage that `FecAssumption`
admits:

| Theorem | Statement | Meaning |
|---|---|---|
| `FecInvariant` | `Spec => []FecInv` | the invariant below |
| `FecGenuine` | `Spec => []Genuine` | `decode` puts out only packets that were encoded, across the wrap at `paws_` |
| `FecRecovery` | `Spec => []Recovery` | any `data_shards_` shards of a group that arrive while it is one of the last `max_shard_sets` yield all of it |

The assumption is that a datagram's age, an outage and the sets kept span less than half of the
sequence numbers: with 2^32 of them that is two thousand million datagrams.
The decoder knows a shard only by a number modulo `paws_`, so the proof is about
when that number determines the group. `FecInv`: the encoder's number is
its place modulo `paws_` (`Encoder`; skipped parity keeps it so), a datagram under way has the
number of its shard and is neither far ahead of the newest one heard nor
far behind it (`OnTheWay`, `Together`), each set collected holds shards of one
group in their places and that group is no older than the sets kept and what a
delay adds (`Decoder`), and `newest_shard_id_` is the group heard last modulo the sets. Two groups
that near with one id are the same group (`SameGroup`), and then a set is never
filled from two. Recovery needs in addition, for each recent group, that the data shards
that arrived came out, and that as long as its packets are not all out its set
holds exactly what arrived of it and that is too little (`Follows`); a complete
set is erased, and late shards may open it again, which `Follows` allows once
all packets are out. TLC has checked both invariants with the constants of
`codecs`.

About `Qpp` the module proves, for every number of pads, size of byte and word,
generator, frame and pair of texts that `QppConstants` admits:

| Theorem | Statement | Meaning |
|---|---|---|
| `QppInvariant` | `QppSpec => []QppInv` | the invariant below |
| `QppStaysInStep` | `QppSpec => []QppInStep` | what `on_data` unscrambles is what `try_flush_outbound` was given, and the two generators of a direction stay in step |

`QppConstants` says that exclusive or undoes itself and stays within bytes, that
a word has at least the bytes that are used of it, and that the draws of a shuffle are at
most the place they are for, as a remainder is. It is a hypothesis, because `Qpp` is used as
an instance; `MCCodecs` assumes it of the run's constants and TLC evaluates it there. `QppInv` says
where each generator `Stands`: the writing one of a direction after the bytes
taken there, the reading one after the bytes received; and that each frame
under way `Carries` the bytes after those before it, scrambled from where the
writing generator then stood. That a byte comes back needs that every pad is a
permutation (`Pads`), which each swap of a shuffle preserves, and that the inverse
pad undoes it. A generator's state after n bytes is a recursive function of n
(`Advanced`); what is said of all n is proved by `SetInduction`.

About `Framing` the module proves, for all lengths of payloads, sizes of headers,
chunks and segments, smuxbufs, and numbers of frames that `FramingAssumption`
admits:

| Theorem | Statement | Meaning |
|---|---|---|
| `FramingInvariant` | `FramingSpec => []FramingInv` | the invariant below |
| `FramingTypes` | `FramingSpec => []TypeOK` | among it: between ends that agree neither reassembly buffer ever holds a whole unit |
| `FramingNoFalseError` | `FramingSpec => []NoFalseError` | no cutting makes ends that agree give up, if smuxbuf has room |
| `FramingNothingHeld` | `FramingSpec => []NothingHeld` | no frame waits for bytes of the next |
| `FramingMismatchRefused` | `FramingSpec => []MismatchRefused` | ends that differ pass no frame on and have closed by the time the first frame is there |
| `FramingChannel` | `FramingSpec => ChannelSpec` | each step of the byte path is one of `FrameChannel`, or a stutter |

The assumption says that the sizes of headers are positive, payload lengths
finitely many, and that a chunk header (4 bytes) is no longer than a frame's (8)
and that no longer than the stream identifier (10), which is what makes either kind
of mistaken end notice with the first unit. Bytes are about units:
`Composed` relates a sequence of bytes to what it says, as the least relation
that contains nothing and is closed under putting a unit in front; so `Spelled`
relates bytes to frames, `Chunked` to the plain bytes of data chunks, and `Joined`
plain bytes to the pieces that `encode` cut them into. What is composed and begins with a byte begins
with the whole unit of that byte (`Front`, `ChunkFront`), so that a loop that has a
header knows what is in front of it. The three loops of the code
(`encode`, `decode`, the one of `consume_stream_bytes`) end because each round that changes
something shortens what is left (`LoopResult`), and they end in any set that no round leaves.
`FramingInv` says, for ends that agree, that the frames received, with those that `receive_buffer_`
and the plain bytes still coming spell out, are the frames sent (`Spelling`), where the plain bytes
that are coming are those of KCP, or those of the chunks that `buffer_` and KCP make up
(`Coming`); that both buffers wait for bytes of one unit (`Settled`, `Waiting`) bounds what smuxbuf
must hold. For ends that differ in the version or in compression, it says that what `receive_buffer_` and
KCP hold starts with something that is no header here (`Refused`), or that `buffer_` lacks a chunk
header and has not seen the identifier (`OpenRaw`). `NothingHeld` follows since a buffer that waits
and is whole is empty (`NoFrameLeft`, `NoChunkLeft`). That the loops'
results exist as functions, and what is said of all sequences, is proved by
induction over sets (`SetInduction`, `ComposedInduction`). `FramingInv` speaks of
all sequences of bytes, so TLC cannot evaluate it; it checks the four properties and the
refinement.

`ConfigProofs` proves, for every set of command lines, files and defaults
(`ConfigAssumption`), and every set of addresses and largest port:

| Theorem | Statement | Meaning |
|---|---|---|
| `ConfigInvariant` | `Spec => []ConfigInv` | what each option is worth before each function of the parser |
| `ConfigPrecedence` | `Spec => []Precedence` | a configuration that is accepted follows the documented precedence |
| `PortsInvariant` | `Address!Spec => []PortsInv` | the server has bound, once each, the ports its loop has passed |
| `PortsListened` | `MCSpec => []PortsCovered` | the server listens exactly once on each port a client may dial, or does not run |

Precedence is about the end of a sequence of assignments; `ConfigInv` says for
each place in the sequence which sources have been applied and that the names in them
are those of options, which is what the rejections in between are for. `AddressConstants` says that an
address is one or two texts around its dash, each a number or not, or
malformed; MCConfig assumes it of the constants its cfg gives, and TLC evaluates it.

Only model-checked:

* Liveness (`BothEofCloses`, `LinkLossClosesAll`, `MismatchCloses`, `AllConsumed`,
  `QueueDrains`, `ZombiesEnd`), which needs fairness and `ENABLED`.
* The refinement `KeepsFlowControl`. It holds with frames of one byte and
  counters that do not wrap within the run, and is about the mapping of queues to counts; what it is for,
  the window, is proved of `Smux` itself (`SmuxWindow`).
* `RoundTrip` and `CryptFaithful`: `ReedSolomon`'s operators are recursive, and
  the ciphers are arbitrary functions, of which `CryptFaithful` is a calculation.

## 6. What is not modelled

* KCP itself (retransmission, windows, its update timer): a library. It is a
  reliable byte stream until the path fails, cut anywhere, and in `SessionLife`
  numbered segments; that the application of `ratelimit` makes it repeat more
  is not looked at.
* The ciphers, Salsa20, GCM and PBKDF2: Crypto++. `PacketCrypt` takes functions
  for them, so it says nothing of secrecy, nor of a datagram encrypted with
  another key, which meets the same checks as a damaged one. The advice on QPP parameters
  (`validate_qpp_params`) is only logged.
* Whose a parity datagram is: it names no conversation, and `FedByOwner` demands
  only its endpoint. Which of `--datashard` and `--ds` on one line wins: nothing
  says which should, and `Precedence` allows both.
* The diagnostics server, the logger and the CSV statistics: pure input and
  output. The logger's one influence on control is in `Smux` (`Quiet`).
* Accept errors (logged, then the next accept), socket options, host names, the
  texts of help and version, signal handling.
* `kcp_session.cpp` and `compression.cpp`: in no target of `CMakeLists.txt`.

## 7. Plan

Done, in the order in which it was built: `Smux` with its runs; `FlowControl`
and its proofs; `Fec` and `ReedSolomon`; `ClientPool`, `ServerSessions`,
`RateLimiter` and its proofs; `FrameChannel` and `Framing`; `Config`; then
`SessionLife`; `Qpp` and `PacketCrypt`; `StreamPipe` and the two refinements of
`Smux`; the receives of `ClientPool`; `Ports`, and the server's half of `Config`.

Proved: `FlowControl` and `RateLimiter`; the invariants of `ClientPool`,
`ServerSessions`, `SessionLife`, `Fec`, `Qpp`, `Framing`, `Config` and `Ports`, with the
refinement of `FrameChannel` by `Framing`; of `Smux` the
types, conservation, the absence of orphans, the respected window, and with
version 1 the refinement of `StreamPipe`.

Left to prove: `KeepsFlowControl` of `Smux`, step by step, for frames of one byte
and counters that do not wrap.
