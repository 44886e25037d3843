--------------------------- MODULE SmuxPipeProofs ---------------------------
(***************************************************************************)
(* TLAPS proofs about Smux from its ends: that without version 2 at both    *)
(* ends a session implements StreamPipe, on top of the invariants of        *)
(* SmuxProofs, and that its buffers and frames keep to their sizes.         *)
(***************************************************************************)
EXTENDS SmuxProofs

-----------------------------------------------------------------------------
(* Sessions of version 1 are pipes.  A stream has one read at a time, so    *)
(* what it queues is what its application sent, in order; where nothing     *)
(* fails FIN is the last frame of a stream and comes after all of it, and   *)
(* an application is told the end only once FIN is there and everything     *)
(* has been written to it.                                                  *)

LEMMA AppBytesNone == \A i \in Ids : AppBytes(i, 0, 0) = <<>>
  <1>1. SUFFICES ASSUME NEW i \in Ids PROVE AppBytes(i, 0, 0) = <<>>
    OBVIOUS
  <1>2. PICK x : x = AppBytes(i, 0, 0)
    OBVIOUS
  <1>3. x \in Seq(Item) /\ Len(x) = 0
    <2>1. 0 \in Nat /\ 0 + 0 = 0
      OBVIOUS
    <2>2. AppBytes(i, 0, 0 + 0) \in Seq(Item) /\ Len(AppBytes(i, 0, 0 + 0)) = 0
      BY <2>1, AppBytesType
    <2>3. QED
      BY <1>2, <2>1, <2>2
  <1>4. QED
    BY <1>2, <1>3, EmptySeq

\* The bytes an application has sent so far.
LEMMA AppBytesSent ==
    ASSUME NEW i \in Ids, NEW n \in Nat
    PROVE  /\ AppBytes(i, 0, n) \in Seq(Item) /\ Len(AppBytes(i, 0, n)) = n
           /\ \A k \in 1..n : AppBytes(i, 0, n)[k] = <<i, k>>
  <1>1. 0 \in Nat /\ 0 + n = n /\ n - 0 = n
    OBVIOUS
  <1>2. AppBytes(i, 0, 0 + n) \in Seq(Item) /\ Len(AppBytes(i, 0, 0 + n)) = n
    BY <1>1, AppBytesType
  <1>3. AppBytes(i, 0, n) = [k \in 1..n |-> <<i, 0 + k>>]
    BY <1>1, Zenon DEF AppBytes
  <1>4. \A k \in 1..n : AppBytes(i, 0, n)[k] = <<i, k>>
    BY <1>3
  <1>5. QED
    BY <1>1, <1>2, <1>4

LEMMA AppBytesConcat ==
    ASSUME NEW i \in Ids, NEW t \in Nat, NEW n \in Nat
    PROVE  AppBytes(i, 0, t) \o AppBytes(i, t, t + n) = AppBytes(i, 0, t + n)
  <1>1. PICK x, y, z, c : /\ x = AppBytes(i, 0, t) /\ y = AppBytes(i, t, t + n)
                          /\ z = AppBytes(i, 0, t + n) /\ c = x \o y
    BY Zenon
  <1>2. t + n \in Nat /\ (t + n) - t = n
    OBVIOUS
  <1>3. x \in Seq(Item) /\ Len(x) = t /\ \A k \in 1..t : x[k] = <<i, k>>
    BY <1>1, AppBytesSent, Zenon
  <1>4. z \in Seq(Item) /\ Len(z) = t + n /\ \A k \in 1..(t + n) : z[k] = <<i, k>>
    BY <1>1, <1>2, AppBytesSent, Zenon
  <1>5. y \in Seq(Item) /\ Len(y) = n
    BY <1>1, AppBytesType, Zenon
  <1>6. y = [k \in 1..n |-> <<i, t + k>>]
    BY <1>1, <1>2, Zenon DEF AppBytes
  <1>7. /\ c \in Seq(Item) /\ Len(c) = t + n
        /\ \A k \in 1..(t + n) : c[k] = IF k <= t THEN x[k] ELSE y[k - t]
    <2>1. /\ c \in Seq(Item) /\ Len(c) = Len(x) + Len(y)
          /\ \A k \in 1..(Len(x) + Len(y)) : c[k] = IF k <= Len(x) THEN x[k] ELSE y[k - Len(x)]
      BY <1>1, <1>3, <1>5, ConcatProperties
    <2>2. QED
      BY <1>3, <1>5, <2>1
  <1>8. ASSUME NEW k \in 1..(t + n) PROVE c[k] = z[k]
    <2>1. CASE k <= t
      <3>1. k \in 1..t
        BY <2>1
      <3>2. c[k] = x[k]
        BY <1>7, <2>1
      <3>3. QED
        BY <1>3, <1>4, <3>1, <3>2, Zenon
    <2>2. CASE k > t
      <3>1. k - t \in 1..n /\ t + (k - t) = k /\ ~(k <= t)
        BY <2>2
      <3>2. y[k - t] = <<i, t + (k - t)>>
        BY <1>6, <3>1
      <3>3. c[k] = y[k - t]
        BY <1>7, <3>1
      <3>4. QED
        BY <1>4, <3>1, <3>2, <3>3
    <2>3. QED
      BY <2>1, <2>2
  <1>9. c = z
    BY <1>4, <1>7, <1>8, SeqEqual
  <1>10. QED
    BY <1>1, <1>9, Zenon

LEMMA AppBytesPrefix ==
    ASSUME NEW i \in Ids, NEW n \in Nat, NEW m \in Nat, n <= m
    PROVE  AppBytes(i, 0, n) = SubSeq(AppBytes(i, 0, m), 1, n)
  <1>1. PICK x, y, z : /\ x = AppBytes(i, 0, n) /\ y = AppBytes(i, 0, m) /\ z = SubSeq(y, 1, n)
    BY Zenon
  <1>2. /\ x \in Seq(Item) /\ Len(x) = n /\ y \in Seq(Item) /\ Len(y) = m
        /\ \A k \in 1..n : x[k] = <<i, k>>
        /\ \A k \in 1..m : y[k] = <<i, k>>
    BY <1>1, AppBytesSent, Zenon
  <1>3. z \in Seq(Item) /\ Len(z) = n /\ \A k \in 1..n : z[k] = y[k]
    <2>1. \A k \in 1..n : y[k] \in Item
      BY <1>2, ElementOfSeq
    <2>2. /\ z \in Seq(Item) /\ Len(z) = IF 1 <= n THEN n - 1 + 1 ELSE 0
          /\ \A k \in 1..(n - 1 + 1) : z[k] = y[1 + k - 1]
      BY <1>1, <2>1, SubSeqProperties
    <2>3. QED
      BY <2>2
  <1>4. \A k \in 1..n : x[k] = z[k]
    BY <1>2, <1>3
  <1>5. x = z
    BY <1>2, <1>3, <1>4, SeqEqual
  <1>6. QED
    BY <1>1, <1>5
-----------------------------------------------------------------------------
(* One stream of a session of version 1, with its application e.            *)

First == \A s \in Side : Version[s] # 2

\* The bytes of a completed read whose handler has not run yet.
InHand(r) ==
    IF r.done # <<>> /\ Head(r.done) > 0 THEN SubSeq(r.tcp_read_buffer, 1, Head(r.done)) ELSE <<>>

\* At most one read is outstanding, and nothing taken from the application is lost.
Reader(i, r, e) ==
    /\ r.reads + Len(r.done) <= 1
    /\ ~r.tcp_ready => r.reads = 0 /\ r.done = <<>>
    /\ r.phase # "idle" => ~r.tcp_ready
    /\ r.pending_outbound = <<>>
    /\ e.taken <= e.sent
    /\ \E n \in 0..e.taken : r.queued = AppBytes(i, 0, n)
    /\ ~r.closed => r.queued \o InHand(r) = AppBytes(i, 0, e.taken)

\* FIN follows everything the application sent, and is the last of the stream.
Finished(i, r, e) ==
    /\ r.local_fin_sent => /\ r.tcp_ready /\ e.eof /\ r.reads = 0 /\ r.done = <<>>
                           /\ r.queued = AppBytes(i, 0, e.sent)
    /\ r.done # <<>> => /\ Head(r.done) >= 0
                        /\ Head(r.done) = 0 => e.eof /\ e.taken = e.sent

\* The application is told the end when everything has been written to it.
Drained(r) ==
    /\ r.close_timer \/ r.closed => r.local_fin_sent
    /\ r.send_shut \/ r.close_timer \/ r.closed =>
          r.remote_fin_received /\ r.pending_tcp_writes = <<>> /\ ~r.tcp_write_active

\* The fields Reader and Finished are about, but for closed and local_fin_sent.
SameReads(a, b) ==
    /\ b.tcp_ready = a.tcp_ready /\ b.phase = a.phase
    /\ b.reads = a.reads /\ b.done = a.done /\ b.tcp_read_buffer = a.tcp_read_buffer
    /\ b.pending_outbound = a.pending_outbound /\ b.queued = a.queued

\* The other direction.
SameWrites(a, b) ==
    /\ b.remote_fin_received = a.remote_fin_received /\ b.send_shut = a.send_shut
    /\ b.pending_tcp_writes = a.pending_tcp_writes /\ b.tcp_write_active = a.tcp_write_active
    /\ b.delivered = a.delivered

SameSends(a, b) == b.local_fin_sent = a.local_fin_sent /\ b.out = a.out

\* What an application has been given, or told, stays so.
Grows(a, b) ==
    /\ Extends(a.delivered, b.delivered)
    /\ a.send_shut => b.send_shut
    /\ a.closed => b.closed

LEMMA ReaderSame ==
    ASSUME NEW i, NEW a, NEW b, NEW e, SameReads(a, b), a.closed => b.closed, Reader(i, a, e)
    PROVE  Reader(i, b, e)
  <1>1. InHand(b) = InHand(a)
    BY Zenon DEF SameReads, InHand
  <1>2. QED
    BY <1>1, Zenon DEF Reader, SameReads

LEMMA FinishedSame ==
    ASSUME NEW i, NEW a, NEW b, NEW e, SameReads(a, b), b.local_fin_sent = a.local_fin_sent,
           Finished(i, a, e)
    PROVE  Finished(i, b, e)
  BY Zenon DEF Finished, SameReads

LEMMA GrowsTrans ==
    ASSUME NEW F, NEW a \in StreamRec(F), NEW b \in StreamRec(F), NEW c \in StreamRec(F),
           Grows(a, b), Grows(b, c)
    PROVE  Grows(a, c)
  <1>1. Extends(a.delivered, c.delivered)
    <2>1. a.delivered \in Seq(Item) /\ b.delivered \in Seq(Item) /\ c.delivered \in Seq(Item)
      BY DEF StreamRec
    <2>2. Extends(a.delivered, b.delivered) /\ Extends(b.delivered, c.delivered)
      BY DEF Grows
    <2>3. QED
      BY <2>1, <2>2, ExtendsTrans
  <1>2. QED
    BY <1>1 DEF Grows

\* Nothing more is delivered, and the end is not taken back.
LEMMA GrowsSame ==
    ASSUME NEW F, NEW a \in StreamRec(F), NEW b, b.delivered = a.delivered,
           a.send_shut => b.send_shut, a.closed => b.closed
    PROVE  Grows(a, b)
  <1>1. a.delivered \in Seq(Item)
    BY DEF StreamRec
  <1>2. Extends(a.delivered, b.delivered)
    BY <1>1, ExtendsSelf
  <1>3. QED
    BY <1>2 DEF Grows

\* start_tcp_read.
LEMMA ReadStarted ==
    ASSUME NEW F, NEW r \in StreamRec(F), NEW b, b = StartTcpRead(r)
    PROVE  /\ SameWrites(r, b) /\ SameSends(r, b) /\ b.created = r.created
           /\ b.closed = r.closed /\ b.close_timer = r.close_timer
           /\ b.tcp_ready = r.tcp_ready /\ b.phase = r.phase /\ b.done = r.done
           /\ b.tcp_read_buffer = r.tcp_read_buffer /\ b.queued = r.queued
           /\ b.pending_outbound = r.pending_outbound
           /\ \/ b.reads = r.reads
              \/ b.reads = r.reads + 1 /\ ~r.closed /\ r.tcp_ready /\ ~r.local_fin_sent
  <1>1. PICK c : c = [r EXCEPT !.reads = r.reads + 1]
    BY Zenon
  <1>2. /\ SameWrites(r, c) /\ SameSends(r, c) /\ c.created = r.created
        /\ c.closed = r.closed /\ c.close_timer = r.close_timer
        /\ c.tcp_ready = r.tcp_ready /\ c.phase = r.phase /\ c.done = r.done
        /\ c.tcp_read_buffer = r.tcp_read_buffer /\ c.queued = r.queued
        /\ c.pending_outbound = r.pending_outbound /\ c.reads = r.reads + 1
    BY <1>1, Zenon DEF StreamRec, SameWrites, SameSends
  <1>3. \/ b = r
        \/ b = c /\ ~r.closed /\ r.tcp_ready /\ ~r.local_fin_sent
    BY <1>1, Zenon DEF StartTcpRead
  <1>4. CASE b = r
    BY <1>4, Zenon DEF SameWrites, SameSends
  <1>5. CASE b = c /\ ~r.closed /\ r.tcp_ready /\ ~r.local_fin_sent
    BY <1>2, <1>5, Zenon
  <1>6. QED
    BY <1>3, <1>4, <1>5

\* flush_tcp_writes, shutdown_tcp_send_if_ready and maybe_finish.
LEMMA WriteStarted ==
    ASSUME NEW F, NEW r \in StreamRec(F), NEW b, b = FlushTcpWrites(r)
    PROVE  /\ SameReads(r, b) /\ SameSends(r, b) /\ b.created = r.created
           /\ b.closed = r.closed /\ b.close_timer = r.close_timer
           /\ b.remote_fin_received = r.remote_fin_received /\ b.send_shut = r.send_shut
           /\ b.pending_tcp_writes = r.pending_tcp_writes /\ b.delivered = r.delivered
           /\ b.tcp_write_active = r.tcp_write_active \/ r.pending_tcp_writes # <<>>
  <1>1. PICK c : c = [r EXCEPT !.tcp_write_active = TRUE]
    BY Zenon
  <1>2. /\ SameReads(r, c) /\ SameSends(r, c) /\ c.created = r.created
        /\ c.closed = r.closed /\ c.close_timer = r.close_timer
        /\ c.remote_fin_received = r.remote_fin_received /\ c.send_shut = r.send_shut
        /\ c.pending_tcp_writes = r.pending_tcp_writes /\ c.delivered = r.delivered
    BY <1>1, Zenon DEF StreamRec, SameReads, SameSends
  <1>3. b = r \/ (b = c /\ r.pending_tcp_writes # <<>>)
    BY <1>1, Zenon DEF FlushTcpWrites
  <1>4. CASE b = r
    BY <1>4, Zenon DEF SameReads, SameSends
  <1>5. CASE b = c /\ r.pending_tcp_writes # <<>>
    BY <1>2, <1>5, Zenon
  <1>6. QED
    BY <1>3, <1>4, <1>5

LEMMA SendShut ==
    ASSUME NEW F, NEW r \in StreamRec(F), NEW b, b = ShutdownTcpSendIfReady(r)
    PROVE  /\ SameReads(r, b) /\ SameSends(r, b) /\ b.created = r.created
           /\ b.closed = r.closed /\ b.close_timer = r.close_timer
           /\ b.remote_fin_received = r.remote_fin_received /\ b.tcp_write_active = r.tcp_write_active
           /\ b.pending_tcp_writes = r.pending_tcp_writes /\ b.delivered = r.delivered
           /\ r.send_shut => b.send_shut
           /\ \/ b.send_shut = r.send_shut
              \/ r.remote_fin_received /\ r.pending_tcp_writes = <<>> /\ ~r.tcp_write_active
  <1>1. PICK c : c = [r EXCEPT !.send_shut = TRUE]
    BY Zenon
  <1>2. /\ SameReads(r, c) /\ SameSends(r, c) /\ c.created = r.created
        /\ c.closed = r.closed /\ c.close_timer = r.close_timer
        /\ c.remote_fin_received = r.remote_fin_received /\ c.tcp_write_active = r.tcp_write_active
        /\ c.pending_tcp_writes = r.pending_tcp_writes /\ c.delivered = r.delivered
        /\ c.send_shut
    BY <1>1, Zenon DEF StreamRec, SameReads, SameSends
  <1>3. \/ b = r
        \/ b = c /\ r.remote_fin_received /\ r.pending_tcp_writes = <<>> /\ ~r.tcp_write_active
    BY <1>1, Zenon DEF ShutdownTcpSendIfReady
  <1>4. CASE b = r
    BY <1>4, Zenon DEF SameReads, SameSends
  <1>5. CASE b = c /\ r.remote_fin_received /\ r.pending_tcp_writes = <<>> /\ ~r.tcp_write_active
    BY <1>2, <1>5, Zenon
  <1>6. QED
    BY <1>3, <1>4, <1>5

LEMMA FinishArmed ==
    ASSUME NEW F, NEW r \in StreamRec(F), NEW b, b = MaybeFinish(r)
    PROVE  /\ SameReads(r, b) /\ SameSends(r, b) /\ SameWrites(r, b) /\ b.created = r.created
           /\ b.closed = r.closed
           /\ \/ b.close_timer = r.close_timer
              \/ /\ r.local_fin_sent /\ r.remote_fin_received
                 /\ r.pending_tcp_writes = <<>> /\ ~r.tcp_write_active
  <1>1. PICK c : c = [r EXCEPT !.close_timer = TRUE]
    BY Zenon
  <1>2. /\ SameReads(r, c) /\ SameSends(r, c) /\ SameWrites(r, c) /\ c.created = r.created
        /\ c.closed = r.closed
    BY <1>1, Zenon DEF StreamRec, SameReads, SameSends, SameWrites
  <1>3. \/ b = r
        \/ /\ b = c /\ r.local_fin_sent /\ r.remote_fin_received
           /\ r.pending_tcp_writes = <<>> /\ ~r.tcp_write_active
    BY <1>1, Zenon DEF MaybeFinish
  <1>4. CASE b = r
    BY <1>4, Zenon DEF SameReads, SameSends, SameWrites
  <1>5. CASE /\ b = c /\ r.local_fin_sent /\ r.remote_fin_received
             /\ r.pending_tcp_writes = <<>> /\ ~r.tcp_write_active
    BY <1>2, <1>5, Zenon
  <1>6. QED
    BY <1>3, <1>4, <1>5

\* send_local_fin.
LEMMA FinSent ==
    ASSUME NEW i \in Ids, NEW r \in StreamRec(FramesOf(i)), NEW b, b = SendLocalFin(i, r)
    PROVE  /\ SameReads(r, b) /\ SameWrites(r, b) /\ b.created = r.created
           /\ b.closed = r.closed /\ b.close_timer = r.close_timer
           /\ \/ SameSends(r, b) /\ (r.local_fin_sent \/ r.closed)
              \/ /\ ~r.local_fin_sent /\ b.local_fin_sent
                 /\ b.out = Append(r.out, Fin(i)) /\ Fin(i) \in FramesOf(i)
  <1>1. PICK f, c : f = Fin(i) /\ c = [r EXCEPT !.local_fin_sent = TRUE]
    BY Zenon
  <1>2. c \in StreamRec(FramesOf(i)) /\ f \in FramesOf(i)
    BY <1>1, Zenon DEF StreamRec, Fin, FramesOf, Frame
  <1>3. /\ SameReads(r, c) /\ SameWrites(r, c) /\ c.created = r.created
        /\ c.closed = r.closed /\ c.close_timer = r.close_timer
        /\ c.local_fin_sent /\ c.out = r.out
    BY <1>1, Zenon DEF StreamRec, SameReads, SameWrites
  <1>4. PICK o, d : o = Append(r.out, f) /\ d = [c EXCEPT !.out = o]
    BY Zenon
  <1>5. /\ SameReads(c, d) /\ SameWrites(c, d) /\ d.created = c.created
        /\ d.closed = c.closed /\ d.close_timer = c.close_timer
        /\ d.local_fin_sent = c.local_fin_sent /\ d.out = o
    BY <1>2, <1>4, Zenon DEF StreamRec, SameReads, SameWrites
  <1>6. \/ b = r /\ (r.local_fin_sent \/ r.closed)
        \/ b = d /\ ~r.local_fin_sent
    <2>1. SendFrame(c, f) = d
      BY <1>3, <1>4, Zenon DEF SendFrame
    <2>2. QED
      BY <1>1, <2>1, Zenon DEF SendLocalFin
  <1>7. CASE b = r /\ (r.local_fin_sent \/ r.closed)
    BY <1>7, Zenon DEF SameReads, SameWrites, SameSends
  <1>8. CASE b = d /\ ~r.local_fin_sent
    <2>1. SameReads(r, d) /\ SameWrites(r, d) /\ d.created = r.created
          /\ d.closed = r.closed /\ d.close_timer = r.close_timer /\ d.local_fin_sent
      BY <1>3, <1>5, Zenon DEF SameReads, SameWrites
    <2>2. d.out = Append(r.out, Fin(i)) /\ Fin(i) \in FramesOf(i)
      BY <1>1, <1>2, <1>4, <1>5
    <2>3. QED
      BY <1>8, <2>1, <2>2, Zenon
  <1>9. QED
    BY <1>6, <1>7, <1>8

\* close.
LEMMA ClosedStream ==
    ASSUME NEW i \in Ids, NEW r \in StreamRec(FramesOf(i)), Sound(r), NEW c, c = Close(i, r)
    PROVE  /\ SameWrites(r, c) /\ c.created = r.created /\ c.closed /\ (c.close_timer => r.closed)
           /\ c.tcp_ready = r.tcp_ready /\ c.phase = r.phase /\ c.queued = r.queued
           /\ c.reads = 0 /\ c.done = <<>> /\ c.pending_outbound = <<>>
           /\ \/ SameSends(r, c) /\ (r.local_fin_sent \/ r.closed)
              \/ /\ ~r.local_fin_sent /\ c.local_fin_sent
                 /\ c.out = Append(r.out, Fin(i)) /\ Fin(i) \in FramesOf(i)
  <1>1. PICK a : a = SendLocalFin(i, r)
    OBVIOUS
  <1>2. a \in StreamRec(FramesOf(i))
    BY <1>1, SendLocalFinKeeps
  <1>3. PICK d : d = [a EXCEPT !.closed = TRUE, !.close_timer = FALSE, !.reads = 0, !.done = <<>>,
                               !.tcp_read_buffer = <<>>, !.pending_outbound = <<>>]
    OBVIOUS
  <1>4. /\ SameWrites(a, d) /\ d.created = a.created /\ d.closed /\ ~d.close_timer
        /\ d.tcp_ready = a.tcp_ready /\ d.phase = a.phase /\ d.queued = a.queued
        /\ d.reads = 0 /\ d.done = <<>> /\ d.pending_outbound = <<>>
        /\ d.local_fin_sent = a.local_fin_sent /\ d.out = a.out
    BY <1>2, <1>3, Zenon DEF StreamRec, SameWrites
  <1>5. /\ SameReads(r, a) /\ SameWrites(r, a) /\ a.created = r.created
        /\ \/ SameSends(r, a) /\ (r.local_fin_sent \/ r.closed)
           \/ /\ ~r.local_fin_sent /\ a.local_fin_sent
              /\ a.out = Append(r.out, Fin(i)) /\ Fin(i) \in FramesOf(i)
    BY <1>1, FinSent
  <1>6. (c = r /\ r.closed) \/ c = d
    BY <1>1, <1>3, Zenon DEF Close
  <1>7. CASE c = r /\ r.closed
    <2>1. c.reads = 0 /\ c.done = <<>> /\ c.pending_outbound = <<>>
      BY <1>7 DEF Sound
    <2>2. QED
      BY <1>7, <2>1, Zenon DEF SameWrites, SameSends
  <1>8. CASE c = d
    <2>1. /\ SameWrites(r, d) /\ d.created = r.created
          /\ d.tcp_ready = r.tcp_ready /\ d.phase = r.phase /\ d.queued = r.queued
      BY <1>4, <1>5, Zenon DEF SameWrites, SameReads
    <2>2. \/ SameSends(r, d) /\ (r.local_fin_sent \/ r.closed)
          \/ /\ ~r.local_fin_sent /\ d.local_fin_sent
             /\ d.out = Append(r.out, Fin(i)) /\ Fin(i) \in FramesOf(i)
      BY <1>4, <1>5, Zenon DEF SameSends
    <2>3. QED
      BY <1>4, <1>8, <2>1, <2>2, Zenon
  <1>9. QED
    BY <1>6, <1>7, <1>8

\* mark_payload_consumed, which does nothing in version 1.
LEMMA MarkedSame ==
    ASSUME NEW s, NEW i \in Ids, NEW r \in StreamRec(FramesOf(i)), NEW n, NEW b,
           b = MarkPayloadConsumed(s, i, r, n)
    PROVE  /\ SameWrites(r, b) /\ b.closed = r.closed
           /\ Version[s] # 2 => b = r
  <1> DEFINE read == (r.num_read + n) % Modulus
             unacked == (r.incr + n) % Modulus
             due == unacked >= Max({1, StreamBuf \div 2}) \/ read = n
             left == IF due THEN 0 ELSE unacked
             c == [r EXCEPT !.num_read = read, !.incr = left]
             f == Upd(i, read, Max({1, StreamBuf}))
             o == Append(c.out, f)
             d == [c EXCEPT !.out = o]
  <1>1. b = r \/ b = c \/ b = d
    BY Zenon DEF MarkPayloadConsumed, SendFrame
  <1>2. Version[s] # 2 => b = r
    BY Zenon DEF MarkPayloadConsumed
  <1> HIDE DEF read, left, o
  <1>3. SameWrites(r, c) /\ c.closed = r.closed
    BY Zenon DEF StreamRec, SameWrites
  <1>4. SameWrites(r, d) /\ d.closed = r.closed
    BY Zenon DEF StreamRec, SameWrites
  <1>5. SameWrites(r, r)
    BY DEF SameWrites
  <1>6. QED
    BY <1>1, <1>2, <1>3, <1>4, <1>5, Zenon

\* queue_outbound.
LEMMA QueuedBytes ==
    ASSUME NEW F, NEW r \in StreamRec(F), NEW x, NEW b, b = QueueOutbound(r, x)
    PROVE  /\ SameWrites(r, b) /\ SameSends(r, b) /\ b.created = r.created
           /\ b.closed = r.closed /\ b.close_timer = r.close_timer
           /\ b.tcp_ready = r.tcp_ready /\ b.phase = r.phase /\ b.reads = r.reads
           /\ b.done = r.done /\ b.tcp_read_buffer = r.tcp_read_buffer
           /\ b.pending_outbound = Append(r.pending_outbound, x) /\ b.queued = r.queued \o x
  <1>1. PICK p, q : p = Append(r.pending_outbound, x) /\ q = r.queued \o x
    BY Zenon
  <1>2. PICK c : c = [r EXCEPT !.pending_outbound = p, !.queued = q]
    OBVIOUS
  <1>3. b = c
    BY <1>1, <1>2 DEF QueueOutbound
  <1>4. /\ SameWrites(r, c) /\ SameSends(r, c) /\ c.created = r.created
        /\ c.closed = r.closed /\ c.close_timer = r.close_timer
        /\ c.tcp_ready = r.tcp_ready /\ c.phase = r.phase /\ c.reads = r.reads
        /\ c.done = r.done /\ c.tcp_read_buffer = r.tcp_read_buffer
        /\ c.pending_outbound = p /\ c.queued = q
    BY <1>2, Zenon DEF StreamRec, SameWrites, SameSends
  <1>5. QED
    BY <1>1, <1>3, <1>4, Zenon

LEMMA QueuedMore ==
    ASSUME NEW F, NEW r \in StreamRec(F), NEW x
    PROVE  /\ QueueOutbound(r, x).queued = r.queued \o x
           /\ QueueOutbound(r, x).pending_outbound = Append(r.pending_outbound, x)
  <1>1. PICK b : b = QueueOutbound(r, x)
    OBVIOUS
  <1>2. b.queued = r.queued \o x /\ b.pending_outbound = Append(r.pending_outbound, x)
    BY <1>1, QueuedBytes, Zenon
  <1>3. QED
    BY <1>1, <1>2, Zenon

LEMMA MarkedMore ==
    ASSUME NEW s, NEW i \in Ids, NEW r \in StreamRec(FramesOf(i)), NEW n
    PROVE  MarkPayloadConsumed(s, i, r, n).closed = r.closed
  BY MarkedSame

\* try_flush_outbound.
LEMMA FlushedSame ==
    ASSUME NEW s, NEW F, NEW i, NEW r \in StreamRec(F), NEW b, b = TryFlushOutbound(s, i, r)
    PROVE  /\ SameWrites(r, b) /\ b.created = r.created
           /\ b.closed = r.closed /\ b.close_timer = r.close_timer
           /\ b.local_fin_sent = r.local_fin_sent
           /\ b.tcp_ready = r.tcp_ready /\ b.phase = r.phase /\ b.reads = r.reads
           /\ b.done = r.done /\ b.tcp_read_buffer = r.tcp_read_buffer /\ b.queued = r.queued
  <1> DEFINE bufs == r.pending_outbound
             total == TotalLen(bufs)
             n == IF Version[s] = 2 THEN Max({0, Min({total, AvailablePeerWindow(r)})}) ELSE total
             chunks == FlattenSeq([j \in DOMAIN bufs |-> Chunks(SubSeq(bufs[j], 1, Share(bufs, n, j)))])
             rest == [j \in DOMAIN bufs |-> SubSeq(bufs[j], Share(bufs, n, j) + 1, Len(bufs[j]))]
             front == Min({j \in DOMAIN bufs : rest[j] # <<>>} \cup {Len(bufs) + 1})
             psh == [k \in DOMAIN chunks |-> Psh(i, chunks[k])]
             o == r.out \o psh
             w == (r.num_written + n) % Modulus
             left == SubSeq(rest, front, Len(rest))
             c == [r EXCEPT !.out = o, !.num_written = w, !.pending_outbound = left]
  <1>1. b = r \/ b = c
    BY Zenon DEF TryFlushOutbound
  <1> HIDE DEF o, w, left
  <1>2. /\ SameWrites(r, c) /\ c.created = r.created
        /\ c.closed = r.closed /\ c.close_timer = r.close_timer
        /\ c.local_fin_sent = r.local_fin_sent
        /\ c.tcp_ready = r.tcp_ready /\ c.phase = r.phase /\ c.reads = r.reads
        /\ c.done = r.done /\ c.tcp_read_buffer = r.tcp_read_buffer /\ c.queued = r.queued
    BY Zenon DEF StreamRec, SameWrites
  <1> HIDE DEF c
  <1>3. CASE b = r
    BY <1>3, Zenon DEF SameWrites
  <1>4. CASE b = c
    BY <1>2, <1>4, Zenon
  <1>5. QED
    BY <1>1, <1>3, <1>4

\* The one buffer of a queue is sent whole where no window limits it.
LEMMA NothingLeft ==
    ASSUME NEW S, NEW x \in Seq(S), NEW bufs, bufs = <<x>>, NEW n, n = Len(x)
    PROVE  FlushedLeft(bufs, n) = <<>>
  <1>1. /\ bufs \in Seq(Seq(S)) /\ Len(bufs) = 1 /\ DOMAIN bufs = {1} /\ bufs[1] = x
        /\ n \in Nat
    BY LenProperties
  <1>2. Share(bufs, n, 1) = n
    <2>1. SubSeq(bufs, 1, 1 - 1) = <<>>
      BY SubSeqEmpty
    <2>2. TotalLen(<<>>) = 0
      BY FlattenEmpty DEF TotalLen
    <2>3. n - 0 = n /\ n \in Int
      BY <1>1
    <2>4. Share(bufs, n, 1) = Max({0, Min({n, n})})
      BY <1>1, <2>1, <2>2, <2>3, Zenon DEF Share
    <2>5. Max({0, Min({n, n})}) = IF n <= 0 THEN 0 ELSE IF n <= n THEN n ELSE n
      BY <1>1, <2>3, ShareCases
    <2>6. QED
      BY <1>1, <2>4, <2>5
  <1>3. PICK rest : rest = FlushedRest(bufs, n)
    OBVIOUS
  <1>4. SubSeq(x, n + 1, n) = <<>>
    <2>1. n + 1 \in Int /\ n \in Int /\ n + 1 > n
      BY <1>1
    <2>2. QED
      BY <2>1, SubSeqEmpty
  <1>5. rest = [j \in {1} |-> <<>>]
    <2>1. rest = [j \in {1} |-> SubSeq(bufs[j], Share(bufs, n, j) + 1, Len(bufs[j]))]
      BY <1>1, <1>3, Zenon DEF FlushedRest
    <2>2. \A j \in {1} : SubSeq(bufs[j], Share(bufs, n, j) + 1, Len(bufs[j])) = <<>>
      BY <1>1, <1>2, <1>4
    <2>3. QED
      BY <2>1, <2>2
  <1>6. Len(rest) = 1
    <2>1. PICK f : f = [j \in {1} |-> <<>>]
      BY Zenon
    <2>2. f \in [1..1 -> {<<>>}] /\ 1 \in Nat
      BY <2>1
    <2>3. Len(f) = 1
      BY <2>2, SeqFromFunction
    <2>4. QED
      BY <1>5, <2>1, <2>3
  <1>7. FlushedFront(bufs, rest) = 2
    <2>1. {j \in DOMAIN bufs : rest[j] # <<>>} \cup {Len(bufs) + 1} = {2, 2}
      BY <1>1, <1>5
    <2>2. Min({2, 2}) = 2
      BY MinMax
    <2>3. QED
      BY <2>1, <2>2, Zenon DEF FlushedFront
  <1>8. SubSeq(rest, 2, 1) = <<>>
    BY SubSeqEmpty
  <1>9. QED
    BY <1>3, <1>6, <1>7, <1>8, Zenon DEF FlushedLeft

LEMMA WholeFlushed ==
    ASSUME NEW s, NEW i \in Ids, NEW r \in StreamRec(FramesOf(i)), Sound(r), ~r.closed, r.out = <<>>,
           Version[s] # 2, NEW x \in Seq(Item), r.pending_outbound = <<x>>,
           NEW b, b = TryFlushOutbound(s, i, r)
    PROVE  /\ b.pending_outbound = <<>> /\ PayloadOf(b.out, i) = x
           /\ \A k \in 1..Len(b.out) : b.out[k].cmd = "psh"
  <1> DEFINE bufs == r.pending_outbound
             n == TotalLen(bufs)
             chunks == FlattenSeq([j \in DOMAIN bufs |-> Chunks(SubSeq(bufs[j], 1, Share(bufs, n, j)))])
             rest == [j \in DOMAIN bufs |-> SubSeq(bufs[j], Share(bufs, n, j) + 1, Len(bufs[j]))]
             front == Min({j \in DOMAIN bufs : rest[j] # <<>>} \cup {Len(bufs) + 1})
             psh == [k \in DOMAIN chunks |-> Psh(i, chunks[k])]
             o == r.out \o psh
             w == (r.num_written + n) % Modulus
             left == SubSeq(rest, front, Len(rest))
             c == [r EXCEPT !.out = o, !.num_written = w, !.pending_outbound = left]
  <1>1. b = c
    BY Zenon DEF TryFlushOutbound
  <1>2. bufs = <<x>> /\ bufs \in Seq(Seq(Item))
    BY DEF StreamRec
  <1>3. n = Len(x) /\ n \in Nat
    <2>1. FlattenSeq(<<x>>) = x
      BY FlattenOne
    <2>2. n = Len(x)
      BY <1>2, <2>1 DEF TotalLen
    <2>3. Len(x) \in Nat
      BY LenProperties
    <2> HIDE DEF n
    <2>4. QED
      BY <2>2, <2>3
  <1>4. chunks = FlushedChunks(bufs, n) /\ left = FlushedLeft(bufs, n)
    BY Zenon DEF FlushedChunks, FlushedRest, FlushedFront, FlushedLeft
  <1> HIDE DEF n, bufs, chunks, left, w
  <1>5. left = <<>>
    BY <1>2, <1>3, <1>4, NothingLeft
  <1>6. chunks \in Seq({y \in Seq(Item) : Len(y) \in 1..FrameSize})
    BY <1>2, <1>3, <1>4, FlushSplits, Zenon
  <1>7. chunks \in Seq(Seq(Item))
    <2>1. {y \in Seq(Item) : Len(y) \in 1..FrameSize} \subseteq Seq(Item)
      OBVIOUS
    <2>2. QED
      BY <1>6, <2>1, SeqMonotonic
  <1>8. psh \in Seq(FramesOf(i))
    BY <1>7, PayloadPsh
  <1>9. \A j \in 1..Len(psh) : psh[j].cmd = "psh"
    BY DEF Psh
  <1> HIDE DEF psh
  <1>10. o = psh
    BY <1>8, ConcatEmptySeq
  <1> HIDE DEF o
  <1>11. c.out = o /\ c.pending_outbound = left
    BY Zenon DEF StreamRec
  <1> HIDE DEF c
  <1>12. PayloadOf(b.out, i) = x
    <2>1. Moves(i, r, b)
      BY TryFlushKeeps
    <2>2. b.closed = r.closed
      BY TryFlushKeeps
    <2>3. Sent(b, i) = Sent(r, i)
      BY <2>1, <2>2 DEF Moves
    <2>4. b.out \in Seq(FramesOf(i)) /\ b.out \in Seq(Frame)
      <3>1. b.out \in Seq(FramesOf(i))
        BY <1>1, <1>8, <1>10, <1>11
      <3>2. QED
        BY <3>1, FramesOfFrames, SeqMonotonic
    <2>5. PayloadOf(b.out, i) \in Seq(Item)
      BY <2>4, PayloadType
    <2>6. Sent(b, i) = PayloadOf(b.out, i) \o <<>>
      BY <1>1, <1>5, <1>11, FlattenEmpty, Zenon DEF Sent
    <2>7. Sent(r, i) = <<>> \o x
      <3>1. FlattenSeq(<<x>>) = x
        BY FlattenOne
      <3>2. QED
        BY <3>1, PayloadEmpty DEF Sent
    <2>8. PayloadOf(b.out, i) \o <<>> = PayloadOf(b.out, i) /\ <<>> \o x = x
      BY <2>5, ConcatEmptySeq
    <2>9. QED
      BY <2>3, <2>6, <2>7, <2>8, Zenon
  <1>13. QED
    BY <1>1, <1>5, <1>9, <1>10, <1>11, <1>12

\* on_data.
LEMMA DataTaken ==
    ASSUME NEW i, NEW F, NEW r \in StreamRec(F), NEW x \in Seq(Item), NEW b, b = OnData(i, r, x)
    PROVE  /\ SameReads(r, b) /\ SameSends(r, b) /\ b.created = r.created
           /\ b.closed = r.closed /\ b.close_timer = r.close_timer
           /\ b.remote_fin_received = r.remote_fin_received /\ b.send_shut = r.send_shut
           /\ b.delivered = r.delivered
  <1>1. PICK p : p = Append(r.pending_tcp_writes, x)
    BY Zenon
  <1>2. r.pending_tcp_writes \in Seq(Seq(Item))
    BY DEF StreamRec
  <1>3. p \in Seq(Seq(Item))
    BY <1>1, <1>2, AppendProperties
  <1>4. PICK c : c = [r EXCEPT !.pending_tcp_writes = p]
    BY Zenon
  <1>5. c \in StreamRec(F)
    BY <1>3, <1>4, Zenon DEF StreamRec
  <1>6. /\ SameReads(r, c) /\ SameSends(r, c) /\ c.created = r.created
        /\ c.closed = r.closed /\ c.close_timer = r.close_timer
        /\ c.remote_fin_received = r.remote_fin_received /\ c.send_shut = r.send_shut
        /\ c.delivered = r.delivered
    BY <1>4, Zenon DEF StreamRec, SameReads, SameSends
  <1>7. b = FlushTcpWrites(c)
    BY <1>1, <1>4 DEF OnData
  <1>8. /\ SameReads(c, b) /\ SameSends(c, b) /\ b.created = c.created
        /\ b.closed = c.closed /\ b.close_timer = c.close_timer
        /\ b.remote_fin_received = c.remote_fin_received /\ b.send_shut = c.send_shut
        /\ b.delivered = c.delivered
    BY <1>5, <1>7, WriteStarted
  <1>9. QED
    BY <1>6, <1>8, Zenon DEF SameReads, SameSends

\* on_fin.
LEMMA FinTaken ==
    ASSUME NEW F, NEW r \in StreamRec(F), Sound(r), NEW b, b = OnFin(r)
    PROVE  /\ SameReads(r, b) /\ SameSends(r, b) /\ b.created = r.created
           /\ b.closed = r.closed /\ b.remote_fin_received
           /\ b.pending_tcp_writes = r.pending_tcp_writes /\ b.delivered = r.delivered
           /\ r.send_shut => b.send_shut
           /\ Drained(r) => Drained(b)
  <1>1. PICK c : c = [r EXCEPT !.remote_fin_received = TRUE]
    BY Zenon
  <1>2. c \in StreamRec(F)
    BY <1>1, Zenon DEF StreamRec
  <1>3. /\ SameReads(r, c) /\ SameSends(r, c) /\ c.created = r.created
        /\ c.closed = r.closed /\ c.remote_fin_received /\ c.send_shut = r.send_shut
        /\ c.close_timer = r.close_timer /\ c.tcp_write_active = r.tcp_write_active
        /\ c.pending_tcp_writes = r.pending_tcp_writes /\ c.delivered = r.delivered
    BY <1>1, Zenon DEF StreamRec, SameReads, SameSends
  <1>4. Sound(c)
    BY <1>3, Zenon DEF Sound, SameReads
  <1>5. PICK d : d = ShutdownTcpSendIfReady(c)
    OBVIOUS
  <1>6. d \in StreamRec(F)
    BY <1>2, <1>4, <1>5, ShutdownKeeps
  <1>7. /\ SameReads(c, d) /\ SameSends(c, d) /\ d.created = c.created
        /\ d.closed = c.closed /\ d.close_timer = c.close_timer
        /\ d.remote_fin_received = c.remote_fin_received /\ d.tcp_write_active = c.tcp_write_active
        /\ d.pending_tcp_writes = c.pending_tcp_writes /\ d.delivered = c.delivered
        /\ c.send_shut => d.send_shut
        /\ \/ d.send_shut = c.send_shut
           \/ c.remote_fin_received /\ c.pending_tcp_writes = <<>> /\ ~c.tcp_write_active
    BY <1>2, <1>5, SendShut
  <1>8. PICK e : e = MaybeFinish(d)
    OBVIOUS
  <1>9. /\ SameReads(d, e) /\ SameSends(d, e) /\ SameWrites(d, e) /\ e.created = d.created
        /\ e.closed = d.closed
        /\ \/ e.close_timer = d.close_timer
           \/ /\ d.local_fin_sent /\ d.remote_fin_received
              /\ d.pending_tcp_writes = <<>> /\ ~d.tcp_write_active
    BY <1>6, <1>8, FinishArmed
  <1>10. (b = r /\ r.remote_fin_received) \/ b = e
    BY <1>1, <1>5, <1>8, Zenon DEF OnFin
  <1>11. CASE b = r /\ r.remote_fin_received
    BY <1>11, Zenon DEF SameReads, SameSends
  <1>12. CASE b = e
    <2>1. /\ SameReads(r, e) /\ SameSends(r, e) /\ e.created = r.created
          /\ e.closed = r.closed /\ e.remote_fin_received
          /\ e.pending_tcp_writes = r.pending_tcp_writes /\ e.delivered = r.delivered
          /\ r.send_shut => e.send_shut
      BY <1>3, <1>7, <1>9, ZenonT(40) DEF SameReads, SameSends, SameWrites
    <2>2. ASSUME Drained(r) PROVE Drained(e)
      <3>1. Drained(c)
        BY <1>3, <2>2, Zenon DEF Drained, SameSends
      <3>2. Drained(d)
        BY <1>7, <3>1, Zenon DEF Drained, SameSends
      <3>3. QED
        BY <1>9, <3>2, Zenon DEF Drained, SameSends, SameWrites
    <2>3. QED
      BY <1>12, <2>1, <2>2, Zenon
  <1>13. QED
    BY <1>10, <1>11, <1>12
-----------------------------------------------------------------------------
(* The handlers of one stream, as steps of two pipes.                       *)

NoUpd(o) == \A k \in 1..Len(o) : o[k].cmd # "upd"

\* What a handler sends is what it queues, and nothing after FIN.
Talks(i, a, b) ==
    /\ b.queued = a.queued \o PayloadOf(b.out, i)
    /\ \/ /\ b.local_fin_sent = a.local_fin_sent
          /\ \A k \in 1..Len(b.out) : b.out[k].cmd # "fin"
          /\ a.local_fin_sent => b.out = <<>>
       \/ /\ b.local_fin_sent /\ ~a.local_fin_sent
          /\ \A k \in 1..Len(b.out) : b.out[k].cmd = "fin"

\* What holds of a stream with its application.
Fit(i, r, e) ==
    /\ First => Reader(i, r, e)
    /\ First /\ Healthy => Finished(i, r, e) /\ Drained(r)

\* What a step from a to b that leaves its application at e keeps.
Tidy(i, a, b, e) ==
    /\ Grows(a, b)
    /\ First => NoUpd(b.out)
    /\ First /\ Healthy => Talks(i, a, b)
    /\ Fit(i, b, e)

\* A handler of stream i of side s, which takes nothing from the wire.
Pipes1(s, i, b, e) ==
    /\ stream[s][i].created /\ b \in StreamRec(FramesOf(i))
    /\ StreamStep(s, i, b)
    /\ Tidy(i, stream[s][i], b, e)
    /\ Held(b) = Held(stream[s][i])
    /\ b.remote_fin_received = stream[s][i].remote_fin_received

\* Nothing, or FIN, is sent.
LEMMA FinTalks ==
    ASSUME NEW i \in Ids, NEW a \in StreamRec(FramesOf(i)), a.out = <<>>, NEW b, b.queued = a.queued,
           \/ SameSends(a, b)
           \/ ~a.local_fin_sent /\ b.local_fin_sent /\ b.out = Append(a.out, Fin(i)) /\ Fin(i) \in FramesOf(i)
    PROVE  Talks(i, a, b) /\ NoUpd(b.out)
  <1>1. a.queued \in Seq(Item)
    BY DEF StreamRec
  <1>2. a.queued \o <<>> = a.queued
    BY <1>1, ConcatEmptySeq
  <1>3. CASE SameSends(a, b)
    <2>1. b.out = <<>> /\ b.local_fin_sent = a.local_fin_sent
      BY <1>3 DEF SameSends
    <2>2. PayloadOf(b.out, i) = <<>>
      BY <2>1, PayloadEmpty
    <2>3. \A k \in 1..Len(b.out) : FALSE
      BY <2>1
    <2>4. QED
      BY <1>2, <2>1, <2>2, <2>3, Zenon DEF Talks, NoUpd
  <1>4. CASE ~a.local_fin_sent /\ b.local_fin_sent /\ b.out = Append(a.out, Fin(i)) /\ Fin(i) \in FramesOf(i)
    <2>1. PICK f : f = Fin(i)
      OBVIOUS
    <2>2. f \in Frame /\ f.cmd = "fin"
      <3>1. f \in Frame
        BY <1>4, <2>1, FramesOfFrames
      <3>2. QED
        BY <2>1, <3>1 DEF Fin
    <2>3. b.out = <<f>>
      BY <1>4, <2>1
    <2>4. PayloadOf(b.out, i) = <<>>
      <3>1. PayloadOf(<<f>>, i) = Data(f, i)
        BY <2>2, PayloadOne
      <3>2. Data(f, i) = <<>>
        <4>1. f.cmd # "psh"
          BY <2>2
        <4>2. QED
          BY <4>1, Zenon DEF Data
      <3>3. QED
        BY <2>3, <3>1, <3>2
    <2>5. \A k \in 1..Len(b.out) : b.out[k].cmd = "fin"
      BY <2>2, <2>3
    <2>6. NoUpd(b.out)
      BY <2>5 DEF NoUpd
    <2>7. QED
      BY <1>2, <1>4, <2>4, <2>5, <2>6, Zenon DEF Talks
  <1>5. QED
    BY <1>3, <1>4

\* send_local_fin and maybe_finish, and close.
LEMMA FinPipes ==
    ASSUME NEW i \in Ids, NEW r \in StreamRec(FramesOf(i)), Sound(r), r.out = <<>>, NEW e,
           NEW m, m = MaybeFinish(SendLocalFin(i, r)), NEW c, c = Close(i, r)
    PROVE  /\ m \in StreamRec(FramesOf(i)) /\ c \in StreamRec(FramesOf(i))
           /\ Grows(r, m) /\ Grows(r, c) /\ Held(m) = Held(r) /\ Held(c) = Held(r)
           /\ m.remote_fin_received = r.remote_fin_received
           /\ c.remote_fin_received = r.remote_fin_received
           /\ NoUpd(m.out) /\ NoUpd(c.out) /\ Talks(i, r, m) /\ Talks(i, r, c)
           /\ m.created = r.created /\ c.created = r.created
           /\ Reader(i, r, e) => Reader(i, m, e) /\ Reader(i, c, e)
           /\ /\ Finished(i, r, e) /\ Drained(r) /\ r.tcp_ready /\ e.eof /\ r.reads = 0 /\ r.done = <<>>
              /\ r.queued = AppBytes(i, 0, e.sent)
              => Finished(i, m, e) /\ Drained(m)
           /\ Finished(i, r, e) /\ Drained(r) /\ r.close_timer => Finished(i, c, e) /\ Drained(c)
  <1>1. PICK b : b = SendLocalFin(i, r)
    OBVIOUS
  <1>2. b \in StreamRec(FramesOf(i)) /\ Sound(b)
    BY <1>1, SendLocalFinKeeps
  <1>3. m \in StreamRec(FramesOf(i)) /\ c \in StreamRec(FramesOf(i))
    BY <1>1, <1>2, MaybeFinishKeeps, CloseKeeps
  <1>4. /\ SameReads(r, b) /\ SameWrites(r, b) /\ b.created = r.created
        /\ b.closed = r.closed /\ b.close_timer = r.close_timer
        /\ \/ SameSends(r, b) /\ (r.local_fin_sent \/ r.closed)
           \/ /\ ~r.local_fin_sent /\ b.local_fin_sent
              /\ b.out = Append(r.out, Fin(i)) /\ Fin(i) \in FramesOf(i)
    BY <1>1, FinSent
  <1>5. /\ SameReads(b, m) /\ SameSends(b, m) /\ SameWrites(b, m) /\ m.created = b.created
        /\ m.closed = b.closed
        /\ \/ m.close_timer = b.close_timer
           \/ /\ b.local_fin_sent /\ b.remote_fin_received
              /\ b.pending_tcp_writes = <<>> /\ ~b.tcp_write_active
    BY <1>1, <1>2, FinishArmed
  <1>6. /\ SameWrites(r, c) /\ c.created = r.created /\ c.closed /\ (c.close_timer => r.closed)
        /\ c.tcp_ready = r.tcp_ready /\ c.phase = r.phase /\ c.queued = r.queued
        /\ c.reads = 0 /\ c.done = <<>> /\ c.pending_outbound = <<>>
        /\ \/ SameSends(r, c) /\ (r.local_fin_sent \/ r.closed)
           \/ /\ ~r.local_fin_sent /\ c.local_fin_sent
              /\ c.out = Append(r.out, Fin(i)) /\ Fin(i) \in FramesOf(i)
    BY ClosedStream
  <1>7. /\ SameReads(r, m) /\ SameWrites(r, m) /\ m.created = r.created /\ m.closed = r.closed
    BY <1>4, <1>5, Zenon DEF SameReads, SameWrites
  <1>8. Talks(i, r, m) /\ NoUpd(m.out)
    <2>1. m.queued = r.queued
      BY <1>7, Zenon DEF SameReads
    <2>2. \/ SameSends(r, m)
          \/ ~r.local_fin_sent /\ m.local_fin_sent /\ m.out = Append(r.out, Fin(i)) /\ Fin(i) \in FramesOf(i)
      BY <1>4, <1>5, Zenon DEF SameSends
    <2>3. QED
      BY <2>1, <2>2, FinTalks, Zenon
  <1>9. Talks(i, r, c) /\ NoUpd(c.out)
    BY <1>6, FinTalks, Zenon
  <1>10. Grows(r, m) /\ Grows(r, c)
    <2>1. /\ m.delivered = r.delivered /\ m.send_shut = r.send_shut /\ m.closed = r.closed
          /\ c.delivered = r.delivered /\ c.send_shut = r.send_shut /\ c.closed
      BY <1>6, <1>7, Zenon DEF SameWrites
    <2>2. QED
      BY <2>1, GrowsSame
  <1>11. /\ Held(m) = Held(r) /\ Held(c) = Held(r)
         /\ m.remote_fin_received = r.remote_fin_received
         /\ c.remote_fin_received = r.remote_fin_received
    BY <1>6, <1>7, Zenon DEF SameWrites, Held
  <1>12. ASSUME Reader(i, r, e) PROVE Reader(i, m, e) /\ Reader(i, c, e)
    <2>1. Reader(i, m, e)
      BY <1>7, <1>12, ReaderSame
    <2>2. c.reads + Len(c.done) <= 1
      BY <1>6
    <2>3. Reader(i, c, e)
      BY <1>6, <1>12, <2>2, Zenon DEF Reader
    <2>4. QED
      BY <2>1, <2>3
  <1>13. ASSUME Finished(i, r, e), Drained(r), r.tcp_ready, e.eof, r.reads = 0, r.done = <<>>,
                r.queued = AppBytes(i, 0, e.sent)
         PROVE  Finished(i, m, e) /\ Drained(m)
    <2>1. Finished(i, m, e)
      BY <1>7, <1>13, Zenon DEF SameReads, Finished
    <2>2. Drained(b)
      BY <1>4, <1>13, Zenon DEF SameWrites, SameSends, Drained
    <2>3. Drained(m)
      BY <1>5, <2>2, Zenon DEF SameWrites, SameSends, Drained
    <2>4. QED
      BY <2>1, <2>3
  <1>14. ASSUME Finished(i, r, e), Drained(r), r.close_timer PROVE Finished(i, c, e) /\ Drained(c)
    <2>1. r.local_fin_sent /\ r.remote_fin_received /\ r.pending_tcp_writes = <<>> /\ ~r.tcp_write_active
      BY <1>14, Zenon DEF Drained
    <2>2. c.local_fin_sent
      BY <1>6, <2>1, Zenon DEF SameSends
    <2>3. Finished(i, c, e)
      BY <1>6, <1>14, <2>1, Zenon DEF Finished
    <2>4. Drained(c)
      BY <1>6, <2>1, <2>2, Zenon DEF Drained, SameWrites
    <2>5. QED
      BY <2>3, <2>4
  <1>15. m.created = r.created /\ c.created = r.created
    BY <1>6, <1>7
  <1>16. QED
    BY <1>3, <1>8, <1>9, <1>10, <1>11, <1>12, <1>13, <1>14, <1>15

\* flush_tcp_writes, shutdown_tcp_send_if_ready and maybe_finish only move the writing side on.
Smooth(a, b) ==
    /\ SameReads(a, b) /\ SameSends(a, b)
    /\ b.created = a.created /\ b.closed = a.closed
    /\ b.remote_fin_received = a.remote_fin_received
    /\ b.delivered = a.delivered /\ b.pending_tcp_writes = a.pending_tcp_writes
    /\ a.send_shut => b.send_shut
    /\ Drained(a) => Drained(b)

LEMMA SmoothTrans ==
    ASSUME NEW a, NEW b, NEW c, Smooth(a, b), Smooth(b, c)
    PROVE  Smooth(a, c)
  <1>1. SameReads(a, c) /\ SameSends(a, c)
    BY Zenon DEF Smooth, SameReads, SameSends
  <1>2. QED
    BY <1>1, Zenon DEF Smooth

LEMMA SocketSmooth ==
    ASSUME NEW F, NEW r \in StreamRec(F)
    PROVE  /\ Smooth(r, FlushTcpWrites(r)) /\ Smooth(r, ShutdownTcpSendIfReady(r))
           /\ Smooth(r, MaybeFinish(r))
  <1>1. PICK b, c, d : b = FlushTcpWrites(r) /\ c = ShutdownTcpSendIfReady(r) /\ d = MaybeFinish(r)
    OBVIOUS
  <1>2. Smooth(r, b)
    <2>1. /\ SameReads(r, b) /\ SameSends(r, b) /\ b.created = r.created
          /\ b.closed = r.closed /\ b.close_timer = r.close_timer
          /\ b.remote_fin_received = r.remote_fin_received /\ b.send_shut = r.send_shut
          /\ b.pending_tcp_writes = r.pending_tcp_writes /\ b.delivered = r.delivered
          /\ b.tcp_write_active = r.tcp_write_active \/ r.pending_tcp_writes # <<>>
      BY <1>1, WriteStarted
    <2>2. Drained(r) => Drained(b)
      BY <2>1, Zenon DEF Drained, SameSends
    <2>3. QED
      BY <2>1, <2>2, Zenon DEF Smooth
  <1>3. Smooth(r, c)
    <2>1. /\ SameReads(r, c) /\ SameSends(r, c) /\ c.created = r.created
          /\ c.closed = r.closed /\ c.close_timer = r.close_timer
          /\ c.remote_fin_received = r.remote_fin_received /\ c.tcp_write_active = r.tcp_write_active
          /\ c.pending_tcp_writes = r.pending_tcp_writes /\ c.delivered = r.delivered
          /\ r.send_shut => c.send_shut
          /\ \/ c.send_shut = r.send_shut
             \/ r.remote_fin_received /\ r.pending_tcp_writes = <<>> /\ ~r.tcp_write_active
      BY <1>1, SendShut
    <2>2. Drained(r) => Drained(c)
      BY <2>1, Zenon DEF Drained, SameSends
    <2>3. QED
      BY <2>1, <2>2, Zenon DEF Smooth
  <1>4. Smooth(r, d)
    <2>1. /\ SameReads(r, d) /\ SameSends(r, d) /\ SameWrites(r, d) /\ d.created = r.created
          /\ d.closed = r.closed
          /\ \/ d.close_timer = r.close_timer
             \/ /\ r.local_fin_sent /\ r.remote_fin_received
                /\ r.pending_tcp_writes = <<>> /\ ~r.tcp_write_active
      BY <1>1, FinishArmed
    <2>2. Drained(r) => Drained(d)
      BY <2>1, Zenon DEF Drained, SameSends, SameWrites
    <2>3. QED
      BY <2>1, <2>2, Zenon DEF Smooth, SameWrites
  <1>5. QED
    BY <1>1, <1>2, <1>3, <1>4

\* A handler that sends nothing and reads nothing.
LEMMA SmoothTidy ==
    ASSUME NEW i \in Ids, NEW a \in StreamRec(FramesOf(i)), a.out = <<>>, NEW e, Fit(i, a, e),
           NEW b, Smooth(a, b)
    PROVE  Tidy(i, a, b, e) /\ Held(b) = Held(a)
  <1>1. SameReads(a, b) /\ SameSends(a, b)
    BY DEF Smooth
  <1>2. b.queued = a.queued /\ b.local_fin_sent = a.local_fin_sent /\ b.closed = a.closed
    BY <1>1, Zenon DEF SameReads, SameSends, Smooth
  <1>3. Talks(i, a, b) /\ NoUpd(b.out)
    BY <1>1, <1>2, FinTalks
  <1>4. Grows(a, b)
    <2>1. b.delivered = a.delivered /\ (a.send_shut => b.send_shut) /\ (a.closed => b.closed)
      BY <1>2, Zenon DEF Smooth
    <2>2. QED
      BY <2>1, GrowsSame
  <1>5. Fit(i, b, e)
    <2>1. ASSUME First PROVE Reader(i, b, e)
      <3>1. Reader(i, a, e)
        BY <2>1 DEF Fit
      <3>2. QED
        BY <1>1, <1>2, <3>1, ReaderSame
    <2>2. ASSUME First, Healthy PROVE Finished(i, b, e) /\ Drained(b)
      <3>1. Finished(i, a, e) /\ Drained(a)
        BY <2>2, Zenon DEF Fit
      <3>2. Finished(i, b, e)
        BY <1>1, <1>2, <3>1, FinishedSame
      <3>3. QED
        BY <3>1, <3>2, Zenon DEF Smooth
    <2>3. QED
      BY <2>1, <2>2, Zenon DEF Fit
  <1>6. Held(b) = Held(a)
    BY Zenon DEF Smooth, Held
  <1>7. QED
    BY <1>3, <1>4, <1>5, <1>6, Zenon DEF Tidy

\* The record a handler starts from may differ from the stream in what it has just completed.
LEMMA TidyFrom ==
    ASSUME NEW i, NEW a, NEW r, NEW b, NEW e, SameWrites(a, r) \/ Smooth(a, r), r.closed = a.closed,
           r.queued = a.queued, r.local_fin_sent = a.local_fin_sent, Tidy(i, r, b, e)
    PROVE  Tidy(i, a, b, e)
  <1>1. r.delivered = a.delivered /\ (a.send_shut => r.send_shut)
    BY Zenon DEF SameWrites, Smooth
  <1>2. Grows(a, b)
    BY <1>1, Zenon DEF Tidy, Grows
  <1>3. Talks(i, r, b) => Talks(i, a, b)
    BY Zenon DEF Talks
  <1>4. QED
    BY <1>2, <1>3, Zenon DEF Tidy

\* A stream whose read has been handled, with nothing of it left.
LEMMA EmptyHands ==
    ASSUME NEW i \in Ids, NEW a \in StreamRec(FramesOf(i)), NEW e, Reader(i, a, e), a.done # <<>>,
           NEW r, r = [a EXCEPT !.done = Tail(@)]
    PROVE  /\ a.reads = 0 /\ r.reads = 0 /\ r.done = <<>> /\ r.tcp_ready /\ r.phase = "idle"
           /\ InHand(r) = <<>>
           /\ Head(a.done) <= 0 => Reader(i, r, e)
  <1>1. a.done \in Seq(Int) /\ a.reads \in Nat
    BY DEF StreamRec
  <1>2. PICK d : d = Tail(a.done)
    BY Zenon
  <1>3. /\ d \in Seq(Int) /\ Len(d) = Len(a.done) - 1 /\ Len(a.done) \in Nat \ {0}
        /\ Head(a.done) \in Int
    BY <1>1, <1>2, HeadTailProperties, EmptySeq
  <1>4. a.reads + Len(a.done) <= 1
    BY Zenon DEF Reader
  <1>5. a.reads = 0 /\ Len(d) = 0
    <2>1. PICK k, l, n : k = Len(a.done) /\ l = Len(d) /\ n = a.reads
      BY Zenon
    <2>2. k \in Nat \ {0} /\ l = k - 1 /\ n \in Nat /\ n + k <= 1
      BY <1>1, <1>3, <1>4, <2>1
    <2>3. l = 0 /\ n = 0
      BY <2>2
    <2>4. QED
      BY <2>1, <2>3
  <1>6. d = <<>>
    BY <1>3, <1>5, EmptySeq
  <1>7. r = [a EXCEPT !.done = d]
    BY <1>2
  <1>8. /\ r.closed = a.closed /\ r.tcp_ready = a.tcp_ready /\ r.phase = a.phase
        /\ r.reads = a.reads /\ r.done = d /\ r.pending_outbound = a.pending_outbound
        /\ r.queued = a.queued
    BY <1>7, Zenon DEF StreamRec
  <1>9. a.tcp_ready /\ a.phase = "idle"
    BY Zenon DEF Reader
  <1>10. InHand(r) = <<>>
    BY <1>6, <1>8, Zenon DEF InHand
  <1>11. ASSUME Head(a.done) <= 0 PROVE Reader(i, r, e)
    <2>1. ~(Head(a.done) > 0)
      BY <1>3, <1>11
    <2>2. InHand(a) = <<>>
      BY <2>1, Zenon DEF InHand
    <2>3. r.reads + Len(r.done) <= 1
      <3>1. r.reads = 0 /\ Len(r.done) = 0
        BY <1>5, <1>8, Zenon
      <3>2. \A n, l : n = 0 /\ l = 0 => n + l <= 1
        OBVIOUS
      <3>3. QED
        BY <3>1, <3>2, Zenon
    <2>4. QED
      BY <1>6, <1>8, <1>9, <1>10, <2>2, <2>3, Zenon DEF Reader
  <1>12. QED
    BY <1>5, <1>6, <1>8, <1>9, <1>10, <1>11

\* The end of a stream to which nothing has failed.
MayEnd(i, r, e, b) ==
    First /\ Healthy =>
        /\ Finished(i, r, e) /\ Drained(r)
        /\ \/ /\ b = MaybeFinish(SendLocalFin(i, r)) /\ r.tcp_ready /\ e.eof
              /\ r.reads = 0 /\ r.done = <<>> /\ r.queued = AppBytes(i, 0, e.sent)
           \/ b = Close(i, r) /\ r.close_timer

\* send_local_fin and maybe_finish, or close, after r has been left by its handler.
LEMMA FinTidy ==
    ASSUME NEW i \in Ids, NEW r \in StreamRec(FramesOf(i)), Sound(r), r.out = <<>>, NEW e,
           First => Reader(i, r, e),
           NEW b, b = MaybeFinish(SendLocalFin(i, r)) \/ b = Close(i, r), MayEnd(i, r, e, b)
    PROVE  /\ Tidy(i, r, b, e) /\ b \in StreamRec(FramesOf(i))
           /\ Held(b) = Held(r) /\ b.remote_fin_received = r.remote_fin_received
  <1>0. PICK m, c : m = MaybeFinish(SendLocalFin(i, r)) /\ c = Close(i, r)
    OBVIOUS
  <1>1. /\ m \in StreamRec(FramesOf(i)) /\ c \in StreamRec(FramesOf(i))
        /\ Grows(r, m) /\ Grows(r, c) /\ Held(m) = Held(r) /\ Held(c) = Held(r)
        /\ m.remote_fin_received = r.remote_fin_received
        /\ c.remote_fin_received = r.remote_fin_received
        /\ NoUpd(m.out) /\ NoUpd(c.out) /\ Talks(i, r, m) /\ Talks(i, r, c)
        /\ Reader(i, r, e) => Reader(i, m, e) /\ Reader(i, c, e)
        /\ /\ Finished(i, r, e) /\ Drained(r) /\ r.tcp_ready /\ e.eof /\ r.reads = 0 /\ r.done = <<>>
           /\ r.queued = AppBytes(i, 0, e.sent)
           => Finished(i, m, e) /\ Drained(m)
        /\ Finished(i, r, e) /\ Drained(r) /\ r.close_timer => Finished(i, c, e) /\ Drained(c)
    BY <1>0, FinPipes
  <1>2. First => Reader(i, b, e)
    BY <1>0, <1>1, Zenon
  <1>3. First /\ Healthy => Finished(i, b, e) /\ Drained(b)
    BY <1>0, <1>1, Zenon DEF MayEnd
  <1>4. Fit(i, b, e)
    BY <1>2, <1>3, Zenon DEF Fit
  <1>5. Grows(r, b) /\ NoUpd(b.out) /\ Talks(i, r, b) /\ b \in StreamRec(FramesOf(i))
        /\ Held(b) = Held(r) /\ b.remote_fin_received = r.remote_fin_received
    BY <1>0, <1>1, Zenon
  <1>6. QED
    BY <1>4, <1>5, Zenon DEF Tidy

\* The bytes of a completed read, queued and flushed in one handler.
Sending(s, i, a, r, x, q, f, b) ==
    /\ r = [a EXCEPT !.done = Tail(@)] /\ x = SubSeq(r.tcp_read_buffer, 1, Head(a.done))
    /\ q = QueueOutbound(r, x) /\ f = TryFlushOutbound(s, i, q)
    /\ b = f \/ b = StartTcpRead(f)

LEMMA ReadSent ==
    ASSUME NEW s \in Side, NEW i \in Ids, NEW a \in StreamRec(FramesOf(i)), Sound(a), a.out = <<>>,
           a.done # <<>>, Head(a.done) > 0, NEW e, e \in AppRec, Fit(i, a, e)
    PROVE  \A r, x, q, f, b : Sending(s, i, a, r, x, q, f, b) =>
              /\ Tidy(i, a, b, e) /\ b \in StreamRec(FramesOf(i))
              /\ Held(b) = Held(a) /\ b.remote_fin_received = a.remote_fin_received
  <1>. TAKE r, x, q, f, b
  <1>19. HAVE Sending(s, i, a, r, x, q, f, b)
  <1>0. /\ r = [a EXCEPT !.done = Tail(@)] /\ x = SubSeq(r.tcp_read_buffer, 1, Head(a.done))
        /\ q = QueueOutbound(r, x) /\ f = TryFlushOutbound(s, i, q)
        /\ b = f \/ b = StartTcpRead(f)
    BY <1>19 DEF Sending
  <1>1. /\ r \in StreamRec(FramesOf(i)) /\ Sound(r)
        /\ ~r.closed /\ r.tcp_read_buffer = a.tcp_read_buffer
        /\ Head(a.done) \in Int /\ Head(a.done) <= Len(r.tcp_read_buffer)
    BY <1>0, DoneTail, Zenon
  <1>2. PICK d : d = Tail(a.done)
    BY Zenon
  <1>3. r = [a EXCEPT !.done = d]
    BY <1>0, <1>2
  <1>4. /\ SameWrites(a, r) /\ r.created = a.created /\ r.closed = a.closed
        /\ r.close_timer = a.close_timer /\ r.local_fin_sent = a.local_fin_sent
        /\ r.pending_outbound = a.pending_outbound /\ r.queued = a.queued /\ r.out = a.out
    BY <1>3, Zenon DEF StreamRec, SameWrites
  <1>5. x \in Seq(Item)
    <2>1. r.tcp_read_buffer \in Seq(Item)
      BY <1>1 DEF StreamRec
    <2>2. Head(a.done) \in 0..Len(r.tcp_read_buffer)
      <3>1. PICK h, l : h = Head(a.done) /\ l = Len(r.tcp_read_buffer)
        BY Zenon
      <3>2. h \in Int /\ h > 0 /\ h <= l /\ l \in Nat
        BY <1>1, <2>1, <3>1, LenProperties
      <3>3. h \in 0..l
        BY <3>2
      <3>4. QED
        BY <3>1, <3>3
    <2>3. QED
      BY <1>0, <2>1, <2>2, Halves
  <1>6. q \in StreamRec(FramesOf(i)) /\ Sound(q) /\ ~q.closed
    BY <1>0, <1>1, <1>5, QueueSteps, Zenon
  <1>7. /\ SameWrites(r, q) /\ SameSends(r, q) /\ q.created = r.created
        /\ q.closed = r.closed /\ q.close_timer = r.close_timer
        /\ q.tcp_ready = r.tcp_ready /\ q.phase = r.phase /\ q.reads = r.reads
        /\ q.done = r.done /\ q.tcp_read_buffer = r.tcp_read_buffer
        /\ q.pending_outbound = Append(r.pending_outbound, x) /\ q.queued = r.queued \o x
    <2>1. r \in StreamRec(FramesOf(i)) /\ q = QueueOutbound(r, x)
      BY <1>0, <1>1
    <2>2. PICK F : F = FramesOf(i)
      OBVIOUS
    <2>3. r \in StreamRec(F)
      BY <2>1, <2>2
    <2>4. q.pending_outbound = Append(r.pending_outbound, x) /\ q.queued = r.queued \o x
      <3>1. /\ QueueOutbound(r, x).queued = r.queued \o x
            /\ QueueOutbound(r, x).pending_outbound = Append(r.pending_outbound, x)
        BY <2>3, QueuedMore, Zenon
      <3>2. QED
        BY <2>1, <3>1, Zenon
    <2>5. SameWrites(r, q) /\ SameSends(r, q) /\ q.created = r.created
      BY <2>1, <2>3, QueuedBytes
    <2>6. /\ q.closed = r.closed /\ q.close_timer = r.close_timer
          /\ q.tcp_ready = r.tcp_ready /\ q.phase = r.phase /\ q.reads = r.reads
          /\ q.done = r.done /\ q.tcp_read_buffer = r.tcp_read_buffer
      BY <2>1, <2>3, QueuedBytes
    <2>7. QED
      BY <2>4, <2>5, <2>6
  <1>8. /\ SameWrites(q, f) /\ f.created = q.created
        /\ f.closed = q.closed /\ f.close_timer = q.close_timer
        /\ f.local_fin_sent = q.local_fin_sent
        /\ f.tcp_ready = q.tcp_ready /\ f.phase = q.phase /\ f.reads = q.reads
        /\ f.done = q.done /\ f.tcp_read_buffer = q.tcp_read_buffer /\ f.queued = q.queued
    BY <1>0, <1>6, FlushedSame
  <1>9. f \in StreamRec(FramesOf(i)) /\ Sound(f)
    BY <1>0, <1>6, TryFlushKeeps
  <1>10. /\ SameWrites(f, b) /\ SameSends(f, b) /\ b.created = f.created
         /\ b.closed = f.closed /\ b.close_timer = f.close_timer
         /\ b.tcp_ready = f.tcp_ready /\ b.phase = f.phase /\ b.done = f.done
         /\ b.tcp_read_buffer = f.tcp_read_buffer /\ b.queued = f.queued
         /\ b.pending_outbound = f.pending_outbound /\ b \in StreamRec(FramesOf(i))
         /\ \/ b.reads = f.reads
            \/ b.reads = f.reads + 1 /\ ~f.closed /\ f.tcp_ready /\ ~f.local_fin_sent
    <2>1. CASE b = f
      BY <1>9, <2>1, Zenon DEF SameWrites, SameSends
    <2>2. CASE b = StartTcpRead(f)
      <3>1. b \in StreamRec(FramesOf(i))
        BY <1>9, <2>2, StartTcpReadKeeps
      <3>2. QED
        BY <1>9, <2>2, <3>1, ReadStarted
    <2>3. QED
      BY <1>0, <2>1, <2>2
  <1>11. SameWrites(a, b) /\ b.closed = a.closed /\ b.close_timer = a.close_timer
         /\ b.local_fin_sent = a.local_fin_sent /\ ~b.closed
    <2>1. SameWrites(a, b)
      <3>1. SameWrites(a, r) /\ SameWrites(r, q) /\ SameWrites(q, f) /\ SameWrites(f, b)
        BY <1>4, <1>7, <1>8, <1>10
      <3>2. QED
        BY <3>1, Zenon DEF SameWrites
    <2>2. QED
      BY <1>1, <1>4, <1>7, <1>8, <1>10, <2>1, Zenon DEF SameSends
  <1>12. Grows(a, b)
    <2>1. b.delivered = a.delivered /\ (a.send_shut => b.send_shut) /\ (a.closed => b.closed)
      BY <1>11, Zenon DEF SameWrites
    <2>2. QED
      BY <2>1, GrowsSame
  <1>13. Held(b) = Held(a) /\ b.remote_fin_received = a.remote_fin_received
    BY <1>11, Zenon DEF SameWrites, Held
  <1>14. ASSUME First
         PROVE  /\ Reader(i, b, e) /\ NoUpd(b.out) /\ b.done = <<>>
                /\ b.queued = a.queued \o PayloadOf(b.out, i)
                /\ \A k \in 1..Len(b.out) : b.out[k].cmd = "psh"
    <2>1. Reader(i, a, e)
      BY <1>14 DEF Fit
    <2>2. a.reads = 0 /\ r.reads = 0 /\ r.done = <<>> /\ r.tcp_ready /\ r.phase = "idle"
      BY <1>0, <2>1, EmptyHands, Zenon
    <2>3. Version[s] # 2
      BY <1>14 DEF First
    <2>4. a.pending_outbound = <<>> /\ (~a.closed => a.queued \o InHand(a) = AppBytes(i, 0, e.taken))
          /\ e.taken <= e.sent
      BY <2>1, Zenon DEF Reader
    <2>5. q.pending_outbound = <<x>>
      <3>1. r.pending_outbound = <<>>
        BY <1>4, <2>4
      <3>2. Append(<<>>, x) = <<x>>
        OBVIOUS
      <3>3. QED
        BY <1>7, <3>1, <3>2, Zenon
    <2>6. q.out = <<>>
      BY <1>4, <1>7, Zenon DEF SameSends
    <2>7. /\ f.pending_outbound = <<>> /\ PayloadOf(f.out, i) = x
          /\ \A k \in 1..Len(f.out) : f.out[k].cmd = "psh"
      <3>1. /\ q \in StreamRec(FramesOf(i)) /\ Sound(q) /\ ~q.closed
            /\ f = TryFlushOutbound(s, i, q)
        BY <1>0, <1>6
      <3>2. QED
        BY <1>5, <2>3, <2>5, <2>6, <3>1, WholeFlushed
    <2>8. InHand(a) = x
      BY <1>0, <1>1, Zenon DEF InHand
    <2>9. b.queued = a.queued \o x /\ b.queued = AppBytes(i, 0, e.taken)
      BY <1>1, <1>4, <1>7, <1>8, <1>10, <2>4, <2>8, Zenon
    <2>10. b.out = f.out /\ b.pending_outbound = <<>> /\ b.done = <<>> /\ b.tcp_ready
           /\ b.phase = "idle"
      BY <1>7, <1>8, <1>10, <2>2, <2>7, Zenon DEF SameSends
    <2>11. b.reads + Len(b.done) <= 1
      <3>1. f.reads = 0
        BY <1>7, <1>8, <2>2, Zenon
      <3>2. b.reads = 0 \/ b.reads = 0 + 1
        BY <1>10, <3>1, Zenon
      <3>3. Len(b.done) = 0
        BY <2>10
      <3>4. \A n, l : (n = 0 \/ n = 0 + 1) /\ l = 0 => n + l <= 1
        OBVIOUS
      <3>5. QED
        BY <3>2, <3>3, <3>4, Zenon
    <2>12. InHand(b) = <<>>
      BY <2>10, Zenon DEF InHand
    <2>13. e.taken \in 0..e.taken
      BY DEF AppRec
    <2>14. b.queued \o <<>> = b.queued
      <3>1. b.queued \in Seq(Item)
        BY <1>10, Zenon DEF StreamRec
      <3>2. QED
        BY <3>1, ConcatEmptySeq
    <2>15. Reader(i, b, e)
      BY <2>4, <2>9, <2>10, <2>11, <2>12, <2>13, <2>14, Zenon DEF Reader
    <2>16. NoUpd(b.out)
      BY <2>7, <2>10, Zenon DEF NoUpd
    <2>17. QED
      BY <2>7, <2>9, <2>10, <2>15, <2>16, Zenon
  <1>15. ASSUME First, Healthy PROVE Talks(i, a, b) /\ Finished(i, b, e) /\ Drained(b)
    <2>1. Finished(i, a, e) /\ Drained(a)
      BY <1>15, Zenon DEF Fit
    <2>2. ~a.local_fin_sent
      BY <2>1, Zenon DEF Finished
    <2>3. /\ b.done = <<>> /\ b.queued = a.queued \o PayloadOf(b.out, i)
          /\ \A k \in 1..Len(b.out) : b.out[k].cmd = "psh"
      BY <1>14, <1>15, Zenon
    <2>4. Talks(i, a, b)
      BY <1>11, <2>2, <2>3, Zenon DEF Talks
    <2>5. Finished(i, b, e)
      BY <1>11, <2>2, <2>3, Zenon DEF Finished
    <2>6. Drained(b)
      BY <1>11, <2>1, Zenon DEF Drained, SameWrites
    <2>7. QED
      BY <2>4, <2>5, <2>6
  <1>16. Fit(i, b, e)
    BY <1>14, <1>15, Zenon DEF Fit
  <1>17. Tidy(i, a, b, e)
    BY <1>12, <1>14, <1>15, <1>16, Zenon DEF Tidy
  <1>18. QED
    BY <1>10, <1>13, <1>17

\* Nothing is down, closed or gone.
Calm ==
    /\ linkUp /\ exited = {}
    /\ \A s \in Side : ~session[s].closed /\ \A i \in Ids : ~app[s][i].gone

LEMMA ReadHandlerPipes ==
    ASSUME Types, NEW s \in Side, NEW i \in Ids, ReadHandler(s, i),
           Fit(i, stream[s][i], app[s][i])
    PROVE  \E b : Pipes1(s, i, b, app[s][i])
  <1>1. PICK a, e : a = stream[s][i] /\ e = app[s][i]
    OBVIOUS
  <1>2. PICK r : r = [a EXCEPT !.done = Tail(@)]
    BY Zenon
  <1>3. PICK result : result = Head(a.done)
    OBVIOUS
  <1>4. /\ a \in StreamRec(FramesOf(i)) /\ Sound(a) /\ a.out = <<>> /\ (~a.created => a = NoStream)
        /\ Fit(i, a, e) /\ e \in AppRec
    <2>1. e \in AppRec
      BY <1>1 DEF Types, AppRec
    <2>2. QED
      BY <1>1, <2>1, StreamHere
  <1>5. a.done # <<>>
    BY <1>1 DEF ReadHandler
  <1>6. a.created
    BY <1>4, <1>5, NoStreamIdle
  <1>7. /\ r \in StreamRec(FramesOf(i)) /\ Sound(r) /\ ~r.closed /\ result \in Int
    BY <1>2, <1>3, <1>4, <1>5, DoneTail, Zenon
  <1>8. /\ SameWrites(a, r) /\ r.closed = a.closed /\ r.local_fin_sent = a.local_fin_sent
        /\ r.queued = a.queued /\ r.out = a.out /\ r.close_timer = a.close_timer
        /\ Held(r) = Held(a) /\ r.remote_fin_received = a.remote_fin_received
    <2>1. PICK d : d = Tail(a.done)
      BY Zenon
    <2>2. r = [a EXCEPT !.done = d]
      BY <1>2, <2>1
    <2>3. /\ SameWrites(a, r) /\ r.closed = a.closed /\ r.local_fin_sent = a.local_fin_sent
          /\ r.queued = a.queued /\ r.out = a.out /\ r.close_timer = a.close_timer
      BY <1>4, <2>2, Zenon DEF StreamRec, SameWrites
    <2>4. Held(r) = Held(a) /\ r.remote_fin_received = a.remote_fin_received
      BY <2>3, Zenon DEF SameWrites, Held
    <2>5. QED
      BY <2>3, <2>4
  <1>9. ASSUME NEW b, StreamStep(s, i, b), Tidy(i, a, b, e), b \in StreamRec(FramesOf(i)),
               Held(b) = Held(a), b.remote_fin_received = a.remote_fin_received
        PROVE  \E c : Pipes1(s, i, c, app[s][i])
    BY <1>1, <1>6, <1>9, Zenon DEF Pipes1
  <1>10. \/ /\ result > 0
            /\ \E queued \in {QueueOutbound(r, SubSeq(r.tcp_read_buffer, 1, result))} :
               \E flushed \in {TryFlushOutbound(s, i, queued)} :
                  StreamStep(s, i, IF HasPendingOutbound(flushed) THEN flushed ELSE StartTcpRead(flushed))
         \/ /\ result = EndOfStream
            /\ StreamStep(s, i, MaybeFinish(SendLocalFin(i, r)))
         \/ /\ result = ReadFailed
            /\ StreamStep(s, i, Close(i, r))
    BY <1>1, <1>2, <1>3 DEF ReadHandler
  <1>11. CASE /\ result > 0
              /\ \E queued \in {QueueOutbound(r, SubSeq(r.tcp_read_buffer, 1, result))} :
                 \E flushed \in {TryFlushOutbound(s, i, queued)} :
                    StreamStep(s, i, IF HasPendingOutbound(flushed) THEN flushed ELSE StartTcpRead(flushed))
    <2>1. PICK x : x = SubSeq(r.tcp_read_buffer, 1, result)
      BY Zenon
    <2>2. PICK q : q = QueueOutbound(r, x)
      OBVIOUS
    <2>3. PICK f : f = TryFlushOutbound(s, i, q)
      OBVIOUS
    <2>4. PICK g : g = StartTcpRead(f)
      OBVIOUS
    <2>5. StreamStep(s, i, f) \/ StreamStep(s, i, g)
      <3>1. StreamStep(s, i, IF HasPendingOutbound(f) THEN f ELSE g)
        BY <1>11, <2>1, <2>2, <2>3, <2>4
      <3>2. QED
        BY <3>1, Zenon
    <2>6. ASSUME NEW b, b = f \/ b = g
          PROVE  /\ Tidy(i, a, b, e) /\ b \in StreamRec(FramesOf(i))
                 /\ Held(b) = Held(a) /\ b.remote_fin_received = a.remote_fin_received
      <3>1. Head(a.done) > 0 /\ x = SubSeq(r.tcp_read_buffer, 1, Head(a.done))
        BY <1>3, <1>11, <2>1
      <3>2. b = f \/ b = StartTcpRead(f)
        BY <2>4, <2>6
      <3>3. Sending(s, i, a, r, x, q, f, b)
        BY <1>2, <2>2, <2>3, <3>1, <3>2, Zenon DEF Sending
      <3>4. QED
        BY <1>4, <1>5, <3>1, <3>3, ReadSent
    <2>7. PICK b : (b = f \/ b = g) /\ StreamStep(s, i, b)
      BY <2>5
    <2>8. QED
      BY <1>9, <2>6, <2>7
  <1>12. ASSUME NEW b, StreamStep(s, i, b),
                b = MaybeFinish(SendLocalFin(i, r)) \/ b = Close(i, r), result <= 0,
                MayEnd(i, r, e, b)
         PROVE  \E c : Pipes1(s, i, c, app[s][i])
    <2>1. First => Reader(i, r, e)
      <3>1. ASSUME First PROVE Reader(i, r, e)
        <4>1. Reader(i, a, e)
          BY <1>4, <3>1 DEF Fit
        <4>2. Head(a.done) <= 0
          BY <1>3, <1>12
        <4>3. QED
          BY <1>2, <1>4, <1>5, <4>1, <4>2, EmptyHands
      <3>2. QED
        BY <3>1
    <2>2. r.out = <<>>
      BY <1>4, <1>8
    <2>6. /\ Tidy(i, r, b, e) /\ b \in StreamRec(FramesOf(i))
          /\ Held(b) = Held(r) /\ b.remote_fin_received = r.remote_fin_received
      BY <1>7, <1>12, <2>1, <2>2, FinTidy, Zenon
    <2>7. Tidy(i, a, b, e)
      BY <1>8, <2>6, TidyFrom
    <2>8. Held(b) = Held(a) /\ b.remote_fin_received = a.remote_fin_received
      BY <1>8, <2>6
    <2>9. QED
      BY <1>9, <1>12, <2>6, <2>7, <2>8
  <1>13. ASSUME First, Healthy
         PROVE  /\ Finished(i, r, e) /\ Drained(r) /\ r.tcp_ready /\ r.reads = 0 /\ r.done = <<>>
                /\ result # ReadFailed
                /\ result = EndOfStream => e.eof /\ r.queued = AppBytes(i, 0, e.sent)
    <2>1. Reader(i, a, e) /\ Finished(i, a, e) /\ Drained(a)
      BY <1>4, <1>13, Zenon DEF Fit
    <2>2. r.reads = 0 /\ r.done = <<>> /\ r.tcp_ready
      BY <1>2, <1>4, <1>5, <2>1, EmptyHands, Zenon
    <2>3. ~a.local_fin_sent /\ Head(a.done) >= 0 /\ (Head(a.done) = 0 => e.eof /\ e.taken = e.sent)
      BY <1>5, <2>1, Zenon DEF Finished
    <2>4. ~r.local_fin_sent
      BY <1>8, <2>3
    <2>5. Finished(i, r, e)
      BY <2>2, <2>4, Zenon DEF Finished
    <2>6. Drained(r)
      BY <1>8, <2>1, Zenon DEF Drained, SameWrites
    <2>7. result # ReadFailed
      BY <1>3, <2>3 DEF ReadFailed
    <2>8. ASSUME result = EndOfStream PROVE e.eof /\ r.queued = AppBytes(i, 0, e.sent)
      <3>1. Head(a.done) = 0
        BY <1>3, <2>8 DEF EndOfStream
      <3>2. e.eof /\ e.taken = e.sent
        BY <2>3, <3>1
      <3>3. InHand(a) = <<>>
        <4>1. ~(Head(a.done) > 0)
          BY <3>1
        <4>2. QED
          BY <4>1, Zenon DEF InHand
      <3>4. ~a.closed
        BY <1>7, <1>8
      <3>5. a.queued \o <<>> = AppBytes(i, 0, e.taken)
        BY <2>1, <3>3, <3>4, Zenon DEF Reader
      <3>6. a.queued \in Seq(Item)
        BY <1>4 DEF StreamRec
      <3>7. a.queued = AppBytes(i, 0, e.taken)
        BY <3>5, <3>6, ConcatEmptySeq
      <3>8. QED
        BY <1>8, <3>2, <3>7
    <2>9. QED
      BY <2>2, <2>5, <2>6, <2>7, <2>8
  <1>14. CASE result = EndOfStream /\ StreamStep(s, i, MaybeFinish(SendLocalFin(i, r)))
    <2>1. PICK b : b = MaybeFinish(SendLocalFin(i, r))
      OBVIOUS
    <2>2. result <= 0
      BY <1>14 DEF EndOfStream
    <2>3. StreamStep(s, i, b)
      BY <1>14, <2>1
    <2>4. MayEnd(i, r, e, b)
      BY <1>13, <1>14, <2>1, Zenon DEF MayEnd
    <2>5. QED
      BY <1>12, <2>1, <2>2, <2>3, <2>4
  <1>15. CASE result = ReadFailed /\ StreamStep(s, i, Close(i, r))
    <2>1. PICK b : b = Close(i, r)
      OBVIOUS
    <2>2. result <= 0
      BY <1>15 DEF ReadFailed
    <2>3. StreamStep(s, i, b)
      BY <1>15, <2>1
    <2>4. ~(First /\ Healthy)
      BY <1>13, <1>15
    <2>5. MayEnd(i, r, e, b)
      BY <2>4, Zenon DEF MayEnd
    <2>6. QED
      BY <1>12, <2>1, <2>2, <2>3, <2>5
  <1>16. QED
    BY <1>10, <1>11, <1>14, <1>15

LEMMA CloseTimerPipes ==
    ASSUME Types, NEW s \in Side, NEW i \in Ids, CloseTimer(s, i),
           Fit(i, stream[s][i], app[s][i])
    PROVE  \E b : Pipes1(s, i, b, app[s][i])
  <1>1. PICK a, e, c : a = stream[s][i] /\ e = app[s][i] /\ c = Close(i, a)
    OBVIOUS
  <1>2. /\ a \in StreamRec(FramesOf(i)) /\ Sound(a) /\ a.out = <<>> /\ (~a.created => a = NoStream)
        /\ Fit(i, a, e)
    BY <1>1, StreamHere
  <1>3. a.close_timer /\ StreamStep(s, i, c)
    BY <1>1 DEF CloseTimer
  <1>4. a.created
    BY <1>2, <1>3, NoStreamIdle
  <1>5. First => Reader(i, a, e)
    BY <1>2 DEF Fit
  <1>6. First /\ Healthy => Finished(i, a, e) /\ Drained(a)
    BY <1>2, Zenon DEF Fit
  <1>7. /\ Tidy(i, a, c, e) /\ c \in StreamRec(FramesOf(i))
        /\ Held(c) = Held(a) /\ c.remote_fin_received = a.remote_fin_received
    <2>1. MayEnd(i, a, e, c)
      BY <1>1, <1>3, <1>6, Zenon DEF MayEnd
    <2>2. c = MaybeFinish(SendLocalFin(i, a)) \/ c = Close(i, a)
      BY <1>1
    <2>3. QED
      BY <1>2, <1>5, <2>1, <2>2, FinTidy
  <1>8. QED
    BY <1>1, <1>3, <1>4, <1>7, Zenon DEF Pipes1

LEMMA ResolveDonePipes ==
    ASSUME Types, NEW i \in Ids, ResolveDone(i), Fit(i, stream["server"][i], app["server"][i])
    PROVE  \E b : Pipes1("server", i, b, app["server"][i])
  <1>1. PICK a, e : a = stream["server"][i] /\ e = app["server"][i]
    OBVIOUS
  <1>2. PICK p, r, c : /\ p = [a EXCEPT !.phase = "connect"] /\ r = [a EXCEPT !.phase = "idle"]
                       /\ c = Close(i, r)
    BY Zenon
  <1>3. /\ a \in StreamRec(FramesOf(i)) /\ Sound(a) /\ a.out = <<>> /\ (~a.created => a = NoStream)
        /\ Fit(i, a, e)
    BY <1>1, StreamHere DEF Side
  <1>4. a.phase = "resolve"
    BY <1>1 DEF ResolveDone
  <1>5. a.created
    BY <1>3, <1>4, NoStreamIdle
  <1>6. \/ StreamStep("server", i, p)
        \/ (config.targetMayFail \/ a.closed) /\ StreamStep("server", i, c)
    BY <1>1, <1>2 DEF ResolveDone
  <1>7. p \in StreamRec(FramesOf(i)) /\ r \in StreamRec(FramesOf(i))
    BY <1>2, <1>3, Zenon DEF StreamRec
  <1>8. /\ SameWrites(a, p) /\ SameSends(a, p) /\ p.closed = a.closed /\ p.close_timer = a.close_timer
        /\ p.tcp_ready = a.tcp_ready /\ p.reads = a.reads /\ p.done = a.done
        /\ p.tcp_read_buffer = a.tcp_read_buffer /\ p.pending_outbound = a.pending_outbound
        /\ p.queued = a.queued
    BY <1>2, <1>3, Zenon DEF StreamRec, SameWrites, SameSends
  <1>9. /\ SameWrites(a, r) /\ SameSends(a, r) /\ r.closed = a.closed /\ r.close_timer = a.close_timer
        /\ r.tcp_ready = a.tcp_ready /\ r.reads = a.reads /\ r.done = a.done
        /\ r.tcp_read_buffer = a.tcp_read_buffer /\ r.pending_outbound = a.pending_outbound
        /\ r.queued = a.queued /\ r.phase = "idle" /\ r.tcp_write_active = a.tcp_write_active
        /\ r.pending_tcp_writes = a.pending_tcp_writes
    BY <1>2, <1>3, Zenon DEF StreamRec, SameWrites, SameSends
  <1>10. ASSUME NEW b, StreamStep("server", i, b), Tidy(i, a, b, e), b \in StreamRec(FramesOf(i)),
                Held(b) = Held(a), b.remote_fin_received = a.remote_fin_received
         PROVE  \E d : Pipes1("server", i, d, app["server"][i])
    BY <1>1, <1>5, <1>10, Zenon DEF Pipes1
  <1>11. CASE StreamStep("server", i, p)
    <2>1. Held(p) = Held(a) /\ p.remote_fin_received = a.remote_fin_received
      BY <1>8, Zenon DEF SameWrites, Held
    <2>2. Grows(a, p)
      <3>1. p.delivered = a.delivered /\ (a.send_shut => p.send_shut) /\ (a.closed => p.closed)
        BY <1>8, Zenon DEF SameWrites
      <3>2. QED
        BY <1>3, <3>1, GrowsSame
    <2>3. Talks(i, a, p) /\ NoUpd(p.out)
      BY <1>3, <1>8, FinTalks
    <2>4. ASSUME First PROVE Reader(i, p, e)
      <3>1. Reader(i, a, e)
        BY <1>3, <2>4 DEF Fit
      <3>2. ~a.tcp_ready
        <4>1. a.phase # "idle"
          BY <1>4
        <4>2. QED
          BY <3>1, <4>1, Zenon DEF Reader
      <3>3. InHand(p) = InHand(a)
        BY <1>8, Zenon DEF InHand
      <3>4. QED
        BY <1>8, <3>1, <3>2, <3>3, Zenon DEF Reader
    <2>5. ASSUME First, Healthy PROVE Finished(i, p, e) /\ Drained(p)
      <3>1. Finished(i, a, e) /\ Drained(a)
        BY <1>3, <2>5, Zenon DEF Fit
      <3>2. Finished(i, p, e)
        BY <1>8, <3>1, Zenon DEF Finished, SameSends
      <3>3. Drained(p)
        BY <1>8, <3>1, Zenon DEF Drained, SameWrites, SameSends
      <3>4. QED
        BY <3>2, <3>3
    <2>6. Tidy(i, a, p, e)
      BY <2>2, <2>3, <2>4, <2>5, Zenon DEF Tidy, Fit
    <2>7. QED
      BY <1>7, <1>10, <1>11, <2>1, <2>6
  <1>12. CASE (config.targetMayFail \/ a.closed) /\ StreamStep("server", i, c)
    <2>1. ~(First /\ Healthy)
      <3>1. SUFFICES ASSUME First, Healthy PROVE FALSE
        OBVIOUS
      <3>2. a.closed
        BY <1>12, <3>1 DEF Healthy
      <3>3. Finished(i, a, e) /\ Drained(a) /\ Reader(i, a, e)
        BY <1>3, <3>1, Zenon DEF Fit
      <3>4. a.tcp_ready
        BY <3>2, <3>3, Zenon DEF Finished, Drained
      <3>5. a.phase # "idle"
        BY <1>4
      <3>6. QED
        BY <3>3, <3>4, <3>5, Zenon DEF Reader
    <2>2. Sound(r)
      BY <1>3, <1>9, Zenon DEF Sound
    <2>3. r.out = <<>>
      BY <1>3, <1>9, Zenon DEF SameSends
    <2>4. First => Reader(i, r, e)
      <3>1. ASSUME First PROVE Reader(i, r, e)
        <4>1. Reader(i, a, e)
          BY <1>3, <3>1 DEF Fit
        <4>2. InHand(r) = InHand(a)
          BY <1>9, Zenon DEF InHand
        <4>3. QED
          BY <1>9, <4>1, <4>2, Zenon DEF Reader
      <3>2. QED
        BY <3>1
    <2>5. MayEnd(i, r, e, c)
      BY <2>1, Zenon DEF MayEnd
    <2>6. c = MaybeFinish(SendLocalFin(i, r)) \/ c = Close(i, r)
      BY <1>2
    <2>7. /\ Tidy(i, r, c, e) /\ c \in StreamRec(FramesOf(i))
          /\ Held(c) = Held(r) /\ c.remote_fin_received = r.remote_fin_received
      BY <1>7, <2>2, <2>3, <2>4, <2>5, <2>6, FinTidy, Zenon
    <2>8. r.local_fin_sent = a.local_fin_sent
      BY <1>9 DEF SameSends
    <2>9. Tidy(i, a, c, e)
      BY <1>9, <2>7, <2>8, TidyFrom
    <2>10. Held(c) = Held(a) /\ c.remote_fin_received = a.remote_fin_received
      BY <1>9, <2>7, Zenon DEF SameWrites, Held
    <2>11. QED
      BY <1>10, <1>12, <2>7, <2>9, <2>10
  <1>13. QED
    BY <1>6, <1>11, <1>12

LEMMA WriteHandlerPipes ==
    ASSUME Types, NEW s \in Side, NEW i \in Ids, WriteHandler(s, i),
           Fit(i, stream[s][i], app[s][i]), First /\ Healthy => Calm
    PROVE  \E b : Pipes1(s, i, b, app[s][i])
  <1>1. PICK a, e : a = stream[s][i] /\ e = app[s][i]
    OBVIOUS
  <1>2. PICK r : r = [a EXCEPT !.tcp_write_active = FALSE]
    BY Zenon
  <1>3. PICK front : front = Head(r.pending_tcp_writes)
    OBVIOUS
  <1>4. PICK w : w = [r EXCEPT !.pending_tcp_writes = Tail(@), !.delivered = @ \o front]
    OBVIOUS
  <1>5. /\ a \in StreamRec(FramesOf(i)) /\ Sound(a) /\ a.out = <<>> /\ (~a.created => a = NoStream)
        /\ Fit(i, a, e)
    BY <1>1, StreamHere
  <1>6. a.tcp_write_active
    BY <1>1 DEF WriteHandler
  <1>7. a.created /\ a.pending_tcp_writes # <<>>
    BY <1>5, <1>6, NoStreamIdle DEF Sound
  <1>8. /\ r \in StreamRec(FramesOf(i)) /\ Sound(r) /\ ~r.tcp_write_active
        /\ r.pending_tcp_writes = a.pending_tcp_writes /\ r.closed = a.closed
        /\ SameReads(a, r) /\ SameSends(a, r) /\ r.delivered = a.delivered
        /\ r.send_shut = a.send_shut /\ r.close_timer = a.close_timer
        /\ r.created = a.created /\ r.remote_fin_received = a.remote_fin_received
    <2>1. r \in StreamRec(FramesOf(i))
      BY <1>2, <1>5, Zenon DEF StreamRec
    <2>2. /\ ~r.tcp_write_active
          /\ r.pending_tcp_writes = a.pending_tcp_writes /\ r.closed = a.closed
          /\ SameReads(a, r) /\ SameSends(a, r) /\ r.delivered = a.delivered
          /\ r.send_shut = a.send_shut /\ r.close_timer = a.close_timer
          /\ r.created = a.created /\ r.remote_fin_received = a.remote_fin_received
      BY <1>2, <1>5, Zenon DEF StreamRec, SameReads, SameSends
    <2>3. Sound(r)
      BY <1>5, <2>2, Zenon DEF Sound, SameReads
    <2>4. QED
      BY <2>1, <2>2, <2>3
  <1>9. ASSUME First, Healthy
        PROVE  ~a.send_shut /\ ~a.close_timer /\ ~a.closed /\ ~e.gone /\ ~config.appMayFail
    <2>1. Drained(a)
      BY <1>5, <1>9, Zenon DEF Fit
    <2>2. ~e.gone
      BY <1>1, <1>9, Zenon DEF Calm
    <2>3. QED
      BY <1>6, <1>9, <2>1, <2>2, Zenon DEF Drained, Healthy
  <1>10. PICK n : n = FlushTcpWrites(MarkPayloadConsumed(s, i, w, Len(front)))
    OBVIOUS
  <1>11. PICK o : o = MaybeFinish(ShutdownTcpSendIfReady(n))
    OBVIOUS
  <1>12. PICK m, c : m = MaybeFinish(SendLocalFin(i, r)) /\ c = Close(i, r)
    OBVIOUS
  <1>13. \/ StreamStep(s, i, o)
         \/ (e.gone \/ a.send_shut \/ a.closed) /\ StreamStep(s, i, m)
         \/ config.appMayFail /\ StreamStep(s, i, c)
    BY <1>1, <1>2, <1>3, <1>4, <1>8, <1>10, <1>11, <1>12 DEF WriteHandler
  <1>14. ASSUME NEW b, StreamStep(s, i, b), Tidy(i, a, b, e), b \in StreamRec(FramesOf(i)),
                Held(b) = Held(a), b.remote_fin_received = a.remote_fin_received
         PROVE  \E d : Pipes1(s, i, d, app[s][i])
    BY <1>1, <1>7, <1>14, Zenon DEF Pipes1
  <1>15. CASE StreamStep(s, i, o)
    <2>1. PICK y : y = MarkPayloadConsumed(s, i, w, Len(front))
      OBVIOUS
    <2>2. PICK z : z = ShutdownTcpSendIfReady(n)
      OBVIOUS
    <2>3. /\ w \in StreamRec(FramesOf(i)) /\ Sound(w) /\ Held(w) = Held(r) /\ Len(front) \in Nat
      <3>1. w = [r EXCEPT !.pending_tcp_writes = Tail(@), !.delivered = @ \o Head(r.pending_tcp_writes)]
        BY <1>3, <1>4
      <3>2. w \in StreamRec(FramesOf(i)) /\ Sound(w) /\ Steps(i, r, w, <<>>)
            /\ Len(Head(r.pending_tcp_writes)) \in Nat
        BY <1>7, <1>8, <3>1, WrittenSteps, Zenon
      <3>3. QED
        BY <1>3, <3>2, Zenon DEF Steps
    <2>4. y \in StreamRec(FramesOf(i)) /\ Sound(y)
      BY <2>1, <2>3, MarkKeeps
    <2>5. SameWrites(w, y) /\ y.closed = w.closed /\ (Version[s] # 2 => y = w)
      <3>1. PICK k : k = Len(front)
        BY Zenon
      <3>2. w \in StreamRec(FramesOf(i)) /\ y = MarkPayloadConsumed(s, i, w, k)
        BY <2>1, <2>3, <3>1
      <3>3. SameWrites(w, y)
        BY <3>2, MarkedSame, Zenon
      <3>4. y.closed = w.closed
        BY <3>2, MarkedMore
      <3>5. Version[s] # 2 => y = w
        BY <3>2, MarkedSame
      <3>6. QED
        BY <3>3, <3>4, <3>5
    <2>6. n \in StreamRec(FramesOf(i)) /\ Sound(n)
      BY <1>10, <2>1, <2>4, FlushTcpWritesKeeps
    <2>7. z \in StreamRec(FramesOf(i)) /\ Sound(z)
      BY <2>2, <2>6, ShutdownKeeps
    <2>8. o \in StreamRec(FramesOf(i))
      BY <1>11, <2>2, <2>7, MaybeFinishKeeps
    <2>9. Smooth(y, o)
      <3>1. Smooth(y, n)
        BY <1>10, <2>1, <2>4, SocketSmooth
      <3>2. Smooth(n, z)
        BY <2>2, <2>6, SocketSmooth
      <3>3. Smooth(z, o)
        BY <1>11, <2>2, <2>7, SocketSmooth
      <3>4. QED
        BY <3>1, <3>2, <3>3, SmoothTrans
    <2>10. /\ SameReads(r, w) /\ SameSends(r, w) /\ w.closed = r.closed
           /\ w.send_shut = r.send_shut /\ w.close_timer = r.close_timer
           /\ w.remote_fin_received = r.remote_fin_received
           /\ w.delivered = r.delivered \o front
      <3>1. PICK u, v : u = Tail(r.pending_tcp_writes) /\ v = r.delivered \o front
        BY Zenon
      <3>2. w = [r EXCEPT !.pending_tcp_writes = u, !.delivered = v]
        BY <1>4, <3>1
      <3>3. /\ SameReads(r, w) /\ SameSends(r, w) /\ w.closed = r.closed
            /\ w.send_shut = r.send_shut /\ w.close_timer = r.close_timer
            /\ w.remote_fin_received = r.remote_fin_received /\ w.delivered = v
        BY <1>8, <3>2, Zenon DEF StreamRec, SameReads, SameSends
      <3>4. QED
        BY <3>1, <3>3
    <2>11. front \in Seq(Item)
      <3>1. r.pending_tcp_writes \in Seq(Seq(Item)) /\ r.pending_tcp_writes # <<>>
        BY <1>7, <1>8 DEF StreamRec
      <3>2. QED
        BY <1>3, <3>1, HeadTailProperties
    <2>12. o.delivered = a.delivered \o front /\ (a.send_shut => o.send_shut)
           /\ (a.closed => o.closed) /\ o.remote_fin_received = a.remote_fin_received
      BY <1>8, <2>5, <2>9, <2>10, Zenon DEF SameWrites, Smooth
    <2>13. Grows(a, o)
      BY <2>11, <2>12, Zenon DEF Grows, Extends
    <2>14. Held(o) = Held(a)
      <3>1. Held(o) = Held(y)
        BY <2>9, Zenon DEF Smooth, Held
      <3>2. Held(y) = Held(w)
        BY <2>5, Zenon DEF SameWrites, Held
      <3>3. Held(r) = Held(a)
        BY <1>8, Zenon DEF Held
      <3>4. QED
        BY <2>3, <3>1, <3>2, <3>3
    <2>15. ASSUME First PROVE Tidy(i, w, o, e)
      <3>1. Smooth(w, o)
        <4>1. Version[s] # 2
          BY <2>15 DEF First
        <4>2. QED
          BY <2>5, <2>9, <4>1
      <3>2. SameReads(a, w) /\ SameSends(a, w) /\ w.closed = a.closed
        BY <1>8, <2>10, Zenon DEF SameReads, SameSends
      <3>3. w.out = <<>> /\ w.local_fin_sent = a.local_fin_sent
        BY <1>5, <3>2, Zenon DEF SameSends
      <3>4. Reader(i, w, e)
        <4>1. Reader(i, a, e)
          BY <1>5, <2>15 DEF Fit
        <4>2. QED
          BY <3>2, <4>1, ReaderSame
      <3>5. ASSUME Healthy PROVE Finished(i, w, e) /\ Drained(w)
        <4>1. Finished(i, a, e)
          BY <1>5, <2>15, <3>5, Zenon DEF Fit
        <4>2. Finished(i, w, e)
          BY <3>2, <3>3, <4>1, FinishedSame
        <4>3. ~w.send_shut /\ ~w.close_timer /\ ~w.closed
          BY <1>8, <1>9, <2>10, <2>15, <3>5, Zenon
        <4>4. QED
          BY <4>2, <4>3, Zenon DEF Drained
      <3>6. Fit(i, w, e)
        BY <3>4, <3>5, Zenon DEF Fit
      <3>7. QED
        BY <2>3, <3>1, <3>3, <3>6, SmoothTidy
    <2>16. Tidy(i, a, o, e)
      <3>1. CASE First
        <4>1. Tidy(i, w, o, e)
          BY <2>15, <3>1
        <4>2. w.queued = a.queued /\ w.local_fin_sent = a.local_fin_sent
          BY <1>8, <2>10, Zenon DEF SameReads, SameSends
        <4>3. Talks(i, w, o) => Talks(i, a, o)
          BY <4>2, Zenon DEF Talks
        <4>4. QED
          BY <2>13, <4>1, <4>3, Zenon DEF Tidy
      <3>2. CASE ~First
        BY <2>13, <3>2, Zenon DEF Tidy, Fit
      <3>3. QED
        BY <3>1, <3>2
    <2>17. QED
      BY <1>14, <1>15, <2>8, <2>12, <2>14, <2>16
  <1>16. ASSUME NEW b, b = m \/ b = c, StreamStep(s, i, b), ~(First /\ Healthy)
         PROVE  \E d : Pipes1(s, i, d, app[s][i])
    <2>1. First => Reader(i, r, e)
      <3>1. ASSUME First PROVE Reader(i, r, e)
        <4>1. Reader(i, a, e)
          BY <1>5, <3>1 DEF Fit
        <4>2. QED
          BY <1>8, <4>1, ReaderSame
      <3>2. QED
        BY <3>1
    <2>2. MayEnd(i, r, e, b)
      BY <1>16, Zenon DEF MayEnd
    <2>3. r.out = <<>> /\ r.local_fin_sent = a.local_fin_sent /\ r.queued = a.queued
      BY <1>5, <1>8, Zenon DEF SameSends, SameReads
    <2>4. b = MaybeFinish(SendLocalFin(i, r)) \/ b = Close(i, r)
      BY <1>12, <1>16
    <2>5. /\ Tidy(i, r, b, e) /\ b \in StreamRec(FramesOf(i))
          /\ Held(b) = Held(r) /\ b.remote_fin_received = r.remote_fin_received
      BY <1>8, <2>1, <2>2, <2>3, <2>4, FinTidy
    <2>6. Grows(a, b)
      BY <1>8, <2>5, Zenon DEF Tidy, Grows
    <2>7. Tidy(i, a, b, e)
      BY <1>16, <2>5, <2>6, Zenon DEF Tidy
    <2>8. Held(b) = Held(a) /\ b.remote_fin_received = a.remote_fin_received
      BY <1>8, <2>5, Zenon DEF Held
    <2>9. QED
      BY <1>14, <1>16, <2>5, <2>7, <2>8
  <1>17. CASE (e.gone \/ a.send_shut \/ a.closed) /\ StreamStep(s, i, m)
    BY <1>9, <1>16, <1>17
  <1>18. CASE config.appMayFail /\ StreamStep(s, i, c)
    BY <1>9, <1>16, <1>18
  <1>19. QED
    BY <1>13, <1>15, <1>17, <1>18

\* A socket is in place: its writes and its first read start.
LEMMA SocketOpens ==
    ASSUME NEW F, NEW i, NEW e, NEW r \in StreamRec(F), r.tcp_ready, r.phase = "idle", r.reads = 0,
           r.done = <<>>, NEW f \in StreamRec(F), f = FlushTcpWrites(r), NEW b, b = StartTcpRead(f)
    PROVE  /\ Reader(i, r, e) => Reader(i, b, e)
           /\ ~r.local_fin_sent => Finished(i, b, e)
           /\ Drained(r) => Drained(b)
           /\ SameSends(r, b) /\ b.closed = r.closed /\ b.queued = r.queued
           /\ b.delivered = r.delivered /\ b.pending_tcp_writes = r.pending_tcp_writes
           /\ b.remote_fin_received = r.remote_fin_received /\ b.send_shut = r.send_shut
  <1>1. /\ SameReads(r, f) /\ SameSends(r, f) /\ f.created = r.created
        /\ f.closed = r.closed /\ f.close_timer = r.close_timer
        /\ f.remote_fin_received = r.remote_fin_received /\ f.send_shut = r.send_shut
        /\ f.pending_tcp_writes = r.pending_tcp_writes /\ f.delivered = r.delivered
        /\ f.tcp_write_active = r.tcp_write_active \/ r.pending_tcp_writes # <<>>
    BY WriteStarted
  <1>2. /\ SameWrites(f, b) /\ SameSends(f, b) /\ b.created = f.created
        /\ b.closed = f.closed /\ b.close_timer = f.close_timer
        /\ b.tcp_ready = f.tcp_ready /\ b.phase = f.phase /\ b.done = f.done
        /\ b.tcp_read_buffer = f.tcp_read_buffer /\ b.queued = f.queued
        /\ b.pending_outbound = f.pending_outbound
        /\ b.reads = f.reads \/ b.reads = f.reads + 1
    BY ReadStarted
  <1>3. b.tcp_ready /\ b.phase = "idle" /\ b.done = <<>> /\ b.queued = r.queued
        /\ b.pending_outbound = r.pending_outbound /\ b.closed = r.closed /\ SameSends(r, b)
    BY <1>1, <1>2, Zenon DEF SameReads, SameSends
  <1>4. ASSUME Reader(i, r, e) PROVE Reader(i, b, e)
    <2>1. InHand(r) = <<>> /\ InHand(b) = <<>>
      BY <1>3, Zenon DEF InHand
    <2>2. b.reads + Len(b.done) <= 1
      <3>1. b.reads = 0 \/ b.reads = 0 + 1
        BY <1>1, <1>2, Zenon DEF SameReads
      <3>2. Len(b.done) = 0
        BY <1>3
      <3>3. \A n, l : (n = 0 \/ n = 0 + 1) /\ l = 0 => n + l <= 1
        OBVIOUS
      <3>4. QED
        BY <3>1, <3>2, <3>3, Zenon
    <2>3. QED
      BY <1>3, <1>4, <2>1, <2>2, Zenon DEF Reader
  <1>5. ASSUME ~r.local_fin_sent PROVE Finished(i, b, e)
    BY <1>3, <1>5, Zenon DEF Finished, SameSends
  <1>6. ASSUME Drained(r) PROVE Drained(b)
    <2>1. Drained(f)
      BY <1>1, <1>6, Zenon DEF Drained, SameSends
    <2>2. QED
      BY <1>2, <2>1, Zenon DEF Drained, SameSends, SameWrites
  <1>7. /\ b.delivered = r.delivered /\ b.pending_tcp_writes = r.pending_tcp_writes
        /\ b.remote_fin_received = r.remote_fin_received /\ b.send_shut = r.send_shut
    BY <1>1, <1>2, Zenon DEF SameWrites
  <1>8. QED
    BY <1>3, <1>4, <1>5, <1>6, <1>7

LEMMA ConnectDonePipes ==
    ASSUME Types, NEW i \in Ids, ConnectDone(i), Fit(i, stream["server"][i], app["server"][i])
    PROVE  \/ UNCHANGED <<stream, net>>
           \/ \E b : Pipes1("server", i, b, app["server"][i])
  <1>1. PICK a, e : a = stream["server"][i] /\ e = app["server"][i]
    OBVIOUS
  <1>2. PICK r : r = [a EXCEPT !.phase = "idle"]
    BY Zenon
  <1>3. PICK ready : ready = [r EXCEPT !.tcp_ready = TRUE]
    BY Zenon
  <1>4. PICK c : c = Close(i, r)
    OBVIOUS
  <1>5. PICK f : f = FlushTcpWrites(ready)
    OBVIOUS
  <1>6. PICK g : g = StartTcpRead(f)
    OBVIOUS
  <1>7. PICK h : h = ShutdownTcpSendIfReady(g)
    OBVIOUS
  <1>8. /\ a \in StreamRec(FramesOf(i)) /\ Sound(a) /\ a.out = <<>> /\ (~a.created => a = NoStream)
        /\ Fit(i, a, e)
    BY <1>1, StreamHere DEF Side
  <1>9. a.phase = "connect"
    BY <1>1 DEF ConnectDone
  <1>10. a.created
    BY <1>8, <1>9, NoStreamIdle
  <1>11. \/ UNCHANGED <<stream, net>>
         \/ StreamStep("server", i, h)
         \/ (config.targetMayFail \/ a.closed) /\ StreamStep("server", i, c)
    <2>1. r.closed = a.closed
      BY <1>2, <1>8, Zenon DEF StreamRec
    <2>2. \/ UNCHANGED <<stream, net>>
          \/ StreamStep("server", i, h)
          \/ (config.targetMayFail \/ r.closed) /\ StreamStep("server", i, c)
      BY <1>1, <1>2, <1>3, <1>4, <1>5, <1>6, <1>7, Zenon DEF ConnectDone
    <2>3. QED
      BY <2>1, <2>2
  <1>12. r \in StreamRec(FramesOf(i)) /\ ready \in StreamRec(FramesOf(i))
    <2>1. r \in StreamRec(FramesOf(i))
      BY <1>2, <1>8, Zenon DEF StreamRec
    <2>2. QED
      BY <1>3, <2>1, Zenon DEF StreamRec
  <1>13. /\ SameWrites(a, r) /\ SameSends(a, r) /\ r.closed = a.closed /\ r.close_timer = a.close_timer
         /\ r.tcp_ready = a.tcp_ready /\ r.reads = a.reads /\ r.done = a.done
         /\ r.tcp_read_buffer = a.tcp_read_buffer /\ r.pending_outbound = a.pending_outbound
         /\ r.queued = a.queued /\ r.phase = "idle" /\ r.tcp_write_active = a.tcp_write_active
         /\ r.pending_tcp_writes = a.pending_tcp_writes
    BY <1>2, <1>8, Zenon DEF StreamRec, SameWrites, SameSends
  <1>14. /\ SameWrites(r, ready) /\ SameSends(r, ready) /\ ready.closed = r.closed
         /\ ready.close_timer = r.close_timer
         /\ ready.tcp_ready /\ ready.reads = r.reads /\ ready.done = r.done
         /\ ready.tcp_read_buffer = r.tcp_read_buffer /\ ready.pending_outbound = r.pending_outbound
         /\ ready.queued = r.queued /\ ready.phase = r.phase
         /\ ready.tcp_write_active = r.tcp_write_active
         /\ ready.pending_tcp_writes = r.pending_tcp_writes
    BY <1>3, <1>12, Zenon DEF StreamRec, SameWrites, SameSends
  <1>15. Sound(r) /\ Sound(ready)
    <2>1. Sound(r)
      BY <1>8, <1>13, Zenon DEF Sound
    <2>2. QED
      BY <1>14, <2>1, Zenon DEF Sound
  <1>16. ASSUME NEW b, StreamStep("server", i, b), Tidy(i, a, b, e), b \in StreamRec(FramesOf(i)),
                Held(b) = Held(a), b.remote_fin_received = a.remote_fin_received
         PROVE  \E d : Pipes1("server", i, d, app["server"][i])
    BY <1>1, <1>10, <1>16, Zenon DEF Pipes1
  <1>17. ASSUME First
         PROVE  /\ Reader(i, a, e) /\ Reader(i, r, e) /\ Reader(i, ready, e)
                /\ ~a.tcp_ready /\ a.reads = 0 /\ a.done = <<>>
    <2>1. Reader(i, a, e)
      BY <1>8, <1>17 DEF Fit
    <2>2. a.phase # "idle"
      BY <1>9
    <2>3. ~a.tcp_ready /\ a.reads = 0 /\ a.done = <<>>
      BY <2>1, <2>2, Zenon DEF Reader
    <2>4. Reader(i, r, e)
      <3>1. InHand(r) = InHand(a)
        BY <1>13, Zenon DEF InHand
      <3>2. QED
        BY <1>13, <2>1, <3>1, Zenon DEF Reader
    <2>5. Reader(i, ready, e)
      <3>1. InHand(ready) = InHand(r)
        BY <1>14, Zenon DEF InHand
      <3>2. QED
        BY <1>13, <1>14, <2>4, <3>1, Zenon DEF Reader
    <2>6. QED
      BY <2>1, <2>3, <2>4, <2>5
  <1>18. CASE StreamStep("server", i, h)
    <2>1. f \in StreamRec(FramesOf(i)) /\ Sound(f)
      BY <1>5, <1>12, <1>15, FlushTcpWritesKeeps
    <2>2. g \in StreamRec(FramesOf(i)) /\ Sound(g)
      BY <1>6, <2>1, StartTcpReadKeeps
    <2>3. h \in StreamRec(FramesOf(i))
      BY <1>7, <2>2, ShutdownKeeps
    <2>4. Smooth(g, h)
      BY <1>7, <2>2, SocketSmooth
    <2>5. /\ SameWrites(a, ready) /\ SameSends(a, ready) /\ ready.closed = a.closed
          /\ ready.queued = a.queued /\ ready.close_timer = a.close_timer
      BY <1>13, <1>14, Zenon DEF SameWrites, SameSends
    <2>6. /\ SameWrites(f, g) /\ SameSends(f, g) /\ g.closed = f.closed /\ g.queued = f.queued
      BY <1>6, <2>1, ReadStarted
    <2>7. /\ SameReads(ready, f) /\ SameSends(ready, f) /\ f.closed = ready.closed
          /\ f.remote_fin_received = ready.remote_fin_received /\ f.send_shut = ready.send_shut
          /\ f.pending_tcp_writes = ready.pending_tcp_writes /\ f.delivered = ready.delivered
      BY <1>5, <1>12, WriteStarted
    <2>8. /\ h.delivered = a.delivered /\ (a.send_shut => h.send_shut) /\ h.closed = a.closed
          /\ h.pending_tcp_writes = a.pending_tcp_writes
          /\ h.remote_fin_received = a.remote_fin_received
      BY <2>4, <2>5, <2>6, <2>7, Zenon DEF Smooth, SameWrites
    <2>9. SameSends(a, h) /\ h.queued = a.queued
      BY <2>4, <2>5, <2>6, <2>7, Zenon DEF Smooth, SameSends, SameReads
    <2>10. Held(h) = Held(a)
      BY <2>8, Zenon DEF Held
    <2>11. Grows(a, h)
      BY <1>8, <2>8, GrowsSame
    <2>12. Talks(i, a, h) /\ NoUpd(h.out)
      BY <1>8, <2>9, FinTalks
    <2>13. ASSUME First
           PROVE  /\ Reader(i, g, e) /\ (~ready.local_fin_sent => Finished(i, g, e))
                  /\ (Drained(ready) => Drained(g))
      <3>1. Reader(i, ready, e) /\ ready.tcp_ready /\ ready.phase = "idle" /\ ready.reads = 0
            /\ ready.done = <<>>
        BY <1>13, <1>14, <1>17, <2>13
      <3>2. QED
        BY <1>5, <1>6, <1>12, <2>1, <3>1, SocketOpens
    <2>14. ASSUME First PROVE Reader(i, h, e)
      <3>1. SameReads(g, h) /\ h.closed = g.closed
        BY <2>4, Zenon DEF Smooth
      <3>2. QED
        BY <2>13, <2>14, <3>1, ReaderSame
    <2>15. ASSUME First, Healthy PROVE Finished(i, h, e) /\ Drained(h)
      <3>1. Finished(i, a, e) /\ Drained(a)
        BY <1>8, <2>15, Zenon DEF Fit
      <3>2. ~a.local_fin_sent
        BY <1>17, <2>15, <3>1, Zenon DEF Finished
      <3>3. ~ready.local_fin_sent
        BY <2>5, <3>2, Zenon DEF SameSends
      <3>4. Drained(ready)
        BY <2>5, <3>1, Zenon DEF Drained, SameWrites, SameSends
      <3>5. Finished(i, g, e) /\ Drained(g)
        BY <2>13, <2>15, <3>3, <3>4
      <3>6. Finished(i, h, e)
        <4>1. SameReads(g, h) /\ h.local_fin_sent = g.local_fin_sent
          BY <2>4, Zenon DEF Smooth, SameSends
        <4>2. QED
          BY <3>5, <4>1, FinishedSame
      <3>7. Drained(h)
        BY <2>4, <3>5, Zenon DEF Smooth
      <3>8. QED
        BY <3>6, <3>7
    <2>16. Tidy(i, a, h, e)
      BY <2>11, <2>12, <2>14, <2>15, Zenon DEF Tidy, Fit
    <2>17. QED
      BY <1>16, <1>18, <2>3, <2>8, <2>10, <2>16
  <1>19. CASE (config.targetMayFail \/ a.closed) /\ StreamStep("server", i, c)
    <2>1. ~(First /\ Healthy)
      <3>1. SUFFICES ASSUME First, Healthy PROVE FALSE
        OBVIOUS
      <3>2. a.closed
        BY <1>19, <3>1 DEF Healthy
      <3>3. Finished(i, a, e) /\ Drained(a)
        BY <1>8, <3>1, Zenon DEF Fit
      <3>4. a.tcp_ready
        BY <3>2, <3>3, Zenon DEF Finished, Drained
      <3>5. QED
        BY <1>17, <3>1, <3>4
    <2>2. First => Reader(i, r, e)
      BY <1>17
    <2>3. MayEnd(i, r, e, c)
      BY <2>1, Zenon DEF MayEnd
    <2>4. c = MaybeFinish(SendLocalFin(i, r)) \/ c = Close(i, r)
      BY <1>4
    <2>5. r.out = <<>> /\ r.local_fin_sent = a.local_fin_sent
      BY <1>8, <1>13, Zenon DEF SameSends
    <2>6. /\ Tidy(i, r, c, e) /\ c \in StreamRec(FramesOf(i))
          /\ Held(c) = Held(r) /\ c.remote_fin_received = r.remote_fin_received
      BY <1>12, <1>15, <2>2, <2>3, <2>4, <2>5, FinTidy, Zenon
    <2>7. Tidy(i, a, c, e)
      BY <1>13, <2>5, <2>6, TidyFrom
    <2>8. Held(c) = Held(a) /\ c.remote_fin_received = a.remote_fin_received
      BY <1>13, <2>6, Zenon DEF SameWrites, Held
    <2>9. QED
      BY <1>16, <1>19, <2>6, <2>7, <2>8
  <1>20. QED
    BY <1>11, <1>18, <1>19

\* A completed read: its result waits for the handler.
Completed(a, b, result, buf) ==
    /\ SameWrites(a, b) /\ SameSends(a, b) /\ b.created = a.created
    /\ b.closed = a.closed /\ b.close_timer = a.close_timer
    /\ b.tcp_ready = a.tcp_ready /\ b.phase = a.phase
    /\ b.pending_outbound = a.pending_outbound /\ b.queued = a.queued
    /\ b.reads = a.reads - 1 /\ b.done = Append(a.done, result) /\ b.tcp_read_buffer = buf

LEMMA CompletedFields ==
    ASSUME NEW F, NEW a \in StreamRec(F), NEW result, NEW buf, NEW b,
           b = [a EXCEPT !.reads = @ - 1, !.done = Append(@, result), !.tcp_read_buffer = buf]
    PROVE  Completed(a, b, result, buf)
  <1>1. PICK n, d : n = a.reads - 1 /\ d = Append(a.done, result)
    BY Zenon
  <1>2. b = [a EXCEPT !.reads = n, !.done = d, !.tcp_read_buffer = buf]
    BY <1>1
  <1>3. /\ SameWrites(a, b) /\ SameSends(a, b) /\ b.created = a.created
        /\ b.closed = a.closed /\ b.close_timer = a.close_timer
        /\ b.tcp_ready = a.tcp_ready /\ b.phase = a.phase
        /\ b.pending_outbound = a.pending_outbound /\ b.queued = a.queued
        /\ b.reads = n /\ b.done = d /\ b.tcp_read_buffer = buf
    BY <1>2, Zenon DEF StreamRec, SameWrites, SameSends
  <1>4. QED
    BY <1>1, <1>3, Zenon DEF Completed

\* The read that was outstanding is the only one.
LEMMA OnlyRead ==
    ASSUME NEW i, NEW a \in StreamRec(FramesOf(i)), Sound(a), NEW e, Reader(i, a, e), a.reads > 0
    PROVE  /\ a.reads = 1 /\ a.done = <<>> /\ ~a.closed /\ a.tcp_ready /\ a.phase = "idle"
           /\ InHand(a) = <<>>
  <1>1. a.done \in Seq(Int) /\ a.reads \in Nat /\ a.reads # 0
    BY DEF StreamRec
  <1>2. a.reads + Len(a.done) <= 1
    BY Zenon DEF Reader
  <1>3. a.reads = 1 /\ Len(a.done) = 0
    <2>1. PICK n, l : n = a.reads /\ l = Len(a.done)
      BY Zenon
    <2>2. l \in Nat /\ n \in Nat /\ n > 0 /\ n + l <= 1
      BY <1>1, <1>2, <2>1, LenProperties
    <2>3. n = 1 /\ l = 0
      BY <2>2
    <2>4. QED
      BY <2>1, <2>3
  <1>4. a.done = <<>>
    BY <1>1, <1>3, EmptySeq
  <1>5. ~a.closed
    BY <1>1, Zenon DEF Sound
  <1>6. a.tcp_ready
    BY <1>1, Zenon DEF Reader
  <1>7. a.phase = "idle"
    BY <1>6, Zenon DEF Reader
  <1>8. InHand(a) = <<>>
    BY <1>4, Zenon DEF InHand
  <1>9. QED
    BY <1>3, <1>4, <1>5, <1>6, <1>7, <1>8

\* The bytes of a read that has just completed are the next of the application.
LEMMA CompletedBytes ==
    ASSUME NEW i \in Ids, NEW a \in StreamRec(FramesOf(i)), Sound(a), NEW e \in AppRec, Reader(i, a, e),
           a.reads > 0, NEW n \in Nat, n > 0, NEW y \in Seq(Item),
           NEW b, Completed(a, b, n, AppBytes(i, e.taken, e.taken + n) \o y)
    PROVE  b.queued \o InHand(b) = AppBytes(i, 0, e.taken + n)
  <1>1. a.done = <<>> /\ ~a.closed /\ InHand(a) = <<>>
    BY OnlyRead
  <1>2. a.queued \in Seq(Item) /\ e.taken \in Nat
    BY DEF StreamRec, AppRec
  <1>3. a.queued = AppBytes(i, 0, e.taken)
    <2>1. a.queued \o InHand(a) = AppBytes(i, 0, e.taken)
      BY <1>1, Zenon DEF Reader
    <2>2. QED
      BY <1>1, <1>2, <2>1, ConcatEmptySeq
  <1>4. PICK x : x = AppBytes(i, e.taken, e.taken + n)
    OBVIOUS
  <1>5. x \in Seq(Item) /\ Len(x) = n
    BY <1>2, <1>4, AppBytesType, Zenon
  <1>6. InHand(b) = x
    <2>1. PICK d : d = b.done
      OBVIOUS
    <2>2. d = Append(<<>>, n)
      BY <1>1, <2>1, Zenon DEF Completed
    <2>3. d # <<>> /\ Head(d) = n
      BY <2>2
    <2>4. b.tcp_read_buffer = x \o y
      BY <1>4, Zenon DEF Completed
    <2>5. InHand(b) = SubSeq(x \o y, 1, n)
      BY <2>1, <2>3, <2>4, Zenon DEF InHand
    <2>6. SubSeq(x \o y, 1, n) = SubSeq(x, 1, n)
      BY <1>5, SubSeqOfConcat1
    <2>7. SubSeq(x, 1, n) = x
      BY <1>5, SubSeqFull
    <2>8. QED
      BY <2>5, <2>6, <2>7
  <1>7. b.queued = a.queued
    BY DEF Completed
  <1>8. AppBytes(i, 0, e.taken) \o x = AppBytes(i, 0, e.taken + n)
    BY <1>2, <1>4, AppBytesConcat, Zenon
  <1>9. QED
    BY <1>3, <1>6, <1>7, <1>8

LEMMA ReceiveFit ==
    ASSUME NEW i \in Ids, NEW a \in StreamRec(FramesOf(i)), Sound(a), NEW e \in AppRec, Fit(i, a, e),
           a.reads > 0, NEW result \in Int, NEW buf, NEW b, Completed(a, b, result, buf),
           NEW g \in AppRec, g.sent = e.sent, g.eof = e.eof, e.taken <= g.taken,
           First => g.taken <= g.sent,
           First => b.queued \o InHand(b) = AppBytes(i, 0, g.taken),
           First /\ Healthy => result >= 0 /\ (result = 0 => g.eof /\ g.taken = g.sent)
    PROVE  Fit(i, b, g)
  <1>1. ASSUME First PROVE Reader(i, b, g)
    <2>1. Reader(i, a, e)
      BY <1>1 DEF Fit
    <2>2. a.reads = 1 /\ a.done = <<>> /\ ~a.closed /\ a.tcp_ready /\ a.phase = "idle"
      BY <2>1, OnlyRead
    <2>3. b.reads + Len(b.done) <= 1
      <3>1. b.done = Append(<<>>, result) /\ b.reads = 0
        BY <2>2 DEF Completed
      <3>2. Len(b.done) = 1
        BY <3>1
      <3>3. QED
        BY <3>1, <3>2
    <2>4. \E n \in 0..g.taken : b.queued = AppBytes(i, 0, n)
      <3>1. PICK n \in 0..e.taken : a.queued = AppBytes(i, 0, n)
        BY <2>1, Zenon DEF Reader
      <3>2. n \in 0..g.taken
        BY <3>1 DEF AppRec
      <3>3. b.queued = AppBytes(i, 0, n)
        BY <3>1 DEF Completed
      <3>4. QED
        BY <3>2, <3>3
    <2>5. b.tcp_ready /\ b.pending_outbound = <<>> /\ b.phase = "idle"
      BY <2>1, <2>2, Zenon DEF Completed, Reader
    <2>6. QED
      BY <1>1, <2>3, <2>4, <2>5, Zenon DEF Reader
  <1>2. ASSUME First, Healthy PROVE Finished(i, b, g) /\ Drained(b)
    <2>1. Reader(i, a, e) /\ Finished(i, a, e) /\ Drained(a)
      BY <1>2, Zenon DEF Fit
    <2>2. a.reads = 1 /\ a.done = <<>>
      BY <2>1, OnlyRead
    <2>3. ~a.local_fin_sent
      <3>1. a.reads # 0
        BY <2>2
      <3>2. QED
        BY <2>1, <3>1, Zenon DEF Finished
    <2>4. ~b.local_fin_sent
      BY <2>3, Zenon DEF Completed, SameSends
    <2>5. Head(b.done) = result
      <3>1. b.done = Append(<<>>, result)
        BY <2>2 DEF Completed
      <3>2. QED
        BY <3>1
    <2>6. Finished(i, b, g)
      <3>1. Head(b.done) >= 0 /\ (Head(b.done) = 0 => g.eof /\ g.taken = g.sent)
        BY <1>2, <2>5
      <3>2. QED
        BY <2>4, <3>1, Zenon DEF Finished
    <2>7. Drained(b)
      BY <2>1, Zenon DEF Drained, Completed, SameWrites, SameSends
    <2>8. QED
      BY <2>6, <2>7
  <1>3. QED
    BY <1>1, <1>2, Zenon DEF Fit

\* The other applications stay as they are.
OthersStay(s, i) == \A t \in Side, j \in Ids : t # s \/ j # i => app'[t][j] = app[t][j]

LEMMA AppField ==
    ASSUME Types, NEW s \in Side, NEW i \in Ids, NEW g, app' = [app EXCEPT ![s][i] = g]
    PROVE  app'[s][i] = g /\ OthersStay(s, i)
  <1>1. app \in [Side -> [Ids -> AppRec]]
    BY DEF Types, AppRec
  <1>2. QED
    BY <1>1 DEF OthersStay

LEMMA AppStays ==
    ASSUME app' = app, NEW s, NEW i
    PROVE  app'[s][i] = app[s][i] /\ OthersStay(s, i)
  BY Zenon DEF OthersStay

\* A read completes, and nothing else happens to the stream.
LEMMA CompletedTidy ==
    ASSUME NEW i \in Ids, NEW a \in StreamRec(FramesOf(i)), a.out = <<>>, NEW result, NEW buf,
           NEW b, Completed(a, b, result, buf), NEW g, Fit(i, b, g)
    PROVE  /\ Tidy(i, a, b, g) /\ Held(b) = Held(a)
           /\ b.remote_fin_received = a.remote_fin_received
  <1>1. SameWrites(a, b) /\ SameSends(a, b) /\ b.queued = a.queued /\ b.closed = a.closed
    BY DEF Completed
  <1>2. Talks(i, a, b) /\ NoUpd(b.out)
    BY <1>1, FinTalks
  <1>3. Grows(a, b)
    <2>1. b.delivered = a.delivered /\ b.send_shut = a.send_shut
      BY <1>1, Zenon DEF SameWrites
    <2>2. QED
      BY <1>1, <2>1, GrowsSame
  <1>4. Held(b) = Held(a) /\ b.remote_fin_received = a.remote_fin_received
    BY <1>1, Zenon DEF SameWrites, Held
  <1>5. QED
    BY <1>2, <1>3, <1>4, Zenon DEF Tidy

LEMMA ReceivePipes ==
    ASSUME Types, NEW s \in Side, NEW i \in Ids, Receive(s, i),
           Fit(i, stream[s][i], app[s][i]), First /\ Healthy => Calm
    PROVE  /\ \E b : Pipes1(s, i, b, app'[s][i])
           /\ OthersStay(s, i)
  <1>1. PICK a, e, n : /\ a = stream[s][i] /\ e = app[s][i]
                       /\ n = Min({ReadBuf, app[s][i].sent - app[s][i].taken})
    OBVIOUS
  <1>2. /\ a \in StreamRec(FramesOf(i)) /\ Sound(a) /\ a.out = <<>> /\ (~a.created => a = NoStream)
        /\ Fit(i, a, e)
    BY <1>1, StreamHere
  <1>3. e \in AppRec /\ e.sent \in Nat /\ e.taken \in Nat /\ e.eof \in BOOLEAN /\ e.gone \in BOOLEAN
    BY <1>1 DEF Types, AppRec
  <1>4. a.reads > 0
    BY <1>1 DEF Receive
  <1>5. a.created
    BY <1>2, <1>4, NoStreamIdle
  <1>6. PICK buf : buf = a.tcp_read_buffer
    OBVIOUS
  <1>7. buf \in Seq(Item) /\ Len(buf) \in Nat
    <2>1. buf \in Seq(Item)
      BY <1>2, <1>6 DEF StreamRec
    <2>2. QED
      BY <2>1, LenProperties
  <1>8. PICK x, y, data : /\ x = AppBytes(i, e.taken, e.taken + n)
                          /\ y = SubSeq(buf, n + 1, Len(buf)) /\ data = x \o y
    BY Zenon
  <1>9. /\ UNCHANGED <<session, net>>
        /\ \/ /\ n > 0 /\ app' = [app EXCEPT ![s][i].taken = @ + n]
              /\ stream' = [stream EXCEPT ![s][i] =
                    [a EXCEPT !.reads = @ - 1, !.done = Append(@, n), !.tcp_read_buffer = data]]
           \/ /\ app' = app
              /\ \/ e.gone \/ (e.eof /\ n = 0)
                 \/ config.appMayFail
              /\ stream' = [stream EXCEPT ![s][i] =
                    [a EXCEPT !.reads = @ - 1, !.done = Append(@, EndOfStream), !.tcp_read_buffer = buf]]
           \/ /\ app' = app /\ config.appMayFail
              /\ stream' = [stream EXCEPT ![s][i] =
                    [a EXCEPT !.reads = @ - 1, !.done = Append(@, ReadFailed), !.tcp_read_buffer = buf]]
    BY <1>1, <1>6, <1>8, Zenon DEF Receive
  <1>10. PICK k, l : k = ReadBuf /\ l = e.sent - e.taken
    OBVIOUS
  <1>11. k \in Int /\ l \in Int /\ k > 0
    BY <1>3, <1>10, SmuxAssumption
  <1>12. n = IF k <= l THEN k ELSE l
    BY <1>1, <1>10, <1>11, MinMax
  <1>13. n \in Int /\ n <= l
    BY <1>11, <1>12
  <1>14. ASSUME NEW b \in StreamRec(FramesOf(i)), b.out = a.out,
                NEW result, NEW u, Completed(a, b, result, u),
                stream' = [stream EXCEPT ![s][i] = b], NEW g, Fit(i, b, g), app'[s][i] = g
         PROVE  \E c : Pipes1(s, i, c, app'[s][i])
    <2>2. StreamStep(s, i, b)
      <3>1. net' = net /\ b.out = <<>>
        BY <1>2, <1>9, <1>14
      <3>2. QED
        BY <1>14, <3>1, QuietStep, Zenon
    <2>4. /\ Tidy(i, a, b, g) /\ Held(b) = Held(a)
          /\ b.remote_fin_received = a.remote_fin_received
      BY <1>2, <1>14, CompletedTidy
    <2>5. QED
      BY <1>1, <1>5, <1>14, <2>2, <2>4, Zenon DEF Pipes1
  <1>15. CASE /\ n > 0 /\ app' = [app EXCEPT ![s][i].taken = @ + n]
              /\ stream' = [stream EXCEPT ![s][i] =
                    [a EXCEPT !.reads = @ - 1, !.done = Append(@, n), !.tcp_read_buffer = data]]
    <2>1. n \in Nat
      BY <1>13, <1>15
    <2>2. x \in Seq(Item) /\ Len(x) = n
      BY <1>3, <1>8, <2>1, AppBytesType, Zenon
    <2>3. /\ y \in Seq(Item) /\ Len(y) = IF n + 1 <= Len(buf) THEN Len(buf) - (n + 1) + 1 ELSE 0
      <3>1. \A m \in (n + 1)..Len(buf) : buf[m] \in Item
        BY <1>7, <2>1, ElementOfSeq
      <3>2. n + 1 \in Int /\ Len(buf) \in Int
        BY <1>7, <2>1
      <3>3. QED
        BY <1>8, <3>1, <3>2, SubSeqProperties
    <2>4. data \in Seq(Item) /\ Len(data) = Len(x) + Len(y)
      BY <1>8, <2>2, <2>3, ConcatProperties
    <2>5. n <= Len(data) /\ Len(buf) <= Len(data)
      BY <1>7, <2>1, <2>2, <2>3, <2>4
    <2>6. PICK t : t = e.taken + n
      OBVIOUS
    <2>7. t \in Nat /\ t <= e.sent /\ e.taken <= t
      BY <1>3, <1>10, <1>13, <2>1, <2>6
    <2>8. PICK g : g = [e EXCEPT !.taken = t]
      BY Zenon
    <2>9. g \in AppRec /\ g.sent = e.sent /\ g.eof = e.eof /\ g.taken = t
      BY <1>3, <2>7, <2>8 DEF AppRec
    <2>10. app' = [app EXCEPT ![s][i] = g]
      BY <1>1, <1>15, <2>6, <2>8
    <2>11. app'[s][i] = g /\ OthersStay(s, i)
      BY <2>10, AppField, Zenon
    <2>12. PICK b : b = [a EXCEPT !.reads = @ - 1, !.done = Append(@, n), !.tcp_read_buffer = data]
      OBVIOUS
    <2>13. Completed(a, b, n, data)
      BY <1>2, <2>12, CompletedFields, Zenon
    <2>14. First => b.queued \o InHand(b) = AppBytes(i, 0, g.taken)
      <3>1. ASSUME First PROVE b.queued \o InHand(b) = AppBytes(i, 0, e.taken + n)
        <4>1. Reader(i, a, e)
          BY <1>2, <3>1 DEF Fit
        <4>2. Completed(a, b, n, AppBytes(i, e.taken, e.taken + n) \o y)
          BY <1>8, <2>13
        <4>3. n > 0 /\ y \in Seq(Item)
          BY <1>15, <2>3
        <4>4. QED
          BY <1>2, <1>3, <1>4, <2>1, <4>1, <4>2, <4>3, CompletedBytes, Zenon
      <3>2. QED
        BY <2>6, <2>9, <3>1
    <2>15. Fit(i, b, g)
      <3>1. e.taken <= g.taken /\ g.taken <= g.sent
        BY <2>7, <2>9
      <3>2. n >= 0 /\ n # 0
        BY <1>15, <2>1
      <3>3. QED
        BY <1>2, <1>3, <1>4, <1>13, <2>9, <2>13, <2>14, <3>1, <3>2, ReceiveFit, Zenon
    <2>16. stream' = [stream EXCEPT ![s][i] = b]
      BY <1>15, <2>12
    <2>17. b \in StreamRec(FramesOf(i)) /\ Sound(b) /\ Moves(i, a, b) /\ b.out = a.out
      <3>1. a \in StreamRec(FramesOf(i)) /\ Sound(a) /\ a.out = <<>> /\ (~a.created => a = NoStream)
        BY <1>2
      <3>2. n \in Int
        BY <1>13
      <3>3. QED
        BY <1>4, <1>5, <1>6, <2>4, <2>5, <2>12, <3>1, <3>2, CompleteKeeps, Zenon
    <2>18. QED
      BY <1>14, <2>11, <2>13, <2>15, <2>16, <2>17, Zenon
  <1>16. ASSUME NEW result \in {EndOfStream, ReadFailed}, app' = app,
                \/ result = EndOfStream /\ (e.gone \/ (e.eof /\ n = 0))
                \/ config.appMayFail,
                stream' = [stream EXCEPT ![s][i] =
                   [a EXCEPT !.reads = @ - 1, !.done = Append(@, result), !.tcp_read_buffer = buf]]
         PROVE  (\E c : Pipes1(s, i, c, app'[s][i])) /\ OthersStay(s, i)
    <2>1. result \in Int /\ result <= Len(buf) /\ result <= 0
      BY <1>7, <1>16 DEF EndOfStream, ReadFailed
    <2>2. app'[s][i] = e /\ OthersStay(s, i)
      BY <1>1, <1>16, AppStays
    <2>3. PICK b : b = [a EXCEPT !.reads = @ - 1, !.done = Append(@, result), !.tcp_read_buffer = buf]
      OBVIOUS
    <2>4. Completed(a, b, result, buf)
      BY <1>2, <2>3, CompletedFields, Zenon
    <2>5. First => b.queued \o InHand(b) = AppBytes(i, 0, e.taken) /\ e.taken <= e.sent
      <3>1. SUFFICES ASSUME First PROVE b.queued \o InHand(b) = AppBytes(i, 0, e.taken) /\ e.taken <= e.sent
        OBVIOUS
      <3>2. Reader(i, a, e)
        BY <1>2, <3>1 DEF Fit
      <3>3. a.done = <<>> /\ ~a.closed /\ InHand(a) = <<>>
        BY <1>2, <1>4, <3>2, OnlyRead
      <3>4. a.queued \o InHand(a) = AppBytes(i, 0, e.taken) /\ e.taken <= e.sent
        BY <3>2, <3>3, Zenon DEF Reader
      <3>5. InHand(b) = <<>>
        <4>1. b.done = Append(<<>>, result)
          BY <2>4, <3>3 DEF Completed
        <4>2. ~(Head(b.done) > 0)
          BY <2>1, <4>1
        <4>3. QED
          BY <4>2, Zenon DEF InHand
      <3>6. b.queued = a.queued
        BY <2>4 DEF Completed
      <3>7. QED
        BY <3>3, <3>4, <3>5, <3>6
    <2>6. First /\ Healthy => result >= 0 /\ (result = 0 => e.eof /\ e.taken = e.sent)
      <3>1. SUFFICES ASSUME First, Healthy
                     PROVE  result >= 0 /\ (result = 0 => e.eof /\ e.taken = e.sent)
        OBVIOUS
      <3>2. ~config.appMayFail
        BY <3>1, Zenon DEF Healthy
      <3>3. ~e.gone
        BY <1>1, <3>1, Zenon DEF Calm
      <3>4. result = EndOfStream /\ e.eof /\ n = 0
        BY <1>16, <3>2, <3>3
      <3>5. e.taken <= e.sent
        BY <2>5, <3>1
      <3>6. l = 0
        BY <1>11, <1>12, <3>4
      <3>7. e.taken = e.sent
        BY <1>3, <1>10, <3>6
      <3>8. QED
        BY <3>4, <3>7 DEF EndOfStream
    <2>7. Fit(i, b, e)
      <3>1. e.taken <= e.taken
        BY <1>3
      <3>2. QED
        BY <1>2, <1>3, <1>4, <2>1, <2>4, <2>5, <2>6, <3>1, ReceiveFit
    <2>8. stream' = [stream EXCEPT ![s][i] = b]
      BY <1>16, <2>3
    <2>9. Len(buf) <= Len(buf)
      BY <1>7
    <2>10. b \in StreamRec(FramesOf(i)) /\ Sound(b) /\ Moves(i, a, b) /\ b.out = a.out
      <3>1. Len(a.tcp_read_buffer) <= Len(buf)
        BY <1>6, <2>9
      <3>2. a \in StreamRec(FramesOf(i)) /\ Sound(a) /\ a.out = <<>> /\ (~a.created => a = NoStream)
        BY <1>2
      <3>3. QED
        BY <1>4, <1>5, <1>7, <2>1, <2>3, <3>1, <3>2, CompleteKeeps, Zenon
    <2>11. QED
      BY <1>14, <2>2, <2>4, <2>7, <2>8, <2>10, Zenon
  <1>17. QED
    <2>1. (EndOfStream \in {EndOfStream, ReadFailed}) /\ (ReadFailed \in {EndOfStream, ReadFailed})
      OBVIOUS
    <2>2. QED
      BY <1>9, <1>15, <1>16, <1>17, <2>1

\* An application that goes on: it sends more only before it has ended.
LEMMA FitApp ==
    ASSUME NEW i, NEW r, NEW e \in AppRec, NEW g \in AppRec, Fit(i, r, e), g.taken = e.taken,
           e.sent <= g.sent, e.eof => g.eof /\ g.sent = e.sent
    PROVE  Fit(i, r, g)
  <1>1. ASSUME Reader(i, r, e) PROVE Reader(i, r, g)
    <2>1. g.taken <= g.sent
      <3>1. e.taken <= e.sent
        BY <1>1 DEF Reader
      <3>2. QED
        BY <3>1 DEF AppRec
    <2>2. QED
      BY <1>1, <2>1, Zenon DEF Reader
  <1>2. ASSUME Finished(i, r, e) PROVE Finished(i, r, g)
    BY <1>2, Zenon DEF Finished
  <1>3. QED
    BY <1>1, <1>2, Zenon DEF Fit

\* A stream that has just been created, apart from its phase, its read and what it sends.
Blank(b) ==
    /\ b.created /\ ~b.closed /\ ~b.close_timer /\ ~b.tcp_write_active
    /\ ~b.local_fin_sent /\ ~b.remote_fin_received /\ ~b.send_shut
    /\ b.queued = <<>> /\ b.delivered = <<>> /\ b.done = <<>>
    /\ b.pending_outbound = <<>> /\ b.pending_tcp_writes = <<>>

LEMMA NewStreamBlank ==
    ASSUME NEW phase
    PROVE  /\ Blank(NewStream(phase)) /\ NewStream(phase).phase = phase
           /\ NewStream(phase).reads = 0 /\ ~NewStream(phase).tcp_ready
           /\ NewStream(phase).out = <<>>
  <1>1. PICK b : b = NewStream(phase)
    OBVIOUS
  <1>2. b = [created |-> TRUE, phase |-> phase, tcp_ready |-> FALSE,
             tcp_write_active |-> FALSE, local_fin_sent |-> FALSE,
             remote_fin_received |-> FALSE, closed |-> FALSE, close_timer |-> FALSE,
             reads |-> 0, done |-> <<>>, tcp_read_buffer |-> <<>>,
             pending_outbound |-> <<>>, pending_tcp_writes |-> <<>>,
             num_read |-> 0, num_written |-> 0, incr |-> 0,
             peer_consumed |-> 0, peer_window |-> InitWindow,
             send_shut |-> FALSE, queued |-> <<>>, delivered |-> <<>>, out |-> <<>>]
    BY <1>1, Zenon DEF NewStream, NoStream
  <1>3. Blank(b) /\ b.phase = phase /\ b.reads = 0 /\ ~b.tcp_ready /\ b.out = <<>>
    BY <1>2 DEF Blank
  <1>4. QED
    BY <1>1, <1>3

LEMMA NoStreamFields ==
    /\ ~NoStream.local_fin_sent /\ ~NoStream.send_shut /\ ~NoStream.closed
    /\ NoStream.queued = <<>> /\ NoStream.delivered = <<>> /\ NoStream.done = <<>>
    /\ ~NoStream.remote_fin_received
  BY DEF NoStream

LEMMA BlankTidy ==
    ASSUME NEW i \in Ids, NEW e \in AppRec, Fit(i, NoStream, e),
           NEW b \in StreamRec(Frame), Blank(b), PayloadOf(b.out, i) = <<>>,
           \A k \in 1..Len(b.out) : b.out[k].cmd = "syn",
           b.reads = 0 \/ (b.reads = 1 /\ b.tcp_ready),
           b.phase # "idle" => ~b.tcp_ready
    PROVE  Tidy(i, NoStream, b, e)
  <1>1. Grows(NoStream, b)
    <2>1. b.delivered = NoStream.delivered
      BY NoStreamFields, Zenon DEF Blank
    <2>2. NoStream \in StreamRec(Frame)
      BY NoStreamType
    <2>3. QED
      BY <2>1, <2>2, GrowsSame, NoStreamFields
  <1>2. NoUpd(b.out) /\ \A k \in 1..Len(b.out) : b.out[k].cmd # "fin"
    BY DEF NoUpd
  <1>3. Talks(i, NoStream, b)
    <2>1. b.queued = NoStream.queued \o PayloadOf(b.out, i)
      <3>1. <<>> \in Seq(Item) /\ <<>> \o <<>> = <<>>
        BY EmptySeq, ConcatEmptySeq
      <3>2. QED
        BY <3>1, NoStreamFields, Zenon DEF Blank
    <2>2. b.local_fin_sent = NoStream.local_fin_sent
      <3>1. b.local_fin_sent \in BOOLEAN /\ NoStream.local_fin_sent \in BOOLEAN
        BY NoStreamType DEF StreamRec
      <3>2. QED
        BY <3>1, NoStreamFields DEF Blank
    <2>3. QED
      BY <1>2, <2>1, <2>2, NoStreamFields, Zenon DEF Talks
  <1>4. ASSUME First PROVE Reader(i, b, e)
    <2>1. Reader(i, NoStream, e)
      BY <1>4 DEF Fit
    <2>2. InHand(NoStream) = <<>> /\ InHand(b) = <<>>
      BY NoStreamFields, Zenon DEF InHand, Blank
    <2>3. NoStream.queued \o InHand(NoStream) = AppBytes(i, 0, e.taken)
      BY <2>1, NoStreamFields, Zenon DEF Reader
    <2>4. b.reads + Len(b.done) <= 1
      <3>1. Len(b.done) = 0
        BY DEF Blank
      <3>2. \A n, l : (n = 0 \/ n = 1) /\ l = 0 => n + l <= 1
        OBVIOUS
      <3>3. QED
        BY <3>1, <3>2, Zenon
    <2>5. ~b.tcp_ready => b.reads = 0 /\ b.done = <<>>
      BY Zenon DEF Blank
    <2>6. QED
      BY <2>1, <2>2, <2>3, <2>4, <2>5, NoStreamFields, Zenon DEF Reader, Blank
  <1>5. Finished(i, b, e) /\ Drained(b)
    BY Zenon DEF Finished, Drained, Blank
  <1>6. QED
    BY <1>1, <1>2, <1>3, <1>4, <1>5, Zenon DEF Tidy, Fit

\* start_client, of a stream that has just been created.
LEMMA StartClientBlank ==
    ASSUME NEW i \in Ids, NEW gone, NEW b,
           b = StartClient(SendFrame(NewStream("idle"), Syn(i)), gone)
    PROVE  Blank(b) /\ b.tcp_ready /\ b.phase = "idle" /\ (b.reads = 0 \/ b.reads = 1)
  <1>1. PICK n, m, r, w, g : /\ n = NewStream("idle") /\ m = SendFrame(n, Syn(i))
                             /\ r = [m EXCEPT !.tcp_ready = TRUE]
                             /\ w = FlushTcpWrites(r) /\ g = StartTcpRead(w)
    BY Zenon
  <1>2. n \in StreamRec(Frame) /\ Blank(n) /\ n.phase = "idle" /\ n.reads = 0 /\ n.out = <<>>
    BY <1>1, NewStreamFresh, NewStreamBlank
  <1>3. PICK o : o = Append(n.out, Syn(i))
    BY Zenon
  <1>4. o \in Seq(Frame)
    <2>1. Syn(i) \in Frame
      BY DEF Syn, Frame
    <2>2. n.out \in Seq(Frame)
      BY <1>2 DEF StreamRec
    <2>3. QED
      BY <1>3, <2>1, <2>2, AppendProperties
  <1>5. m = [n EXCEPT !.out = o]
    BY <1>1, <1>3 DEF SendFrame
  <1>6. m \in StreamRec(Frame)
    BY <1>2, <1>4, <1>5, ZenonT(40) DEF StreamRec
  <1>7. Blank(m) /\ m.phase = "idle" /\ m.reads = 0
    BY <1>2, <1>5, Zenon DEF StreamRec, Blank
  <1>8. r \in StreamRec(Frame)
    <2>1. r = [m EXCEPT !.tcp_ready = TRUE]
      BY <1>1
    <2>2. QED
      BY <1>6, <2>1, Zenon DEF StreamRec
  <1>9. Blank(r) /\ r.phase = "idle" /\ r.reads = 0 /\ r.tcp_ready
    <2>1. r = [m EXCEPT !.tcp_ready = TRUE]
      BY <1>1
    <2>2. QED
      BY <1>6, <1>7, <2>1, Zenon DEF StreamRec, Blank
  <1>10. w = r
    BY <1>1, <1>9, Zenon DEF FlushTcpWrites, Blank
  <1>11. /\ SameWrites(w, g) /\ SameSends(w, g) /\ g.created = w.created
         /\ g.closed = w.closed /\ g.close_timer = w.close_timer
         /\ g.tcp_ready = w.tcp_ready /\ g.phase = w.phase /\ g.done = w.done
         /\ g.queued = w.queued /\ g.pending_outbound = w.pending_outbound
         /\ g.reads = w.reads \/ g.reads = w.reads + 1
    <2>1. g = StartTcpRead(w) /\ w \in StreamRec(Frame)
      BY <1>1, <1>8, <1>10, Zenon
    <2>2. QED
      BY <2>1, ReadStarted
  <1>12. Blank(g) /\ g.tcp_ready /\ g.phase = "idle"
    BY <1>9, <1>10, <1>11, Zenon DEF Blank, SameWrites, SameSends
  <1>13. g.reads = 0 \/ g.reads = 1
    BY <1>9, <1>10, <1>11
  <1>14. b = r \/ b = g
    BY <1>1, Zenon DEF StartClient
  <1>15. QED
    BY <1>9, <1>12, <1>13, <1>14

\* A frame f for a stream r, and what the session knows of the two.
Arrives(f, r, e) ==
    /\ f \in Frame /\ r \in StreamRec(FramesOf(f.id)) /\ r.out = <<>> /\ Sound(r) /\ e \in AppRec
    /\ Fit(f.id, r, e)
    /\ First => f.cmd # "upd"
    /\ First /\ Healthy /\ f.cmd = "psh" => ~r.remote_fin_received

\* The stream has taken the frame, and is now b.
Took(f, r, b, e) ==
    /\ b \in StreamRec(FramesOf(f.id)) /\ Tidy(f.id, r, b, e)
    /\ First /\ Healthy =>
          /\ Held(b) = Held(r) \o Data(f, f.id)
          /\ b.remote_fin_received => r.remote_fin_received \/ f.cmd = "fin"

LEMMA HeldStays ==
    ASSUME NEW f \in Frame, f.cmd # "psh", NEW F, NEW r \in StreamRec(F)
    PROVE  Held(r) \o Data(f, f.id) = Held(r)
  <1>1. Data(f, f.id) = <<>>
    BY Zenon DEF Data
  <1>2. Held(r) \in Seq(Item)
    BY HeldType
  <1>3. QED
    BY <1>1, <1>2, ConcatEmptySeq

LEMMA TookSyn ==
    ASSUME NEW f, NEW e, Arrives(f, NoStream, e), f.cmd = "syn", NEW phase \in {"resolve", "connect"}
    PROVE  Took(f, NoStream, NewStream(phase), e)
  <1>1. PICK b : b = NewStream(phase)
    OBVIOUS
  <1>2. f \in Frame /\ e \in AppRec /\ Fit(f.id, NoStream, e)
    BY DEF Arrives
  <1>3. f.id \in Ids
    BY <1>2 DEF Frame
  <1>4. /\ b \in StreamRec(FramesOf(f.id)) /\ b \in StreamRec(Frame) /\ b.out = <<>>
        /\ Blank(b) /\ b.phase = phase /\ b.reads = 0 /\ ~b.tcp_ready
    BY <1>1, NewStreamFresh, NewStreamBlank
  <1>5. PayloadOf(b.out, f.id) = <<>> /\ \A k \in 1..Len(b.out) : b.out[k].cmd = "syn"
    BY <1>4, PayloadEmpty
  <1>6. Tidy(f.id, NoStream, b, e)
    BY <1>2, <1>3, <1>4, <1>5, BlankTidy
  <1>7. Held(b) = Held(NoStream) \o Data(f, f.id)
    <2>1. Held(b) = Held(NoStream)
      BY <1>1, NewStreamFresh, FreshStep
    <2>2. Held(NoStream) \o Data(f, f.id) = Held(NoStream)
      BY <1>2, NoStreamType, HeldStays
    <2>3. QED
      BY <2>1, <2>2
  <1>8. ~b.remote_fin_received
    BY <1>4 DEF Blank
  <1>9. QED
    BY <1>1, <1>4, <1>6, <1>7, <1>8, Zenon DEF Took

\* The session knows the stream no longer.
LEMMA TookNot ==
    ASSUME NEW f, NEW r, NEW e, Arrives(f, r, e), r.closed
    PROVE  Took(f, r, r, e)
  <1>1. /\ f \in Frame /\ r \in StreamRec(FramesOf(f.id)) /\ r.out = <<>>
        /\ Fit(f.id, r, e)
    BY DEF Arrives
  <1>2. f.id \in Ids
    BY <1>1 DEF Frame
  <1>3. Smooth(r, r)
    BY Zenon DEF Smooth, SameReads, SameSends
  <1>4. Tidy(f.id, r, r, e)
    BY <1>1, <1>2, <1>3, SmoothTidy
  <1>5. ASSUME First, Healthy PROVE Held(r) = Held(r) \o Data(f, f.id)
    <2>1. r.remote_fin_received
      BY <1>1, <1>5, Zenon DEF Fit, Drained
    <2>2. f.cmd # "psh"
      BY <1>5, <2>1, Zenon DEF Arrives
    <2>3. QED
      BY <1>1, <2>2, HeldStays
  <1>6. QED
    BY <1>1, <1>4, <1>5, Zenon DEF Took

LEMMA TookFin ==
    ASSUME NEW f, NEW r, NEW e, Arrives(f, r, e), f.cmd = "fin"
    PROVE  Took(f, r, OnFin(r), e)
  <1>1. PICK b : b = OnFin(r)
    OBVIOUS
  <1>2. /\ f \in Frame /\ r \in StreamRec(FramesOf(f.id)) /\ r.out = <<>> /\ Sound(r)
        /\ Fit(f.id, r, e)
    BY DEF Arrives
  <1>3. f.id \in Ids
    BY <1>2 DEF Frame
  <1>4. /\ SameReads(r, b) /\ SameSends(r, b) /\ b.closed = r.closed
        /\ b.pending_tcp_writes = r.pending_tcp_writes /\ b.delivered = r.delivered
        /\ r.send_shut => b.send_shut
        /\ Drained(r) => Drained(b)
    BY <1>1, <1>2, FinTaken
  <1>5. b \in StreamRec(FramesOf(f.id))
    BY <1>1, <1>2, OnFinKeeps
  <1>6. Talks(f.id, r, b) /\ NoUpd(b.out)
    <2>1. b.queued = r.queued
      BY <1>4, Zenon DEF SameReads
    <2>2. QED
      BY <1>2, <1>3, <1>4, <2>1, FinTalks
  <1>7. Grows(r, b)
    BY <1>2, <1>4, GrowsSame
  <1>8. Fit(f.id, b, e)
    <2>1. ASSUME Reader(f.id, r, e) PROVE Reader(f.id, b, e)
      BY <1>4, <2>1, ReaderSame
    <2>2. ASSUME Finished(f.id, r, e) PROVE Finished(f.id, b, e)
      <3>1. b.local_fin_sent = r.local_fin_sent
        BY <1>4 DEF SameSends
      <3>2. QED
        BY <1>4, <2>2, <3>1, FinishedSame
    <2>3. QED
      BY <1>2, <1>4, <2>1, <2>2, Zenon DEF Fit
  <1>9. Held(b) = Held(r) \o Data(f, f.id)
    <2>1. Held(b) = Held(r)
      BY <1>4, Zenon DEF Held
    <2>2. Held(r) \o Data(f, f.id) = Held(r)
      BY <1>2, HeldStays
    <2>3. QED
      BY <2>1, <2>2
  <1>10. QED
    BY <1>1, <1>5, <1>6, <1>7, <1>8, <1>9, Zenon DEF Took, Tidy

LEMMA TookData ==
    ASSUME NEW f, NEW r, NEW e, Arrives(f, r, e), f.cmd = "psh", r.created, ~r.closed
    PROVE  Took(f, r, OnData(f.id, r, f.data), e)
  <1>1. PICK b : b = OnData(f.id, r, f.data)
    OBVIOUS
  <1>2. /\ f \in Frame /\ r \in StreamRec(FramesOf(f.id)) /\ r.out = <<>> /\ Sound(r)
        /\ Fit(f.id, r, e)
    BY DEF Arrives
  <1>3. f.id \in Ids
    BY <1>2 DEF Frame
  <1>4. f.data \in Seq(Item)
    BY <1>2 DEF Frame
  <1>5. /\ SameReads(r, b) /\ SameSends(r, b) /\ b.created = r.created
        /\ b.closed = r.closed /\ b.close_timer = r.close_timer
        /\ b.remote_fin_received = r.remote_fin_received /\ b.send_shut = r.send_shut
        /\ b.delivered = r.delivered
    <2>1. PICK i, d, F : i = f.id /\ d = f.data /\ F = FramesOf(f.id)
      OBVIOUS
    <2>2. b = OnData(i, r, d) /\ r \in StreamRec(F) /\ d \in Seq(Item)
      BY <1>1, <1>2, <1>4, <2>1
    <2>3. SameReads(r, b) /\ SameSends(r, b) /\ b.created = r.created
      BY <2>2, DataTaken, Zenon
    <2>4. b.closed = r.closed /\ b.close_timer = r.close_timer /\ b.send_shut = r.send_shut
      BY <2>2, DataTaken
    <2>5. b.remote_fin_received = r.remote_fin_received /\ b.delivered = r.delivered
      BY <2>2, DataTaken
    <2>6. QED
      BY <2>3, <2>4, <2>5
  <1>6. b \in StreamRec(FramesOf(f.id)) /\ Held(b) = Held(r) \o Data(f, f.id)
    <2>1. Answers(f, r, OnData(f.id, r, f.data))
      BY <1>2, AnswersData
    <2>2. QED
      BY <1>1, <1>5, <2>1, Zenon DEF Answers
  <1>7. Talks(f.id, r, b) /\ NoUpd(b.out)
    <2>1. b.queued = r.queued
      BY <1>5, Zenon DEF SameReads
    <2>2. QED
      BY <1>2, <1>3, <1>5, <2>1, FinTalks
  <1>8. Grows(r, b)
    BY <1>2, <1>5, GrowsSame
  <1>9. ASSUME Reader(f.id, r, e) PROVE Reader(f.id, b, e)
    BY <1>5, <1>9, ReaderSame
  <1>10. ASSUME First, Healthy PROVE Finished(f.id, b, e) /\ Drained(b)
    <2>1. Finished(f.id, r, e) /\ Drained(r) /\ ~r.remote_fin_received
      BY <1>2, <1>10, Zenon DEF Fit, Arrives
    <2>2. Finished(f.id, b, e)
      <3>1. b.local_fin_sent = r.local_fin_sent
        BY <1>5 DEF SameSends
      <3>2. QED
        BY <1>5, <2>1, <3>1, FinishedSame
    <2>3. ~r.send_shut /\ ~r.close_timer /\ ~r.closed
      BY <2>1, Zenon DEF Drained
    <2>4. Drained(b)
      BY <1>5, <2>3, Zenon DEF Drained
    <2>5. QED
      BY <2>2, <2>4
  <1>11. Fit(f.id, b, e)
    BY <1>2, <1>9, <1>10, Zenon DEF Fit
  <1>12. QED
    BY <1>1, <1>5, <1>6, <1>7, <1>8, <1>11, Zenon DEF Took, Tidy

LEMMA TookUpd ==
    ASSUME NEW s, NEW f, NEW r, NEW e, Arrives(f, r, e), f.cmd = "upd"
    PROVE  Took(f, r, OnUpdate(s, f.id, r, f.consumed, f.window), e)
  <1>1. PICK b, c, p : /\ b = OnUpdate(s, f.id, r, f.consumed, f.window)
                       /\ c = [r EXCEPT !.peer_consumed = f.consumed, !.peer_window = f.window]
                       /\ p = TryFlushOutbound(s, f.id, c)
    OBVIOUS
  <1>2. f \in Frame /\ r \in StreamRec(FramesOf(f.id)) /\ Sound(r)
    BY DEF Arrives
  <1>3. f.id \in Ids /\ f.consumed \in Counter /\ f.window \in Counter
    BY <1>2 DEF Frame
  <1>4. b \in StreamRec(FramesOf(f.id))
    BY <1>1, <1>2, <1>3, OnUpdateKeeps
  <1>5. c \in StreamRec(FramesOf(f.id))
    <2>1. c = [r EXCEPT !.peer_consumed = f.consumed, !.peer_window = f.window]
      BY <1>1
    <2>2. QED
      BY <1>2, <1>3, <2>1, ZenonT(40) DEF StreamRec
  <1>6. c.delivered = r.delivered /\ c.send_shut = r.send_shut /\ c.closed = r.closed
    <2>1. c = [r EXCEPT !.peer_consumed = f.consumed, !.peer_window = f.window]
      BY <1>1
    <2>2. QED
      BY <1>2, <2>1, Zenon DEF StreamRec
  <1>7. p.delivered = c.delivered /\ p.send_shut = c.send_shut /\ p.closed = c.closed
    <2>1. SameWrites(c, p) /\ p.closed = c.closed
      <3>1. PICK i, F : i = f.id /\ F = FramesOf(f.id)
        OBVIOUS
      <3>2. p = TryFlushOutbound(s, i, c) /\ c \in StreamRec(F)
        BY <1>1, <1>5, <3>1
      <3>3. QED
        BY <3>2, FlushedSame
    <2>2. QED
      BY <2>1, Zenon DEF SameWrites
  <1>8. b = p \/ b = [p EXCEPT !.reads = @ + 1]
    BY <1>1, Zenon DEF OnUpdate, StartTcpRead
  <1>9. b.delivered = r.delivered /\ b.send_shut = r.send_shut /\ b.closed = r.closed
    <2>1. Sound(c)
      <3>1. /\ c.tcp_write_active = r.tcp_write_active /\ c.pending_tcp_writes = r.pending_tcp_writes
            /\ c.done = r.done /\ c.tcp_read_buffer = r.tcp_read_buffer
            /\ c.pending_outbound = r.pending_outbound /\ c.reads = r.reads
        <4>1. c = [r EXCEPT !.peer_consumed = f.consumed, !.peer_window = f.window]
          BY <1>1
        <4>2. QED
          BY <1>2, <4>1, Zenon DEF StreamRec
      <3>2. QED
        BY <1>2, <1>6, <3>1, Zenon DEF Sound
    <2>2. p \in StreamRec(FramesOf(f.id))
      BY <1>1, <1>3, <1>5, <2>1, TryFlushKeeps
    <2>3. CASE b = p
      BY <1>6, <1>7, <2>3
    <2>4. CASE b = [p EXCEPT !.reads = @ + 1]
      BY <1>6, <1>7, <2>2, <2>4, Zenon DEF StreamRec
    <2>5. QED
      BY <1>8, <2>3, <2>4
  <1>10. Grows(r, b)
    BY <1>2, <1>9, GrowsSame
  <1>11. ~First
    BY Zenon DEF Arrives
  <1>12. QED
    BY <1>1, <1>4, <1>10, <1>11, Zenon DEF Took, Tidy, Fit

\* Handing the frames over changes nothing else of a stream.
LEMMA ClearedSame ==
    ASSUME NEW F, NEW b \in StreamRec(F)
    PROVE  /\ SameReads(b, Cleared(b)) /\ SameWrites(b, Cleared(b))
           /\ Cleared(b).local_fin_sent = b.local_fin_sent /\ Cleared(b).closed = b.closed
           /\ Cleared(b).close_timer = b.close_timer
  BY Zenon DEF StreamRec, Cleared, SameReads, SameWrites

LEMMA ClearedFit ==
    ASSUME NEW i, NEW F, NEW b \in StreamRec(F), NEW e, Fit(i, b, e)
    PROVE  Fit(i, Cleared(b), e)
  <1>1. PICK c : c = Cleared(b)
    OBVIOUS
  <1>2. /\ SameReads(b, c) /\ SameWrites(b, c) /\ c.local_fin_sent = b.local_fin_sent
        /\ c.closed = b.closed /\ c.close_timer = b.close_timer
    BY <1>1, ClearedSame
  <1>3. ASSUME Reader(i, b, e) PROVE Reader(i, c, e)
    BY <1>2, <1>3, ReaderSame
  <1>4. ASSUME Finished(i, b, e) PROVE Finished(i, c, e)
    BY <1>2, <1>4, FinishedSame
  <1>5. ASSUME Drained(b) PROVE Drained(c)
    BY <1>2, <1>5, Zenon DEF Drained, SameWrites
  <1>6. QED
    BY <1>1, <1>3, <1>4, <1>5, Zenon DEF Fit

LEMMA ClearedGrows ==
    ASSUME NEW F, NEW a, NEW b \in StreamRec(F), Grows(a, b)
    PROVE  Grows(a, Cleared(b))
  <1>1. PICK c : c = Cleared(b)
    OBVIOUS
  <1>2. c.delivered = b.delivered /\ c.send_shut = b.send_shut /\ c.closed = b.closed
    BY <1>1, ClearedSame, Zenon DEF SameWrites
  <1>3. QED
    BY <1>1, <1>2, Zenon DEF Grows

-----------------------------------------------------------------------------
(* The two ends of a pipe: to reads what from writes, and q is on the wire.  *)

IsFin(f, i) == f.cmd = "fin" /\ f.id = i
IsPsh(f, i) == f.cmd = "psh" /\ f.id = i

\* All that was queued is delivered, held or on the wire, with FIN after it.
Paired(i, to, from, q) ==
    /\ from.queued = Held(to) \o PayloadOf(q, i)
    /\ to.remote_fin_received => from.local_fin_sent
    /\ \A k \in 1..Len(q) : IsFin(q[k], i) => from.local_fin_sent
    /\ \A k \in 1..Len(q) : IsPsh(q[k], i) =>
          ~to.remote_fin_received /\ \A m \in 1..Len(q) : m < k => ~IsFin(q[m], i)

LEMMA NoUpdConcat ==
    ASSUME NEW q \in Seq(Frame), NEW o \in Seq(Frame), NoUpd(q), NoUpd(o)
    PROVE  NoUpd(q \o o)
  <1>1. PICK p : p = q \o o
    BY Zenon
  <1>2. /\ Len(p) = Len(q) + Len(o) /\ Len(q) \in Nat /\ Len(o) \in Nat
        /\ \A k \in 1..Len(p) : p[k] = IF k <= Len(q) THEN q[k] ELSE o[k - Len(q)]
    BY <1>1, ConcatProperties, LenProperties
  <1>3. SUFFICES ASSUME NEW k \in 1..Len(p) PROVE p[k].cmd # "upd"
    BY <1>1 DEF NoUpd
  <1>4. CASE k <= Len(q)
    <2>1. k \in 1..Len(q) /\ p[k] = q[k]
      BY <1>2, <1>4
    <2>2. QED
      BY <2>1 DEF NoUpd
  <1>5. CASE ~(k <= Len(q))
    <2>1. k - Len(q) \in 1..Len(o) /\ p[k] = o[k - Len(q)]
      BY <1>2, <1>5
    <2>2. QED
      BY <2>1 DEF NoUpd
  <1>6. QED
    BY <1>4, <1>5

\* The reading end looks the same to its peer.
LEMMA PairedReader ==
    ASSUME NEW i, NEW to, NEW to2, NEW from, NEW q, Paired(i, to, from, q),
           Held(to2) = Held(to), to2.remote_fin_received = to.remote_fin_received
    PROVE  Paired(i, to2, from, q)
  BY Zenon DEF Paired

LEMMA PairedWriter ==
    ASSUME NEW i, NEW to, NEW from, NEW from2, NEW q, Paired(i, to, from, q),
           from2.queued = from.queued, from2.local_fin_sent = from.local_fin_sent
    PROVE  Paired(i, to, from2, q)
  BY Zenon DEF Paired

\* Frames are appended to the wire: any of stream i by b, which was a.
LEMMA PairedMore ==
    ASSUME NEW i, NEW to \in StreamRec(Frame), NEW a \in StreamRec(Frame), NEW b \in StreamRec(Frame),
           NEW q \in Seq(Frame), NEW o \in Seq(Frame),
           Paired(i, to, a, q), b.queued = a.queued \o PayloadOf(o, i),
           a.local_fin_sent => b.local_fin_sent,
           \A k \in 1..Len(o) : IsFin(o[k], i) => b.local_fin_sent,
           \A k \in 1..Len(o) : IsPsh(o[k], i) =>
               ~a.local_fin_sent /\ \A m \in 1..Len(o) : ~IsFin(o[m], i)
    PROVE  Paired(i, to, b, q \o o)
  <1>1. PICK p : p = q \o o
    BY Zenon
  <1>2. p \in Seq(Frame) /\ Len(q) \in Nat /\ Len(o) \in Nat
    BY <1>1, ConcatProperties, LenProperties
  <1>3. Len(p) = Len(q) + Len(o)
    BY <1>1, ConcatProperties
  <1>4. \A k \in 1..Len(p) : p[k] = IF k <= Len(q) THEN q[k] ELSE o[k - Len(q)]
    BY <1>1, ConcatProperties
  <1>5. ASSUME NEW k \in 1..Len(p)
        PROVE  (k \in 1..Len(q) /\ p[k] = q[k]) \/ \E l \in 1..Len(o) : k = Len(q) + l /\ p[k] = o[l]
    <2>1. CASE k <= Len(q)
      BY <1>2, <1>4, <2>1
    <2>2. CASE ~(k <= Len(q))
      <3>1. PICK l : l = k - Len(q)
        OBVIOUS
      <3>2. l \in 1..Len(o) /\ k = Len(q) + l /\ p[k] = o[l]
        BY <1>2, <1>3, <1>4, <2>2, <3>1
      <3>3. QED
        BY <3>2
    <2>3. QED
      BY <2>1, <2>2
  <1>6. b.queued = Held(to) \o PayloadOf(p, i)
    <2>1. PICK x, y, z : x = Held(to) /\ y = PayloadOf(q, i) /\ z = PayloadOf(o, i)
      OBVIOUS
    <2>2. x \in Seq(Item) /\ y \in Seq(Item) /\ z \in Seq(Item)
      BY <2>1, HeldType, PayloadType
    <2>3. PayloadOf(p, i) = y \o z
      BY <1>1, <2>1, PayloadConcat, Zenon
    <2>4. a.queued = x \o y
      BY <2>1, Zenon DEF Paired
    <2>5. (x \o y) \o z = x \o (y \o z)
      BY <2>2, ItemsAssociate DEF Associates
    <2>6. QED
      BY <2>1, <2>3, <2>4, <2>5
  <1>7. to.remote_fin_received => b.local_fin_sent
    BY Zenon DEF Paired
  <1>8. ASSUME NEW k \in 1..Len(p), IsFin(p[k], i) PROVE b.local_fin_sent
    <2>1. CASE k \in 1..Len(q) /\ p[k] = q[k]
      BY <1>8, <2>1, Zenon DEF Paired
    <2>2. CASE \E l \in 1..Len(o) : k = Len(q) + l /\ p[k] = o[l]
      BY <1>8, <2>2, Zenon
    <2>3. QED
      BY <1>5, <2>1, <2>2
  <1>9. ASSUME NEW k \in 1..Len(p), IsPsh(p[k], i), NEW m \in 1..Len(p), m < k
        PROVE  ~IsFin(p[m], i)
    <2>1. CASE k \in 1..Len(q) /\ p[k] = q[k]
      <3>1. m \in 1..Len(q) /\ p[m] = q[m]
        BY <1>2, <1>4, <1>9, <2>1
      <3>2. QED
        BY <1>9, <2>1, <3>1, Zenon DEF Paired
    <2>2. CASE \E l \in 1..Len(o) : k = Len(q) + l /\ p[k] = o[l]
      <3>1. ~a.local_fin_sent /\ \A n \in 1..Len(o) : ~IsFin(o[n], i)
        BY <1>9, <2>2, Zenon
      <3>2. \A n \in 1..Len(q) : ~IsFin(q[n], i)
        BY <3>1, Zenon DEF Paired
      <3>3. (m \in 1..Len(q) /\ p[m] = q[m]) \/ \E l \in 1..Len(o) : m = Len(q) + l /\ p[m] = o[l]
        BY <1>5
      <3>4. QED
        BY <3>1, <3>2, <3>3, Zenon
    <2>3. QED
      BY <1>5, <2>1, <2>2
  <1>10. ASSUME NEW k \in 1..Len(p), IsPsh(p[k], i) PROVE ~to.remote_fin_received
    <2>1. CASE k \in 1..Len(q) /\ p[k] = q[k]
      BY <1>10, <2>1, Zenon DEF Paired
    <2>2. CASE \E l \in 1..Len(o) : k = Len(q) + l /\ p[k] = o[l]
      <3>1. ~a.local_fin_sent
        BY <1>10, <2>2, Zenon
      <3>2. QED
        BY <3>1, Zenon DEF Paired
    <2>3. QED
      BY <1>5, <2>1, <2>2
  <1>11. Paired(i, to, b, p)
    BY <1>6, <1>7, <1>8, <1>9, <1>10, Zenon DEF Paired
  <1>12. QED
    BY <1>1, <1>11

\* A handler of this stream, and one of another.
LEMMA PairedTalks ==
    ASSUME NEW i, NEW to \in StreamRec(Frame), NEW a \in StreamRec(Frame), NEW b \in StreamRec(Frame),
           NEW q \in Seq(Frame), Paired(i, to, a, q), Talks(i, a, b)
    PROVE  Paired(i, to, b, q \o b.out)
  <1>1. PICK o : o = b.out
    OBVIOUS
  <1>2. o \in Seq(Frame)
    BY <1>1 DEF StreamRec
  <1>3. b.queued = a.queued \o PayloadOf(o, i)
    BY <1>1, Zenon DEF Talks
  <1>4. CASE /\ b.local_fin_sent = a.local_fin_sent
             /\ \A k \in 1..Len(o) : o[k].cmd # "fin"
             /\ a.local_fin_sent => o = <<>>
    <2>1. \A k \in 1..Len(o) : ~IsFin(o[k], i)
      BY <1>4, Zenon DEF IsFin
    <2>2. \A k \in 1..Len(o) : IsPsh(o[k], i) => ~a.local_fin_sent
      <3>1. ASSUME NEW k \in 1..Len(o), a.local_fin_sent PROVE FALSE
        <4>1. o = <<>>
          BY <1>4, <3>1
        <4>2. QED
          BY <3>1, <4>1
      <3>2. QED
        BY <3>1
    <2>3. Paired(i, to, b, q \o o)
      BY <1>2, <1>3, <1>4, <2>1, <2>2, PairedMore, Zenon
    <2>4. QED
      BY <1>1, <2>3
  <1>5. CASE /\ b.local_fin_sent /\ ~a.local_fin_sent
             /\ \A k \in 1..Len(o) : o[k].cmd = "fin"
    <2>1. \A k \in 1..Len(o) : ~IsPsh(o[k], i)
      BY <1>5 DEF IsPsh
    <2>2. Paired(i, to, b, q \o o)
      BY <1>2, <1>3, <1>5, <2>1, PairedMore, Zenon
    <2>3. QED
      BY <1>1, <2>2
  <1>6. QED
    BY <1>1, <1>4, <1>5, Zenon DEF Talks

LEMMA PairedOther ==
    ASSUME NEW i, NEW j, j # i, NEW to \in StreamRec(Frame), NEW a \in StreamRec(Frame),
           NEW q \in Seq(Frame), NEW o \in Seq(Frame), FramesAbout(o, i), Paired(j, to, a, q)
    PROVE  Paired(j, to, a, q \o o)
  <1>1. \A k \in 1..Len(o) : ~IsFin(o[k], j) /\ ~IsPsh(o[k], j)
    BY Zenon DEF FramesAbout, IsFin, IsPsh
  <1>2. a.queued = a.queued \o PayloadOf(o, j)
    <2>1. PayloadOf(o, j) = <<>>
      <3>1. \A k \in 1..Len(o) : ~(o[k].cmd = "psh" /\ o[k].id = j)
        BY <1>1, Zenon DEF IsPsh
      <3>2. QED
        BY <3>1, PayloadNone
    <2>2. a.queued \in Seq(Item)
      BY DEF StreamRec
    <2>3. QED
      BY <2>1, <2>2, ConcatEmptySeq
  <1>3. QED
    BY <1>1, <1>2, PairedMore, Zenon

\* The first frame is taken off the wire.
LEMMA PairedTake ==
    ASSUME NEW i, NEW to \in StreamRec(Frame), NEW to2, NEW from,
           NEW q \in Seq(Frame), q # <<>>, Paired(i, to, from, q),
           Held(to2) = Held(to) \o Data(Head(q), i),
           to2.remote_fin_received => to.remote_fin_received \/ IsFin(Head(q), i)
    PROVE  Paired(i, to2, from, Tail(q))
  <1>1. PICK f, t : f = Head(q) /\ t = Tail(q)
    BY Zenon
  <1>2. /\ f \in Frame /\ t \in Seq(Frame) /\ f = q[1] /\ 1 \in 1..Len(q)
        /\ \A k \in 1..Len(t) : k + 1 \in 1..Len(q) /\ t[k] = q[k + 1]
    BY <1>1, TailFrames
  <1>3. from.queued = Held(to2) \o PayloadOf(t, i)
    <2>1. PICK x, y, z : x = Held(to) /\ y = Data(f, i) /\ z = PayloadOf(t, i)
      OBVIOUS
    <2>2. x \in Seq(Item) /\ y \in Seq(Item) /\ z \in Seq(Item)
      BY <1>2, <2>1, HeldType, DataType, PayloadType
    <2>3. PayloadOf(q, i) = y \o z
      BY <1>1, <2>1, HeadPayload, Zenon
    <2>4. from.queued = x \o (y \o z)
      BY <2>1, <2>3, Zenon DEF Paired
    <2>5. (x \o y) \o z = x \o (y \o z)
      BY <2>2, ItemsAssociate, Zenon DEF Associates
    <2>6. Held(to2) = x \o y
      BY <1>1, <2>1
    <2>7. QED
      BY <2>1, <2>4, <2>5, <2>6, Zenon
  <1>4. to2.remote_fin_received => from.local_fin_sent
    BY <1>1, <1>2, Zenon DEF Paired
  <1>5. ASSUME NEW k \in 1..Len(t), IsFin(t[k], i) PROVE from.local_fin_sent
    BY <1>2, <1>5, Zenon DEF Paired
  <1>6. ASSUME NEW k \in 1..Len(t), IsPsh(t[k], i)
        PROVE  ~to2.remote_fin_received /\ \A m \in 1..Len(t) : m < k => ~IsFin(t[m], i)
    <2>1. k + 1 \in 1..Len(q) /\ IsPsh(q[k + 1], i)
      BY <1>2, <1>6
    <2>2. ~to.remote_fin_received /\ \A m \in 1..Len(q) : m < k + 1 => ~IsFin(q[m], i)
      BY <2>1, Zenon DEF Paired
    <2>3. ~IsFin(f, i)
      <3>1. 1 < k + 1
        OBVIOUS
      <3>2. QED
        BY <1>2, <2>2, <3>1
    <2>4. ASSUME NEW m \in 1..Len(t), m < k PROVE ~IsFin(t[m], i)
      <3>1. m + 1 < k + 1 /\ m + 1 \in 1..Len(q) /\ t[m] = q[m + 1]
        BY <1>2, <2>4
      <3>2. QED
        BY <2>2, <3>1
    <2>5. QED
      BY <1>1, <2>2, <2>3, <2>4
  <1>7. Paired(i, to2, from, t)
    BY <1>3, <1>4, <1>5, <1>6, Zenon DEF Paired
  <1>8. QED
    BY <1>1, <1>7

-----------------------------------------------------------------------------
(* The invariant of both directions of every stream, and what a step of one  *)
(* stream makes of it.                                                      *)

Piped ==
    /\ config \in Scenarios
    /\ \A s \in Side, i \in Ids : Fit(i, stream[s][i], app[s][i])
    /\ First => \A s \in Side : NoUpd(net[s])
    /\ First /\ Healthy =>
          /\ Calm
          /\ \A s \in Side, i \in Ids : Paired(i, stream[s][i], stream[Peer(s)][i], net[s])

AllGrow == \A s \in Side, i \in Ids : Grows(stream[s][i], stream'[s][i])

LEMMA FirstSame == UNCHANGED config => (First' <=> First) /\ (Healthy' <=> Healthy)
  BY DEF First, Healthy, Version

\* Nothing of a session that all is well in is dropped.
LEMMA CalmTransmits ==
    ASSUME Calm, NEW s \in Side, NEW w, NEW o
    PROVE  Transmitted(s, w, o) = w \o o
  <1>1. ~session[s].closed /\ ~session[Peer(s)].closed
    BY Sides DEF Calm
  <1>2. QED
    BY <1>1, Zenon DEF Transmitted

\* Stream i of side s has become b, and q is what is left on its way there.
Became(s, i, b, q) ==
    /\ b \in StreamRec(Frame) /\ q \in Seq(Frame) /\ Effect(s, i, b, q)
    /\ FramesAbout(b.out, i)
    /\ Tidy(i, stream[s][i], b, app'[s][i])
    /\ \A t \in Side, j \in Ids : t # s \/ j # i => Fit(j, stream[t][j], app'[t][j])
    /\ First => NoUpd(q)
    /\ First /\ Healthy =>
          /\ Calm'
          /\ Paired(i, b, stream[Peer(s)][i], q)
          /\ \A j \in Ids : j # i => Paired(j, stream[s][j], stream[Peer(s)][j], q)

LEMMA BecameFit ==
    ASSUME Types, NEW s \in Side, NEW i \in Ids, NEW b, NEW q, Became(s, i, b, q), UNCHANGED config
    PROVE  /\ \A t \in Side, j \in Ids : Fit(j, stream[t][j], app[t][j])'
           /\ AllGrow
  <1>1. b \in StreamRec(Frame) /\ q \in Seq(Frame) /\ Effect(s, i, b, q)
    BY DEF Became
  <1>2. /\ stream'[s][i] = Cleared(b)
        /\ \A t \in Side, j \in Ids : t # s \/ j # i => stream'[t][j] = stream[t][j]
    BY <1>1, EffectFacts
  <1>3. Grows(stream[s][i], b) /\ Fit(i, b, app'[s][i])
    BY Zenon DEF Became, Tidy
  <1>4. Grows(stream[s][i], Cleared(b)) /\ Fit(i, Cleared(b), app'[s][i])
    BY <1>1, <1>3, ClearedGrows, ClearedFit
  <1>5. ASSUME NEW t \in Side, NEW j \in Ids
        PROVE  Fit(j, stream'[t][j], app'[t][j]) /\ Grows(stream[t][j], stream'[t][j])
    <2>1. CASE t = s /\ j = i
      BY <1>2, <1>4, <2>1
    <2>2. CASE t # s \/ j # i
      <3>1. stream'[t][j] = stream[t][j]
        BY <1>2, <2>2
      <3>2. Fit(j, stream[t][j], app'[t][j])
        BY <2>2, Zenon DEF Became
      <3>3. Grows(stream[t][j], stream[t][j])
        <4>1. stream[t][j] \in StreamRec(Frame)
          BY StreamHere
        <4>2. QED
          BY <4>1, GrowsSame
      <3>4. QED
        BY <3>1, <3>2, <3>3
    <2>3. QED
      BY <2>1, <2>2
  <1>6. ASSUME NEW r, NEW e, NEW j
        PROVE  Fit(j, r, e) => /\ First' => Reader(j, r, e)
                               /\ First' /\ Healthy' => Finished(j, r, e) /\ Drained(r)
    BY FirstSame, Zenon DEF Fit
  <1>7. \A t \in Side, j \in Ids : Fit(j, stream[t][j], app[t][j])'
    BY <1>5, <1>6, Zenon DEF Fit
  <1>8. AllGrow
    BY <1>5 DEF AllGrow
  <1>9. QED
    BY <1>7, <1>8

LEMMA BecamePaired ==
    ASSUME Types, Piped, NEW s \in Side, NEW i \in Ids, NEW b, NEW q, Became(s, i, b, q),
           First, Healthy, NEW t \in Side, NEW j \in Ids
    PROVE  Paired(j, stream'[t][j], stream'[Peer(t)][j], net'[t])
  <1>1. /\ b \in StreamRec(Frame) /\ q \in Seq(Frame) /\ Effect(s, i, b, q) /\ FramesAbout(b.out, i)
        /\ Talks(i, stream[s][i], b)
        /\ Paired(i, b, stream[Peer(s)][i], q)
        /\ \A l \in Ids : l # i => Paired(l, stream[s][l], stream[Peer(s)][l], q)
    BY Zenon DEF Became, Tidy
  <1>2. /\ stream'[s][i] = Cleared(b)
        /\ \A u \in Side, l \in Ids : u # s \/ l # i => stream'[u][l] = stream[u][l]
        /\ net'[s] = q
        /\ net'[Peer(s)] = Transmitted(s, net[Peer(s)], b.out)
    BY <1>1, EffectFacts
  <1>3. Calm /\ \A u \in Side, l \in Ids : Paired(l, stream[u][l], stream[Peer(u)][l], net[u])
    BY Zenon DEF Piped
  <1>4. PICK p : p = Peer(s)
    OBVIOUS
  <1>5. p \in Side /\ p # s /\ Peer(p) = s /\ (t = s \/ t = p)
    BY <1>4, Sides
  <1>6. net'[p] = net[p] \o b.out
    <2>1. PICK w, o : w = net[p] /\ o = b.out
      OBVIOUS
    <2>2. Transmitted(s, w, o) = w \o o
      BY <1>3, CalmTransmits
    <2>3. net'[p] = Transmitted(s, w, o)
      BY <1>2, <1>4, <2>1
    <2>4. QED
      BY <2>1, <2>2, <2>3
  <1>7. CASE t = s /\ j = i
    <2>1. Paired(i, Cleared(b), stream[p][i], q)
      <3>1. Held(Cleared(b)) = Held(b) /\ Cleared(b).remote_fin_received = b.remote_fin_received
        <4>1. SameWrites(b, Cleared(b))
          BY <1>1, ClearedSame
        <4>2. QED
          BY <1>1, <4>1, ClearedFacts DEF SameWrites
      <3>2. QED
        BY <1>1, <1>4, <3>1, PairedReader
    <2>2. stream'[p][i] = stream[p][i]
      BY <1>2, <1>5
    <2>3. QED
      BY <1>2, <1>4, <1>7, <2>1, <2>2
  <1>8. CASE t = s /\ j # i
    <2>1. stream'[s][j] = stream[s][j] /\ stream'[p][j] = stream[p][j]
      BY <1>2, <1>5, <1>8
    <2>2. QED
      BY <1>1, <1>2, <1>4, <1>8, <2>1
  <1>9. CASE t = p /\ j = i
    <2>1. PICK to, a, w : to = stream[p][i] /\ a = stream[s][i] /\ w = net[p]
      OBVIOUS
    <2>2. to \in StreamRec(Frame) /\ a \in StreamRec(Frame) /\ w \in Seq(Frame)
      BY <1>5, <2>1 DEF Types
    <2>3. Paired(i, to, a, w)
      BY <1>3, <1>5, <2>1
    <2>4. Paired(i, to, b, w \o b.out)
      BY <1>1, <2>1, <2>2, <2>3, PairedTalks
    <2>5. Paired(i, to, Cleared(b), w \o b.out)
      <3>1. Cleared(b).queued = b.queued /\ Cleared(b).local_fin_sent = b.local_fin_sent
        BY <1>1, ClearedFacts, ClearedSame
      <3>2. QED
        BY <2>4, <3>1, PairedWriter
    <2>6. stream'[p][i] = to
      BY <1>2, <1>5, <2>1
    <2>7. QED
      BY <1>2, <1>5, <1>6, <1>9, <2>1, <2>5, <2>6, Zenon
  <1>10. CASE t = p /\ j # i
    <2>1. PICK to, a, w : to = stream[p][j] /\ a = stream[s][j] /\ w = net[p]
      OBVIOUS
    <2>2. to \in StreamRec(Frame) /\ a \in StreamRec(Frame) /\ w \in Seq(Frame)
      BY <1>5, <2>1 DEF Types
    <2>3. Paired(j, to, a, w)
      BY <1>3, <1>5, <2>1
    <2>4. b.out \in Seq(Frame)
      BY <1>1 DEF StreamRec
    <2>5. Paired(j, to, a, w \o b.out)
      BY <1>1, <1>10, <2>2, <2>3, <2>4, PairedOther
    <2>6. stream'[p][j] = to /\ stream'[s][j] = a
      BY <1>2, <1>5, <1>10, <2>1
    <2>7. QED
      BY <1>5, <1>6, <1>10, <2>1, <2>5, <2>6, Zenon
  <1>11. QED
    BY <1>5, <1>7, <1>8, <1>9, <1>10

LEMMA BecamePiped ==
    ASSUME Types, Piped, UNCHANGED config,
           NEW s \in Side, NEW i \in Ids, NEW b, NEW q, Became(s, i, b, q)
    PROVE  Piped' /\ AllGrow
  <1>1. b \in StreamRec(Frame) /\ q \in Seq(Frame) /\ Effect(s, i, b, q)
    BY DEF Became
  <1>2. config' \in Scenarios
    BY DEF Piped
  <1>3. (\A t \in Side, j \in Ids : Fit(j, stream[t][j], app[t][j])') /\ AllGrow
    BY BecameFit
  <1>4. ASSUME First', NEW t \in Side PROVE NoUpd(net'[t])
    <2>1. First
      BY <1>4, FirstSame
    <2>2. NoUpd(q) /\ NoUpd(b.out) /\ NoUpd(net[Peer(s)])
      BY <2>1, Sides, Zenon DEF Became, Tidy, Piped
    <2>3. net'[s] = q /\ net'[Peer(s)] = Transmitted(s, net[Peer(s)], b.out)
      BY <1>1, EffectFacts
    <2>4. NoUpd(net'[Peer(s)])
      <3>1. PICK w, o : w = net[Peer(s)] /\ o = b.out
        OBVIOUS
      <3>2. w \in Seq(Frame) /\ o \in Seq(Frame)
        BY <1>1, <3>1, Sides DEF Types, StreamRec
      <3>3. NoUpd(w \o o)
        BY <2>2, <3>1, <3>2, NoUpdConcat
      <3>4. net'[Peer(s)] = w \/ net'[Peer(s)] = w \o o
        BY <2>3, <3>1, Zenon DEF Transmitted
      <3>5. QED
        BY <2>2, <3>1, <3>3, <3>4, Zenon
    <2>5. t = s \/ t = Peer(s)
      BY Sides
    <2>6. QED
      BY <2>2, <2>3, <2>4, <2>5
  <1>5. ASSUME First', Healthy'
        PROVE  Calm' /\ \A t \in Side, j \in Ids : Paired(j, stream'[t][j], stream'[Peer(t)][j], net'[t])
    <2>1. First /\ Healthy
      BY <1>5, FirstSame
    <2>2. Calm'
      BY <2>1, Zenon DEF Became
    <2>3. \A t \in Side, j \in Ids : Paired(j, stream'[t][j], stream'[Peer(t)][j], net'[t])
      BY <2>1, BecamePaired
    <2>4. QED
      BY <2>2, <2>3
  <1>6. QED
    BY <1>2, <1>3, <1>4, <1>5, Zenon DEF Piped, NoUpd, Paired

\* The Calm of a step that closes no session and takes no application away.
LEMMA CalmKept ==
    ASSUME Calm, KeepsSessions, linkUp' = linkUp, exited' = exited,
           \A t \in Side, j \in Ids : app'[t][j].gone = app[t][j].gone
    PROVE  Calm'
  BY Zenon DEF Calm, KeepsSessions

LEMMA SameSessions == session' = session => KeepsSessions
  BY DEF KeepsSessions

\* A step of stream i of side s that takes nothing from the wire.
LEMMA BecameQuiet ==
    ASSUME Types, Piped, NEW s \in Side, NEW i \in Ids, NEW b \in StreamRec(Frame),
           Effect(s, i, b, net[s]), FramesAbout(b.out, i), Tidy(i, stream[s][i], b, app'[s][i]),
           Held(b) = Held(stream[s][i]),
           b.remote_fin_received = stream[s][i].remote_fin_received,
           OthersStay(s, i), First /\ Healthy => Calm'
    PROVE  Became(s, i, b, net[s])
  <1>1. net[s] \in Seq(Frame)
    BY DEF Types
  <1>2. \A t \in Side, j \in Ids : t # s \/ j # i => Fit(j, stream[t][j], app'[t][j])
    BY Zenon DEF Piped, OthersStay
  <1>3. First => NoUpd(net[s])
    BY Zenon DEF Piped
  <1>4. ASSUME First, Healthy
        PROVE  /\ Paired(i, b, stream[Peer(s)][i], net[s])
               /\ \A j \in Ids : j # i => Paired(j, stream[s][j], stream[Peer(s)][j], net[s])
    <2>1. \A j \in Ids : Paired(j, stream[s][j], stream[Peer(s)][j], net[s])
      BY <1>4, Zenon DEF Piped
    <2>2. QED
      BY <2>1, PairedReader
  <1>5. QED
    BY <1>1, <1>2, <1>3, <1>4, Zenon DEF Became

LEMMA PipesPiped ==
    ASSUME Types, Piped, UNCHANGED config, NEW s \in Side, NEW i \in Ids, NEW b,
           Pipes1(s, i, b, app'[s][i]), OthersStay(s, i), First /\ Healthy => Calm'
    PROVE  Piped' /\ AllGrow
  <1>1. /\ b \in StreamRec(FramesOf(i)) /\ StreamStep(s, i, b)
        /\ Tidy(i, stream[s][i], b, app'[s][i]) /\ Held(b) = Held(stream[s][i])
        /\ b.remote_fin_received = stream[s][i].remote_fin_received
    BY Zenon DEF Pipes1
  <1>2. b \in StreamRec(Frame)
    BY <1>1, StreamRecFrame
  <1>3. Effect(s, i, b, net[s])
    BY <1>1, StreamStepEffect
  <1>4. FramesAbout(b.out, i)
    <2>1. b.out \in Seq(FramesOf(i))
      BY <1>1 DEF StreamRec
    <2>2. QED
      BY <2>1, FramesOfFacts
  <1>5. Became(s, i, b, net[s])
    BY <1>1, <1>2, <1>3, <1>4, BecameQuiet
  <1>6. QED
    BY <1>5, BecamePiped

LEMMA HandlersPiped ==
    ASSUME Types, Piped, UNCHANGED config, NEW s \in Side, NEW i \in Ids,
           \/ ReadHandler(s, i) \/ WriteHandler(s, i) \/ CloseTimer(s, i)
           \/ s = "server" /\ ResolveDone(i)
    PROVE  Piped' /\ AllGrow
  <1>1. UNCHANGED <<session, app, linkUp, exited>>
    BY DEF ReadHandler, WriteHandler, CloseTimer, ResolveDone
  <1>2. app'[s][i] = app[s][i] /\ OthersStay(s, i)
    BY <1>1, AppStays
  <1>3. First /\ Healthy => Calm /\ Calm'
    <2>1. SUFFICES ASSUME First, Healthy PROVE Calm /\ Calm'
      OBVIOUS
    <2>2. Calm
      BY <2>1, Zenon DEF Piped
    <2>3. QED
      BY <1>1, <2>2, SameSessions, CalmKept
  <1>4. Fit(i, stream[s][i], app[s][i])
    BY Zenon DEF Piped
  <1>5. \E b : Pipes1(s, i, b, app[s][i])
    <2>1. CASE ReadHandler(s, i)
      BY <1>4, <2>1, ReadHandlerPipes
    <2>2. CASE WriteHandler(s, i)
      BY <1>3, <1>4, <2>2, WriteHandlerPipes
    <2>3. CASE CloseTimer(s, i)
      BY <1>4, <2>3, CloseTimerPipes
    <2>4. CASE s = "server" /\ ResolveDone(i)
      BY <1>4, <2>4, ResolveDonePipes
    <2>5. QED
      BY <2>1, <2>2, <2>3, <2>4
  <1>6. QED
    BY <1>2, <1>3, <1>5, PipesPiped

LEMMA ReceivePiped ==
    ASSUME Types, Piped, UNCHANGED config, NEW s \in Side, NEW i \in Ids, Receive(s, i)
    PROVE  Piped' /\ AllGrow
  <1>1. UNCHANGED <<session, linkUp, exited>>
    BY DEF Receive
  <1>2. First /\ Healthy => Calm
    BY Zenon DEF Piped
  <1>3. Fit(i, stream[s][i], app[s][i])
    BY Zenon DEF Piped
  <1>4. (\E b : Pipes1(s, i, b, app'[s][i])) /\ OthersStay(s, i)
    BY <1>2, <1>3, ReceivePipes
  <1>5. app'[s][i].gone = app[s][i].gone
    <2>1. app' = app \/ \E n : app' = [app EXCEPT ![s][i].taken = @ + n]
      BY Zenon DEF Receive
    <2>2. CASE app' = app
      BY <2>2
    <2>3. CASE \E n : app' = [app EXCEPT ![s][i].taken = @ + n]
      <3>1. PICK n : app' = [app EXCEPT ![s][i].taken = @ + n]
        BY <2>3, Zenon
      <3>2. PICK e, g : e = app[s][i] /\ g = [e EXCEPT !.taken = e.taken + n]
        BY Zenon
      <3>3. app' = [app EXCEPT ![s][i] = g]
        BY <3>1, <3>2
      <3>4. app'[s][i] = g
        BY <3>3, AppField, Zenon
      <3>5. e \in AppRec
        BY <3>2 DEF Types, AppRec
      <3>6. g.gone = e.gone
        BY <3>2, <3>5, Zenon DEF AppRec
      <3>7. QED
        BY <3>2, <3>4, <3>6
    <2>4. QED
      BY <2>1, <2>2, <2>3
  <1>6. \A t \in Side, j \in Ids : app'[t][j].gone = app[t][j].gone
    BY <1>4, <1>5, Zenon DEF OthersStay
  <1>7. First /\ Healthy => Calm'
    BY <1>1, <1>2, <1>6, SameSessions, CalmKept
  <1>8. QED
    BY <1>4, <1>7, PipesPiped

\* No stream changes, and the applications go on.
LEMMA SamePiped ==
    ASSUME Types, Piped, UNCHANGED <<config, stream, net>>,
           \A t \in Side, j \in Ids : Fit(j, stream[t][j], app'[t][j]),
           First /\ Healthy => Calm'
    PROVE  Piped' /\ AllGrow
  <1>1. ASSUME NEW r, NEW e, NEW j
        PROVE  Fit(j, r, e) => /\ First' => Reader(j, r, e)
                               /\ First' /\ Healthy' => Finished(j, r, e) /\ Drained(r)
    BY FirstSame, Zenon DEF Fit
  <1>2. \A t \in Side, j \in Ids : Fit(j, stream[t][j], app[t][j])'
    BY <1>1, Zenon DEF Fit
  <1>3. First' => \A t \in Side : NoUpd(net'[t])
    BY FirstSame, Zenon DEF Piped
  <1>4. First' /\ Healthy' =>
          /\ Calm'
          /\ \A t \in Side, j \in Ids : Paired(j, stream'[t][j], stream'[Peer(t)][j], net'[t])
    BY FirstSame, Zenon DEF Piped
  <1>5. config' \in Scenarios
    BY DEF Piped
  <1>6. AllGrow
    <2>1. ASSUME NEW t \in Side, NEW j \in Ids PROVE Grows(stream[t][j], stream'[t][j])
      <3>1. stream[t][j] \in StreamRec(Frame)
        BY StreamHere
      <3>2. QED
        BY <3>1, GrowsSame
    <2>2. QED
      BY <2>1 DEF AllGrow
  <1>7. QED
    BY <1>2, <1>3, <1>4, <1>5, <1>6, Zenon DEF Piped, NoUpd, Paired

\* One application goes on; it sends more only before it has ended.
LEMMA AppFit ==
    ASSUME Types, Piped, NEW s \in Side, NEW i \in Ids, NEW g \in AppRec, app' = [app EXCEPT ![s][i] = g],
           g.taken = app[s][i].taken, app[s][i].sent <= g.sent,
           app[s][i].eof => g.eof /\ g.sent = app[s][i].sent
    PROVE  /\ \A t \in Side, j \in Ids : Fit(j, stream[t][j], app'[t][j])
           /\ app'[s][i] = g /\ OthersStay(s, i)
  <1>1. app'[s][i] = g /\ OthersStay(s, i)
    BY AppField, Zenon
  <1>2. app[s][i] \in AppRec
    BY DEF Types, AppRec
  <1>3. Fit(i, stream[s][i], g)
    <2>1. Fit(i, stream[s][i], app[s][i])
      BY Zenon DEF Piped
    <2>2. QED
      BY <1>2, <2>1, FitApp
  <1>4. ASSUME NEW t \in Side, NEW j \in Ids PROVE Fit(j, stream[t][j], app'[t][j])
    <2>1. CASE t = s /\ j = i
      BY <1>1, <1>3, <2>1
    <2>2. CASE t # s \/ j # i
      BY <1>1, <2>2, Zenon DEF Piped, OthersStay
    <2>3. QED
      BY <2>1, <2>2
  <1>5. QED
    BY <1>1, <1>4

LEMMA AppPiped ==
    ASSUME Types, Piped, UNCHANGED config, NEW s \in Side, NEW i \in Ids,
           AppSend(s, i) \/ AppEof(s, i) \/ AppReset(s, i)
    PROVE  Piped' /\ AllGrow
  <1>1. UNCHANGED <<session, stream, net, linkUp, exited>>
    BY DEF AppSend, AppEof, AppReset
  <1>2. PICK e : e = app[s][i]
    OBVIOUS
  <1>3. e \in AppRec /\ e.sent \in Nat
    BY <1>2 DEF Types, AppRec
  <1>4. PICK n : n = e.sent + 1
    OBVIOUS
  <1>5. n \in Nat /\ e.sent <= n /\ e.sent <= e.sent
    BY <1>3, <1>4
  <1>6. PICK g : /\ g \in AppRec /\ app' = [app EXCEPT ![s][i] = g]
                 /\ g.taken = e.taken /\ e.sent <= g.sent
                 /\ e.eof => g.eof /\ g.sent = e.sent
                 /\ g.gone = e.gone \/ config.appMayFail
    <2>1. CASE AppSend(s, i)
      <3>1. ~e.eof /\ app' = [app EXCEPT ![s][i].sent = @ + 1]
        BY <1>2, <2>1 DEF AppSend
      <3>2. PICK g : g = [e EXCEPT !.sent = n]
        BY Zenon
      <3>3. g \in AppRec /\ g.taken = e.taken /\ g.sent = n /\ g.gone = e.gone
        BY <1>3, <1>5, <3>2 DEF AppRec
      <3>4. app' = [app EXCEPT ![s][i] = g]
        BY <1>2, <1>4, <3>1, <3>2
      <3>5. QED
        BY <1>5, <3>1, <3>3, <3>4, Zenon
    <2>2. CASE AppEof(s, i)
      <3>1. ~e.eof /\ app' = [app EXCEPT ![s][i].eof = TRUE]
        BY <1>2, <2>2 DEF AppEof
      <3>2. PICK g : g = [e EXCEPT !.eof = TRUE]
        BY Zenon
      <3>3. g \in AppRec /\ g.taken = e.taken /\ g.sent = e.sent /\ g.gone = e.gone
        BY <1>3, <3>2, Zenon DEF AppRec
      <3>4. app' = [app EXCEPT ![s][i] = g]
        BY <1>2, <3>1, <3>2
      <3>5. QED
        BY <1>5, <3>1, <3>3, <3>4, Zenon
    <2>3. CASE AppReset(s, i)
      <3>1. config.appMayFail /\ app' = [app EXCEPT ![s][i].gone = TRUE]
        BY <1>2, <2>3 DEF AppReset
      <3>2. PICK g : g = [e EXCEPT !.gone = TRUE]
        BY Zenon
      <3>3. g \in AppRec /\ g.taken = e.taken /\ g.sent = e.sent /\ g.eof = e.eof
        BY <1>3, <3>2, Zenon DEF AppRec
      <3>4. app' = [app EXCEPT ![s][i] = g]
        BY <1>2, <3>1, <3>2
      <3>5. QED
        BY <1>5, <3>1, <3>3, <3>4, Zenon
    <2>4. QED
      BY <2>1, <2>2, <2>3
  <1>7. (\A t \in Side, j \in Ids : Fit(j, stream[t][j], app'[t][j])) /\ app'[s][i] = g /\ OthersStay(s, i)
    BY <1>2, <1>6, AppFit, Zenon
  <1>8. ASSUME First, Healthy PROVE Calm'
    <2>1. Calm /\ ~config.appMayFail
      BY <1>8, Zenon DEF Piped, Healthy
    <2>2. \A t \in Side, j \in Ids : app'[t][j].gone = app[t][j].gone
      BY <1>2, <1>6, <1>7, <2>1, Zenon DEF OthersStay
    <2>3. QED
      BY <1>1, <2>1, <2>2, SameSessions, CalmKept
  <1>9. QED
    BY <1>1, <1>7, <1>8, SamePiped

LEMMA LinkPiped ==
    ASSUME Types, Piped, UNCHANGED config, LinkDown
    PROVE  Piped' /\ AllGrow
  <1>1. UNCHANGED <<stream, net, app>> /\ config.linkMayFail
    BY DEF LinkDown
  <1>2. ~Healthy
    BY <1>1, Zenon DEF Healthy
  <1>3. \A t \in Side, j \in Ids : Fit(j, stream[t][j], app'[t][j])
    BY <1>1, Zenon DEF Piped
  <1>4. QED
    BY <1>1, <1>2, <1>3, SamePiped

\* The handler of a stream whose application goes on meanwhile.
LEMMA PipesApp ==
    ASSUME NEW s, NEW i, NEW b, NEW e \in AppRec, NEW g \in AppRec, Pipes1(s, i, b, e),
           g.taken = e.taken, e.sent <= g.sent, e.eof => g.eof /\ g.sent = e.sent
    PROVE  Pipes1(s, i, b, g)
  <1>1. Fit(i, b, e)
    BY Zenon DEF Pipes1, Tidy
  <1>2. Fit(i, b, g)
    BY <1>1, FitApp
  <1>3. QED
    BY <1>2, Zenon DEF Pipes1, Tidy

\* An application whose connection is made, and may be reset at once.
BecameGone(s, i, g, gone) ==
    /\ app' = [app EXCEPT ![s][i] = g] /\ app'[s][i] = g /\ OthersStay(s, i)
    /\ g \in AppRec /\ app[s][i] \in AppRec
    /\ g.taken = app[s][i].taken /\ g.sent = app[s][i].sent /\ app[s][i].sent <= g.sent
    /\ g.eof = app[s][i].eof /\ g.gone = gone

LEMMA GoneApp ==
    ASSUME Types, NEW s \in Side, NEW i \in Ids, NEW gone \in BOOLEAN,
           app' = [app EXCEPT ![s][i].gone = gone]
    PROVE  \E g : BecameGone(s, i, g, gone)
  <1>1. PICK e, g : e = app[s][i] /\ g = [e EXCEPT !.gone = gone]
    BY Zenon
  <1>2. e \in AppRec /\ e.sent \in Nat
    BY <1>1 DEF Types, AppRec
  <1>3. g \in AppRec /\ g.taken = e.taken /\ g.sent = e.sent /\ g.eof = e.eof /\ g.gone = gone
    BY <1>1, <1>2 DEF AppRec
  <1>4. app' = [app EXCEPT ![s][i] = g]
    BY <1>1
  <1>5. app'[s][i] = g /\ OthersStay(s, i)
    BY <1>4, AppField, Zenon
  <1>6. e.sent <= g.sent
    BY <1>2, <1>3
  <1>7. BecameGone(s, i, g, gone)
    BY <1>1, <1>2, <1>3, <1>4, <1>5, <1>6, Zenon DEF BecameGone
  <1>8. QED
    BY <1>7

LEMMA ConnectPiped ==
    ASSUME Types, Piped, UNCHANGED config, NEW i \in Ids, ConnectDone(i)
    PROVE  Piped' /\ AllGrow
  <1>1. PICK s \in Side : s = "server"
    BY DEF Side
  <1>2. UNCHANGED <<session, linkUp>>
    BY DEF ConnectDone
  <1>3. \/ app' = app /\ exited' = exited
        \/ \E gone \in BOOLEAN : /\ app' = [app EXCEPT ![s][i].gone = gone]
                                 /\ (gone => config.appMayFail) /\ (~gone => exited' = exited)
    <2>1. \/ app' = app /\ exited' = exited
          \/ \E gone \in (IF config.appMayFail THEN BOOLEAN ELSE {FALSE}) :
                /\ app' = [app EXCEPT ![s][i].gone = gone]
                /\ (~gone => exited' = exited)
      BY <1>1, Zenon DEF ConnectDone
    <2>2. QED
      BY <2>1, Zenon
  <1>4. Fit(i, stream[s][i], app[s][i])
    BY Zenon DEF Piped
  <1>5. UNCHANGED <<stream, net>> \/ \E b : Pipes1(s, i, b, app[s][i])
    BY <1>1, <1>4, ConnectDonePipes
  <1>6. PICK g \in AppRec :
           /\ app' = [app EXCEPT ![s][i] = g] /\ app'[s][i] = g /\ OthersStay(s, i)
           /\ app[s][i] \in AppRec /\ g.taken = app[s][i].taken /\ app[s][i].sent <= g.sent
           /\ app[s][i].eof => g.eof /\ g.sent = app[s][i].sent
           /\ ~config.appMayFail => exited' = exited /\ (g.gone => app[s][i].gone)
    <2>1. CASE app' = app /\ exited' = exited
      <3>1. PICK e : e = app[s][i]
        OBVIOUS
      <3>2. e \in AppRec /\ e.sent <= e.sent
        BY <3>1 DEF Types, AppRec
      <3>3. app' = [app EXCEPT ![s][i] = e]
        <4>1. app \in [Side -> [Ids -> AppRec]]
          BY DEF Types, AppRec
        <4>2. QED
          BY <2>1, <3>1, <4>1
      <3>4. app'[s][i] = e /\ OthersStay(s, i)
        BY <3>3, AppField, Zenon
      <3>5. QED
        BY <2>1, <3>1, <3>2, <3>3, <3>4, Zenon
    <2>2. CASE \E gone \in BOOLEAN : /\ app' = [app EXCEPT ![s][i].gone = gone]
                                     /\ (gone => config.appMayFail) /\ (~gone => exited' = exited)
      <3>1. PICK gone \in BOOLEAN : /\ app' = [app EXCEPT ![s][i].gone = gone]
                                    /\ (gone => config.appMayFail) /\ (~gone => exited' = exited)
        BY <2>2, Zenon
      <3>2. PICK g : BecameGone(s, i, g, gone)
        BY <3>1, GoneApp, Zenon
      <3>3. QED
        BY <3>1, <3>2, Zenon DEF BecameGone
    <2>3. QED
      BY <1>3, <2>1, <2>2
  <1>7. First /\ Healthy => Calm'
    <2>1. SUFFICES ASSUME First, Healthy PROVE Calm'
      OBVIOUS
    <2>2. Calm /\ ~config.appMayFail
      BY <2>1, Zenon DEF Piped, Healthy
    <2>3. \A t \in Side, j \in Ids : ~app'[t][j].gone
      <3>1. SUFFICES ASSUME NEW t \in Side, NEW j \in Ids PROVE ~app'[t][j].gone
        OBVIOUS
      <3>2. ~app[t][j].gone /\ ~app[s][i].gone
        BY <2>2, Zenon DEF Calm
      <3>3. ~g.gone
        BY <1>6, <2>2, <3>2
      <3>4. CASE t = s /\ j = i
        BY <1>6, <3>3, <3>4
      <3>5. CASE t # s \/ j # i
        <4>1. app'[t][j] = app[t][j]
          BY <1>6, <3>5, Zenon DEF OthersStay
        <4>2. QED
          BY <3>2, <4>1
      <3>6. QED
        BY <3>4, <3>5
    <2>4. QED
      BY <1>2, <1>6, <2>2, <2>3, Zenon DEF Calm
  <1>8. CASE UNCHANGED <<stream, net>>
    <2>1. \A t \in Side, j \in Ids : Fit(j, stream[t][j], app'[t][j])
      BY <1>6, AppFit, Zenon
    <2>2. QED
      BY <1>7, <1>8, <2>1, SamePiped
  <1>9. ASSUME NEW b, Pipes1(s, i, b, app[s][i]) PROVE Piped' /\ AllGrow
    <2>1. Pipes1(s, i, b, app'[s][i])
      BY <1>6, <1>9, PipesApp
    <2>2. QED
      BY <1>6, <1>7, <2>1, PipesPiped
  <1>10. QED
    BY <1>5, <1>8, <1>9

LEMMA AcceptPiped ==
    ASSUME SmuxInv, Piped, UNCHANGED config, HandleAccept
    PROVE  Piped' /\ AllGrow
  <1>1. Types /\ Order
    BY DEF SmuxInv
  <1>2. PICK s \in Side : s = "client"
    BY DEF Side
  <1>3. PICK i : i = NextStreamId(session["client"].next_stream_id)
    OBVIOUS
  <1>4. i \in Ids /\ UNCHANGED <<linkUp, exited>>
        /\ session' = [session EXCEPT !["client"].next_stream_id = i]
    BY <1>3, Zenon DEF HandleAccept
  <1>5. PICK gone \in (IF config.appMayFail THEN BOOLEAN ELSE {FALSE}) :
           /\ StreamStep("client", i, StartClient(SendFrame(NewStream("idle"), Syn(i)), gone))
           /\ app' = [app EXCEPT !["client"][i].gone = gone]
    BY <1>3, Zenon DEF HandleAccept
  <1>6. gone \in BOOLEAN /\ (gone => config.appMayFail)
    BY <1>5, Zenon
  <1>7. PICK b : b = StartClient(SendFrame(NewStream("idle"), Syn(i)), gone)
    OBVIOUS
  <1>8. /\ b \in StreamRec(Frame) /\ Sound(b) /\ Fresh(i, b) /\ b.out = <<Syn(i)>>
        /\ Blank(b) /\ b.tcp_ready /\ b.phase = "idle" /\ (b.reads = 0 \/ b.reads = 1)
    BY <1>4, <1>7, StartClientFresh, StartClientBlank
  <1>9. Effect(s, i, b, net[s])
    BY <1>1, <1>2, <1>4, <1>5, <1>7, StreamStepEffect
  <1>10. PICK g :
           /\ app'[s][i] = g /\ OthersStay(s, i) /\ g \in AppRec
           /\ g.taken = app[s][i].taken /\ g.sent = app[s][i].sent
           /\ app[s][i].sent <= g.sent /\ g.eof = app[s][i].eof /\ g.gone = gone
           /\ app[s][i] \in AppRec
    <2>1. app' = [app EXCEPT ![s][i].gone = gone]
      BY <1>2, <1>5
    <2>2. PICK g : BecameGone(s, i, g, gone)
      BY <1>1, <1>4, <1>6, <2>1, GoneApp, Zenon
    <2>3. QED
      BY <2>2, Zenon DEF BecameGone
  <1>11. stream[s][i] = NoStream
    <2>1. session["client"] \in [closed : BOOLEAN, next_stream_id : Int]
      BY <1>1, <1>2 DEF Types
    <2>2. i = session["client"].next_stream_id + 2 /\ i \in Int
      BY <1>3, <1>4, IdsAreInts DEF NextStreamId
    <2>3. ~stream[s][i].created
      <3>1. stream["client"][i].created => i <= session["client"].next_stream_id
        BY <1>1, <1>4, Zenon DEF Order
      <3>2. QED
        BY <1>2, <2>1, <2>2, <3>1
    <2>4. QED
      BY <1>1, <1>4, <2>3, StreamHere
  <1>12. FramesAbout(b.out, i) /\ (\A k \in 1..Len(b.out) : b.out[k].cmd = "syn")
         /\ PayloadOf(b.out, i) = <<>>
    <2>1. PICK f, o : f = Syn(i) /\ o = <<f>>
      BY Zenon
    <2>2. Len(o) = 1 /\ o[1] = f /\ f.id = i /\ f.cmd = "syn"
      BY <2>1 DEF Syn
    <2>3. FramesAbout(o, i) /\ \A k \in 1..Len(o) : o[k].cmd = "syn"
      BY <2>2 DEF FramesAbout
    <2>4. PayloadOf(b.out, i) = <<>>
      BY <1>8, Zenon DEF Fresh
    <2>5. QED
      BY <1>8, <2>1, <2>3, <2>4
  <1>13. Tidy(i, NoStream, b, g)
    <2>1. Fit(i, NoStream, app[s][i])
      BY <1>4, <1>11, Zenon DEF Piped
    <2>2. Fit(i, NoStream, g)
      BY <1>10, <2>1, FitApp
    <2>3. b.phase # "idle" => ~b.tcp_ready
      BY <1>8
    <2>4. b.reads = 0 \/ (b.reads = 1 /\ b.tcp_ready)
      BY <1>8
    <2>5. i \in Ids /\ g \in AppRec /\ b \in StreamRec(Frame) /\ Blank(b)
      BY <1>4, <1>8, <1>10
    <2>6. PayloadOf(b.out, i) = <<>> /\ \A k \in 1..Len(b.out) : b.out[k].cmd = "syn"
      BY <1>12
    <2>7. QED
      BY <2>2, <2>3, <2>4, <2>5, <2>6, BlankTidy
  <1>14. Held(b) = Held(NoStream) /\ b.remote_fin_received = NoStream.remote_fin_received
    <2>1. Held(b) = Held(NoStream)
      BY <1>8, FreshStep
    <2>2. b.remote_fin_received \in BOOLEAN /\ NoStream.remote_fin_received \in BOOLEAN
      BY <1>8, NoStreamType DEF StreamRec
    <2>3. QED
      BY <1>8, <2>1, <2>2, NoStreamFields DEF Blank
  <1>15. KeepsSessions
    <2>1. session \in [Side -> [closed : BOOLEAN, next_stream_id : Int]]
      BY <1>1 DEF Types
    <2>2. QED
      BY <1>4, <2>1 DEF KeepsSessions
  <1>16. ASSUME First, Healthy PROVE Calm'
    <2>1. Calm /\ ~config.appMayFail
      BY <1>16, Zenon DEF Piped, Healthy
    <2>2. ~g.gone
      BY <1>6, <1>10, <2>1
    <2>3. \A t \in Side, j \in Ids : ~app'[t][j].gone
      BY <1>10, <2>1, <2>2, Zenon DEF OthersStay, Calm
    <2>4. QED
      BY <1>4, <1>15, <2>1, <2>3, Zenon DEF Calm, KeepsSessions
  <1>17. Became(s, i, b, net[s])
    <2>1. Tidy(i, stream[s][i], b, app'[s][i]) /\ Held(b) = Held(stream[s][i])
          /\ b.remote_fin_received = stream[s][i].remote_fin_received
      BY <1>10, <1>11, <1>13, <1>14
    <2>2. b \in StreamRec(Frame) /\ FramesAbout(b.out, i) /\ OthersStay(s, i)
      BY <1>8, <1>10, <1>12
    <2>3. QED
      BY <1>1, <1>4, <1>9, <1>16, <2>1, <2>2, BecameQuiet
  <1>18. QED
    BY <1>1, <1>4, <1>17, BecamePiped

-----------------------------------------------------------------------------
(* A frame is taken off the wire.                                           *)

\* What consume_stream_bytes makes of the stream the frame is about.
Consumed(s, f, r, b) ==
    \/ f.cmd = "syn" /\ b = IF InStreams(s, f.id) THEN r
                            ELSE NewStream(IF config.unixSockets THEN "connect" ELSE "resolve")
    \/ f.cmd # "syn" /\ ~InStreams(s, f.id) /\ b = r
    \/ f.cmd = "fin" /\ InStreams(s, f.id) /\ b = OnFin(r)
    \/ f.cmd = "psh" /\ InStreams(s, f.id) /\ b = OnData(f.id, r, f.data)
    \/ f.cmd = "upd" /\ InStreams(s, f.id) /\ b = OnUpdate(s, f.id, r, f.consumed, f.window)

LEMMA ConsumedTook ==
    ASSUME Types, Order, NEW s \in Side, net[s] # <<>>, NEW f, f = Head(net[s]),
           NEW r, r = stream[s][f.id], NEW e, Arrives(f, r, e), NEW b, Consumed(s, f, r, b)
    PROVE  Took(f, r, b, e)
  <1>1. f \in Frame /\ f.id \in Ids
    BY DEF Arrives, Frame
  <1>2. ~r.created => r = NoStream
    BY <1>1, StreamHere
  <1>3. r.created <=> f.cmd # "syn"
    BY SynOfNew
  <1>4. InStreams(s, f.id) <=> r.created /\ ~r.closed
    BY DEF InStreams
  <1>5. CASE f.cmd = "syn" /\ b = IF InStreams(s, f.id) THEN r
                                  ELSE NewStream(IF config.unixSockets THEN "connect" ELSE "resolve")
    <2>1. PICK phase : phase = IF config.unixSockets THEN "connect" ELSE "resolve"
      OBVIOUS
    <2>2. r = NoStream /\ b = NewStream(phase) /\ phase \in {"resolve", "connect"}
      BY <1>2, <1>3, <1>4, <1>5, <2>1
    <2>3. Arrives(f, NoStream, e)
      BY <2>2
    <2>4. Took(f, NoStream, NewStream(phase), e)
      BY <1>5, <2>2, <2>3, TookSyn
    <2>5. QED
      BY <2>2, <2>4
  <1>6. CASE f.cmd # "syn" /\ ~InStreams(s, f.id) /\ b = r
    <2>1. r.closed
      BY <1>3, <1>4, <1>6
    <2>2. Took(f, r, r, e)
      BY <2>1, TookNot
    <2>3. QED
      BY <1>6, <2>2
  <1>7. CASE f.cmd = "fin" /\ InStreams(s, f.id) /\ b = OnFin(r)
    <2>1. Took(f, r, OnFin(r), e)
      BY <1>7, TookFin
    <2>2. QED
      BY <1>7, <2>1
  <1>8. CASE f.cmd = "psh" /\ InStreams(s, f.id) /\ b = OnData(f.id, r, f.data)
    <2>1. Took(f, r, OnData(f.id, r, f.data), e)
      BY <1>4, <1>8, TookData
    <2>2. QED
      BY <1>8, <2>1
  <1>9. CASE f.cmd = "upd" /\ InStreams(s, f.id) /\ b = OnUpdate(s, f.id, r, f.consumed, f.window)
    <2>1. Took(f, r, OnUpdate(s, f.id, r, f.consumed, f.window), e)
      BY <1>9, TookUpd
    <2>2. QED
      BY <1>9, <2>1
  <1>10. QED
    BY <1>5, <1>6, <1>7, <1>8, <1>9, Zenon DEF Consumed

\* The frame that comes next, by what is on the wire.
LEMMA NextArrives ==
    ASSUME Types, Piped, NEW s \in Side, NEW q \in Seq(Frame), q = net[s], q # <<>>,
           NEW i \in Ids, NEW f, f = Head(q), i = f.id
    PROVE  Arrives(f, stream[s][i], app[s][i])
  <1>1. PICK r, e : r = stream[s][i] /\ e = app[s][i]
    OBVIOUS
  <1>2. r \in StreamRec(FramesOf(f.id)) /\ r.out = <<>> /\ Sound(r) /\ e \in AppRec
    BY <1>1, StreamHere DEF Types, AppRec
  <1>3. f \in Frame /\ f = q[1] /\ 1 \in 1..Len(q)
    BY TailFrames
  <1>4. Fit(f.id, r, e)
    BY <1>1, Zenon DEF Piped
  <1>5. ASSUME First PROVE f.cmd # "upd"
    <2>1. NoUpd(q)
      BY <1>5, Zenon DEF Piped
    <2>2. QED
      BY <1>3, <2>1, Zenon DEF NoUpd
  <1>6. ASSUME First, Healthy, f.cmd = "psh" PROVE ~r.remote_fin_received
    <2>1. Paired(i, r, stream[Peer(s)][i], q)
      BY <1>1, <1>6, Zenon DEF Piped
    <2>2. IsPsh(q[1], i)
      BY <1>3, <1>6, Zenon DEF IsPsh
    <2>3. QED
      BY <1>3, <2>1, <2>2, Zenon DEF Paired
  <1>7. QED
    BY <1>1, <1>2, <1>3, <1>4, <1>5, <1>6, Zenon DEF Arrives

LEMMA NoUpdTail ==
    ASSUME NEW q \in Seq(Frame), q # <<>>, NoUpd(q)
    PROVE  NoUpd(Tail(q))
  <1>1. PICK t : t = Tail(q)
    BY Zenon
  <1>2. \A k \in 1..Len(t) : k + 1 \in 1..Len(q) /\ t[k] = q[k + 1]
    BY <1>1, TailFrames
  <1>3. \A k \in 1..Len(t) : t[k].cmd # "upd"
    BY <1>2 DEF NoUpd
  <1>4. QED
    BY <1>1, <1>3 DEF NoUpd

\* The frame is about one stream only.
LEMMA PairedPasses ==
    ASSUME NEW j, NEW to \in StreamRec(Frame), NEW from, NEW q \in Seq(Frame), q # <<>>,
           Head(q).id # j, Paired(j, to, from, q)
    PROVE  Paired(j, to, from, Tail(q))
  <1>1. Data(Head(q), j) = <<>>
    BY Zenon DEF Data
  <1>2. Held(to) \in Seq(Item)
    BY HeldType
  <1>3. Held(to) = Held(to) \o Data(Head(q), j)
    BY <1>1, <1>2, ConcatEmptySeq
  <1>4. QED
    BY <1>3, PairedTake

LEMMA FramePiped ==
    ASSUME SmuxInv, Piped, NEW s \in Side, UNCHANGED <<config, app, linkUp, exited, session>>,
           net[s] # <<>>, NEW b, Consumed(s, Head(net[s]), stream[s][Head(net[s]).id], b),
           stream' = [stream EXCEPT ![s][Head(net[s]).id] = [b EXCEPT !.out = <<>>]],
           net' = [net EXCEPT ![s] = Tail(@), ![Peer(s)] = Transmitted(s, @, b.out)]
    PROVE  Piped' /\ AllGrow
  <1>1. Types /\ Order
    BY DEF SmuxInv
  <1>2. PICK q, f, t : q = net[s] /\ f = Head(q) /\ t = Tail(q)
    BY Zenon
  <1>3. q \in Seq(Frame) /\ q # <<>>
    BY <1>1, <1>2 DEF Types
  <1>4. f \in Frame /\ t \in Seq(Frame)
    BY <1>2, <1>3, HeadTailProperties
  <1>5. PICK i \in Ids : i = f.id
    BY <1>4 DEF Frame
  <1>6. PICK a, e : a = stream[s][i] /\ e = app[s][i]
    OBVIOUS
  <1>7. Arrives(f, a, e)
    BY <1>1, <1>2, <1>3, <1>5, <1>6, NextArrives
  <1>8. Took(f, a, b, e)
    BY <1>1, <1>2, <1>5, <1>6, <1>7, ConsumedTook, Zenon
  <1>9. Effect(s, i, b, t)
    <2>1. PICK p : p = Peer(s)
      OBVIOUS
    <2>2. net \in [Side -> Seq(Frame)] /\ p \in Side /\ p # s
      BY <1>1, <2>1, Sides DEF Types
    <2>3. net' = [net EXCEPT ![s] = t, ![p] = Transmitted(s, @, b.out)]
      BY <1>2, <2>1, <2>2, Zenon
    <2>4. stream' = [stream EXCEPT ![s][i] = Cleared(b)]
      BY <1>2, <1>5 DEF Cleared
    <2>5. QED
      BY <2>1, <2>3, <2>4, Zenon DEF Effect
  <1>10. b \in StreamRec(FramesOf(i)) /\ Tidy(i, a, b, e)
    BY <1>5, <1>8, Zenon DEF Took
  <1>11. b \in StreamRec(Frame) /\ FramesAbout(b.out, i)
    <2>1. b.out \in Seq(FramesOf(i))
      BY <1>10 DEF StreamRec
    <2>2. QED
      BY <1>10, <2>1, StreamRecFrame, FramesOfFacts
  <1>12. \A u \in Side, j \in Ids : Fit(j, stream[u][j], app'[u][j])
    BY Zenon DEF Piped
  <1>13. First => NoUpd(t)
    BY <1>2, <1>3, NoUpdTail, Zenon DEF Piped
  <1>14. ASSUME First, Healthy PROVE Calm'
    <2>1. Calm
      BY <1>14, Zenon DEF Piped
    <2>2. QED
      BY <2>1, SameSessions, CalmKept
  <1>15. ASSUME First, Healthy
         PROVE  /\ Paired(i, b, stream[Peer(s)][i], t)
                /\ \A j \in Ids : j # i => Paired(j, stream[s][j], stream[Peer(s)][j], t)
    <2>1. \A j \in Ids : Paired(j, stream[s][j], stream[Peer(s)][j], q)
      BY <1>2, <1>15, Zenon DEF Piped
    <2>2. Held(b) = Held(a) \o Data(f, i)
          /\ (b.remote_fin_received => a.remote_fin_received \/ IsFin(f, i))
      BY <1>5, <1>8, <1>15, Zenon DEF Took, IsFin
    <2>3. a \in StreamRec(Frame)
      BY <1>1, <1>6, StreamHere
    <2>4. Paired(i, b, stream[Peer(s)][i], t)
      BY <1>2, <1>3, <1>6, <2>1, <2>2, <2>3, PairedTake, Zenon
    <2>5. ASSUME NEW j \in Ids, j # i PROVE Paired(j, stream[s][j], stream[Peer(s)][j], t)
      <3>1. stream[s][j] \in StreamRec(Frame)
        BY <1>1, StreamHere
      <3>2. QED
        BY <1>2, <1>3, <1>5, <2>1, <2>5, <3>1, PairedPasses
    <2>6. QED
      BY <2>4, <2>5
  <1>16. Tidy(i, stream[s][i], b, app'[s][i])
    BY <1>6, <1>10
  <1>17. Became(s, i, b, t)
    BY <1>4, <1>9, <1>11, <1>12, <1>13, <1>14, <1>15, <1>16, Zenon DEF Became
  <1>18. QED
    BY <1>1, <1>17, BecamePiped

-----------------------------------------------------------------------------
(* A session ends.                                                          *)

\* Close ends a stream whose application may still have something to send.
LEMMA ClosePipe ==
    ASSUME Types, NEW s \in Side, NEW i \in Ids, NEW e, NEW c,
           c = IF stream[s][i].created THEN Cleared(Close(i, stream[s][i])) ELSE stream[s][i]
    PROVE  /\ Grows(stream[s][i], c)
           /\ Reader(i, stream[s][i], e) => Reader(i, c, e)
  <1>1. PICK a, b : a = stream[s][i] /\ b = Close(i, a)
    OBVIOUS
  <1>2. a \in StreamRec(FramesOf(i)) /\ a \in StreamRec(Frame) /\ Sound(a)
    BY <1>1, StreamHere
  <1>3. CASE a.created
    <2>1. c = Cleared(b)
      BY <1>1, <1>3
    <2>2. b \in StreamRec(FramesOf(i))
      BY <1>1, <1>2, CloseKeeps
    <2>3. /\ SameWrites(a, b) /\ b.closed
          /\ b.tcp_ready = a.tcp_ready /\ b.phase = a.phase /\ b.queued = a.queued
          /\ b.reads = 0 /\ b.done = <<>> /\ b.pending_outbound = <<>>
      BY <1>1, <1>2, ClosedStream
    <2>4. Grows(a, b)
      <3>1. b.delivered = a.delivered /\ b.send_shut = a.send_shut
        BY <2>3, Zenon DEF SameWrites
      <3>2. QED
        BY <1>2, <2>3, <3>1, GrowsSame
    <2>5. Grows(a, c)
      BY <2>1, <2>2, <2>4, ClearedGrows
    <2>6. ASSUME Reader(i, a, e) PROVE Reader(i, c, e)
      <3>1. b.reads + Len(b.done) <= 1
        BY <2>3
      <3>2. Reader(i, b, e)
        BY <2>3, <2>6, <3>1, Zenon DEF Reader
      <3>3. SameReads(b, c) /\ c.closed = b.closed
        BY <2>1, <2>2, ClearedSame, ClearedFacts
      <3>4. QED
        BY <3>2, <3>3, ReaderSame
    <2>7. QED
      BY <1>1, <2>5, <2>6
  <1>4. CASE ~a.created
    <2>1. c = a
      BY <1>1, <1>4
    <2>2. Grows(a, a)
      BY <1>2, GrowsSame
    <2>3. QED
      BY <1>1, <2>1, <2>2
  <1>5. QED
    BY <1>3, <1>4

LEMMA CloseStreams ==
    ASSUME Types, NEW s \in Side, SessionClose(s), NEW t \in Side, NEW i \in Ids, NEW e
    PROVE  /\ Grows(stream[t][i], stream'[t][i])
           /\ Reader(i, stream[t][i], e) => Reader(i, stream'[t][i], e)
  <1>1. PICK g : g = [j \in Ids |-> IF stream[s][j].created THEN Cleared(Close(j, stream[s][j]))
                                    ELSE stream[s][j]]
    BY Zenon
  <1>2. stream' = [stream EXCEPT ![s] = g]
    BY <1>1, Zenon DEF SessionClose, Cleared
  <1>3. stream'[s] = g /\ (t # s => stream'[t] = stream[t])
    BY <1>2 DEF Types
  <1>4. CASE t = s
    <2>1. PICK c : c = IF stream[s][i].created THEN Cleared(Close(i, stream[s][i]))
                       ELSE stream[s][i]
      OBVIOUS
    <2>2. stream'[s][i] = c
      BY <1>1, <1>3, <2>1
    <2>3. /\ Grows(stream[s][i], c)
          /\ Reader(i, stream[s][i], e) => Reader(i, c, e)
      BY <2>1, ClosePipe
    <2>4. QED
      BY <1>4, <2>2, <2>3
  <1>5. CASE t # s
    <2>1. stream'[t][i] = stream[t][i]
      BY <1>3, <1>5
    <2>2. Grows(stream[t][i], stream[t][i])
      <3>1. stream[t][i] \in StreamRec(Frame)
        BY StreamHere
      <3>2. QED
        BY <3>1, GrowsSame
    <2>3. QED
      BY <2>1, <2>2
  <1>6. QED
    BY <1>4, <1>5

LEMMA NoUpdPrefix ==
    ASSUME NEW q \in Seq(Frame), NoUpd(q), NEW k \in 0..Len(q)
    PROVE  NoUpd(SubSeq(q, 1, k))
  <1>1. PICK u : u = SubSeq(q, 1, k)
    BY Zenon
  <1>2. Len(u) = k /\ \A j \in 1..k : u[j] = q[j]
    BY <1>1, SubSeqProperties, LenProperties, ElementOfSeq
  <1>3. Len(q) \in Nat
    BY LenProperties
  <1>4. \A j \in 1..Len(u) : u[j].cmd # "upd"
    BY <1>2, <1>3 DEF NoUpd
  <1>5. QED
    BY <1>1, <1>4 DEF NoUpd

LEMMA ClosePiped ==
    ASSUME Types, Piped, UNCHANGED <<config, app>>, NEW s \in Side, SessionClose(s),
           ~(First /\ Healthy)
    PROVE  Piped' /\ AllGrow
  <1>1. PICK p : p = Peer(s)
    OBVIOUS
  <1>2. p \in Side /\ \A t \in Side : t = s \/ t = p
    BY <1>1, Sides
  <1>3. AllGrow
    BY CloseStreams DEF AllGrow
  <1>4. ASSUME First', NEW t \in Side, NEW i \in Ids PROVE Reader(i, stream'[t][i], app'[t][i])
    <2>1. Reader(i, stream[t][i], app[t][i])
      BY <1>4, FirstSame, Zenon DEF Piped, Fit
    <2>2. Reader(i, stream'[t][i], app[t][i])
      BY <2>1, CloseStreams
    <2>3. QED
      BY <2>2
  <1>5. ASSUME First', NEW t \in Side PROVE NoUpd(net'[t])
    <2>1. NoUpd(net[p])
      BY <1>2, <1>5, FirstSame, Zenon DEF Piped
    <2>2. net'[s] = <<>>
      BY CloseEffect
    <2>3. PICK k \in 0..Len(net[p]) : net'[p] = SubSeq(net[p], 1, k)
      BY <1>1, CloseEffect
    <2>4. NoUpd(net'[s])
      BY <2>2 DEF NoUpd
    <2>5. NoUpd(net'[p])
      <3>1. PICK q : q = net[p]
        OBVIOUS
      <3>2. q \in Seq(Frame)
        BY <1>2, <3>1 DEF Types
      <3>3. NoUpd(SubSeq(q, 1, k))
        BY <2>1, <2>3, <3>1, <3>2, NoUpdPrefix
      <3>4. QED
        BY <2>3, <3>1, <3>3
    <2>6. QED
      BY <1>2, <2>4, <2>5
  <1>6. ~(First' /\ Healthy') /\ config' \in Scenarios
    BY FirstSame DEF Piped
  <1>7. \A t \in Side, i \in Ids : Fit(i, stream[t][i], app[t][i])'
    BY <1>4, <1>6, Zenon DEF Fit
  <1>8. QED
    BY <1>3, <1>5, <1>6, <1>7, Zenon DEF Piped, NoUpd

LEMMA TimeoutPiped ==
    ASSUME Types, Piped, UNCHANGED config, NEW s \in Side, KeepaliveTimeout(s)
    PROVE  Piped' /\ AllGrow
  <1>1. SessionClose(s) /\ app' = app
    BY DEF KeepaliveTimeout
  <1>2. ~linkUp \/ session[Peer(s)].closed \/ Peer(s) \in exited
    BY DEF KeepaliveTimeout, Running
  <1>3. ~(First /\ Healthy)
    <2>1. ~Calm
      BY <1>2, Sides DEF Calm
    <2>2. QED
      BY <2>1, Zenon DEF Piped
  <1>4. QED
    BY <1>1, <1>3, ClosePiped

LEMMA ScavengePiped ==
    ASSUME Types, Piped, UNCHANGED config, Scavenge
    PROVE  Piped' /\ AllGrow
  <1>1. SessionClose("client") /\ app' = app /\ "client" \in Side /\ config.linkMayFail
    BY DEF Scavenge, Side
  <1>2. ~Healthy
    BY <1>1 DEF Healthy
  <1>3. QED
    BY <1>1, <1>2, ClosePiped

LEMMA ReceiveFramePiped ==
    ASSUME SmuxInv, Piped, UNCHANGED config, NEW s \in Side, ReceiveFrame(s)
    PROVE  Piped' /\ AllGrow
  <1>1. Types
    BY DEF SmuxInv
  <1>2. PICK f, r, phase : /\ f = Head(net[s]) /\ r = stream[s][f.id]
                           /\ phase = IF config.unixSockets THEN "connect" ELSE "resolve"
    OBVIOUS
  <1>3. net[s] # <<>> /\ UNCHANGED <<app, linkUp, exited>>
    BY Zenon DEF ReceiveFrame
  <1>4. CASE ~VersionAccepted(s) /\ SessionClose(s)
    <2>1. ~Healthy
      BY <1>4 DEF VersionAccepted, Healthy, Peer, Side
    <2>2. QED
      BY <1>1, <1>3, <1>4, <2>1, ClosePiped
  <1>5. ASSUME NEW b, UNCHANGED session,
               stream' = [stream EXCEPT ![s][f.id] = [b EXCEPT !.out = <<>>]],
               net' = [net EXCEPT ![s] = Tail(@), ![Peer(s)] = Transmitted(s, @, b.out)],
               \/ f.cmd = "syn" /\ b = IF InStreams(s, f.id) THEN r ELSE NewStream(phase)
               \/ f.cmd # "syn" /\ ~InStreams(s, f.id) /\ b = r
               \/ f.cmd = "fin" /\ InStreams(s, f.id) /\ b = OnFin(r)
               \/ f.cmd = "psh" /\ InStreams(s, f.id) /\ b = OnData(f.id, r, f.data)
               \/ f.cmd = "upd" /\ InStreams(s, f.id) /\ b = OnUpdate(s, f.id, r, f.consumed, f.window)
        PROVE  Piped' /\ AllGrow
    <2>1. Consumed(s, f, r, b)
      BY <1>2, <1>5, Zenon DEF Consumed
    <2>2. QED
      BY <1>2, <1>3, <1>5, <2>1, FramePiped, Zenon
  <1>6. QED
    BY <1>2, <1>4, <1>5, Zenon DEF ReceiveFrame

-----------------------------------------------------------------------------
LEMMA PipedInit == Init => Piped
  <1>1. SUFFICES ASSUME Init PROVE Piped
    OBVIOUS
  <1>2. /\ stream = [s \in Side |-> [i \in Ids |-> NoStream]]
        /\ net = [s \in Side |-> <<>>]
        /\ session = [s \in Side |-> [closed |-> FALSE, next_stream_id |-> IF s = "client" THEN 1 ELSE 0]]
        /\ app = [s \in Side |-> [i \in Ids |-> NoApp]]
        /\ config \in Scenarios /\ linkUp = TRUE /\ exited = {}
    BY <1>1, Zenon DEF Init
  <1>3. /\ \A s \in Side, i \in Ids : stream[s][i] = NoStream /\ app[s][i] = NoApp
        /\ \A s \in Side : net[s] = <<>> /\ ~session[s].closed
    BY <1>2
  <1>4. Calm
    BY <1>2, <1>3 DEF Calm, NoApp
  <1>5. ASSUME NEW i \in Ids PROVE Fit(i, NoStream, NoApp)
    <2>1. /\ NoStream.reads + Len(NoStream.done) <= 1 /\ ~NoStream.tcp_ready
          /\ NoStream.reads = 0 /\ NoStream.done = <<>> /\ NoStream.pending_outbound = <<>>
          /\ NoStream.queued = <<>>
      BY DEF NoStream
    <2>2. NoApp.taken = 0 /\ NoApp.taken <= NoApp.sent /\ 0 \in 0..NoApp.taken
      BY DEF NoApp
    <2>3. AppBytes(i, 0, 0) = <<>>
      BY AppBytesNone
    <2>4. InHand(NoStream) = <<>> /\ <<>> \o <<>> = <<>>
      <3>1. <<>> \in Seq(Item)
        BY EmptySeq
      <3>2. QED
        BY <2>1, <3>1, ConcatEmptySeq, Zenon DEF InHand
    <2>5. Reader(i, NoStream, NoApp)
      BY <2>1, <2>2, <2>3, <2>4, Zenon DEF Reader
    <2>6. Finished(i, NoStream, NoApp) /\ Drained(NoStream)
      BY DEF Finished, Drained, NoStream
    <2>7. QED
      BY <2>5, <2>6, Zenon DEF Fit
  <1>6. NoUpd(<<>>)
    BY DEF NoUpd
  <1>7. ASSUME NEW i PROVE Paired(i, NoStream, NoStream, <<>>)
    <2>1. <<>> \in Seq(Item) /\ <<>> \o <<>> = <<>>
      BY EmptySeq, ConcatEmptySeq
    <2>2. Held(NoStream) = <<>> /\ PayloadOf(<<>>, i) = <<>>
      BY <2>1, NoStreamIdle, FlattenEmpty, PayloadEmpty, Zenon DEF Held
    <2>3. 1..Len(<<>>) = {}
      OBVIOUS
    <2>4. QED
      BY <2>1, <2>2, <2>3, NoStreamIdle, NoStreamFields, Zenon DEF Paired
  <1>8. \A s \in Side, i \in Ids : Paired(i, stream[s][i], stream[Peer(s)][i], net[s])
    BY <1>3, <1>7, Sides
  <1>9. QED
    BY <1>2, <1>3, <1>4, <1>5, <1>6, <1>8, Zenon DEF Piped

LEMMA PipedNext ==
    ASSUME SmuxInv, Piped, [Next]_vars
    PROVE  Piped' /\ AllGrow
  <1>1. Types
    BY DEF SmuxInv
  <1>2. CASE UNCHANGED vars
    <2>1. UNCHANGED <<config, session, stream, net, app, linkUp, exited>>
      BY <1>2 DEF vars
    <2>2. \A t \in Side, j \in Ids : Fit(j, stream[t][j], app'[t][j])
      BY <2>1, Zenon DEF Piped
    <2>3. First /\ Healthy => Calm'
      <3>1. SUFFICES ASSUME First, Healthy PROVE Calm'
        OBVIOUS
      <3>2. Calm
        BY <3>1, Zenon DEF Piped
      <3>3. QED
        BY <2>1, <3>2, SameSessions, CalmKept
    <2>4. QED
      BY <1>1, <2>1, <2>2, <2>3, SamePiped
  <1>3. ASSUME EnvironmentStep PROVE Piped' /\ AllGrow
    <2>1. UNCHANGED config
      BY <1>3 DEF EnvironmentStep
    <2>2. CASE HandleAccept
      BY <2>1, <2>2, AcceptPiped
    <2>3. ASSUME NEW s \in Side, NEW i \in Ids, AppSend(s, i) \/ AppEof(s, i) \/ AppReset(s, i)
          PROVE  Piped' /\ AllGrow
      BY <1>1, <2>1, <2>3, AppPiped
    <2>4. CASE Scavenge
      BY <1>1, <2>1, <2>4, ScavengePiped
    <2>5. CASE LinkDown
      BY <1>1, <2>1, <2>5, LinkPiped
    <2>6. QED
      BY <1>3, <2>2, <2>3, <2>4, <2>5, Zenon DEF EnvironmentStep
  <1>4. ASSUME NEW s \in Side, ProcessStep(s) PROVE Piped' /\ AllGrow
    <2>1. UNCHANGED config
      BY <1>4 DEF ProcessStep
    <2>2. CASE ReceiveFrame(s)
      BY <2>1, <2>2, ReceiveFramePiped
    <2>3. CASE KeepaliveTimeout(s)
      BY <1>1, <2>1, <2>3, TimeoutPiped
    <2>4. ASSUME NEW i \in Ids, Receive(s, i) PROVE Piped' /\ AllGrow
      BY <1>1, <2>1, <2>4, ReceivePiped
    <2>5. ASSUME NEW i \in Ids,
                 \/ ReadHandler(s, i) \/ WriteHandler(s, i) \/ CloseTimer(s, i)
                 \/ s = "server" /\ ResolveDone(i)
          PROVE  Piped' /\ AllGrow
      BY <1>1, <2>1, <2>5, HandlersPiped
    <2>6. ASSUME NEW i \in Ids, ConnectDone(i) PROVE Piped' /\ AllGrow
      BY <1>1, <2>1, <2>6, ConnectPiped
    <2>7. QED
      BY <1>4, <2>2, <2>3, <2>4, <2>5, <2>6, Zenon DEF ProcessStep
  <1>5. QED
    BY <1>2, <1>3, <1>4, Zenon DEF Next

-----------------------------------------------------------------------------
(* What has been delivered, and announced.                                  *)

LEMMA PrefixOfSent ==
    ASSUME NEW i \in Ids, NEW n \in Nat, NEW d \in Seq(Item), IsPrefix(d, AppBytes(i, 0, n))
    PROVE  \E m \in 0..n : d = AppBytes(i, 0, m)
  <1>1. PICK q, m : q = AppBytes(i, 0, n) /\ m = Len(d)
    OBVIOUS
  <1>2. q \in Seq(Item) /\ Len(q) = n /\ m \in Nat
    BY <1>1, AppBytesSent, LenProperties
  <1>3. m <= n /\ d = SubSeq(q, 1, m)
    BY <1>1, <1>2 DEF IsPrefix
  <1>4. AppBytes(i, 0, m) = SubSeq(q, 1, m)
    BY <1>1, <1>2, <1>3, AppBytesPrefix, Zenon
  <1>5. QED
    BY <1>2, <1>3, <1>4

\* What application e has sent, up to what has been delivered to its peer.
Handed(i, d, e) == \E m \in 0..e.sent : d = AppBytes(i, 0, m)

LEMMA FirstHanded ==
    ASSUME SmuxInv, Piped, First, NEW s \in Side, NEW i \in Ids
    PROVE  Handed(i, stream[s][i].delivered, app[Peer(s)][i])
  <1>1. PICK p : p = Peer(s) /\ p \in Side
    BY Sides
  <1>2. PICK to, from, e : to = stream[s][i] /\ from = stream[p][i] /\ e = app[p][i]
    OBVIOUS
  <1>3. Types
    BY DEF SmuxInv
  <1>4. to \in StreamRec(Frame) /\ e \in AppRec /\ e.taken \in Nat /\ e.sent \in Nat
    BY <1>1, <1>2, <1>3, StreamHere DEF Types, AppRec
  <1>5. PICK n \in 0..e.taken : from.queued = AppBytes(i, 0, n)
    BY <1>1, <1>2, Zenon DEF Piped, Fit, Reader
  <1>6. e.taken <= e.sent
    BY <1>1, <1>2, Zenon DEF Piped, Fit, Reader
  <1>7. IsPrefix(to.delivered, AppBytes(i, 0, n))
    <2>1. IsPrefix(to.delivered, from.queued)
      BY <1>1, <1>2, SmuxInvConserves, Zenon DEF WireConservation
    <2>2. QED
      BY <1>5, <2>1
  <1>8. PICK m \in 0..n : to.delivered = AppBytes(i, 0, m)
    <2>1. to.delivered \in Seq(Item)
      BY <1>4, HeldType
    <2>2. n \in Nat
      BY <1>4
    <2>3. QED
      BY <1>7, <2>1, <2>2, PrefixOfSent
  <1>9. m \in 0..e.sent
    BY <1>4, <1>5, <1>6, <1>8
  <1>10. QED
    BY <1>1, <1>2, <1>8, <1>9 DEF Handed

\* Nothing passes between two ends of different versions.
LEMMA RefusedHanded ==
    ASSUME SmuxInv, Refused, NEW s \in Side, NEW i \in Ids
    PROVE  Handed(i, stream[s][i].delivered, app[Peer(s)][i])
  <1>1. Types
    BY DEF SmuxInv
  <1>2. PICK c \in Side, v \in Side : c = "client" /\ v = "server"
    BY DEF Side
  <1>3. stream[v][i] = NoStream
    BY <1>1, <1>2, StreamHere, Zenon DEF Refused
  <1>4. stream[s][i].delivered = <<>>
    <2>1. CASE s = v
      BY <1>3, <2>1, NoStreamIdle
    <2>2. CASE s = c
      <3>1. IsPrefix(stream[c][i].delivered, stream[Peer(c)][i].queued)
        BY SmuxInvConserves, Zenon DEF WireConservation
      <3>2. Peer(c) = v
        BY <1>2 DEF Peer
      <3>3. PICK d : d = stream[c][i].delivered
        OBVIOUS
      <3>4. IsPrefix(d, <<>>)
        BY <1>3, <3>1, <3>2, <3>3, NoStreamIdle
      <3>5. d \in Seq(Item)
        <4>1. stream[c][i] \in StreamRec(Frame)
          BY <1>1, StreamHere
        <4>2. QED
          BY <3>3, <4>1, HeldType
      <3>6. Len(d) = 0
        BY <3>4, <3>5, LenProperties DEF IsPrefix
      <3>7. QED
        BY <2>2, <3>3, <3>5, <3>6, EmptySeq
    <2>3. QED
      BY <1>2, <2>1, <2>2 DEF Side
  <1>5. app[Peer(s)][i].sent \in Nat
    BY <1>1, Sides DEF Types
  <1>6. 0 \in 0..app[Peer(s)][i].sent
    BY <1>5
  <1>7. QED
    BY <1>4, <1>6, AppBytesNone DEF Handed

\* One of the two ends speaks version 1 in every scenario.
AllFirst == \A c \in Scenarios : \E s \in Side : c.version[s] # 2

LEMMA AllHanded ==
    ASSUME AllFirst, SmuxInv, WindowInv, Piped, NEW s \in Side, NEW i \in Ids
    PROVE  Handed(i, stream[s][i].delivered, app[Peer(s)][i])
  <1>1. PICK t \in Side : Version[t] # 2
    BY DEF AllFirst, Piped, Version
  <1>2. CASE Version["client"] = Version["server"]
    <2>1. First
      BY <1>1, <1>2 DEF First, Side
    <2>2. QED
      BY <2>1, FirstHanded
  <1>3. CASE Version["client"] # Version["server"]
    <2>1. Refused
      BY <1>3, Zenon DEF WindowInv
    <2>2. QED
      BY <2>1, RefusedHanded
  <1>4. QED
    BY <1>2, <1>3

\* The end of a stream is announced when everything has been delivered.
LEMMA AllAnnounced ==
    ASSUME AllFirst, SmuxInv, Piped, Healthy, NEW s \in Side, NEW i \in Ids,
           stream[s][i].send_shut \/ stream[s][i].closed
    PROVE  /\ app[Peer(s)][i].eof
           /\ stream[s][i].delivered = AppBytes(i, 0, app[Peer(s)][i].sent)
  <1>1. PICK p : p = Peer(s) /\ p \in Side
    BY Sides
  <1>2. PICK to, from, e, q : to = stream[s][i] /\ from = stream[p][i] /\ e = app[p][i] /\ q = net[s]
    OBVIOUS
  <1>3. Types
    BY DEF SmuxInv
  <1>4. to \in StreamRec(Frame) /\ q \in Seq(Frame)
    BY <1>2, <1>3, StreamHere DEF Types
  <1>5. First
    <2>1. PICK t \in Side : Version[t] # 2
      BY DEF AllFirst, Piped, Version
    <2>2. Version["client"] = Version["server"]
      BY DEF Healthy
    <2>3. QED
      BY <2>1, <2>2 DEF First, Side
  <1>6. Drained(to) /\ Finished(i, from, e) /\ Paired(i, to, from, q)
    BY <1>1, <1>2, <1>5, Zenon DEF Piped, Fit
  <1>7. to.remote_fin_received /\ to.pending_tcp_writes = <<>>
    BY <1>2, <1>6, Zenon DEF Drained
  <1>8. from.local_fin_sent /\ e.eof /\ from.queued = AppBytes(i, 0, e.sent)
    BY <1>6, <1>7, Zenon DEF Paired, Finished
  <1>9. PayloadOf(q, i) = <<>>
    <2>1. \A k \in 1..Len(q) : ~(q[k].cmd = "psh" /\ q[k].id = i)
      BY <1>6, <1>7, Zenon DEF Paired, IsPsh
    <2>2. QED
      BY <1>4, <2>1, PayloadNone
  <1>10. from.queued = to.delivered
    <2>1. to.delivered \in Seq(Item)
      BY <1>4, HeldType
    <2>2. Held(to) = to.delivered
      <3>1. Held(to) = to.delivered \o <<>>
        BY <1>7, FlattenEmpty, Zenon DEF Held
      <3>2. QED
        BY <2>1, <3>1, ConcatEmptySeq
    <2>3. from.queued = to.delivered \o <<>>
      BY <1>6, <1>9, <2>2, Zenon DEF Paired
    <2>4. QED
      BY <2>1, <2>3, ConcatEmptySeq
  <1>11. QED
    BY <1>1, <1>2, <1>8, <1>10

-----------------------------------------------------------------------------
(* The streams implement StreamPipe.                                        *)

PipeInv ==
    \A s \in Side, i \in Ids :
        /\ Handed(i, stream[s][i].delivered, app[Peer(s)][i])
        /\ app[s][i] \in AppRec
        /\ Healthy /\ (stream[s][i].send_shut \/ stream[s][i].closed) =>
              /\ app[Peer(s)][i].eof
              /\ stream[s][i].delivered = AppBytes(i, 0, app[Peer(s)][i].sent)

LEMMA PipeInvHolds ==
    ASSUME AllFirst, SmuxInv, WindowInv, Piped
    PROVE  PipeInv
  <1>1. \A s \in Side, i \in Ids : Handed(i, stream[s][i].delivered, app[Peer(s)][i])
    BY AllHanded
  <1>2. \A s \in Side, i \in Ids : app[s][i] \in AppRec
    BY DEF SmuxInv, Types, AppRec
  <1>3. ASSUME NEW s \in Side, NEW i \in Ids, Healthy, stream[s][i].send_shut \/ stream[s][i].closed
        PROVE  /\ app[Peer(s)][i].eof
               /\ stream[s][i].delivered = AppBytes(i, 0, app[Peer(s)][i].sent)
    BY <1>3, AllAnnounced
  <1>4. QED
    BY <1>1, <1>2, <1>3, Zenon DEF PipeInv

\* A step in which no application sends or ends.
NoneSends ==
    \A s \in Side, i \in Ids : app'[s][i].sent = app[s][i].sent /\ app'[s][i].eof = app[s][i].eof

LEMMA NoneSendsGone ==
    ASSUME Types, NEW s \in Side, NEW i \in Ids, NEW gone \in BOOLEAN,
           app' = [app EXCEPT ![s][i].gone = gone]
    PROVE  NoneSends
  <1>1. PICK g : BecameGone(s, i, g, gone)
    BY GoneApp, Zenon
  <1>2. QED
    BY <1>1, Zenon DEF BecameGone, OthersStay, NoneSends

LEMMA NoneSendsTaken ==
    ASSUME Types, NEW s \in Side, NEW i \in Ids, NEW n, app' = [app EXCEPT ![s][i].taken = @ + n]
    PROVE  NoneSends
  <1>1. PICK e, g : e = app[s][i] /\ g = [e EXCEPT !.taken = e.taken + n]
    BY Zenon
  <1>2. app' = [app EXCEPT ![s][i] = g]
    BY <1>1
  <1>3. app'[s][i] = g /\ OthersStay(s, i)
    BY <1>2, AppField, Zenon
  <1>4. e \in AppRec
    BY <1>1 DEF Types, AppRec
  <1>5. g.sent = e.sent /\ g.eof = e.eof
    BY <1>1, <1>4, Zenon DEF AppRec
  <1>6. QED
    BY <1>1, <1>3, <1>5, Zenon DEF OthersStay, NoneSends

\* Only the applications themselves send and end.
LEMMA StepsByApps ==
    ASSUME Types, [Next]_vars
    PROVE  /\ UNCHANGED config
           /\ NoneSends \/ \E s \in Side, i \in Ids : AppSend(s, i) \/ AppEof(s, i)
  <1>1. CASE app' = app /\ UNCHANGED config
    BY <1>1 DEF NoneSends
  <1>2. CASE UNCHANGED vars
    BY <1>1, <1>2 DEF vars
  <1>3. ASSUME EnvironmentStep
        PROVE  /\ UNCHANGED config
               /\ NoneSends \/ \E s \in Side, i \in Ids : AppSend(s, i) \/ AppEof(s, i)
    <2>1. UNCHANGED config
      BY <1>3 DEF EnvironmentStep
    <2>2. CASE HandleAccept
      <3>1. PICK i : i = NextStreamId(session["client"].next_stream_id)
        OBVIOUS
      <3>2. i \in Ids /\ "client" \in Side
        BY <2>2, <3>1, Zenon DEF HandleAccept, Side
      <3>3. PICK gone \in (IF config.appMayFail THEN BOOLEAN ELSE {FALSE}) :
               app' = [app EXCEPT !["client"][i].gone = gone]
        BY <2>2, <3>1, Zenon DEF HandleAccept
      <3>4. gone \in BOOLEAN
        BY <3>3, Zenon
      <3>5. QED
        BY <2>1, <3>2, <3>3, <3>4, NoneSendsGone, Zenon
    <2>3. ASSUME NEW s \in Side, NEW i \in Ids, AppReset(s, i) PROVE NoneSends
      <3>1. app' = [app EXCEPT ![s][i].gone = TRUE]
        BY <2>3 DEF AppReset
      <3>2. QED
        BY <3>1, NoneSendsGone, Zenon
    <2>4. CASE Scavenge \/ LinkDown
      BY <1>1, <2>1, <2>4 DEF Scavenge, LinkDown
    <2>5. QED
      BY <1>3, <2>1, <2>2, <2>3, <2>4, Zenon DEF EnvironmentStep
  <1>4. ASSUME NEW s \in Side, ProcessStep(s) PROVE UNCHANGED config /\ NoneSends
    <2>1. UNCHANGED config
      BY <1>4 DEF ProcessStep
    <2>2. CASE app' = app
      BY <2>1, <2>2 DEF NoneSends
    <2>3. ASSUME NEW i \in Ids, Receive(s, i) PROVE NoneSends
      <3>1. app' = app \/ \E n : app' = [app EXCEPT ![s][i].taken = @ + n]
        BY <2>3, Zenon DEF Receive
      <3>2. QED
        BY <2>2, <3>1, NoneSendsTaken
    <2>4. ASSUME NEW i \in Ids, ConnectDone(i) PROVE NoneSends
      <3>1. "server" \in Side
        BY DEF Side
      <3>2. app' = app \/ \E gone \in (IF config.appMayFail THEN BOOLEAN ELSE {FALSE}) :
                             app' = [app EXCEPT !["server"][i].gone = gone]
        BY <2>4, Zenon DEF ConnectDone
      <3>3. app' = app \/ \E gone \in BOOLEAN : app' = [app EXCEPT !["server"][i].gone = gone]
        BY <3>2, Zenon
      <3>4. QED
        BY <2>2, <3>1, <3>3, NoneSendsGone
    <2>5. ASSUME NEW i \in Ids,
                 ReadHandler(s, i) \/ WriteHandler(s, i) \/ CloseTimer(s, i) \/ ResolveDone(i)
          PROVE  app' = app
      BY <2>5 DEF ReadHandler, WriteHandler, CloseTimer, ResolveDone
    <2>6. ASSUME ReceiveFrame(s) \/ KeepaliveTimeout(s) PROVE app' = app
      BY <2>6, Zenon DEF ReceiveFrame, KeepaliveTimeout
    <2>7. QED
      BY <1>4, <2>1, <2>2, <2>3, <2>4, <2>5, <2>6, Zenon DEF ProcessStep
  <1>5. QED
    BY <1>2, <1>3, <1>4, Zenon DEF Next

\* The state of StreamPipe, by name.
PWritten == [p \in Pipes |-> AppBytes(p[2], 0, app[Peer(p[1])][p[2]].sent)]
PEnded == {p \in Pipes : app[Peer(p[1])][p[2]].eof}
PDelivered == [p \in Pipes |-> stream[p[1]][p[2]].delivered]
PAnnounced == {p \in Pipes : Announced(p)}

LEMMA PipeState ==
    /\ PWritten = [p \in Pipes |-> AppBytes(p[2], 0, app[Peer(p[1])][p[2]].sent)]
    /\ PWritten' = [p \in Pipes |-> AppBytes(p[2], 0, app'[Peer(p[1])][p[2]].sent)]
    /\ PEnded = {p \in Pipes : app[Peer(p[1])][p[2]].eof}
    /\ PEnded' = {p \in Pipes : app'[Peer(p[1])][p[2]].eof}
    /\ PDelivered = [p \in Pipes |-> stream[p[1]][p[2]].delivered]
    /\ PDelivered' = [p \in Pipes |-> stream'[p[1]][p[2]].delivered]
    /\ PAnnounced = {p \in Pipes : stream[p[1]][p[2]].send_shut \/ stream[p[1]][p[2]].closed}
    /\ PAnnounced' = {p \in Pipes : stream'[p[1]][p[2]].send_shut \/ stream'[p[1]][p[2]].closed}
  BY DEF PWritten, PEnded, PDelivered, PAnnounced, Announced

LEMMA IsWrite ==
    ASSUME NEW p \in Pipes \ PEnded, NEW x \in Bytes,
           PWritten' = [PWritten EXCEPT ![p] = Append(PWritten[p], x)],
           PEnded' = PEnded, PDelivered' = PDelivered, PAnnounced' = PAnnounced, Healthy' = Healthy
    PROVE  Pipe!Write
  BY Zenon DEF Pipe!Write, PWritten, PEnded, PDelivered, PAnnounced

LEMMA IsEnd ==
    ASSUME NEW p \in Pipes \ PEnded, PEnded' = PEnded \cup {p},
           PWritten' = PWritten, PDelivered' = PDelivered, PAnnounced' = PAnnounced, Healthy' = Healthy
    PROVE  Pipe!End
  BY DEF Pipe!End, PWritten, PEnded, PDelivered, PAnnounced

LEMMA IsDeliver ==
    ASSUME \A p \in Pipes : \E n \in Len(PDelivered[p])..Len(PWritten[p]) :
               PDelivered'[p] = SubSeq(PWritten[p], 1, n),
           DOMAIN PDelivered' = Pipes, PAnnounced \subseteq PAnnounced', PAnnounced' \subseteq Pipes,
           \A p \in PAnnounced' \ PAnnounced :
               ~Healthy \/ (p \in PEnded /\ PDelivered'[p] = PWritten[p]),
           PWritten' = PWritten, PEnded' = PEnded, Healthy' = Healthy
    PROVE  Pipe!Deliver
  BY DEF Pipe!Deliver, PWritten, PEnded, PDelivered, PAnnounced

LEMMA SendWrites ==
    ASSUME Types, PipeInv, NEW bound \in Nat, \A c \in Scenarios, t \in Side : c.dataLen[t] <= bound,
           config \in Scenarios, UNCHANGED config, NEW s \in Side, NEW i \in Ids, AppSend(s, i)
    PROVE  Pipe!Write
  <1>1. PICK e, n : e = app[s][i] /\ n = e.sent
    OBVIOUS
  <1>2. e \in AppRec /\ n \in Nat /\ ~e.eof
    BY <1>1 DEF PipeInv, AppRec, AppSend
  <1>3. PICK p : p = <<Peer(s), i>>
    BY Zenon
  <1>4. p \in Pipes /\ p[1] = Peer(s) /\ p[2] = i /\ Peer(p[1]) = s
    BY <1>3, Sides DEF Pipes
  <1>5. p \notin PEnded
    BY <1>1, <1>2, <1>4, PipeState
  <1>6. PICK x : x = <<i, n + 1>>
    BY Zenon
  <1>7. n < config.dataLen[s] /\ config.dataLen[s] \in Nat
    <2>1. config \in Scenario
      BY SmuxAssumption
    <2>2. config.dataLen \in [Side -> Nat]
      BY <2>1 DEF Scenario
    <2>3. QED
      BY <1>1, <2>2 DEF AppSend
  <1>8. x \in Bytes
    <2> DEFINE D == {c.dataLen[t] : c \in Scenarios, t \in Side}
    <2>1. D = {c.dataLen[t] : c \in Scenarios, t \in Side}
      OBVIOUS
    <2> HIDE DEF D
    <2>2. D \subseteq Nat /\ config.dataLen[s] \in D /\ \A m \in D : m <= bound
      <3>1. \A c \in Scenarios : c.dataLen \in [Side -> Nat]
        BY SmuxAssumption DEF Scenario
      <3>2. QED
        BY <2>1, <3>1
    <2>3. \E m \in D : \A k \in D : m >= k
      <3>1. PICK R : R = {bound - m : m \in D}
        BY Zenon
      <3>2. R \in SUBSET Nat /\ R # {}
        <4>1. \A m \in D : bound - m \in Nat
          BY <2>2
        <4>2. R \subseteq Nat
          BY <3>1, <4>1
        <4>3. bound - config.dataLen[s] \in R
          BY <2>2, <3>1, Zenon
        <4>4. QED
          BY <4>2, <4>3
      <3>3. PICK least \in R : \A k \in R : least <= k
        BY <3>2, LeastElement
      <3>4. PICK m \in D : least = bound - m
        BY <3>1, <3>3
      <3>5. ASSUME NEW k \in D PROVE m >= k
        <4>1. bound - k \in R /\ k \in Nat /\ m \in Nat
          BY <2>2, <3>1, Zenon
        <4>2. bound - m <= bound - k
          BY <3>3, <3>4, <4>1
        <4>3. QED
          BY <4>1, <4>2
      <3>6. QED
        BY <3>5
    <2>4. Max(D) \in D /\ Max(D) >= config.dataLen[s]
      BY <2>2, <2>3 DEF Max
    <2>5. n + 1 \in 1..Max(D)
      <3>1. PICK top, len : top = Max(D) /\ len = config.dataLen[s]
        OBVIOUS
      <3>2. top \in Nat /\ len \in Nat /\ top >= len /\ n < len
        BY <1>7, <2>2, <2>4, <3>1, Zenon
      <3>3. QED
        BY <1>2, <3>1, <3>2
    <2>6. QED
      BY <1>6, <2>1, <2>5 DEF Bytes
  <1>9. PICK g : g = [e EXCEPT !.sent = n + 1]
    BY Zenon
  <1>10. g.sent = n + 1 /\ g.eof = e.eof
    BY <1>2, <1>9, Zenon DEF AppRec
  <1>11. app'[s][i] = g /\ \A t \in Side, j \in Ids : t # s \/ j # i => app'[t][j] = app[t][j]
    <2>1. app' = [app EXCEPT ![s][i] = g]
      BY <1>1, <1>9 DEF AppSend
    <2>2. app'[s][i] = g /\ OthersStay(s, i)
      BY <2>1, AppField, Zenon
    <2>3. QED
      BY <2>2, Zenon DEF OthersStay
  <1>12. \A r \in Pipes : Peer(r[1]) \in Side /\ r[2] \in Ids
                          /\ (r # p => Peer(r[1]) # s \/ r[2] # i)
    <2>1. ASSUME NEW r \in Pipes
          PROVE  Peer(r[1]) \in Side /\ r[2] \in Ids /\ (r # p => Peer(r[1]) # s \/ r[2] # i)
      <3>1. r[1] \in Side /\ r[2] \in Ids /\ r = <<r[1], r[2]>>
        BY DEF Pipes
      <3>2. Peer(r[1]) \in Side /\ (Peer(r[1]) = s => r[1] = Peer(s))
        BY <3>1, Sides
      <3>3. QED
        BY <1>3, <3>1, <3>2
    <2>2. QED
      BY <2>1
  <1>13. AppBytes(i, 0, n + 1) = Append(AppBytes(i, 0, n), x)
    <2>1. PICK u, v, w : u = AppBytes(i, 0, n) /\ v = AppBytes(i, 0, n + 1) /\ w = Append(u, x)
      BY Zenon
    <2>2. /\ u \in Seq(Item) /\ Len(u) = n /\ v \in Seq(Item) /\ Len(v) = n + 1
          /\ \A k \in 1..n : u[k] = <<i, k>>
          /\ \A k \in 1..(n + 1) : v[k] = <<i, k>>
      <3>1. n + 1 \in Nat
        BY <1>2
      <3>2. QED
        BY <1>2, <2>1, <3>1, AppBytesSent, Zenon
    <2>3. x \in Item
      BY <1>2, <1>6 DEF Item
    <2>4. w \in Seq(Item) /\ Len(w) = n + 1 /\ (\A k \in 1..n : w[k] = u[k]) /\ w[n + 1] = x
      BY <2>1, <2>2, <2>3, AppendProperties
    <2>5. ASSUME NEW k \in 1..(n + 1) PROVE w[k] = v[k]
      <3>1. CASE k \in 1..n
        BY <2>2, <2>4, <3>1, Zenon
      <3>2. CASE k = n + 1
        BY <1>6, <2>2, <2>4, <3>2, Zenon
      <3>3. QED
        BY <1>2, <3>1, <3>2
    <2>6. w = v
      BY <2>2, <2>4, <2>5, SeqEqual
    <2>7. QED
      BY <2>1, <2>6
  <1>14. PWritten' = [PWritten EXCEPT ![p] = Append(PWritten[p], x)]
    <2>1. PWritten[p] = AppBytes(i, 0, n)
      BY <1>1, <1>4, PipeState
    <2>2. AppBytes(p[2], 0, app'[Peer(p[1])][p[2]].sent) = Append(PWritten[p], x)
      BY <1>4, <1>10, <1>11, <1>13, <2>1
    <2>3. \A r \in Pipes : r # p => app'[Peer(r[1])][r[2]] = app[Peer(r[1])][r[2]]
      BY <1>11, <1>12
    <2>4. PICK y : y = Append(PWritten[p], x)
      BY Zenon
    <2>5. PWritten' = [r \in Pipes |-> IF r = p THEN y ELSE PWritten[r]]
      BY <1>4, <2>2, <2>3, <2>4, PipeState, Zenon
    <2>6. [PWritten EXCEPT ![p] = y] = [r \in Pipes |-> IF r = p THEN y ELSE PWritten[r]]
      BY PipeState
    <2>7. QED
      BY <2>4, <2>5, <2>6
  <1>15. PEnded' = PEnded
    <2>1. app'[s][i].eof = app[s][i].eof
      BY <1>1, <1>10, <1>11
    <2>2. \A r \in Pipes : app'[Peer(r[1])][r[2]].eof = app[Peer(r[1])][r[2]].eof
      BY <1>4, <1>11, <1>12, <2>1
    <2>3. QED
      BY <2>2, PipeState
  <1>16. PDelivered' = PDelivered /\ PAnnounced' = PAnnounced
    BY PipeState DEF AppSend
  <1>17. Healthy' = Healthy
    BY DEF Healthy, Version
  <1>18. QED
    BY <1>4, <1>5, <1>8, <1>14, <1>15, <1>16, <1>17, IsWrite, Zenon

LEMMA EofEnds ==
    ASSUME Types, PipeInv, UNCHANGED config, NEW s \in Side, NEW i \in Ids, AppEof(s, i)
    PROVE  Pipe!End
  <1>1. PICK e, g : e = app[s][i] /\ g = [e EXCEPT !.eof = TRUE]
    BY Zenon
  <1>2. e \in AppRec /\ ~e.eof
    BY <1>1 DEF PipeInv, AppEof
  <1>3. PICK p : p = <<Peer(s), i>>
    BY Zenon
  <1>4. p \in Pipes /\ p[1] = Peer(s) /\ p[2] = i /\ Peer(p[1]) = s
    BY <1>3, Sides DEF Pipes
  <1>5. p \notin PEnded
    BY <1>1, <1>2, <1>4, PipeState
  <1>6. g.sent = e.sent /\ g.eof
    BY <1>1, <1>2, Zenon DEF AppRec
  <1>7. app'[s][i] = g /\ \A t \in Side, j \in Ids : t # s \/ j # i => app'[t][j] = app[t][j]
    <2>1. app' = [app EXCEPT ![s][i] = g]
      BY <1>1 DEF AppEof
    <2>2. app'[s][i] = g /\ OthersStay(s, i)
      BY <2>1, AppField, Zenon
    <2>3. QED
      BY <2>2, Zenon DEF OthersStay
  <1>8. ASSUME NEW r \in Pipes
        PROVE  Peer(r[1]) \in Side /\ r[2] \in Ids /\ (r # p => Peer(r[1]) # s \/ r[2] # i)
    <2>1. r[1] \in Side /\ r[2] \in Ids /\ r = <<r[1], r[2]>>
      BY DEF Pipes
    <2>2. Peer(r[1]) \in Side /\ (Peer(r[1]) = s => r[1] = Peer(s))
      BY <2>1, Sides
    <2>3. QED
      BY <1>3, <2>1, <2>2
  <1>9. \A r \in Pipes : r # p => app'[Peer(r[1])][r[2]] = app[Peer(r[1])][r[2]]
    BY <1>7, <1>8
  <1>10. PEnded' = PEnded \cup {p}
    BY <1>4, <1>6, <1>7, <1>9, PipeState
  <1>11. PWritten' = PWritten
    <2>1. \A r \in Pipes : app'[Peer(r[1])][r[2]].sent = app[Peer(r[1])][r[2]].sent
      BY <1>1, <1>4, <1>6, <1>7, <1>9, Zenon
    <2>2. QED
      BY <2>1, PipeState
  <1>12. PDelivered' = PDelivered /\ PAnnounced' = PAnnounced
    BY PipeState DEF AppEof
  <1>13. Healthy' = Healthy
    BY DEF Healthy, Version
  <1>14. QED
    BY <1>4, <1>5, <1>10, <1>11, <1>12, <1>13, IsEnd

LEMMA NoneSendsDelivers ==
    ASSUME PipeInv, PipeInv', AllGrow, UNCHANGED config, NoneSends
    PROVE  Pipe!Deliver
  <1>1. Healthy' = Healthy
    BY DEF Healthy, Version
  <1>2. \A p \in Pipes : p[1] \in Side /\ p[2] \in Ids /\ Peer(p[1]) \in Side
    BY Sides DEF Pipes
  <1>3. \A p \in Pipes : /\ app'[Peer(p[1])][p[2]].sent = app[Peer(p[1])][p[2]].sent
                         /\ app'[Peer(p[1])][p[2]].eof = app[Peer(p[1])][p[2]].eof
    BY <1>2, Zenon DEF NoneSends
  <1>4. PWritten' = PWritten /\ PEnded' = PEnded
    BY <1>3, PipeState
  <1>5. ASSUME NEW p \in Pipes
        PROVE  \E n \in Len(PDelivered[p])..Len(PWritten[p]) : PDelivered'[p] = SubSeq(PWritten[p], 1, n)
    <2>1. PICK s \in Side, i \in Ids : s = p[1] /\ i = p[2]
      BY <1>2
    <2>2. PICK sent : sent = app[Peer(s)][i].sent
      OBVIOUS
    <2>3. sent \in Nat
      <3>1. app[Peer(s)][i] \in AppRec
        BY Sides, Zenon DEF PipeInv
      <3>2. QED
        BY <2>2, <3>1 DEF AppRec
    <2>4. PICK d, c : d = stream[s][i].delivered /\ c = stream'[s][i].delivered
      OBVIOUS
    <2>5. PICK m \in 0..sent : d = AppBytes(i, 0, m)
      BY <2>2, <2>4, Zenon DEF PipeInv, Handed
    <2>6. PICK n \in 0..sent : c = AppBytes(i, 0, n)
      <3>1. \E n \in 0..app'[Peer(s)][i].sent : c = AppBytes(i, 0, n)
        BY <2>4, Zenon DEF PipeInv, Handed
      <3>2. app'[Peer(s)][i].sent = sent
        BY <1>3, <2>1, <2>2
      <3>3. QED
        BY <3>1, <3>2
    <2>7. m \in Nat /\ n \in Nat /\ n <= sent
      BY <2>3, <2>5, <2>6
    <2>8. PICK w : w = AppBytes(i, 0, sent)
      OBVIOUS
    <2>9. Len(d) = m /\ Len(c) = n /\ Len(w) = sent /\ c \in Seq(Item) /\ d \in Seq(Item)
      BY <2>3, <2>5, <2>6, <2>7, <2>8, AppBytesSent
    <2>10. m <= n
      <3>1. PICK z \in Seq(Item) : c = d \o z
        BY <2>4, Zenon DEF AllGrow, Grows, Extends
      <3>2. Len(c) = Len(d) + Len(z) /\ Len(z) \in Nat
        BY <2>9, <3>1, ConcatProperties, LenProperties, Zenon
      <3>3. QED
        BY <2>7, <2>9, <3>2
    <2>11. c = SubSeq(w, 1, n)
      BY <2>3, <2>6, <2>7, <2>8, AppBytesPrefix, Zenon
    <2>12. PDelivered[p] = d /\ PDelivered'[p] = c /\ PWritten[p] = w
      BY <2>1, <2>2, <2>4, <2>8, PipeState
    <2>13. n \in Len(d)..Len(w)
      BY <2>3, <2>7, <2>9, <2>10
    <2>14. QED
      BY <2>11, <2>12, <2>13
  <1>6. DOMAIN PDelivered' = Pipes /\ PAnnounced' \subseteq Pipes
    BY PipeState
  <1>7. PAnnounced \subseteq PAnnounced'
    <2>1. \A p \in Pipes : /\ stream[p[1]][p[2]].send_shut => stream'[p[1]][p[2]].send_shut
                           /\ stream[p[1]][p[2]].closed => stream'[p[1]][p[2]].closed
      BY <1>2, Zenon DEF AllGrow, Grows
    <2>2. QED
      BY <2>1, PipeState
  <1>8. ASSUME NEW p \in PAnnounced', Healthy PROVE p \in PEnded /\ PDelivered'[p] = PWritten[p]
    <2>1. p \in Pipes /\ (stream'[p[1]][p[2]].send_shut \/ stream'[p[1]][p[2]].closed)
      BY PipeState
    <2>2. /\ app'[Peer(p[1])][p[2]].eof
          /\ stream'[p[1]][p[2]].delivered = AppBytes(p[2], 0, app'[Peer(p[1])][p[2]].sent)
      BY <1>1, <1>2, <1>8, <2>1, Zenon DEF PipeInv
    <2>3. app[Peer(p[1])][p[2]].eof
      BY <1>3, <2>1, <2>2
    <2>4. p \in PEnded
      BY <2>1, <2>3, PipeState
    <2>5. PDelivered'[p] = PWritten'[p]
      BY <2>1, <2>2, PipeState
    <2>6. QED
      BY <1>4, <2>4, <2>5
  <1>9. QED
    BY <1>1, <1>4, <1>5, <1>6, <1>7, <1>8, IsDeliver

LEMMA PipeStep ==
    ASSUME Types, PipeInv, PipeInv', AllGrow, config \in Scenarios, NEW bound \in Nat,
           \A c \in Scenarios, t \in Side : c.dataLen[t] <= bound, [Next]_vars
    PROVE  Pipe!Next
  <1>1. UNCHANGED config /\ (NoneSends \/ \E s \in Side, i \in Ids : AppSend(s, i) \/ AppEof(s, i))
    BY StepsByApps
  <1>2. CASE NoneSends
    BY <1>1, <1>2, NoneSendsDelivers DEF Pipe!Next
  <1>3. ASSUME NEW s \in Side, NEW i \in Ids, AppSend(s, i) PROVE Pipe!Next
    BY <1>1, <1>3, SendWrites DEF Pipe!Next
  <1>4. ASSUME NEW s \in Side, NEW i \in Ids, AppEof(s, i) PROVE Pipe!Next
    BY <1>1, <1>4, EofEnds DEF Pipe!Next
  <1>5. QED
    BY <1>1, <1>2, <1>3, <1>4

LEMMA PipeStart == Init => Pipe!Init
  <1>1. SUFFICES ASSUME Init PROVE Pipe!Init
    OBVIOUS
  <1>2. /\ stream = [s \in Side |-> [i \in Ids |-> NoStream]]
        /\ app = [s \in Side |-> [i \in Ids |-> NoApp]]
    BY <1>1, Zenon DEF Init
  <1>3. /\ \A s \in Side, i \in Ids : stream[s][i] = NoStream /\ app[Peer(s)][i] = NoApp
    BY <1>2, Sides
  <1>4. \A p \in Pipes : p[1] \in Side /\ p[2] \in Ids
    BY DEF Pipes
  <1>5. \A p \in Pipes : stream[p[1]][p[2]] = NoStream /\ app[Peer(p[1])][p[2]] = NoApp
    BY <1>3, <1>4, Zenon
  <1>6. NoApp.sent = 0 /\ ~NoApp.eof
    BY DEF NoApp
  <1>7. PWritten = [p \in Pipes |-> <<>>]
    <2>1. \A p \in Pipes : AppBytes(p[2], 0, app[Peer(p[1])][p[2]].sent) = <<>>
      BY <1>4, <1>5, <1>6, AppBytesNone
    <2>2. QED
      BY <2>1 DEF PWritten
  <1>8. PDelivered = [p \in Pipes |-> <<>>]
    BY <1>5, NoStreamIdle DEF PDelivered
  <1>9. PEnded = {}
    BY <1>5, <1>6 DEF PEnded
  <1>10. PAnnounced = {}
    BY <1>5, NoStreamFields DEF PAnnounced, Announced
  <1>11. (~Healthy) \in BOOLEAN
    BY DEF Healthy
  <1>12. QED
    BY <1>7, <1>8, <1>9, <1>10, <1>11 DEF Pipe!Init, PWritten, PDelivered, PEnded, PAnnounced

(* What an application is given is the beginning of what the application at *)
(* the other end of its stream wrote, whatever fails and wherever a session *)
(* breaks off, as long as smux v2 is not spoken (try_flush_outbound and     *)
(* start_tcp_read, which may then read twice, are what EndToEnd fails on).  *)
THEOREM SmuxEndToEnd ==
    ASSUME \A c \in Scenarios : \E s \in Side : c.version[s] # 2
    PROVE  Spec => []EndToEnd
  <1>1. AllFirst
    BY DEF AllFirst
  <1>2. SmuxInv /\ Piped /\ [Next]_vars => Piped'
    BY PipedNext
  <1>3. SmuxInv /\ WindowInv /\ [Next]_vars => WindowInv'
    BY WindowNext
  <1>4. SmuxInv /\ WindowInv /\ Piped => EndToEnd
    <2>1. SUFFICES ASSUME SmuxInv, WindowInv, Piped, NEW s \in Side, NEW i \in Ids
                   PROVE  IsPrefix(stream[s][i].delivered, AppBytes(i, 0, app[Peer(s)][i].sent))
      BY Zenon DEF EndToEnd
    <2>2. app[Peer(s)][i].sent \in Nat
      BY <2>1, Sides DEF SmuxInv, Types
    <2>3. PICK n, m : n = app[Peer(s)][i].sent /\ m \in 0..n
                      /\ stream[s][i].delivered = AppBytes(i, 0, m)
      BY <1>1, <2>1, AllHanded DEF Handed
    <2>4. PICK d, w : d = AppBytes(i, 0, m) /\ w = AppBytes(i, 0, n)
      OBVIOUS
    <2>5. n \in Nat /\ m \in Nat /\ m <= n
      BY <2>2, <2>3
    <2>6. Len(d) = m /\ Len(w) = n /\ d = SubSeq(w, 1, m)
      BY <2>4, <2>5, AppBytesSent, AppBytesPrefix, Zenon
    <2>7. IsPrefix(d, w)
      BY <2>5, <2>6 DEF IsPrefix
    <2>8. QED
      BY <2>3, <2>4, <2>7
  <1>5. QED
    BY <1>2, <1>3, <1>4, PipedInit, WindowInit, SmuxInvariant, PTL DEF Spec

(* A tunnel of version 1 is a pair of pipes for every stream: an            *)
(* application gets the beginning of what its peer wrote, never loses any   *)
(* of it again, and unless something fails is told the end, by the shutdown *)
(* of maybe_finish or by close, only after the peer's end of file and all   *)
(* of its bytes.                                                            *)
THEOREM SmuxPipe ==
    ASSUME \A c \in Scenarios : \E s \in Side : c.version[s] # 2,
           NEW bound \in Nat, \A c \in Scenarios, s \in Side : c.dataLen[s] <= bound
    PROVE  Spec => PipeSpec
  <1>1. AllFirst
    BY DEF AllFirst
  <1>2. SmuxInv /\ Piped /\ [Next]_vars => Piped' /\ AllGrow
    BY PipedNext
  <1>3. SmuxInv /\ WindowInv /\ [Next]_vars => WindowInv'
    BY WindowNext
  <1>4. SmuxInv /\ WindowInv /\ Piped => PipeInv /\ Types /\ config \in Scenarios
    BY <1>1, PipeInvHolds DEF SmuxInv, Piped
  <1>5. Types /\ PipeInv /\ PipeInv' /\ AllGrow /\ config \in Scenarios /\ [Next]_vars => Pipe!Next
    BY PipeStep
  <1>6. QED
    BY <1>2, <1>3, <1>4, <1>5, PipeStart, PipedInit, WindowInit, SmuxInvariant, PTL
       DEF Spec, PipeSpec, Pipe!Spec

-----------------------------------------------------------------------------
(* The sizes of buffers and frames, which TypeOK states and nothing above   *)
(* depends on.                                                              *)

Sized(n) == {x \in Seq(Item) : Len(x) \in 1..n}

\* The frames config framesize allows.
Fitting == {f \in Frame : f.cmd = "psh" => f.data \in Sized(FrameSize)}

\* The bytes of stream i among the first n of its application.
Own(i, n) == {i} \X (1..n)

\* The buffers of stream i, when n bytes have been taken from its application.
Shaped(i, r, n) ==
    /\ r.done \in Seq((-1)..ReadBuf)
    /\ r.tcp_read_buffer \in Seq(Own(i, n))
    /\ r.pending_outbound \in Seq(Sized(ReadBuf))
    /\ r.pending_tcp_writes \in Seq(Sized(FrameSize))
    /\ r.out \in Seq(Fitting)

\* How much of a queue of buffers lies before the end of one of them.
LEMMA TotalGrows ==
    ASSUME NEW S, NEW bufs \in Seq(Seq(S)), NEW k \in 1..Len(bufs), NEW j \in k..Len(bufs)
    PROVE  /\ TotalLen(SubSeq(bufs, 1, k - 1)) \in Nat /\ TotalLen(SubSeq(bufs, 1, j)) \in Nat
           /\ TotalLen(SubSeq(bufs, 1, k - 1)) + Len(bufs[k]) <= TotalLen(SubSeq(bufs, 1, j))
  <1>1. PICK a, x, c : /\ a = SubSeq(bufs, 1, k - 1) /\ x = bufs[k]
                       /\ c = SubSeq(bufs, k + 1, j)
    BY Zenon
  <1>2. Len(bufs) \in Nat /\ x \in Seq(S)
    BY <1>1, LenProperties, ElementOfSeq
  <1>3. a \in Seq(Seq(S)) /\ c \in Seq(Seq(S)) /\ <<x>> \in Seq(Seq(S))
    <2>1. \A m \in 1..Len(bufs) : bufs[m] \in Seq(S)
      BY ElementOfSeq
    <2>2. \A m \in 1..(k - 1) : bufs[m] \in Seq(S)
      BY <1>2, <2>1
    <2>3. \A m \in (k + 1)..j : bufs[m] \in Seq(S)
      BY <1>2, <2>1
    <2>4. 1 \in Int /\ k - 1 \in Int /\ k + 1 \in Int /\ j \in Int
      BY <1>2
    <2>5. a \in Seq(Seq(S))
      BY <1>1, <2>2, <2>4, SubSeqProperties
    <2>6. c \in Seq(Seq(S))
      BY <1>1, <2>3, <2>4, SubSeqProperties
    <2>7. QED
      BY <1>2, <2>5, <2>6
  <1>4. SubSeq(bufs, 1, j) = a \o (<<x>> \o c)
    <2>1. SubSeq(bufs, 1, k - 1) \o SubSeq(bufs, (k - 1) + 1, j) = SubSeq(bufs, 1, j)
      <3>1. 1 \in 1..(Len(bufs) + 1) /\ k - 1 \in (1 - 1)..Len(bufs) /\ j \in (k - 1)..Len(bufs)
        BY <1>2
      <3>2. QED
        BY <3>1, ConcatAdjacentSubSeq
    <2>2. SubSeq(bufs, k, j) = <<bufs[k]>> \o SubSeq(bufs, k + 1, j)
      BY SubSeqRecursiveFirst
    <2>3. (k - 1) + 1 = k
      BY <1>2
    <2>4. QED
      BY <1>1, <2>1, <2>2, <2>3
  <1>5. PICK f, g, h : f = FlattenSeq(a) /\ g = FlattenSeq(c) /\ h = FlattenSeq(SubSeq(bufs, 1, j))
    BY Zenon
  <1>6. f \in Seq(S) /\ g \in Seq(S) /\ h = f \o (x \o g)
    <2>1. <<x>> \o c \in Seq(Seq(S))
      BY <1>3, ConcatProperties
    <2>2. FlattenSeq(<<x>> \o c) = x \o g
      <3>1. PICK y : y = <<x>>
        BY Zenon
      <3>2. FlattenSeq(y \o c) = FlattenSeq(y) \o FlattenSeq(c)
        BY <1>3, <3>1, FlattenConcat
      <3>3. FlattenSeq(y) = x
        BY <1>2, <3>1, FlattenOne
      <3>4. QED
        BY <1>5, <3>1, <3>2, <3>3
    <2>3. h = FlattenSeq(a) \o FlattenSeq(<<x>> \o c)
      BY <1>3, <1>4, <1>5, <2>1, FlattenConcat
    <2>4. QED
      BY <1>3, <1>5, <2>2, <2>3, FlattenType
  <1>7. Len(f) \in Nat /\ Len(g) \in Nat /\ Len(x) \in Nat /\ Len(h) = Len(f) + (Len(x) + Len(g))
    <2>1. x \o g \in Seq(S) /\ Len(x \o g) = Len(x) + Len(g)
      BY <1>2, <1>6, ConcatProperties
    <2>2. Len(h) = Len(f) + Len(x \o g)
      BY <1>6, <2>1, ConcatProperties
    <2>3. QED
      BY <1>2, <1>6, <2>1, <2>2, LenProperties
  <1>8. TotalLen(SubSeq(bufs, 1, k - 1)) = Len(f) /\ TotalLen(SubSeq(bufs, 1, j)) = Len(h)
    BY <1>1, <1>5 DEF TotalLen
  <1>9. QED
    BY <1>1, <1>7, <1>8

\* What try_flush_outbound leaves are whole buffers after the first, which is
\* not empty.
LEMMA LeftSized ==
    ASSUME NEW m \in Nat, NEW bufs \in Seq(Sized(m)), NEW n \in Nat
    PROVE  FlushedLeft(bufs, n) \in Seq(Sized(m))
  <1> PICK rest, front : rest = FlushedRest(bufs, n) /\ front = FlushedFront(bufs, rest)
    BY Zenon
  <1>1. bufs \in Seq(Seq(Item)) /\ Len(bufs) \in Nat /\ DOMAIN bufs = 1..Len(bufs)
    <2>1. Sized(m) \subseteq Seq(Item)
      BY DEF Sized
    <2>2. QED
      BY <2>1, SeqMonotonic, LenProperties
  <1>2. \A j \in 1..Len(bufs) : bufs[j] \in Seq(Item) /\ Len(bufs[j]) \in 1..m
    <2>1. \A j \in 1..Len(bufs) : bufs[j] \in Sized(m)
      BY ElementOfSeq
    <2>2. QED
      BY <2>1 DEF Sized
  <1>3. ASSUME NEW j \in 1..Len(bufs)
        PROVE  /\ rest[j] \in Seq(Item)
               /\ Len(rest[j]) = Len(bufs[j]) - Share(bufs, n, j)
               /\ Share(bufs, n, j) =
                    IF n - TotalLen(SubSeq(bufs, 1, j - 1)) <= 0 THEN 0
                    ELSE IF Len(bufs[j]) <= n - TotalLen(SubSeq(bufs, 1, j - 1)) THEN Len(bufs[j])
                    ELSE n - TotalLen(SubSeq(bufs, 1, j - 1))
    <2>1. PICK l, t, sh, x : /\ l = Len(bufs[j]) /\ t = TotalLen(SubSeq(bufs, 1, j - 1))
                             /\ sh = Share(bufs, n, j) /\ x = bufs[j]
      BY Zenon
    <2>2. l \in Nat /\ t \in Nat /\ x \in Seq(Item) /\ n - t \in Int
      <3>1. j \in j..Len(bufs)
        BY <1>1
      <3>2. t \in Nat
        BY <1>1, <2>1, <3>1, TotalGrows
      <3>3. QED
        BY <1>2, <2>1, <3>2
    <2>3. sh = Max({0, Min({l, n - t})})
      BY <2>1 DEF Share
    <2>4. sh = IF n - t <= 0 THEN 0 ELSE IF l <= n - t THEN l ELSE n - t
      BY <2>2, <2>3, ShareCases, Zenon
    <2>5. sh \in 0..l
      BY <2>2, <2>4
    <2>6. rest[j] = SubSeq(x, sh + 1, Len(x))
      BY <1>1, <2>1 DEF FlushedRest
    <2>7. rest[j] \in Seq(Item) /\ Len(rest[j]) = l - sh
      <3>1. \A k \in (sh + 1)..l : x[k] \in Item
        BY <2>1, <2>2, <2>5, ElementOfSeq
      <3>2. sh + 1 \in Int /\ l \in Int /\ l = Len(x)
        BY <2>1, <2>2, <2>5
      <3>3. SubSeq(x, sh + 1, l) \in Seq(Item) /\ Len(SubSeq(x, sh + 1, l)) = IF sh + 1 <= l THEN l - (sh + 1) + 1 ELSE 0
        BY <3>1, <3>2, SubSeqProperties
      <3>4. QED
        BY <2>2, <2>5, <2>6, <3>2, <3>3
    <2>8. QED
      BY <2>1, <2>4, <2>7, Zenon
  <1>4. rest \in Seq(Seq(Item)) /\ Len(rest) = Len(bufs) /\ DOMAIN rest = 1..Len(bufs)
    <2>1. rest = [j \in 1..Len(bufs) |-> rest[j]]
      BY <1>1 DEF FlushedRest
    <2>2. rest \in [1..Len(bufs) -> Seq(Item)]
      BY <1>3, <2>1
    <2>3. QED
      BY <1>1, <2>2, SeqFromFunction
  <1>5. PICK D : D = {j \in DOMAIN bufs : rest[j] # <<>>} \cup {Len(bufs) + 1}
    BY Zenon
  <1>6. front \in 1..(Len(bufs) + 1) /\ (front # Len(bufs) + 1 => rest[front] # <<>>)
    <2>1. D \in SUBSET Nat /\ D # {}
      BY <1>1, <1>5
    <2>2. front = Min(D)
      BY <1>5 DEF FlushedFront
    <2>3. front \in D
      BY <2>1, <2>2, MinOfSet
    <2>4. QED
      BY <1>1, <1>5, <2>3
  <1>7. ASSUME NEW j \in front..Len(bufs) PROVE rest[j] \in Sized(m)
    <2>1. /\ front \in 1..Len(bufs) /\ j \in 1..Len(bufs) /\ j \in Int /\ front \in Int
          /\ front <= j /\ rest[front] # <<>>
      BY <1>1, <1>6, <1>7
    <2>2. PICK l, lf, t, tf, sh, sf :
              /\ l = Len(bufs[j]) /\ lf = Len(bufs[front])
              /\ t = TotalLen(SubSeq(bufs, 1, j - 1)) /\ tf = TotalLen(SubSeq(bufs, 1, front - 1))
              /\ sh = Share(bufs, n, j) /\ sf = Share(bufs, n, front)
      BY Zenon
    <2>3. l \in 1..m /\ lf \in 1..m
      BY <1>2, <2>1, <2>2
    <2>4. t \in Nat /\ tf \in Nat
      <3>1. j \in j..Len(bufs) /\ front \in front..Len(bufs)
        BY <1>1, <2>1
      <3>2. QED
        BY <1>1, <2>1, <2>2, <3>1, TotalGrows
    <2>5. /\ sh = IF n - t <= 0 THEN 0 ELSE IF l <= n - t THEN l ELSE n - t
          /\ sf = IF n - tf <= 0 THEN 0 ELSE IF lf <= n - tf THEN lf ELSE n - tf
          /\ Len(rest[j]) = l - sh /\ Len(rest[front]) = lf - sf
      BY <1>3, <2>1, <2>2
    <2>6. Len(rest[front]) \in Nat \ {0}
      <3>1. PICK y : y = rest[front]
        BY Zenon
      <3>2. y \in Seq(Item) /\ y # <<>>
        BY <1>3, <2>1, <3>1
      <3>3. QED
        BY <3>1, <3>2, EmptySeq
    <2>7. sf < lf
      BY <2>3, <2>4, <2>5, <2>6
    <2>8. n < tf + lf
      BY <2>3, <2>4, <2>5, <2>7
    <2>9. CASE j = front
      <3>1. sf \in 0..lf /\ sf # lf
        BY <2>3, <2>4, <2>5, <2>7
      <3>2. lf - sf \in 1..m
        BY <2>3, <3>1
      <3>3. Len(rest[j]) = lf - sf
        BY <2>5, <2>9, Zenon
      <3>4. QED
        BY <1>3, <2>1, <3>2, <3>3 DEF Sized
    <2>10. CASE j # front
      <3>1. j - 1 \in front..Len(bufs)
        BY <1>1, <2>1, <2>10
      <3>2. tf + lf <= t
        <4>1. front \in 1..Len(bufs) /\ bufs \in Seq(Seq(Item))
          BY <1>1, <2>1
        <4>2. TotalLen(SubSeq(bufs, 1, front - 1)) + Len(bufs[front]) <= TotalLen(SubSeq(bufs, 1, j - 1))
          BY <3>1, <4>1, TotalGrows
        <4>3. QED
          BY <2>2, <4>2, Zenon
      <3>3. sh = 0
        BY <2>3, <2>4, <2>5, <2>8, <3>2
      <3>4. Len(rest[j]) \in 1..m
        BY <2>3, <2>5, <3>3
      <3>5. QED
        BY <1>3, <2>1, <3>4 DEF Sized
    <2>11. QED
      BY <2>9, <2>10
  <1>8. FlushedLeft(bufs, n) = SubSeq(rest, front, Len(rest))
    BY DEF FlushedLeft
  <1>9. QED
    <2>1. front \in Int /\ Len(rest) \in Int
      BY <1>1, <1>4, <1>6
    <2>2. \A j \in front..Len(rest) : rest[j] \in Sized(m)
      BY <1>4, <1>7
    <2>3. QED
      BY <1>8, <2>1, <2>2, SubSeqProperties

-----------------------------------------------------------------------------
(* What the handlers do to the buffers.                                     *)

LEMMA ShapedSame ==
    ASSUME NEW i, NEW n, NEW a, NEW b, Shaped(i, a, n), Same(a, b)
    PROVE  Shaped(i, b, n)
  BY Zenon DEF Shaped, Same

\* What is taken from an application grows.
LEMMA ShapedLater ==
    ASSUME NEW i, NEW r, NEW n \in Nat, NEW m \in Nat, n <= m, Shaped(i, r, n)
    PROVE  Shaped(i, r, m)
  <1>1. Own(i, n) \subseteq Own(i, m)
    BY DEF Own
  <1>2. r.tcp_read_buffer \in Seq(Own(i, m))
    <2>1. r.tcp_read_buffer \in Seq(Own(i, n))
      BY Zenon DEF Shaped
    <2>2. QED
      BY <1>1, <2>1, SeqMonotonic
  <1>3. QED
    BY <1>2, Zenon DEF Shaped

LEMMA FinFits == \A i \in Ids : Fin(i) \in Fitting
  BY DEF Fin, Fitting, Frame

\* send_frame, of anything that fits.
LEMMA SendShaped ==
    ASSUME NEW F, NEW r \in StreamRec(F), NEW i, NEW n, Shaped(i, r, n), NEW f \in Fitting
    PROVE  Shaped(i, SendFrame(r, f), n)
  <1>1. PICK o : o = Append(r.out, f)
    BY Zenon
  <1>2. PICK b : b = [r EXCEPT !.out = o]
    BY Zenon
  <1>3. o \in Seq(Fitting)
    <2>1. r.out \in Seq(Fitting)
      BY Zenon DEF Shaped
    <2>2. QED
      BY <1>1, <2>1, AppendProperties
  <1>4. /\ b.done = r.done /\ b.tcp_read_buffer = r.tcp_read_buffer
        /\ b.pending_outbound = r.pending_outbound
        /\ b.pending_tcp_writes = r.pending_tcp_writes /\ b.out = o
    BY <1>2, Zenon DEF StreamRec
  <1>5. Shaped(i, b, n)
    BY <1>3, <1>4, Zenon DEF Shaped
  <1>6. SendFrame(r, f) = b
    BY <1>1, <1>2 DEF SendFrame
  <1>7. QED
    BY <1>5, <1>6

LEMMA FinShaped ==
    ASSUME NEW i \in Ids, NEW r \in StreamRec(FramesOf(i)), NEW n, Shaped(i, r, n)
    PROVE  Shaped(i, SendLocalFin(i, r), n)
  <1>1. PICK a : a = [r EXCEPT !.local_fin_sent = TRUE]
    BY Zenon
  <1>2. a \in StreamRec(FramesOf(i))
    BY <1>1, Zenon DEF StreamRec
  <1>3. Same(r, a)
    BY <1>1, Zenon DEF StreamRec, Same
  <1>4. Shaped(i, a, n)
    BY <1>3, ShapedSame
  <1>5. Shaped(i, SendFrame(a, Fin(i)), n)
    <2>1. Fin(i) \in Fitting
      BY FinFits
    <2>2. QED
      BY <1>2, <1>4, <2>1, SendShaped
  <1>6. SendLocalFin(i, r) = r \/ SendLocalFin(i, r) = SendFrame(a, Fin(i))
    BY <1>1, Zenon DEF SendLocalFin
  <1>7. QED
    BY <1>5, <1>6, Zenon

LEMMA CloseShaped ==
    ASSUME NEW i \in Ids, NEW r \in StreamRec(FramesOf(i)), Sound(r), NEW n, Shaped(i, r, n)
    PROVE  Shaped(i, Close(i, r), n)
  <1>1. PICK a : a = SendLocalFin(i, r)
    BY Zenon
  <1>2. a \in StreamRec(FramesOf(i)) /\ Shaped(i, a, n)
    BY <1>1, SendLocalFinKeeps, FinShaped
  <1>3. PICK b : b = [a EXCEPT !.closed = TRUE, !.close_timer = FALSE, !.reads = 0, !.done = <<>>,
                               !.tcp_read_buffer = <<>>, !.pending_outbound = <<>>]
    BY Zenon
  <1>4. /\ b.done = <<>> /\ b.tcp_read_buffer = <<>> /\ b.pending_outbound = <<>>
        /\ b.pending_tcp_writes = a.pending_tcp_writes /\ b.out = a.out
    BY <1>2, <1>3, Zenon DEF StreamRec
  <1>5. /\ <<>> \in Seq((-1)..ReadBuf) /\ <<>> \in Seq(Own(i, n))
        /\ <<>> \in Seq(Sized(ReadBuf))
    BY EmptySeq
  <1>6. Shaped(i, b, n)
    BY <1>2, <1>4, <1>5, Zenon DEF Shaped
  <1>7. Close(i, r) = r \/ Close(i, r) = b
    BY <1>1, <1>3, Zenon DEF Close
  <1>8. QED
    BY <1>6, <1>7, Zenon

LEMMA MarkShaped ==
    ASSUME NEW s, NEW i \in Ids, NEW r \in StreamRec(FramesOf(i)), NEW bytes \in Nat,
           NEW n, Shaped(i, r, n)
    PROVE  Shaped(i, MarkPayloadConsumed(s, i, r, bytes), n)
  <1> PICK read, unacked, window :
          /\ read = (r.num_read + bytes) % Modulus
          /\ unacked = (r.incr + bytes) % Modulus
          /\ window = Max({1, StreamBuf})
    BY Zenon
  <1>1. PICK due : due = (unacked >= Max({1, StreamBuf \div 2}) \/ read = bytes)
    BY Zenon
  <1>2. PICK left : left = IF due THEN 0 ELSE unacked
    BY Zenon
  <1>3. PICK c, f : c = [r EXCEPT !.num_read = read, !.incr = left] /\ f = Upd(i, read, window)
    BY Zenon
  <1>4. read \in Counter /\ unacked \in Counter /\ window \in Counter /\ 0 \in Counter
    <2>1. r.num_read \in Counter /\ r.incr \in Counter
      BY DEF StreamRec
    <2>2. r.num_read + bytes \in Int /\ r.incr + bytes \in Int
      BY <2>1 DEF Counter
    <2>3. QED
      BY <2>2, ModulusFacts
  <1>5. c \in StreamRec(FramesOf(i))
    <2>1. left \in Counter
      BY <1>2, <1>4
    <2>2. QED
      BY <1>3, <1>4, <2>1, Zenon DEF StreamRec
  <1>6. Same(r, c)
    BY <1>3, Zenon DEF StreamRec, Same
  <1>7. f \in Fitting
    BY <1>3, <1>4 DEF Upd, Fitting, Frame
  <1>8. Shaped(i, c, n)
    BY <1>6, ShapedSame
  <1>9. Shaped(i, SendFrame(c, f), n)
    BY <1>5, <1>7, <1>8, SendShaped
  <1>10. \/ MarkPayloadConsumed(s, i, r, bytes) = r
         \/ MarkPayloadConsumed(s, i, r, bytes) = c
         \/ MarkPayloadConsumed(s, i, r, bytes) = SendFrame(c, f)
    BY <1>1, <1>2, <1>3, Zenon DEF MarkPayloadConsumed
  <1>11. QED
    BY <1>8, <1>9, <1>10, Zenon

LEMMA QueueShaped ==
    ASSUME NEW F, NEW r \in StreamRec(F), NEW i, NEW n, Shaped(i, r, n), NEW x \in Sized(ReadBuf)
    PROVE  Shaped(i, QueueOutbound(r, x), n)
  <1>1. PICK b, p : b = QueueOutbound(r, x) /\ p = r.pending_outbound
    BY Zenon
  <1>2. /\ b.done = r.done /\ b.tcp_read_buffer = r.tcp_read_buffer
        /\ b.pending_tcp_writes = r.pending_tcp_writes /\ b.out = r.out
        /\ b.pending_outbound = Append(p, x)
    <2>1. SameWrites(r, b) /\ SameSends(r, b)
      BY <1>1, QueuedBytes
    <2>2. b.done = r.done /\ b.tcp_read_buffer = r.tcp_read_buffer
      BY <1>1, QueuedBytes
    <2>3. b.pending_outbound = Append(p, x)
      BY <1>1, QueuedMore
    <2>4. QED
      BY <2>1, <2>2, <2>3, Zenon DEF SameWrites, SameSends
  <1>3. Append(p, x) \in Seq(Sized(ReadBuf))
    <2>1. p \in Seq(Sized(ReadBuf))
      BY <1>1, Zenon DEF Shaped
    <2>2. QED
      BY <2>1, AppendProperties
  <1>4. Shaped(i, b, n)
    BY <1>2, <1>3, Zenon DEF Shaped
  <1>5. QED
    BY <1>1, <1>4, Zenon

LEMMA ChunksFit ==
    ASSUME NEW i \in Ids, NEW chunks \in Seq(Sized(FrameSize))
    PROVE  [k \in DOMAIN chunks |-> Psh(i, chunks[k])] \in Seq(Fitting)
  <1>1. DOMAIN chunks = 1..Len(chunks) /\ Len(chunks) \in Nat
    BY LenProperties
  <1>2. PICK q : q = [k \in DOMAIN chunks |-> Psh(i, chunks[k])]
    BY Zenon
  <1>3. \A x \in Sized(FrameSize) : Psh(i, x) \in Fitting
    BY DEF Psh, Sized, Fitting, Frame
  <1>4. \A k \in 1..Len(chunks) : Psh(i, chunks[k]) \in Fitting
    BY <1>3, ElementOfSeq, Zenon
  <1>5. q \in [1..Len(chunks) -> Fitting]
    BY <1>1, <1>2, <1>4, Zenon
  <1>6. q \in Seq(Fitting)
    BY <1>1, <1>5, SeqFromFunction
  <1>7. QED
    BY <1>2, <1>6, Zenon

LEMMA FlushShaped ==
    ASSUME NEW s, NEW i \in Ids, NEW r \in StreamRec(FramesOf(i)), NEW k, Shaped(i, r, k)
    PROVE  Shaped(i, TryFlushOutbound(s, i, r), k)
  <1> DEFINE bufs == r.pending_outbound
             total == TotalLen(bufs)
             n == IF Version[s] = 2 THEN Max({0, Min({total, AvailablePeerWindow(r)})}) ELSE total
             chunks == FlattenSeq([j \in DOMAIN bufs |-> Chunks(SubSeq(bufs[j], 1, Share(bufs, n, j)))])
             rest == [j \in DOMAIN bufs |-> SubSeq(bufs[j], Share(bufs, n, j) + 1, Len(bufs[j]))]
             front == Min({j \in DOMAIN bufs : rest[j] # <<>>} \cup {Len(bufs) + 1})
             psh == [j \in DOMAIN chunks |-> Psh(i, chunks[j])]
             o == r.out \o psh
             w == (r.num_written + n) % Modulus
             left == SubSeq(rest, front, Len(rest))
             b == [r EXCEPT !.out = o, !.num_written = w, !.pending_outbound = left]
  <1>1. TryFlushOutbound(s, i, r) = IF r.closed THEN r ELSE b
    BY Zenon DEF TryFlushOutbound
  <1>2. /\ bufs \in Seq(Seq(Item)) /\ bufs \in Seq(Sized(ReadBuf))
        /\ r.num_written \in Int /\ r.peer_consumed \in Int /\ r.peer_window \in Int
    <2>1. bufs \in Seq(Sized(ReadBuf))
      BY Zenon DEF Shaped
    <2>2. QED
      BY <2>1, ModulusFacts DEF StreamRec, Counter
  <1>3. n \in Nat
    <2>1. total \in Nat
      BY <1>2, FlattenType, LenProperties DEF TotalLen
    <2>2. AvailablePeerWindow(r) \in Int
      <3>1. (r.num_written - r.peer_consumed) % Modulus \in Int
        BY <1>2, ModulusFacts
      <3>2. QED
        BY <1>2, <3>1 DEF AvailablePeerWindow
    <2>3. PICK l, d : l = total /\ d = AvailablePeerWindow(r)
      OBVIOUS
    <2>4. l \in Nat /\ d \in Int
      BY <2>1, <2>2, <2>3
    <2>5. Max({0, Min({l, d})}) \in Nat
      BY <2>4, ShareCases
    <2> HIDE DEF total
    <2>6. QED
      BY <2>3, <2>4, <2>5
  <1>4. chunks \in Seq(Sized(FrameSize)) /\ left \in Seq(Sized(ReadBuf))
    <2>1. chunks = FlushedChunks(bufs, n) /\ left = FlushedLeft(bufs, n)
      BY Zenon DEF FlushedChunks, FlushedRest, FlushedFront, FlushedLeft
    <2> HIDE DEF n, bufs, chunks, left
    <2>2. chunks \in Seq({x \in Seq(Item) : Len(x) \in 1..FrameSize})
      BY <1>2, <1>3, <2>1, FlushSplits, Zenon
    <2>3. chunks \in Seq(Sized(FrameSize))
      BY <2>2, Zenon DEF Sized
    <2>4. ReadBuf \in Nat
      BY SmuxAssumption
    <2>5. left \in Seq(Sized(ReadBuf))
      BY <1>2, <1>3, <2>1, <2>4, LeftSized, Zenon
    <2>6. QED
      BY <2>3, <2>5
  <1> HIDE DEF n, chunks, left, w
  <1>5. psh \in Seq(Fitting)
    BY <1>4, ChunksFit
  <1> HIDE DEF psh
  <1>6. o \in Seq(Fitting)
    <2>1. r.out \in Seq(Fitting)
      BY Zenon DEF Shaped
    <2>2. QED
      BY <1>5, <2>1, ConcatProperties
  <1> HIDE DEF o
  <1>7. /\ b.pending_tcp_writes = r.pending_tcp_writes /\ b.done = r.done
        /\ b.tcp_read_buffer = r.tcp_read_buffer
        /\ b.pending_outbound = left /\ b.out = o
    BY Zenon DEF StreamRec
  <1> HIDE DEF b
  <1>8. Shaped(i, b, k)
    BY <1>4, <1>6, <1>7, Zenon DEF Shaped
  <1>9. QED
    BY <1>1, <1>8, Zenon

\* start_tcp_read, flush_tcp_writes, shutdown_tcp_send_if_ready and maybe_finish.
LEMMA StartsShaped ==
    ASSUME NEW F, NEW r \in StreamRec(F), Sound(r), NEW i, NEW n, Shaped(i, r, n)
    PROVE  /\ Shaped(i, StartTcpRead(r), n) /\ Shaped(i, FlushTcpWrites(r), n)
           /\ Shaped(i, ShutdownTcpSendIfReady(r), n) /\ Shaped(i, MaybeFinish(r), n)
  <1>1. PICK a, b, c, d : /\ a = StartTcpRead(r) /\ b = FlushTcpWrites(r)
                          /\ c = ShutdownTcpSendIfReady(r) /\ d = MaybeFinish(r)
    BY Zenon
  <1>2. Same(r, a) /\ Same(r, b) /\ Same(r, c) /\ Same(r, d)
    BY <1>1, StartTcpReadKeeps, FlushTcpWritesKeeps, ShutdownKeeps, MaybeFinishKeeps
  <1>3. Shaped(i, a, n) /\ Shaped(i, b, n) /\ Shaped(i, c, n) /\ Shaped(i, d, n)
    BY <1>2, ShapedSame
  <1>4. QED
    BY <1>1, <1>3, Zenon

LEMMA DataShaped ==
    ASSUME NEW i, NEW r \in StreamRec(FramesOf(i)), Sound(r), NEW n, Shaped(i, r, n),
           NEW x \in Sized(FrameSize)
    PROVE  Shaped(i, OnData(i, r, x), n)
  <1>1. PICK p, a : p = Append(r.pending_tcp_writes, x) /\ a = [r EXCEPT !.pending_tcp_writes = p]
    BY Zenon
  <1>2. p \in Seq(Sized(FrameSize))
    <2>1. r.pending_tcp_writes \in Seq(Sized(FrameSize))
      BY Zenon DEF Shaped
    <2>2. QED
      BY <1>1, <2>1, AppendProperties
  <1>3. /\ a.done = r.done /\ a.tcp_read_buffer = r.tcp_read_buffer
        /\ a.pending_outbound = r.pending_outbound
        /\ a.pending_tcp_writes = p /\ a.out = r.out
    BY <1>1, Zenon DEF StreamRec
  <1>4. Shaped(i, a, n)
    BY <1>2, <1>3, Zenon DEF Shaped
  <1>5. PICK b : b = [a EXCEPT !.tcp_write_active = TRUE]
    BY Zenon
  <1>6. a \in StreamRec(FramesOf(i))
    <2>1. Sized(FrameSize) \subseteq Seq(Item)
      BY DEF Sized
    <2>2. p \in Seq(Seq(Item))
      BY <1>2, <2>1, SeqMonotonic
    <2>3. QED
      BY <1>1, <2>2, Zenon DEF StreamRec
  <1>7. Same(a, b)
    BY <1>5, <1>6, Zenon DEF StreamRec, Same
  <1>8. Shaped(i, b, n)
    BY <1>4, <1>7, ShapedSame
  <1>9. OnData(i, r, x) = FlushTcpWrites(a)
    BY <1>1, Zenon DEF OnData
  <1>10. OnData(i, r, x) = a \/ OnData(i, r, x) = b
    BY <1>5, <1>9, Zenon DEF FlushTcpWrites
  <1>11. QED
    BY <1>4, <1>8, <1>10, Zenon

LEMMA OnFinShaped ==
    ASSUME NEW i, NEW r \in StreamRec(FramesOf(i)), Sound(r), NEW n, Shaped(i, r, n)
    PROVE  Shaped(i, OnFin(r), n)
  <1>1. PICK a : a = [r EXCEPT !.remote_fin_received = TRUE]
    BY Zenon
  <1>2. a \in StreamRec(FramesOf(i))
    BY <1>1, Zenon DEF StreamRec
  <1>3. Same(r, a) /\ a.reads = r.reads /\ a.tcp_write_active = r.tcp_write_active
    BY <1>1, Zenon DEF StreamRec, Same
  <1>4. Sound(a) /\ Shaped(i, a, n)
    <2>1. Sound(a)
      BY <1>3, Zenon DEF Sound, Same
    <2>2. QED
      BY <1>3, <2>1, ShapedSame
  <1>5. PICK b : b = ShutdownTcpSendIfReady(a)
    BY Zenon
  <1>6. b \in StreamRec(FramesOf(i)) /\ Sound(b)
    BY <1>2, <1>4, <1>5, ShutdownKeeps
  <1>7. Shaped(i, b, n)
    BY <1>2, <1>4, <1>5, StartsShaped
  <1>8. Shaped(i, MaybeFinish(b), n)
    BY <1>6, <1>7, StartsShaped
  <1>9. OnFin(r) = r \/ OnFin(r) = MaybeFinish(b)
    BY <1>1, <1>5, Zenon DEF OnFin
  <1>10. QED
    BY <1>8, <1>9, Zenon

LEMMA OnUpdateShaped ==
    ASSUME NEW s, NEW i \in Ids, NEW r \in StreamRec(FramesOf(i)), Sound(r), NEW n, Shaped(i, r, n),
           NEW c \in Counter, NEW w \in Counter
    PROVE  Shaped(i, OnUpdate(s, i, r, c, w), n)
  <1>1. PICK a : a = [r EXCEPT !.peer_consumed = c, !.peer_window = w]
    BY Zenon
  <1>2. a \in StreamRec(FramesOf(i))
    BY <1>1, Zenon DEF StreamRec
  <1>3. Same(r, a) /\ a.reads = r.reads /\ a.tcp_write_active = r.tcp_write_active
    BY <1>1, Zenon DEF StreamRec, Same
  <1>4. Sound(a)
    BY <1>3, Zenon DEF Sound, Same
  <1>5. Shaped(i, a, n)
    BY <1>3, ShapedSame
  <1>6. PICK f : f = TryFlushOutbound(s, i, a)
    BY Zenon
  <1>7. f \in StreamRec(FramesOf(i)) /\ Sound(f)
    BY <1>2, <1>4, <1>6, TryFlushKeeps
  <1>8. Shaped(i, f, n)
    BY <1>2, <1>5, <1>6, FlushShaped
  <1>9. Shaped(i, StartTcpRead(f), n)
    BY <1>7, <1>8, StartsShaped
  <1>10. OnUpdate(s, i, r, c, w) = f \/ OnUpdate(s, i, r, c, w) = StartTcpRead(f)
    BY <1>1, <1>6, Zenon DEF OnUpdate
  <1>11. QED
    BY <1>8, <1>9, <1>10, Zenon

-----------------------------------------------------------------------------
(* The steps.                                                               *)

Boxes == \A s \in Side, i \in Ids : Shaped(i, stream[s][i], app[s][i].taken)
Wires == \A s \in Side : net[s] \in Seq(Fitting)

\* Stream i becomes b, which is what its handler makes of it.
Reshaped(s, i, b) ==
    b \in StreamRec(Frame) /\ Shaped(i, b, app[s][i].taken) /\ StreamStep(s, i, b)

LEMMA ClearedShaped ==
    ASSUME NEW F, NEW b \in StreamRec(F), NEW i, NEW n, Shaped(i, b, n)
    PROVE  Shaped(i, Cleared(b), n)
  <1>1. PICK c : c = Cleared(b)
    BY Zenon
  <1>2. /\ c.done = b.done /\ c.tcp_read_buffer = b.tcp_read_buffer
        /\ c.pending_outbound = b.pending_outbound
        /\ c.pending_tcp_writes = b.pending_tcp_writes /\ c.out = <<>>
    BY <1>1, Zenon DEF Cleared, StreamRec
  <1>3. <<>> \in Seq(Fitting)
    BY EmptySeq
  <1>4. Shaped(i, c, n)
    BY <1>2, <1>3, Zenon DEF Shaped
  <1>5. QED
    BY <1>1, <1>4, Zenon

LEMMA EffectShaped ==
    ASSUME Types, Boxes, Wires, NEW s \in Side, NEW i \in Ids, NEW b \in StreamRec(Frame),
           NEW q \in Seq(Frame), q \in Seq(Fitting), Effect(s, i, b, q),
           Shaped(i, b, app'[s][i].taken),
           \A t \in Side, j \in Ids : t # s \/ j # i => app'[t][j].taken = app[t][j].taken
    PROVE  Boxes' /\ Wires'
  <1>1. /\ stream'[s][i] = Cleared(b)
        /\ \A t \in Side, j \in Ids : t # s \/ j # i => stream'[t][j] = stream[t][j]
        /\ net'[s] = q /\ net'[Peer(s)] = Transmitted(s, net[Peer(s)], b.out)
    BY EffectFacts
  <1>2. Shaped(i, stream'[s][i], app'[s][i].taken)
    BY <1>1, ClearedShaped
  <1>3. ASSUME NEW t \in Side, NEW j \in Ids PROVE Shaped(j, stream'[t][j], app'[t][j].taken)
    <2>1. CASE t = s /\ j = i
      BY <1>2, <2>1, Zenon
    <2>2. CASE t # s \/ j # i
      <3>1. stream'[t][j] = stream[t][j] /\ app'[t][j].taken = app[t][j].taken
        BY <1>1, <2>2, Zenon
      <3>2. Shaped(j, stream[t][j], app[t][j].taken)
        BY Zenon DEF Boxes
      <3>3. QED
        BY <3>1, <3>2, Zenon
    <2>3. QED
      BY <2>1, <2>2, Zenon
  <1>4. net'[Peer(s)] \in Seq(Fitting)
    <2>1. PICK c, o : c = net[Peer(s)] /\ o = b.out
      BY Zenon
    <2>2. c \in Seq(Fitting) /\ o \in Seq(Fitting)
      <3>1. Peer(s) \in Side
        BY Sides
      <3>2. QED
        BY <2>1, <3>1, Zenon DEF Wires, Shaped
    <2>3. c \o o \in Seq(Fitting)
      BY <2>2, ConcatProperties
    <2>4. net'[Peer(s)] = c \/ net'[Peer(s)] = c \o o
      BY <1>1, <2>1, Zenon DEF Transmitted
    <2>5. QED
      BY <2>2, <2>3, <2>4, Zenon
  <1>5. ASSUME NEW t \in Side PROVE net'[t] \in Seq(Fitting)
    <2>1. t = s \/ t = Peer(s)
      BY DEF Side, Peer
    <2>2. QED
      BY <1>1, <1>4, <2>1, Zenon
  <1>6. Boxes'
    BY <1>3, Zenon DEF Boxes
  <1>7. Wires'
    BY <1>5, Zenon DEF Wires
  <1>8. QED
    BY <1>6, <1>7

LEMMA ReshapedKeeps ==
    ASSUME Types, Boxes, Wires, NEW s \in Side, NEW i \in Ids, NEW b, Reshaped(s, i, b),
           \A t \in Side, j \in Ids : app'[t][j].taken = app[t][j].taken
    PROVE  Boxes' /\ Wires'
  <1>1. b \in StreamRec(Frame) /\ Shaped(i, b, app[s][i].taken) /\ StreamStep(s, i, b)
    BY Zenon DEF Reshaped
  <1>2. PICK q : q = net[s]
    BY Zenon
  <1>3. q \in Seq(Frame) /\ q \in Seq(Fitting)
    BY <1>2, Zenon DEF Types, Wires
  <1>4. Effect(s, i, b, q)
    BY <1>1, <1>2, StreamStepEffect
  <1>5. Shaped(i, b, app'[s][i].taken)
    BY <1>1, Zenon
  <1>6. QED
    BY <1>1, <1>3, <1>4, <1>5, EffectShaped, Zenon

LEMMA ReadHandlerShaped ==
    ASSUME Types, Boxes, NEW s \in Side, NEW i \in Ids, ReadHandler(s, i)
    PROVE  \E b : Reshaped(s, i, b)
  <1>1. PICK a, n, result : a = stream[s][i] /\ n = app[s][i].taken /\ result = Head(a.done)
    BY Zenon
  <1>2. PICK r : r = [a EXCEPT !.done = Tail(@)]
    BY Zenon
  <1>3. /\ a \in StreamRec(FramesOf(i)) /\ Sound(a) /\ Shaped(i, a, n)
        /\ a.done # <<>>
    <2>1. Shaped(i, a, n)
      BY <1>1, Zenon DEF Boxes
    <2>2. a.done # <<>>
      BY <1>1 DEF ReadHandler
    <2>3. QED
      BY <1>1, <2>1, <2>2, StreamHere
  <1>4. /\ r \in StreamRec(FramesOf(i)) /\ Sound(r)
        /\ ~r.closed /\ result \in Int /\ result <= Len(r.tcp_read_buffer)
    BY <1>1, <1>2, <1>3, DoneTail, Zenon
  <1>5. Shaped(i, r, n) /\ result \in (-1)..ReadBuf
    <2>1. PICK d, t : d = a.done /\ t = Tail(d)
      BY Zenon
    <2>2. d \in Seq((-1)..ReadBuf) /\ d # <<>>
      BY <1>3, <2>1, Zenon DEF Shaped
    <2>3. t \in Seq((-1)..ReadBuf) /\ Head(d) \in (-1)..ReadBuf
      BY <2>1, <2>2, HeadTailProperties
    <2>4. r = [a EXCEPT !.done = t]
      BY <1>2, <2>1
    <2>5. /\ r.done = t /\ r.tcp_read_buffer = a.tcp_read_buffer
          /\ r.pending_outbound = a.pending_outbound
          /\ r.pending_tcp_writes = a.pending_tcp_writes /\ r.out = a.out
      BY <1>3, <2>4, Zenon DEF StreamRec
    <2>6. Shaped(i, r, n)
      BY <1>3, <2>3, <2>5, Zenon DEF Shaped
    <2>7. QED
      BY <1>1, <2>1, <2>3, <2>6, Zenon
  <1>6. \/ /\ result > 0
           /\ \E queued \in {QueueOutbound(r, SubSeq(r.tcp_read_buffer, 1, result))} :
              \E flushed \in {TryFlushOutbound(s, i, queued)} :
                 StreamStep(s, i, IF HasPendingOutbound(flushed) THEN flushed ELSE StartTcpRead(flushed))
        \/ StreamStep(s, i, MaybeFinish(SendLocalFin(i, r)))
        \/ StreamStep(s, i, Close(i, r))
    BY <1>1, <1>2 DEF ReadHandler
  <1>7. CASE /\ result > 0
             /\ \E queued \in {QueueOutbound(r, SubSeq(r.tcp_read_buffer, 1, result))} :
                \E flushed \in {TryFlushOutbound(s, i, queued)} :
                   StreamStep(s, i, IF HasPendingOutbound(flushed) THEN flushed ELSE StartTcpRead(flushed))
    <2>1. PICK x : x = SubSeq(r.tcp_read_buffer, 1, result)
      BY Zenon
    <2>2. x \in Sized(ReadBuf)
      <3>1. PICK buf : buf = r.tcp_read_buffer
        BY Zenon
      <3>2. buf \in Seq(Item) /\ Len(buf) \in Nat
        <4>1. buf \in Seq(Item)
          BY <1>4, <3>1 DEF StreamRec
        <4>2. QED
          BY <4>1, LenProperties
      <3>3. result \in 0..Len(buf) /\ result \in 1..ReadBuf
        BY <1>4, <1>5, <1>7, <3>1, <3>2
      <3>4. x \in Seq(Item) /\ Len(x) = result
        BY <2>1, <3>1, <3>2, <3>3, Halves
      <3>5. QED
        BY <3>3, <3>4 DEF Sized
    <2>3. x \in Seq(Item)
      BY <2>2 DEF Sized
    <2>4. PICK q, f, g : q = QueueOutbound(r, x) /\ f = TryFlushOutbound(s, i, q) /\ g = StartTcpRead(f)
      BY Zenon
    <2>5. q \in StreamRec(FramesOf(i)) /\ Sound(q)
      BY <1>4, <2>3, <2>4, QueueSteps
    <2>6. Shaped(i, q, n)
      BY <1>4, <1>5, <2>2, <2>4, QueueShaped
    <2>7. f \in StreamRec(FramesOf(i)) /\ Sound(f)
      BY <2>4, <2>5, TryFlushKeeps
    <2>8. Shaped(i, f, n)
      BY <2>4, <2>5, <2>6, FlushShaped
    <2>9. g \in StreamRec(FramesOf(i)) /\ Shaped(i, g, n)
      BY <2>4, <2>7, <2>8, StartTcpReadKeeps, StartsShaped
    <2>10. StreamStep(s, i, f) \/ StreamStep(s, i, g)
      <3>1. StreamStep(s, i, IF HasPendingOutbound(f) THEN f ELSE g)
        BY <1>7, <2>1, <2>4
      <3>2. QED
        BY <3>1, Zenon
    <2>11. f \in StreamRec(Frame) /\ g \in StreamRec(Frame)
      BY <2>7, <2>9, StreamRecFrame
    <2>12. QED
      BY <1>1, <2>8, <2>9, <2>10, <2>11, Zenon DEF Reshaped
  <1>8. CASE \/ StreamStep(s, i, MaybeFinish(SendLocalFin(i, r)))
             \/ StreamStep(s, i, Close(i, r))
    <2>1. PICK f, m, c : f = SendLocalFin(i, r) /\ m = MaybeFinish(f) /\ c = Close(i, r)
      BY Zenon
    <2>2. f \in StreamRec(FramesOf(i)) /\ Sound(f) /\ c \in StreamRec(FramesOf(i))
      BY <1>4, <2>1, SendLocalFinKeeps, CloseKeeps
    <2>3. Shaped(i, f, n) /\ Shaped(i, c, n)
      BY <1>4, <1>5, <2>1, FinShaped, CloseShaped
    <2>4. m \in StreamRec(FramesOf(i)) /\ Shaped(i, m, n)
      BY <2>1, <2>2, <2>3, MaybeFinishKeeps, StartsShaped
    <2>5. m \in StreamRec(Frame) /\ c \in StreamRec(Frame)
      BY <2>2, <2>4, StreamRecFrame
    <2>6. QED
      BY <1>1, <1>8, <2>1, <2>3, <2>4, <2>5, Zenon DEF Reshaped
  <1>9. QED
    BY <1>6, <1>7, <1>8, Zenon

LEMMA WriteHandlerShaped ==
    ASSUME Types, Boxes, NEW s \in Side, NEW i \in Ids, WriteHandler(s, i)
    PROVE  \E b : Reshaped(s, i, b)
  <1>1. PICK a, n : a = stream[s][i] /\ n = app[s][i].taken
    BY Zenon
  <1>2. PICK r : r = [a EXCEPT !.tcp_write_active = FALSE]
    BY Zenon
  <1>3. PICK front, rest : front = Head(r.pending_tcp_writes) /\ rest = Tail(r.pending_tcp_writes)
    BY Zenon
  <1>4. PICK w : w = [r EXCEPT !.pending_tcp_writes = Tail(@), !.delivered = @ \o front]
    BY Zenon
  <1>5. a \in StreamRec(FramesOf(i)) /\ Sound(a) /\ Shaped(i, a, n) /\ a.tcp_write_active
    <2>1. Shaped(i, a, n)
      BY <1>1, Zenon DEF Boxes
    <2>2. a.tcp_write_active
      BY <1>1 DEF WriteHandler
    <2>3. QED
      BY <1>1, <2>1, <2>2, StreamHere
  <1>6. /\ r \in StreamRec(FramesOf(i)) /\ Sound(r) /\ ~r.tcp_write_active
        /\ r.pending_tcp_writes # <<>> /\ Shaped(i, r, n)
    <2>1. r \in StreamRec(FramesOf(i))
      BY <1>2, <1>5, Zenon DEF StreamRec
    <2>2. Same(a, r) /\ r.reads = a.reads /\ ~r.tcp_write_active
      BY <1>2, <1>5, Zenon DEF StreamRec, Same
    <2>3. Sound(r) /\ r.pending_tcp_writes # <<>>
      BY <1>5, <2>2, Zenon DEF Sound, Same
    <2>4. Shaped(i, r, n)
      BY <1>5, <2>2, ShapedSame
    <2>5. QED
      BY <2>1, <2>2, <2>3, <2>4
  <1>7. PICK f, m, c, y, g, z, o : /\ f = SendLocalFin(i, r) /\ m = MaybeFinish(f) /\ c = Close(i, r)
                                   /\ y = MarkPayloadConsumed(s, i, w, Len(front))
                                   /\ g = FlushTcpWrites(y) /\ z = ShutdownTcpSendIfReady(g)
                                   /\ o = MaybeFinish(z)
    BY Zenon
  <1>8. StreamStep(s, i, o) \/ StreamStep(s, i, m) \/ StreamStep(s, i, c)
    BY <1>1, <1>2, <1>3, <1>4, <1>7 DEF WriteHandler
  <1>9. o \in StreamRec(FramesOf(i)) /\ Shaped(i, o, n)
    <2>1. w \in StreamRec(FramesOf(i)) /\ Sound(w) /\ Len(front) \in Nat
      BY <1>3, <1>4, <1>6, WrittenSteps, Zenon
    <2>2. Shaped(i, w, n)
      <3>1. rest \in Seq(Sized(FrameSize))
        <4>1. PICK p : p = r.pending_tcp_writes
          BY Zenon
        <4>2. p \in Seq(Sized(FrameSize)) /\ p # <<>>
          BY <1>6, <4>1, Zenon DEF Shaped
        <4>3. QED
          BY <1>3, <4>1, <4>2, HeadTailProperties
      <3>2. PICK d : d = r.delivered \o front
        BY Zenon
      <3>3. w = [r EXCEPT !.pending_tcp_writes = rest, !.delivered = d]
        BY <1>3, <1>4, <3>2
      <3>4. /\ w.done = r.done /\ w.tcp_read_buffer = r.tcp_read_buffer
            /\ w.pending_outbound = r.pending_outbound
            /\ w.pending_tcp_writes = rest /\ w.out = r.out
        BY <1>6, <3>3, Zenon DEF StreamRec
      <3>5. QED
        BY <1>6, <3>1, <3>4, Zenon DEF Shaped
    <2>3. y \in StreamRec(FramesOf(i)) /\ Sound(y) /\ Shaped(i, y, n)
      BY <1>7, <2>1, <2>2, MarkKeeps, MarkShaped
    <2>4. g \in StreamRec(FramesOf(i)) /\ Sound(g) /\ Shaped(i, g, n)
      BY <1>7, <2>3, FlushTcpWritesKeeps, StartsShaped
    <2>5. z \in StreamRec(FramesOf(i)) /\ Sound(z) /\ Shaped(i, z, n)
      BY <1>7, <2>4, ShutdownKeeps, StartsShaped
    <2>6. QED
      BY <1>7, <2>5, MaybeFinishKeeps, StartsShaped
  <1>10. /\ m \in StreamRec(FramesOf(i)) /\ Shaped(i, m, n)
         /\ c \in StreamRec(FramesOf(i)) /\ Shaped(i, c, n)
    <2>1. f \in StreamRec(FramesOf(i)) /\ Sound(f) /\ c \in StreamRec(FramesOf(i))
      BY <1>6, <1>7, SendLocalFinKeeps, CloseKeeps
    <2>2. Shaped(i, f, n) /\ Shaped(i, c, n)
      BY <1>6, <1>7, FinShaped, CloseShaped
    <2>3. QED
      BY <1>7, <2>1, <2>2, MaybeFinishKeeps, StartsShaped
  <1>11. o \in StreamRec(Frame) /\ m \in StreamRec(Frame) /\ c \in StreamRec(Frame)
    BY <1>9, <1>10, StreamRecFrame
  <1>12. QED
    BY <1>1, <1>8, <1>9, <1>10, <1>11, Zenon DEF Reshaped

LEMMA CloseTimerShaped ==
    ASSUME Types, Boxes, NEW s \in Side, NEW i \in Ids, CloseTimer(s, i)
    PROVE  \E b : Reshaped(s, i, b)
  <1>1. PICK a, n, c : a = stream[s][i] /\ n = app[s][i].taken /\ c = Close(i, a)
    BY Zenon
  <1>2. a \in StreamRec(FramesOf(i)) /\ Sound(a) /\ Shaped(i, a, n)
    <2>1. Shaped(i, a, n)
      BY <1>1, Zenon DEF Boxes
    <2>2. QED
      BY <1>1, <2>1, StreamHere
  <1>3. c \in StreamRec(FramesOf(i)) /\ Shaped(i, c, n)
    BY <1>1, <1>2, CloseKeeps, CloseShaped
  <1>4. c \in StreamRec(Frame)
    BY <1>3, StreamRecFrame
  <1>5. StreamStep(s, i, c)
    BY <1>1 DEF CloseTimer
  <1>6. QED
    BY <1>1, <1>3, <1>4, <1>5, Zenon DEF Reshaped

LEMMA ResolveDoneShaped ==
    ASSUME Types, Boxes, NEW i \in Ids, ResolveDone(i)
    PROVE  \E b : Reshaped("server", i, b)
  <1>1. PICK a, n : a = stream["server"][i] /\ n = app["server"][i].taken
    BY Zenon
  <1>2. PICK p, r, c : /\ p = [a EXCEPT !.phase = "connect"] /\ r = [a EXCEPT !.phase = "idle"]
                       /\ c = Close(i, r)
    BY Zenon
  <1>3. "server" \in Side
    BY DEF Side
  <1>4. a \in StreamRec(FramesOf(i)) /\ Sound(a) /\ Shaped(i, a, n)
    <2>1. Shaped(i, a, n)
      BY <1>1, <1>3, Zenon DEF Boxes
    <2>2. QED
      BY <1>1, <1>3, <2>1, StreamHere
  <1>5. StreamStep("server", i, p) \/ StreamStep("server", i, c)
    BY <1>1, <1>2 DEF ResolveDone
  <1>6. p \in StreamRec(FramesOf(i)) /\ r \in StreamRec(FramesOf(i))
    BY <1>2, <1>4, Zenon DEF StreamRec
  <1>7. /\ Same(a, p) /\ Same(a, r)
        /\ r.reads = a.reads /\ r.tcp_write_active = a.tcp_write_active
    BY <1>2, <1>4, Zenon DEF StreamRec, Same
  <1>8. Sound(r)
    BY <1>4, <1>7, Zenon DEF Sound, Same
  <1>9. Shaped(i, p, n) /\ Shaped(i, r, n)
    BY <1>4, <1>7, ShapedSame
  <1>10. c \in StreamRec(FramesOf(i)) /\ Shaped(i, c, n)
    BY <1>2, <1>6, <1>8, <1>9, CloseKeeps, CloseShaped
  <1>11. p \in StreamRec(Frame) /\ c \in StreamRec(Frame)
    BY <1>6, <1>10, StreamRecFrame
  <1>12. QED
    BY <1>1, <1>5, <1>9, <1>10, <1>11, Zenon DEF Reshaped

LEMMA ConnectDoneShaped ==
    ASSUME Types, Boxes, NEW i \in Ids, ConnectDone(i)
    PROVE  UNCHANGED <<stream, net>> \/ \E b : Reshaped("server", i, b)
  <1>1. PICK a, n : a = stream["server"][i] /\ n = app["server"][i].taken
    BY Zenon
  <1>2. PICK r, ready : r = [a EXCEPT !.phase = "idle"] /\ ready = [r EXCEPT !.tcp_ready = TRUE]
    BY Zenon
  <1>3. PICK c, f, g, h : /\ c = Close(i, r) /\ f = FlushTcpWrites(ready)
                          /\ g = StartTcpRead(f) /\ h = ShutdownTcpSendIfReady(g)
    BY Zenon
  <1>4. "server" \in Side
    BY DEF Side
  <1>5. a \in StreamRec(FramesOf(i)) /\ Sound(a) /\ Shaped(i, a, n)
    <2>1. Shaped(i, a, n)
      BY <1>1, <1>4, Zenon DEF Boxes
    <2>2. QED
      BY <1>1, <1>4, <2>1, StreamHere
  <1>6. UNCHANGED <<stream, net>> \/ StreamStep("server", i, h) \/ StreamStep("server", i, c)
    BY <1>1, <1>2, <1>3, Zenon DEF ConnectDone
  <1>7. r \in StreamRec(FramesOf(i)) /\ Sound(r) /\ Shaped(i, r, n)
    <2>1. r \in StreamRec(FramesOf(i))
      BY <1>2, <1>5, Zenon DEF StreamRec
    <2>2. Same(a, r) /\ r.reads = a.reads /\ r.tcp_write_active = a.tcp_write_active
      BY <1>2, <1>5, Zenon DEF StreamRec, Same
    <2>3. Sound(r)
      BY <1>5, <2>2, Zenon DEF Sound, Same
    <2>4. QED
      BY <1>5, <2>1, <2>2, <2>3, ShapedSame
  <1>8. ready \in StreamRec(FramesOf(i)) /\ Sound(ready) /\ Shaped(i, ready, n)
    <2>1. ready \in StreamRec(FramesOf(i))
      BY <1>2, <1>7, Zenon DEF StreamRec
    <2>2. Same(r, ready) /\ ready.reads = r.reads /\ ready.tcp_write_active = r.tcp_write_active
      BY <1>2, <1>7, Zenon DEF StreamRec, Same
    <2>3. Sound(ready)
      BY <1>7, <2>2, Zenon DEF Sound, Same
    <2>4. QED
      BY <1>7, <2>1, <2>2, <2>3, ShapedSame
  <1>9. f \in StreamRec(FramesOf(i)) /\ Sound(f) /\ Shaped(i, f, n)
    BY <1>3, <1>8, FlushTcpWritesKeeps, StartsShaped
  <1>10. g \in StreamRec(FramesOf(i)) /\ Sound(g) /\ Shaped(i, g, n)
    BY <1>3, <1>9, StartTcpReadKeeps, StartsShaped
  <1>11. h \in StreamRec(FramesOf(i)) /\ Shaped(i, h, n)
    BY <1>3, <1>10, ShutdownKeeps, StartsShaped
  <1>12. c \in StreamRec(FramesOf(i)) /\ Shaped(i, c, n)
    BY <1>3, <1>7, CloseKeeps, CloseShaped
  <1>13. h \in StreamRec(Frame) /\ c \in StreamRec(Frame)
    BY <1>11, <1>12, StreamRecFrame
  <1>14. QED
    BY <1>1, <1>6, <1>11, <1>12, <1>13, Zenon DEF Reshaped

\* A stream in which nothing waits.
LEMMA BlankShaped ==
    ASSUME NEW i, NEW n, NEW b, b.done = <<>>, b.tcp_read_buffer = <<>>,
           b.pending_outbound = <<>>, b.pending_tcp_writes = <<>>, b.out \in Seq(Fitting)
    PROVE  Shaped(i, b, n)
  <1>1. /\ <<>> \in Seq((-1)..ReadBuf) /\ <<>> \in Seq(Own(i, n))
        /\ <<>> \in Seq(Sized(ReadBuf)) /\ <<>> \in Seq(Sized(FrameSize))
    BY EmptySeq
  <1>2. QED
    BY <1>1, Zenon DEF Shaped

LEMMA ConsumedShaped ==
    ASSUME Types, Order, NEW s \in Side, net[s] # <<>>, NEW f \in Fitting, f = Head(net[s]),
           NEW r, r = stream[s][f.id], NEW n, Shaped(f.id, r, n), NEW b, Consumed(s, f, r, b)
    PROVE  b \in StreamRec(Frame) /\ Shaped(f.id, b, n)
  <1>1. f \in Frame /\ f.id \in Ids
    BY DEF Fitting, Frame
  <1>2. /\ r \in StreamRec(FramesOf(f.id)) /\ r \in StreamRec(Frame) /\ Sound(r)
        /\ ~r.created => r = NoStream
    BY <1>1, StreamHere
  <1>3. r.created <=> f.cmd # "syn"
    BY SynOfNew
  <1>4. InStreams(s, f.id) <=> r.created /\ ~r.closed
    BY DEF InStreams
  <1>5. CASE f.cmd = "syn" /\ b = IF InStreams(s, f.id) THEN r
                                  ELSE NewStream(IF config.unixSockets THEN "connect" ELSE "resolve")
    <2>1. PICK phase : phase = IF config.unixSockets THEN "connect" ELSE "resolve"
      OBVIOUS
    <2>2. b = NewStream(phase) /\ phase \in {"idle", "resolve", "connect"}
      BY <1>3, <1>4, <1>5, <2>1
    <2>3. b \in StreamRec(Frame) /\ b.out = <<>> /\ Fresh(f.id, b)
      BY <2>2, NewStreamFresh
    <2>4. <<>> \in Seq(Fitting)
      BY EmptySeq
    <2>5. Shaped(f.id, b, n)
      BY <2>3, <2>4, BlankShaped DEF Fresh
    <2>6. QED
      BY <2>3, <2>5
  <1>6. CASE f.cmd # "syn" /\ ~InStreams(s, f.id) /\ b = r
    BY <1>2, <1>6
  <1>7. CASE f.cmd = "fin" /\ InStreams(s, f.id) /\ b = OnFin(r)
    <2>1. b \in StreamRec(FramesOf(f.id)) /\ Shaped(f.id, b, n)
      BY <1>2, <1>7, OnFinKeeps, OnFinShaped
    <2>2. QED
      BY <2>1, StreamRecFrame
  <1>8. CASE f.cmd = "psh" /\ InStreams(s, f.id) /\ b = OnData(f.id, r, f.data)
    <2>1. PICK x : x = f.data
      OBVIOUS
    <2>2. x \in Sized(FrameSize)
      BY <1>8, <2>1 DEF Fitting
    <2>3. x \in Seq(Item)
      BY <2>2 DEF Sized
    <2>4. b = OnData(f.id, r, x)
      BY <1>8, <2>1
    <2>5. b \in StreamRec(FramesOf(f.id))
      BY <1>2, <2>3, <2>4, OnDataKeeps, Zenon
    <2>6. Shaped(f.id, b, n)
      BY <1>2, <2>2, <2>4, DataShaped
    <2>7. QED
      BY <2>5, <2>6, StreamRecFrame
  <1>9. CASE f.cmd = "upd" /\ InStreams(s, f.id) /\ b = OnUpdate(s, f.id, r, f.consumed, f.window)
    <2>1. f.consumed \in Counter /\ f.window \in Counter
      BY <1>1, <1>9 DEF Frame
    <2>2. b \in StreamRec(FramesOf(f.id)) /\ Shaped(f.id, b, n)
      BY <1>1, <1>2, <1>9, <2>1, OnUpdateKeeps, OnUpdateShaped
    <2>3. QED
      BY <2>2, StreamRecFrame
  <1>10. QED
    BY <1>5, <1>6, <1>7, <1>8, <1>9, Zenon DEF Consumed

LEMMA FrameShaped ==
    ASSUME Types, Order, Boxes, Wires, NEW s \in Side, app' = app, net[s] # <<>>,
           NEW b, Consumed(s, Head(net[s]), stream[s][Head(net[s]).id], b),
           stream' = [stream EXCEPT ![s][Head(net[s]).id] = [b EXCEPT !.out = <<>>]],
           net' = [net EXCEPT ![s] = Tail(@), ![Peer(s)] = Transmitted(s, @, b.out)]
    PROVE  Boxes' /\ Wires'
  <1>1. PICK q, f, t : q = net[s] /\ f = Head(q) /\ t = Tail(q)
    BY Zenon
  <1>2. q \in Seq(Frame) /\ q \in Seq(Fitting) /\ q # <<>>
    BY <1>1 DEF Types, Wires
  <1>3. f \in Fitting /\ t \in Seq(Frame) /\ t \in Seq(Fitting)
    BY <1>1, <1>2, HeadTailProperties
  <1>4. PICK i \in Ids : i = f.id
    BY <1>3 DEF Fitting, Frame
  <1>5. PICK r, n : r = stream[s][i] /\ n = app[s][i].taken
    BY Zenon
  <1>6. Shaped(i, r, n)
    BY <1>5, Zenon DEF Boxes
  <1>7. Consumed(s, f, r, b)
    BY <1>1, <1>4, <1>5
  <1>8. b \in StreamRec(Frame) /\ Shaped(i, b, n)
    BY <1>1, <1>2, <1>3, <1>4, <1>5, <1>6, <1>7, ConsumedShaped
  <1>9. Effect(s, i, b, t)
    <2>1. PICK p : p = Peer(s)
      OBVIOUS
    <2>2. net \in [Side -> Seq(Frame)] /\ p \in Side /\ p # s
      BY <2>1, Sides DEF Types
    <2>3. net' = [net EXCEPT ![s] = t, ![p] = Transmitted(s, @, b.out)]
      BY <1>1, <2>1, <2>2, Zenon
    <2>4. stream' = [stream EXCEPT ![s][i] = Cleared(b)]
      BY <1>1, <1>4 DEF Cleared
    <2>5. QED
      BY <2>1, <2>3, <2>4, Zenon DEF Effect
  <1>10. Shaped(i, b, app'[s][i].taken)
    BY <1>5, <1>8
  <1>11. QED
    BY <1>3, <1>8, <1>9, <1>10, EffectShaped, Zenon

LEMMA CloseBoxes ==
    ASSUME Types, Boxes, Wires, NEW s \in Side, SessionClose(s), app' = app
    PROVE  Boxes' /\ Wires'
  <1>1. PICK g : g = [j \in Ids |-> IF stream[s][j].created THEN Cleared(Close(j, stream[s][j]))
                                    ELSE stream[s][j]]
    BY Zenon
  <1>2. stream' = [stream EXCEPT ![s] = g]
    BY <1>1, Zenon DEF SessionClose, Cleared
  <1>3. stream'[s] = g /\ \A t \in Side : t # s => stream'[t] = stream[t]
    BY <1>2 DEF Types
  <1>4. ASSUME NEW i \in Ids PROVE Shaped(i, g[i], app[s][i].taken)
    <2>1. PICK a, c, d, n : /\ a = stream[s][i] /\ c = Close(i, a) /\ d = Cleared(c)
                            /\ n = app[s][i].taken
      BY Zenon
    <2>2. a \in StreamRec(FramesOf(i)) /\ Sound(a) /\ Shaped(i, a, n)
      <3>1. Shaped(i, a, n)
        BY <2>1, Zenon DEF Boxes
      <3>2. QED
        BY <2>1, <3>1, StreamHere
    <2>3. c \in StreamRec(FramesOf(i)) /\ Shaped(i, c, n)
      BY <2>1, <2>2, CloseKeeps, CloseShaped
    <2>4. Shaped(i, d, n)
      BY <2>1, <2>3, ClearedShaped
    <2>5. g[i] = d \/ g[i] = a
      BY <1>1, <2>1
    <2>6. QED
      BY <2>1, <2>2, <2>4, <2>5
  <1>5. ASSUME NEW t \in Side, NEW i \in Ids PROVE Shaped(i, stream'[t][i], app'[t][i].taken)
    <2>1. CASE t = s
      BY <1>3, <1>4, <2>1
    <2>2. CASE t # s
      BY <1>3, <2>2, Zenon DEF Boxes
    <2>3. QED
      BY <2>1, <2>2
  <1>6. ASSUME NEW t \in Side PROVE net'[t] \in Seq(Fitting)
    <2>1. net'[s] = <<>> /\ \E k \in 0..Len(net[Peer(s)]) : net'[Peer(s)] = SubSeq(net[Peer(s)], 1, k)
      BY CloseEffect
    <2>2. CASE t = s
      BY <2>1, <2>2, EmptySeq
    <2>3. CASE t = Peer(s)
      <3>1. PICK v : v = net[t]
        OBVIOUS
      <3>2. v \in Seq(Fitting)
        BY <3>1, Zenon DEF Wires
      <3>3. PICK k \in 0..Len(v) : net'[t] = SubSeq(v, 1, k)
        BY <2>1, <2>3, <3>1
      <3>4. QED
        BY <3>2, <3>3, Halves
    <2>4. QED
      BY <2>2, <2>3, Sides
  <1>7. QED
    BY <1>5, <1>6, Zenon DEF Boxes, Wires

\* What the application has sent is its own.
LEMMA AppBytesOwn ==
    ASSUME NEW i, NEW from \in Nat, NEW n \in Nat
    PROVE  AppBytes(i, from, from + n) \in Seq(Own(i, from + n))
  <1>1. PICK f : f = [k \in 1..n |-> <<i, from + k>>]
    BY Zenon
  <1>2. \A k \in 1..n : <<i, from + k>> \in Own(i, from + n)
    <2>1. \A k \in 1..n : from + k \in 1..(from + n)
      OBVIOUS
    <2>2. QED
      BY <2>1 DEF Own
  <1>3. f \in [1..n -> Own(i, from + n)]
    BY <1>1, <1>2, Zenon
  <1>4. f \in Seq(Own(i, from + n))
    BY <1>3, SeqFromFunction
  <1>5. AppBytes(i, from, from + n) = f
    <2>1. (from + n) - from = n
      OBVIOUS
    <2>2. QED
      BY <1>1, <2>1, Zenon DEF AppBytes
  <1>6. QED
    BY <1>4, <1>5

Completes(a, result, buf) ==
    [a EXCEPT !.reads = @ - 1, !.done = Append(@, result), !.tcp_read_buffer = buf]

LEMMA CompletedShaped ==
    ASSUME NEW i \in Ids, NEW a \in StreamRec(FramesOf(i)), a.reads > 0,
           NEW n \in Nat, NEW m \in Nat, n <= m, Shaped(i, a, n),
           NEW result \in (-1)..ReadBuf, NEW buf \in Seq(Own(i, m)),
           NEW b, b = Completes(a, result, buf)
    PROVE  b \in StreamRec(FramesOf(i)) /\ Shaped(i, b, m) /\ b.out = a.out
  <1>1. PICK k, d, e : k = a.reads - 1 /\ e = a.done /\ d = Append(e, result)
    BY Zenon
  <1>2. k \in Nat
    <2>1. a.reads \in Nat
      BY DEF StreamRec
    <2>2. QED
      BY <1>1, <2>1
  <1>3. d \in Seq((-1)..ReadBuf)
    <2>1. e \in Seq((-1)..ReadBuf)
      BY <1>1, Zenon DEF Shaped
    <2>2. QED
      BY <1>1, <2>1, AppendProperties
  <1>4. d \in Seq(Int) /\ buf \in Seq(Item)
    <2>1. (-1)..ReadBuf \subseteq Int
      BY SmuxAssumption
    <2>2. Own(i, m) \subseteq Item
      BY DEF Own, Item
    <2>3. QED
      BY <1>3, <2>1, <2>2, SeqMonotonic
  <1>5. b = [a EXCEPT !.reads = k, !.done = d, !.tcp_read_buffer = buf]
    BY <1>1 DEF Completes
  <1>6. b \in StreamRec(FramesOf(i))
    BY <1>2, <1>4, <1>5, ZenonT(40) DEF StreamRec
  <1>7. /\ b.done = d /\ b.tcp_read_buffer = buf /\ b.pending_outbound = a.pending_outbound
        /\ b.pending_tcp_writes = a.pending_tcp_writes /\ b.out = a.out
    BY <1>5, Zenon DEF StreamRec
  <1>8. Shaped(i, b, m)
    BY <1>3, <1>7, Zenon DEF Shaped
  <1>9. QED
    BY <1>6, <1>7, <1>8

\* No application has been read beyond what it has sent.
Taken == \A s \in Side, i \in Ids : app[s][i].taken <= app[s][i].sent

LEMMA ReceiveShaped ==
    ASSUME Types, Boxes, Wires, Taken, NEW s \in Side, NEW i \in Ids, Receive(s, i)
    PROVE  Boxes' /\ Wires' /\ Taken'
  <1>1. PICK a, e, n : /\ a = stream[s][i] /\ e = app[s][i]
                       /\ n = Min({ReadBuf, app[s][i].sent - app[s][i].taken})
    OBVIOUS
  <1>2. /\ a \in StreamRec(FramesOf(i)) /\ Sound(a) /\ a.out = <<>>
        /\ Shaped(i, a, e.taken) /\ e.taken <= e.sent
    <2>1. Shaped(i, a, e.taken) /\ e.taken <= e.sent
      BY <1>1, Zenon DEF Boxes, Taken
    <2>2. QED
      BY <1>1, <2>1, StreamHere
  <1>3. e \in AppRec /\ e.sent \in Nat /\ e.taken \in Nat
    BY <1>1 DEF Types, AppRec
  <1>4. a.reads > 0
    BY <1>1 DEF Receive
  <1>5. PICK buf : buf = a.tcp_read_buffer
    OBVIOUS
  <1>6. PICK x, y, data : /\ x = AppBytes(i, e.taken, e.taken + n)
                          /\ y = SubSeq(buf, n + 1, Len(buf)) /\ data = x \o y
    BY Zenon
  <1>7. /\ net' = net
        /\ \/ /\ n > 0 /\ app' = [app EXCEPT ![s][i].taken = @ + n]
              /\ stream' = [stream EXCEPT ![s][i] = Completes(a, n, data)]
           \/ /\ app' = app
              /\ \E result \in {EndOfStream, ReadFailed} :
                    stream' = [stream EXCEPT ![s][i] = Completes(a, result, buf)]
    BY <1>1, <1>5, <1>6, Zenon DEF Receive, Completes
  <1>8. PICK k, l : k = ReadBuf /\ l = e.sent - e.taken
    OBVIOUS
  <1>9. k \in Nat /\ k > 0 /\ l \in Nat
    BY <1>2, <1>3, <1>8, SmuxAssumption
  <1>10. n = IF k <= l THEN k ELSE l
    BY <1>1, <1>8, <1>9, MinMax
  <1>11. n \in Nat /\ n <= k /\ n <= l
    BY <1>9, <1>10
  <1>12. buf \in Seq(Own(i, e.taken))
    BY <1>2, <1>5, Zenon DEF Shaped
  <1>13. ASSUME NEW m \in Nat, e.taken <= m, NEW result \in (-1)..ReadBuf, NEW u \in Seq(Own(i, m)),
                stream' = [stream EXCEPT ![s][i] = Completes(a, result, u)],
                app'[s][i].taken = m,
                \A t \in Side, j \in Ids : t # s \/ j # i => app'[t][j].taken = app[t][j].taken
         PROVE  Boxes' /\ Wires'
    <2>1. PICK b : b = Completes(a, result, u)
      OBVIOUS
    <2>2. b \in StreamRec(FramesOf(i)) /\ Shaped(i, b, m) /\ b.out = a.out
      <3>1. PICK h : h = e.taken
        BY Zenon
      <3>2. h \in Nat /\ h <= m /\ Shaped(i, a, h)
        BY <1>2, <1>3, <1>13, <3>1
      <3>3. QED
        BY <1>2, <1>4, <1>13, <2>1, <3>2, CompletedShaped
    <2>3. StreamStep(s, i, b)
      <3>1. stream' = [stream EXCEPT ![s][i] = b] /\ net' = net /\ b.out = <<>>
        BY <1>2, <1>7, <1>13, <2>1, <2>2
      <3>2. QED
        BY <2>2, <3>1, QuietStep, Zenon
    <2>4. Effect(s, i, b, net[s])
      BY <2>3, StreamStepEffect
    <2>5. b \in StreamRec(Frame)
      BY <2>2, StreamRecFrame
    <2>6. Shaped(i, b, app'[s][i].taken)
      BY <1>13, <2>2
    <2>7. net[s] \in Seq(Frame) /\ net[s] \in Seq(Fitting)
      BY DEF Types, Wires
    <2>8. QED
      BY <1>13, <2>4, <2>5, <2>6, <2>7, EffectShaped, Zenon
  <1>14. CASE /\ n > 0 /\ app' = [app EXCEPT ![s][i].taken = @ + n]
              /\ stream' = [stream EXCEPT ![s][i] = Completes(a, n, data)]
    <2>1. PICK m : m = e.taken + n
      OBVIOUS
    <2>2. m \in Nat /\ e.taken <= m /\ m <= e.sent /\ n \in (-1)..ReadBuf
      BY <1>3, <1>8, <1>9, <1>11, <2>1
    <2>3. data \in Seq(Own(i, m))
      <3>1. x \in Seq(Own(i, m))
        BY <1>3, <1>6, <1>11, <2>1, AppBytesOwn
      <3>2. y \in Seq(Own(i, m))
        <4>1. Own(i, e.taken) \subseteq Own(i, m)
          BY <1>3, <2>2 DEF Own
        <4>2. buf \in Seq(Own(i, m)) /\ Len(buf) \in Nat
          BY <1>12, <4>1, SeqMonotonic, LenProperties
        <4>3. \A j \in (n + 1)..Len(buf) : buf[j] \in Own(i, m)
          <5>1. \A j \in 1..Len(buf) : buf[j] \in Own(i, m)
            BY <4>2, ElementOfSeq
          <5>2. \A j \in (n + 1)..Len(buf) : j \in 1..Len(buf)
            BY <1>11, <4>2
          <5>3. QED
            BY <5>1, <5>2
        <4>4. n + 1 \in Int /\ Len(buf) \in Int
          BY <1>11, <4>2
        <4>5. QED
          BY <1>6, <4>3, <4>4, SubSeqProperties
      <3>3. QED
        BY <1>6, <3>1, <3>2, ConcatProperties
    <2>4. PICK g : g = [e EXCEPT !.taken = m]
      BY Zenon
    <2>5. g.taken = m /\ g.sent = e.sent
      BY <1>3, <2>4, Zenon DEF AppRec
    <2>6. app' = [app EXCEPT ![s][i] = g]
      BY <1>1, <1>14, <2>1, <2>4
    <2>7. app'[s][i] = g /\ OthersStay(s, i)
      BY <2>6, AppField, Zenon
    <2>8. Boxes' /\ Wires'
      <3>1. /\ app'[s][i].taken = m
            /\ \A t \in Side, j \in Ids : t # s \/ j # i => app'[t][j].taken = app[t][j].taken
        BY <2>5, <2>7, Zenon DEF OthersStay
      <3>2. QED
        BY <1>13, <1>14, <2>2, <2>3, <3>1
    <2>9. Taken'
      <3>1. SUFFICES ASSUME NEW t \in Side, NEW j \in Ids PROVE app'[t][j].taken <= app'[t][j].sent
        BY Zenon DEF Taken
      <3>2. CASE t = s /\ j = i
        BY <2>2, <2>5, <2>7, <3>2
      <3>3. CASE t # s \/ j # i
        BY <2>7, <3>3, Zenon DEF OthersStay, Taken
      <3>4. QED
        BY <3>2, <3>3
    <2>10. QED
      BY <2>8, <2>9
  <1>15. CASE /\ app' = app
              /\ \E result \in {EndOfStream, ReadFailed} :
                    stream' = [stream EXCEPT ![s][i] = Completes(a, result, buf)]
    <2>1. PICK result \in {EndOfStream, ReadFailed} :
              stream' = [stream EXCEPT ![s][i] = Completes(a, result, buf)]
      BY <1>15, Zenon
    <2>2. result \in (-1)..ReadBuf
      BY <1>8, <1>9 DEF EndOfStream, ReadFailed
    <2>3. e.taken <= e.taken /\ app'[s][i].taken = e.taken
      BY <1>1, <1>3, <1>15
    <2>4. Boxes' /\ Wires'
      BY <1>3, <1>12, <1>13, <1>15, <2>1, <2>2, <2>3, Zenon
    <2>5. Taken'
      BY <1>15, Zenon DEF Taken
    <2>6. QED
      BY <2>4, <2>5
  <1>16. QED
    BY <1>7, <1>14, <1>15

LEMMA AcceptShaped ==
    ASSUME Types, Boxes, Wires, Taken, HandleAccept
    PROVE  Boxes' /\ Wires' /\ Taken'
  <1>1. PICK s \in Side : s = "client"
    BY DEF Side
  <1>2. PICK i : i = NextStreamId(session["client"].next_stream_id)
    OBVIOUS
  <1>3. i \in Ids
    BY <1>2, Zenon DEF HandleAccept
  <1>4. PICK gone \in BOOLEAN :
           /\ StreamStep(s, i, StartClient(SendFrame(NewStream("idle"), Syn(i)), gone))
           /\ app' = [app EXCEPT ![s][i].gone = gone]
    BY <1>1, <1>2, Zenon DEF HandleAccept
  <1>5. PICK b, g : /\ b = StartClient(SendFrame(NewStream("idle"), Syn(i)), gone)
                    /\ BecameGone(s, i, g, gone)
    BY <1>3, <1>4, GoneApp
  <1>6. b \in StreamRec(Frame) /\ Fresh(i, b) /\ b.out = <<Syn(i)>>
    BY <1>3, <1>5, StartClientFresh
  <1>7. b.out \in Seq(Fitting)
    <2>1. PICK f : f = Syn(i)
      OBVIOUS
    <2>2. f \in Fitting
      BY <1>3, <2>1 DEF Syn, Fitting, Frame
    <2>3. <<f>> \in Seq(Fitting)
      BY <2>2
    <2>4. QED
      BY <1>6, <2>1, <2>3
  <1>8. Shaped(i, b, app'[s][i].taken)
    BY <1>6, <1>7, BlankShaped DEF Fresh
  <1>9. \A t \in Side, j \in Ids : app'[t][j].taken = app[t][j].taken /\ app'[t][j].sent = app[t][j].sent
    BY <1>5, Zenon DEF BecameGone, OthersStay
  <1>10. Effect(s, i, b, net[s])
    BY <1>3, <1>4, <1>5, StreamStepEffect
  <1>11. net[s] \in Seq(Frame) /\ net[s] \in Seq(Fitting)
    BY DEF Types, Wires
  <1>12. Boxes' /\ Wires'
    BY <1>3, <1>6, <1>8, <1>9, <1>10, <1>11, EffectShaped, Zenon
  <1>13. Taken'
    BY <1>9, Zenon DEF Taken
  <1>14. QED
    BY <1>12, <1>13

\* One application goes on.
LEMMA AppShaped ==
    ASSUME Types, Boxes, Wires, Taken, NEW s \in Side, NEW i \in Ids,
           AppSend(s, i) \/ AppEof(s, i) \/ AppReset(s, i)
    PROVE  Boxes' /\ Wires' /\ Taken'
  <1>1. UNCHANGED <<stream, net>>
    BY DEF AppSend, AppEof, AppReset
  <1>2. PICK e, n : e = app[s][i] /\ n = e.sent + 1
    BY Zenon
  <1>3. e \in AppRec /\ e.sent \in Nat /\ n \in Nat /\ e.taken \in Nat /\ e.taken <= e.sent
    BY <1>2 DEF Types, AppRec, Taken
  <1>4. PICK g : app' = [app EXCEPT ![s][i] = g] /\ g.taken = e.taken /\ e.taken <= g.sent
    <2>1. CASE AppSend(s, i)
      <3>1. PICK g : g = [e EXCEPT !.sent = n]
        BY Zenon
      <3>2. g.taken = e.taken /\ g.sent = n
        BY <1>3, <3>1, Zenon DEF AppRec
      <3>3. app' = [app EXCEPT ![s][i] = g]
        BY <1>2, <2>1, <3>1 DEF AppSend
      <3>4. e.taken <= n
        BY <1>2, <1>3
      <3>5. QED
        BY <3>2, <3>3, <3>4
    <2>2. CASE AppEof(s, i)
      <3>1. PICK g : g = [e EXCEPT !.eof = TRUE]
        BY Zenon
      <3>2. g.taken = e.taken /\ g.sent = e.sent
        BY <1>3, <3>1, Zenon DEF AppRec
      <3>3. app' = [app EXCEPT ![s][i] = g]
        BY <1>2, <2>2, <3>1 DEF AppEof
      <3>4. QED
        BY <1>3, <3>2, <3>3
    <2>3. CASE AppReset(s, i)
      <3>1. PICK g : g = [e EXCEPT !.gone = TRUE]
        BY Zenon
      <3>2. g.taken = e.taken /\ g.sent = e.sent
        BY <1>3, <3>1, Zenon DEF AppRec
      <3>3. app' = [app EXCEPT ![s][i] = g]
        BY <1>2, <2>3, <3>1 DEF AppReset
      <3>4. QED
        BY <1>3, <3>2, <3>3
    <2>4. QED
      BY <2>1, <2>2, <2>3
  <1>5. app'[s][i] = g /\ OthersStay(s, i)
    BY <1>4, AppField, Zenon
  <1>6. \A t \in Side, j \in Ids : app'[t][j].taken = app[t][j].taken
    BY <1>2, <1>4, <1>5, Zenon DEF OthersStay
  <1>7. Boxes' /\ Wires'
    BY <1>1, <1>6, Zenon DEF Boxes, Wires
  <1>8. Taken'
    BY <1>2, <1>4, <1>5, Zenon DEF OthersStay, Taken
  <1>9. QED
    BY <1>7, <1>8

BuffersInv == Boxes /\ Wires /\ Taken

LEMMA BuffersSame ==
    ASSUME BuffersInv, UNCHANGED <<stream, net, app>>
    PROVE  BuffersInv'
  BY Zenon DEF BuffersInv, Boxes, Wires, Taken

LEMMA BuffersNext == SmuxInv /\ BuffersInv /\ [Next]_vars => BuffersInv'
  <1>1. SUFFICES ASSUME SmuxInv, BuffersInv, [Next]_vars PROVE BuffersInv'
    OBVIOUS
  <1>2. Types /\ Order /\ Boxes /\ Wires /\ Taken
    BY <1>1 DEF SmuxInv, BuffersInv
  <1>3. ASSUME app' = app PROVE Taken' /\ \A t \in Side, j \in Ids : app'[t][j].taken = app[t][j].taken
    BY <1>2, <1>3, Zenon DEF Taken
  <1>4. ASSUME NEW s \in Side, SessionClose(s), app' = app PROVE BuffersInv'
    BY <1>2, <1>3, <1>4, CloseBoxes DEF BuffersInv
  <1>5. CASE UNCHANGED vars
    BY <1>1, <1>5, BuffersSame DEF vars
  <1>6. ASSUME EnvironmentStep PROVE BuffersInv'
    <2>1. CASE HandleAccept
      BY <1>2, <2>1, AcceptShaped DEF BuffersInv
    <2>2. ASSUME NEW s \in Side, NEW i \in Ids, AppSend(s, i) \/ AppEof(s, i) \/ AppReset(s, i)
          PROVE  BuffersInv'
      BY <1>2, <2>2, AppShaped DEF BuffersInv
    <2>3. CASE LinkDown
      BY <1>1, <2>3, BuffersSame DEF LinkDown
    <2>4. CASE Scavenge
      <3>1. SessionClose("client") /\ app' = app /\ "client" \in Side
        BY <2>4 DEF Scavenge, Side
      <3>2. QED
        BY <1>4, <3>1
    <2>5. QED
      BY <1>6, <2>1, <2>2, <2>3, <2>4, Zenon DEF EnvironmentStep
  <1>7. ASSUME NEW s \in Side, ProcessStep(s) PROVE BuffersInv'
    <2>1. CASE ReceiveFrame(s)
      <3>1. app' = app /\ net[s] # <<>>
        BY <2>1, Zenon DEF ReceiveFrame
      <3>2. CASE SessionClose(s)
        BY <1>4, <3>1, <3>2
      <3>3. CASE \E b : /\ Consumed(s, Head(net[s]), stream[s][Head(net[s]).id], b)
                        /\ stream' = [stream EXCEPT ![s][Head(net[s]).id] = [b EXCEPT !.out = <<>>]]
                        /\ net' = [net EXCEPT ![s] = Tail(@), ![Peer(s)] = Transmitted(s, @, b.out)]
        <4>1. Boxes' /\ Wires'
          BY <1>2, <3>1, <3>3, FrameShaped, Zenon
        <4>2. QED
          BY <1>3, <3>1, <4>1 DEF BuffersInv
      <3>4. QED
        BY <2>1, <3>2, <3>3, Zenon DEF ReceiveFrame, Consumed
    <2>2. CASE KeepaliveTimeout(s)
      <3>1. SessionClose(s) /\ app' = app
        BY <2>2 DEF KeepaliveTimeout
      <3>2. QED
        BY <1>4, <3>1
    <2>3. ASSUME NEW i \in Ids, Receive(s, i) PROVE BuffersInv'
      BY <1>2, <2>3, ReceiveShaped DEF BuffersInv
    <2>4. ASSUME NEW i \in Ids,
                 \/ ReadHandler(s, i) \/ WriteHandler(s, i) \/ CloseTimer(s, i)
                 \/ s = "server" /\ ResolveDone(i)
          PROVE  BuffersInv'
      <3>1. \E b : Reshaped(s, i, b)
        BY <1>2, <2>4, ReadHandlerShaped, WriteHandlerShaped, CloseTimerShaped, ResolveDoneShaped, Zenon
      <3>2. app' = app
        BY <2>4 DEF ReadHandler, WriteHandler, CloseTimer, ResolveDone
      <3>3. Boxes' /\ Wires'
        BY <1>2, <1>3, <3>1, <3>2, ReshapedKeeps, Zenon
      <3>4. QED
        BY <1>3, <3>2, <3>3 DEF BuffersInv
    <2>5. ASSUME NEW i \in Ids, s = "server", ConnectDone(i) PROVE BuffersInv'
      <3>1. UNCHANGED <<stream, net>> \/ \E b : Reshaped(s, i, b)
        BY <1>2, <2>5, ConnectDoneShaped, Zenon
      <3>2. \A t \in Side, j \in Ids : app'[t][j].taken = app[t][j].taken /\ app'[t][j].sent = app[t][j].sent
        <4>1. CASE app' = app
          BY <4>1
        <4>2. ASSUME NEW gone \in BOOLEAN, app' = [app EXCEPT ![s][i].gone = gone]
              PROVE  \A t \in Side, j \in Ids : app'[t][j].taken = app[t][j].taken /\ app'[t][j].sent = app[t][j].sent
          <5>1. PICK g : BecameGone(s, i, g, gone)
            BY <1>2, <4>2, GoneApp
          <5>2. QED
            BY <5>1, Zenon DEF BecameGone, OthersStay
        <4>3. app' = app \/ \E gone \in BOOLEAN : app' = [app EXCEPT ![s][i].gone = gone]
          BY <2>5, Zenon DEF ConnectDone
        <4>4. QED
          BY <4>1, <4>2, <4>3
      <3>3. Boxes' /\ Wires'
        <4>1. CASE UNCHANGED <<stream, net>>
          BY <1>2, <3>2, <4>1, Zenon DEF Boxes, Wires
        <4>2. CASE \E b : Reshaped(s, i, b)
          BY <1>2, <3>2, <4>2, ReshapedKeeps, Zenon
        <4>3. QED
          BY <3>1, <4>1, <4>2
      <3>4. Taken'
        BY <1>2, <3>2, Zenon DEF Taken
      <3>5. QED
        BY <3>3, <3>4 DEF BuffersInv
    <2>6. QED
      BY <1>7, <2>1, <2>2, <2>3, <2>4, <2>5, Zenon DEF ProcessStep
  <1>8. QED
    BY <1>1, <1>5, <1>6, <1>7, Zenon DEF Next

LEMMA BuffersInit == Init => BuffersInv
  <1>1. SUFFICES ASSUME Init PROVE BuffersInv
    OBVIOUS
  <1>2. /\ \A s \in Side, i \in Ids : stream[s][i] = NoStream
        /\ \A s \in Side, i \in Ids : app[s][i] = NoApp
        /\ \A s \in Side : net[s] = <<>>
    BY <1>1 DEF Init
  <1>3. /\ NoStream.done = <<>> /\ NoStream.tcp_read_buffer = <<>>
        /\ NoStream.pending_outbound = <<>> /\ NoStream.pending_tcp_writes = <<>>
        /\ NoStream.out = <<>>
    BY DEF NoStream
  <1>4. <<>> \in Seq(Fitting)
    BY EmptySeq
  <1>5. \A i, n : Shaped(i, NoStream, n)
    BY <1>3, <1>4, BlankShaped
  <1>6. NoApp.taken <= NoApp.sent
    BY DEF NoApp
  <1>7. QED
    BY <1>2, <1>4, <1>5, <1>6, Zenon DEF BuffersInv, Boxes, Wires, Taken

\* The sessions, the link and the processes.
Flags ==
    /\ \A s \in Side : session[s].next_stream_id \in Ids \cup {0, 1}
    /\ linkUp \in BOOLEAN /\ exited \subseteq Side

LEMMA FlagsNext == Types /\ Flags /\ [Next]_vars => Flags'
  <1>1. SUFFICES ASSUME Types, Flags, [Next]_vars PROVE Flags'
    OBVIOUS
  <1>2. linkUp' \in BOOLEAN /\ exited' \subseteq Side
    <2>1. CASE UNCHANGED <<linkUp, exited>>
      BY <1>1, <2>1, Zenon DEF Flags
    <2>2. CASE UNCHANGED vars
      BY <2>1, <2>2 DEF vars
    <2>3. CASE EnvironmentStep
      <3>1. CASE HandleAccept \/ Scavenge
        BY <2>1, <3>1, Zenon DEF HandleAccept, Scavenge
      <3>2. CASE \E s \in Side, i \in Ids : AppSend(s, i) \/ AppEof(s, i) \/ AppReset(s, i)
        BY <2>1, <3>2 DEF AppSend, AppEof, AppReset
      <3>3. CASE LinkDown
        BY <1>1, <3>3 DEF LinkDown, Flags
      <3>4. QED
        BY <2>3, <3>1, <3>2, <3>3, Zenon DEF EnvironmentStep
    <2>4. ASSUME NEW s \in Side, ProcessStep(s) PROVE linkUp' \in BOOLEAN /\ exited' \subseteq Side
      <3>1. CASE ReceiveFrame(s) \/ KeepaliveTimeout(s)
        BY <2>1, <3>1, Zenon DEF ReceiveFrame, KeepaliveTimeout
      <3>2. ASSUME NEW i \in Ids, \/ Receive(s, i) \/ ReadHandler(s, i) \/ WriteHandler(s, i)
                                  \/ CloseTimer(s, i) \/ ResolveDone(i)
            PROVE  UNCHANGED <<linkUp, exited>>
        BY <3>2, Zenon DEF Receive, ReadHandler, WriteHandler, CloseTimer, ResolveDone
      <3>3. ASSUME NEW i \in Ids, ConnectDone(i)
            PROVE  linkUp' = linkUp /\ (exited' = exited \/ exited' = exited \cup {"server"})
        BY <3>3, Zenon DEF ConnectDone
      <3>4. ASSUME NEW i \in Ids, ConnectDone(i) PROVE linkUp' \in BOOLEAN /\ exited' \subseteq Side
        BY <1>1, <3>3, <3>4 DEF Flags, Side
      <3>5. QED
        BY <2>1, <2>4, <3>1, <3>2, <3>4, Zenon DEF ProcessStep
    <2>5. QED
      BY <1>1, <2>2, <2>3, <2>4, Zenon DEF Next
  <1>3. \/ session' = session
        \/ \E s \in Side : session' = [session EXCEPT ![s].closed = TRUE]
        \/ \E i \in Ids : session' = [session EXCEPT !["client"].next_stream_id = i]
    <2>1. CASE UNCHANGED vars
      BY <2>1 DEF vars
    <2>2. CASE EnvironmentStep
      <3>1. CASE Scavenge
        BY <3>1 DEF Scavenge, SessionClose, Side
      <3>2. CASE HandleAccept
        BY <3>2, Zenon DEF HandleAccept
      <3>3. QED
        BY <2>2, <3>1, <3>2, Zenon DEF EnvironmentStep, AppSend, AppEof, AppReset, LinkDown
    <2>3. ASSUME NEW s \in Side, ProcessStep(s)
          PROVE  session' = session \/ session' = [session EXCEPT ![s].closed = TRUE]
      <3>1. CASE ReceiveFrame(s)
        BY <3>1, Zenon DEF ReceiveFrame, SessionClose
      <3>2. CASE KeepaliveTimeout(s)
        BY <3>2 DEF KeepaliveTimeout, SessionClose
      <3>3. QED
        BY <2>3, <3>1, <3>2, Zenon DEF ProcessStep, Receive, ReadHandler, WriteHandler, CloseTimer,
                                       ResolveDone, ConnectDone
    <2>4. QED
      BY <1>1, <2>1, <2>2, <2>3, Zenon DEF Next
  <1>4. \A t \in Side : session'[t].next_stream_id \in Ids \cup {0, 1}
    BY <1>1, <1>3 DEF Types, Flags
  <1>5. QED
    BY <1>2, <1>4 DEF Flags

(* The conjuncts of TypeOK that are about one stream. *)
StreamTyped(i, r, taken) ==
  /\ r.phase \in {"idle", "resolve", "connect"}
  /\ r.reads \in Nat
  /\ \A k \in DOMAIN r.done : r.done[k] \in -1..ReadBuf
  /\ \A k \in DOMAIN r.tcp_read_buffer : r.tcp_read_buffer[k] \in {i} \X (1..taken)
  /\ \A k \in DOMAIN r.pending_outbound : Len(r.pending_outbound[k]) \in 1..ReadBuf
  /\ \A k \in DOMAIN r.pending_tcp_writes : Len(r.pending_tcp_writes[k]) \in 1..FrameSize
  /\ {r.num_read, r.num_written, r.incr, r.peer_consumed, r.peer_window}
        \subseteq 0..(Modulus - 1)
  /\ r.tcp_write_active => r.pending_tcp_writes # <<>>
  /\ r.out = <<>>

LEMMA TypesFit == SmuxInv /\ BuffersInv /\ Flags => TypeOK
  <1>1. SUFFICES ASSUME SmuxInv, BuffersInv, Flags PROVE TypeOK
    OBVIOUS
  <1>2. Types
    BY <1>1 DEF SmuxInv
  <1>3. ASSUME NEW s \in Side, NEW i \in Ids
        PROVE  StreamTyped(i, stream[s][i], app[s][i].taken)
    <2> SUFFICES ASSUME NEW r, r = stream[s][i]
                 PROVE  StreamTyped(i, r, app[s][i].taken)
      BY Zenon
    <2>1. r \in StreamRec(Frame) /\ r.out = <<>> /\ Sound(r)
      BY <1>2, StreamHere
    <2>2. Shaped(i, r, app[s][i].taken)
      BY <1>1, Zenon DEF BuffersInv, Boxes
    <2>3. PICK d, b, o, w : /\ d = r.done /\ b = r.tcp_read_buffer
                            /\ o = r.pending_outbound /\ w = r.pending_tcp_writes
      BY Zenon
    <2>4. /\ d \in Seq((-1)..ReadBuf) /\ b \in Seq(Own(i, app[s][i].taken))
          /\ o \in Seq(Sized(ReadBuf)) /\ w \in Seq(Sized(FrameSize))
      BY <2>2, <2>3, Zenon DEF Shaped
    <2>5. \A k \in DOMAIN d : d[k] \in (-1)..ReadBuf
      BY <2>4, LenProperties, ElementOfSeq
    <2>6. \A k \in DOMAIN b : b[k] \in Own(i, app[s][i].taken)
      BY <2>4, LenProperties, ElementOfSeq
    <2>7. \A k \in DOMAIN o : o[k] \in Sized(ReadBuf)
      BY <2>4, LenProperties, ElementOfSeq
    <2>8. \A k \in DOMAIN w : w[k] \in Sized(FrameSize)
      BY <2>4, LenProperties, ElementOfSeq
    <2>9. (\A x \in Sized(ReadBuf) : Len(x) \in 1..ReadBuf) /\ (\A x \in Sized(FrameSize) : Len(x) \in 1..FrameSize)
      BY DEF Sized
    <2>10. /\ r.phase \in {"idle", "resolve", "connect"} /\ r.reads \in Nat
           /\ r.num_read \in Counter /\ r.num_written \in Counter /\ r.incr \in Counter
           /\ r.peer_consumed \in Counter /\ r.peer_window \in Counter
      BY <2>1, Zenon DEF StreamRec
    <2>11. {r.num_read, r.num_written, r.incr, r.peer_consumed, r.peer_window} \subseteq 0..(Modulus - 1)
      BY <2>10, Zenon DEF Counter
    <2>12. r.tcp_write_active => r.pending_tcp_writes # <<>>
      BY <2>1, Zenon DEF Sound
    <2>13. \A k \in DOMAIN b : b[k] \in {i} \X (1..app[s][i].taken)
      BY <2>6, Zenon DEF Own
    <2>14. /\ \A k \in DOMAIN o : Len(o[k]) \in 1..ReadBuf
           /\ \A k \in DOMAIN w : Len(w[k]) \in 1..FrameSize
      BY <2>7, <2>8, <2>9, Zenon
    <2>15. \A k \in DOMAIN d : d[k] \in -1..ReadBuf
      BY <2>5
    <2>16. QED
      BY <2>1, <2>3, <2>10, <2>11, <2>12, <2>13, <2>14, <2>15, Zenon DEF StreamTyped
  <1>4. \A s \in Side : session[s].closed \in BOOLEAN
    BY <1>2 DEF Types
  <1>5. ASSUME NEW s \in Side, NEW k \in DOMAIN net[s]
        PROVE  net[s][k].cmd \in {"syn", "fin", "psh", "upd"} /\ net[s][k].id \in Ids
    <2>1. PICK q : q = net[s]
      OBVIOUS
    <2>2. q \in Seq(Frame) /\ k \in DOMAIN q
      BY <1>2, <1>5, <2>1 DEF Types
    <2>3. q[k] \in Frame
      BY <2>2, LenProperties, ElementOfSeq
    <2>4. \A f \in Frame : f.cmd \in {"syn", "fin", "psh", "upd"} /\ f.id \in Ids
      BY DEF Frame
    <2>5. QED
      BY <2>1, <2>3, <2>4
  <1>6. QED
    BY <1>1, <1>3, <1>4, <1>5, Zenon DEF TypeOK, StreamTyped, Flags, BuffersInv, Taken

(* Counters stay uint32, no queued buffer is empty or larger than what was  *)
(* read, no frame is longer than framesize, tcp_read_buffer_ holds only     *)
(* bytes of its own application, and an outstanding async_write never       *)
(* refers to a payload that has left pending_tcp_writes_.                   *)
THEOREM SmuxTypes == Spec => []TypeOK
  <1>1. Init => Flags
    BY DEF Init, Flags, Side
  <1>2. SmuxInv => Types
    BY DEF SmuxInv
  <1>3. QED
    BY <1>1, <1>2, SmuxInit, SmuxNext, BuffersInit, BuffersNext, FlagsNext, TypesFit, PTL DEF Spec

=============================================================================
