------------------------------- MODULE EncClient -------------------------------
(***************************************************************************)
(* The remote encoder inside libavcodec after the handshake:               *)
(* ff_vtremote_encode of ffmpeg/libavcodec/vtremote_enc_common.c and the   *)
(* functions it calls, under libavcodec's own encode loop                  *)
(* (ffmpeg/libavcodec/encode.c), under an application.                     *)
(*                                                                         *)
(* One call of ff_vtremote_encode is several steps: every read or write of *)
(* the socket is one, so that the server can run in between.  pc says how  *)
(* far the call is:                                                        *)
(*   "app"     no call: the application has control                        *)
(*   "drain"   in vtremote_drain_available_packets                         *)
(*   "submit"  after the drain: return a packet, send the frame, or wait   *)
(*   "limit"   the in-flight limit is reached: blocked in receive_packet   *)
(*   "resend"  a packet has come: send the frame and return                *)
(*   "flush"   no frame: send FLUSH                                        *)
(*   "recv"    FLUSH sent: blocked in receive_packet                       *)
(*   "closed"  ff_vtremote_common_close has run                            *)
(*                                                                         *)
(* pktQueue is the packet ring as the sequence it stands for.  The branch  *)
(* of receive_packet that pops the ring before reading is not an action:   *)
(* ff_vtremote_encode blocks only with an empty ring (QueueEmptyWhenBlocked*)
(* of module EncSession).                                                  *)
(***************************************************************************)
EXTENDS Wire

CONSTANT
    Inflight        \* option vt_remote_inflight, 1 to 128

ASSUME InflightAssumption == Inflight \in 1 .. 128

VARIABLES
    pc,             \* where the call is, see above
    arg,            \* the frame that libavcodec holds (buffer_frame, in_frame),
                    \* which is the call's frame; 0 if none, as when draining
    inflight,       \* inflight_frames
    pktQueue,       \* pkt_queue from pkt_q_head, pkt_q_count long
    flushing,       \* flushing
    done,           \* done: DONE has been read
    packetsRecv,    \* packets_recv
    sent,           \* history: the frames transmitted; Len(sent) is frames_sent
    nextFrame,      \* the frame the application encodes next
    draining,       \* libavcodec: avcodec_send_frame(NULL) was called
    drained,        \* libavcodec: draining_done
    ret,            \* what the encoder's last call returned
    delivered       \* the packets handed to the application

clientVars == <<pc, arg, inflight, pktQueue, flushing, done, packetsRecv, sent,
                nextFrame, draining, drained, ret, delivered>>

\* Number of slots of the packet ring.
QueueSize == IF 2 * Inflight > 4 THEN 2 * Inflight ELSE 4

Fatal == {"EIO", "EPIPE"}

ClientTypeOK ==
    /\ pc \in {"app", "drain", "submit", "limit", "resend", "flush", "recv", "closed"}
    /\ arg \in Frames \cup {NoFrame}
    /\ inflight \in Nat
    /\ pktQueue \in Seq(PacketMsg)
    /\ flushing \in BOOLEAN
    /\ done \in BOOLEAN
    /\ packetsRecv \in Nat
    /\ sent \in Seq(Frames)
    /\ nextFrame \in 1 .. NumFrames + 1
    /\ draining \in BOOLEAN
    /\ drained \in BOOLEAN
    /\ ret \in {"OK", "EAGAIN", "EOF"} \cup Fatal
    /\ delivered \in Seq(PacketMsg)

ClientInit ==
    /\ pc = "app"
    /\ arg = NoFrame
    /\ inflight = 0
    /\ pktQueue = <<>>
    /\ flushing = FALSE
    /\ done = FALSE
    /\ packetsRecv = 0
    /\ sent = <<>>
    /\ nextFrame = 1
    /\ draining = FALSE
    /\ drained = FALSE
    /\ ret = "OK"
    /\ delivered = <<>>

-------------------------------------------------------------------------------
(***************************************************************************)
(* Building blocks.                                                        *)
(***************************************************************************)

\* Mutated form: only a successful call can end the stream.
MutReturn(code, pkts) ==
    /\ pc' = "app"
    /\ arg' = NoFrame
    /\ ret' = code
    /\ delivered' = delivered \o pkts
    /\ drained' = (drained \/ (draining /\ pkts = <<>> /\ code = "OK"))
    /\ UNCHANGED <<nextFrame, draining>>

\* The call returns code with the packets pkts (none or one).  EOF ends the
\* stream for libavcodec; while draining, so does a call without a packet.
Return(code, pkts) ==
    /\ pc' = "app"
    /\ arg' = NoFrame
    /\ ret' = code
    /\ delivered' = delivered \o pkts
    /\ drained' = (drained \/ code = "EOF" \/ (draining /\ pkts = <<>>))
    /\ UNCHANGED <<nextFrame, draining>>

\* The call has to wait for a packet before it can return.
AtLimit(frames) == frames >= Inflight

Goto(label) ==
    /\ pc' = label
    /\ UNCHANGED <<arg, ret, delivered, drained, nextFrame, draining>>

\* Mutated form: the counter is not decremented.
MutSameInflight == inflight

FewerInflight == IF inflight > 0 THEN inflight - 1 ELSE inflight

\* Mutated form: a packet is put in front of those that wait.
MutEnqueuedFirst(packet) == <<packet>> \o pktQueue

\* enqueue_packet: the ring with one packet more.
Enqueued(packet) == Append(pktQueue, packet)

\* Mutated form: the NULL frame passes for a frame.
MutMaySendNull == inflight < Inflight

\* There is a frame, and the in-flight limit leaves room for it.
MaySend == arg # NoFrame /\ inflight < Inflight

\* common_send_frame with a frame, when the socket takes it.
SendFrame ==
    /\ ClientSend([type |-> "FRAME", ord |-> Len(sent) + 1, frame |-> arg])
    /\ inflight' = inflight + 1
    /\ sent' = Append(sent, arg)

\* common_send_frame with a frame, when the socket does not take it.
SendFrameFails ==
    /\ ClientSendFails(arg)
    /\ UNCHANGED <<inflight, sent>>

NoSend == UNCHANGED <<c2s, tx, torn, inflight, sent>>

Consume == s2c' = Tail(s2c)

-------------------------------------------------------------------------------
(***************************************************************************)
(* libavcodec and the application.                                         *)
(***************************************************************************)

\* avcodec_send_frame(frame), down to the encoder's callback.  The frame is
\* unreferenced when the callback returns, whatever it returns.  After the end
\* of the stream the encoder is not called: libavcodec keeps the frame, reports
\* success, and refuses every frame after it for want of room.
EncodeFrame ==
    /\ pc = "app"
    /\ ~draining
    /\ arg = NoFrame
    /\ nextFrame <= NumFrames
    /\ arg' = nextFrame
    /\ nextFrame' = nextFrame + 1
    /\ pc' = IF drained THEN "app" ELSE "drain"
    /\ UNCHANGED <<inflight, pktQueue, flushing, done, packetsRecv, sent,
                   draining, drained, ret, delivered, wireVars>>

\* avcodec_send_frame(NULL): end of stream, possibly before the last frame.
StartDraining ==
    /\ pc = "app"
    /\ ~draining
    /\ arg = NoFrame
    /\ draining' = TRUE
    /\ pc' = IF drained THEN "app" ELSE "drain"
    /\ UNCHANGED <<arg, inflight, pktQueue, flushing, done, packetsRecv, sent,
                   nextFrame, drained, ret, delivered, wireVars>>

\* Draining, libavcodec calls the encoder until a call yields no packet.
DrainAgain ==
    /\ pc = "app"
    /\ draining
    /\ ~drained
    /\ pc' = "drain"
    /\ UNCHANGED <<arg, inflight, pktQueue, flushing, done, packetsRecv, sent,
                   nextFrame, draining, drained, ret, delivered, wireVars>>

\* The application closes the encoder after the end or a fatal error.
Close ==
    /\ pc = "app"
    /\ drained \/ ret \in Fatal
    /\ pc' = "closed"
    /\ ClientCloses
    /\ UNCHANGED <<arg, inflight, pktQueue, flushing, done, packetsRecv, sent,
                   nextFrame, draining, drained, ret, delivered>>

-------------------------------------------------------------------------------
(***************************************************************************)
(* vtremote_drain_available_packets.                                       *)
(***************************************************************************)

\* The ring is full, or poll() finds nothing to read (yet).  After a reset
\* poll() always reports the socket readable.
DrainStop ==
    /\ pc = "drain"
    /\ Len(pktQueue) < QueueSize => tx # "dead"
    /\ Goto("submit")
    /\ UNCHANGED <<inflight, pktQueue, flushing, done, packetsRecv, sent, wireVars>>

DrainPacket ==
    /\ pc = "drain"
    /\ Len(pktQueue) < QueueSize
    /\ ClientSees("PACKET")
    /\ Consume
    /\ pktQueue' = Enqueued(Head(s2c))
    /\ packetsRecv' = packetsRecv + 1
    /\ inflight' = FewerInflight
    /\ UNCHANGED <<pc, arg, flushing, done, sent, nextFrame, draining, drained,
                   ret, delivered, c2s, c2sEnd, s2cEnd, tx, torn>>

DrainDone ==
    /\ pc = "drain"
    /\ Len(pktQueue) < QueueSize
    /\ ClientSees("DONE")
    /\ Consume
    /\ done' = TRUE
    /\ Goto("submit")
    /\ UNCHANGED <<inflight, pktQueue, flushing, packetsRecv, sent,
                   c2s, c2sEnd, s2cEnd, tx, torn>>

\* ERROR, or the end of the server's stream: the call fails at once, before
\* it looks at the ring.
DrainFails ==
    /\ pc = "drain"
    /\ Len(pktQueue) < QueueSize
    /\ \/ ClientSees("ERROR") /\ Consume /\ Return("EIO", <<>>)
       \/ s2c = <<>> /\ s2cEnd = "fin" /\ UNCHANGED s2c /\ Return("EOF", <<>>)
       \/ s2c = <<>> /\ s2cEnd = "rst" /\ UNCHANGED s2c /\ Return("EIO", <<>>)
    /\ UNCHANGED <<inflight, pktQueue, flushing, done, packetsRecv, sent,
                   c2s, c2sEnd, s2cEnd, tx, torn>>

-------------------------------------------------------------------------------
(***************************************************************************)
(* ff_vtremote_encode after the drain.                                     *)
(***************************************************************************)

\* A queued packet is returned; the frame, if any, is sent on the way out
\* when the limit allows it, and a failure to send it is ignored.
PopAndSend ==
    /\ pc = "submit"
    /\ pktQueue # <<>>
    /\ pktQueue' = Tail(pktQueue)
    /\ Return("OK", <<Head(pktQueue)>>)
    /\ IF MaySend THEN SendFrame \/ SendFrameFails ELSE NoSend
    /\ UNCHANGED <<flushing, done, packetsRecv, s2c, c2sEnd, s2cEnd>>

\* No packet is queued and the limit leaves room: send the frame.  If that
\* exhausts the limit, the call goes on to wait, still holding the frame.
SubmitFrame ==
    /\ pc = "submit"
    /\ pktQueue = <<>>
    /\ MaySend
    /\ SendFrame
    /\ IF AtLimit(inflight') THEN Goto("limit") ELSE Return("OK", <<>>)
    /\ UNCHANGED <<pktQueue, flushing, done, packetsRecv, s2c, c2sEnd, s2cEnd>>

SubmitFails ==
    /\ pc = "submit"
    /\ pktQueue = <<>>
    /\ MaySend
    /\ SendFrameFails
    /\ Return(SendError, <<>>)
    /\ UNCHANGED <<pktQueue, flushing, done, packetsRecv, s2c, c2sEnd, s2cEnd>>

LimitReached ==
    /\ pc = "submit"
    /\ pktQueue = <<>>
    /\ arg # NoFrame
    /\ AtLimit(inflight)
    /\ Goto("limit")
    /\ UNCHANGED <<inflight, pktQueue, flushing, done, packetsRecv, sent, wireVars>>

\* Mutated form: draining asks for more before it returns what waits.
MutFlushFirst ==
    /\ pc = "submit"
    /\ arg = NoFrame
    /\ Goto("flush")
    /\ UNCHANGED <<inflight, pktQueue, flushing, done, packetsRecv, sent, wireVars>>

NothingToSend ==
    /\ pc = "submit"
    /\ pktQueue = <<>>
    /\ arg = NoFrame
    /\ Goto("flush")
    /\ UNCHANGED <<inflight, pktQueue, flushing, done, packetsRecv, sent, wireVars>>

\* Mutated form: the call waits again when the frame has taken the last slot.
MutResend ==
    /\ pc = "resend"
    /\ SendFrame \/ SendFrameFails
    /\ pc' = IF AtLimit(inflight') THEN "limit" ELSE "app"
    /\ arg' = IF AtLimit(inflight') THEN arg ELSE NoFrame
    /\ ret' = "OK"
    /\ UNCHANGED <<pktQueue, flushing, done, packetsRecv, nextFrame, draining,
                   drained, delivered, s2c, c2sEnd, s2cEnd>>

\* The frame for which the call waited is sent, whether or not SubmitFrame
\* sent it before the wait.  The packet has been delivered by RecvPacket; the
\* call returns 0 whatever the send does.
Resend ==
    /\ pc = "resend"
    /\ SendFrame \/ SendFrameFails
    /\ pc' = "app"
    /\ arg' = NoFrame
    /\ ret' = "OK"
    /\ UNCHANGED <<pktQueue, flushing, done, packetsRecv, nextFrame, draining,
                   drained, delivered, s2c, c2sEnd, s2cEnd>>

\* common_send_frame(NULL), on every draining call that found no packet.
SendFlush ==
    /\ pc = "flush"
    /\ flushing' = TRUE
    /\ \/ ClientSend([type |-> "FLUSH"]) /\ Goto("recv")
       \/ ClientSendFails(NoFrame) /\ Return(SendError, <<>>)
    /\ UNCHANGED <<inflight, pktQueue, done, packetsRecv, sent, s2c, c2sEnd, s2cEnd>>

-------------------------------------------------------------------------------
(***************************************************************************)
(* ff_vtremote_common_receive_packet, at either of its two call sites.     *)
(***************************************************************************)
Blocked == pc \in {"limit", "recv"}

\* The packet goes through the ring and straight to the application.  At the
\* limit the call still has a frame to send before it returns.
RecvPacket ==
    /\ Blocked
    /\ ~done
    /\ ClientSees("PACKET")
    /\ Consume
    /\ LET ring == Enqueued(Head(s2c))
       IN  /\ pktQueue' = Tail(ring)
           /\ IF pc = "limit"
              THEN /\ pc' = "resend"
                   /\ delivered' = Append(delivered, Head(ring))
                   /\ UNCHANGED <<arg, ret, drained, nextFrame, draining>>
              ELSE Return("OK", <<Head(ring)>>)
    /\ packetsRecv' = packetsRecv + 1
    /\ inflight' = FewerInflight
    /\ UNCHANGED <<flushing, done, sent, c2s, c2sEnd, s2cEnd, tx, torn>>

RecvDone ==
    /\ Blocked
    /\ \/ done /\ UNCHANGED <<done, s2c>>
       \/ ~done /\ ClientSees("DONE") /\ Consume /\ done' = TRUE
    /\ Return("EOF", <<>>)
    /\ UNCHANGED <<inflight, pktQueue, flushing, packetsRecv, sent,
                   c2s, c2sEnd, s2cEnd, tx, torn>>

RecvFails ==
    /\ Blocked
    /\ ~done
    /\ \/ ClientSees("ERROR") /\ Consume /\ Return("EIO", <<>>)
       \/ s2c = <<>> /\ s2cEnd = "fin" /\ UNCHANGED s2c /\ Return("EOF", <<>>)
       \/ s2c = <<>> /\ s2cEnd = "rst" /\ UNCHANGED s2c /\ Return("EIO", <<>>)
    /\ UNCHANGED <<inflight, pktQueue, flushing, done, packetsRecv, sent,
                   c2s, c2sEnd, s2cEnd, tx, torn>>

\* SO_RCVTIMEO expired before a byte of the next message came.
RecvTimeout ==
    /\ Blocked
    /\ ~done
    /\ "timeout" \in Faults
    /\ Return("EAGAIN", <<>>)
    /\ UNCHANGED <<inflight, pktQueue, flushing, done, packetsRecv, sent, wireVars>>

\* PING is answered wherever the client reads; the outcome of the answer is
\* ignored and the reading goes on.
AnswerPing ==
    /\ \/ pc = "drain" /\ Len(pktQueue) < QueueSize
       \/ Blocked /\ ~done
    /\ ClientSees("PING")
    /\ Consume
    /\ ClientSend([type |-> "PONG"]) \/ ClientSendFails(NoFrame)
    /\ UNCHANGED <<clientVars, c2sEnd, s2cEnd>>

-------------------------------------------------------------------------------
Receive == RecvPacket \/ RecvDone \/ RecvFails
Drain   == DrainStop \/ DrainPacket \/ DrainDone \/ DrainFails
Submit  == PopAndSend \/ SubmitFrame \/ SubmitFails \/ LimitReached \/ NothingToSend

\* The steps of a call that has begun; the rest is the application's choice.
CallStep == Drain \/ Submit \/ Resend \/ SendFlush \/ Receive \/ AnswerPing

AppStep == EncodeFrame \/ StartDraining \/ DrainAgain \/ Close

ClientNext == AppStep \/ CallStep \/ RecvTimeout
===============================================================================
