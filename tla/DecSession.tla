------------------------------ MODULE DecSession ------------------------------
(***************************************************************************)
(* A decode session after the handshake: ff_vtremote_decode of             *)
(* ffmpeg/libavcodec/vtremote_dec_common.c under libavcodec's decode loop  *)
(* (ffmpeg/libavcodec/decode.c) and an application, and the message loop   *)
(* of vtremoted with a VideoToolbox decompression session.                 *)
(*                                                                         *)
(* The decoder is simpler than the encoder: a call sends one packet and    *)
(* then blocks for one message.  pc says how far a call is:                *)
(*   "app"      no call: the application has control                       *)
(*   "call"     before the packet or the FLUSH is sent                     *)
(*   "read"     blocked in vtremote_read_msg                               *)
(*   "closed"   ff_vtremote_dec_close has run                              *)
(*   "aborted"  libavcodec's assertion has ended the process               *)
(* The early return of ff_vtremote_decode once done is set is no action:   *)
(* libavcodec does not call a decoder again that has returned EOF.         *)
(*                                                                         *)
(* NumFrames of module Wire is the number of packets of the stream.        *)
(***************************************************************************)
EXTENDS Wire, SequencesExt

CONSTANTS
    MaxDrainErrors, \* errors libavcodec takes while draining (nb_errors_max)
    MaxPings        \* bound: the PINGs a peer sends in a session

ASSUME DecAssumption ==
    /\ MaxDrainErrors \in Nat
    /\ MaxPings \in Nat

VARIABLES
    pc,             \* where the call is, see above
    arg,            \* the call's packet, 0 for the empty one of draining
    nextPacket,     \* the packet the application decodes next
    sentPackets,    \* history: packets transmitted; its length is packets_sent
    flushing,       \* flushing
    done,           \* done
    draining,       \* libavcodec: draining_started
    drained,        \* libavcodec: draining_done
    drainErrors,    \* libavcodec: nb_draining_errors
    ret,            \* what the last call returned
    delivered,      \* frames handed to the application; its length is frames_recv
    cutShort        \* history: a receive timeout has ended the draining

clientVars == <<pc, arg, nextPacket, sentPackets, flushing, done, draining,
                drained, drainErrors, ret, delivered, cutShort>>

VARIABLES
    srv,            \* the handler: "loop", "flushing", "done", "closed"
    pending,        \* packets given to the decompression session
    framesOut,      \* history: frames sent; its length is stats.framesOut
    lost,           \* history: packets that got no frame
    pings           \* history: PINGs sent

serverVars == <<srv, pending, framesOut, lost, pings>>

vars == <<clientVars, serverVars, wireVars>>

NoPacket == 0

Fatal == {"EIO", "EPIPE"}

DecClientMsg == [type : {"PACKET"}, packet : Frames] \cup PartMsg
                                                     \cup [type : {"FLUSH", "PONG"}]
DecServerMsg == [type : {"FRAME"}, packet : Frames] \cup [type : {"DONE", "PING", "ERROR"}]

ClientTypeOK ==
    /\ pc \in {"app", "call", "read", "closed", "aborted"}
    /\ arg \in Frames \cup {NoPacket}
    /\ nextPacket \in 1 .. NumFrames + 1
    /\ sentPackets \in Seq(Frames)
    /\ flushing \in BOOLEAN
    /\ done \in BOOLEAN
    /\ draining \in BOOLEAN
    /\ drained \in BOOLEAN
    /\ drainErrors \in 0 .. MaxDrainErrors + 1
    /\ ret \in {"OK", "EOF"} \cup Fatal
    /\ delivered \in Seq(Frames)
    /\ cutShort \in BOOLEAN

\* vtremoted decodes one packet at a time.
ServerTypeOK ==
    /\ srv \in {"loop", "flushing", "done", "closed"}
    /\ pending \in Seq(Frames)
    /\ Len(pending) <= 1
    /\ framesOut \in Seq(Frames)
    /\ lost \subseteq Frames
    /\ pings \in 0 .. MaxPings

StreamTypeOK ==
    /\ c2s \in Seq(DecClientMsg)
    /\ s2c \in Seq(DecServerMsg)
    /\ c2sEnd \in {"open", "fin"}
    /\ s2cEnd \in {"open", "fin", "rst"}
    /\ tx \in {"ok", "refused", "dead"}
    /\ torn \in BOOLEAN

TypeOK == ClientTypeOK /\ ServerTypeOK /\ StreamTypeOK

Init ==
    /\ WireInit
    /\ pc = "app"
    /\ arg = NoPacket
    /\ nextPacket = 1
    /\ sentPackets = <<>>
    /\ flushing = FALSE
    /\ done = FALSE
    /\ draining = FALSE
    /\ drained = FALSE
    /\ drainErrors = 0
    /\ ret = "OK"
    /\ delivered = <<>>
    /\ cutShort = FALSE
    /\ srv = "loop"
    /\ pending = <<>>
    /\ framesOut = <<>>
    /\ lost = {}
    /\ pings = 0

-------------------------------------------------------------------------------
(***************************************************************************)
(* libavcodec and the application.                                         *)
(***************************************************************************)

\* Mutated form: a call without a frame ends the stream, draining or not.
MutEndsEarly(code, frames) ==
    \/ code = "EOF"
    \/ code = "OK" /\ frames = <<>>
    \/ draining /\ code \in Fatal /\ drainErrors >= MaxDrainErrors

\* Mutated form: errors never end the stream.
MutEndsNever(code, frames) ==
    \/ code = "EOF"
    \/ draining /\ code = "OK" /\ frames = <<>>

\* A call that returns code and frames ends the stream: EOF always does; while
\* draining, so does a call without a frame, or one error too many.
Ends(code, frames) ==
    \/ code = "EOF"
    \/ draining /\ code = "OK" /\ frames = <<>>
    \/ draining /\ code \in Fatal /\ drainErrors >= MaxDrainErrors

\* The callback returns code with frames (none or one) to libavcodec.  Errors
\* are counted as far as the limit.
Return(code, frames) ==
    /\ pc' = "app"
    /\ arg' = NoPacket
    /\ ret' = code
    /\ delivered' = delivered \o frames
    /\ drained' = Ends(code, frames)
    /\ drainErrors' = IF draining /\ code \in Fatal /\ drainErrors <= MaxDrainErrors
                      THEN drainErrors + 1
                      ELSE drainErrors
    /\ UNCHANGED <<nextPacket, draining>>

\* avcodec_send_packet(packet), down to the decoder's callback.
SendPacket ==
    /\ pc = "app"
    /\ ~draining
    /\ ~drained
    /\ nextPacket <= NumFrames
    /\ pc' = "call"
    /\ arg' = nextPacket
    /\ nextPacket' = nextPacket + 1
    /\ UNCHANGED <<sentPackets, flushing, done, draining, drained, drainErrors,
                   ret, delivered, cutShort, wireVars>>

\* avcodec_send_packet(NULL), possibly before the last packet, then
\* avcodec_receive_frame until the stream ends: one callback each.
Drain ==
    /\ pc = "app"
    /\ ~drained
    /\ draining' = TRUE
    /\ pc' = "call"
    /\ UNCHANGED <<arg, nextPacket, sentPackets, flushing, done, drained,
                   drainErrors, ret, delivered, cutShort, wireVars>>

\* The application closes the decoder after the end or a fatal error.
Close ==
    /\ pc = "app"
    /\ drained \/ ret \in Fatal
    /\ pc' = "closed"
    /\ ClientCloses
    /\ UNCHANGED <<arg, nextPacket, sentPackets, flushing, done, draining, drained,
                   drainErrors, ret, delivered, cutShort>>

-------------------------------------------------------------------------------
(***************************************************************************)
(* ff_vtremote_decode.                                                     *)
(***************************************************************************)
Reading ==
    /\ pc' = "read"
    /\ UNCHANGED <<arg, nextPacket, draining, drained, drainErrors, ret, delivered>>

SubmitPacket ==
    /\ pc = "call"
    /\ arg # NoPacket
    /\ ClientSend([type |-> "PACKET", packet |-> arg])
    /\ sentPackets' = Append(sentPackets, arg)
    /\ Reading
    /\ UNCHANGED <<flushing, done, cutShort, s2c, c2sEnd, s2cEnd>>

\* FLUSH goes out once, on the first call of draining.
SubmitFlush ==
    /\ pc = "call"
    /\ arg = NoPacket
    /\ ~flushing
    /\ ClientSend([type |-> "FLUSH"])
    /\ flushing' = TRUE
    /\ Reading
    /\ UNCHANGED <<sentPackets, done, cutShort, s2c, c2sEnd, s2cEnd>>

FlushSent ==
    /\ pc = "call"
    /\ arg = NoPacket
    /\ flushing
    /\ Reading
    /\ UNCHANGED <<sentPackets, flushing, done, cutShort, wireVars>>

\* The socket does not take the packet or the FLUSH.  EAGAIN, from the send
\* timeout, is an error libavcodec asserts a decoder does not return.
SubmitFails ==
    /\ pc = "call"
    /\ arg = NoPacket => ~flushing
    /\ ClientSendFails(NoFrame)
    /\ flushing' = (flushing \/ arg = NoPacket)
    /\ IF SendError = "EAGAIN"
       THEN /\ pc' = "aborted"
            /\ c2sEnd' = "fin"
            /\ UNCHANGED <<arg, nextPacket, draining, drained, drainErrors, ret, delivered>>
       ELSE Return(SendError, <<>>) /\ UNCHANGED c2sEnd
    /\ UNCHANGED <<sentPackets, done, cutShort, s2c, s2cEnd>>

\* The frame is parsed, decompressed and copied to a picture.  vtremoted's frames
\* are well formed and memory is taken to suffice: the error returns behind a FRAME
\* that has been read are left out.
ReadFrame ==
    /\ pc = "read"
    /\ ClientSees("FRAME")
    /\ s2c' = Tail(s2c)
    /\ Return("OK", <<Head(s2c).packet>>)
    /\ UNCHANGED <<sentPackets, flushing, done, cutShort, c2s, c2sEnd, s2cEnd, tx, torn>>

ReadDone ==
    /\ pc = "read"
    /\ ClientSees("DONE")
    /\ s2c' = Tail(s2c)
    /\ done' = TRUE
    /\ Return("EOF", <<>>)
    /\ UNCHANGED <<sentPackets, flushing, cutShort, c2s, c2sEnd, s2cEnd, tx, torn>>

\* ERROR, the end of the server's stream, or a reset.
ReadFails ==
    /\ pc = "read"
    /\ \/ ClientSees("ERROR") /\ s2c' = Tail(s2c) /\ Return("EIO", <<>>)
       \/ s2c = <<>> /\ s2cEnd = "fin" /\ UNCHANGED s2c /\ Return("EOF", <<>>)
       \/ s2c = <<>> /\ s2cEnd = "rst" /\ UNCHANGED s2c /\ Return("EIO", <<>>)
    /\ UNCHANGED <<sentPackets, flushing, done, cutShort, c2s, c2sEnd, s2cEnd, tx, torn>>

\* SO_RCVTIMEO expired before a byte of the next message came: success
\* without a frame.
ReadTimeout ==
    /\ pc = "read"
    /\ "timeout" \in Faults
    /\ Return("OK", <<>>)
    /\ cutShort' = (cutShort \/ draining)
    /\ UNCHANGED <<sentPackets, flushing, done, wireVars>>

\* PING is answered, whatever becomes of the answer, and the reading goes on.
AnswerPing ==
    /\ pc = "read"
    /\ ClientSees("PING")
    /\ s2c' = Tail(s2c)
    /\ ClientSend([type |-> "PONG"]) \/ ClientSendFails(NoFrame)
    /\ UNCHANGED <<clientVars, c2sEnd, s2cEnd>>

Call ==
    \/ SubmitPacket \/ SubmitFlush \/ FlushSent \/ SubmitFails
    \/ ReadFrame \/ ReadDone \/ ReadFails \/ ReadTimeout \/ AnswerPing

ClientNext == SendPacket \/ Drain \/ Close \/ Call

-------------------------------------------------------------------------------
(***************************************************************************)
(* vtremoted: VTRClientHandler.mainLoop, handlePacketMessage and flush.    *)
(***************************************************************************)

\* Mutated form: VTDecompressionSessionDecodeFrame is not waited for.
MutNoWait == TRUE

\* VTDecompressionSessionWaitForAsynchronousFrames has returned.
AsyncFramesDone == pending = <<>>

\* case .packet: handlePacketMessage.
ReadPacket ==
    /\ srv = "loop"
    /\ AsyncFramesDone
    /\ ServerSees("PACKET")
    /\ c2s' = Tail(c2s)
    /\ pending' = Append(pending, Head(c2s).packet)
    /\ UNCHANGED <<srv, framesOut, lost, pings, s2c, c2sEnd, s2cEnd, tx, torn>>

\* case .flush, until flush() has returned; any other message is dropped.
ReadOther ==
    /\ srv = "loop"
    /\ AsyncFramesDone
    /\ ServerSees("FLUSH") \/ ServerSees("PONG")
    /\ c2s' = Tail(c2s)
    /\ srv' = IF ServerSees("FLUSH") THEN "flushing" ELSE "loop"
    /\ UNCHANGED <<pending, framesOut, lost, pings, s2c, c2sEnd, s2cEnd, tx, torn>>

\* A message put together from a part and what was written behind it.  Only a
\* PONG can be followed by anything, so it is no PACKET, and is dropped.
ReadGarbled ==
    /\ srv = "loop"
    /\ AsyncFramesDone
    /\ ReadSpliced
    /\ UNCHANGED <<serverVars, s2c, c2sEnd, s2cEnd, tx, torn>>

\* readMessage throws: run() unwinds.
ReadBroken ==
    /\ srv = "loop"
    /\ AsyncFramesDone
    /\ NoMessage
    /\ srv' = "closed"
    /\ ServerCloses(Tail(c2s))
    /\ UNCHANGED <<pending, framesOut, lost, pings, s2c>>

SendDone ==
    /\ srv = "flushing"
    /\ ServerSend([type |-> "DONE"])
    /\ srv' = "done"
    /\ UNCHANGED <<pending, framesOut, lost, pings, c2s, c2sEnd, s2cEnd, tx, torn>>

\* The end of the session, the end of the client's stream, or 10 s without a
\* message: run() shuts the codec session down and the descriptor is closed.
Shutdown ==
    /\ \/ srv = "done"
       \/ srv = "loop" /\ AsyncFramesDone /\ c2s = <<>> /\ c2sEnd = "fin"
       \/ srv = "loop" /\ AsyncFramesDone /\ c2s = <<>> /\ "idle" \in Faults
    /\ srv' = "closed"
    /\ pending' = <<>>
    /\ ServerCloses(c2s)
    /\ UNCHANGED <<framesOut, lost, pings, s2c>>

\* The process dies (module Daemon says of what), and its sockets close.
Crash ==
    /\ "crash" \in Faults
    /\ srv # "closed"
    /\ srv' = "closed"
    /\ pending' = <<>>
    /\ ServerCloses(c2s)
    /\ UNCHANGED <<framesOut, lost, pings, s2c>>

\* The output callback for the i-th packet pending: handleDecodedFrame sends
\* the frame.  A failure to send it is logged and otherwise ignored.
EmitFrame(i) ==
    /\ i \in DOMAIN pending
    /\ ServerSend([type |-> "FRAME", packet |-> pending[i]])
    /\ framesOut' = Append(framesOut, pending[i])
    /\ pending' = RemoveAt(pending, i)
    /\ UNCHANGED <<srv, lost, pings, c2s, c2sEnd, s2cEnd, tx, torn>>

\* The packet ends with an error status, in handlePacketMessage or in the
\* callback, or its planes do not compress: it has no frame.
LoseFrame(i) ==
    /\ "drop" \in Faults
    /\ i \in DOMAIN pending
    /\ lost' = lost \cup {pending[i]}
    /\ pending' = RemoveAt(pending, i)
    /\ UNCHANGED <<srv, framesOut, pings, wireVars>>

\* What vtremoted does not send after the handshake and the client handles.
PeerPing ==
    /\ "ping" \in Faults
    /\ srv = "loop"
    /\ pings < MaxPings
    /\ pings' = pings + 1
    /\ ServerSend([type |-> "PING"])
    /\ UNCHANGED <<srv, pending, framesOut, lost, c2s, c2sEnd, s2cEnd, tx, torn>>

PeerError ==
    /\ "error" \in Faults
    /\ srv = "loop"
    /\ ServerSend([type |-> "ERROR"])
    /\ srv' = "closed"
    /\ pending' = <<>>
    /\ ServerCloses(c2s)
    /\ UNCHANGED <<framesOut, lost, pings>>

LoopStep == ReadPacket \/ ReadOther \/ ReadGarbled \/ ReadBroken \/ SendDone \/ Shutdown

Callback == \E i \in DOMAIN pending : EmitFrame(i) \/ LoseFrame(i)

ServerNext == LoopStep \/ Callback \/ Crash \/ PeerPing \/ PeerError

-------------------------------------------------------------------------------
Terminated ==
    /\ pc \in {"closed", "aborted"}
    /\ srv = "closed"
    /\ UNCHANGED vars

Next ==
    \/ ClientNext /\ UNCHANGED serverVars
    \/ ServerNext /\ UNCHANGED clientVars
    \/ PeerReset /\ UNCHANGED <<clientVars, serverVars>>
    \/ Terminated

Spec == Init /\ [][Next]_vars

(***************************************************************************)
(* Fairness.  A call that has begun goes on, by its socket timeouts if by  *)
(* nothing else (vt_remote_timeout_ms is at least 100 and cannot be turned *)
(* off); the loop goes on; VideoToolbox calls back once for every packet   *)
(* it took; the application ends the stream and, after the end, closes.    *)
(***************************************************************************)
Fairness ==
    /\ WF_vars(Call /\ UNCHANGED serverVars)
    /\ WF_vars(LoopStep /\ UNCHANGED clientVars)
    /\ WF_vars(Callback /\ UNCHANGED clientVars)
    /\ WF_vars((Drain \/ Close) /\ UNCHANGED serverVars)

FairSpec == Spec /\ Fairness

-------------------------------------------------------------------------------
(***************************************************************************)
(* Properties.                                                             *)
(***************************************************************************)

\* Once DONE has been read, every frame decoded has reached the application, and
\* every packet transmitted has been decoded or has failed in the decoder; unless
\* a PONG was cut, behind which the server may take a packet for the rest of it.
DoneMeansDrained ==
    done => /\ delivered = framesOut
            /\ torn \/ ToSet(sentPackets) = ToSet(framesOut) \cup lost

\* However the stream ends without an error, by DONE or by the server closing,
\* no frame that vtremoted sent is missing; only a reset can destroy one, or a
\* receive timeout that passes for the end of a draining decoder.
CompleteAtEnd ==
    drained /\ ret \notin Fatal /\ ~cutShort /\ s2cEnd # "rst" => delivered = framesOut

\* Nothing more comes: the stream has ended for libavcodec, or the decoder is gone.
Ended == drained \/ pc \in {"closed", "aborted"}

\* Frames come out in the order their packets went in, each once, only for
\* packets that were transmitted, and none after the end of the stream.
Service == INSTANCE DecodeService WITH
    Packets <- Frames,
    accepted <- sentPackets,
    output <- delivered,
    ended <- Ended

DecodesInOrder == Service!Spec

\* The session ends on both sides, whatever is lost on the way.
SessionEnds == <>(pc \in {"closed", "aborted"} /\ srv = "closed")

-------------------------------------------------------------------------------
\* decode.c: "FF_CODEC_CB_TYPE_DECODE decoders must not return AVERROR EAGAIN" -
\* the assertion that follows never fails.
NeverAborts == pc # "aborted"
===============================================================================
