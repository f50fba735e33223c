---------------------------- MODULE EncSessionProofs ----------------------------
(***************************************************************************)
(* Type correctness, flow control and service of an encode session, for    *)
(* every number of frames, every in-flight limit, every buffer size and    *)
(* all faults at once.  What the client counts is right as long as it has  *)
(* not written a part of a message only; the rest holds whatever happens.  *)
(***************************************************************************)
EXTENDS EncSession, FiniteSetTheorems, TLAPS

-------------------------------------------------------------------------------
(***************************************************************************)
(* Sequences.                                                              *)
(***************************************************************************)

\* Taking an element out of a sequence leaves a sequence, one shorter.
LEMMA RemoveAtShortens ==
    ASSUME NEW S, NEW s \in Seq(S), NEW i \in DOMAIN s
    PROVE  RemoveAt(s, i) \in Seq(S) /\ Len(RemoveAt(s, i)) = Len(s) - 1
BY DEF RemoveAt

\* Reading the head of a direction.
LEMMA HeadAndTail ==
    ASSUME NEW S, NEW s \in Seq(S), s # <<>>
    PROVE  /\ Head(s) \in S /\ Head(s) = s[1] /\ 1 \in DOMAIN s
           /\ Tail(s) \in Seq(S) /\ Len(Tail(s)) = Len(s) - 1
           /\ \A i \in DOMAIN Tail(s) : i + 1 \in DOMAIN s /\ Tail(s)[i] = s[i + 1]
OBVIOUS

-------------------------------------------------------------------------------
(***************************************************************************)
(* The wire.                                                               *)
(***************************************************************************)

\* Client sends keep the wire well typed.
LEMMA ClientSendType ==
    ASSUME WireTypeOK, NEW m \in ClientMsg, NEW f \in Frames \cup {NoFrame},
           ClientSend(m) \/ ClientSendFails(f)
    PROVE  c2s' \in Seq(ClientMsg) /\ tx' \in {"ok", "refused", "dead"} /\ torn' \in BOOLEAN
<1>1. CASE ClientSend(m)
  BY <1>1 DEF WireTypeOK, ClientSend
<1>2. CASE NothingWritten
  BY <1>2 DEF WireTypeOK, NothingWritten
<1>3. CASE PartWritten(f)
  <2>1. [type |-> "PART", frame |-> f] \in ClientMsg
    BY DEF ClientMsg, PartMsg
  <2> QED
    BY <1>3, <2>1 DEF WireTypeOK, PartWritten
<1> QED
  BY <1>1, <1>2, <1>3 DEF ClientSendFails

\* A send that fails before the stream is torn has written nothing.
LEMMA NotTorn ==
    ASSUME NEW f, ClientSendFails(f), ~torn'
    PROVE  SendCanFail /\ UNCHANGED <<c2s, tx, torn>>
BY DEF ClientSendFails, NothingWritten, PartWritten

\* No client send mends it.
LEMMA SendTears ==
    ASSUME NEW m, NEW f, ClientSend(m) \/ ClientSendFails(f), torn
    PROVE  torn'
BY DEF ClientSend, ClientSendFails, NothingWritten, PartWritten

\* So do server sends.
LEMMA ServerSendType ==
    ASSUME WireTypeOK, NEW m \in ServerMsg, ServerSend(m)
    PROVE  s2c' \in Seq(ServerMsg)
BY DEF WireTypeOK, ServerSend

\* A PACKET at the head of the server's stream is one.
LEMMA PacketAtHead ==
    ASSUME WireTypeOK, ClientSees("PACKET")
    PROVE  s2c # <<>> /\ Head(s2c) \in PacketMsg
BY HeadAndTail DEF WireTypeOK, ClientSees, ServerMsg, PacketMsg

\* A FRAME at the head of the client's stream is one.
LEMMA FrameAtHead ==
    ASSUME WireTypeOK, ServerSees("FRAME")
    PROVE  c2s # <<>> /\ Head(c2s) \in FrameMsg
BY HeadAndTail DEF WireTypeOK, ServerSees, ClientMsg, FrameMsg, PartMsg

-------------------------------------------------------------------------------
(***************************************************************************)
(* Type correctness.  The types alone are not inductive: that a call about *)
(* to send its frame has one is part of the argument.                      *)
(***************************************************************************)
HasFrame == pc \in {"limit", "resend"} => arg # NoFrame

\* The steps of libavcodec and the application.
LEMMA AppStepType ==
    ASSUME TypeOK, HasFrame, AppStep
    PROVE  WireTypeOK' /\ ClientTypeOK' /\ HasFrame'
<1> USE WireAssumption DEF TypeOK, WireTypeOK, ClientTypeOK, HasFrame, NoFrame, Frames, wireVars
<1>1. CASE EncodeFrame
  BY <1>1 DEF EncodeFrame
<1>2. CASE StartDraining
  BY <1>2 DEF StartDraining
<1>3. CASE DrainAgain
  BY <1>3 DEF DrainAgain
<1>4. CASE Close
  BY <1>4 DEF Close, ClientCloses
<1> QED
  BY <1>1, <1>2, <1>3, <1>4 DEF AppStep

\* The types after a return, as far as the return determines them.
Returned ==
    /\ pc' = "app"
    /\ arg' = NoFrame
    /\ ret' \in {"OK", "EAGAIN", "EOF"} \cup Fatal
    /\ delivered' \in Seq(PacketMsg)
    /\ drained' \in BOOLEAN
    /\ nextFrame' = nextFrame
    /\ draining' = draining

\* A return keeps the types of what it sets.
LEMMA ReturnType ==
    ASSUME ClientTypeOK, NEW code \in {"OK", "EAGAIN", "EOF", "EIO", "EPIPE"},
           NEW pkts \in Seq(PacketMsg), Return(code, pkts)
    PROVE  Returned
<1>1. pc' = "app" /\ arg' = NoFrame /\ ret' = code
  BY DEF Return
<1>2. delivered' \in Seq(PacketMsg)
  BY DEF Return, ClientTypeOK
<1>3. drained' \in BOOLEAN
  BY Zenon DEF Return, ClientTypeOK
<1> QED
  BY <1>1, <1>2, <1>3 DEF Return, Returned, Fatal

\* A return without a packet, with any code.
LEMMA ReturnNothing ==
    ASSUME ClientTypeOK,
           \/ Return("OK", <<>>) \/ Return("EAGAIN", <<>>) \/ Return("EOF", <<>>)
           \/ Return("EIO", <<>>) \/ Return("EPIPE", <<>>)
    PROVE  Returned
<1>1. PICK code \in {"OK", "EAGAIN", "EOF", "EIO", "EPIPE"} : Return(code, <<>>)
  BY Zenon
<1>2. <<>> \in Seq(PacketMsg)
  OBVIOUS
<1> QED
  BY ONLY <1>1, <1>2, ReturnType, ClientTypeOK

\* A return keeps all types of the client if the rest of the step does.
LEMMA ClientReturned ==
    ASSUME ClientTypeOK, Returned, inflight' \in Nat, pktQueue' \in Seq(PacketMsg),
           flushing' \in BOOLEAN, done' \in BOOLEAN, packetsRecv' \in Nat,
           sent' \in Seq(Frames)
    PROVE  ClientTypeOK' /\ HasFrame'
BY DEF ClientTypeOK, Returned, NoFrame, HasFrame

\* The drain of what has arrived.
LEMMA DrainType ==
    ASSUME TypeOK, HasFrame, Drain
    PROVE  WireTypeOK' /\ ClientTypeOK' /\ HasFrame'
<1> USE DEF TypeOK, HasFrame
<1>1. CASE DrainStop
  BY <1>1 DEF DrainStop, Goto, WireTypeOK, ClientTypeOK, wireVars
<1>2. CASE DrainPacket
  <2>1. s2c # <<>> /\ Head(s2c) \in PacketMsg
    BY <1>2, PacketAtHead DEF DrainPacket
  <2>2. s2c' \in Seq(ServerMsg)
    BY <1>2, <2>1, HeadAndTail DEF DrainPacket, Consume, WireTypeOK
  <2>3. pktQueue' \in Seq(PacketMsg)
    BY <1>2, <2>1 DEF DrainPacket, Enqueued, ClientTypeOK
  <2>4. inflight' \in Nat
    BY <1>2 DEF DrainPacket, FewerInflight, ClientTypeOK
  <2> QED
    BY <1>2, <2>2, <2>3, <2>4 DEF DrainPacket, WireTypeOK, ClientTypeOK
<1>3. CASE DrainDone
  <2>1. s2c' \in Seq(ServerMsg)
    BY <1>3, HeadAndTail DEF DrainDone, ClientSees, Consume, WireTypeOK
  <2> QED
    BY <1>3, <2>1 DEF DrainDone, Goto, WireTypeOK, ClientTypeOK
<1>4. CASE DrainFails
  <2>1. s2c' \in Seq(ServerMsg)
    BY <1>4, HeadAndTail DEF DrainFails, ClientSees, Consume, WireTypeOK
  <2>2. Returned
    BY <1>4, ReturnNothing DEF DrainFails
  <2>3. UNCHANGED <<inflight, pktQueue, flushing, done, packetsRecv, sent,
                    c2s, c2sEnd, s2cEnd, tx, torn>>
    BY <1>4 DEF DrainFails
  <2>4. ClientTypeOK' /\ HasFrame'
    BY <2>2, <2>3, ClientReturned DEF ClientTypeOK
  <2> QED
    BY <2>1, <2>3, <2>4 DEF WireTypeOK
<1> QED
  BY <1>1, <1>2, <1>3, <1>4 DEF Drain

\* A frame that is sent, or whose send fails, keeps the types.
LEMMA SendFrameType ==
    ASSUME TypeOK, arg # NoFrame, SendFrame \/ SendFrameFails
    PROVE  /\ c2s' \in Seq(ClientMsg) /\ tx' \in {"ok", "refused", "dead"} /\ torn' \in BOOLEAN
           /\ inflight' \in Nat /\ sent' \in Seq(Frames)
<1> USE DEF TypeOK, ClientTypeOK
<1>1. CASE SendFrame
  <2>1. arg \in Frames /\ Len(sent) + 1 \in Nat \ {0}
    BY DEF NoFrame
  <2>2. [type |-> "FRAME", ord |-> Len(sent) + 1, frame |-> arg] \in ClientMsg
    BY <2>1 DEF ClientMsg, FrameMsg
  <2> QED
    BY <1>1, <2>1, <2>2, ClientSendType DEF SendFrame
<1>2. CASE SendFrameFails
  <2>1. c2s' \in Seq(ClientMsg) /\ tx' \in {"ok", "refused", "dead"} /\ torn' \in BOOLEAN
    <3>1. [type |-> "FLUSH"] \in ClientMsg
      BY DEF ClientMsg
    <3> QED
      BY <1>2, <3>1, ClientSendType DEF SendFrameFails
  <2> QED
    BY <1>2, <2>1 DEF SendFrameFails
<1> QED
  BY <1>1, <1>2

\* What the call does after the drain.
LEMMA SubmitType ==
    ASSUME TypeOK, HasFrame, Submit
    PROVE  WireTypeOK' /\ ClientTypeOK' /\ HasFrame'
<1> USE DEF TypeOK, HasFrame
<1>1. CASE PopAndSend
  <2>1. pktQueue' \in Seq(PacketMsg) /\ <<Head(pktQueue)>> \in Seq(PacketMsg)
    BY <1>1, HeadAndTail DEF PopAndSend, ClientTypeOK
  <2>2. Return("OK", <<Head(pktQueue)>>)
    BY <1>1 DEF PopAndSend
  <2>3. /\ c2s' \in Seq(ClientMsg) /\ tx' \in {"ok", "refused", "dead"} /\ torn' \in BOOLEAN
        /\ inflight' \in Nat /\ sent' \in Seq(Frames)
    <3>1. CASE MaySend
      BY <1>1, <3>1, SendFrameType DEF PopAndSend, MaySend
    <3>2. CASE ~MaySend
      BY <1>1, <3>2 DEF PopAndSend, NoSend, WireTypeOK, ClientTypeOK
    <3> QED
      BY <3>1, <3>2
  <2>4. Returned
    BY <2>1, <2>2, ReturnType
  <2>5. UNCHANGED <<flushing, done, packetsRecv, s2c, c2sEnd, s2cEnd>>
    BY <1>1 DEF PopAndSend
  <2>6. ClientTypeOK' /\ HasFrame'
    BY <2>1, <2>3, <2>4, <2>5, ClientReturned DEF ClientTypeOK
  <2> QED
    BY <2>3, <2>5, <2>6 DEF WireTypeOK
<1>2. CASE SubmitFrame
  <2>1. /\ c2s' \in Seq(ClientMsg) /\ tx' \in {"ok", "refused", "dead"} /\ torn' \in BOOLEAN
        /\ inflight' \in Nat /\ sent' \in Seq(Frames)
    BY <1>2, SendFrameType DEF SubmitFrame, MaySend
  <2>2. CASE Goto("limit")
    BY <1>2, <2>1, <2>2 DEF SubmitFrame, MaySend, Goto, WireTypeOK, ClientTypeOK
  <2>3. CASE Return("OK", <<>>)
    <3>1. Returned
      BY <2>3, ReturnNothing
    <3>2. UNCHANGED <<pktQueue, flushing, done, packetsRecv, s2c, c2sEnd, s2cEnd>>
      BY <1>2 DEF SubmitFrame
    <3>3. ClientTypeOK' /\ HasFrame'
      BY <2>1, <3>1, <3>2, ClientReturned DEF ClientTypeOK
    <3> QED
      BY <2>1, <3>2, <3>3 DEF WireTypeOK
  <2> QED
    BY <1>2, <2>2, <2>3 DEF SubmitFrame
<1>3. CASE SubmitFails
  <2>1. /\ c2s' \in Seq(ClientMsg) /\ tx' \in {"ok", "refused", "dead"} /\ torn' \in BOOLEAN
        /\ inflight' \in Nat /\ sent' \in Seq(Frames)
    BY <1>3, SendFrameType DEF SubmitFails, MaySend
  <2>2. Returned
    <3>1. Return("EPIPE", <<>>) \/ Return("EAGAIN", <<>>)
      BY <1>3, Zenon DEF SubmitFails, SendError
    <3> QED
      BY <3>1, ReturnNothing
  <2>3. UNCHANGED <<pktQueue, flushing, done, packetsRecv, s2c, c2sEnd, s2cEnd>>
    BY <1>3 DEF SubmitFails
  <2>4. ClientTypeOK' /\ HasFrame'
    BY <2>1, <2>2, <2>3, ClientReturned DEF ClientTypeOK
  <2> QED
    BY <2>1, <2>3, <2>4 DEF WireTypeOK
<1>4. CASE LimitReached
  BY <1>4 DEF LimitReached, Goto, WireTypeOK, ClientTypeOK, wireVars
<1>5. CASE NothingToSend
  BY <1>5 DEF NothingToSend, Goto, WireTypeOK, ClientTypeOK, wireVars
<1> QED
  BY <1>1, <1>2, <1>3, <1>4, <1>5 DEF Submit

\* Sending the frame after the wait, and asking for the rest.
LEMMA ResendFlushType ==
    ASSUME TypeOK, HasFrame, Resend \/ SendFlush
    PROVE  WireTypeOK' /\ ClientTypeOK' /\ HasFrame'
<1> USE DEF TypeOK, HasFrame
<1>1. CASE Resend
  <2>1. /\ c2s' \in Seq(ClientMsg) /\ tx' \in {"ok", "refused", "dead"} /\ torn' \in BOOLEAN
        /\ inflight' \in Nat /\ sent' \in Seq(Frames)
    BY <1>1, SendFrameType DEF Resend
  <2> QED
    BY <1>1, <2>1 DEF Resend, WireTypeOK, ClientTypeOK, NoFrame
<1>2. CASE SendFlush
  <2>1. c2s' \in Seq(ClientMsg) /\ tx' \in {"ok", "refused", "dead"} /\ torn' \in BOOLEAN
    <3>1. [type |-> "FLUSH"] \in ClientMsg
      BY DEF ClientMsg
    <3>2. NoFrame \in Frames \cup {NoFrame}
      OBVIOUS
    <3> QED
      BY <1>2, <3>1, <3>2, ClientSendType DEF SendFlush
  <2>2. CASE Goto("recv")
    BY <1>2, <2>1, <2>2 DEF SendFlush, Goto, WireTypeOK, ClientTypeOK
  <2>3. CASE Return(SendError, <<>>)
    <3>1. Returned
      <4>1. Return("EPIPE", <<>>) \/ Return("EAGAIN", <<>>)
        BY <2>3, Zenon DEF SendError
      <4> QED
        BY <4>1, ReturnNothing
    <3>2. flushing' = TRUE
          /\ UNCHANGED <<inflight, pktQueue, done, packetsRecv, sent, s2c, c2sEnd, s2cEnd>>
      BY <1>2 DEF SendFlush
    <3>3. ClientTypeOK' /\ HasFrame'
      BY <3>1, <3>2, ClientReturned DEF ClientTypeOK
    <3> QED
      BY <2>1, <3>2, <3>3 DEF WireTypeOK
  <2> QED
    BY <1>2, <2>2, <2>3 DEF SendFlush
<1> QED
  BY <1>1, <1>2

\* Receiving, at either call site.
LEMMA ReceiveType ==
    ASSUME TypeOK, HasFrame, Receive \/ RecvTimeout \/ AnswerPing
    PROVE  WireTypeOK' /\ ClientTypeOK' /\ HasFrame'
<1> USE DEF TypeOK, HasFrame
<1>1. CASE RecvPacket
  <2>1. s2c # <<>> /\ Head(s2c) \in PacketMsg
    BY <1>1, PacketAtHead DEF RecvPacket
  <2>2. s2c' \in Seq(ServerMsg)
    BY <1>1, <2>1, HeadAndTail DEF RecvPacket, Consume, WireTypeOK
  <2> DEFINE ring == Enqueued(Head(s2c))
  <2>3. ring \in Seq(PacketMsg) /\ ring # <<>>
    BY <2>1 DEF Enqueued, ClientTypeOK
  <2>4. Head(ring) \in PacketMsg /\ Tail(ring) \in Seq(PacketMsg)
    BY <2>3, HeadAndTail
  <2>5. inflight' \in Nat
    BY <1>1 DEF RecvPacket, FewerInflight, ClientTypeOK
  <2>6. pktQueue' = Tail(ring)
    BY <1>1 DEF RecvPacket
  <2> HIDE DEF ring
  <2>7. UNCHANGED <<flushing, done, sent, c2s, c2sEnd, s2cEnd, tx, torn>> /\ packetsRecv' = packetsRecv + 1
    BY <1>1 DEF RecvPacket
  <2>8. CASE pc = "limit"
    <3>1. /\ pc' = "resend" /\ delivered' = Append(delivered, Head(ring))
          /\ UNCHANGED <<arg, ret, drained, nextFrame, draining>>
      BY <1>1, <2>8 DEF RecvPacket, ring
    <3> QED
      BY <2>2, <2>4, <2>5, <2>6, <2>7, <2>8, <3>1 DEF WireTypeOK, ClientTypeOK
  <2>9. CASE pc # "limit"
    <3>1. Return("OK", <<Head(ring)>>)
      BY <1>1, <2>9 DEF RecvPacket, ring
    <3>2. <<Head(ring)>> \in Seq(PacketMsg)
      BY <2>4
    <3>3. Returned
      BY <3>1, <3>2, ReturnType
    <3>4. ClientTypeOK' /\ HasFrame'
      BY <2>4, <2>5, <2>6, <2>7, <3>3, ClientReturned DEF ClientTypeOK
    <3> QED
      BY <2>2, <2>7, <3>4 DEF WireTypeOK
  <2> QED
    BY <2>8, <2>9
<1>2. CASE RecvDone
  <2>1. s2c' \in Seq(ServerMsg) /\ done' \in BOOLEAN
    BY <1>2, HeadAndTail DEF RecvDone, ClientSees, Consume, WireTypeOK, ClientTypeOK
  <2>2. Returned
    BY <1>2, ReturnNothing DEF RecvDone
  <2>3. UNCHANGED <<inflight, pktQueue, flushing, packetsRecv, sent, c2s, c2sEnd, s2cEnd, tx, torn>>
    BY <1>2 DEF RecvDone
  <2>4. ClientTypeOK' /\ HasFrame'
    BY <2>1, <2>2, <2>3, ClientReturned DEF ClientTypeOK
  <2> QED
    BY <2>1, <2>3, <2>4 DEF WireTypeOK
<1>3. CASE RecvFails
  <2>1. s2c' \in Seq(ServerMsg)
    BY <1>3, HeadAndTail DEF RecvFails, ClientSees, Consume, WireTypeOK
  <2>2. Returned
    BY <1>3, ReturnNothing DEF RecvFails
  <2>3. UNCHANGED <<inflight, pktQueue, flushing, done, packetsRecv, sent,
                    c2s, c2sEnd, s2cEnd, tx, torn>>
    BY <1>3 DEF RecvFails
  <2>4. ClientTypeOK' /\ HasFrame'
    BY <2>2, <2>3, ClientReturned DEF ClientTypeOK
  <2> QED
    BY <2>1, <2>3, <2>4 DEF WireTypeOK
<1>4. CASE RecvTimeout
  <2>1. Returned
    BY <1>4, ReturnNothing DEF RecvTimeout
  <2>2. UNCHANGED <<inflight, pktQueue, flushing, done, packetsRecv, sent, wireVars>>
    BY <1>4 DEF RecvTimeout
  <2>3. ClientTypeOK' /\ HasFrame'
    BY <2>1, <2>2, ClientReturned DEF ClientTypeOK
  <2> QED
    BY <2>2, <2>3 DEF WireTypeOK, wireVars
<1>5. CASE AnswerPing
  <2>1. s2c' \in Seq(ServerMsg)
    BY <1>5, HeadAndTail DEF AnswerPing, ClientSees, Consume, WireTypeOK
  <2>2. c2s' \in Seq(ClientMsg) /\ tx' \in {"ok", "refused", "dead"} /\ torn' \in BOOLEAN
    <3>1. [type |-> "PONG"] \in ClientMsg
      BY DEF ClientMsg
    <3>2. NoFrame \in Frames \cup {NoFrame}
      OBVIOUS
    <3> QED
      BY <1>5, <3>1, <3>2, ClientSendType DEF AnswerPing
  <2> QED
    BY <1>5, <2>1, <2>2 DEF AnswerPing, WireTypeOK, ClientTypeOK, clientVars
<1> QED
  BY <1>1, <1>2, <1>3, <1>4, <1>5 DEF Receive

-------------------------------------------------------------------------------
\* What is left behind a message put together from others.
LEMMA SplicedType ==
    ASSUME WireTypeOK, ReadSpliced
    PROVE  c2s' \in Seq(ClientMsg)
<1>1. PICK n \in 2 .. Len(c2s) :
         c2s' \in {SubSeq(c2s, n + 1, Len(c2s)),
                   <<[type |-> "PART", frame |-> NoFrame]>> \o SubSeq(c2s, n + 1, Len(c2s))}
  BY DEF ReadSpliced
<1>2. SubSeq(c2s, n + 1, Len(c2s)) \in Seq(ClientMsg)
  BY DEF WireTypeOK
<1>3. [type |-> "PART", frame |-> NoFrame] \in ClientMsg
  BY DEF ClientMsg, PartMsg
<1> HIDE DEF NoFrame
<1>4. <<[type |-> "PART", frame |-> NoFrame]>> \in Seq(ClientMsg)
  BY <1>3
<1>5. <<[type |-> "PART", frame |-> NoFrame]>> \o SubSeq(c2s, n + 1, Len(c2s)) \in Seq(ClientMsg)
  BY ONLY <1>2, <1>4
<1> QED
  BY <1>1, <1>2, <1>5

\* The server's loop.
LEMMA LoopStepType ==
    ASSUME TypeOK, LoopStep \/ Crash
    PROVE  WireTypeOK' /\ ServerTypeOK'
<1> USE DEF TypeOK
<1>1. CASE ReadFrame
  <2>1. c2s # <<>> /\ Head(c2s).frame \in Frames
    BY <1>1, FrameAtHead DEF ReadFrame, FrameMsg
  <2>2. c2s' \in Seq(ClientMsg)
    BY <1>1, <2>1, HeadAndTail DEF ReadFrame, WireTypeOK
  <2> QED
    BY <1>1, <2>1, <2>2 DEF ReadFrame, WireTypeOK, ServerTypeOK, TrackerTypeOK, trackerVars
<1>2. CASE ReadFlush
  <2>1. c2s' \in Seq(ClientMsg)
    BY <1>2, HeadAndTail DEF ReadFlush, ServerSees, WireTypeOK
  <2> QED
    BY <1>2, <2>1 DEF ReadFlush, WireTypeOK, ServerTypeOK, TrackerTypeOK, trackerVars
<1>3. CASE ReadOther
  <2>1. c2s' \in Seq(ClientMsg)
    BY <1>3, HeadAndTail DEF ReadOther, ServerSees, WireTypeOK
  <2> QED
    BY <1>3, <2>1 DEF ReadOther, WireTypeOK, ServerTypeOK, TrackerTypeOK, serverVars
<1>4. CASE SendDone
  <2>1. s2c' \in Seq(ServerMsg)
    <3>1. [type |-> "DONE"] \in ServerMsg
      BY DEF ServerMsg
    <3> QED
      BY <1>4, <3>1, ServerSendType DEF SendDone
  <2> QED
    BY <1>4, <2>1 DEF SendDone, WireTypeOK, ServerTypeOK, TrackerTypeOK, trackerVars
<1>5. CASE Shutdown \/ Crash
  <2>1. srv' = "closed" /\ held' = <<>>
        /\ UNCHANGED <<framesRead, packetsOut, emitted, answered, trackerVars>>
    <3>1. CASE Shutdown
      BY <3>1 DEF Shutdown
    <3>2. CASE Crash
      BY <3>2 DEF Crash
    <3> QED
      BY <1>5, <3>1, <3>2
  <2>2. ServerCloses(c2s) /\ s2c' = s2c
    <3>1. CASE Shutdown
      BY <3>1 DEF Shutdown
    <3>2. CASE Crash
      BY <3>2 DEF Crash
    <3> QED
      BY <1>5, <3>1, <3>2
  <2>3. WireTypeOK'
    BY <2>2 DEF ServerCloses, WireTypeOK
  <2>4. ServerTypeOK'
    BY <2>1 DEF ServerTypeOK, TrackerTypeOK, trackerVars
  <2> QED
    BY <2>3, <2>4
<1>6. CASE RejectFrame
  BY <1>6 DEF RejectFrame, ServerCloses, WireTypeOK, ServerTypeOK, TrackerTypeOK, trackerVars
<1>7. CASE ReadGarbled
  <2>1. c2s' \in Seq(ClientMsg)
    BY <1>7, SplicedType DEF ReadGarbled
  <2>2. held' \in Seq(Frames) /\ framesRead' \in Nat
    <3>1. CASE /\ Head(c2s).frame # NoFrame
               /\ held' = Append(held, Head(c2s).frame)
               /\ framesRead' = framesRead + 1
      <4>1. c2s # <<>> /\ Head(c2s).type = "PART"
        BY <1>7 DEF ReadGarbled, ReadSpliced, ServerSees
      <4>2. Head(c2s) \in ClientMsg
        BY <4>1, HeadAndTail DEF WireTypeOK
      <4>3. Head(c2s).frame \in Frames
        BY <3>1, <4>1, <4>2 DEF ClientMsg, PartMsg, FrameMsg
      <4> QED
        BY <3>1, <4>3 DEF ServerTypeOK
    <3>2. CASE UNCHANGED <<held, framesRead>>
      BY <3>2 DEF ServerTypeOK
    <3> QED
      BY <1>7, <3>1, <3>2 DEF ReadGarbled
  <2>3. UNCHANGED <<srv, packetsOut, emitted, answered, trackerVars, s2c, c2sEnd, s2cEnd, tx, torn>>
    BY <1>7 DEF ReadGarbled
  <2> QED
    BY <2>1, <2>2, <2>3 DEF WireTypeOK, ServerTypeOK, TrackerTypeOK, trackerVars
<1>8. CASE ReadBroken
  BY <1>8 DEF ReadBroken, ServerCloses, WireTypeOK, ServerTypeOK, TrackerTypeOK, trackerVars
<1> QED
  BY <1>1, <1>2, <1>3, <1>4, <1>5, <1>6, <1>7, <1>8 DEF LoopStep

\* The fields of the tracker are integers after any sample.
LEMMA CorrectedDtsInt ==
    ASSUME TrackerTypeOK, NEW pts \in Int, NEW dts \in Int
    PROVE  CorrectedDts(pts, dts) \in Int
BY DEF TrackerTypeOK, CorrectedDts, Pushed, AtMost

\* The output callback.
LEMMA CallbackType ==
    ASSUME TypeOK, NEW i \in DOMAIN held, Callback(i) \/ DropFrame(i)
    PROVE  WireTypeOK' /\ ServerTypeOK'
<1> USE ServerAssumption DEF TypeOK
<1>1. held[i] \in Frames /\ RemoveAt(held, i) \in Seq(Frames)
  BY RemoveAtShortens DEF ServerTypeOK
<1>2. Pts[held[i]] \in Int
  BY <1>1
<1>3. CASE EmitPacket(i)
  <2> DEFINE dts == CorrectedDts(Pts[held[i]], RawDts(held[i]))
             packet == [type |-> "PACKET", ord |-> packetsOut + 1,
                        frame |-> held[i], dts |-> dts]
  <2>1. dts \in Int
    BY <1>2, CorrectedDtsInt DEF ServerTypeOK, RawDts
  <2> HIDE DEF dts
  <2>2. packet \in PacketMsg /\ packet \in ServerMsg
    BY <1>1, <2>1 DEF ServerTypeOK, PacketMsg, ServerMsg
  <2> HIDE DEF packet
  <2>3. /\ ServerSend(packet)
        /\ emitted' = Append(emitted, packet)
        /\ answered' = Append(answered, held[i])
        /\ held' = RemoveAt(held, i)
        /\ packetsOut' = packetsOut + 1
        /\ UNCHANGED <<srv, framesRead, c2s, c2sEnd, s2cEnd, tx, torn>>
    BY <1>3 DEF EmitPacket, packet, dts
  <2>4. lastPts' = Pts[held[i]] /\ lastDts' = dts
    BY <1>3 DEF EmitPacket, EmitSample, dts
  <2>5. s2c' \in Seq(ServerMsg)
    BY <2>2, <2>3, ServerSendType
  <2> QED
    BY <1>1, <1>2, <2>1, <2>2, <2>3, <2>4, <2>5 DEF WireTypeOK, ServerTypeOK, TrackerTypeOK
<1>4. CASE SkipPacket(i)
  BY <1>1, <1>4 DEF SkipPacket, SkipSample, trackerVars, wireVars,
                    WireTypeOK, ServerTypeOK, TrackerTypeOK
<1>5. CASE DropFrame(i)
  BY <1>1, <1>5 DEF DropFrame, trackerVars, wireVars, WireTypeOK, ServerTypeOK, TrackerTypeOK
<1> QED
  BY <1>3, <1>4, <1>5 DEF Callback

\* What the peer may send besides.
LEMMA PeerType ==
    ASSUME TypeOK, PeerPing \/ PeerError
    PROVE  WireTypeOK' /\ ServerTypeOK'
<1> USE DEF TypeOK
<1>1. [type |-> "PING"] \in ServerMsg /\ [type |-> "ERROR"] \in ServerMsg
  BY DEF ServerMsg
<1>2. s2c' \in Seq(ServerMsg)
  BY <1>1, ServerSendType DEF PeerPing, PeerError
<1>3. CASE PeerPing
  BY <1>2, <1>3 DEF PeerPing, serverVars, WireTypeOK, ServerTypeOK, TrackerTypeOK
<1>4. CASE PeerError
  BY <1>2, <1>4 DEF PeerError, ServerCloses, trackerVars, WireTypeOK, ServerTypeOK, TrackerTypeOK
<1> QED
  BY <1>3, <1>4

\* A reset only shortens the server's stream.
LEMMA PeerResetKeeps ==
    ASSUME WireTypeOK, PeerReset
    PROVE  /\ WireTypeOK'
           /\ \E kept \in 0 .. Len(s2c) : s2c' = SubSeq(s2c, 1, kept)
           /\ UNCHANGED <<c2s, c2sEnd, torn>>
<1>1. PICK kept \in 0 .. Len(s2c) :
          /\ s2c' = SubSeq(s2c, 1, kept)
          /\ s2cEnd' = IF kept = Len(s2c) THEN s2cEnd ELSE "rst"
  BY DEF PeerReset, WireTypeOK
<1>2. SubSeq(s2c, 1, kept) \in Seq(ServerMsg)
  BY DEF WireTypeOK
<1> QED
  BY <1>1, <1>2 DEF PeerReset, WireTypeOK
-------------------------------------------------------------------------------
\* Every step keeps the types.
LEMMA TypeStep ==
    ASSUME TypeOK, HasFrame, [Next]_vars
    PROVE  TypeOK' /\ HasFrame'
<1>1. CASE ClientNext /\ UNCHANGED serverVars
  <2>1. WireTypeOK' /\ ClientTypeOK' /\ HasFrame'
    BY <1>1, AppStepType, DrainType, SubmitType, ResendFlushType, ReceiveType
       DEF ClientNext, CallStep
  <2>2. ServerTypeOK'
    BY <1>1 DEF TypeOK, ServerTypeOK, TrackerTypeOK, serverVars
  <2> QED
    BY <2>1, <2>2 DEF TypeOK
<1>2. CASE ServerNext /\ UNCHANGED clientVars
  <2>1. WireTypeOK' /\ ServerTypeOK'
    BY <1>2, LoopStepType, CallbackType, PeerType DEF ServerNext
  <2>2. ClientTypeOK' /\ HasFrame'
    BY <1>2 DEF TypeOK, ClientTypeOK, HasFrame, clientVars
  <2> QED
    BY <2>1, <2>2 DEF TypeOK
<1>3. CASE PeerReset /\ UNCHANGED <<clientVars, serverVars>>
  <2>1. WireTypeOK'
    BY <1>3, PeerResetKeeps DEF TypeOK
  <2>2. ServerTypeOK'
    BY <1>3 DEF TypeOK, ServerTypeOK, TrackerTypeOK, serverVars
  <2>3. ClientTypeOK' /\ HasFrame'
    BY <1>3 DEF TypeOK, ClientTypeOK, HasFrame, clientVars
  <2> QED
    BY <2>1, <2>2, <2>3 DEF TypeOK
<1>4. CASE UNCHANGED vars
  <2>1. WireTypeOK'
    BY <1>4 DEF TypeOK, WireTypeOK, vars, wireVars
  <2>2. ServerTypeOK'
    BY <1>4 DEF TypeOK, ServerTypeOK, TrackerTypeOK, vars, serverVars
  <2>3. ClientTypeOK' /\ HasFrame'
    BY <1>4 DEF TypeOK, ClientTypeOK, HasFrame, vars, clientVars
  <2> QED
    BY <2>1, <2>2, <2>3 DEF TypeOK
<1> QED
  BY <1>1, <1>2, <1>3, <1>4 DEF Next, Terminated

\* The initial states have the types.
LEMMA TypeInit ==
    ASSUME Init
    PROVE  TypeOK /\ HasFrame
<1>1. WireTypeOK
  <2>1. c2s \in Seq(ClientMsg) /\ s2c \in Seq(ServerMsg)
    BY DEF Init, WireInit
  <2>2. torn \in BOOLEAN
    BY DEF Init, WireInit
  <2> QED
    BY <2>1, <2>2 DEF Init, WireInit, WireTypeOK
<1>2. ClientTypeOK /\ HasFrame
  <2>1. pktQueue \in Seq(PacketMsg) /\ sent \in Seq(Frames) /\ delivered \in Seq(PacketMsg)
    BY DEF Init, ClientInit
  <2>2. nextFrame \in 1 .. NumFrames + 1
    BY WireAssumption DEF Init, ClientInit
  <2> QED
    BY <2>1, <2>2 DEF Init, ClientInit, ClientTypeOK, HasFrame, NoFrame
<1>3. ServerTypeOK
  BY MinTicksAssumption DEF Init, ServerInit, ServerTypeOK, TrackerInit, TrackerTypeOK
<1> QED
  BY <1>1, <1>2, <1>3 DEF TypeOK

\* Every reachable state of a session has the types declared: in particular
\* what the two sides read off the wire is a frame, respectively a packet, and
\* no call sends the NULL frame as a frame.
THEOREM TypeCorrect == Spec => []TypeOK
<1>1. Init => TypeOK /\ HasFrame
  BY TypeInit
<1>2. TypeOK /\ HasFrame /\ [Next]_vars => (TypeOK /\ HasFrame)'
  BY TypeStep
<1> QED
  BY <1>1, <1>2, PTL DEF Spec

-------------------------------------------------------------------------------
(***************************************************************************)
(* Flow control.                                                           *)
(*                                                                         *)
(* That inflight_frames is exact and bounded is not inductive.  A decrement*)
(* is harmless only because a PACKET cannot arrive that no FRAME was sent  *)
(* for, which is a fact about both directions of the wire and the server:  *)
(* the invariant follows a frame through c2s, the encoder and s2c.         *)
(*                                                                         *)
(* It does so as long as the client has not written a part of a message    *)
(* (torn).  What concerns the packets alone (PassInv) holds whatever the   *)
(* server makes of what it reads.                                          *)
(***************************************************************************)

(***************************************************************************)
(* The ordinals of one message type t in a direction s: above lo, at most  *)
(* hi, and strictly increasing.                                            *)
(***************************************************************************)
Ordered(s, t, lo, hi) ==
    /\ \A i \in DOMAIN s : s[i].type = t => lo < s[i].ord /\ s[i].ord <= hi
    /\ \A i, j \in DOMAIN s :
          i < j /\ s[i].type = t /\ s[j].type = t => s[i].ord < s[j].ord

\* A message of another type can be appended, and the bound can grow.
LEMMA OrderedAppendOther ==
    ASSUME NEW S, NEW s \in Seq(S), NEW m \in S, NEW t, NEW lo \in Int, NEW hi \in Int,
           Ordered(s, t, lo, hi), m.type # t
    PROVE  Ordered(Append(s, m), t, lo, hi)
<1>1. \A i \in DOMAIN Append(s, m) :
         \/ i \in DOMAIN s /\ Append(s, m)[i] = s[i]
         \/ i = Len(s) + 1 /\ Append(s, m)[i] = m
  OBVIOUS
<1> QED
  BY <1>1 DEF Ordered

\* A message of the type can be appended with the next ordinal.
LEMMA OrderedAppendNext ==
    ASSUME NEW S, NEW s \in Seq(S), NEW m \in S, NEW t, NEW lo \in Int, NEW hi \in Int,
           \A x \in S : x.type = t => x.ord \in Int,
           Ordered(s, t, lo, hi), lo <= hi, m.ord = hi + 1
    PROVE  Ordered(Append(s, m), t, lo, hi + 1)
<1>1. \A i \in DOMAIN Append(s, m) :
         \/ i \in DOMAIN s /\ Append(s, m)[i] = s[i] /\ s[i] \in S
         \/ i = Len(s) + 1 /\ Append(s, m)[i] = m
  OBVIOUS
<1>2. DOMAIN s = 1 .. Len(s) /\ DOMAIN Append(s, m) = 1 .. Len(s) + 1
  OBVIOUS
<1>3. \A i \in DOMAIN s : s[i].type = t => s[i].ord \in Int /\ s[i].ord < hi + 1
  BY <1>1, <1>2 DEF Ordered
<1>4. \A i \in DOMAIN Append(s, m) : Append(s, m)[i].type = t =>
         lo < Append(s, m)[i].ord /\ Append(s, m)[i].ord <= hi + 1
  BY <1>1, <1>3 DEF Ordered
<1>5. ASSUME NEW i \in DOMAIN Append(s, m), NEW j \in DOMAIN Append(s, m), i < j,
             Append(s, m)[i].type = t, Append(s, m)[j].type = t
      PROVE  Append(s, m)[i].ord < Append(s, m)[j].ord
  <2>1. i \in DOMAIN s /\ Append(s, m)[i] = s[i]
    BY <1>2, <1>5
  <2>2. CASE j \in DOMAIN s
    BY <1>5, <2>1, <2>2 DEF Ordered
  <2>3. CASE j = Len(s) + 1
    BY <1>3, <1>5, <2>1, <2>3
  <2> QED
    BY <1>1, <2>2, <2>3
<1> QED
  BY <1>4, <1>5 DEF Ordered

\* Reading a message of another type.
LEMMA OrderedTailOther ==
    ASSUME NEW S, NEW s \in Seq(S), s # <<>>, NEW t, NEW lo, NEW hi, Ordered(s, t, lo, hi)
    PROVE  Ordered(Tail(s), t, lo, hi)
<1>1. \A i \in DOMAIN Tail(s) : i + 1 \in DOMAIN s /\ Tail(s)[i] = s[i + 1] /\ i \in Int
  BY HeadAndTail
<1>2. \A i, j \in DOMAIN Tail(s) : i < j => i + 1 < j + 1
  BY <1>1
<1> QED
  BY <1>1, <1>2 DEF Ordered

\* Reading a message of the type: its ordinal was in range, and every later
\* one is beyond the next value of the lower bound.
LEMMA OrderedTailNext ==
    ASSUME NEW S, NEW s \in Seq(S), s # <<>>, NEW t, NEW lo \in Int, NEW hi \in Int,
           \A x \in S : x.type = t => x.ord \in Int,
           Ordered(s, t, lo, hi), Head(s).type = t
    PROVE  lo + 1 <= hi /\ Ordered(Tail(s), t, lo + 1, hi)
<1>1. /\ Head(s) \in S /\ Head(s) = s[1] /\ 1 \in DOMAIN s
      /\ \A i \in DOMAIN Tail(s) : i + 1 \in DOMAIN s /\ Tail(s)[i] = s[i + 1]
                                   /\ i \in Int /\ 1 < i + 1 /\ s[i + 1] \in S
  BY HeadAndTail
<1>2. s[1].ord \in Int /\ lo + 1 <= s[1].ord /\ s[1].ord <= hi
  BY <1>1 DEF Ordered
<1>3. \A i \in DOMAIN Tail(s) : Tail(s)[i].type = t =>
         lo + 1 < Tail(s)[i].ord /\ Tail(s)[i].ord <= hi
  <2> SUFFICES ASSUME NEW i \in DOMAIN Tail(s), Tail(s)[i].type = t
               PROVE  lo + 1 < Tail(s)[i].ord /\ Tail(s)[i].ord <= hi
    OBVIOUS
  <2>1. s[1].ord < s[i + 1].ord /\ s[i + 1].ord <= hi /\ s[i + 1].ord \in Int
    BY <1>1 DEF Ordered
  <2> QED
    BY <1>1, <1>2, <2>1
<1>4. \A i, j \in DOMAIN Tail(s) :
         i < j /\ Tail(s)[i].type = t /\ Tail(s)[j].type = t => Tail(s)[i].ord < Tail(s)[j].ord
  <2>1. Ordered(Tail(s), t, lo, hi)
    BY OrderedTailOther
  <2> QED
    BY <2>1 DEF Ordered
<1> QED
  BY <1>2, <1>3, <1>4 DEF Ordered

\* Losing a suffix.
LEMMA OrderedPrefix ==
    ASSUME NEW S, NEW s \in Seq(S), NEW n \in 0 .. Len(s), NEW t, NEW lo, NEW hi,
           Ordered(s, t, lo, hi)
    PROVE  Ordered(SubSeq(s, 1, n), t, lo, hi)
<1>1. \A i \in DOMAIN SubSeq(s, 1, n) : i \in DOMAIN s /\ SubSeq(s, 1, n)[i] = s[i]
  OBVIOUS
<1> QED
  BY <1>1 DEF Ordered

\* An empty direction.
LEMMA OrderedEmpty ==
    ASSUME NEW t, NEW lo, NEW hi
    PROVE  Ordered(<<>>, t, lo, hi)
BY DEF Ordered

\* The two message types with ordinals have integers there.
LEMMA OrdsAreInts ==
    /\ \A m \in ClientMsg : m.type = "FRAME" => m.ord \in Int
    /\ \A m \in ServerMsg : m.type = "PACKET" => m.ord \in Int
BY DEF ClientMsg, ServerMsg, FrameMsg, PacketMsg, PartMsg
-------------------------------------------------------------------------------
(***************************************************************************)
(* The inductive invariant.                                                *)
(***************************************************************************)

\* A packet is received only after it was sent, sent only after its frame was
\* read, and a frame is read only after it was sent.
Accounting ==
    /\ packetsRecv <= packetsOut
    /\ packetsOut + Len(held) <= framesRead
    /\ framesRead <= Len(sent)
    /\ inflight = Len(sent) - packetsRecv

\* The FRAMEs in transit are those sent and not yet read.
FrameOrds == Ordered(c2s, "FRAME", framesRead, Len(sent))

\* The PACKETs in transit are those sent and not yet received.
PacketOrds == Ordered(s2c, "PACKET", packetsRecv, packetsOut)

\* Flow control, and what a call has to know at each point to keep it.
FlowAtPc ==
    /\ inflight + Len(pktQueue) <= Inflight
    /\ pc \in {"limit", "recv", "flush", "resend"} => pktQueue = <<>>
    /\ pc = "resend" => inflight < Inflight

FlowInv == Accounting /\ FrameOrds /\ PacketOrds /\ FlowAtPc

\* The part of it that does not depend on what the server reads.
PassInv ==
    /\ packetsRecv <= packetsOut
    /\ PacketOrds
    /\ pc \in {"limit", "recv", "flush", "resend"} => pktQueue = <<>>

\* Before the stream is torn only whole messages are on the wire.
WholeInv == ~torn => \A i \in DOMAIN c2s : c2s[i].type # "PART"

BaseInv == TypeOK /\ HasFrame /\ PassInv /\ WholeInv

IInv == BaseInv /\ (~torn => FlowInv)
-------------------------------------------------------------------------------
(***************************************************************************)
(* What a step does to a direction.                                        *)
(***************************************************************************)

\* Sending a frame gives it the next ordinal.
LEMMA FrameSent ==
    ASSUME TypeOK, FrameOrds, Accounting, arg # NoFrame, SendFrame
    PROVE  /\ Ordered(c2s', "FRAME", framesRead, Len(sent'))
           /\ Len(sent') = Len(sent) + 1
           /\ inflight' = inflight + 1
<1> DEFINE m == [type |-> "FRAME", ord |-> Len(sent) + 1, frame |-> arg]
<1>1. m \in ClientMsg /\ m.ord = Len(sent) + 1
  BY DEF TypeOK, ClientTypeOK, ClientMsg, FrameMsg, NoFrame
<1>2. /\ Len(sent) \in Nat /\ framesRead \in Nat /\ framesRead <= Len(sent)
      /\ c2s \in Seq(ClientMsg)
  BY DEF TypeOK, ClientTypeOK, ServerTypeOK, WireTypeOK, Accounting
<1>3. Len(sent') = Len(sent) + 1 /\ inflight' = inflight + 1 /\ ClientSend(m)
  BY DEF SendFrame, TypeOK, ClientTypeOK
<1> HIDE DEF m
<1>4. Ordered(Append(c2s, m), "FRAME", framesRead, Len(sent) + 1)
  BY <1>1, <1>2, OrdsAreInts, OrderedAppendNext DEF FrameOrds
<1>5. Ordered(c2s, "FRAME", framesRead, Len(sent) + 1)
  <2>1. \A i \in DOMAIN c2s : c2s[i].type = "FRAME" => c2s[i].ord \in Int
    BY <1>2, OrdsAreInts
  <2> QED
    BY <1>2, <2>1 DEF FrameOrds, Ordered
<1>6. c2s' = Append(c2s, m) \/ c2s' = c2s
  BY <1>3 DEF ClientSend
<1> QED
  BY <1>3, <1>4, <1>5, <1>6

\* Sending anything else gives none.
LEMMA OtherSent ==
    ASSUME TypeOK, FrameOrds, NEW m \in ClientMsg, m.type # "FRAME",
           NEW f, ClientSend(m) \/ ClientSendFails(f), ~torn'
    PROVE  Ordered(c2s', "FRAME", framesRead, Len(sent))
<1>1. /\ Len(sent) \in Int /\ framesRead \in Int /\ c2s \in Seq(ClientMsg)
  BY DEF TypeOK, ClientTypeOK, ServerTypeOK, WireTypeOK
<1>2. Ordered(Append(c2s, m), "FRAME", framesRead, Len(sent))
  BY <1>1, OrderedAppendOther DEF FrameOrds
<1>3. c2s' = Append(c2s, m) \/ c2s' = c2s
  BY NotTorn DEF ClientSend
<1> QED
  BY <1>2, <1>3 DEF FrameOrds

\* A packet that arrives has a frame in flight, so the counter of frames in
\* flight is positive and is decremented.
LEMMA PacketReceived ==
    ASSUME TypeOK, Accounting, PacketOrds, ClientSees("PACKET"), Consume
    PROVE  /\ packetsRecv + 1 <= packetsOut
           /\ Ordered(s2c', "PACKET", packetsRecv + 1, packetsOut)
           /\ inflight > 0
           /\ FewerInflight = inflight - 1
<1>1. /\ packetsRecv \in Nat /\ packetsOut \in Nat /\ s2c \in Seq(ServerMsg)
      /\ framesRead \in Nat /\ Len(sent) \in Nat /\ Len(held) \in Nat /\ inflight \in Nat
  BY DEF TypeOK, ClientTypeOK, ServerTypeOK, WireTypeOK
<1>2. s2c # <<>> /\ Head(s2c).type = "PACKET" /\ s2c' = Tail(s2c)
  BY DEF ClientSees, Consume
<1>3. packetsRecv + 1 <= packetsOut /\ Ordered(Tail(s2c), "PACKET", packetsRecv + 1, packetsOut)
  BY <1>1, <1>2, OrdsAreInts, OrderedTailNext DEF PacketOrds
<1>4. inflight > 0
  BY <1>1, <1>3 DEF Accounting
<1> QED
  BY <1>2, <1>3, <1>4 DEF FewerInflight

\* Any other message that arrives leaves the packets behind it alone.
LEMMA OtherReceived ==
    ASSUME TypeOK, PacketOrds, s2c # <<>>, Consume
    PROVE  Ordered(s2c', "PACKET", packetsRecv, packetsOut)
BY OrderedTailOther DEF TypeOK, WireTypeOK, PacketOrds, Consume

\* Any message that is read and is not a FRAME leaves the frames behind it.
LEMMA OtherRead ==
    ASSUME TypeOK, FrameOrds, c2s # <<>>, c2s' = Tail(c2s)
    PROVE  Ordered(c2s', "FRAME", framesRead, Len(sent))
BY OrderedTailOther DEF TypeOK, WireTypeOK, FrameOrds

\* A message of the server that is no PACKET has no ordinal.
LEMMA OtherServerSent ==
    ASSUME TypeOK, PacketOrds, NEW m \in ServerMsg, m.type # "PACKET", ServerSend(m)
    PROVE  Ordered(s2c', "PACKET", packetsRecv, packetsOut)
<1>1. /\ packetsRecv \in Int /\ packetsOut \in Int /\ s2c \in Seq(ServerMsg)
  BY DEF TypeOK, ClientTypeOK, ServerTypeOK, WireTypeOK
<1>2. Ordered(Append(s2c, m), "PACKET", packetsRecv, packetsOut)
  BY <1>1, OrderedAppendOther DEF PacketOrds
<1> QED
  BY <1>2 DEF PacketOrds, ServerSend

-------------------------------------------------------------------------------
(***************************************************************************)
(* Steps of the client.  Each one is given with the server's variables     *)
(* unchanged.                                                              *)
(***************************************************************************)

\* The step changes no number and no direction.
Still == UNCHANGED <<inflight, packetsRecv, sent, c2s, s2c, serverVars>>

\* The parts of the invariant that a still step cannot change.
LEMMA StillFlow ==
    ASSUME FlowInv, Still
    PROVE  Accounting' /\ FrameOrds' /\ PacketOrds'
BY DEF FlowInv, Still, Accounting, FrameOrds, PacketOrds, serverVars

\* The same for a step that only reads a message that is no PACKET.
LEMMA ReadFlow ==
    ASSUME TypeOK, FlowInv, s2c # <<>>, Consume,
           UNCHANGED <<inflight, packetsRecv, sent, c2s, serverVars>>
    PROVE  Accounting' /\ FrameOrds' /\ PacketOrds'
<1>1. Ordered(s2c', "PACKET", packetsRecv, packetsOut)
  BY OtherReceived DEF FlowInv
<1> QED
  BY <1>1 DEF FlowInv, Accounting, FrameOrds, PacketOrds, serverVars

\* The same for a step that reads a packet and accounts for it.
LEMMA PacketFlow ==
    ASSUME TypeOK, FlowInv, ClientSees("PACKET"), Consume,
           packetsRecv' = packetsRecv + 1, inflight' = FewerInflight,
           UNCHANGED <<sent, c2s, serverVars>>
    PROVE  Accounting' /\ FrameOrds' /\ PacketOrds' /\ inflight' = inflight - 1
<1>1. /\ packetsRecv + 1 <= packetsOut
      /\ Ordered(s2c', "PACKET", packetsRecv + 1, packetsOut)
      /\ inflight' = inflight - 1
  BY PacketReceived DEF FlowInv
<1>2. Accounting'
  <2>1. packetsRecv \in Nat /\ Len(sent) \in Nat
    BY DEF TypeOK, ClientTypeOK
  <2> QED
    BY <1>1, <2>1 DEF FlowInv, Accounting, serverVars
<1> QED
  BY <1>1, <1>2 DEF FlowInv, FrameOrds, PacketOrds, serverVars

\* The same for a step that sends the call's frame, or fails to.
LEMMA FrameFlow ==
    ASSUME TypeOK, FlowInv, arg # NoFrame, SendFrame \/ SendFrameFails, ~torn',
           UNCHANGED <<packetsRecv, s2c, serverVars>>
    PROVE  /\ Accounting' /\ FrameOrds' /\ PacketOrds'
           /\ inflight' \in {inflight, inflight + 1}
<1>1. PacketOrds'
  BY DEF FlowInv, PacketOrds, serverVars
<1>2. CASE SendFrame
  <2>1. /\ Ordered(c2s', "FRAME", framesRead, Len(sent'))
        /\ Len(sent') = Len(sent) + 1
        /\ inflight' = inflight + 1
    BY <1>2, FrameSent DEF FlowInv
  <2>2. Len(sent) \in Nat /\ framesRead \in Nat /\ packetsRecv \in Nat /\ inflight \in Nat
    BY DEF TypeOK, ClientTypeOK, ServerTypeOK
  <2>3. Accounting'
    BY <2>1, <2>2 DEF FlowInv, Accounting, serverVars
  <2> QED
    BY <1>1, <2>1, <2>3 DEF FrameOrds, serverVars
<1>3. CASE SendFrameFails
  <2>1. UNCHANGED <<c2s, inflight, sent>>
    BY <1>3, NotTorn DEF SendFrameFails
  <2> QED
    BY <1>1, <2>1 DEF FlowInv, Accounting, FrameOrds, serverVars
<1> QED
  BY <1>2, <1>3

\* The same for a step that sends another message, or fails to.
LEMMA OtherFlow ==
    ASSUME TypeOK, FlowInv, NEW m \in ClientMsg, m.type # "FRAME",
           NEW f, ClientSend(m) \/ ClientSendFails(f), ~torn',
           UNCHANGED <<inflight, packetsRecv, sent, serverVars>>
    PROVE  Accounting' /\ FrameOrds'
<1>1. Ordered(c2s', "FRAME", framesRead, Len(sent))
  BY OtherSent DEF FlowInv
<1> QED
  BY <1>1 DEF FlowInv, Accounting, FrameOrds, serverVars
-------------------------------------------------------------------------------
\* libavcodec and the application do not touch the flow.
LEMMA AppFlow ==
    ASSUME TypeOK, FlowInv, AppStep, UNCHANGED serverVars
    PROVE  FlowInv'
<1>1. /\ Still /\ UNCHANGED pktQueue
      /\ pc' \in {"app", "drain", "closed"}
  BY DEF AppStep, EncodeFrame, StartDraining, DrainAgain, Close, ClientCloses, wireVars, Still
<1>2. FlowAtPc'
  BY <1>1 DEF FlowInv, FlowAtPc, Still
<1> QED
  BY <1>1, <1>2, StillFlow DEF FlowInv

\* The drain moves packets from the wire to the ring: one frame less in flight,
\* one packet more in the ring.
LEMMA DrainFlow ==
    ASSUME TypeOK, FlowInv, Drain, UNCHANGED serverVars
    PROVE  FlowInv'
<1> USE DEF FlowInv
<1>1. CASE DrainStop
  <2>1. Still /\ UNCHANGED pktQueue /\ pc' = "submit"
    BY <1>1 DEF DrainStop, Goto, Still, wireVars
  <2> QED
    BY <2>1, StillFlow DEF FlowAtPc, Still
<1>2. CASE DrainPacket
  <2>1. Accounting' /\ FrameOrds' /\ PacketOrds' /\ inflight' = inflight - 1
    BY <1>2, PacketFlow DEF DrainPacket
  <2>2. Len(pktQueue') = Len(pktQueue) + 1 /\ pc' = "drain"
    BY <1>2 DEF DrainPacket, Enqueued, TypeOK, ClientTypeOK
  <2>3. inflight \in Nat /\ Len(pktQueue) \in Nat /\ Inflight \in Nat
    BY InflightAssumption DEF TypeOK, ClientTypeOK
  <2> QED
    BY <2>1, <2>2, <2>3 DEF FlowAtPc
<1>3. CASE DrainDone
  <2>1. s2c # <<>> /\ Consume
        /\ UNCHANGED <<inflight, packetsRecv, sent, c2s, serverVars, pktQueue>>
        /\ pc' = "submit"
    BY <1>3 DEF DrainDone, ClientSees, Goto
  <2> QED
    BY <2>1, ReadFlow DEF FlowAtPc
<1>4. CASE DrainFails
  <2>1. UNCHANGED <<inflight, packetsRecv, sent, c2s, serverVars, pktQueue>> /\ pc' = "app"
    BY <1>4 DEF DrainFails, Return
  <2>2. (s2c # <<>> /\ Consume) \/ UNCHANGED s2c
    BY <1>4 DEF DrainFails, ClientSees
  <2>3. Accounting' /\ FrameOrds' /\ PacketOrds'
    BY <2>1, <2>2, ReadFlow, StillFlow DEF Still
  <2> QED
    BY <2>1, <2>3 DEF FlowAtPc
<1> QED
  BY <1>1, <1>2, <1>3, <1>4 DEF Drain

\* An empty ring leaves room for the frames alone.
LEMMA EmptyAddsNothing ==
    ASSUME NEW q, q = <<>>, NEW n \in Nat, NEW max \in Nat, n <= max
    PROVE  n + Len(q) <= max
OBVIOUS

\* After the drain a frame is sent only into a free slot, and a call waits only
\* with an empty ring.
LEMMA SubmitFlow ==
    ASSUME TypeOK, FlowInv, Submit, ~torn', UNCHANGED serverVars
    PROVE  FlowInv'
<1> USE InflightAssumption DEF FlowInv
<1>0. inflight \in Nat /\ Len(pktQueue) \in Nat /\ Inflight \in Nat
  BY DEF TypeOK, ClientTypeOK
<1>1. CASE PopAndSend
  <2>1. Len(pktQueue') = Len(pktQueue) - 1 /\ pc' = "app"
    BY <1>1, HeadAndTail DEF PopAndSend, Return, TypeOK, ClientTypeOK
  <2>2. Accounting' /\ FrameOrds' /\ PacketOrds' /\ inflight' \in {inflight, inflight + 1}
    <3>1. CASE MaySend
      BY <1>1, <3>1, FrameFlow DEF PopAndSend, MaySend
    <3>2. CASE ~MaySend
      BY <1>1, <3>2, StillFlow DEF PopAndSend, NoSend, Still
    <3> QED
      BY <3>1, <3>2
  <2> QED
    BY <1>0, <2>1, <2>2 DEF FlowAtPc
<1>2. CASE SubmitFrame
  <2>1. pktQueue = <<>> /\ UNCHANGED pktQueue /\ pc' \in {"limit", "app"} /\ inflight < Inflight
    BY <1>2 DEF SubmitFrame, Goto, Return, MaySend
  <2>2. Accounting' /\ FrameOrds' /\ PacketOrds' /\ inflight' \in {inflight, inflight + 1}
    BY <1>2, FrameFlow DEF SubmitFrame, MaySend
  <2>3. inflight' + Len(pktQueue') <= Inflight
    <3>1. pktQueue' = <<>>
      BY <2>1, <2>2
    <3>2. inflight' \in Nat /\ Inflight \in Nat
      BY <1>0, <2>1, <2>2
    <3>3. inflight' <= Inflight
      BY <1>0, <2>1, <2>2
    <3> QED
      BY ONLY <3>1, <3>2, <3>3, EmptyAddsNothing
  <2>4. pktQueue' = <<>> /\ pc' # "resend"
    BY <2>1
  <2> QED
    BY <2>2, <2>3, <2>4 DEF FlowAtPc
<1>3. CASE SubmitFails
  <2>1. UNCHANGED pktQueue /\ pc' = "app" /\ UNCHANGED inflight
    BY <1>3 DEF SubmitFails, Return, SendFrameFails
  <2>2. Accounting' /\ FrameOrds' /\ PacketOrds'
    BY <1>3, FrameFlow DEF SubmitFails, MaySend
  <2> QED
    BY <2>1, <2>2 DEF FlowAtPc
<1>4. CASE LimitReached
  <2>1. Still /\ UNCHANGED pktQueue /\ pc' = "limit" /\ pktQueue = <<>>
    BY <1>4 DEF LimitReached, Goto, Still, wireVars
  <2> QED
    BY <2>1, StillFlow DEF FlowAtPc, Still
<1>5. CASE NothingToSend
  <2>1. Still /\ UNCHANGED pktQueue /\ pc' = "flush" /\ pktQueue = <<>>
    BY <1>5 DEF NothingToSend, Goto, Still, wireVars
  <2> QED
    BY <2>1, StillFlow DEF FlowAtPc, Still
<1> QED
  BY <1>1, <1>2, <1>3, <1>4, <1>5 DEF Submit

\* The frame sent after the wait takes the slot the packet has freed, and a
\* FLUSH takes none.
LEMMA ResendFlushFlow ==
    ASSUME TypeOK, HasFrame, FlowInv, Resend \/ SendFlush, ~torn', UNCHANGED serverVars
    PROVE  FlowInv'
<1> USE InflightAssumption DEF FlowInv
<1>0. inflight \in Nat /\ Inflight \in Nat
  BY DEF TypeOK, ClientTypeOK
<1>1. CASE Resend
  <2>1. Accounting' /\ FrameOrds' /\ PacketOrds' /\ inflight' \in {inflight, inflight + 1}
    BY <1>1, FrameFlow DEF Resend, HasFrame
  <2>2. pktQueue = <<>> /\ UNCHANGED pktQueue /\ pc' = "app" /\ inflight < Inflight
    BY <1>1 DEF Resend, FlowAtPc
  <2>3. inflight' + Len(pktQueue') <= Inflight
    <3>1. pktQueue' = <<>>
      BY <2>1, <2>2
    <3>2. inflight' \in Nat /\ Inflight \in Nat
      BY <1>0, <2>1, <2>2
    <3>3. inflight' <= Inflight
      BY <1>0, <2>1, <2>2
    <3> QED
      BY ONLY <3>1, <3>2, <3>3, EmptyAddsNothing
  <2> QED
    BY <2>1, <2>2, <2>3 DEF FlowAtPc
<1>2. CASE SendFlush
  <2>1. UNCHANGED <<inflight, packetsRecv, sent, s2c, serverVars, pktQueue>>
        /\ pc = "flush" /\ pc' \in {"recv", "app"}
    BY <1>2 DEF SendFlush, Goto, Return
  <2>2. Accounting' /\ FrameOrds'
    <3> DEFINE m == [type |-> "FLUSH"]
    <3>1. m \in ClientMsg /\ m.type # "FRAME"
      BY DEF ClientMsg
    <3>2. ClientSend(m) \/ ClientSendFails(NoFrame)
      BY <1>2 DEF SendFlush
    <3> HIDE DEF m
    <3> QED
      BY <2>1, <3>1, <3>2, OtherFlow
  <2>3. PacketOrds'
    BY <2>1 DEF PacketOrds, serverVars
  <2> QED
    BY <2>1, <2>2, <2>3 DEF FlowAtPc
<1> QED
  BY <1>1, <1>2

\* A blocked call receives into an empty ring and empties it again.
LEMMA ReceiveFlow ==
    ASSUME TypeOK, FlowInv, Receive \/ RecvTimeout \/ AnswerPing, ~torn',
           UNCHANGED serverVars
    PROVE  FlowInv'
<1> USE InflightAssumption DEF FlowInv
<1>0. inflight \in Nat /\ Inflight \in Nat
  BY DEF TypeOK, ClientTypeOK
<1>1. CASE RecvPacket
  <2>1. Accounting' /\ FrameOrds' /\ PacketOrds' /\ inflight' = inflight - 1
    BY <1>1, PacketFlow DEF RecvPacket
  <2>2. pktQueue = <<>>
    BY <1>1 DEF RecvPacket, Blocked, FlowAtPc
  <2>3. pktQueue' = <<>> /\ pc' \in {"resend", "app"}
    BY <1>1, <2>2 DEF RecvPacket, Enqueued, Return
  <2> QED
    BY <1>0, <2>1, <2>2, <2>3 DEF FlowAtPc
<1>2. CASE RecvDone \/ RecvFails \/ RecvTimeout
  <2>1. UNCHANGED <<inflight, packetsRecv, sent, c2s, serverVars, pktQueue>> /\ pc' = "app"
    BY <1>2 DEF RecvDone, RecvFails, RecvTimeout, Return, wireVars
  <2>2. (s2c # <<>> /\ Consume) \/ UNCHANGED s2c
    BY <1>2 DEF RecvDone, RecvFails, RecvTimeout, ClientSees, wireVars
  <2>3. Accounting' /\ FrameOrds' /\ PacketOrds'
    BY <2>1, <2>2, ReadFlow, StillFlow DEF Still
  <2> QED
    BY <2>1, <2>3 DEF FlowAtPc
<1>3. CASE AnswerPing
  <2>1. UNCHANGED <<inflight, packetsRecv, sent, serverVars, pktQueue, pc>>
    BY <1>3 DEF AnswerPing, clientVars
  <2>2. Accounting' /\ FrameOrds'
    <3> DEFINE m == [type |-> "PONG"]
    <3>1. m \in ClientMsg /\ m.type # "FRAME"
      BY DEF ClientMsg
    <3>2. ClientSend(m) \/ ClientSendFails(NoFrame)
      BY <1>3 DEF AnswerPing
    <3> HIDE DEF m
    <3> QED
      BY <2>1, <3>1, <3>2, OtherFlow
  <2>3. PacketOrds'
    <3>1. s2c # <<>> /\ Consume
      BY <1>3 DEF AnswerPing, ClientSees
    <3> QED
      BY <2>1, <3>1, OtherReceived DEF PacketOrds, serverVars
  <2> QED
    BY <2>1, <2>2, <2>3 DEF FlowAtPc
<1> QED
  BY <1>1, <1>2, <1>3 DEF Receive

-------------------------------------------------------------------------------
(***************************************************************************)
(* Steps of the server, and the reset.                                     *)
(***************************************************************************)

\* What the client's part of the invariant needs of a step of the server.
LEMMA ServerKeepsClientFlow ==
    ASSUME FlowInv, UNCHANGED clientVars
    PROVE  FlowAtPc'
BY DEF FlowInv, FlowAtPc, clientVars

\* As long as the stream is not torn no message is put together from others.
LEMMA NothingGarbled ==
    ASSUME WireTypeOK, WholeInv, ReadGarbled \/ ReadBroken
    PROVE  torn /\ torn'
<1>1. c2s # <<>> /\ Head(c2s).type = "PART"
  BY DEF ReadGarbled, ReadBroken, ReadSpliced, NoMessage, ServerSees
<1>2. torn
  BY <1>1, HeadAndTail DEF WireTypeOK, WholeInv
<1> QED
  BY <1>2 DEF ReadGarbled, ReadBroken, ServerCloses

\* The loop reads the frames in order, one at a time.
LEMMA LoopFlow ==
    ASSUME TypeOK, FlowInv, WholeInv, LoopStep \/ Crash, ~torn', UNCHANGED clientVars
    PROVE  FlowInv'
<1> USE DEF FlowInv
<1>0. /\ packetsRecv \in Nat /\ packetsOut \in Nat /\ framesRead \in Nat /\ Len(sent) \in Nat
      /\ Len(held) \in Nat /\ held \in Seq(Frames) /\ c2s \in Seq(ClientMsg)
  BY DEF TypeOK, ClientTypeOK, ServerTypeOK, WireTypeOK
<1>1. CASE ReadFrame
  <2>1. c2s # <<>> /\ Head(c2s).type = "FRAME" /\ c2s' = Tail(c2s)
    BY <1>1 DEF ReadFrame, ServerSees
  <2>2. framesRead + 1 <= Len(sent) /\ Ordered(Tail(c2s), "FRAME", framesRead + 1, Len(sent))
    BY <1>0, <2>1, OrdsAreInts, OrderedTailNext DEF FrameOrds
  <2>3. /\ framesRead' = framesRead + 1 /\ Len(held') = Len(held) + 1
        /\ UNCHANGED <<packetsOut, s2c>>
    BY <1>0, <1>1 DEF ReadFrame
  <2>4. Accounting'
    BY <1>0, <2>2, <2>3 DEF Accounting, clientVars
  <2> QED
    BY <2>1, <2>2, <2>3, <2>4, ServerKeepsClientFlow DEF FrameOrds, PacketOrds, clientVars
<1>2. CASE ReadFlush \/ ReadOther
  <2>1. c2s # <<>> /\ c2s' = Tail(c2s) /\ UNCHANGED <<framesRead, packetsOut, held, s2c>>
    BY <1>2 DEF ReadFlush, ReadOther, ServerSees, serverVars
  <2>2. Ordered(c2s', "FRAME", framesRead, Len(sent))
    BY <2>1, OtherRead
  <2> QED
    BY <2>1, <2>2, ServerKeepsClientFlow DEF Accounting, FrameOrds, PacketOrds, clientVars
<1>3. CASE SendDone
  <2> DEFINE m == [type |-> "DONE"]
  <2>1. m \in ServerMsg /\ m.type # "PACKET"
    BY DEF ServerMsg
  <2>2. ServerSend(m) /\ UNCHANGED <<framesRead, packetsOut, held, c2s>>
    BY <1>3 DEF SendDone
  <2> HIDE DEF m
  <2>3. Ordered(s2c', "PACKET", packetsRecv, packetsOut)
    BY <2>1, <2>2, OtherServerSent
  <2> QED
    BY <2>2, <2>3, ServerKeepsClientFlow DEF Accounting, FrameOrds, PacketOrds, clientVars
<1>4. CASE Shutdown \/ Crash
  <2>1. c2s' = <<>> /\ held' = <<>> /\ UNCHANGED <<framesRead, packetsOut, s2c>>
    BY <1>4 DEF Shutdown, Crash, ServerCloses
  <2>2. Accounting'
    BY <1>0, <2>1 DEF Accounting, clientVars
  <2> QED
    BY <2>1, <2>2, OrderedEmpty, ServerKeepsClientFlow DEF FrameOrds, PacketOrds, clientVars
<1>5. CASE RejectFrame
  <2>1. c2s # <<>> /\ Head(c2s).type = "FRAME"
    BY <1>5 DEF RejectFrame, ServerSees
  <2>2. framesRead + 1 <= Len(sent)
    BY <1>0, <2>1, OrdsAreInts, OrderedTailNext DEF FrameOrds
  <2>3. c2s' = <<>> /\ held' = <<>> /\ framesRead' = framesRead + 1
        /\ UNCHANGED <<packetsOut, s2c>>
    BY <1>5 DEF RejectFrame, ServerCloses
  <2>4. Accounting'
    BY <1>0, <2>2, <2>3 DEF Accounting, clientVars
  <2> QED
    BY <2>3, <2>4, OrderedEmpty, ServerKeepsClientFlow DEF FrameOrds, PacketOrds, clientVars
<1> QED
  BY <1>1, <1>2, <1>3, <1>4, <1>5, NothingGarbled DEF LoopStep, TypeOK

\* A callback takes one frame out of the encoder and sends at most one packet.
LEMMA CallbackFlow ==
    ASSUME TypeOK, FlowInv, NEW i \in DOMAIN held, Callback(i) \/ DropFrame(i),
           UNCHANGED clientVars
    PROVE  FlowInv'
<1> USE DEF FlowInv
<1>0. /\ packetsRecv \in Nat /\ packetsOut \in Nat /\ framesRead \in Nat /\ Len(sent) \in Nat
      /\ Len(held) \in Nat /\ held \in Seq(Frames) /\ s2c \in Seq(ServerMsg)
  BY DEF TypeOK, ClientTypeOK, ServerTypeOK, WireTypeOK
<1>1. held' = RemoveAt(held, i) /\ UNCHANGED <<framesRead, c2s>>
  BY DEF Callback, EmitPacket, SkipPacket, DropFrame, wireVars
<1>2. Len(held') = Len(held) - 1
  BY <1>0, <1>1, RemoveAtShortens
<1>3. CASE EmitPacket(i)
  <2> DEFINE m == [type |-> "PACKET", ord |-> packetsOut + 1, frame |-> held[i],
                   dts |-> CorrectedDts(Pts[held[i]], RawDts(held[i]))]
  <2>1. m \in ServerMsg /\ m.ord = packetsOut + 1
    <3>1. held[i] \in Frames /\ Pts[held[i]] \in Int
      BY <1>0, ServerAssumption
    <3>2. CorrectedDts(Pts[held[i]], RawDts(held[i])) \in Int
      BY <3>1, CorrectedDtsInt DEF RawDts, TypeOK, ServerTypeOK
    <3> QED
      BY <1>0, <3>1, <3>2 DEF ServerMsg, PacketMsg
  <2>2. ServerSend(m) /\ packetsOut' = packetsOut + 1
    BY <1>3 DEF EmitPacket
  <2> HIDE DEF m
  <2>3. packetsRecv <= packetsOut
    BY DEF Accounting
  <2>4. Ordered(Append(s2c, m), "PACKET", packetsRecv, packetsOut + 1)
    BY <1>0, <2>1, <2>3, OrdsAreInts, OrderedAppendNext DEF PacketOrds
  <2>5. Ordered(s2c, "PACKET", packetsRecv, packetsOut + 1)
    <3>1. \A k \in DOMAIN s2c : s2c[k].type = "PACKET" => s2c[k].ord \in Int
      BY <1>0, OrdsAreInts
    <3> QED
      BY <1>0, <3>1 DEF PacketOrds, Ordered
  <2>6. s2c' = Append(s2c, m) \/ s2c' = s2c
    BY <2>2 DEF ServerSend
  <2>7. Accounting'
    BY <1>0, <1>1, <1>2, <2>2 DEF Accounting, clientVars
  <2> QED
    BY <1>1, <2>2, <2>4, <2>5, <2>6, <2>7, ServerKeepsClientFlow
       DEF FrameOrds, PacketOrds, clientVars
<1>4. CASE SkipPacket(i) \/ DropFrame(i)
  <2>1. UNCHANGED <<packetsOut, s2c>>
    BY <1>4 DEF SkipPacket, DropFrame, wireVars
  <2>2. Accounting'
    BY <1>0, <1>1, <1>2, <2>1 DEF Accounting, clientVars
  <2> QED
    BY <1>1, <2>1, <2>2, ServerKeepsClientFlow DEF FrameOrds, PacketOrds, clientVars
<1> QED
  BY <1>3, <1>4 DEF Callback

\* PING and ERROR carry no ordinal.
LEMMA PeerFlow ==
    ASSUME TypeOK, FlowInv, PeerPing \/ PeerError, UNCHANGED clientVars
    PROVE  FlowInv'
<1> USE DEF FlowInv
<1>0. /\ packetsOut \in Nat /\ framesRead \in Nat /\ Len(held) \in Nat
  BY DEF TypeOK, ServerTypeOK
<1>1. Ordered(s2c', "PACKET", packetsRecv, packetsOut) /\ UNCHANGED <<packetsOut, framesRead>>
  <2>1. ASSUME NEW t \in {"PING", "ERROR"}, ServerSend([type |-> t])
        PROVE  Ordered(s2c', "PACKET", packetsRecv, packetsOut)
    <3> DEFINE m == [type |-> t]
    <3>1. m \in ServerMsg /\ m.type # "PACKET"
      BY DEF ServerMsg
    <3>2. ServerSend(m)
      BY <2>1
    <3> HIDE DEF m
    <3> QED
      BY <3>1, <3>2, OtherServerSent
  <2> QED
    BY <2>1 DEF PeerPing, PeerError, serverVars
<1>2. (c2s' = c2s \/ c2s' = <<>>) /\ (held' = held \/ held' = <<>>)
  BY DEF PeerPing, PeerError, ServerCloses, serverVars
<1>3. FrameOrds'
  BY <1>1, <1>2, OrderedEmpty DEF FrameOrds, clientVars
<1>4. Accounting'
  BY <1>0, <1>1, <1>2 DEF Accounting, clientVars
<1> QED
  BY <1>1, <1>3, <1>4, ServerKeepsClientFlow DEF PacketOrds, clientVars

\* A reset loses the last messages of the server.
LEMMA ResetFlow ==
    ASSUME TypeOK, FlowInv, PeerReset, UNCHANGED <<clientVars, serverVars>>
    PROVE  FlowInv'
<1>1. /\ \E kept \in 0 .. Len(s2c) : s2c' = SubSeq(s2c, 1, kept)
      /\ UNCHANGED c2s
  BY PeerResetKeeps DEF TypeOK
<1>2. Ordered(s2c', "PACKET", packetsRecv, packetsOut)
  BY <1>1, OrderedPrefix DEF TypeOK, WireTypeOK, FlowInv, PacketOrds
<1> QED
  BY <1>1, <1>2, ServerKeepsClientFlow
     DEF FlowInv, Accounting, FrameOrds, PacketOrds, clientVars, serverVars

-------------------------------------------------------------------------------
(***************************************************************************)
(* The packets alone, and the whole messages.                              *)
(***************************************************************************)

\* The packet at the head is the next one to receive.
LEMMA PacketPasses ==
    ASSUME TypeOK, PacketOrds, ClientSees("PACKET"), Consume
    PROVE  /\ packetsRecv + 1 <= packetsOut
           /\ Ordered(s2c', "PACKET", packetsRecv + 1, packetsOut)
<1>1. packetsRecv \in Nat /\ packetsOut \in Nat /\ s2c \in Seq(ServerMsg)
  BY DEF TypeOK, ClientTypeOK, ServerTypeOK, WireTypeOK
<1>2. s2c # <<>> /\ Head(s2c).type = "PACKET" /\ s2c' = Tail(s2c)
  BY DEF ClientSees, Consume
<1> QED
  BY <1>1, <1>2, OrdsAreInts, OrderedTailNext DEF PacketOrds

\* A step of the client reads nothing, or one message.
LEMMA ClientPass ==
    ASSUME TypeOK, PassInv, ClientNext, UNCHANGED serverVars
    PROVE  PassInv'
<1> USE DEF PassInv
<1>1. CASE DrainPacket \/ RecvPacket
  <2>1. ClientSees("PACKET") /\ Consume /\ packetsRecv' = packetsRecv + 1
        /\ packetsOut' = packetsOut
    BY <1>1 DEF DrainPacket, RecvPacket, serverVars
  <2>2. packetsRecv' <= packetsOut' /\ PacketOrds'
    BY <2>1, PacketPasses DEF PacketOrds
  <2>3. pc' \in {"limit", "recv", "flush", "resend"} => pktQueue' = <<>>
    <3>1. CASE DrainPacket
      BY <3>1 DEF DrainPacket
    <3>2. CASE RecvPacket
      <4>1. pktQueue = <<>>
        BY <3>2 DEF RecvPacket, Blocked
      <4> QED
        BY <3>2, <4>1 DEF RecvPacket, Enqueued
    <3> QED
      BY <1>1, <3>1, <3>2
  <2> QED
    BY <2>2, <2>3
<1>2. CASE ClientNext /\ ~DrainPacket /\ ~RecvPacket
  <2>1. /\ UNCHANGED <<packetsRecv, packetsOut>>
        /\ UNCHANGED s2c \/ (s2c # <<>> /\ Consume)
        /\ pc' \in {"limit", "recv", "flush", "resend"} => pktQueue' = <<>>
    <3>0. packetsOut' = packetsOut
      BY DEF serverVars
    <3>1. CASE AppStep
      BY <3>0, <3>1 DEF AppStep, EncodeFrame, StartDraining, DrainAgain, Close, ClientCloses,
                        wireVars
    <3>2. CASE Drain
      BY <1>2, <3>0, <3>2 DEF Drain, DrainStop, DrainDone, DrainFails, Return, Goto, ClientSees,
                              wireVars
    <3>3. CASE PopAndSend \/ SubmitFails \/ LimitReached \/ NothingToSend
      BY <3>0, <3>3 DEF PopAndSend, SubmitFails, LimitReached, NothingToSend, Return, Goto,
                        wireVars
    <3>4. CASE SubmitFrame
      BY <3>0, <3>4 DEF SubmitFrame, Return, Goto
    <3>5. CASE Resend \/ SendFlush
      BY <3>0, <3>5 DEF Resend, SendFlush, Return, Goto
    <3>6. CASE Receive \/ RecvTimeout
      BY <1>2, <3>0, <3>6 DEF Receive, RecvDone, RecvFails, RecvTimeout, Return, ClientSees,
                              wireVars
    <3>7. CASE AnswerPing
      BY <3>0, <3>7 DEF AnswerPing, ClientSees, clientVars
    <3> QED
      BY <3>1, <3>2, <3>3, <3>4, <3>5, <3>6, <3>7 DEF ClientNext, CallStep, Submit
  <2>2. PacketOrds'
    BY <2>1, OtherReceived DEF PacketOrds
  <2> QED
    BY <2>1, <2>2
<1> QED
  BY <1>1, <1>2

\* A step of the server sends nothing, or one message.
LEMMA ServerPass ==
    ASSUME TypeOK, PassInv, ServerNext, UNCHANGED clientVars
    PROVE  PassInv'
<1> USE DEF PassInv
<1>0. packetsRecv \in Nat /\ packetsOut \in Nat /\ s2c \in Seq(ServerMsg)
  BY DEF TypeOK, ClientTypeOK, ServerTypeOK, WireTypeOK
<1>1. UNCHANGED <<packetsRecv, pc, pktQueue>>
  BY DEF clientVars
<1>2. CASE LoopStep \/ Crash
  <2>1. packetsOut' = packetsOut
    BY <1>2 DEF LoopStep, ReadFrame, RejectFrame, ReadFlush, ReadOther, SendDone, Shutdown,
                ReadGarbled, ReadBroken, Crash, serverVars
  <2>2. s2c' = s2c \/ ServerSend([type |-> "DONE"])
    BY <1>2 DEF LoopStep, ReadFrame, RejectFrame, ReadFlush, ReadOther, SendDone, Shutdown,
                ReadGarbled, ReadBroken, Crash
  <2>3. PacketOrds'
    <3> DEFINE m == [type |-> "DONE"]
    <3>1. m \in ServerMsg /\ m.type # "PACKET"
      BY DEF ServerMsg
    <3>2. s2c' = s2c \/ ServerSend(m)
      BY <2>2
    <3> HIDE DEF m
    <3>3. Ordered(s2c', "PACKET", packetsRecv, packetsOut)
      BY <3>1, <3>2, OtherServerSent DEF PacketOrds
    <3> QED
      BY <1>1, <2>1, <3>3 DEF PacketOrds
  <2> QED
    BY <1>1, <2>1, <2>3
<1>3. ASSUME NEW i \in DOMAIN held, EmitPacket(i)
      PROVE  PassInv'
  <2> DEFINE m == [type |-> "PACKET", ord |-> packetsOut + 1, frame |-> held[i],
                   dts |-> CorrectedDts(Pts[held[i]], RawDts(held[i]))]
  <2>1. m \in ServerMsg /\ m.ord = packetsOut + 1
    <3>1. held[i] \in Frames /\ Pts[held[i]] \in Int
      BY ServerAssumption DEF TypeOK, ServerTypeOK
    <3>2. CorrectedDts(Pts[held[i]], RawDts(held[i])) \in Int
      BY <3>1, CorrectedDtsInt DEF RawDts, TypeOK, ServerTypeOK
    <3> QED
      BY <1>0, <3>1, <3>2 DEF ServerMsg, PacketMsg
  <2>2. ServerSend(m) /\ packetsOut' = packetsOut + 1
    BY <1>3 DEF EmitPacket
  <2> HIDE DEF m
  <2>3. Ordered(Append(s2c, m), "PACKET", packetsRecv, packetsOut + 1)
    BY <1>0, <2>1, OrdsAreInts, OrderedAppendNext DEF PacketOrds
  <2>4. Ordered(s2c, "PACKET", packetsRecv, packetsOut + 1)
    <3>1. \A k \in DOMAIN s2c : s2c[k].type = "PACKET" => s2c[k].ord \in Int
      BY <1>0, OrdsAreInts
    <3> QED
      BY <1>0, <3>1 DEF PacketOrds, Ordered
  <2>5. s2c' = Append(s2c, m) \/ s2c' = s2c
    BY <2>2 DEF ServerSend
  <2>6. PacketOrds'
    BY <1>1, <2>2, <2>3, <2>4, <2>5 DEF PacketOrds
  <2> QED
    BY <1>0, <1>1, <2>2, <2>6
<1>4. ASSUME NEW i \in DOMAIN held, SkipPacket(i) \/ DropFrame(i)
      PROVE  PassInv'
  BY <1>1, <1>4 DEF SkipPacket, DropFrame, PacketOrds, wireVars
<1>5. CASE PeerPing \/ PeerError
  <2>1. ASSUME NEW t \in {"PING", "ERROR"}, ServerSend([type |-> t])
        PROVE  Ordered(s2c', "PACKET", packetsRecv, packetsOut)
    <3> DEFINE m == [type |-> t]
    <3>1. m \in ServerMsg /\ m.type # "PACKET"
      BY DEF ServerMsg
    <3>2. ServerSend(m)
      BY <2>1
    <3> HIDE DEF m
    <3> QED
      BY <3>1, <3>2, OtherServerSent
  <2>2. Ordered(s2c', "PACKET", packetsRecv, packetsOut) /\ packetsOut' = packetsOut
    BY <1>5, <2>1 DEF PeerPing, PeerError, serverVars
  <2> QED
    BY <1>1, <2>2 DEF PacketOrds
<1> QED
  BY <1>2, <1>3, <1>4, <1>5 DEF ServerNext, Callback

\* A torn stream stays torn.
LEMMA TornStays ==
    ASSUME [Next]_vars, torn
    PROVE  torn'
<1>1. CASE ClientNext
  <2>1. CASE AppStep
    BY <2>1 DEF AppStep, EncodeFrame, StartDraining, DrainAgain, Close, ClientCloses, wireVars
  <2>2. CASE Drain \/ Receive \/ RecvTimeout
    BY <2>2 DEF Drain, DrainStop, DrainPacket, DrainDone, DrainFails, Receive, RecvPacket, RecvDone,
                RecvFails, RecvTimeout, wireVars
  <2>3. CASE Submit \/ Resend
    BY <2>3, SendTears DEF Submit, PopAndSend, SubmitFrame, SubmitFails, LimitReached,
                           NothingToSend, Resend, SendFrame, SendFrameFails, NoSend, wireVars
  <2>4. CASE SendFlush \/ AnswerPing
    BY <2>4, SendTears DEF SendFlush, AnswerPing
  <2> QED
    BY <1>1, <2>1, <2>2, <2>3, <2>4 DEF ClientNext, CallStep
<1>2. CASE ServerNext
  BY <1>2 DEF ServerNext, LoopStep, ReadFrame, RejectFrame, ReadFlush, ReadOther, SendDone, Shutdown,
              ReadGarbled, ReadBroken, Crash, Callback, EmitPacket, SkipPacket, DropFrame, PeerPing,
              PeerError, ServerCloses, wireVars
<1>3. CASE PeerReset \/ UNCHANGED vars
  BY <1>3 DEF PeerReset, vars, wireVars
<1> QED
  BY <1>1, <1>2, <1>3 DEF Next, Terminated

\* What is put on the wire is whole, and what is taken off it does not matter.
LEMMA WholeStep ==
    ASSUME TypeOK, WholeInv, [Next]_vars
    PROVE  WholeInv'
<1> SUFFICES ASSUME ~torn'
             PROVE  \A i \in DOMAIN c2s' : c2s'[i].type # "PART"
  BY DEF WholeInv
<1>0. c2s \in Seq(ClientMsg) /\ \A i \in DOMAIN c2s : c2s[i].type # "PART"
  BY TornStays DEF TypeOK, WireTypeOK, WholeInv
<1>1. ASSUME NEW m, m.type # "PART", c2s' = Append(c2s, m)
      PROVE  \A i \in DOMAIN c2s' : c2s'[i].type # "PART"
  <2>1. \A i \in DOMAIN Append(c2s, m) :
            \/ i \in DOMAIN c2s /\ Append(c2s, m)[i] = c2s[i]
            \/ Append(c2s, m)[i] = m
    BY <1>0
  <2> QED
    BY <1>0, <1>1, <2>1
<1>2. ASSUME c2s # <<>>, c2s' = Tail(c2s)
      PROVE  \A i \in DOMAIN c2s' : c2s'[i].type # "PART"
  BY <1>0, <1>2, HeadAndTail
<1>3. CASE c2s' = c2s \/ c2s' = <<>>
  BY <1>0, <1>3
<1>4. CASE ClientNext
  <2>1. CASE AppStep \/ Drain \/ Receive \/ RecvTimeout \/ LimitReached \/ NothingToSend
    BY <1>3, <2>1 DEF AppStep, EncodeFrame, StartDraining, DrainAgain, Close, ClientCloses, Drain,
                DrainStop, DrainPacket, DrainDone, DrainFails, Receive, RecvPacket, RecvDone,
                RecvFails, RecvTimeout, LimitReached, NothingToSend, wireVars
  <2>2. CASE PopAndSend \/ SubmitFrame \/ SubmitFails \/ Resend
    <3>1. CASE SendFrame
      <4> DEFINE m == [type |-> "FRAME", ord |-> Len(sent) + 1, frame |-> arg]
      <4>1. m.type # "PART" /\ ClientSend(m)
        BY <3>1 DEF SendFrame
      <4> HIDE DEF m
      <4> QED
        BY <1>1, <1>3, <4>1 DEF ClientSend
    <3>2. CASE SendFrameFails
      BY <1>3, <3>2, NotTorn DEF SendFrameFails
    <3>3. CASE NoSend
      BY <1>3, <3>3 DEF NoSend
    <3> QED
      BY <2>2, <3>1, <3>2, <3>3 DEF PopAndSend, SubmitFrame, SubmitFails, Resend
  <2>3. CASE SendFlush \/ AnswerPing
    <3>1. ASSUME NEW t \in {"FLUSH", "PONG"}, ClientSend([type |-> t])
          PROVE  \A i \in DOMAIN c2s' : c2s'[i].type # "PART"
      <4> DEFINE m == [type |-> t]
      <4>1. m.type # "PART" /\ ClientSend(m)
        BY <3>1
      <4> HIDE DEF m
      <4> QED
        BY <1>1, <1>3, <4>1 DEF ClientSend
    <3>2. CASE ClientSendFails(NoFrame)
      BY <1>3, <3>2, NotTorn
    <3> QED
      BY <2>3, <3>1, <3>2 DEF SendFlush, AnswerPing
  <2> QED
    BY <1>4, <2>1, <2>2, <2>3 DEF ClientNext, CallStep, Submit
<1>5. CASE ServerNext
  <2>1. ~ReadGarbled /\ ~ReadBroken
    BY NothingGarbled DEF TypeOK
  <2> QED
    BY <1>2, <1>3, <1>5, <2>1
       DEF ServerNext, LoopStep, ReadFrame, RejectFrame, ReadFlush, ReadOther, SendDone, Shutdown,
           Crash, Callback, EmitPacket, SkipPacket, DropFrame, PeerPing,
           PeerError, ServerCloses, ServerSees, wireVars
<1>6. CASE PeerReset \/ UNCHANGED vars
  BY <1>3, <1>6 DEF PeerReset, vars, wireVars
<1> QED
  BY <1>4, <1>5, <1>6 DEF Next, Terminated

\* This part is inductive by itself.
LEMMA BaseStep ==
    ASSUME BaseInv, [Next]_vars
    PROVE  BaseInv'
<1>1. TypeOK' /\ HasFrame' /\ WholeInv'
  BY TypeStep, WholeStep DEF BaseInv
<1>2. PassInv'
  <2>1. CASE PeerReset /\ UNCHANGED <<clientVars, serverVars>>
    <3>1. \E kept \in 0 .. Len(s2c) : s2c' = SubSeq(s2c, 1, kept)
      BY <2>1, PeerResetKeeps DEF BaseInv, TypeOK
    <3>2. Ordered(s2c', "PACKET", packetsRecv, packetsOut)
      BY <3>1, OrderedPrefix DEF BaseInv, TypeOK, WireTypeOK, PassInv, PacketOrds
    <3> QED
      BY <2>1, <3>2 DEF BaseInv, PassInv, PacketOrds, clientVars, serverVars
  <2>2. CASE UNCHANGED vars
    BY <2>2 DEF BaseInv, PassInv, PacketOrds, vars, clientVars, serverVars, wireVars
  <2> QED
    BY <2>1, <2>2, ClientPass, ServerPass DEF Next, Terminated, BaseInv
<1> QED
  BY <1>1, <1>2 DEF BaseInv

-------------------------------------------------------------------------------
\* The invariant is inductive.
LEMMA FlowStep ==
    ASSUME IInv, [Next]_vars
    PROVE  IInv'
<1>1. BaseInv'
  BY BaseStep DEF IInv
<1> SUFFICES ASSUME ~torn' PROVE FlowInv'
  BY <1>1 DEF IInv
<1>0. TypeOK /\ HasFrame /\ WholeInv /\ FlowInv
  BY TornStays DEF IInv, BaseInv
<1>2. CASE ClientNext /\ UNCHANGED serverVars
  BY <1>0, <1>2, AppFlow, DrainFlow, SubmitFlow, ResendFlushFlow, ReceiveFlow
     DEF ClientNext, CallStep
<1>3. CASE ServerNext /\ UNCHANGED clientVars
  BY <1>0, <1>3, LoopFlow, CallbackFlow, PeerFlow DEF ServerNext
<1>4. CASE PeerReset /\ UNCHANGED <<clientVars, serverVars>>
  BY <1>0, <1>4, ResetFlow
<1>5. CASE UNCHANGED vars
  BY <1>0, <1>5 DEF FlowInv, Accounting, FrameOrds, PacketOrds, FlowAtPc,
                    vars, clientVars, serverVars, wireVars
<1> QED
  BY <1>2, <1>3, <1>4, <1>5 DEF Next, Terminated

\* It holds when the handshake is over.
LEMMA FlowStart ==
    ASSUME Init
    PROVE  IInv
<1>1. Accounting /\ FlowAtPc /\ PassInv /\ WholeInv
  BY InflightAssumption, OrderedEmpty
     DEF Init, WireInit, ClientInit, ServerInit, Accounting, FlowAtPc, PassInv, WholeInv, PacketOrds
<1>2. FrameOrds /\ PacketOrds
  BY OrderedEmpty DEF Init, WireInit, FrameOrds, PacketOrds
<1> QED
  BY <1>1, <1>2, TypeInit DEF IInv, BaseInv, FlowInv

\* Hence every reachable state of every session satisfies it.
THEOREM FlowInvariant == Spec => []IInv
<1>1. Init => IInv
  BY FlowStart
<1>2. IInv /\ [Next]_vars => IInv'
  BY FlowStep
<1> QED
  BY <1>1, <1>2, PTL DEF Spec

\* Frames in flight and packets in the ring together never exceed
\* vt_remote_inflight, so enqueue_packet never meets a full ring and a call
\* that returns a queued packet always has room to send its frame.
THEOREM FlowControlled == Spec => []FlowControl
<1>1. IInv => FlowControl
  BY DEF IInv, FlowInv, FlowAtPc, FlowControl
<1> QED
  BY <1>1, FlowInvariant, PTL

\* inflight_frames is the number of FRAMEs sent minus the PACKETs received in
\* every state, whatever is lost, dropped, timed out or reset, until the client
\* has written a part of a message: the test that keeps it from going negative
\* never decides before that.
THEOREM InflightIsExact == Spec => []InflightExact
<1>1. IInv => InflightExact
  <2> SUFFICES ASSUME IInv, ~torn
               PROVE  packetsRecv <= Len(sent) /\ inflight = Len(sent) - packetsRecv
    BY DEF InflightExact
  <2>1. /\ packetsRecv \in Nat /\ packetsOut \in Nat /\ framesRead \in Nat
        /\ Len(sent) \in Nat /\ Len(held) \in Nat
    BY DEF IInv, BaseInv, TypeOK, ClientTypeOK, ServerTypeOK
  <2> QED
    BY <2>1 DEF IInv, FlowInv, Accounting
<1> QED
  BY <1>1, FlowInvariant, PTL

\* A call waits for the server only when it has no packet to return.
THEOREM WaitsEmptyHanded == Spec => []QueueEmptyWhenBlocked
<1>1. IInv => QueueEmptyWhenBlocked
  BY DEF IInv, BaseInv, PassInv, QueueEmptyWhenBlocked, Blocked
<1> QED
  BY <1>1, FlowInvariant, PTL

-------------------------------------------------------------------------------
(***************************************************************************)
(* What an encode session does for its application.                        *)
(* On the accounting of flow control (IInv, or its part BaseInv) rest, one *)
(* on the other:                                                           *)
(*   CallsInv     what a call is about, and which frames were transmitted  *)
(*   PacketInv    packets from the encoder's output to the application     *)
(*   OrderInv     where frames come from, and their order without B-frames *)
(*   CompleteInv  where a frame is until its packet is out; FLUSH and DONE *)
(* Each is inductive together with those above it.                         *)
(***************************************************************************)

(***************************************************************************)
(* The calls.                                                              *)
(***************************************************************************)

\* A call with a frame has the last one handed over, and is not draining; a
\* call without one is; libavcodec makes no call after the end of the stream,
\* and then only holds a frame outside of one.
CallInv ==
    /\ arg # NoFrame => ~draining /\ arg = nextFrame - 1
    /\ pc \in {"flush", "recv"} => arg = NoFrame
    /\ pc \in {"app", "closed"} /\ arg # NoFrame => drained
    /\ pc \notin {"app", "closed"} /\ arg = NoFrame => draining
    /\ drained => pc \in {"app", "closed"}

\* Frames are transmitted in the order in which they were handed over, at most
\* twice and then in a row; before the wait at the limit the call's frame can
\* have been transmitted once, and before the drain not at all.
SentInv ==
    /\ \A i \in DOMAIN sent : sent[i] < nextFrame
    /\ \A i, j \in DOMAIN sent : i < j => sent[i] <= sent[j]
    /\ \A i, j \in DOMAIN sent : i < j /\ sent[i] = sent[j] => j = i + 1
    /\ pc \in {"drain", "submit"} => \A i \in DOMAIN sent : sent[i] # arg
    /\ pc \in {"limit", "resend"} => \A i \in DOMAIN sent : sent[i] = arg => i = Len(sent)

\* Every in-flight slot is taken, by a frame on its way or a waiting packet.
Full == inflight + Len(pktQueue) = Inflight

\* There can be one FRAME more than frames handed over, and then every slot is
\* taken for good: a frame is transmitted for the second time only by a call
\* that took the last slot, and such a call leaves it taken.  A send that is
\* lost makes room for one frame more.
CountInv ==
    /\ pc = "limit" => inflight = Inflight
    /\ pc = "resend" => inflight = Inflight - 1
    /\ Len(sent) <= nextFrame
    /\ pc \in {"limit", "resend"} => Len(sent) < nextFrame
    /\ pc = "app" /\ ~draining => Len(sent) < nextFrame \/ Full
    /\ pc \in {"drain", "submit"} /\ arg # NoFrame =>
          Len(sent) + 1 < nextFrame \/ (Len(sent) < nextFrame /\ Full)

-------------------------------------------------------------------------------
(***************************************************************************)
(* The packets.                                                            *)
(***************************************************************************)

\* The packet numbered n is in s; all from lo + 1 to hi are; no packet in s has
\* a gap before it.
Arrives(s, n) == \E i \in DOMAIN s : s[i].type = "PACKET" /\ s[i].ord = n

Complete(s, lo, hi) == \A n \in lo + 1 .. hi : Arrives(s, n)

Gapless(s, lo) == \A i \in DOMAIN s : s[i].type = "PACKET" => Complete(s, lo, s[i].ord)

\* A packet in s is the one that the encoder emitted under its number.
Matches(s) == \A i \in DOMAIN s : s[i].type = "PACKET" => s[i] = emitted[s[i].ord]

\* The server's end of the connection closes when the handler does.
EndsInv ==
    /\ tx # "ok" => s2cEnd # "open"
    /\ s2cEnd # "open" => srv = "closed"
    /\ srv = "closed" => held = <<>>

\* What was received is what was emitted first, in that order.
Received ==
    /\ Len(delivered) + Len(pktQueue) = packetsRecv
    /\ \A k \in DOMAIN delivered : delivered[k] = emitted[k]
    /\ \A k \in DOMAIN pktQueue : pktQueue[k] = emitted[Len(delivered) + k]

\* What is on its way comes next, without a gap; only a reset or a client that
\* has closed cuts it short.
Stream ==
    /\ Len(emitted) = packetsOut
    /\ Matches(s2c)
    /\ Gapless(s2c, packetsRecv)
    /\ c2sEnd = "open" /\ s2cEnd # "rst" => Complete(s2c, packetsRecv, packetsOut)

-------------------------------------------------------------------------------
(***************************************************************************)
(* The frames, from the client to the encoder's output.                    *)
(***************************************************************************)

\* Every FRAME in s carries a frame that was sent.
FromSent(s) == \A i \in DOMAIN s : s[i].type = "FRAME" => s[i].frame \in ToSet(sent)

\* Only frames that were sent are in the encoder or come out of it, and a
\* packet has the timestamp of its frame for DTS: the tracker's clamp to the
\* PTS undoes every push.
OriginInv ==
    /\ FromSent(c2s)
    /\ \A i \in DOMAIN held : held[i] \in ToSet(sent)
    /\ \A k \in DOMAIN emitted : /\ emitted[k].frame \in ToSet(sent)
                                 /\ emitted[k].dts = Pts[emitted[k].frame]

\* The application hands its frames over in display order, and none has the
\* timestamp by which the tracker says that it has seen none.
DisplayOrder ==
    /\ \A f, g \in Frames : f <= g => Pts[f] <= Pts[g]
    /\ \A f \in Frames : Pts[f] # MinTicks

\* The frames that are out, in the encoder and on the wire form one line.
InLine(out, in, wire) ==
    /\ \A i, j \in DOMAIN in : i < j => in[i] <= in[j]
    /\ \A i, j \in DOMAIN wire : i < j /\ wire[i].type = "FRAME" /\ wire[j].type = "FRAME" =>
          wire[i].frame <= wire[j].frame
    /\ \A k \in DOMAIN out, i \in DOMAIN in : out[k].frame <= in[i]
    /\ \A k \in DOMAIN out, i \in DOMAIN wire : wire[i].type = "FRAME" => out[k].frame <= wire[i].frame
    /\ \A k \in DOMAIN in, i \in DOMAIN wire : wire[i].type = "FRAME" => in[k] <= wire[i].frame

LineInv == InLine(emitted, held, c2s)

\* The timestamps of the packets increase, and the tracker knows the last one.
Rising ==
    /\ emitted # <<>> => lastPts = Pts[emitted[Len(emitted)].frame]
    /\ \A i, j \in DOMAIN emitted : i < j => Pts[emitted[i].frame] < Pts[emitted[j].frame]

-------------------------------------------------------------------------------
(***************************************************************************)
(* FLUSH and DONE.                                                         *)
(***************************************************************************)

\* A packet for the timestamp of frame f was emitted; f is on the wire; f is in
\* the encoder.
Emitted(f) == \E k \in DOMAIN emitted : Pts[emitted[k].frame] = Pts[f]

OnTheWay(f) == \E i \in DOMAIN c2s : c2s[i].type = "FRAME" /\ c2s[i].frame = f

Kept(f) == \E i \in DOMAIN held : held[i] = f

\* While the server's end is open no frame that was sent is lost.
WhereInv ==
    /\ lastPts # MinTicks => \E k \in DOMAIN emitted : Pts[emitted[k].frame] = lastPts
    /\ s2cEnd = "open" => \A f \in ToSet(sent) : OnTheWay(f) \/ Kept(f) \/ Emitted(f)

\* A message of type t is in s; none of type t in s is followed by one of type u.
Comes(s, t) == \E i \in DOMAIN s : s[i].type = t

Closes(s, t, u) == \A i, j \in DOMAIN s : s[i].type = t /\ s[j].type = u => j < i

\* FLUSH comes after every FRAME, so the server completes when it has read all.
FlushInv ==
    /\ Closes(c2s, "FLUSH", "FRAME")
    /\ Comes(c2s, "FLUSH") => draining
    /\ srv \in {"completing", "done"} => draining /\ ~Comes(c2s, "FRAME")

\* DONE comes after every PACKET, and when there is nothing left to come.
DoneInv ==
    /\ srv = "done" => held = <<>>
    /\ done \/ Comes(s2c, "DONE") => /\ draining /\ srv \in {"done", "closed"}
                                     /\ \A f \in ToSet(sent) : Emitted(f)
    /\ Closes(s2c, "DONE", "PACKET")
    /\ Comes(s2c, "DONE") => Complete(s2c, packetsRecv, packetsOut)
    /\ done => packetsRecv = packetsOut

-------------------------------------------------------------------------------
(***************************************************************************)
(* A call is about one frame, or none.                                     *)
(***************************************************************************)

\* A return ends the call.
LEMMA ReturnCall ==
    ASSUME CallInv, NEW code, NEW pkts, Return(code, pkts)
    PROVE  CallInv'
BY DEF Return, CallInv

\* The other steps of a call keep what it is about.
LEMMA GotoCall ==
    ASSUME CallInv, HasFrame, pc \notin {"app", "closed"}, UNCHANGED <<arg, drained, nextFrame, draining>>,
           pc' \notin {"app", "closed"},
           pc' \in {"flush", "recv"} => arg = NoFrame
    PROVE  CallInv'
BY DEF CallInv, HasFrame

\* Nothing that a call is about changes.
LEMMA CallKept ==
    ASSUME CallInv, UNCHANGED <<pc, arg, drained, nextFrame, draining>>
    PROVE  CallInv'
BY DEF CallInv

\* Every step of a call keeps CallInv.
LEMMA CallStepKeeps ==
    ASSUME BaseInv, CallInv, CallStep \/ RecvTimeout
    PROVE  CallInv'
<1>1. CASE Drain
  <2>1. CASE DrainStop
    BY <2>1, GotoCall DEF DrainStop, Goto, BaseInv
  <2>2. CASE DrainPacket
    BY <2>2, CallKept DEF DrainPacket
  <2>3. CASE DrainDone
    BY <2>3, GotoCall DEF DrainDone, Goto, BaseInv
  <2>4. CASE DrainFails
    BY <2>4, ReturnCall DEF DrainFails
  <2> QED
    BY <1>1, <2>1, <2>2, <2>3, <2>4 DEF Drain
<1>2. CASE Submit
  <2>1. CASE PopAndSend
    BY <2>1, ReturnCall DEF PopAndSend
  <2>2. CASE SubmitFrame
    BY <2>2, ReturnCall, GotoCall DEF SubmitFrame, Goto, BaseInv
  <2>3. CASE SubmitFails
    BY <2>3, ReturnCall DEF SubmitFails
  <2>4. CASE LimitReached
    BY <2>4, GotoCall DEF LimitReached, Goto, BaseInv
  <2>5. CASE NothingToSend
    BY <2>5, GotoCall DEF NothingToSend, Goto, BaseInv
  <2> QED
    BY <1>2, <2>1, <2>2, <2>3, <2>4, <2>5 DEF Submit
<1>3. CASE Resend
  BY <1>3 DEF Resend, CallInv
<1>4. CASE SendFlush
  <2>1. CASE Goto("recv")
    <3>1. arg = NoFrame /\ pc \notin {"app", "closed"}
      BY <1>4 DEF SendFlush, CallInv
    <3> QED
      BY <2>1, <3>1, GotoCall DEF Goto, BaseInv
  <2>2. CASE Return(SendError, <<>>)
    BY <2>2, ReturnCall
  <2> QED
    BY <1>4, <2>1, <2>2 DEF SendFlush
<1>5. CASE RecvPacket
  <2>1. CASE pc = "limit"
    <3>1. pc' = "resend" /\ UNCHANGED <<arg, drained, nextFrame, draining>>
      BY <1>5, <2>1 DEF RecvPacket
    <3> QED
      BY <2>1, <3>1, GotoCall DEF BaseInv
  <2>2. CASE pc # "limit"
    <3>1. \E p : Return("OK", <<p>>)
      BY <1>5, <2>2 DEF RecvPacket
    <3> QED
      BY <3>1, ReturnCall
  <2> QED
    BY <2>1, <2>2
<1>6. CASE RecvDone \/ RecvFails \/ RecvTimeout
  BY <1>6, ReturnCall DEF RecvDone, RecvFails, RecvTimeout
<1>7. CASE AnswerPing
  BY <1>7, CallKept DEF AnswerPing, clientVars
<1> QED
  BY <1>1, <1>2, <1>3, <1>4, <1>5, <1>6, <1>7 DEF CallStep, Receive

\* So does every step of the application.
LEMMA CallApp ==
    ASSUME BaseInv, CallInv, AppStep
    PROVE  CallInv'
<1>1. nextFrame \in Nat \ {0}
  BY WireAssumption DEF BaseInv, TypeOK, ClientTypeOK
<1>2. drained \in BOOLEAN /\ draining \in BOOLEAN
  BY DEF BaseInv, TypeOK, ClientTypeOK
<1>3. CASE EncodeFrame
  <2>1. /\ arg' = nextFrame /\ nextFrame' = nextFrame + 1
        /\ ~draining /\ draining' = draining /\ drained' = drained
    BY <1>3 DEF EncodeFrame
  <2>2. (drained /\ pc' = "app") \/ (~drained /\ pc' = "drain")
    BY <1>2, <1>3 DEF EncodeFrame
  <2>3. arg' # NoFrame /\ arg' = nextFrame' - 1
    BY <1>1, <2>1 DEF NoFrame
  <2> QED
    BY <2>1, <2>2, <2>3 DEF CallInv
<1>4. CASE StartDraining
  <2>1. (drained /\ pc' = "app") \/ (~drained /\ pc' = "drain")
    BY <1>2, <1>4 DEF StartDraining
  <2>2. draining' /\ arg' = NoFrame /\ drained' = drained
    BY <1>4 DEF StartDraining
  <2> QED
    BY <2>1, <2>2 DEF CallInv
<1>5. CASE DrainAgain
  BY <1>2, <1>5 DEF DrainAgain, CallInv
<1>6. CASE Close
  BY <1>2, <1>6 DEF Close, CallInv
<1> QED
  BY <1>3, <1>4, <1>5, <1>6 DEF AppStep

\* CallInv is preserved by every step.
LEMMA CallStepInv ==
    ASSUME BaseInv, CallInv, [Next]_vars
    PROVE  CallInv'
<1>1. CASE ClientNext
  BY <1>1, CallApp, CallStepKeeps DEF ClientNext
<1>2. CASE UNCHANGED clientVars
  BY <1>2, CallKept DEF clientVars
<1> QED
  BY <1>1, <1>2 DEF Next, Terminated, vars
-------------------------------------------------------------------------------
\* The claims about sent alone.
LEMMA SentOrderAppend ==
    ASSUME NEW s \in Seq(Int), NEW a \in Int, NEW next \in Int, a < next,
           \A i \in DOMAIN s : s[i] < next /\ s[i] <= a /\ (s[i] = a => i = Len(s)),
           \A i, j \in DOMAIN s : i < j => s[i] <= s[j],
           \A i, j \in DOMAIN s : i < j /\ s[i] = s[j] => j = i + 1
    PROVE  /\ \A i \in DOMAIN Append(s, a) : Append(s, a)[i] < next
           /\ \A i, j \in DOMAIN Append(s, a) : i < j => Append(s, a)[i] <= Append(s, a)[j]
           /\ \A i, j \in DOMAIN Append(s, a) :
                 i < j /\ Append(s, a)[i] = Append(s, a)[j] => j = i + 1
<1>1. \A i \in DOMAIN Append(s, a) :
         \/ i \in DOMAIN s /\ Append(s, a)[i] = s[i]
         \/ i = Len(s) + 1 /\ Append(s, a)[i] = a
  OBVIOUS
<1>2. DOMAIN s = 1 .. Len(s) /\ Len(s) \in Nat
  OBVIOUS
<1>3. \A i \in DOMAIN Append(s, a) : Append(s, a)[i] < next
  BY <1>1
<1>4. \A i, j \in DOMAIN Append(s, a) : i < j => i \in DOMAIN s /\ Append(s, a)[i] = s[i]
  BY <1>1, <1>2
<1>5. ASSUME NEW i \in DOMAIN Append(s, a), NEW j \in DOMAIN Append(s, a), i < j
      PROVE  /\ Append(s, a)[i] <= Append(s, a)[j]
             /\ Append(s, a)[i] = Append(s, a)[j] => j = i + 1
  <2>1. i \in DOMAIN s /\ Append(s, a)[i] = s[i]
    BY <1>4, <1>5
  <2>2. CASE j \in DOMAIN s /\ Append(s, a)[j] = s[j]
    BY <1>5, <2>1, <2>2
  <2>3. CASE j = Len(s) + 1 /\ Append(s, a)[j] = a
    BY <2>1, <2>3
  <2> QED
    BY <1>1, <2>2, <2>3
<1> QED
  BY <1>3, <1>5

\* Frames are positive integers.
LEMMA FramesAreInts ==
    ASSUME TypeOK
    PROVE  /\ sent \in Seq(Int) /\ nextFrame \in Int
           /\ \A i \in DOMAIN sent : sent[i] \in Int /\ sent[i] > 0
           /\ arg \in Int /\ (arg # NoFrame => arg > 0)
<1>1. \A f \in Frames : f \in Int /\ f > 0
  BY WireAssumption DEF Frames
<1>2. sent \in Seq(Frames) /\ nextFrame \in 1 .. NumFrames + 1 /\ arg \in Frames \cup {NoFrame}
  BY DEF TypeOK, ClientTypeOK
<1>3. sent \in Seq(Int)
  BY <1>1, <1>2
<1>4. \A i \in DOMAIN sent : sent[i] \in Frames
  BY <1>2
<1> QED
  BY <1>1, <1>2, <1>3, <1>4, WireAssumption DEF NoFrame

\* The frame of a call is transmitted.
LEMMA FrameSentOnce ==
    ASSUME TypeOK, CallInv, SentInv, arg # NoFrame, SendFrame, UNCHANGED nextFrame,
           \A i \in DOMAIN sent : sent[i] = arg => i = Len(sent),
           pc' = "app" \/ (pc = "submit" /\ pc' = "limit" /\ arg' = arg)
    PROVE  SentInv'
<1>1. sent \in Seq(Int) /\ arg \in Int /\ nextFrame \in Int /\ arg = nextFrame - 1
  BY FramesAreInts DEF CallInv
<1>2. sent' = Append(sent, arg) /\ nextFrame' = nextFrame
  BY DEF SendFrame
<1>3. \A i \in DOMAIN sent : sent[i] \in Int /\ sent[i] < nextFrame
  BY <1>1 DEF SentInv
<1>4. \A i \in DOMAIN sent : sent[i] < nextFrame /\ sent[i] <= arg /\ (sent[i] = arg => i = Len(sent))
  BY <1>1, <1>3
<1>5. /\ \A i, j \in DOMAIN sent : i < j => sent[i] <= sent[j]
      /\ \A i, j \in DOMAIN sent : i < j /\ sent[i] = sent[j] => j = i + 1
  BY DEF SentInv
<1>6. /\ \A i \in DOMAIN sent' : sent'[i] < nextFrame'
      /\ \A i, j \in DOMAIN sent' : i < j => sent'[i] <= sent'[j]
      /\ \A i, j \in DOMAIN sent' : i < j /\ sent'[i] = sent'[j] => j = i + 1
  <2>1. arg < nextFrame
    BY <1>1
  <2>2. sent \in Seq(Int) /\ arg \in Int /\ nextFrame \in Int
    BY <1>1
  <2> QED
    BY ONLY <1>2, <1>4, <1>5, <2>1, <2>2, SentOrderAppend
<1>7. ASSUME pc' = "limit", NEW i \in DOMAIN sent', sent'[i] = arg'
      PROVE  i = Len(sent')
  <2>1. \A k \in DOMAIN sent : sent[k] # arg
    BY <1>7 DEF SentInv
  <2> QED
    BY <1>1, <1>2, <1>7, <2>1
<1> QED
  BY <1>6, <1>7 DEF SentInv

\* Nothing is transmitted.
LEMMA NothingSent ==
    ASSUME SentInv, UNCHANGED <<sent, nextFrame>>,
           \/ pc' \in {"app", "closed", "flush", "recv"}
           \/ UNCHANGED <<arg, pc>>
           \/ arg' = arg /\ <<pc, pc'>> \in {<<"drain", "submit">>, <<"submit", "limit">>,
                                             <<"limit", "resend">>}
    PROVE  SentInv'
BY DEF SentInv

\* A step of a call transmits its frame, or none.
LEMMA SentCall ==
    ASSUME BaseInv, CallInv, SentInv, CallStep \/ RecvTimeout
    PROVE  SentInv'
<1>0. TypeOK
  BY DEF BaseInv
<1>1. CASE Drain
  BY <1>1, NothingSent DEF Drain, DrainStop, DrainPacket, DrainDone, DrainFails, Goto, Return
<1>2. CASE PopAndSend
  <2>1. UNCHANGED nextFrame /\ pc' = "app" /\ pc = "submit"
    BY <1>2 DEF PopAndSend, Return
  <2>2. CASE MaySend /\ SendFrame
    BY <1>0, <2>1, <2>2, FrameSentOnce DEF SentInv, MaySend
  <2>3. CASE UNCHANGED sent
    BY <2>1, <2>3, NothingSent
  <2> QED
    BY <1>2, <2>2, <2>3 DEF PopAndSend, NoSend, SendFrameFails
<1>3. CASE SubmitFrame
  <2>1. /\ UNCHANGED nextFrame /\ pc = "submit" /\ SendFrame /\ arg # NoFrame
        /\ pc' = "app" \/ (pc' = "limit" /\ arg' = arg)
    BY <1>3 DEF SubmitFrame, Return, Goto, MaySend
  <2> QED
    BY <1>0, <2>1, FrameSentOnce DEF SentInv
<1>4. CASE SubmitFails
  BY <1>4, NothingSent DEF SubmitFails, Return, SendFrameFails
<1>5. CASE LimitReached \/ NothingToSend
  BY <1>5, NothingSent DEF LimitReached, NothingToSend, Goto
<1>6. CASE Resend
  <2>1. UNCHANGED nextFrame /\ pc' = "app" /\ pc = "resend" /\ arg # NoFrame
    BY <1>6 DEF Resend, BaseInv, HasFrame
  <2>2. CASE SendFrame
    BY <1>0, <2>1, <2>2, FrameSentOnce DEF SentInv
  <2>3. CASE SendFrameFails
    BY <2>1, <2>3, NothingSent DEF SendFrameFails
  <2> QED
    BY <1>6, <2>2, <2>3 DEF Resend
<1>7. CASE SendFlush
  BY <1>7, NothingSent DEF SendFlush, Return, Goto
<1>8. CASE Receive \/ RecvTimeout
  BY <1>8, NothingSent DEF Receive, RecvPacket, RecvDone, RecvFails, RecvTimeout, Return
<1>9. CASE AnswerPing
  BY <1>9, NothingSent DEF AnswerPing, clientVars
<1> QED
  BY <1>1, <1>2, <1>3, <1>4, <1>5, <1>6, <1>7, <1>8, <1>9 DEF CallStep, Submit

\* The application's steps transmit nothing; a new frame is a new one.
LEMMA SentApp ==
    ASSUME BaseInv, CallInv, SentInv, AppStep
    PROVE  SentInv'
<1>0. /\ sent \in Seq(Int) /\ nextFrame \in Int
      /\ \A i \in DOMAIN sent : sent[i] \in Int /\ sent[i] > 0
  BY FramesAreInts DEF BaseInv
<1>1. CASE EncodeFrame
  <2>1. sent' = sent /\ arg' = nextFrame /\ nextFrame' = nextFrame + 1 /\ pc' \in {"app", "drain"}
    BY <1>1 DEF EncodeFrame
  <2>2. \A i \in DOMAIN sent : sent[i] < nextFrame' /\ sent[i] # arg'
    BY <1>0, <2>1 DEF SentInv
  <2> QED
    BY <2>1, <2>2 DEF SentInv
<1>2. CASE StartDraining \/ DrainAgain
  <2>1. UNCHANGED <<sent, arg, nextFrame>> /\ pc' \in {"app", "drain"} /\ arg = NoFrame
    BY <1>2 DEF StartDraining, DrainAgain, CallInv
  <2>2. \A i \in DOMAIN sent : sent[i] # arg
    BY <1>0, <2>1 DEF NoFrame
  <2> QED
    BY <2>1, <2>2 DEF SentInv
<1>3. CASE Close
  BY <1>3, NothingSent DEF Close
<1> QED
  BY <1>1, <1>2, <1>3 DEF AppStep

\* SentInv is preserved by every step.
LEMMA SentStepInv ==
    ASSUME BaseInv, CallInv, SentInv, [Next]_vars
    PROVE  SentInv'
<1>1. CASE ClientNext
  BY <1>1, SentApp, SentCall DEF ClientNext
<1>2. CASE UNCHANGED clientVars
  BY <1>2, NothingSent DEF clientVars
<1> QED
  BY <1>1, <1>2 DEF Next, Terminated, vars
-------------------------------------------------------------------------------
\* The numbers the count is about.
LEMMA CountNumbers ==
    ASSUME BaseInv, FlowInv
    PROVE  /\ inflight \in Nat /\ Inflight \in Nat /\ Len(pktQueue) \in Nat
           /\ Len(sent) \in Nat /\ nextFrame \in Nat
           /\ inflight + Len(pktQueue) <= Inflight
BY InflightAssumption, WireAssumption DEF BaseInv, TypeOK, ClientTypeOK, FlowInv, FlowAtPc

\* A call ends without sending.
LEMMA CountReturned ==
    ASSUME BaseInv, FlowInv, CallInv, CountInv, UNCHANGED <<sent, nextFrame, draining>>,
           pc \notin {"app", "closed"}, pc' = "app"
    PROVE  CountInv'
<1>1. CASE draining
  BY <1>1 DEF CountInv
<1>2. CASE ~draining
  <2>1. arg # NoFrame /\ pc \in {"drain", "submit", "limit", "resend"}
    BY <1>2 DEF CallInv, BaseInv, TypeOK, ClientTypeOK
  <2>2. Len(sent) < nextFrame
    BY <2>1, CountNumbers DEF CountInv
  <2> QED
    BY <1>2, <2>2 DEF CountInv
<1> QED
  BY <1>1, <1>2

\* A call goes on, with the same sum of frames in flight and packets queued.
LEMMA CountKept ==
    ASSUME CountInv, UNCHANGED <<sent, nextFrame, draining, arg>>, Full' <=> Full,
           pc' \in {"flush", "recv"} \/ (pc \in {"drain", "submit"} /\ pc' \in {"drain", "submit"})
    PROVE  CountInv'
BY DEF CountInv

\* A FRAME takes a slot, whether or not it reaches the server.
LEMMA FrameCounts ==
    ASSUME BaseInv, FlowInv, SendFrame
    PROVE  inflight' = inflight + 1 /\ Len(sent') = Len(sent) + 1
BY DEF SendFrame, BaseInv, TypeOK, ClientTypeOK

\* Every step of a call keeps CountInv: the case by case count of slots.
LEMMA CountCall ==
    ASSUME BaseInv, FlowInv, CallInv, CountInv, CallStep \/ RecvTimeout, UNCHANGED serverVars
    PROVE  CountInv'
<1>1. CASE Drain
  <2>1. CASE DrainStop \/ DrainDone
    BY <2>1, CountKept DEF DrainStop, DrainDone, Goto, Full
  <2>2. CASE DrainPacket
    <3>1. inflight' = inflight - 1
      BY <2>2, PacketFlow DEF DrainPacket, BaseInv
    <3>2. Len(pktQueue') = Len(pktQueue) + 1
      BY <2>2 DEF DrainPacket, Enqueued, BaseInv, TypeOK, ClientTypeOK
    <3>3. Full' <=> Full
      BY <3>1, <3>2, CountNumbers DEF Full
    <3> QED
      BY <2>2, <3>3, CountKept DEF DrainPacket
  <2>3. CASE DrainFails
    BY <2>3, CountReturned DEF DrainFails, Return
  <2> QED
    BY <1>1, <2>1, <2>2, <2>3 DEF Drain
<1>2. CASE PopAndSend
  <2>1. pc = "submit" /\ pc' = "app" /\ UNCHANGED <<nextFrame, draining>>
    BY <1>2 DEF PopAndSend, Return
  <2>2. CASE MaySend /\ SendFrame
    <3>1. Len(pktQueue') = Len(pktQueue) - 1
      BY <1>2, HeadAndTail DEF PopAndSend, BaseInv, TypeOK, ClientTypeOK
    <3>2. Full' <=> Full
      BY <2>2, <3>1, CountNumbers, FrameCounts DEF Full
    <3>3. Len(sent) + 1 < nextFrame \/ (Len(sent) < nextFrame /\ Full)
      BY <2>1, <2>2 DEF CountInv, MaySend
    <3> QED
      BY <2>1, <2>2, <3>2, <3>3, CountNumbers, FrameCounts DEF CountInv
  <2>3. CASE UNCHANGED sent
    BY <2>1, <2>3, CountReturned
  <2> QED
    BY <1>2, <2>2, <2>3 DEF PopAndSend, NoSend, SendFrameFails
<1>3. CASE SubmitFrame
  <2>1. /\ pc = "submit" /\ pktQueue = <<>> /\ arg # NoFrame /\ inflight < Inflight
        /\ UNCHANGED <<nextFrame, draining, pktQueue>>
        /\ pc' = "app" \/ (pc' = "limit" /\ inflight' >= Inflight)
        /\ SendFrame
    BY <1>3 DEF SubmitFrame, Return, Goto, MaySend, AtLimit
  <2>2. ~Full
    BY <2>1, CountNumbers DEF Full
  <2>3. Len(sent) + 1 < nextFrame
    BY <2>1, <2>2 DEF CountInv
  <2>4. Len(sent') < nextFrame'
    BY <2>1, <2>3, FrameCounts
  <2>5. pc' = "limit" => inflight' = Inflight
    BY <2>1, FrameCounts, CountNumbers
  <2>6. Len(sent') <= nextFrame'
    BY <2>1, <2>3, FrameCounts, CountNumbers
  <2> QED
    BY <2>1, <2>4, <2>5, <2>6 DEF CountInv
<1>4. CASE SubmitFails
  BY <1>4, CountReturned DEF SubmitFails, Return, SendFrameFails
<1>5. CASE LimitReached
  <2>1. /\ pc = "submit" /\ pktQueue = <<>> /\ arg # NoFrame /\ inflight >= Inflight
        /\ pc' = "limit" /\ UNCHANGED <<nextFrame, draining, sent, inflight>>
    BY <1>5 DEF LimitReached, Goto, AtLimit
  <2>2. inflight = Inflight /\ Len(sent) < nextFrame
    BY <2>1, CountNumbers DEF CountInv
  <2> QED
    BY <2>1, <2>2 DEF CountInv
<1>6. CASE NothingToSend
  BY <1>6, CountKept DEF NothingToSend, Goto, Full
<1>7. CASE Resend
  <2>1. pc = "resend" /\ pc' = "app" /\ UNCHANGED <<nextFrame, draining, pktQueue>> /\ pktQueue = <<>>
    BY <1>7 DEF Resend, BaseInv, FlowInv, FlowAtPc
  <2>2. CASE SendFrame
    <3>1. Len(pktQueue') = 0 /\ inflight' = Inflight
      BY <2>1, <2>2, FrameCounts, CountNumbers DEF CountInv
    <3>2. Full'
      BY <3>1, CountNumbers DEF Full
    <3>3. Len(sent') <= nextFrame'
      BY <2>1, <2>2, FrameCounts, CountNumbers DEF CountInv
    <3> QED
      BY <2>1, <3>2, <3>3 DEF CountInv
  <2>3. CASE SendFrameFails
    BY <2>1, <2>3, CountReturned DEF SendFrameFails
  <2> QED
    BY <1>7, <2>2, <2>3 DEF Resend
<1>8. CASE SendFlush
  <2>1. CASE Goto("recv")
    BY <1>8, <2>1, CountKept DEF SendFlush, Goto, Full
  <2>2. CASE Return(SendError, <<>>)
    BY <1>8, <2>2, CountReturned DEF SendFlush, Return
  <2> QED
    BY <1>8, <2>1, <2>2 DEF SendFlush
<1>9. CASE RecvPacket
  <2>1. inflight' = inflight - 1 /\ UNCHANGED <<sent, nextFrame, draining>>
    BY <1>9, PacketFlow DEF RecvPacket, BaseInv, Return
  <2>2. CASE pc = "limit"
    <3>1. pc' = "resend"
      BY <1>9, <2>2 DEF RecvPacket
    <3> QED
      BY <2>1, <2>2, <3>1 DEF CountInv
  <2>3. CASE pc # "limit"
    BY <1>9, <2>1, <2>3, CountReturned DEF RecvPacket, Return, Blocked
  <2> QED
    BY <2>2, <2>3
<1>10. CASE RecvDone \/ RecvFails \/ RecvTimeout
  BY <1>10, CountReturned DEF RecvDone, RecvFails, RecvTimeout, Return, Blocked
<1>11. CASE AnswerPing
  BY <1>11 DEF AnswerPing, clientVars, CountInv, Full
<1> QED
  BY <1>1, <1>2, <1>3, <1>4, <1>5, <1>6, <1>7, <1>8, <1>9, <1>10, <1>11
     DEF CallStep, Submit, Receive

\* A frame handed over makes room for one FRAME more.
LEMMA CountApp ==
    ASSUME BaseInv, FlowInv, CallInv, CountInv, AppStep
    PROVE  CountInv'
<1>1. CASE EncodeFrame
  <2>1. /\ pc = "app" /\ ~draining /\ pc' \in {"app", "drain"} /\ nextFrame' = nextFrame + 1
        /\ UNCHANGED <<sent, inflight, pktQueue, draining>>
    BY <1>1 DEF EncodeFrame
  <2>2. Len(sent) < nextFrame \/ Full
    BY <2>1 DEF CountInv
  <2>3. Len(sent) <= nextFrame
    BY DEF CountInv
  <2>4. (Full' <=> Full) /\ Len(sent') = Len(sent)
    BY <2>1 DEF Full
  <2>5. Len(sent') + 1 < nextFrame' \/ (Len(sent') < nextFrame' /\ Full')
    BY <2>1, <2>2, <2>3, <2>4, CountNumbers
  <2>6. Len(sent') <= nextFrame'
    BY <2>1, <2>3, <2>4, CountNumbers
  <2> QED
    BY <2>1, <2>5, <2>6 DEF CountInv
<1>2. CASE StartDraining \/ DrainAgain
  BY <1>2 DEF StartDraining, DrainAgain, CountInv, CallInv
<1>3. CASE Close
  BY <1>3 DEF Close, CountInv
<1> QED
  BY <1>1, <1>2, <1>3 DEF AppStep

\* CountInv is preserved by every step.
LEMMA CountStepInv ==
    ASSUME BaseInv, FlowInv, CallInv, CountInv, [Next]_vars
    PROVE  CountInv'
<1>1. CASE ClientNext /\ UNCHANGED serverVars
  BY <1>1, CountApp, CountCall DEF ClientNext
<1>2. CASE UNCHANGED clientVars
  BY <1>2 DEF clientVars, CountInv, Full
<1> QED
  BY <1>1, <1>2 DEF Next, Terminated, vars

\* The calls of a session.
CallsInv == IInv /\ CallInv /\ SentInv /\ (~torn => CountInv)

\* It is inductive.
LEMMA CallsStep ==
    ASSUME CallsInv, [Next]_vars
    PROVE  CallsInv'
<1>1. IInv' /\ CallInv' /\ SentInv'
  BY FlowStep, CallStepInv, SentStepInv DEF CallsInv, IInv
<1>2. ASSUME ~torn' PROVE CountInv'
  BY <1>2, TornStays, CountStepInv DEF CallsInv, IInv
<1> QED
  BY <1>1, <1>2 DEF CallsInv

\* What is appended to a sequence is in it, and so is what was in it.
LEMMA AppendedIsThere ==
    ASSUME NEW S, NEW s \in Seq(S), NEW e \in S
    PROVE  e \in ToSet(Append(s, e)) /\ ToSet(s) \subseteq ToSet(Append(s, e))
<1>1. /\ Len(s) + 1 \in DOMAIN Append(s, e) /\ Append(s, e)[Len(s) + 1] = e
      /\ \A i \in DOMAIN s : i \in DOMAIN Append(s, e) /\ Append(s, e)[i] = s[i]
  OBVIOUS
<1> QED
  BY <1>1 DEF ToSet

\* The start.
LEMMA CallsStart ==
    ASSUME Init
    PROVE  CallsInv
<1>1. CallInv /\ SentInv
  BY DEF Init, ClientInit, CallInv, SentInv
<1>2. CountInv
  BY DEF Init, ClientInit, CountInv
<1> QED
  BY <1>1, <1>2, FlowStart DEF CallsInv

\* In every reachable state, whatever fails, calls, transmitted frames and slots
\* are as CallsInv says.
THEOREM CallsInvariant == Spec => []CallsInv
<1>1. Init => CallsInv
  BY CallsStart
<1>2. CallsInv /\ [Next]_vars => CallsInv'
  BY CallsStep
<1> QED
  BY <1>1, <1>2, PTL DEF Spec

\* However often ff_vtremote_encode sends the frame of a call before and after
\* its wait, no frame goes out a third time, and over a whole session at most
\* one FRAME more than the application handed over; the latter as long as no
\* message was written in part only.
THEOREM OneExtraFrame == Spec => []OneFrameResent
<1>1. CallsInv => OneFrameResent
  BY DEF CallsInv, SentInv, CountInv, OneFrameResent
<1> QED
  BY <1>1, CallsInvariant, PTL

\* ff_vtremote_encode returns 0 for a frame only after it transmitted the frame,
\* or when the socket would not take it, or not all of it.
THEOREM SuccessHasSent == Spec => SuccessMeansSent
<1>1. ASSUME CallsInv, Next, Returns, arg # NoFrame, ret' = "OK", ~torn'
      PROVE  arg \in ToSet(sent') \/ SendCanFail
  <2> USE DEF CallsInv
  <2>0. BaseInv /\ FlowInv /\ TypeOK
    BY <1>1, TornStays DEF IInv, BaseInv
  <2>1. SendFrame => arg \in ToSet(sent')
    <3>1. SendFrame => sent' = Append(sent, arg) /\ sent \in Seq(Frames) /\ arg \in Frames
      BY <1>1, <2>0 DEF SendFrame, TypeOK, ClientTypeOK
    <3> QED
      BY <3>1, AppendedIsThere
  <2>2. SendFrameFails => SendCanFail
    BY <1>1, NotTorn DEF SendFrameFails
  <2>3. pc \notin {"app", "closed", "flush", "recv"} /\ pc' = "app"
    BY <1>1 DEF Returns, CallInv
  <2>4. CASE PopAndSend
    <3>1. MaySend
      <4>1. Len(pktQueue) > 0
        BY <2>0, <2>4, HeadAndTail DEF PopAndSend, TypeOK, ClientTypeOK
      <4> QED
        BY <1>1, <2>0, <4>1, CountNumbers DEF MaySend
    <3> QED
      BY <2>1, <2>2, <2>4, <3>1 DEF PopAndSend
  <2>5. CASE SubmitFrame \/ Resend
    BY <2>1, <2>2, <2>5 DEF SubmitFrame, Resend
  <2>6. CASE Drain \/ SubmitFails
    BY <1>1, <2>3, <2>6 DEF Drain, DrainStop, DrainPacket, DrainDone, DrainFails, SubmitFails,
                            Goto, Return, SendError
  <2>7. CASE LimitReached \/ NothingToSend \/ SendFlush
    BY <2>3, <2>7 DEF LimitReached, NothingToSend, SendFlush, Goto
  <2>8. CASE RecvPacket
    BY <2>3, <2>8 DEF RecvPacket, Blocked
  <2>9. CASE RecvDone \/ RecvFails \/ RecvTimeout
    BY <1>1, <2>9 DEF RecvDone, RecvFails, RecvTimeout, Return
  <2>10. CASE AppStep \/ AnswerPing \/ UNCHANGED clientVars
    BY <2>3, <2>10 DEF AppStep, EncodeFrame, StartDraining, DrainAgain, Close, AnswerPing, clientVars
  <2> QED
    BY <1>1, <2>4, <2>5, <2>6, <2>7, <2>8, <2>9, <2>10
       DEF Next, Terminated, vars, ClientNext, CallStep, Submit, Receive
<1>2. ASSUME CallsInv, [Next]_vars, Returns
      PROVE  Next
  BY <1>2 DEF Returns, vars, clientVars
<1> QED
  BY <1>1, <1>2, CallsInvariant, PTL DEF Spec, SuccessMeansSent
-------------------------------------------------------------------------------
(***************************************************************************)
(* Streams of packets.                                                     *)
(***************************************************************************)

\* Appending keeps what arrives, and the places of what was there.
LEMMA AppendPlaces ==
    ASSUME NEW S, NEW s \in Seq(S), NEW m \in S
    PROVE  /\ \A i \in DOMAIN s : i \in DOMAIN Append(s, m) /\ Append(s, m)[i] = s[i]
           /\ Len(s) + 1 \in DOMAIN Append(s, m) /\ Append(s, m)[Len(s) + 1] = m
           /\ \A i \in DOMAIN Append(s, m) : i \in DOMAIN s \/ i = Len(s) + 1
OBVIOUS

\* What arrives still does when a message is added.
LEMMA AppendArrives ==
    ASSUME NEW S, NEW s \in Seq(S), NEW m \in S, NEW n, Arrives(s, n)
    PROVE  Arrives(Append(s, m), n)
BY AppendPlaces DEF Arrives

\* A message that is not a PACKET changes no claim about packets.
LEMMA GaplessAppendOther ==
    ASSUME NEW S, NEW s \in Seq(S), NEW m \in S, m.type # "PACKET", NEW lo, NEW hi
    PROVE  /\ Gapless(s, lo) => Gapless(Append(s, m), lo)
           /\ Complete(s, lo, hi) => Complete(Append(s, m), lo, hi)
           /\ Matches(s) => Matches(Append(s, m))
<1>1. \A n : Arrives(s, n) => Arrives(Append(s, m), n)
  BY AppendArrives
<1>2. \A i \in DOMAIN Append(s, m) : Append(s, m)[i].type = "PACKET" =>
         i \in DOMAIN s /\ Append(s, m)[i] = s[i]
  BY AppendPlaces
<1> QED
  BY <1>1, <1>2 DEF Gapless, Complete, Matches

\* The next packet leaves no gap.
LEMMA GaplessAppendNext ==
    ASSUME NEW S, NEW s \in Seq(S), NEW m \in S, NEW lo \in Int, NEW hi \in Int,
           m.type = "PACKET", m.ord = hi + 1, Gapless(s, lo), Complete(s, lo, hi)
    PROVE  Gapless(Append(s, m), lo) /\ Complete(Append(s, m), lo, hi + 1)
<1>1. \A n : Arrives(s, n) => Arrives(Append(s, m), n)
  BY AppendArrives
<1>2. Arrives(Append(s, m), hi + 1)
  BY AppendPlaces DEF Arrives
<1>3. \A n \in lo + 1 .. hi + 1 : n \in lo + 1 .. hi \/ n = hi + 1
  OBVIOUS
<1>4. Complete(Append(s, m), lo, hi + 1)
  BY <1>1, <1>2, <1>3 DEF Complete
<1>5. ASSUME NEW i \in DOMAIN Append(s, m), Append(s, m)[i].type = "PACKET"
      PROVE  Complete(Append(s, m), lo, Append(s, m)[i].ord)
  <2>1. CASE i \in DOMAIN s /\ Append(s, m)[i] = s[i]
    BY <1>1, <1>5, <2>1 DEF Gapless, Complete
  <2>2. CASE Append(s, m)[i] = m
    BY <1>4, <2>2
  <2> QED
    BY <2>1, <2>2, AppendPlaces
<1> QED
  BY <1>4, <1>5 DEF Gapless

\* Reading a message takes away the number of the one that is read, if it has one.
LEMMA TailArrives ==
    ASSUME NEW S, NEW s \in Seq(S), s # <<>>, NEW n, Arrives(s, n),
           Head(s).type = "PACKET" => Head(s).ord # n
    PROVE  Arrives(Tail(s), n)
<1>1. PICK i \in DOMAIN s : s[i].type = "PACKET" /\ s[i].ord = n
  BY DEF Arrives
<1>2. i # 1
  BY <1>1, HeadAndTail
<1>3. i - 1 \in DOMAIN Tail(s) /\ Tail(s)[i - 1] = s[i]
  BY <1>2
<1> QED
  BY <1>1, <1>3 DEF Arrives

\* Nor does reading a message that is not a PACKET.
LEMMA GaplessTailOther ==
    ASSUME NEW S, NEW s \in Seq(S), s # <<>>, Head(s).type # "PACKET", NEW lo, NEW hi
    PROVE  /\ Gapless(s, lo) => Gapless(Tail(s), lo)
           /\ Complete(s, lo, hi) => Complete(Tail(s), lo, hi)
           /\ Matches(s) => Matches(Tail(s))
<1>1. \A n : Arrives(s, n) => Arrives(Tail(s), n)
  BY TailArrives
<1>2. \A i \in DOMAIN Tail(s) : i + 1 \in DOMAIN s /\ Tail(s)[i] = s[i + 1]
  BY HeadAndTail
<1> QED
  BY <1>1, <1>2 DEF Gapless, Complete, Matches

\* The first packet of a stream is the next one.
LEMMA HeadIsNext ==
    ASSUME NEW S, NEW s \in Seq(S), s # <<>>, Head(s).type = "PACKET",
           \A x \in S : x.type = "PACKET" => x.ord \in Int,
           NEW lo \in Int, NEW hi \in Int, Ordered(s, "PACKET", lo, hi), Gapless(s, lo)
    PROVE  Head(s).ord = lo + 1
<1>1. 1 \in DOMAIN s /\ s[1] = Head(s) /\ Head(s) \in S
  BY HeadAndTail
<1>2. s[1].ord \in Int /\ lo < s[1].ord
  BY <1>1 DEF Ordered
<1>3. Arrives(s, lo + 1)
  <2>1. Complete(s, lo, s[1].ord)
    BY <1>1 DEF Gapless
  <2>2. lo + 1 \in lo + 1 .. s[1].ord
    BY <1>2
  <2> QED
    BY <2>1, <2>2 DEF Complete
<1>4. PICK j \in DOMAIN s : s[j].type = "PACKET" /\ s[j].ord = lo + 1
  BY <1>3 DEF Arrives
<1>5. CASE j = 1
  BY <1>1, <1>4, <1>5
<1>6. CASE j # 1
  <2>1. 1 < j
    BY <1>6
  <2>2. s[1].ord < s[j].ord
    BY <1>1, <1>4, <2>1 DEF Ordered
  <2> QED
    BY <1>2, <1>4, <2>2
<1> QED
  BY <1>5, <1>6

\* Reading the next packet leaves the ones after it, without a gap.
LEMMA GaplessTailNext ==
    ASSUME NEW S, NEW s \in Seq(S), s # <<>>, Head(s).type = "PACKET",
           NEW lo \in Int, NEW hi \in Int, Head(s).ord = lo + 1
    PROVE  /\ Gapless(s, lo) => Gapless(Tail(s), lo + 1)
           /\ Complete(s, lo, hi) => Complete(Tail(s), lo + 1, hi)
           /\ Matches(s) => Matches(Tail(s))
<1>1. \A n \in Int : Arrives(s, n) /\ n # lo + 1 => Arrives(Tail(s), n)
  BY TailArrives
<1>2. \A i \in DOMAIN Tail(s) : i + 1 \in DOMAIN s /\ Tail(s)[i] = s[i + 1]
  BY HeadAndTail
<1>3. \A h : \A n \in lo + 1 + 1 .. h : n \in lo + 1 .. h /\ n # lo + 1 /\ n \in Int
  OBVIOUS
<1>4. \A h : Complete(s, lo, h) => Complete(Tail(s), lo + 1, h)
  BY <1>1, <1>3 DEF Complete
<1> QED
  BY <1>2, <1>4 DEF Gapless, Matches

\* A reset that takes a suffix leaves no gap before what is left.
LEMMA GaplessPrefix ==
    ASSUME NEW S, NEW s \in Seq(S), NEW n \in 0 .. Len(s),
           \A x \in S : x.type = "PACKET" => x.ord \in Int,
           NEW lo \in Int, NEW hi \in Int, Ordered(s, "PACKET", lo, hi), Gapless(s, lo), Matches(s)
    PROVE  Gapless(SubSeq(s, 1, n), lo) /\ Matches(SubSeq(s, 1, n))
<1>1. /\ DOMAIN SubSeq(s, 1, n) = 1 .. n /\ DOMAIN s = 1 .. Len(s)
      /\ \A i \in DOMAIN SubSeq(s, 1, n) : i \in DOMAIN s /\ SubSeq(s, 1, n)[i] = s[i]
  OBVIOUS
<1>2. ASSUME NEW i \in DOMAIN SubSeq(s, 1, n), SubSeq(s, 1, n)[i].type = "PACKET",
             NEW k \in lo + 1 .. SubSeq(s, 1, n)[i].ord
      PROVE  Arrives(SubSeq(s, 1, n), k)
  <2>1. i \in DOMAIN s /\ s[i] = SubSeq(s, 1, n)[i] /\ s[i].type = "PACKET"
    BY <1>1, <1>2
  <2>2. Arrives(s, k)
    BY <1>2, <2>1 DEF Gapless, Complete
  <2>3. PICK j \in DOMAIN s : s[j].type = "PACKET" /\ s[j].ord = k
    BY <2>2 DEF Arrives
  <2>4. s[i].ord \in Int /\ k \in Int /\ k <= s[i].ord
    BY <1>2, <2>1
  <2>5. ~(i < j)
    <3>1. i < j => s[i].ord < s[j].ord
      BY <2>1, <2>3 DEF Ordered
    <3> QED
      BY <2>3, <2>4, <3>1
  <2>6. j \in DOMAIN SubSeq(s, 1, n)
    BY <1>1, <2>5
  <2> QED
    BY <1>1, <2>3, <2>6 DEF Arrives
<1> QED
  BY <1>1, <1>2 DEF Gapless, Complete, Matches
-------------------------------------------------------------------------------
(***************************************************************************)
(* The two ends.                                                           *)
(***************************************************************************)
\* EndsInv is preserved by every step.
LEMMA EndsStep ==
    ASSUME BaseInv, EndsInv, [Next]_vars
    PROVE  EndsInv'
<1>1. CASE ClientNext /\ UNCHANGED serverVars
  <2>1. UNCHANGED s2cEnd
    BY <1>1 DEF ClientNext, AppStep, EncodeFrame, StartDraining, DrainAgain, Close, ClientCloses,
                CallStep, Drain, DrainStop, DrainPacket, DrainDone, DrainFails, Submit, PopAndSend,
                SubmitFrame, SubmitFails, LimitReached, NothingToSend, Resend, SendFlush, Receive,
                RecvPacket, RecvDone, RecvFails, RecvTimeout, AnswerPing, wireVars
  <2>2. UNCHANGED tx \/ s2cEnd # "open"
    BY <1>1 DEF ClientNext, AppStep, EncodeFrame, StartDraining, DrainAgain, Close, ClientCloses,
                CallStep, Drain, DrainStop, DrainPacket, DrainDone, DrainFails, Submit, PopAndSend,
                SubmitFrame, SubmitFails, LimitReached, NothingToSend, Resend, SendFlush, Receive,
                RecvPacket, RecvDone, RecvFails, RecvTimeout, AnswerPing, wireVars,
                SendFrame, SendFrameFails, NoSend, ClientSend, ClientSendFails,
                NothingWritten, PartWritten
  <2> QED
    BY <1>1, <2>1, <2>2 DEF EndsInv, serverVars
<1>2. CASE LoopStep
  BY <1>2 DEF LoopStep, ReadFrame, RejectFrame, ReadFlush, ReadOther, SendDone, Shutdown, ReadGarbled,
              ReadBroken, ServerCloses, EndsInv, serverVars
<1>3. CASE Crash \/ PeerPing \/ PeerError
  BY <1>3 DEF Crash, PeerPing, PeerError, ServerCloses, EndsInv, serverVars
<1>4. CASE \E i \in DOMAIN held : Callback(i) \/ DropFrame(i)
  <2>1. held # <<>> /\ UNCHANGED <<srv, s2cEnd, tx, torn>>
    BY <1>4 DEF Callback, EmitPacket, SkipPacket, DropFrame, wireVars
  <2> QED
    BY <2>1 DEF EndsInv
<1>5. CASE PeerReset /\ UNCHANGED <<clientVars, serverVars>>
  BY <1>5 DEF PeerReset, EndsInv, serverVars
<1>6. CASE UNCHANGED vars
  BY <1>6 DEF vars, serverVars, wireVars, EndsInv
<1> QED
  BY <1>1, <1>2, <1>3, <1>4, <1>5, <1>6 DEF Next, Terminated, ServerNext

-------------------------------------------------------------------------------
(***************************************************************************)
(* The stream of packets.                                                  *)
(***************************************************************************)
\* What flow control says of the server's stream, in one place.
LEMMA StreamTypes ==
    ASSUME BaseInv
    PROVE  /\ s2c \in Seq(ServerMsg) /\ packetsRecv \in Nat /\ packetsOut \in Nat
           /\ Ordered(s2c, "PACKET", packetsRecv, packetsOut) /\ packetsRecv <= packetsOut
           /\ \A x \in ServerMsg : x.type = "PACKET" => x.ord \in Int
           /\ emitted \in Seq(PacketMsg)
BY OrdsAreInts DEF BaseInv, TypeOK, WireTypeOK, ClientTypeOK, ServerTypeOK, PassInv, PacketOrds

\* A message that is no packet is read.
LEMMA StreamReadOther ==
    ASSUME BaseInv, Stream, s2c # <<>>, Head(s2c).type # "PACKET", Consume,
           UNCHANGED <<packetsRecv, packetsOut, emitted, c2sEnd, s2cEnd>>
    PROVE  Stream'
<1>1. /\ Gapless(s2c', packetsRecv)
      /\ Complete(s2c, packetsRecv, packetsOut) => Complete(s2c', packetsRecv, packetsOut)
      /\ \A i \in DOMAIN s2c' : s2c'[i].type = "PACKET" => s2c'[i] = emitted[s2c'[i].ord]
  BY StreamTypes, GaplessTailOther DEF Stream, Consume, Matches
<1> QED
  BY <1>1 DEF Stream, Matches

\* A packet is read: it is the next one emitted.
LEMMA StreamReadPacket ==
    ASSUME BaseInv, Stream, ClientSees("PACKET"), Consume, packetsRecv' = packetsRecv + 1,
           UNCHANGED <<packetsOut, emitted, c2sEnd, s2cEnd>>
    PROVE  /\ Stream'
           /\ packetsRecv + 1 \in DOMAIN emitted /\ Head(s2c) = emitted[packetsRecv + 1]
<1>1. s2c # <<>> /\ Head(s2c).type = "PACKET" /\ s2c' = Tail(s2c)
  BY DEF ClientSees, Consume
<1>2. Head(s2c).ord = packetsRecv + 1
  BY <1>1, StreamTypes, HeadIsNext DEF Stream
<1>3. 1 \in DOMAIN s2c /\ s2c[1] = Head(s2c)
  BY <1>1, StreamTypes, HeadAndTail
<1>4. Head(s2c) = emitted[packetsRecv + 1] /\ packetsRecv + 1 <= packetsOut
  BY <1>1, <1>2, <1>3, StreamTypes DEF Stream, Matches, Ordered
<1>5. packetsRecv + 1 \in DOMAIN emitted
  BY <1>4, StreamTypes DEF Stream
<1>6. /\ Gapless(Tail(s2c), packetsRecv + 1)
      /\ Complete(s2c, packetsRecv, packetsOut) => Complete(Tail(s2c), packetsRecv + 1, packetsOut)
      /\ Matches(Tail(s2c))
  <2>1. s2c \in Seq(ServerMsg) /\ packetsRecv \in Int /\ packetsOut \in Int
    BY StreamTypes
  <2>2. Gapless(s2c, packetsRecv) /\ Matches(s2c)
    BY DEF Stream
  <2> QED
    BY ONLY <1>1, <1>2, <2>1, <2>2, GaplessTailNext
<1>7. Matches(Tail(s2c)) => Matches(s2c)'
  BY <1>1 DEF Matches
<1>8. Stream'
  BY <1>1, <1>6, <1>7 DEF Stream
<1> QED
  BY <1>4, <1>5, <1>8

\* Another message is sent.
LEMMA StreamSendOther ==
    ASSUME BaseInv, Stream, NEW m \in ServerMsg, m.type # "PACKET", ServerSend(m),
           UNCHANGED <<packetsRecv, packetsOut, emitted, c2sEnd>>, s2cEnd = "open"
    PROVE  Stream'
<1>1. /\ Gapless(Append(s2c, m), packetsRecv)
      /\ Complete(s2c, packetsRecv, packetsOut) => Complete(Append(s2c, m), packetsRecv, packetsOut)
      /\ Matches(Append(s2c, m))
  BY StreamTypes, GaplessAppendOther DEF Stream
<1>2. s2c' = Append(s2c, m) \/ s2c' = s2c
  BY DEF ServerSend
<1>3. CASE s2c' = Append(s2c, m)
  <2>1. Matches(Append(s2c, m)) => Matches(s2c)'
    BY <1>3 DEF Matches
  <2> QED
    BY <1>1, <1>3, <2>1 DEF Stream
<1>4. CASE s2c' = s2c
  <2>1. Matches(s2c) => Matches(s2c)'
    BY <1>4 DEF Matches
  <2> QED
    BY <1>4, <2>1 DEF Stream
<1> QED
  BY <1>2, <1>3, <1>4

\* A packet is emitted.
LEMMA StreamEmit ==
    ASSUME BaseInv, EndsInv, Stream, NEW i \in DOMAIN held, EmitPacket(i), UNCHANGED clientVars
    PROVE  Stream' /\ emitted' \in Seq(PacketMsg) /\ Len(emitted') = Len(emitted) + 1
           /\ \A k \in DOMAIN emitted : k \in DOMAIN emitted' /\ emitted'[k] = emitted[k]
<1>1. PICK m \in PacketMsg : /\ m.type = "PACKET" /\ m.ord = packetsOut + 1
                             /\ ServerSend(m) /\ emitted' = Append(emitted, m)
  <2> DEFINE m == [type |-> "PACKET", ord |-> packetsOut + 1, frame |-> held[i],
                   dts |-> CorrectedDts(Pts[held[i]], RawDts(held[i]))]
  <2>1. held[i] \in Frames /\ Pts[held[i]] \in Int
    BY ServerAssumption DEF BaseInv, TypeOK, ServerTypeOK
  <2>2. CorrectedDts(Pts[held[i]], RawDts(held[i])) \in Int
    BY <2>1, CorrectedDtsInt DEF RawDts, BaseInv, TypeOK, ServerTypeOK
  <2>3. m \in PacketMsg
    BY <2>1, <2>2, StreamTypes DEF PacketMsg
  <2>4. ServerSend(m) /\ emitted' = Append(emitted, m)
    BY DEF EmitPacket
  <2> QED
    BY <2>3, <2>4
<1>2. packetsOut' = packetsOut + 1 /\ UNCHANGED <<packetsRecv, c2sEnd, s2cEnd>> /\ m \in ServerMsg
  BY DEF EmitPacket, clientVars, ServerMsg
<1>3. s2cEnd = "open"
  BY DEF EndsInv, BaseInv, TypeOK, ServerTypeOK
<1>4. /\ emitted' \in Seq(PacketMsg) /\ Len(emitted') = Len(emitted) + 1
      /\ emitted'[packetsOut + 1] = m
      /\ \A k \in DOMAIN emitted : k \in DOMAIN emitted' /\ emitted'[k] = emitted[k]
  BY <1>1, StreamTypes DEF Stream
<1>5. Matches(s2c) => \A j \in DOMAIN s2c : s2c[j].type = "PACKET" => s2c[j] = emitted'[s2c[j].ord]
  <2>1. \A j \in DOMAIN s2c : s2c[j].type = "PACKET" => s2c[j].ord \in DOMAIN emitted
    BY StreamTypes DEF Ordered, Stream
  <2> QED
    BY <1>4, <2>1 DEF Matches
<1>6. CASE c2sEnd = "open"
  <2>1. s2c' = Append(s2c, m)
    BY <1>1, <1>6 DEF ServerSend
  <2>2. Gapless(Append(s2c, m), packetsRecv) /\ Complete(Append(s2c, m), packetsRecv, packetsOut + 1)
    BY <1>1, <1>2, <1>3, <1>6, StreamTypes, GaplessAppendNext DEF Stream
  <2>3. Matches(s2c)'
    <3>1. \A j \in DOMAIN s2c' : (j \in DOMAIN s2c /\ s2c'[j] = s2c[j]) \/ s2c'[j] = m
      BY <1>2, <2>1, StreamTypes, AppendPlaces
    <3>2. Matches(s2c)
      BY DEF Stream
    <3> QED
      BY <1>1, <1>4, <1>5, <3>1, <3>2 DEF Matches
  <2> QED
    BY <1>2, <1>4, <2>1, <2>2, <2>3 DEF Stream
<1>7. CASE c2sEnd # "open"
  <2>1. s2c' = s2c
    BY <1>1, <1>7 DEF ServerSend
  <2>2. Matches(s2c)'
    BY <1>5, <2>1 DEF Matches, Stream
  <2> QED
    BY <1>2, <1>4, <1>7, <2>1, <2>2 DEF Stream
<1> QED
  BY <1>4, <1>6, <1>7

\* Nothing happens to the stream of packets, except that the client may close
\* and that the server closes unless it is gone.
LEMMA StreamKept ==
    ASSUME Stream, UNCHANGED <<s2c, packetsRecv, packetsOut, emitted>>,
           UNCHANGED c2sEnd \/ c2sEnd' = "fin", UNCHANGED s2cEnd \/ s2cEnd = "open"
    PROVE  Stream'
<1>1. Matches(s2c)'
  BY DEF Stream, Matches
<1> QED
  BY <1>1 DEF Stream

\* The end of the stream is lost.
LEMMA StreamReset ==
    ASSUME BaseInv, Stream, PeerReset, UNCHANGED <<clientVars, serverVars>>
    PROVE  Stream'
<1>1. PICK kept \in 0 .. Len(s2c) : /\ s2c' = SubSeq(s2c, 1, kept)
                                    /\ s2cEnd' = IF kept = Len(s2c) THEN s2cEnd ELSE "rst"
  BY StreamTypes DEF PeerReset
<1>2. UNCHANGED <<packetsRecv, packetsOut, emitted, c2sEnd>>
  BY DEF PeerReset, clientVars, serverVars
<1>3. Gapless(s2c', packetsRecv) /\ Matches(SubSeq(s2c, 1, kept))
  BY <1>1, StreamTypes, GaplessPrefix DEF Stream
<1>4. Matches(s2c)'
  BY <1>1, <1>2, <1>3 DEF Matches
<1>5. CASE kept = Len(s2c)
  <2>1. s2c' = s2c
    BY <1>1, <1>5, StreamTypes
  <2> QED
    BY <1>1, <1>2, <1>4, <1>5, <2>1 DEF Stream
<1>6. CASE kept # Len(s2c)
  BY <1>1, <1>2, <1>3, <1>4, <1>6 DEF Stream
<1> QED
  BY <1>5, <1>6

\* Stream is preserved by every step.
LEMMA StreamStep ==
    ASSUME BaseInv, EndsInv, Stream, [Next]_vars
    PROVE  Stream'
<1>1. CASE ClientNext /\ UNCHANGED serverVars
  <2>0. UNCHANGED <<packetsOut, emitted>>
    BY <1>1 DEF serverVars
  <2>1. CASE DrainPacket \/ RecvPacket
    BY <2>0, <2>1, StreamReadPacket DEF DrainPacket, RecvPacket
  <2>2. CASE DrainDone \/ AnswerPing
    BY <2>0, <2>2, StreamReadOther DEF DrainDone, AnswerPing, ClientSees, clientVars
  <2>3. CASE AppStep \/ DrainStop \/ Submit \/ Resend \/ SendFlush \/ RecvTimeout
    BY <2>0, <2>3, StreamKept
       DEF AppStep, EncodeFrame, StartDraining, DrainAgain, Close, ClientCloses, DrainStop, Submit,
           PopAndSend, SubmitFrame, SubmitFails, LimitReached, NothingToSend, Resend, SendFlush,
           RecvTimeout, wireVars
  <2>4. CASE DrainFails
    <3>1. UNCHANGED <<packetsRecv, c2sEnd, s2cEnd>>
      BY <2>4 DEF DrainFails
    <3>2. (ClientSees("ERROR") /\ Consume) \/ UNCHANGED s2c
      BY <2>4 DEF DrainFails
    <3> QED
      BY <2>0, <3>1, <3>2, StreamReadOther, StreamKept DEF ClientSees
  <2>5. CASE RecvDone \/ RecvFails
    <3>1. UNCHANGED <<packetsRecv, c2sEnd, s2cEnd>>
      BY <2>5 DEF RecvDone, RecvFails
    <3>2. ((ClientSees("ERROR") \/ ClientSees("DONE")) /\ Consume) \/ UNCHANGED s2c
      BY <2>5 DEF RecvDone, RecvFails
    <3> QED
      BY <2>0, <3>1, <3>2, StreamReadOther, StreamKept DEF ClientSees
  <2> QED
    BY <1>1, <2>1, <2>2, <2>3, <2>4, <2>5 DEF ClientNext, CallStep, Drain, Receive
<1>2. CASE ServerNext /\ UNCHANGED clientVars
  <2>0. UNCHANGED packetsRecv
    BY <1>2 DEF clientVars
  <2>1. CASE ReadFrame \/ ReadFlush \/ ReadOther \/ ReadGarbled
    BY <2>0, <2>1, StreamKept DEF ReadFrame, ReadFlush, ReadOther, ReadGarbled, serverVars
  <2>2. CASE RejectFrame \/ ReadBroken \/ Shutdown \/ Crash
    <3>1. srv # "closed" /\ UNCHANGED <<s2c, packetsOut, emitted, c2sEnd>>
      BY <2>2 DEF RejectFrame, ReadBroken, Shutdown, Crash, ServerCloses
    <3> QED
      BY <2>0, <3>1, StreamKept DEF EndsInv
  <2>3. ASSUME NEW t \in {"DONE", "PING", "ERROR"}, ServerSend([type |-> t]), srv # "closed",
               UNCHANGED <<packetsOut, emitted, c2sEnd>>
        PROVE  Stream'
    <3> DEFINE m == [type |-> t]
    <3>1. m \in ServerMsg /\ m.type # "PACKET"
      BY DEF ServerMsg
    <3>2. ServerSend(m) /\ s2cEnd = "open"
      BY <2>3 DEF EndsInv
    <3> HIDE DEF m
    <3> QED
      BY <2>0, <2>3, <3>1, <3>2, StreamSendOther
  <2>4. CASE SendDone \/ PeerPing \/ PeerError
    BY <2>3, <2>4 DEF SendDone, PeerPing, PeerError, ServerCloses, serverVars
  <2>5. ASSUME NEW i \in DOMAIN held, Callback(i) \/ DropFrame(i)
        PROVE  Stream'
    <3>1. CASE EmitPacket(i)
      BY <1>2, <3>1, StreamEmit
    <3>2. CASE SkipPacket(i) \/ DropFrame(i)
      BY <2>0, <3>2, StreamKept DEF SkipPacket, DropFrame, wireVars
    <3> QED
      BY <2>5, <3>1, <3>2 DEF Callback
  <2> QED
    BY <1>2, <2>1, <2>2, <2>4, <2>5 DEF ServerNext, LoopStep
<1>3. CASE PeerReset /\ UNCHANGED <<clientVars, serverVars>>
  BY <1>3, StreamReset
<1>4. CASE UNCHANGED vars
  BY <1>4, StreamKept DEF vars, clientVars, serverVars, wireVars
<1> QED
  BY <1>1, <1>2, <1>3, <1>4 DEF Next, Terminated
-------------------------------------------------------------------------------
(***************************************************************************)
(* What has been received.                                                 *)
(***************************************************************************)
\* The types of what is received.
LEMMA ReceivedTypes ==
    ASSUME BaseInv
    PROVE  delivered \in Seq(PacketMsg) /\ pktQueue \in Seq(PacketMsg) /\ packetsRecv \in Nat
           /\ s2c \in Seq(ServerMsg)
BY DEF BaseInv, TypeOK, ClientTypeOK, WireTypeOK

\* A return with no packet hands nothing over.
LEMMA NothingDelivered ==
    ASSUME BaseInv, NEW code, Return(code, <<>>)
    PROVE  delivered' = delivered
BY ReceivedTypes DEF Return

\* Nothing is received, and nothing emitted is changed.
LEMMA ReceivedKept ==
    ASSUME BaseInv, Received, Stream, UNCHANGED <<delivered, pktQueue, packetsRecv>>,
           \A k \in DOMAIN emitted : emitted'[k] = emitted[k]
    PROVE  Received'
<1>1. DOMAIN emitted = 1 .. packetsOut
  BY StreamTypes DEF Stream
<1>2. \A k \in DOMAIN delivered : k \in DOMAIN emitted
  BY <1>1, ReceivedTypes, StreamTypes DEF Received
<1>3. \A k \in DOMAIN pktQueue : Len(delivered) + k \in DOMAIN emitted
  BY <1>1, ReceivedTypes, StreamTypes DEF Received
<1> QED
  BY <1>2, <1>3 DEF Received

\* The next packet is queued.
LEMMA ReceivedQueued ==
    ASSUME BaseInv, Received, Stream, ClientSees("PACKET"), Consume,
           packetsRecv' = packetsRecv + 1, pktQueue' = Append(pktQueue, Head(s2c)),
           UNCHANGED <<delivered, packetsOut, emitted, c2sEnd, s2cEnd>>
    PROVE  Received'
<1>1. Head(s2c) = emitted[packetsRecv + 1] /\ Head(s2c) \in ServerMsg
  BY StreamReadPacket, StreamTypes, HeadAndTail DEF ClientSees
<1>2. /\ Len(pktQueue') = Len(pktQueue) + 1
      /\ \A k \in DOMAIN pktQueue' : \/ k \in DOMAIN pktQueue /\ pktQueue'[k] = pktQueue[k]
                                     \/ k = Len(pktQueue) + 1 /\ pktQueue'[k] = Head(s2c)
  BY ReceivedTypes
<1>3. Len(delivered') + Len(pktQueue') = packetsRecv'
  BY <1>2, ReceivedTypes DEF Received
<1>4. Len(delivered) + (Len(pktQueue) + 1) = packetsRecv + 1
  BY ReceivedTypes DEF Received
<1>5. \A k \in DOMAIN pktQueue' : pktQueue'[k] = emitted[Len(delivered) + k]
  BY <1>1, <1>2, <1>4 DEF Received
<1> QED
  BY <1>3, <1>5 DEF Received

\* The next packet is handed over at once.
LEMMA ReceivedDirect ==
    ASSUME BaseInv, Received, Stream, ClientSees("PACKET"), Consume, pktQueue = <<>>,
           packetsRecv' = packetsRecv + 1, delivered' = Append(delivered, Head(s2c)),
           UNCHANGED <<pktQueue, packetsOut, emitted, c2sEnd, s2cEnd>>
    PROVE  Received'
<1>1. Head(s2c) = emitted[packetsRecv + 1] /\ Head(s2c) \in ServerMsg
  BY StreamReadPacket, StreamTypes, HeadAndTail DEF ClientSees
<1>2. /\ Len(delivered') = Len(delivered) + 1
      /\ \A k \in DOMAIN delivered' : \/ k \in DOMAIN delivered /\ delivered'[k] = delivered[k]
                                      \/ k = Len(delivered) + 1 /\ delivered'[k] = Head(s2c)
  BY ReceivedTypes
<1>3. Len(delivered) = packetsRecv /\ Len(pktQueue) = 0 /\ DOMAIN pktQueue = {}
  BY ReceivedTypes DEF Received
<1> QED
  BY <1>1, <1>2, <1>3, ReceivedTypes DEF Received

\* A queued packet is handed over.
LEMMA ReceivedPopped ==
    ASSUME BaseInv, Received, Stream, pktQueue # <<>>, pktQueue' = Tail(pktQueue),
           delivered' = Append(delivered, Head(pktQueue)),
           UNCHANGED <<packetsRecv, emitted>>
    PROVE  Received'
<1>1. /\ Head(pktQueue) = pktQueue[1] /\ 1 \in DOMAIN pktQueue
      /\ Len(pktQueue') = Len(pktQueue) - 1
      /\ \A k \in DOMAIN pktQueue' : k \in Int /\ k + 1 \in DOMAIN pktQueue /\ pktQueue'[k] = pktQueue[k + 1]
  BY ReceivedTypes, HeadAndTail
<1>2. /\ Len(delivered') = Len(delivered) + 1 /\ Len(delivered) \in Nat /\ Len(pktQueue) \in Nat
      /\ \A k \in DOMAIN delivered' : \/ k \in DOMAIN delivered /\ delivered'[k] = delivered[k]
                                      \/ k = Len(delivered) + 1 /\ delivered'[k] = Head(pktQueue)
  BY ReceivedTypes
<1>3. Len(delivered') + Len(pktQueue') = packetsRecv'
  BY <1>1, <1>2 DEF Received
<1>4. \A k \in DOMAIN pktQueue' : pktQueue'[k] = emitted[Len(delivered') + k]
  <2> SUFFICES ASSUME NEW k \in DOMAIN pktQueue' PROVE pktQueue'[k] = emitted[Len(delivered') + k]
    OBVIOUS
  <2>1. pktQueue'[k] = emitted[Len(delivered) + (k + 1)]
    BY <1>1 DEF Received
  <2>2. Len(delivered) + (k + 1) = Len(delivered') + k
    BY <1>1, <1>2
  <2> QED
    BY <2>1, <2>2
<1>5. \A k \in DOMAIN delivered' : delivered'[k] = emitted[k]
  BY <1>1, <1>2 DEF Received
<1> QED
  BY <1>3, <1>4, <1>5 DEF Received

\* Received is preserved by every step.
LEMMA ReceivedStep ==
    ASSUME BaseInv, EndsInv, Stream, Received, [Next]_vars
    PROVE  Received'
<1>1. CASE ClientNext /\ UNCHANGED serverVars
  <2>0. UNCHANGED <<packetsOut, emitted>>
    BY <1>1 DEF serverVars
  <2>1. CASE DrainPacket
    BY <2>0, <2>1, ReceivedQueued DEF DrainPacket, Enqueued
  <2>2. CASE PopAndSend
    <3>1. delivered' = Append(delivered, Head(pktQueue))
      BY <2>2, ReceivedTypes, HeadAndTail DEF PopAndSend, Return
    <3> QED
      BY <2>0, <2>2, <3>1, ReceivedPopped DEF PopAndSend
  <2>3. CASE RecvPacket
    <3>1. pktQueue = <<>> /\ s2c # <<>>
      BY <2>3 DEF RecvPacket, Blocked, ClientSees, BaseInv, PassInv
    <3>2. pktQueue' = <<>> /\ delivered' = Append(delivered, Head(s2c))
      <4>1. PICK p : p = Head(s2c)
        OBVIOUS
      <4>2. Enqueued(p) = <<p>>
        BY <3>1 DEF Enqueued
      <4>3. Head(<<p>>) = p /\ Tail(<<p>>) = <<>>
        OBVIOUS
      <4>4. pktQueue' = <<>> /\ (delivered' = Append(delivered, p) \/ delivered' = delivered \o <<p>>)
        BY <2>3, <4>1, <4>2, <4>3 DEF RecvPacket, Return
      <4>5. p \in ServerMsg
        BY <3>1, <4>1, ReceivedTypes, HeadAndTail
      <4>6. delivered \o <<p>> = Append(delivered, p)
        BY ReceivedTypes
      <4> QED
        BY <4>1, <4>4, <4>6
    <3> QED
      BY <2>0, <2>3, <3>1, <3>2, ReceivedDirect DEF RecvPacket
  <2>4. CASE DrainFails \/ SubmitFails \/ RecvDone \/ RecvFails \/ RecvTimeout
    <3>1. \E code : Return(code, <<>>)
      BY <2>4 DEF DrainFails, SubmitFails, RecvDone, RecvFails, RecvTimeout
    <3> QED
      BY <2>0, <2>4, <3>1, NothingDelivered, ReceivedKept
         DEF DrainFails, SubmitFails, RecvDone, RecvFails, RecvTimeout
  <2>5. CASE SubmitFrame \/ SendFlush
    <3>1. Goto("recv") \/ Goto("limit") \/ \E code : Return(code, <<>>)
      BY <2>5 DEF SubmitFrame, SendFlush
    <3> QED
      BY <2>0, <2>5, <3>1, NothingDelivered, ReceivedKept DEF SubmitFrame, SendFlush, Goto
  <2>6. CASE AppStep \/ DrainStop \/ DrainDone \/ LimitReached \/ NothingToSend \/ Resend \/ AnswerPing
    BY <2>0, <2>6, ReceivedKept
       DEF AppStep, EncodeFrame, StartDraining, DrainAgain, Close, DrainStop, DrainDone, LimitReached,
           NothingToSend, Resend, AnswerPing, Goto, clientVars
  <2> QED
    BY <1>1, <2>1, <2>2, <2>3, <2>4, <2>5, <2>6 DEF ClientNext, CallStep, Drain, Submit, Receive
<1>2. CASE ServerNext /\ UNCHANGED clientVars
  <2>1. CASE \E i \in DOMAIN held : EmitPacket(i)
    BY <1>2, <2>1, StreamEmit, ReceivedKept DEF clientVars
  <2>2. CASE UNCHANGED emitted
    BY <1>2, <2>2, ReceivedKept DEF clientVars
  <2> QED
    BY <1>2, <2>1, <2>2
       DEF ServerNext, LoopStep, ReadFrame, RejectFrame, ReadFlush, ReadOther, SendDone, Shutdown,
           ReadGarbled, ReadBroken, Crash, PeerPing, PeerError, Callback, SkipPacket, DropFrame, serverVars
<1>3. CASE UNCHANGED <<clientVars, serverVars>>
  BY <1>3, ReceivedKept DEF clientVars, serverVars
<1> QED
  BY <1>1, <1>2, <1>3 DEF Next, Terminated, vars
-------------------------------------------------------------------------------
(***************************************************************************)
(* Packets in order.                                                       *)
(***************************************************************************)
\* The packets of a session.
PacketInv == BaseInv /\ EndsInv /\ Stream /\ Received

\* The start.
LEMMA PacketsStart ==
    ASSUME Init
    PROVE  PacketInv
<1>1. EndsInv
  BY DEF Init, WireInit, ServerInit, EndsInv
<1>2. Stream
  BY DEF Init, WireInit, ServerInit, ClientInit, Stream, Matches, Gapless, Complete
<1>3. Received
  BY DEF Init, ClientInit, Received
<1> QED
  BY <1>1, <1>2, <1>3, FlowStart DEF PacketInv, IInv

\* In every reachable state the packets are as PacketInv says.
THEOREM PacketsInvariant == Spec => []PacketInv
<1>1. Init => PacketInv
  BY PacketsStart
<1>2. PacketInv /\ [Next]_vars => PacketInv'
  BY BaseStep, EndsStep, StreamStep, ReceivedStep DEF PacketInv
<1> QED
  BY <1>1, <1>2, PTL DEF Spec

\* A set of places whose numbers are those of an interval is as large as it.
LEMMA NumberedPlaces ==
    ASSUME NEW T, NEW ord \in [T -> Int], NEW lo \in Int, NEW hi \in Int, lo <= hi,
           \A i \in T : lo + 1 <= ord[i] /\ ord[i] <= hi,
           \A i, j \in T : ord[i] = ord[j] => i = j,
           \A n \in lo + 1 .. hi : \E i \in T : ord[i] = n
    PROVE  Cardinality(T) = hi - lo
<1> DEFINE I == lo + 1 .. hi
           place == [n \in I |-> CHOOSE i \in T : ord[i] = n]
<1>1. \A n \in I : place[n] \in T /\ ord[place[n]] = n
  OBVIOUS
<1>2. \A i \in T : ord[i] \in I /\ place[ord[i]] = i
  BY <1>1
<1>3. place \in [I -> T]
  BY <1>1
<1>4. place \in Bijection(I, T)
  BY <1>1, <1>2, <1>3 DEF Bijection, Injection, Surjection, IsInjective
<1>5. IsFiniteSet(I) /\ Cardinality(I) = hi - lo
  <2>1. PICK a \in Int : a = lo + 1
    OBVIOUS
  <2>2. IsFiniteSet(a .. hi) /\ Cardinality(a .. hi) = IF a > hi THEN 0 ELSE hi - a + 1
    BY FS_Interval
  <2>3. I = a .. hi
    BY <2>1
  <2>4. (IF a > hi THEN 0 ELSE hi - a + 1) = hi - lo
    BY <2>1
  <2> QED
    BY <2>2, <2>3, <2>4
<1> HIDE DEF I, place
<1> QED
  BY <1>4, <1>5, FS_Bijection DEF ExistsBijection

\* The packet that comes n-th has the number n.
LEMMA TurnIsOrd ==
    ASSUME PacketInv, NEW k \in Int,
           NEW hi \in Int, packetsRecv <= hi,
           \A j \in Coming : j <= k <=> s2c[j].ord <= hi,
           Complete(s2c, packetsRecv, hi)
    PROVE  Turn(k) = hi
<1> DEFINE T == {j \in Coming : j <= k}
           ord == [j \in T |-> s2c[j].ord]
<1>1. /\ s2c \in Seq(ServerMsg) /\ packetsRecv \in Int /\ packetsOut \in Int
      /\ \A j \in DOMAIN s2c : s2c[j].type = "PACKET" => s2c[j].ord \in Int
      /\ Ordered(s2c, "PACKET", packetsRecv, packetsOut)
  BY StreamTypes DEF PacketInv
<1>2. \A j \in T : j \in DOMAIN s2c /\ s2c[j].type = "PACKET" /\ s2c[j].ord <= hi
  BY DEF Coming
<1>3. ord \in [T -> Int]
  BY <1>1, <1>2
<1>4. \A j \in T : packetsRecv + 1 <= ord[j] /\ ord[j] <= hi
  BY <1>1, <1>2 DEF Ordered
<1>5. ASSUME NEW i \in T, NEW j \in T, ord[i] = ord[j]
      PROVE  i = j
  <2>1. s2c[i].ord = s2c[j].ord /\ s2c[i].ord \in Int /\ i \in Int /\ j \in Int
    BY <1>1, <1>2, <1>5
  <2>2. ~(i < j) /\ ~(j < i)
    BY <1>1, <1>2, <2>1 DEF Ordered
  <2> QED
    BY <2>1, <2>2
<1>6. ASSUME NEW n \in packetsRecv + 1 .. hi
      PROVE  \E i \in T : ord[i] = n
  <2>1. PICK i \in DOMAIN s2c : s2c[i].type = "PACKET" /\ s2c[i].ord = n
    BY DEF Complete, Arrives
  <2>2. i \in Coming /\ s2c[i].ord <= hi
    BY <1>6, <2>1 DEF Coming
  <2>3. i \in T
    BY <2>2
  <2> QED
    BY <2>1, <2>3
<1>7. Turn(k) = packetsRecv + Cardinality(T)
  BY DEF Turn, PacketInv, Received
<1> HIDE DEF T, ord
<1>8. Cardinality(T) = hi - packetsRecv
  BY <1>1, <1>3, <1>4, <1>5, <1>6, NumberedPlaces
<1> QED
  BY <1>1, <1>7, <1>8

\* A sequence whose elements are the first ones of another is a prefix of it.
LEMMA PrefixByElements ==
    ASSUME NEW S, NEW s \in Seq(S), NEW t \in Seq(S), Len(s) <= Len(t),
           \A i \in DOMAIN s : s[i] = t[i]
    PROVE  IsPrefix(s, t)
<1>1. SubSeq(s, 1, Len(s)) = s
  OBVIOUS
<1>2. SubSeq(t, 1, Len(s)) \in Seq(S) /\ Len(SubSeq(t, 1, Len(s))) = Len(s)
      /\ \A i \in 1 .. Len(s) : SubSeq(t, 1, Len(s))[i] = t[i]
  OBVIOUS
<1>3. SubSeq(t, 1, Len(s)) = s
  BY <1>2
<1> QED
  BY <1>1, <1>3 DEF IsPrefix

\* The packets that the application got, the ring of vtremote_enc_common.c and
\* the server's stream are what the encoder emitted, in order and without a gap;
\* only a tail is lost, and only after one of the two ends is gone.
THEOREM PacketsComeInOrder == Spec => []PacketsInOrder
<1>1. PacketInv => PacketsInOrder
  <2> SUFFICES ASSUME PacketInv PROVE PacketsInOrder
    OBVIOUS
  <2>1. /\ delivered \in Seq(PacketMsg) /\ pktQueue \in Seq(PacketMsg) /\ emitted \in Seq(PacketMsg)
        /\ packetsRecv \in Nat /\ packetsOut \in Nat /\ packetsRecv <= packetsOut
        /\ Len(emitted) = packetsOut /\ Len(delivered) + Len(pktQueue) = packetsRecv
        /\ s2c \in Seq(ServerMsg)
    BY ReceivedTypes, StreamTypes DEF PacketInv, Received, Stream
  <2>2. IsPrefix(delivered \o pktQueue, emitted)
    <3>1. delivered \o pktQueue \in Seq(PacketMsg) /\ Len(delivered \o pktQueue) = packetsRecv
      BY <2>1
    <3>2. \A k \in DOMAIN (delivered \o pktQueue) :
             \/ k \in DOMAIN delivered /\ (delivered \o pktQueue)[k] = delivered[k]
             \/ \E l \in DOMAIN pktQueue : /\ k = Len(delivered) + l
                                           /\ (delivered \o pktQueue)[k] = pktQueue[l]
      <4> SUFFICES ASSUME NEW k \in DOMAIN (delivered \o pktQueue), k > Len(delivered)
                   PROVE  \E l \in DOMAIN pktQueue : /\ k = Len(delivered) + l
                                                     /\ (delivered \o pktQueue)[k] = pktQueue[l]
        BY <2>1
      <4> WITNESS k - Len(delivered) \in DOMAIN pktQueue
      <4> QED
        BY <2>1
    <3>3. \A k \in DOMAIN (delivered \o pktQueue) : (delivered \o pktQueue)[k] = emitted[k]
      BY <3>2 DEF PacketInv, Received
    <3> QED
      BY <2>1, <3>1, <3>3, PrefixByElements
  <2>3. ASSUME NEW i \in Coming
        PROVE  Turn(i) <= Len(emitted) /\ s2c[i] = emitted[Turn(i)]
    <3>1. i \in DOMAIN s2c /\ i \in Int /\ s2c[i].type = "PACKET" /\ s2c[i] = emitted[s2c[i].ord]
      BY <2>1 DEF Coming, PacketInv, Stream, Matches
    <3>2. /\ Ordered(s2c, "PACKET", packetsRecv, packetsOut) /\ s2c[i].ord \in Int
          /\ \A j \in DOMAIN s2c : s2c[j].type = "PACKET" => s2c[j].ord \in Int
      BY <3>1, StreamTypes DEF PacketInv
    <3>3. packetsRecv <= s2c[i].ord /\ s2c[i].ord <= packetsOut
      BY <2>1, <3>1, <3>2 DEF Ordered
    <3>4. Complete(s2c, packetsRecv, s2c[i].ord)
      BY <3>1 DEF PacketInv, Stream, Gapless
    <3>5. ASSUME NEW j \in Coming
          PROVE  j <= i <=> s2c[j].ord <= s2c[i].ord
      <4>1. j \in DOMAIN s2c /\ j \in Int /\ s2c[j].type = "PACKET" /\ s2c[j].ord \in Int
        BY <2>1, <3>2 DEF Coming
      <4>2. j < i => s2c[j].ord < s2c[i].ord
        BY <3>1, <3>2, <4>1 DEF Ordered
      <4>3. i < j => s2c[i].ord < s2c[j].ord
        BY <3>1, <3>2, <4>1 DEF Ordered
      <4> QED
        BY <3>1, <3>2, <4>1, <4>2, <4>3
    <3>6. Turn(i) = s2c[i].ord
      BY <3>1, <3>2, <3>3, <3>4, <3>5, TurnIsOrd
    <3> QED
      BY <2>1, <3>1, <3>3, <3>6
  <2>4. ASSUME c2sEnd = "open", s2cEnd # "rst"
        PROVE  Turn(Len(s2c)) = Len(emitted)
    <3>1. Complete(s2c, packetsRecv, packetsOut)
      BY <2>4 DEF PacketInv, Stream
    <3>2. \A j \in Coming : j <= Len(s2c) /\ s2c[j].ord <= packetsOut
      BY <2>1, StreamTypes DEF Coming, PacketInv, Ordered
    <3>3. Len(s2c) \in Int /\ packetsOut \in Int
      BY <2>1
    <3> QED
      BY <2>1, <3>1, <3>2, <3>3, TurnIsOrd
  <2> QED
    BY <2>2, <2>3, <2>4 DEF PacketsInOrder
<1> QED
  BY <1>1, PacketsInvariant, PTL
-------------------------------------------------------------------------------
(***************************************************************************)
(* The frames in the pipeline.                                             *)
(***************************************************************************)
\* The types of what frames pass through.
LEMMA PipelineTypes ==
    ASSUME BaseInv
    PROVE  /\ c2s \in Seq(ClientMsg) /\ held \in Seq(Frames) /\ emitted \in Seq(PacketMsg)
           /\ sent \in Seq(Frames) /\ lastPts \in Int /\ lastDts \in Int
           /\ \A m \in ClientMsg : m.type = "FRAME" => m.frame \in Int /\ m.frame \in Frames
           /\ \A f \in Frames : f \in Int /\ Pts[f] \in Int
           /\ \A p \in PacketMsg : p.frame \in Frames
BY ServerAssumption, WireAssumption
   DEF BaseInv, TypeOK, WireTypeOK, ClientTypeOK, ServerTypeOK, TrackerTypeOK, ClientMsg, FrameMsg, PartMsg,
       PacketMsg, Frames

\* What a step of the client does to the frames: it sends the call's, or none.
LEMMA ClientEffect ==
    ASSUME BaseInv, ClientNext
    PROVE  \/ SendFrame /\ arg # NoFrame /\ UNCHANGED nextFrame /\ pc \in {"submit", "resend"}
           \/ /\ UNCHANGED sent
              /\ UNCHANGED c2s \/ \E m \in ClientMsg : m.type # "FRAME" /\ c2s' = Append(c2s, m)
<1>0. ASSUME NEW f \in Frames \cup {NoFrame}, ClientSendFails(f)
      PROVE  UNCHANGED c2s \/ \E m \in ClientMsg : (m.type # "FRAME" /\ c2s' = Append(c2s, m))
  <2>1. [type |-> "PART", frame |-> f] \in ClientMsg /\ [type |-> "PART", frame |-> f].type # "FRAME"
    BY DEF ClientMsg, PartMsg
  <2>2. UNCHANGED c2s \/ c2s' = Append(c2s, [type |-> "PART", frame |-> f])
    BY <1>0 DEF ClientSendFails, NothingWritten, PartWritten
  <2> QED
    BY <2>1, <2>2
<1>1. ASSUME NEW t \in {"FLUSH", "PONG"}, ClientSend([type |-> t])
      PROVE  UNCHANGED c2s \/ \E m \in ClientMsg : (m.type # "FRAME" /\ c2s' = Append(c2s, m))
  <2>1. [type |-> t] \in ClientMsg /\ [type |-> t].type # "FRAME"
    BY DEF ClientMsg
  <2>2. UNCHANGED c2s \/ c2s' = Append(c2s, [type |-> t])
    BY <1>1 DEF ClientSend
  <2> QED
    BY <2>1, <2>2
<1>2. CASE SendFlush \/ AnswerPing
  <2>1. UNCHANGED sent
    BY <1>2 DEF SendFlush, AnswerPing, clientVars
  <2>2. \/ ClientSendFails(NoFrame)
        \/ \E t \in {"FLUSH", "PONG"} : ClientSend([type |-> t])
    BY <1>2 DEF SendFlush, AnswerPing
  <2> QED
    BY <1>0, <1>1, <2>1, <2>2
<1>3. CASE AppStep \/ Drain \/ Receive \/ RecvTimeout \/ LimitReached \/ NothingToSend
  BY <1>3 DEF AppStep, EncodeFrame, StartDraining, DrainAgain, Close, ClientCloses, Drain, DrainStop,
              DrainPacket, DrainDone, DrainFails, Receive, RecvPacket, RecvDone, RecvFails,
              RecvTimeout, LimitReached, NothingToSend, wireVars
<1>4. CASE PopAndSend \/ SubmitFrame \/ SubmitFails \/ Resend
  <2>1. CASE SendFrame
    BY <1>4, <2>1 DEF PopAndSend, SubmitFrame, SubmitFails, Resend, MaySend, NoSend, SendFrame,
                      SendFrameFails, Goto, Return, BaseInv, HasFrame
  <2>2. CASE SendFrameFails
    BY <1>0, <2>2 DEF SendFrameFails, BaseInv, TypeOK, ClientTypeOK
  <2>3. CASE NoSend
    BY <2>3 DEF NoSend
  <2> QED
    BY <1>4, <2>1, <2>2, <2>3 DEF PopAndSend, SubmitFrame, SubmitFails, Resend
<1> QED
  BY <1>2, <1>3, <1>4 DEF ClientNext, CallStep, Submit

\* What a step of the server does to the frames, but for the callback.
LEMMA LoopEffect ==
    ASSUME BaseInv, ~torn', LoopStep \/ Crash \/ PeerPing \/ PeerError
    PROVE  /\ UNCHANGED <<emitted, trackerVars>>
           /\ \/ /\ c2s # <<>> /\ Head(c2s).type = "FRAME"
                 /\ c2s' = Tail(c2s) /\ held' = Append(held, Head(c2s).frame)
              \/ /\ \/ c2s' = c2s \/ c2s' = <<>>
                    \/ c2s # <<>> /\ c2s' = Tail(c2s) /\ Head(c2s).type # "FRAME"
                 /\ held' = held \/ held' = <<>>
<1>1. CASE LoopStep
  BY <1>1, NothingGarbled
          DEF BaseInv, TypeOK, LoopStep, ReadFrame, RejectFrame, ReadFlush, ReadOther, SendDone, Shutdown,
              ServerCloses, ServerSees, serverVars, trackerVars
<1>2. CASE Crash \/ PeerPing \/ PeerError
  BY <1>2 DEF Crash, PeerPing, PeerError, ServerCloses, serverVars, trackerVars
<1> QED
  BY <1>1, <1>2

\* What a callback does to them.
LEMMA CallbackEffect ==
    ASSUME BaseInv, NEW i \in DOMAIN held, Callback(i) \/ DropFrame(i)
    PROVE  /\ held' = RemoveAt(held, i) /\ UNCHANGED c2s /\ (Reorder \/ i = 1)
           /\ \/ UNCHANGED <<emitted, trackerVars>>
              \/ \E p \in PacketMsg :
                    /\ p.frame = held[i] /\ p.dts = Pts[held[i]]
                    /\ emitted' = Append(emitted, p) /\ lastPts' = Pts[held[i]]
                    /\ ~IsDuplicate(Pts[held[i]])
<1>1. CASE EmitPacket(i)
  <2>1. held[i] \in Frames /\ Pts[held[i]] \in Int /\ lastDts \in Int /\ packetsOut \in Nat
    BY PipelineTypes, StreamTypes
  <2>2. CorrectedDts(Pts[held[i]], RawDts(held[i])) = Pts[held[i]]
    BY <2>1 DEF CorrectedDts, Pushed, AtMost, RawDts
  <2> DEFINE p == [type |-> "PACKET", ord |-> packetsOut + 1, frame |-> held[i],
                   dts |-> CorrectedDts(Pts[held[i]], RawDts(held[i]))]
  <2>3. p \in PacketMsg /\ p.frame = held[i] /\ p.dts = Pts[held[i]]
    BY <2>1, <2>2 DEF PacketMsg
  <2>4. /\ emitted' = Append(emitted, p) /\ lastPts' = Pts[held[i]] /\ ~IsDuplicate(Pts[held[i]])
        /\ held' = RemoveAt(held, i) /\ UNCHANGED c2s /\ (Reorder \/ i = 1)
    BY <1>1 DEF EmitPacket, EmitSample, Ready
  <2> QED
    BY <2>3, <2>4
<1>2. CASE SkipPacket(i) \/ DropFrame(i)
  BY <1>2 DEF SkipPacket, DropFrame, SkipSample, Ready, wireVars
<1> QED
  BY <1>1, <1>2 DEF Callback

\* Taking an element out of a sequence moves the later ones up.
LEMMA RemoveAtPlaces ==
    ASSUME NEW S, NEW s \in Seq(S), NEW i \in DOMAIN s
    PROVE  \A j \in DOMAIN RemoveAt(s, i) :
              \/ j < i /\ j \in DOMAIN s /\ RemoveAt(s, i)[j] = s[j]
              \/ j >= i /\ j + 1 \in DOMAIN s /\ RemoveAt(s, i)[j] = s[j + 1]
<1> DEFINE before == SubSeq(s, 1, i - 1)
           after  == SubSeq(s, i + 1, Len(s))
<1>1. i \in Int /\ 1 <= i /\ i <= Len(s) /\ Len(s) \in Nat
  OBVIOUS
<1>2. before \in Seq(S) /\ Len(before) = i - 1 /\ \A j \in 1 .. i - 1 : before[j] = s[j]
  BY <1>1
<1>3. after \in Seq(S) /\ Len(after) = Len(s) - i /\ \A j \in 1 .. Len(s) - i : after[j] = s[i + j]
  BY <1>1
<1>4. RemoveAt(s, i) = before \o after
  BY DEF RemoveAt
<1> HIDE DEF before, after
<1> SUFFICES ASSUME NEW j \in DOMAIN (before \o after)
             PROVE  \/ j < i /\ j \in DOMAIN s /\ (before \o after)[j] = s[j]
                    \/ j >= i /\ j + 1 \in DOMAIN s /\ (before \o after)[j] = s[j + 1]
  BY <1>4
<1>5. j \in 1 .. Len(s) - 1
  BY <1>1, <1>2, <1>3
<1>6. CASE j < i
  BY <1>1, <1>2, <1>3, <1>5, <1>6
<1>7. CASE j >= i
  <2>1. j - (i - 1) \in 1 .. Len(s) - i /\ i + (j - (i - 1)) = j + 1
    BY <1>1, <1>5, <1>7
  <2>2. (before \o after)[j] = after[j - (i - 1)]
    BY <1>1, <1>2, <1>3, <1>5, <1>7
  <2>3. after[j - (i - 1)] = s[j + 1]
    BY <1>3, <2>1
  <2> QED
    BY <1>1, <1>5, <1>7, <2>2, <2>3
<1> QED
  BY <1>1, <1>5, <1>6, <1>7

\* OriginInv is preserved by every step.
LEMMA OriginStep ==
    ASSUME BaseInv, OriginInv, ~torn', [Next]_vars
    PROVE  OriginInv'
<1>1. ASSUME ToSet(sent) \subseteq ToSet(sent'), UNCHANGED <<held, emitted>>,
             \A j \in DOMAIN c2s' : c2s'[j].type = "FRAME" => c2s'[j].frame \in ToSet(sent')
      PROVE  OriginInv'
  BY <1>1 DEF OriginInv, FromSent
<1>2. CASE ClientNext /\ UNCHANGED serverVars
  <2>1. CASE SendFrame /\ arg # NoFrame
    <3>1. sent' = Append(sent, arg) /\ arg \in Frames
      BY <2>1 DEF SendFrame, BaseInv, TypeOK, ClientTypeOK
    <3>2. ToSet(sent) \subseteq ToSet(sent') /\ arg \in ToSet(sent')
      BY <3>1, PipelineTypes, AppendedIsThere
    <3>3. PICK m \in ClientMsg : m.frame = arg /\ (c2s' = c2s \/ c2s' = Append(c2s, m))
      <4> DEFINE m == [type |-> "FRAME", ord |-> Len(sent) + 1, frame |-> arg]
      <4>1. m \in ClientMsg /\ m.frame = arg
        BY <3>1, PipelineTypes DEF ClientMsg, FrameMsg
      <4>2. c2s' = c2s \/ c2s' = Append(c2s, m)
        BY <2>1 DEF SendFrame, ClientSend
      <4> QED
        BY <4>1, <4>2
    <3>4. \A j \in DOMAIN c2s' : c2s'[j] = m \/ (j \in DOMAIN c2s /\ c2s'[j] = c2s[j])
      <4>1. c2s \in Seq(ClientMsg)
        BY PipelineTypes
      <4>2. CASE c2s' = c2s
        BY <4>2
      <4>3. CASE c2s' = Append(c2s, m)
        BY <3>3, <4>1, <4>3, AppendPlaces
      <4> QED
        BY <3>3, <4>2, <4>3
    <3> QED
      BY <1>1, <1>2, <3>2, <3>3, <3>4 DEF OriginInv, FromSent, serverVars
  <2>2. ASSUME UNCHANGED sent, NEW m \in ClientMsg, m.type # "FRAME", c2s' = Append(c2s, m)
        PROVE  OriginInv'
    <3>1. \A j \in DOMAIN c2s' : c2s'[j] = m \/ (j \in DOMAIN c2s /\ c2s'[j] = c2s[j])
      BY <2>2, PipelineTypes, AppendPlaces
    <3> QED
      BY <1>1, <1>2, <2>2, <3>1 DEF OriginInv, FromSent, serverVars
  <2>3. CASE UNCHANGED <<sent, c2s>>
    BY <1>1, <1>2, <2>3 DEF OriginInv, FromSent, serverVars
  <2> QED
    BY <1>2, <2>1, <2>2, <2>3, ClientEffect
<1>3. CASE (LoopStep \/ Crash \/ PeerPing \/ PeerError) /\ UNCHANGED clientVars
  <2>0. UNCHANGED <<sent, emitted>>
    BY <1>3, LoopEffect DEF clientVars
  <2>1. ASSUME c2s # <<>>, c2s' = Tail(c2s)
        PROVE  FromSent(c2s)'
    BY <2>0, <2>1, PipelineTypes, HeadAndTail DEF OriginInv, FromSent
  <2>2. ASSUME c2s' = <<>> \/ c2s' = c2s
        PROVE  FromSent(c2s)'
    BY <2>0, <2>2 DEF OriginInv, FromSent
  <2>3. FromSent(c2s)'
    BY <1>3, <2>1, <2>2, LoopEffect
  <2>4. \A i \in DOMAIN held' : held'[i] \in ToSet(sent)
    <3>1. CASE held' = held \/ held' = <<>>
      BY <3>1 DEF OriginInv
    <3>2. CASE /\ c2s # <<>> /\ Head(c2s).type = "FRAME"
               /\ held' = Append(held, Head(c2s).frame)
      <4>1. Head(c2s) = c2s[1] /\ 1 \in DOMAIN c2s
        BY <3>2, PipelineTypes, HeadAndTail
      <4>2. Head(c2s).frame \in ToSet(sent)
        BY <3>2, <4>1 DEF OriginInv, FromSent
      <4>3. Head(c2s).frame \in Frames
        BY <3>2, PipelineTypes, HeadAndTail
      <4>4. \A i \in DOMAIN held' : held'[i] = Head(c2s).frame \/ (i \in DOMAIN held /\ held'[i] = held[i])
        BY <3>2, <4>3, PipelineTypes, AppendPlaces
      <4> QED
        BY <4>2, <4>4 DEF OriginInv
    <3> QED
      BY <1>3, <3>1, <3>2, LoopEffect
  <2> QED
    BY <2>0, <2>3, <2>4 DEF OriginInv
<1>4. ASSUME NEW i \in DOMAIN held, Callback(i) \/ DropFrame(i), UNCHANGED clientVars
      PROVE  OriginInv'
  <2>1. held' = RemoveAt(held, i) /\ UNCHANGED <<c2s, sent>>
    BY <1>4, CallbackEffect DEF clientVars
  <2>2. \A j \in DOMAIN held' : held'[j] \in ToSet(sent')
    BY <2>1, PipelineTypes, RemoveAtPlaces DEF OriginInv
  <2>3. CASE UNCHANGED emitted
    BY <2>1, <2>2, <2>3 DEF OriginInv, FromSent
  <2>4. ASSUME NEW p \in PacketMsg, p.frame = held[i], p.dts = Pts[held[i]],
               emitted' = Append(emitted, p)
        PROVE  OriginInv'
    <3>1. \A k \in DOMAIN emitted' : emitted'[k] = p \/ (k \in DOMAIN emitted /\ emitted'[k] = emitted[k])
      BY <2>4, PipelineTypes, AppendPlaces
    <3> QED
      BY <2>1, <2>2, <2>4, <3>1 DEF OriginInv, FromSent
  <2> QED
    BY <1>4, <2>3, <2>4, CallbackEffect
<1>5. CASE UNCHANGED <<clientVars, serverVars, c2s>>
  BY <1>5 DEF OriginInv, FromSent, clientVars, serverVars
<1> QED
  BY <1>2, <1>3, <1>4, <1>5 DEF Next, Terminated, vars, wireVars, ServerNext, PeerReset
-------------------------------------------------------------------------------
(***************************************************************************)
(* Frames and packets in line.                                             *)
(***************************************************************************)

\* A frame that is not behind any other joins the end of the line.
LEMMA LineJoin ==
    ASSUME NEW out, NEW in, NEW wire \in Seq(ClientMsg), InLine(out, in, wire),
           NEW m \in ClientMsg,
           m.type = "FRAME" =>
              /\ \A k \in DOMAIN out : out[k].frame <= m.frame
              /\ \A k \in DOMAIN in : in[k] <= m.frame
              /\ \A k \in DOMAIN wire : wire[k].type = "FRAME" => wire[k].frame <= m.frame
    PROVE  InLine(out, in, Append(wire, m))
<1>1. \A j \in DOMAIN Append(wire, m) :
         \/ j \in DOMAIN wire /\ Append(wire, m)[j] = wire[j]
         \/ j = Len(wire) + 1 /\ Append(wire, m)[j] = m
  BY AppendPlaces
<1>2. \A i, j \in DOMAIN Append(wire, m) : i < j => i \in DOMAIN wire /\ Append(wire, m)[i] = wire[i]
  BY <1>1
<1>3. \A i, j \in DOMAIN Append(wire, m) :
         /\ i < j
         /\ Append(wire, m)[i].type = "FRAME"
         /\ Append(wire, m)[j].type = "FRAME"
         => Append(wire, m)[i].frame <= Append(wire, m)[j].frame
  BY <1>1, <1>2 DEF InLine
<1> QED
  BY <1>1, <1>3 DEF InLine

\* The wire loses its first message, or all.
LEMMA LineTail ==
    ASSUME NEW out, NEW in, NEW wire \in Seq(ClientMsg), InLine(out, in, wire), wire # <<>>
    PROVE  InLine(out, in, Tail(wire))
<1>1. /\ \A j \in DOMAIN Tail(wire) : j \in Int /\ j + 1 \in DOMAIN wire /\ Tail(wire)[j] = wire[j + 1]
      /\ \A i, j \in DOMAIN Tail(wire) : i < j => i + 1 < j + 1
  BY HeadAndTail
<1> QED
  BY <1>1 DEF InLine

\* What is lost leaves no gap in a line.
LEMMA LineLost ==
    ASSUME NEW out, NEW in, NEW wire, InLine(out, in, wire)
    PROVE  /\ InLine(out, in, <<>>) /\ InLine(out, <<>>, wire) /\ InLine(out, <<>>, <<>>)
BY DEF InLine

\* The first frame on the wire becomes the last one held.
LEMMA LineRead ==
    ASSUME NEW out, NEW in \in Seq(Frames), NEW wire \in Seq(ClientMsg), InLine(out, in, wire),
           wire # <<>>, Head(wire).type = "FRAME", Head(wire).frame \in Frames
    PROVE  InLine(out, Append(in, Head(wire).frame), Tail(wire))
<1>1. InLine(out, in, Tail(wire))
  BY LineTail
<1>2. /\ 1 \in DOMAIN wire /\ Head(wire) = wire[1]
      /\ \A j \in DOMAIN Tail(wire) : j + 1 \in DOMAIN wire /\ Tail(wire)[j] = wire[j + 1] /\ 1 < j + 1
  BY HeadAndTail
<1>3. PICK f \in Frames : f = Head(wire).frame
  OBVIOUS
<1>4. /\ \A k \in DOMAIN out : out[k].frame <= f
      /\ \A k \in DOMAIN in : in[k] <= f
      /\ \A j \in DOMAIN Tail(wire) : Tail(wire)[j].type = "FRAME" => f <= Tail(wire)[j].frame
  BY <1>2, <1>3 DEF InLine
<1>5. \A j \in DOMAIN Append(in, f) :
         \/ j \in DOMAIN in /\ Append(in, f)[j] = in[j]
         \/ j = Len(in) + 1 /\ Append(in, f)[j] = f
  BY AppendPlaces
<1>6. \A i, j \in DOMAIN Append(in, f) : i < j => i \in DOMAIN in /\ Append(in, f)[i] = in[i]
  BY <1>5
<1>7. \A i, j \in DOMAIN Append(in, f) : i < j => Append(in, f)[i] <= Append(in, f)[j]
  BY <1>1, <1>4, <1>5, <1>6 DEF InLine
<1>8. /\ \A k \in DOMAIN out, i \in DOMAIN Append(in, f) : out[k].frame <= Append(in, f)[i]
      /\ \A k \in DOMAIN Append(in, f), i \in DOMAIN Tail(wire) :
            Tail(wire)[i].type = "FRAME" => Append(in, f)[k] <= Tail(wire)[i].frame
  BY <1>1, <1>4, <1>5 DEF InLine
<1> QED
  BY <1>1, <1>3, <1>7, <1>8 DEF InLine

\* The first frame held leaves, and its packet is the last one out.
LEMMA LineTake ==
    ASSUME NEW out, NEW in \in Seq(Frames), NEW wire, InLine(out, in, wire), 1 \in DOMAIN in
    PROVE  InLine(out, RemoveAt(in, 1), wire)
<1>1. /\ \A j \in DOMAIN RemoveAt(in, 1) : j \in Int /\ j + 1 \in DOMAIN in
                                           /\ RemoveAt(in, 1)[j] = in[j + 1]
      /\ \A i, j \in DOMAIN RemoveAt(in, 1) : i < j => i + 1 < j + 1
  <2>1. \A j \in DOMAIN RemoveAt(in, 1) : j \in Int /\ ~(j < 1)
    BY RemoveAtShortens
  <2> QED
    BY <2>1, RemoveAtPlaces
<1> QED
  BY <1>1 DEF InLine

\* The first frame held comes out as a packet, at the end of what is out.
LEMMA LineEmit ==
    ASSUME NEW out \in Seq(PacketMsg), NEW in \in Seq(Frames), NEW wire, InLine(out, in, wire),
           1 \in DOMAIN in, NEW p \in PacketMsg, p.frame = in[1]
    PROVE  InLine(Append(out, p), RemoveAt(in, 1), wire)
<1>1. InLine(out, RemoveAt(in, 1), wire)
  BY LineTake
<1>2. \A j \in DOMAIN RemoveAt(in, 1) : j \in Int /\ j >= 1 /\ j + 1 \in DOMAIN in
                                        /\ RemoveAt(in, 1)[j] = in[j + 1] /\ 1 < j + 1
  <2>1. \A j \in DOMAIN RemoveAt(in, 1) : j \in Int /\ j >= 1 /\ ~(j < 1)
    BY RemoveAtShortens
  <2> QED
    BY <2>1, RemoveAtPlaces
<1>3. /\ \A j \in DOMAIN RemoveAt(in, 1) : p.frame <= RemoveAt(in, 1)[j]
      /\ \A i \in DOMAIN wire : wire[i].type = "FRAME" => p.frame <= wire[i].frame
  BY <1>2 DEF InLine
<1>4. \A j \in DOMAIN Append(out, p) :
         \/ j \in DOMAIN out /\ Append(out, p)[j] = out[j]
         \/ j = Len(out) + 1 /\ Append(out, p)[j] = p
  BY AppendPlaces
<1> QED
  BY <1>1, <1>3, <1>4 DEF InLine

\* Frames are in line from the encoder's output to the wire.
LEMMA LineStep ==
    ASSUME ~Reorder, BaseInv, CallInv, SentInv, OriginInv, LineInv, ~torn', [Next]_vars
    PROVE  LineInv'
<1> USE DEF LineInv
<1>1. CASE ClientNext /\ UNCHANGED serverVars
  <2>0. UNCHANGED <<emitted, held>>
    BY <1>1 DEF serverVars
  <2>1. CASE SendFrame /\ arg # NoFrame
    <3> DEFINE m == [type |-> "FRAME", ord |-> Len(sent) + 1, frame |-> arg]
    <3>1. m \in ClientMsg /\ m.frame = arg /\ (c2s' = c2s \/ c2s' = Append(c2s, m))
      BY <2>1, PipelineTypes DEF ClientMsg, FrameMsg, SendFrame, ClientSend, NoFrame, BaseInv, TypeOK, ClientTypeOK
    <3>2. \A f \in ToSet(sent) : f <= arg
      <4>1. \A i \in DOMAIN sent : sent[i] \in Int /\ sent[i] < nextFrame
        BY FramesAreInts DEF SentInv, BaseInv
      <4>2. arg = nextFrame - 1 /\ nextFrame \in Int
        BY <2>1, FramesAreInts DEF CallInv, BaseInv
      <4> QED
        BY <4>1, <4>2 DEF ToSet
    <3>3. /\ \A k \in DOMAIN emitted : emitted[k].frame <= m.frame
          /\ \A k \in DOMAIN held : held[k] <= m.frame
          /\ \A k \in DOMAIN c2s : c2s[k].type = "FRAME" => c2s[k].frame <= m.frame
      BY <3>1, <3>2 DEF OriginInv, FromSent
    <3> HIDE DEF m
    <3>4. InLine(emitted, held, Append(c2s, m))
      BY <3>1, <3>3, PipelineTypes, LineJoin
    <3> QED
      BY <2>0, <3>1, <3>4
  <2>2. ASSUME NEW m \in ClientMsg, m.type # "FRAME", c2s' = Append(c2s, m)
        PROVE  LineInv'
    BY <2>0, <2>2, PipelineTypes, LineJoin
  <2>3. CASE UNCHANGED c2s
    BY <2>0, <2>3
  <2> QED
    BY <1>1, <2>1, <2>2, <2>3, ClientEffect
<1>2. CASE LoopStep \/ Crash \/ PeerPing \/ PeerError
  <2>1. CASE /\ c2s # <<>> /\ Head(c2s).type = "FRAME"
             /\ c2s' = Tail(c2s) /\ held' = Append(held, Head(c2s).frame) /\ UNCHANGED emitted
    <3>1. Head(c2s).frame \in Frames
      BY <2>1, PipelineTypes, HeadAndTail
    <3> QED
      BY <2>1, <3>1, PipelineTypes, LineRead
  <2>2. CASE /\ c2s' = c2s \/ c2s' = <<>> \/ (c2s # <<>> /\ c2s' = Tail(c2s))
             /\ held' = held \/ held' = <<>>
             /\ UNCHANGED emitted
    <3>1. InLine(emitted, held, c2s')
      BY <2>2, PipelineTypes, LineTail, LineLost
    <3> QED
      BY <2>2, <3>1, LineLost
  <2> QED
    BY <1>2, <2>1, <2>2, LoopEffect
<1>3. ASSUME NEW i \in DOMAIN held, Callback(i) \/ DropFrame(i)
      PROVE  LineInv'
  <2>1. i = 1 /\ held' = RemoveAt(held, 1) /\ UNCHANGED c2s
    BY <1>3, CallbackEffect
  <2> QED
    BY <1>3, <2>1, CallbackEffect, PipelineTypes, LineTake, LineEmit
<1>4. CASE UNCHANGED <<serverVars, c2s>>
  BY <1>4 DEF serverVars
<1> QED
  BY <1>1, <1>2, <1>3, <1>4 DEF Next, Terminated, vars, wireVars, ServerNext, PeerReset

\* Packets come out with increasing timestamps.
LEMMA RisingStep ==
    ASSUME ~Reorder, DisplayOrder, BaseInv, LineInv, Rising, ~torn', [Next]_vars
    PROVE  Rising'
<1>1. CASE UNCHANGED <<emitted, lastPts>>
  BY <1>1 DEF Rising
<1>2. ASSUME NEW i \in DOMAIN held, NEW p \in PacketMsg, p.frame = held[i], i = 1,
             emitted' = Append(emitted, p), lastPts' = Pts[held[i]], ~IsDuplicate(Pts[held[i]])
      PROVE  Rising'
  <2>1. /\ \A k \in DOMAIN emitted' : \/ k \in DOMAIN emitted /\ emitted'[k] = emitted[k]
                                      \/ k = Len(emitted) + 1 /\ emitted'[k] = p
        /\ Len(emitted') = Len(emitted) + 1 /\ emitted'[Len(emitted) + 1] = p
        /\ \A k, l \in DOMAIN emitted' : k < l => k \in DOMAIN emitted /\ emitted'[k] = emitted[k]
    BY <1>2, PipelineTypes
  <2>2. ASSUME NEW k \in DOMAIN emitted
        PROVE  Pts[emitted[k].frame] < Pts[p.frame]
    <3>1. Len(emitted) \in DOMAIN emitted /\ k \in Int /\ k <= Len(emitted)
      BY PipelineTypes
    <3>2. PICK q \in Frames : q = emitted[Len(emitted)].frame
      BY <3>1, PipelineTypes
    <3>3. lastPts = Pts[q]
      BY <3>1, <3>2 DEF Rising
    <3>4. p.frame \in Frames /\ q <= p.frame
      BY <1>2, <3>1, <3>2, PipelineTypes DEF LineInv, InLine
    <3>5. Pts[q] <= Pts[p.frame] /\ Pts[q] # Pts[p.frame]
      BY <1>2, <3>3, <3>4 DEF DisplayOrder, IsDuplicate
    <3>6. Pts[q] \in Int /\ Pts[p.frame] \in Int
      BY <3>4, PipelineTypes
    <3>7. CASE k = Len(emitted)
      BY <3>2, <3>5, <3>6, <3>7
    <3>8. CASE k # Len(emitted)
      <4>1. k < Len(emitted)
        BY <3>1, <3>8, PipelineTypes
      <4>2. Pts[emitted[k].frame] < Pts[q]
        BY <3>1, <3>2, <4>1 DEF Rising
      <4>3. emitted[k].frame \in Frames
        BY PipelineTypes
      <4> QED
        BY <3>5, <3>6, <4>2, <4>3, PipelineTypes
    <3> QED
      BY <3>7, <3>8
  <2>3. \A k, l \in DOMAIN emitted' : k < l => Pts[emitted'[k].frame] < Pts[emitted'[l].frame]
    BY <2>1, <2>2 DEF Rising
  <2>4. lastPts' = Pts[emitted'[Len(emitted')].frame]
    BY <1>2, <2>1
  <2> QED
    BY <2>3, <2>4 DEF Rising
<1>3. CASE ServerNext
  <2>1. CASE LoopStep \/ Crash \/ PeerPing \/ PeerError
    BY <1>1, <2>1, LoopEffect DEF trackerVars
  <2>2. ASSUME NEW i \in DOMAIN held, Callback(i) \/ DropFrame(i)
        PROVE  Rising'
    BY <1>1, <1>2, <2>2, CallbackEffect DEF trackerVars
  <2> QED
    BY <1>3, <2>1, <2>2 DEF ServerNext
<1>4. CASE UNCHANGED serverVars
  BY <1>1, <1>4 DEF serverVars
<1> QED
  BY <1>3, <1>4 DEF Next, Terminated, vars
-------------------------------------------------------------------------------
(***************************************************************************)
(* The session implements EncodeService.                                   *)
(***************************************************************************)
\* Where its frames and packets come from.
OriginsInv == CallsInv /\ PacketInv /\ (~torn => OriginInv)

\* Without B-frames also their order.
OrderInv == OriginsInv /\ (~Reorder /\ ~torn => LineInv /\ Rising)

\* The start.
LEMMA OrderStart ==
    ASSUME Init
    PROVE  OrderInv
<1>1. OriginInv /\ LineInv /\ Rising
  BY DEF Init, WireInit, ServerInit, OriginInv, FromSent, LineInv, InLine, Rising
<1> QED
  BY <1>1, CallsStart, PacketsStart DEF OriginsInv, OrderInv

\* Where frames come from, with B-frames or without.
LEMMA OriginsStep ==
    ASSUME OriginsInv, [Next]_vars
    PROVE  OriginsInv'
<1>1. CallsInv'
  BY CallsStep DEF OriginsInv
<1>2. PacketInv'
  BY BaseStep, EndsStep, StreamStep, ReceivedStep DEF OriginsInv, PacketInv
<1>3. ASSUME ~torn' PROVE OriginInv'
  BY <1>3, TornStays, OriginStep DEF OriginsInv, PacketInv
<1> QED
  BY <1>1, <1>2, <1>3 DEF OriginsInv

\* And their order, without B-frames.
LEMMA OrderStep ==
    ASSUME Reorder \/ DisplayOrder, OrderInv, [Next]_vars
    PROVE  OrderInv'
<1>1. OriginsInv'
  BY OriginsStep DEF OrderInv
<1>2. ASSUME ~Reorder, ~torn'
      PROVE  LineInv' /\ Rising'
  BY <1>2, TornStays, LineStep, RisingStep DEF OrderInv, OriginsInv, CallsInv, PacketInv
<1> QED
  BY <1>1, <1>2 DEF OrderInv

\* What a step of the client hands to the application: nothing or one packet.
LEMMA DeliveryEffect ==
    ASSUME BaseInv, ClientNext
    PROVE  \/ UNCHANGED delivered
           \/ /\ \E p \in PacketMsg : delivered' = Append(delivered, p)
              /\ pc \notin {"app", "closed"}
              /\ drained' = drained
<1>1. CASE PopAndSend
  <2>1. /\ Head(pktQueue) \in PacketMsg /\ pc = "submit"
        /\ delivered' = Append(delivered, Head(pktQueue))
    BY <1>1, ReceivedTypes, HeadAndTail DEF PopAndSend, Return
  <2>2. drained' = (drained \/ "OK" = "EOF" \/ (draining /\ <<Head(pktQueue)>> = <<>>))
    BY <1>1 DEF PopAndSend, Return
  <2>3. drained \in BOOLEAN /\ <<Head(pktQueue)>> # <<>> /\ "OK" # "EOF"
    BY DEF BaseInv, TypeOK, ClientTypeOK
  <2>4. drained' = drained
    BY <2>2, <2>3, Zenon
  <2> QED
    BY <2>1, <2>4
<1>2. CASE RecvPacket
  <2>1. pktQueue = <<>> /\ pc \in {"limit", "recv"}
    BY <1>2 DEF RecvPacket, Blocked, BaseInv, PassInv
  <2>2. PICK p \in PacketMsg : p = Head(s2c)
    BY <1>2, PacketAtHead DEF RecvPacket, BaseInv, TypeOK
  <2>3. Head(Enqueued(Head(s2c))) = p
    BY <2>1, <2>2 DEF Enqueued
  <2>4. CASE delivered' = Append(delivered, p) /\ drained' = drained
    BY <2>1, <2>4
  <2>5. CASE Return("OK", <<p>>)
    <3>1. delivered' = Append(delivered, p)
      BY <2>5, ReceivedTypes DEF Return
    <3>2. drained' = (drained \/ "OK" = "EOF" \/ (draining /\ <<p>> = <<>>))
      BY <2>5 DEF Return
    <3>3. drained \in BOOLEAN /\ <<p>> # <<>> /\ "OK" # "EOF"
      BY DEF BaseInv, TypeOK, ClientTypeOK
    <3>4. drained' = drained
      BY <3>2, <3>3, Zenon
    <3> QED
      BY <2>1, <3>1, <3>4
  <2> QED
    BY <1>2, <2>3, <2>4, <2>5 DEF RecvPacket
<1>3. CASE DrainFails \/ SubmitFails \/ RecvDone \/ RecvFails \/ RecvTimeout
  BY <1>3, NothingDelivered DEF DrainFails, SubmitFails, RecvDone, RecvFails, RecvTimeout
<1>4. CASE SubmitFrame \/ SendFlush
  BY <1>4, NothingDelivered DEF SubmitFrame, SendFlush, Goto
<1>5. CASE AppStep \/ DrainStop \/ DrainPacket \/ DrainDone \/ LimitReached \/ NothingToSend \/ Resend \/ AnswerPing
  BY <1>5
     DEF AppStep, EncodeFrame, StartDraining, DrainAgain, Close, DrainStop, DrainPacket, DrainDone,
         LimitReached, NothingToSend, Resend, AnswerPing, Goto, clientVars
<1> QED
  BY <1>1, <1>2, <1>3, <1>4, <1>5 DEF ClientNext, CallStep, Drain, Submit, Receive

\* The end of the stream is for good, nothing moves after it, and nothing
\* moves with it.
LEMMA EndEffect ==
    ASSUME BaseInv, CallInv, ClientNext
    PROVE  /\ drained => drained' /\ UNCHANGED <<sent, delivered>>
           /\ sent' # sent => draining = FALSE /\ drained' = drained
           /\ drained' \in BOOLEAN
<1>0. drained \in BOOLEAN /\ draining \in BOOLEAN
  BY DEF BaseInv, TypeOK, ClientTypeOK
<1>1. ASSUME NEW code, NEW pkts, Return(code, pkts)
      PROVE  drained' = (drained \/ code = "EOF" \/ (draining /\ pkts = <<>>))
  BY <1>1 DEF Return
<1>2. ASSUME drained
      PROVE  drained' /\ UNCHANGED <<sent, delivered>>
  <2>1. pc \in {"app", "closed"}
    BY <1>2 DEF CallInv
  <2>2. ~CallStep /\ ~RecvTimeout
    BY <2>1 DEF CallStep, Drain, DrainStop, DrainPacket, DrainDone, DrainFails, Submit, PopAndSend,
                SubmitFrame, SubmitFails, LimitReached, NothingToSend, Resend, SendFlush, Receive,
                RecvPacket, RecvDone, RecvFails, RecvTimeout, AnswerPing, Blocked
  <2> QED
    BY <1>2, <2>1, <2>2 DEF ClientNext, AppStep, EncodeFrame, StartDraining, DrainAgain, Close
<1>3. ASSUME sent' # sent
      PROVE  draining = FALSE /\ drained' = drained
  <2>1. SendFrame /\ arg # NoFrame /\ pc \in {"submit", "resend"}
    BY <1>3, ClientEffect
  <2>2. draining = FALSE
    BY <1>0, <2>1 DEF CallInv
  <2>3. CASE drained' = drained
    BY <2>2, <2>3
  <2>4. CASE \E pkts : Return("OK", pkts)
    <3>1. PICK pkts : Return("OK", pkts)
      BY <2>4
    <3>2. drained' = (drained \/ "OK" = "EOF" \/ (draining /\ pkts = <<>>)) /\ "OK" # "EOF"
      BY <1>1, <3>1
    <3> QED
      BY <1>0, <2>2, <3>2, Zenon
  <2>5. drained' = drained \/ \E pkts : Return("OK", pkts)
    <3>1. Resend \/ SubmitFrame \/ PopAndSend
      BY <1>3, <2>1 DEF ClientNext, AppStep, EncodeFrame, StartDraining, DrainAgain, Close,
                CallStep, Drain, DrainStop, DrainPacket, DrainDone, DrainFails, Submit,
                SubmitFails, LimitReached, NothingToSend, SendFlush, Receive, SendFrameFails,
                RecvPacket, RecvDone, RecvFails, RecvTimeout, AnswerPing, clientVars
    <3> QED
      BY <3>1 DEF Resend, SubmitFrame, PopAndSend, Goto
  <2> QED
    BY <2>3, <2>4, <2>5
<1>4. drained' \in BOOLEAN
  <2>1. CASE drained' = drained
    BY <1>0, <2>1
  <2>2. CASE \E code, pkts : Return(code, pkts)
    <3>1. PICK code, pkts : Return(code, pkts)
      BY <2>2
    <3> QED
      BY <1>1, <3>1, Zenon
  <2>3. CASE AppStep \/ DrainStop \/ DrainPacket \/ DrainDone \/ LimitReached \/ NothingToSend \/ Resend \/ AnswerPing
    <3>1. UNCHANGED drained
      BY <2>3
       DEF AppStep, EncodeFrame, StartDraining, DrainAgain, Close, DrainStop, DrainPacket, DrainDone,
         LimitReached, NothingToSend, Resend, AnswerPing, Goto, clientVars
    <3> QED
      BY <2>1, <3>1
  <2>4. CASE DrainFails \/ SubmitFails \/ RecvDone \/ RecvFails \/ RecvTimeout \/ SubmitFrame \/ SendFlush
             \/ PopAndSend \/ RecvPacket
    <3>1. drained' = drained \/ \E code, pkts : Return(code, pkts)
      BY <2>4 DEF DrainFails, SubmitFails, RecvDone, RecvFails, RecvTimeout, SubmitFrame, SendFlush,
              PopAndSend, RecvPacket, Goto
    <3> QED
      BY <2>1, <2>2, <3>1
  <2> QED
    BY <2>3, <2>4 DEF ClientNext, CallStep, Drain, Submit, Receive
<1> QED
  BY <1>2, <1>3, <1>4

\* The frames and the timestamps of packets.
Out(d) == [i \in DOMAIN d |-> [frame |-> d[i].frame, dts |-> d[i].dts]]

\* A sequence is a function on its places.
LEMMA SeqFunction ==
    ASSUME NEW S, NEW t \in Seq(S)
    PROVE  t \in [DOMAIN t -> S]
OBVIOUS

\* One packet more is one more of the service's.
LEMMA OutAppend ==
    ASSUME NEW d \in Seq(PacketMsg), NEW p \in PacketMsg
    PROVE  Out(Append(d, p)) = Append(Out(d), [frame |-> p.frame, dts |-> p.dts])
<1> DEFINE e(q) == [frame |-> q.frame, dts |-> q.dts]
           S == {e(q) : q \in PacketMsg}
<1>1. Out(d) \in Seq(S) /\ Len(Out(d)) = Len(d) /\ \A i \in DOMAIN d : Out(d)[i] = e(d[i])
  <2>1. DOMAIN d = 1 .. Len(d) /\ Len(d) \in Nat /\ \A i \in DOMAIN d : d[i] \in PacketMsg
    OBVIOUS
  <2>2. DOMAIN Out(d) = 1 .. Len(d) /\ \A i \in DOMAIN d : Out(d)[i] = e(d[i]) /\ Out(d)[i] \in S
    BY <2>1 DEF Out
  <2>3. Out(d) \in [1 .. Len(d) -> S]
    BY <2>1, <2>2 DEF Out
  <2> QED
    BY <2>1, <2>2, <2>3
<1>2. e(p) \in S
  OBVIOUS
<1> HIDE DEF e, S
<1>3. DOMAIN Append(d, p) = 1 .. Len(d) + 1
  OBVIOUS
<1>4. DOMAIN Append(Out(d), e(p)) = 1 .. Len(d) + 1
  BY <1>1, <1>2
<1>5. \A i \in 1 .. Len(d) + 1 : Append(Out(d), e(p))[i] = e(Append(d, p)[i])
  <2> SUFFICES ASSUME NEW i \in 1 .. Len(d) + 1 PROVE Append(Out(d), e(p))[i] = e(Append(d, p)[i])
    OBVIOUS
  <2>1. CASE i = Len(d) + 1
    BY <1>1, <1>2, <2>1
  <2>2. CASE i # Len(d) + 1
    <3>1. i \in DOMAIN d /\ i \in 1 .. Len(d)
      BY <2>2
    <3>2. Append(d, p)[i] = d[i]
      BY <3>1
    <3>3. Append(Out(d), e(p))[i] = Out(d)[i]
      BY <1>1, <1>2, <3>1
    <3> QED
      BY <1>1, <3>1, <3>2, <3>3
  <2> QED
    BY <2>1, <2>2
<1>6. Out(Append(d, p)) = [i \in 1 .. Len(d) + 1 |-> e(Append(d, p)[i])]
  BY <1>3 DEF Out, e
<1>7. Append(Out(d), e(p)) = [i \in 1 .. Len(d) + 1 |-> Append(Out(d), e(p))[i]]
  <2>0. Append(Out(d), e(p)) \in Seq(S)
    BY <1>1, <1>2
  <2>1. PICK t \in Seq(S) : t = Append(Out(d), e(p)) /\ DOMAIN t = 1 .. Len(d) + 1
    BY <1>4, <2>0
  <2>2. t \in [1 .. Len(d) + 1 -> S]
    BY <2>1, SeqFunction
  <2>3. t = [i \in 1 .. Len(d) + 1 |-> t[i]]
    BY <2>1, <2>2
  <2> QED
    BY <2>1, <2>3, Zenon
<1>8. Out(Append(d, p)) = Append(Out(d), e(p))
  BY <1>5, <1>6, <1>7, Zenon
<1> QED
  BY <1>8 DEF e

\* The packet that the application gets is one the service may give.
LEMMA PacketIsGiven ==
    ASSUME Reorder \/ DisplayOrder, OrderInv, OrderInv', ~torn, UNCHANGED emitted,
           NEW p \in PacketMsg, delivered' = Append(delivered, p)
    PROVE  Service!Gives(p.frame, p.dts) /\ p.dts = Pts[p.frame]
<1>1. delivered \in Seq(PacketMsg) /\ emitted \in Seq(PacketMsg) /\ Len(delivered) \in Nat
  BY ReceivedTypes, PipelineTypes DEF OrderInv, OriginsInv, PacketInv
<1>2. /\ Len(delivered) + 1 \in DOMAIN delivered'
      /\ delivered'[Len(delivered) + 1] = p
      /\ \A i \in DOMAIN delivered : i \in DOMAIN delivered' /\ delivered'[i] = delivered[i]
      /\ \A i \in DOMAIN delivered : i < Len(delivered) + 1
      /\ Len(delivered') = Len(delivered) + 1
  BY <1>1
<1>3. Len(delivered') <= Len(emitted)
  <2>1. /\ Len(delivered') + Len(pktQueue') = packetsRecv' /\ Len(emitted') = packetsOut'
        /\ packetsRecv' <= packetsOut' /\ Len(pktQueue') \in Nat /\ packetsRecv' \in Nat /\ packetsOut' \in Nat
    BY DEF OrderInv, OriginsInv, PacketInv, Received, Stream, BaseInv, PassInv, TypeOK, ClientTypeOK, ServerTypeOK
  <2> QED
    BY <1>1, <1>2, <2>1
<1>4. /\ p = emitted[Len(delivered) + 1]
      /\ \A i \in DOMAIN delivered : delivered[i] = emitted[i] /\ i \in DOMAIN emitted
      /\ Len(delivered) + 1 \in DOMAIN emitted
  BY <1>1, <1>2, <1>3 DEF OrderInv, OriginsInv, PacketInv, Received
<1>5. p.frame \in ToSet(sent) /\ p.dts = Pts[p.frame]
  BY <1>4 DEF OrderInv, OriginsInv, OriginInv
<1>6. p.frame \in Frames /\ Pts[p.frame] \in Int /\ \A f \in Frames : Pts[f] \in Int
  BY PipelineTypes DEF OrderInv, OriginsInv, PacketInv
<1>7. ASSUME ~Reorder, NEW i \in DOMAIN delivered
      PROVE  /\ p.frame > delivered[i].frame /\ p.dts > delivered[i].dts
             /\ Pts[p.frame] # Pts[delivered[i].frame]
  <2>1. PICK q \in PacketMsg : q = delivered[i] /\ q = emitted[i] /\ q.frame \in Frames /\ q.dts = Pts[q.frame]
    BY <1>1, <1>4, <1>7, PipelineTypes DEF OrderInv, OriginsInv, PacketInv, OriginInv
  <2>2. Pts[q.frame] < Pts[p.frame]
    BY <1>2, <1>4, <1>7, <2>1 DEF OrderInv, Rising
  <2>3. Pts[q.frame] \in Int /\ q.frame \in Int /\ p.frame \in Int
    BY <1>6, <2>1 DEF Frames
  <2>4. ~(p.frame <= q.frame)
    <3>1. p.frame <= q.frame => Pts[p.frame] <= Pts[q.frame]
      BY <1>6, <1>7, <2>1 DEF DisplayOrder
    <3> QED
      BY <1>6, <2>2, <2>3, <3>1
  <2> QED
    BY <1>5, <1>6, <2>1, <2>2, <2>3, <2>4
<1>8. Out(delivered)' = Append(Out(delivered), [frame |-> p.frame, dts |-> p.dts])
  BY <1>1, OutAppend
<1>9. p.dts <= Pts[p.frame]
  BY <1>5, <1>6
<1>10. DOMAIN Out(delivered) = DOMAIN delivered
       /\ \A i \in DOMAIN delivered : Out(delivered)[i].frame = delivered[i].frame
                                    /\ Out(delivered)[i].dts = delivered[i].dts
  BY DEF Out
<1>11. Service!Gives(p.frame, p.dts)
  BY <1>5, <1>7, <1>8, <1>9, <1>10 DEF Service!Gives, Out
<1> QED
  BY <1>5, <1>11

\* The frame of a FRAME goes in.
LEMMA FrameIsTaken ==
    ASSUME BaseInv, SendFrame, arg # NoFrame
    PROVE  Service!Takes(arg) /\ arg \in Frames
<1>1. sent \in Seq(Frames) /\ arg \in Frames /\ sent' = Append(sent, arg)
  BY DEF SendFrame, BaseInv, TypeOK, ClientTypeOK
<1>2. /\ \A i \in DOMAIN sent : i \in DOMAIN sent' /\ sent'[i] = sent[i]
      /\ \A i \in DOMAIN sent' : i \in DOMAIN sent \/ sent'[i] = arg
      /\ \E i \in DOMAIN sent' : sent'[i] = arg
  BY <1>1
<1>3. ToSet(sent)' = ToSet(sent) \cup {arg}
  BY <1>2 DEF ToSet
<1> QED
  BY <1>1, <1>3 DEF Service!Takes, ToSet

\* What was given stays given when packets are added.
LEMMA OutPrefix ==
    ASSUME NEW d \in Seq(PacketMsg), NEW t \in Seq(PacketMsg),
           t = d \/ \E p \in PacketMsg : t = Append(d, p)
    PROVE  IsPrefix(Out(d), Out(t))
<1> DEFINE S == {[frame |-> q.frame, dts |-> q.dts] : q \in PacketMsg}
           o == Out(d)
<1>1. o \in Seq(S)
  <2>1. DOMAIN d = 1 .. Len(d) /\ Len(d) \in Nat /\ \A i \in DOMAIN d : d[i] \in PacketMsg
    OBVIOUS
  <2>2. o \in [1 .. Len(d) -> S]
    BY <2>1 DEF Out
  <2> QED
    BY <2>1, <2>2
<1>2. Out(t) = o \/ \E e \in S : Out(t) = Append(o, e)
  BY OutAppend
<1> HIDE DEF S, o
<1>3. ASSUME NEW e \in S
      PROVE  /\ Append(o, e) \in Seq(S) /\ Len(o) <= Len(Append(o, e))
             /\ \A i \in DOMAIN o : o[i] = Append(o, e)[i]
  BY <1>1
<1>4. Len(o) <= Len(o)
  BY <1>1
<1>5. IsPrefix(o, Out(t))
  BY <1>1, <1>2, <1>3, <1>4, PrefixByElements
<1> QED
  BY <1>5 DEF o

\* From the step that tears the stream on the service promises little.
LEMMA TornService ==
    ASSUME CallsInv, BaseInv, [Next]_vars, torn'
    PROVE  Service!Torn
<1>1. CallInv
  BY DEF CallsInv
<1>2. \/ ClientNext
      \/ UNCHANGED clientVars
  BY DEF Next, Terminated, vars
<1>3. drained \in BOOLEAN /\ drained' \in BOOLEAN /\ torn' = TRUE
  BY TypeStep DEF BaseInv, TypeOK, WireTypeOK, ClientTypeOK
<1>4. ToSet(sent) \subseteq ToSet(sent')
  <2>1. CASE SendFrame /\ arg # NoFrame
    <3>1. sent' = Append(sent, arg) /\ sent \in Seq(Frames) /\ arg \in Frames
      BY <2>1 DEF SendFrame, BaseInv, TypeOK, ClientTypeOK
    <3> QED
      BY <3>1, AppendedIsThere
  <2> QED
    BY <1>2, <2>1, ClientEffect DEF clientVars
<1>5. IsPrefix(Out(delivered), Out(delivered'))
  <2>1. delivered \in Seq(PacketMsg)
    BY ReceivedTypes
  <2>2. delivered' = delivered \/ \E p \in PacketMsg : delivered' = Append(delivered, p)
    BY <1>2, DeliveryEffect DEF clientVars
  <2>3. delivered' \in Seq(PacketMsg)
    BY <2>1, <2>2
  <2> QED
    BY <2>1, <2>2, <2>3, OutPrefix
<1>6. drained => drained' = TRUE /\ delivered' = delivered
  BY <1>1, <1>2, <1>3, EndEffect DEF clientVars
<1> DEFINE out == [i \in DOMAIN delivered |->
                      [frame |-> delivered[i].frame, dts |-> delivered[i].dts]]
<1>7. IsPrefix(out, out')
  BY <1>5 DEF Out
<1>8. drained => drained' = TRUE /\ out' = out
  BY <1>6
<1> HIDE DEF out
<1>9. /\ torn' = TRUE
      /\ ToSet(sent) \subseteq ToSet(sent')
      /\ IsPrefix(out, out')
      /\ drained => drained' = TRUE /\ out' = out
  BY <1>3, <1>4, <1>7, <1>8, Zenon
<1>10. ToSet(sent)' = ToSet(sent') /\ Service!IsPrefix(out, out') = IsPrefix(out, out')
  BY DEF IsPrefix, Service!IsPrefix, ToSet
<1> QED
  BY <1>9, <1>10, Zenon DEF Service!Torn, out

\* Every step of a session is one of the service, or a stutter.
LEMMA ServiceStep ==
    ASSUME Reorder \/ DisplayOrder, OrderInv, [Next]_vars
    PROVE  [Service!Next]_(Service!vars)
<1>0. BaseInv /\ CallInv /\ OrderInv'
  BY OrderStep DEF OrderInv, OriginsInv, PacketInv, CallsInv
<1>a. CASE torn'
  BY <1>0, <1>a, TornService DEF OrderInv, OriginsInv, CallsInv, Service!Next
<1> SUFFICES ASSUME ~torn' PROVE [Service!Next]_(Service!vars)
  BY <1>a
<1>b. ~torn /\ UNCHANGED torn
  BY TornStays, TypeStep DEF OrderInv, OriginsInv, PacketInv, BaseInv, TypeOK, WireTypeOK
<1>1. CASE UNCHANGED clientVars
  BY <1>1, <1>b DEF clientVars, Service!vars
<1>2. CASE ClientNext /\ UNCHANGED serverVars
  <2>0. UNCHANGED emitted /\ drained \in BOOLEAN /\ drained' \in BOOLEAN
    BY <1>0, <1>2, EndEffect DEF serverVars, BaseInv, TypeOK, ClientTypeOK
  <2>1. CASE UNCHANGED <<sent, delivered>>
    <3>1. CASE drained' = drained
      BY <1>b, <2>1, <3>1 DEF Service!vars
    <3>2. CASE ~drained /\ drained'
      <4>1. Service!End
        BY <2>0, <2>1, <3>2, Zenon DEF Service!End
      <4> QED
        BY <1>b, <4>1 DEF Service!Next, Service!Serve
    <3> QED
      BY <1>0, <1>2, <2>0, <3>1, <3>2, EndEffect
  <2>2. CASE sent' # sent
    <3>1. SendFrame /\ arg # NoFrame
      BY <1>0, <1>2, <2>2, ClientEffect
    <3>2. Service!Takes(arg) /\ arg \in Frames
      BY <1>0, <3>1, FrameIsTaken
    <3>3. ~drained /\ drained' = drained
      BY <1>0, <1>2, <2>2, EndEffect
    <3>4. CASE UNCHANGED delivered
      <4>1. Service!Accept(arg)
        BY <3>2, <3>3, <3>4 DEF Service!Accept
      <4> QED
        BY <1>b, <3>2, <4>1 DEF Service!Next, Service!Serve
    <3>5. ASSUME NEW p \in PacketMsg, delivered' = Append(delivered, p)
          PROVE  Service!Next
      <4>1. Service!Gives(p.frame, p.dts) /\ p.dts = Pts[p.frame]
        BY <1>0, <1>b, <2>0, <3>5, PacketIsGiven
      <4>2. p.frame \in Frames
        BY <1>0, PipelineTypes
      <4>3. Service!Exchange(arg, p.frame, p.dts)
        BY <3>2, <3>3, <4>1 DEF Service!Exchange
      <4>4. \E f \in Frames : \E dts \in {Pts[g] : g \in Frames} : \E g \in Frames : Service!Exchange(g, f, dts)
        BY <3>2, <4>1, <4>2, <4>3
      <4> QED
        BY <1>b, <4>4 DEF Service!Next, Service!Serve
    <3> QED
      BY <1>0, <1>2, <3>4, <3>5, DeliveryEffect
  <2>3. ASSUME UNCHANGED sent, delivered' # delivered
        PROVE  Service!Next
    <3>1. PICK p \in PacketMsg : delivered' = Append(delivered, p) /\ drained' = drained
      BY <1>0, <1>2, <2>3, DeliveryEffect
    <3>2. Service!Gives(p.frame, p.dts) /\ p.dts = Pts[p.frame]
      BY <1>0, <1>b, <2>0, <3>1, PacketIsGiven
    <3>3. p.frame \in Frames
      BY <1>0, PipelineTypes
    <3>4. ~drained
      BY <1>0, <1>2, <2>3, EndEffect
    <3>5. Service!Output(p.frame, p.dts)
      BY <2>3, <3>1, <3>2, <3>4 DEF Service!Output
    <3>6. \E f \in Frames : \E dts \in {Pts[g] : g \in Frames} : Service!Output(f, dts)
      BY <3>2, <3>3, <3>5
    <3> QED
      BY <1>b, <3>6 DEF Service!Next, Service!Serve
  <2> QED
    BY <2>1, <2>2, <2>3
<1> QED
  BY <1>1, <1>2 DEF Next, Terminated, vars

\* An encode session implements EncodeService: with B-frames for any timestamps,
\* without them for frames in display order, packets come out only for frames
\* that went in, each timestamp once, in order, with increasing DTS not past the
\* PTS, and none after the end, whatever times out, fails, is lost or is sent
\* twice.  Once a message was written in part only it is left that the packets
\* that came out stay, and that none comes after the end.
THEOREM SessionEncodesInOrder ==
    ASSUME Reorder \/ DisplayOrder
    PROVE  Spec => EncodesInOrder
<1>1. Init => OrderInv
  BY OrderStart
<1>2. OrderInv /\ [Next]_vars => OrderInv'
  BY OrderStep
<1>3. Init => Service!Init
  <2> SUFFICES ASSUME Init PROVE Service!Init
    OBVIOUS
  <2>1. torn = FALSE /\ drained = FALSE
    BY Zenon DEF Init, WireInit, ClientInit
  <2>2. sent = <<>> /\ delivered = <<>>
    BY DEF Init, ClientInit
  <2>3. ToSet(sent) = {}
    BY <2>2 DEF ToSet
  <2>4. [i \in DOMAIN delivered |-> [frame |-> delivered[i].frame, dts |-> delivered[i].dts]] = <<>>
    BY <2>2
  <2> QED
    BY <2>1, <2>3, <2>4, Zenon DEF Service!Init
<1>4. OrderInv /\ [Next]_vars => [Service!Next]_(Service!vars)
  BY ServiceStep
<1> QED
  BY <1>1, <1>2, <1>3, <1>4, PTL DEF Spec, EncodesInOrder, Service!Spec
-------------------------------------------------------------------------------
(***************************************************************************)
(* A client that has read DONE has all packets.                            *)
(***************************************************************************)

\* Other elements stay when one is taken out.
LEMMA RemoveAtKeeps ==
    ASSUME NEW S, NEW s \in Seq(S), NEW i \in DOMAIN s, NEW j \in DOMAIN s, i # j
    PROVE  \E k \in DOMAIN RemoveAt(s, i) : RemoveAt(s, i)[k] = s[j]
<1> DEFINE r == RemoveAt(s, i)
<1>1. r \in Seq(S) /\ Len(r) = Len(s) - 1
  BY RemoveAtShortens
<1>2. i \in Int /\ j \in Int /\ 1 <= i /\ i <= Len(s) /\ 1 <= j /\ j <= Len(s) /\ Len(s) \in Int
  OBVIOUS
<1>3. \A k \in DOMAIN r : (k < i /\ r[k] = s[k]) \/ (k >= i /\ r[k] = s[k + 1])
  BY RemoveAtPlaces
<1> HIDE DEF r
<1>4. CASE j < i
  <2>1. j \in DOMAIN r
    BY <1>1, <1>2, <1>4
  <2> QED
    BY <1>2, <1>3, <1>4, <2>1 DEF r
<1>5. CASE j > i
  <2>1. j - 1 \in DOMAIN r /\ j - 1 + 1 = j /\ ~(j - 1 < i)
    BY <1>1, <1>2, <1>5
  <2> QED
    BY <1>3, <2>1 DEF r
<1> QED
  BY <1>2, <1>4, <1>5

\* What is not the head of a sequence is in its tail.
LEMMA TailReaches ==
    ASSUME NEW S, NEW s \in Seq(S), s # <<>>, NEW i \in DOMAIN s, i # 1
    PROVE  \E j \in DOMAIN Tail(s) : Tail(s)[j] = s[i]
<1>1. i - 1 \in DOMAIN Tail(s) /\ i - 1 + 1 = i
  OBVIOUS
<1>2. Tail(s)[i - 1] = s[i - 1 + 1]
  BY <1>1, HeadAndTail
<1> QED
  BY <1>1, <1>2

\* What was emitted stays so.
LEMMA EmittedStays ==
    ASSUME BaseInv, ~torn', [Next]_vars
    PROVE  \A k \in DOMAIN emitted : k \in DOMAIN emitted' /\ emitted'[k] = emitted[k]
<1>1. CASE UNCHANGED emitted
  BY <1>1
<1>2. ASSUME NEW p \in PacketMsg, emitted' = Append(emitted, p)
      PROVE  \A k \in DOMAIN emitted : k \in DOMAIN emitted' /\ emitted'[k] = emitted[k]
  BY <1>2, PipelineTypes, AppendPlaces
<1>3. CASE ServerNext
  BY <1>1, <1>2, <1>3, LoopEffect, CallbackEffect DEF ServerNext
<1> QED
  BY <1>1, <1>3 DEF Next, Terminated, vars, serverVars

\* What a step of the server's loop does to the frames while the connection
\* stays open.
LEMMA LoopKeepsFrames ==
    ASSUME BaseInv, ~torn', LoopStep \/ Crash \/ PeerPing \/ PeerError
    PROVE  \/ s2cEnd' = "fin" /\ srv' = "closed"
           \/ /\ UNCHANGED s2cEnd
              /\ \/ /\ c2s # <<>> /\ Head(c2s).type = "FRAME"
                    /\ c2s' = Tail(c2s) /\ held' = Append(held, Head(c2s).frame)
                 \/ /\ \/ c2s' = c2s
                       \/ c2s # <<>> /\ c2s' = Tail(c2s) /\ Head(c2s).type # "FRAME"
                    /\ held' = held
<1>1. ~ReadGarbled /\ ~ReadBroken
  BY NothingGarbled DEF BaseInv, TypeOK
<1> QED
  BY <1>1 DEF LoopStep, ReadFrame, RejectFrame, ReadFlush, ReadOther, SendDone, Shutdown, Crash, PeerPing,
              PeerError, ServerCloses, ServerSees, serverVars

\* A frame is somewhere.
LEMMA WhereStep ==
    ASSUME "drop" \notin Faults, BaseInv, ~torn', WhereInv, [Next]_vars
    PROVE  WhereInv'
<1> USE PipelineTypes
<1>0. \A f : Emitted(f) => Emitted(f)'
  BY EmittedStays DEF Emitted
<1>1. CASE ClientNext /\ UNCHANGED serverVars
  <2>0. UNCHANGED <<held, emitted, lastPts, s2cEnd>> /\ \A f : Kept(f) => Kept(f)'
    <3>1. UNCHANGED <<held, emitted, lastPts, s2cEnd>>
      BY <1>1 DEF serverVars, ClientNext, AppStep, EncodeFrame, StartDraining, DrainAgain, Close,
                ClientCloses, CallStep, Drain, DrainStop, DrainPacket, DrainDone, DrainFails, Submit,
                PopAndSend, SubmitFrame, SubmitFails, LimitReached, NothingToSend, Resend, SendFlush,
                Receive, RecvPacket, RecvDone, RecvFails, RecvTimeout, AnswerPing, wireVars
    <3> QED
      BY <3>1 DEF Kept
  <2>1. \A f : OnTheWay(f) => OnTheWay(f)'
    <3>1. UNCHANGED c2s \/ \E m \in ClientMsg : c2s' = Append(c2s, m)
      <4>1. SendFrame /\ arg # NoFrame => UNCHANGED c2s \/ \E m \in ClientMsg : c2s' = Append(c2s, m)
        <5> SUFFICES ASSUME SendFrame, arg # NoFrame, ~UNCHANGED c2s PROVE \E m \in ClientMsg : c2s' = Append(c2s, m)
          OBVIOUS
        <5>1. [type |-> "FRAME", ord |-> Len(sent) + 1, frame |-> arg] \in ClientMsg
          BY DEF ClientMsg, FrameMsg, BaseInv, TypeOK, ClientTypeOK, NoFrame
        <5> QED
          BY <5>1 DEF SendFrame, ClientSend
      <4> QED
        BY <1>1, <4>1, ClientEffect
    <3>2. \A i \in DOMAIN c2s : i \in DOMAIN c2s' /\ c2s'[i] = c2s[i]
      <4>1. ASSUME NEW m \in ClientMsg, c2s' = Append(c2s, m)
            PROVE  \A i \in DOMAIN c2s : i \in DOMAIN c2s' /\ c2s'[i] = c2s[i]
        BY <4>1, AppendPlaces
      <4> QED
        BY <3>1, <4>1
    <3> QED
      BY <3>2 DEF OnTheWay
  <2>2. CASE UNCHANGED sent
    BY <1>0, <2>0, <2>1, <2>2 DEF WhereInv
  <2>3. CASE SendFrame /\ arg # NoFrame
    <3>1. PICK g \in Frames : g = arg /\ sent' = Append(sent, g)
      BY <2>3 DEF SendFrame, BaseInv, TypeOK, ClientTypeOK
    <3>2. \A f \in ToSet(sent') : f \in ToSet(sent) \/ f = g
      BY <3>1, AppendPlaces DEF ToSet
    <3>3. s2cEnd = "open" => OnTheWay(g)'
      <4> SUFFICES ASSUME s2cEnd = "open" PROVE OnTheWay(g)'
        OBVIOUS
      <4>1. PICK m \in ClientMsg : m.type = "FRAME" /\ m.frame = g /\ c2s' = Append(c2s, m)
        <5>1. [type |-> "FRAME", ord |-> Len(sent) + 1, frame |-> arg] \in ClientMsg
          BY <3>1 DEF ClientMsg, FrameMsg
        <5> QED
          BY <2>3, <3>1, <5>1 DEF SendFrame, ClientSend
      <4>2. Len(c2s) + 1 \in DOMAIN c2s' /\ c2s'[Len(c2s) + 1] = m
        BY <4>1, AppendPlaces
      <4> QED
        BY <4>1, <4>2 DEF OnTheWay
    <3> QED
      BY <1>0, <2>0, <2>1, <3>2, <3>3 DEF WhereInv
  <2> QED
    BY <1>1, <2>2, <2>3, ClientEffect
<1>2. CASE (LoopStep \/ Crash \/ PeerPing \/ PeerError) /\ UNCHANGED clientVars
  <2>0. UNCHANGED <<emitted, lastPts, sent>>
    BY <1>2, LoopEffect DEF trackerVars, clientVars
  <2>1. CASE s2cEnd' = "fin"
    BY <2>0, <2>1 DEF WhereInv
  <2>2. CASE /\ UNCHANGED s2cEnd
             /\ c2s # <<>> /\ Head(c2s).type = "FRAME"
             /\ c2s' = Tail(c2s) /\ held' = Append(held, Head(c2s).frame)
    <3>1. PICK g \in Frames : g = Head(c2s).frame /\ Head(c2s) = c2s[1]
      BY <2>2, HeadAndTail
    <3>2. /\ \A i \in DOMAIN held : i \in DOMAIN held' /\ held'[i] = held[i]
          /\ \E i \in DOMAIN held' : held'[i] = g
      BY <2>2, <3>1, AppendPlaces
    <3>3. \A i \in DOMAIN c2s : i = 1 \/ \E j \in DOMAIN c2s' : c2s'[j] = c2s[i]
      BY <2>2, TailReaches
    <3>4. \A f : OnTheWay(f) => OnTheWay(f)' \/ Kept(f)'
      BY <3>1, <3>2, <3>3 DEF OnTheWay, Kept
    <3>5. \A f : Kept(f) => Kept(f)'
      BY <3>2 DEF Kept
    <3> QED
      BY <1>0, <2>0, <2>2, <3>4, <3>5 DEF WhereInv
  <2>3. CASE /\ UNCHANGED <<s2cEnd, held>>
             /\ c2s' = c2s \/ (c2s # <<>> /\ c2s' = Tail(c2s) /\ Head(c2s).type # "FRAME")
    <3>1. \A i \in DOMAIN c2s : c2s[i].type # "FRAME" \/ \E j \in DOMAIN c2s' : c2s'[j] = c2s[i]
      <4>1. CASE c2s # <<>> /\ c2s' = Tail(c2s) /\ Head(c2s).type # "FRAME"
        <5>1. Head(c2s) = c2s[1]
          BY <4>1, HeadAndTail
        <5> QED
          BY <4>1, <5>1, TailReaches
      <4> QED
        BY <2>3, <4>1
    <3>2. \A f : OnTheWay(f) => OnTheWay(f)'
      BY <3>1 DEF OnTheWay
    <3>3. \A f : Kept(f) => Kept(f)'
      BY <2>3 DEF Kept
    <3> QED
      BY <1>0, <2>0, <2>3, <3>2, <3>3 DEF WhereInv
  <2> QED
    BY <1>2, <2>1, <2>2, <2>3, LoopKeepsFrames
<1>3. ASSUME NEW i \in DOMAIN held, Callback(i), UNCHANGED clientVars
      PROVE  WhereInv'
  <2>a. PICK g \in Frames : g = held[i]
    OBVIOUS
  <2>0. held' = RemoveAt(held, i) /\ UNCHANGED <<sent, c2s, s2cEnd>>
    BY <1>3, CallbackEffect DEF clientVars, Callback, EmitPacket, SkipPacket, wireVars
  <2>1. \A f : Kept(f) => f = g \/ Kept(f)'
    BY <2>0, <2>a, RemoveAtKeeps DEF Kept
  <2>2. \A f : OnTheWay(f) => OnTheWay(f)'
    BY <2>0 DEF OnTheWay
  <2>3. /\ Emitted(g)'
        /\ lastPts' # MinTicks => \E k \in DOMAIN emitted' : Pts[emitted'[k].frame] = lastPts'
    <3>1. CASE SkipPacket(i)
      <4>1. UNCHANGED <<emitted, lastPts>> /\ lastPts # MinTicks /\ Pts[g] = lastPts
        BY <2>a, <3>1 DEF SkipPacket, SkipSample, IsDuplicate, trackerVars
      <4> QED
        BY <4>1 DEF WhereInv, Emitted
    <3>2. ASSUME NEW p \in PacketMsg, p.frame = g, emitted' = Append(emitted, p), lastPts' = Pts[g]
          PROVE  Emitted(g)' /\ \E k \in DOMAIN emitted' : Pts[emitted'[k].frame] = lastPts'
      <4>1. Len(emitted) + 1 \in DOMAIN emitted' /\ emitted'[Len(emitted) + 1] = p
        BY <3>2, AppendPlaces
      <4> QED
        BY <3>2, <4>1 DEF Emitted
    <3>3. CASE EmitPacket(i)
      <4>1. emitted' # emitted
        <5>1. \E p : emitted' = Append(emitted, p)
          BY <3>3 DEF EmitPacket
        <5> QED
          BY <5>1
      <4> QED
        BY <1>3, <2>a, <3>2, <4>1, CallbackEffect
    <3> QED
      BY <1>3, <3>1, <3>3 DEF Callback
  <2> QED
    BY <1>0, <2>0, <2>1, <2>2, <2>3 DEF WhereInv
<1>4. CASE PeerReset /\ UNCHANGED <<clientVars, serverVars>>
  BY <1>4 DEF PeerReset, WhereInv, clientVars, serverVars, OnTheWay, Kept, Emitted
<1>5. CASE UNCHANGED vars
  BY <1>5 DEF WhereInv, vars, clientVars, serverVars, wireVars, OnTheWay, Kept, Emitted
<1>6. ASSUME NEW i \in DOMAIN held
      PROVE  ~DropFrame(i)
  BY DEF DropFrame
<1> QED
  BY <1>1, <1>2, <1>3, <1>4, <1>5, <1>6 DEF Next, Terminated, ServerNext
-------------------------------------------------------------------------------
\* A sequence that Closes stays so when it grows or loses its head.
LEMMA ClosesAppend ==
    ASSUME NEW S, NEW s \in Seq(S), NEW m \in S, NEW t, NEW u, Closes(s, t, u), t # u,
           m.type = u => ~Comes(s, t)
    PROVE  Closes(Append(s, m), t, u)
<1>1. \A i \in DOMAIN Append(s, m) :
         \/ i \in DOMAIN s /\ Append(s, m)[i] = s[i]
         \/ i = Len(s) + 1 /\ Append(s, m)[i] = m
  BY AppendPlaces
<1>2. \A i \in DOMAIN s : i \in Int /\ i < Len(s) + 1
  OBVIOUS
<1> QED
  BY <1>1, <1>2 DEF Closes, Comes

\* Reading a message keeps the order; after one of type t there is none of u.
LEMMA ClosesTail ==
    ASSUME NEW S, NEW s \in Seq(S), s # <<>>, NEW t, NEW u, Closes(s, t, u)
    PROVE  /\ Closes(Tail(s), t, u)
           /\ Comes(Tail(s), t) => Comes(s, t)
           /\ Head(s).type = t /\ t # u => ~Comes(s, u)
<1>1. /\ Head(s) = s[1] /\ 1 \in DOMAIN s
      /\ \A i \in DOMAIN Tail(s) : i \in Int /\ i + 1 \in DOMAIN s /\ Tail(s)[i] = s[i + 1]
  BY HeadAndTail
<1>2. \A i \in DOMAIN s : i \in Int /\ 1 <= i
  OBVIOUS
<1>3. Closes(Tail(s), t, u)
  <2> SUFFICES ASSUME NEW i \in DOMAIN Tail(s), NEW j \in DOMAIN Tail(s),
                      Tail(s)[i].type = t, Tail(s)[j].type = u
               PROVE  j < i
    BY DEF Closes
  <2>1. j + 1 < i + 1
    BY <1>1 DEF Closes
  <2> QED
    BY <1>1, <2>1
<1>4. Comes(Tail(s), t) => Comes(s, t)
  BY <1>1 DEF Comes
<1>5. ASSUME Head(s).type = t, t # u, NEW j \in DOMAIN s, s[j].type = u
      PROVE  FALSE
  <2>1. j < 1
    BY <1>1, <1>5 DEF Closes
  <2> QED
    BY <1>2, <2>1
<1> QED
  BY <1>3, <1>4, <1>5 DEF Comes

\* A message more.
LEMMA ComesAppend ==
    ASSUME NEW S, NEW s \in Seq(S), NEW m \in S, NEW t
    PROVE  Comes(Append(s, m), t) <=> Comes(s, t) \/ m.type = t
BY AppendPlaces DEF Comes

\* An empty direction.
LEMMA NothingComes ==
    ASSUME NEW t, NEW u
    PROVE  Closes(<<>>, t, u) /\ ~Comes(<<>>, t)
BY DEF Closes, Comes

\* What the client writes: FRAMEs before it drains, FLUSHes after.
LEMMA ClientWrites ==
    ASSUME BaseInv, ~torn', CallInv, ClientNext
    PROVE  /\ draining => draining' /\ UNCHANGED sent
           /\ \/ UNCHANGED c2s
              \/ \E m \in ClientMsg : /\ c2s' = Append(c2s, m)
                                      /\ m.type = "FLUSH" => draining
                                      /\ m.type = "FRAME" => ~draining /\ ~draining'
<1>0. draining \in BOOLEAN
  BY DEF BaseInv, TypeOK, ClientTypeOK
<1>1. UNCHANGED draining \/ StartDraining
  BY DEF ClientNext, AppStep, EncodeFrame, DrainAgain, Close, CallStep, Drain, DrainStop, DrainPacket,
         DrainDone, DrainFails, Submit, PopAndSend, SubmitFrame, SubmitFails, LimitReached, NothingToSend,
         Resend, SendFlush, Receive, RecvPacket, RecvDone, RecvFails, RecvTimeout, AnswerPing,
         Goto, Return, clientVars
<1>2. draining => draining'
  BY <1>1 DEF StartDraining
<1>3. CASE SendFrame /\ arg # NoFrame /\ pc \in {"submit", "resend"}
  <2>1. ~draining /\ ~draining'
    BY <1>1, <1>3 DEF CallInv, StartDraining
  <2>2. [type |-> "FRAME", ord |-> Len(sent) + 1, frame |-> arg] \in ClientMsg
    BY <1>3 DEF ClientMsg, FrameMsg, BaseInv, TypeOK, ClientTypeOK, NoFrame
  <2>3. UNCHANGED c2s \/ c2s' = Append(c2s, [type |-> "FRAME", ord |-> Len(sent) + 1, frame |-> arg])
    BY <1>3 DEF SendFrame, ClientSend
  <2> QED
    BY <1>2, <2>1, <2>2, <2>3
<1>4. CASE SendFlush
  <2>1. draining /\ UNCHANGED sent
    BY <1>4 DEF SendFlush, CallInv
  <2>2. [type |-> "FLUSH"] \in ClientMsg
    BY DEF ClientMsg
  <2>3. UNCHANGED c2s \/ c2s' = Append(c2s, [type |-> "FLUSH"])
    BY <1>4, NotTorn DEF SendFlush, ClientSend
  <2> QED
    BY <1>2, <2>1, <2>2, <2>3
<1>5. CASE AnswerPing
  <2>1. [type |-> "PONG"] \in ClientMsg
    BY DEF ClientMsg
  <2>2. UNCHANGED sent /\ (UNCHANGED c2s \/ c2s' = Append(c2s, [type |-> "PONG"]))
    BY <1>5, NotTorn DEF AnswerPing, ClientSend, clientVars
  <2> QED
    BY <1>2, <2>1, <2>2
<1>6. CASE UNCHANGED <<sent, c2s>>
  BY <1>2, <1>6
<1>7. \/ UNCHANGED <<sent, c2s>> \/ SendFlush \/ AnswerPing
      \/ SendFrame /\ arg # NoFrame /\ pc \in {"submit", "resend"}
  <2>0. ~UNCHANGED c2s => \A f : ~ClientSendFails(f)
    BY NotTorn
  <2>1. CASE UNCHANGED sent /\ ~UNCHANGED c2s
    BY <2>0, <2>1
       DEF ClientNext, AppStep, EncodeFrame, StartDraining, DrainAgain, Close, ClientCloses, CallStep,
         Drain, DrainStop, DrainPacket,
         DrainDone, DrainFails, Submit, PopAndSend, SubmitFrame, SubmitFails, LimitReached, NothingToSend,
         Resend, Receive, RecvPacket, RecvDone, RecvFails, RecvTimeout, SendFrame, SendFrameFails, NoSend,
         ClientSend, wireVars
  <2> QED
    BY <2>1, ClientEffect
<1> QED
  BY <1>3, <1>4, <1>5, <1>6, <1>7

\* FLUSH comes after every FRAME.
LEMMA FlushStep ==
    ASSUME BaseInv, ~torn', CallInv, FlushInv, [Next]_vars
    PROVE  FlushInv'
<1> USE PipelineTypes
<1>1. CASE ClientNext /\ UNCHANGED serverVars
  <2>1. CASE UNCHANGED c2s
    BY <1>1, <2>1, ClientWrites DEF FlushInv, serverVars
  <2>2. ASSUME NEW m \in ClientMsg, c2s' = Append(c2s, m), m.type = "FLUSH" => draining,
               m.type = "FRAME" => ~draining /\ ~draining'
        PROVE  FlushInv'
    <3>1. Closes(c2s', "FLUSH", "FRAME")
      BY <2>2, ClosesAppend DEF FlushInv
    <3>2. \A t : Comes(c2s', t) <=> Comes(c2s, t) \/ m.type = t
      BY <2>2, ComesAppend
    <3>3. draining => draining'
      BY <1>1, ClientWrites
    <3>4. srv' = srv
      BY <1>1 DEF serverVars
    <3> QED
      BY <2>2, <3>1, <3>2, <3>3, <3>4 DEF FlushInv
  <2> QED
    BY <1>1, <2>1, <2>2, ClientWrites
<1>2. CASE (LoopStep \/ Crash \/ PeerPing \/ PeerError) /\ UNCHANGED clientVars
  <2>0. draining' = draining
    BY <1>2 DEF clientVars
  <2>1. Closes(c2s', "FLUSH", "FRAME") /\ (Comes(c2s', "FLUSH") => draining') /\ (Comes(c2s', "FRAME") => Comes(c2s, "FRAME"))
    <3>1. CASE c2s' = c2s \/ c2s' = <<>>
      BY <2>0, <3>1, NothingComes DEF FlushInv
    <3>2. CASE c2s # <<>> /\ c2s' = Tail(c2s)
      BY <2>0, <3>2, ClosesTail, HeadAndTail DEF FlushInv, Comes
    <3> QED
      BY <1>2, <3>1, <3>2, LoopEffect
  <2>2. CASE ReadFlush
    <3>1. c2s # <<>> /\ Head(c2s).type = "FLUSH"
      BY <2>2 DEF ReadFlush, ServerSees
    <3>2. ~Comes(c2s, "FRAME") /\ Comes(c2s, "FLUSH")
      BY <3>1, ClosesTail, HeadAndTail DEF FlushInv, Comes
    <3> QED
      BY <2>0, <2>1, <3>2 DEF FlushInv
  <2>3. CASE ~ReadFlush
    <3>0. ~ReadGarbled /\ ~ReadBroken
      BY NothingGarbled DEF BaseInv, TypeOK
    <3>1. srv' \in {"completing", "done"} => srv \in {"completing", "done"}
      BY <1>2, <2>3, <3>0 DEF LoopStep, ReadFrame, RejectFrame, ReadOther, SendDone, Shutdown, Crash, PeerPing,
                        PeerError, serverVars
    <3> QED
      BY <2>0, <2>1, <3>1 DEF FlushInv
  <2> QED
    BY <2>2, <2>3
<1>3. ASSUME NEW i \in DOMAIN held, Callback(i) \/ DropFrame(i), UNCHANGED clientVars
      PROVE  FlushInv'
  <2>1. UNCHANGED <<c2s, srv>>
    BY <1>3 DEF Callback, EmitPacket, SkipPacket, DropFrame, wireVars
  <2> QED
    BY <1>3, <2>1 DEF FlushInv, clientVars
<1>4. CASE UNCHANGED <<clientVars, serverVars, c2s>>
  BY <1>4 DEF FlushInv, clientVars, serverVars
<1> QED
  BY <1>1, <1>2, <1>3, <1>4 DEF Next, Terminated, ServerNext, PeerReset, vars, wireVars
-------------------------------------------------------------------------------
\* What the client reads.
LEMMA ClientReads ==
    ASSUME BaseInv, ClientNext
    PROVE  /\ UNCHANGED s2cEnd
           /\ \/ UNCHANGED <<s2c, packetsRecv, done>>
              \/ done /\ done' /\ UNCHANGED <<s2c, packetsRecv>>
              \/ /\ s2c # <<>> /\ Consume
                 /\ \/ Head(s2c).type = "PACKET" /\ packetsRecv' = packetsRecv + 1 /\ UNCHANGED done
                    \/ Head(s2c).type = "DONE" /\ UNCHANGED packetsRecv /\ done'
                    \/ Head(s2c).type \notin {"PACKET", "DONE"} /\ UNCHANGED <<packetsRecv, done>>
<1>1. CASE AppStep \/ Submit \/ Resend \/ SendFlush \/ RecvTimeout
  BY <1>1 DEF AppStep, EncodeFrame, StartDraining, DrainAgain, Close, ClientCloses, Submit, PopAndSend,
              SubmitFrame, SubmitFails, LimitReached, NothingToSend, Resend, SendFlush, RecvTimeout,
              wireVars
<1>2. CASE Drain
  BY <1>2 DEF Drain, DrainStop, DrainPacket, DrainDone, DrainFails, ClientSees, wireVars
<1>3. CASE Receive
  BY <1>3 DEF Receive, RecvPacket, RecvDone, RecvFails, ClientSees
<1>4. CASE AnswerPing
  BY <1>4 DEF AnswerPing, ClientSees, clientVars
<1> QED
  BY <1>1, <1>2, <1>3, <1>4 DEF ClientNext, CallStep

\* No packet is on its way once DONE is the next message.
LEMMA NothingLeft ==
    ASSUME BaseInv, DoneInv, s2c # <<>>, Head(s2c).type = "DONE"
    PROVE  packetsRecv = packetsOut /\ Comes(s2c, "DONE") /\ ~Comes(s2c, "PACKET")
<1>1. Comes(s2c, "DONE")
  BY StreamTypes, HeadAndTail DEF Comes
<1>2. ~Comes(s2c, "PACKET")
  BY StreamTypes, ClosesTail DEF DoneInv
<1>3. \A n : ~Arrives(s2c, n)
  BY <1>2 DEF Arrives, Comes
<1>4. ~(packetsRecv < packetsOut)
  BY <1>1, <1>3, StreamTypes DEF DoneInv, Complete
<1> QED
  BY <1>1, <1>2, <1>4, StreamTypes

\* DONE comes after the packet of every frame.
LEMMA DoneClient ==
    ASSUME BaseInv, BaseInv', ~torn', CallInv, Stream, FlushInv, DoneInv, ClientNext, UNCHANGED serverVars
    PROVE  DoneInv'
<1> USE StreamTypes
<1>0. UNCHANGED <<srv, held, emitted, packetsOut>> /\ \A f : Emitted(f) => Emitted(f)'
  BY DEF serverVars, Emitted
<1>1. draining => draining' /\ UNCHANGED sent
  BY ClientWrites
<1>2. CASE UNCHANGED <<s2c, packetsRecv, done>>
  BY <1>0, <1>1, <1>2 DEF DoneInv
<1>3. CASE done /\ done' /\ UNCHANGED <<s2c, packetsRecv>>
  BY <1>0, <1>1, <1>3 DEF DoneInv
<1>4. CASE /\ s2c # <<>> /\ Consume
           /\ \/ Head(s2c).type = "PACKET" /\ packetsRecv' = packetsRecv + 1 /\ UNCHANGED done
              \/ Head(s2c).type = "DONE" /\ UNCHANGED packetsRecv /\ done'
              \/ Head(s2c).type \notin {"PACKET", "DONE"} /\ UNCHANGED <<packetsRecv, done>>
  <2>1. Closes(s2c', "DONE", "PACKET") /\ (Comes(s2c', "DONE") => Comes(s2c, "DONE"))
    BY <1>4, ClosesTail DEF DoneInv, Consume
  <2>2. done' => done \/ Comes(s2c, "DONE")
    BY <1>4, NothingLeft
  <2>3. Comes(s2c', "DONE") => Complete(s2c', packetsRecv', packetsOut')
    <3> SUFFICES ASSUME Comes(s2c', "DONE") PROVE Complete(s2c', packetsRecv', packetsOut')
      OBVIOUS
    <3>1. Complete(s2c, packetsRecv, packetsOut)
      BY <2>1 DEF DoneInv
    <3>2. CASE Head(s2c).type # "PACKET"
      BY <1>0, <1>4, <3>1, <3>2, GaplessTailOther DEF Consume
    <3>3. CASE Head(s2c).type = "PACKET"
      <4>1. Head(s2c).ord = packetsRecv + 1
        BY <1>4, <3>3, HeadIsNext DEF Stream
      <4>2. Complete(Tail(s2c), packetsRecv + 1, packetsOut)
        BY <1>4, <3>1, <3>3, <4>1, GaplessTailNext
      <4> QED
        BY <1>0, <1>4, <3>3, <4>2 DEF Consume
    <3> QED
      BY <3>2, <3>3
  <2>4. done' => packetsRecv' = packetsOut'
    <3>1. CASE Head(s2c).type = "DONE"
      BY <1>0, <1>4, <3>1, NothingLeft
    <3>2. CASE Head(s2c).type # "DONE" /\ done
      <4>1. packetsRecv = packetsOut /\ packetsRecv' <= packetsOut' /\ packetsRecv' \in Nat
        BY <3>2 DEF DoneInv, BaseInv, PassInv, TypeOK, ClientTypeOK
      <4>2. packetsRecv' = packetsRecv + 1 \/ packetsRecv' = packetsRecv
        BY <1>4
      <4>3. packetsOut' = packetsOut /\ packetsRecv \in Nat
        BY <1>0
      <4> QED
        BY ONLY <4>1, <4>2, <4>3
    <3> QED
      BY <1>4, <3>1, <3>2
  <2> QED
    BY <1>0, <1>1, <2>1, <2>2, <2>3, <2>4 DEF DoneInv
<1> QED
  BY <1>2, <1>3, <1>4, ClientReads

\* The server's loop.
LEMMA DoneLoop ==
    ASSUME BaseInv, ~torn', EndsInv, Stream, WhereInv, FlushInv, DoneInv,
           LoopStep \/ Crash \/ PeerPing \/ PeerError, UNCHANGED clientVars
    PROVE  DoneInv'
<1> USE StreamTypes
<1>a. ~ReadGarbled /\ ~ReadBroken
  BY NothingGarbled DEF BaseInv, TypeOK
<1>0. UNCHANGED <<emitted, packetsOut, sent, draining, done, packetsRecv>> /\ \A f : Emitted(f) => Emitted(f)'
  <2>1. UNCHANGED <<emitted, packetsOut, sent, draining, done, packetsRecv>>
    BY <1>a DEF clientVars, LoopStep, ReadFrame, RejectFrame, ReadFlush, ReadOther, SendDone, Shutdown, Crash,
           PeerPing, PeerError, serverVars
  <2> QED
    BY <2>1 DEF Emitted
<1>1. CASE SendDone
  <2>1. srv = "completing" /\ held = <<>> /\ srv' = "done" /\ UNCHANGED held
    BY <1>1 DEF SendDone, AllCompleted
  <2>2. s2cEnd = "open"
    BY <2>1 DEF EndsInv
  <2>3. draining /\ \A f \in ToSet(sent) : Emitted(f)
    <3>1. \A f : ~OnTheWay(f) /\ ~Kept(f)
      BY <2>1 DEF FlushInv, Comes, OnTheWay, Kept
    <3> QED
      BY <2>1, <2>2, <3>1 DEF WhereInv, FlushInv
  <2>4. CASE UNCHANGED s2c
    BY <1>0, <2>1, <2>3, <2>4 DEF DoneInv
  <2>5. ASSUME NEW m \in ServerMsg, m.type = "DONE", s2c' = Append(s2c, m), c2sEnd = "open"
        PROVE  DoneInv'
    <3>1. Closes(s2c', "DONE", "PACKET")
      BY <2>5, ClosesAppend DEF DoneInv
    <3>2. Complete(s2c, packetsRecv, packetsOut)
      BY <2>2, <2>5 DEF Stream
    <3>3. Complete(s2c', packetsRecv, packetsOut)
      BY <2>5, <3>2, GaplessAppendOther
    <3> QED
      BY <1>0, <2>1, <2>3, <3>1, <3>3 DEF DoneInv
  <2>6. [type |-> "DONE"] \in ServerMsg /\ [type |-> "DONE"].type = "DONE"
    BY DEF ServerMsg
  <2>7. UNCHANGED s2c \/ (s2c' = Append(s2c, [type |-> "DONE"]) /\ c2sEnd = "open")
    BY <1>1 DEF SendDone, ServerSend
  <2> QED
    BY <2>4, <2>5, <2>6, <2>7
<1>2. CASE ReadFrame \/ ReadFlush \/ ReadOther \/ PeerPing
  <2>1. srv = "loop" /\ srv' \in {"loop", "completing"}
    BY <1>2 DEF ReadFrame, ReadFlush, ReadOther, PeerPing, serverVars
  <2>2. ~done /\ ~Comes(s2c, "DONE")
    BY <2>1 DEF DoneInv
  <2>3. CASE UNCHANGED s2c
    BY <1>0, <2>1, <2>2, <2>3 DEF DoneInv
  <2>4. CASE PeerPing
    <3>1. PICK m \in ServerMsg : m.type = "PING" /\ (UNCHANGED s2c \/ s2c' = Append(s2c, m))
      <4>1. [type |-> "PING"] \in ServerMsg /\ [type |-> "PING"].type = "PING"
        BY DEF ServerMsg
      <4> QED
        BY <2>4, <4>1 DEF PeerPing, ServerSend
    <3>2. s2c' = Append(s2c, m) => Closes(s2c', "DONE", "PACKET") /\ ~Comes(s2c', "DONE")
      BY <2>2, <3>1, ClosesAppend, ComesAppend DEF DoneInv
    <3> QED
      BY <1>0, <2>1, <2>2, <2>3, <3>1, <3>2 DEF DoneInv
  <2> QED
    BY <1>2, <2>3, <2>4 DEF ReadFrame, ReadFlush, ReadOther
<1>3. CASE RejectFrame \/ Shutdown \/ Crash
  <2>1. srv' = "closed" /\ UNCHANGED s2c
    BY <1>3 DEF RejectFrame, Shutdown, Crash
  <2> QED
    BY <1>0, <2>1 DEF DoneInv
<1>4. CASE PeerError
  <2>1. srv = "loop" /\ srv' = "closed"
    BY <1>4 DEF PeerError
  <2>2. ~done /\ ~Comes(s2c, "DONE")
    BY <2>1 DEF DoneInv
  <2>3. PICK m \in ServerMsg : m.type = "ERROR" /\ (UNCHANGED s2c \/ s2c' = Append(s2c, m))
    <3>1. [type |-> "ERROR"] \in ServerMsg /\ [type |-> "ERROR"].type = "ERROR"
      BY DEF ServerMsg
    <3> QED
      BY <1>4, <3>1 DEF PeerError, ServerSend
  <2>4. s2c' = Append(s2c, m) => Closes(s2c', "DONE", "PACKET") /\ ~Comes(s2c', "DONE")
    BY <2>2, <2>3, ClosesAppend, ComesAppend DEF DoneInv
  <2> QED
    BY <1>0, <2>1, <2>2, <2>3, <2>4 DEF DoneInv
<1> QED
  BY <1>a, <1>1, <1>2, <1>3, <1>4 DEF LoopStep

\* DoneInv is preserved by every step.
LEMMA DoneStep ==
    ASSUME BaseInv, BaseInv', ~torn', EndsInv, CallInv, Stream, WhereInv, FlushInv, DoneInv, [Next]_vars
    PROVE  DoneInv'
<1> USE StreamTypes
<1>1. CASE ClientNext /\ UNCHANGED serverVars
  BY <1>1, DoneClient
<1>2. CASE (LoopStep \/ Crash \/ PeerPing \/ PeerError) /\ UNCHANGED clientVars
  BY <1>2, DoneLoop
<1>3. ASSUME NEW i \in DOMAIN held, Callback(i) \/ DropFrame(i), UNCHANGED clientVars
      PROVE  DoneInv'
  <2>1. srv \notin {"done", "closed"} /\ ~done /\ ~Comes(s2c, "DONE")
    BY <1>3 DEF DoneInv, EndsInv
  <2>2. srv' = srv /\ done' = done
    BY <1>3 DEF Callback, EmitPacket, SkipPacket, DropFrame, clientVars
  <2>3. Closes(s2c', "DONE", "PACKET") /\ ~Comes(s2c', "DONE")
    <3>1. CASE UNCHANGED s2c
      BY <2>1, <3>1 DEF DoneInv
    <3>2. ASSUME NEW m \in ServerMsg, s2c' = Append(s2c, m), m.type = "PACKET"
          PROVE  Closes(s2c', "DONE", "PACKET") /\ ~Comes(s2c', "DONE")
      BY <2>1, <3>2, ClosesAppend, ComesAppend DEF DoneInv
    <3>3. CASE EmitPacket(i)
      <4>1. held[i] \in Frames /\ CorrectedDts(Pts[held[i]], RawDts(held[i])) \in Int
        <5>1. held[i] \in Frames /\ Pts[held[i]] \in Int /\ lastDts \in Int
          BY PipelineTypes
        <5> QED
          BY <5>1, CorrectedDtsInt DEF RawDts, BaseInv, TypeOK, ServerTypeOK
      <4> DEFINE m == [type |-> "PACKET", ord |-> packetsOut + 1, frame |-> held[i],
                       dts |-> CorrectedDts(Pts[held[i]], RawDts(held[i]))]
      <4>2. m \in ServerMsg /\ m.type = "PACKET"
        BY <4>1 DEF ServerMsg, PacketMsg
      <4>3. UNCHANGED s2c \/ s2c' = Append(s2c, m)
        BY <3>3 DEF EmitPacket, ServerSend
      <4> HIDE DEF m
      <4> QED
        BY <3>1, <3>2, <4>2, <4>3
    <3> QED
      BY <1>3, <3>1, <3>3 DEF Callback, SkipPacket, DropFrame, wireVars
  <2> QED
    BY <2>1, <2>2, <2>3 DEF DoneInv
<1>4. CASE PeerReset /\ UNCHANGED <<clientVars, serverVars>>
  <2>0. UNCHANGED <<emitted, packetsOut, sent, draining, done, packetsRecv, srv, held>>
        /\ \A f : Emitted(f) => Emitted(f)'
    BY <1>4 DEF clientVars, serverVars, Emitted
  <2>1. PICK n \in 0 .. Len(s2c) : s2c' = SubSeq(s2c, 1, n)
    BY <1>4 DEF PeerReset
  <2>2. \A i \in DOMAIN s2c' : i \in DOMAIN s2c /\ s2c'[i] = s2c[i] /\ \A j \in DOMAIN s2c : j < i => j \in DOMAIN s2c'
    BY <2>1
  <2>3. Closes(s2c', "DONE", "PACKET") /\ (Comes(s2c', "DONE") => Comes(s2c, "DONE"))
    BY <2>2 DEF Closes, Comes, DoneInv
  <2>4. ASSUME Comes(s2c', "DONE")
        PROVE  Complete(s2c', packetsRecv, packetsOut)
    <3>1. PICK d \in DOMAIN s2c' : s2c'[d].type = "DONE"
      BY <2>4 DEF Comes
    <3>2. \A j \in DOMAIN s2c : s2c[j].type = "PACKET" => j \in DOMAIN s2c' /\ s2c'[j] = s2c[j]
      BY <2>2, <3>1 DEF DoneInv, Closes
    <3>3. Complete(s2c, packetsRecv, packetsOut)
      BY <2>3, <2>4 DEF DoneInv
    <3> QED
      BY <3>2, <3>3 DEF Complete, Arrives
  <2> QED
    BY <2>0, <2>3, <2>4 DEF DoneInv
<1>5. CASE UNCHANGED vars
  BY <1>5 DEF DoneInv, vars, clientVars, serverVars, wireVars, Emitted
<1> QED
  BY <1>1, <1>2, <1>3, <1>4, <1>5 DEF Next, Terminated, ServerNext

\* And where a frame is until its packet is out.
CompleteInv == OriginsInv /\ (~torn => WhereInv /\ FlushInv /\ DoneInv)

\* Unless VideoToolbox gives a frame up or a message was cut, a client that has
\* read DONE has the packet of every frame it transmitted, or of one with the
\* same timestamp.
THEOREM DoneIsComplete ==
    ASSUME "drop" \notin Faults
    PROVE  Spec => []DoneMeansComplete
<1>1. Init => CompleteInv
  <2> SUFFICES ASSUME Init PROVE CompleteInv
    OBVIOUS
  <2>1. WhereInv /\ FlushInv /\ DoneInv
    BY DEF Init, WireInit, ClientInit, ServerInit, TrackerInit, WhereInv, FlushInv, DoneInv, Closes, Comes, ToSet
  <2> QED
    BY <2>1, OrderStart DEF OrderInv, CompleteInv
<1>2. CompleteInv /\ [Next]_vars => CompleteInv'
  <2> SUFFICES ASSUME CompleteInv, [Next]_vars PROVE CompleteInv'
    OBVIOUS
  <2>1. OriginsInv' /\ BaseInv'
    BY OriginsStep DEF CompleteInv, OriginsInv, PacketInv
  <2>2. ASSUME ~torn'
        PROVE  WhereInv' /\ FlushInv' /\ DoneInv'
    <3>1. ~torn
      BY <2>2, TornStays
    <3> QED
      BY <2>1, <2>2, <3>1, WhereStep, FlushStep, DoneStep DEF CompleteInv, OriginsInv, CallsInv, PacketInv
  <2> QED
    BY <2>1, <2>2 DEF CompleteInv
<1>3. CompleteInv => DoneMeansComplete
  <2> SUFFICES ASSUME CompleteInv, done, ~torn, NEW f \in ToSet(sent)
               PROVE  \E p \in ToSet(delivered \o pktQueue) : Pts[p.frame] = Pts[f]
    BY DEF DoneMeansComplete
  <2>1. PICK k \in DOMAIN emitted : Pts[emitted[k].frame] = Pts[f]
    BY DEF CompleteInv, DoneInv, Emitted
  <2>2. /\ Len(delivered) + Len(pktQueue) = Len(emitted)
        /\ delivered \in Seq(PacketMsg) /\ pktQueue \in Seq(PacketMsg) /\ emitted \in Seq(PacketMsg)
    BY ReceivedTypes, PipelineTypes
       DEF CompleteInv, DoneInv, OriginsInv, PacketInv, Received, Stream
  <2>3. k \in DOMAIN (delivered \o pktQueue) /\ (delivered \o pktQueue)[k] = emitted[k]
    <3>1. k \in 1 .. Len(delivered) + Len(pktQueue)
      BY <2>2
    <3>2. CASE k <= Len(delivered)
      BY <2>2, <3>1, <3>2 DEF CompleteInv, OriginsInv, PacketInv, Received
    <3>3. CASE k > Len(delivered)
      <4>1. k - Len(delivered) \in DOMAIN pktQueue /\ Len(delivered) + (k - Len(delivered)) = k
        BY <2>2, <3>1, <3>3
      <4>2. pktQueue[k - Len(delivered)] = emitted[k]
        BY <4>1 DEF CompleteInv, OriginsInv, PacketInv, Received
      <4>3. (delivered \o pktQueue)[k] = pktQueue[k - Len(delivered)]
        BY <2>2, <3>1, <3>3
      <4> QED
        BY <2>2, <3>1, <4>2, <4>3
    <3> QED
      BY <2>2, <3>1, <3>2, <3>3
  <2> QED
    BY <2>1, <2>3 DEF ToSet
<1> QED
  BY <1>1, <1>2, <1>3, PTL DEF Spec
===============================================================================
