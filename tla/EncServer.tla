------------------------------- MODULE EncServer -------------------------------
(***************************************************************************)
(* vtremoted's side of an encode session after CONFIGURE_ACK: the message  *)
(* loop of VTRClientHandler, the VideoToolbox compression session behind   *)
(* VideoToolboxCodecSession, and its output callback.                      *)
(*                                                                         *)
(* VideoToolbox is external: frames go in with EncodeFrame, which blocks   *)
(* while EncoderCap of them are pending, and every frame comes out through *)
(* one callback, in presentation order or, with B-frames (Reorder), in     *)
(* another.  Callbacks are delivered one at a time here; module            *)
(* EncCallbacks looks at concurrent ones.                                  *)
(***************************************************************************)
EXTENDS Wire, TimestampTracker, SequencesExt

CONSTANTS
    EncoderDelay,   \* frames the encoder may keep back until it gets more
    EncoderCap,     \* frames it accepts before EncodeFrame blocks
    Reorder,        \* B-frames: callbacks may overtake one another
    Pts             \* Pts[f]: presentation timestamp of frame f, in ticks

ASSUME ServerAssumption ==
    /\ EncoderDelay \in Nat
    /\ EncoderCap \in Nat \ {0}
    /\ EncoderDelay < EncoderCap
    /\ Reorder \in BOOLEAN
    /\ Pts \in [Frames -> Int]

VARIABLES
    srv,            \* the handler: "loop", "completing" (in flush()), "done"
                    \* (DONE sent, main loop left), "closed"
    held,           \* frames inside the compression session, oldest first
    framesRead,     \* stats.framesIn
    packetsOut,     \* stats.packetsOut
    emitted,        \* history: the packets sent, in order
    answered        \* history: frames whose callback has run

serverVars == <<srv, held, framesRead, packetsOut, emitted, answered, lastPts, lastDts>>

ServerTypeOK ==
    /\ srv \in {"loop", "completing", "done", "closed"}
    /\ held \in Seq(Frames)
    /\ framesRead \in Nat
    /\ packetsOut \in Nat
    /\ emitted \in Seq(PacketMsg)
    /\ answered \in Seq(Frames)
    /\ TrackerTypeOK

ServerInit ==
    /\ srv = "loop"
    /\ held = <<>>
    /\ framesRead = 0
    /\ packetsOut = 0
    /\ emitted = <<>>
    /\ answered = <<>>
    /\ TrackerInit

-------------------------------------------------------------------------------
(***************************************************************************)
(* VTRClientHandler.mainLoop.                                              *)
(***************************************************************************)

\* case .frame: handleFrameMessage ends in VTCompressionSessionEncodeFrame.
ReadFrame ==
    /\ srv = "loop"
    /\ ServerSees("FRAME")
    /\ Len(held) < EncoderCap
    /\ held' = Append(held, Head(c2s).frame)
    /\ framesRead' = framesRead + 1
    /\ c2s' = Tail(c2s)
    /\ UNCHANGED <<srv, packetsOut, emitted, answered, trackerVars,
                   s2c, c2sEnd, s2cEnd, tx, torn>>

\* The same when handleFrameMessage throws before it reaches EncodeFrame: run()
\* unwinds, shuts the codec session down, and the descriptor is closed.
RejectFrame ==
    /\ "reject" \in Faults
    /\ srv = "loop"
    /\ ServerSees("FRAME")
    /\ framesRead' = framesRead + 1
    /\ srv' = "closed"
    /\ held' = <<>>
    /\ ServerCloses(Tail(c2s))
    /\ UNCHANGED <<packetsOut, emitted, answered, trackerVars, s2c>>

\* case .flush: flush() waits in VTCompressionSessionCompleteFrames.
ReadFlush ==
    /\ srv = "loop"
    /\ ServerSees("FLUSH")
    /\ srv' = "completing"
    /\ c2s' = Tail(c2s)
    /\ UNCHANGED <<held, framesRead, packetsOut, emitted, answered, trackerVars,
                   s2c, c2sEnd, s2cEnd, tx, torn>>

\* Any other message is dropped.
ReadOther ==
    /\ srv = "loop"
    /\ ServerSees("PONG")
    /\ c2s' = Tail(c2s)
    /\ UNCHANGED <<serverVars, s2c, c2sEnd, s2cEnd, tx, torn>>

\* A message put together from a part and what was written behind it: the part
\* of a FRAME makes it one, unless its type is garbled too; any other is dropped.
ReadGarbled ==
    /\ srv = "loop"
    /\ ReadSpliced
    /\ \/ /\ Head(c2s).frame # NoFrame
          /\ Len(held) < EncoderCap
          /\ held' = Append(held, Head(c2s).frame)
          /\ framesRead' = framesRead + 1
       \/ UNCHANGED <<held, framesRead>>
    /\ UNCHANGED <<srv, packetsOut, emitted, answered, trackerVars,
                   s2c, c2sEnd, s2cEnd, tx, torn>>

\* readMessage throws, or handleFrameMessage does: run() unwinds.
ReadBroken ==
    /\ srv = "loop"
    /\ NoMessage
    /\ srv' = "closed"
    /\ held' = <<>>
    /\ ServerCloses(Tail(c2s))
    /\ UNCHANGED <<framesRead, packetsOut, emitted, answered, trackerVars, s2c>>

\* Mutated form: flush() does not wait.
MutNoWait == TRUE

\* VTCompressionSessionCompleteFrames returns when every callback has run.
AllCompleted == held = <<>>

\* flush() has returned: send DONE and leave the loop.
SendDone ==
    /\ srv = "completing"
    /\ AllCompleted
    /\ ServerSend([type |-> "DONE"])
    /\ srv' = "done"
    /\ UNCHANGED <<held, framesRead, packetsOut, emitted, answered, trackerVars,
                   c2s, c2sEnd, s2cEnd, tx, torn>>

\* readMessage throws at the end of the stream, or when nothing came for 10 s.
\* Either way, as after DONE, run() shuts the codec session down, which throws
\* away what it holds, and the descriptor is closed.
Shutdown ==
    /\ \/ srv = "done"
       \/ srv = "loop" /\ c2s = <<>> /\ c2sEnd = "fin"
       \/ srv = "loop" /\ c2s = <<>> /\ "idle" \in Faults
    /\ srv' = "closed"
    /\ held' = <<>>
    /\ ServerCloses(c2s)
    /\ UNCHANGED <<framesRead, packetsOut, emitted, answered, trackerVars, s2c>>

\* The process dies (module Daemon says of what), and its sockets close.
Crash ==
    /\ "crash" \in Faults
    /\ srv # "closed"
    /\ srv' = "closed"
    /\ held' = <<>>
    /\ ServerCloses(c2s)
    /\ UNCHANGED <<framesRead, packetsOut, emitted, answered, trackerVars, s2c>>

-------------------------------------------------------------------------------
(***************************************************************************)
(* The output callback, for the i-th frame held.                           *)
(***************************************************************************)
Ready(i) == i \in DOMAIN held /\ (Reorder \/ i = 1)

\* The DTS that goes with a PTS.  Without B-frames the sample buffer carries
\* none, or the PTS itself; the code falls back to the PTS.  With B-frames it
\* carries a DTS of its own, which is left out here, as no property of a session
\* with B-frames is about the DTS: TrackerSession takes every DTS there can be.
RawDts(f) == Pts[f]

\* The tracker lets the sample through: a PACKET goes out.  A failure to send
\* it is logged and otherwise ignored.
EmitPacket(i) ==
    /\ Ready(i)
    /\ LET f == held[i]
           packet == [type |-> "PACKET", ord |-> packetsOut + 1, frame |-> f,
                      dts |-> CorrectedDts(Pts[f], RawDts(f))]
       IN  /\ EmitSample(Pts[f], RawDts(f))
           /\ ServerSend(packet)
           /\ emitted' = Append(emitted, packet)
           /\ answered' = Append(answered, f)
    /\ packetsOut' = packetsOut + 1
    /\ held' = RemoveAt(held, i)
    /\ UNCHANGED <<srv, framesRead, c2s, c2sEnd, s2cEnd, tx, torn>>

\* The tracker takes the sample for a duplicate: nothing goes out.
SkipPacket(i) ==
    /\ Ready(i)
    /\ SkipSample(Pts[held[i]])
    /\ answered' = Append(answered, held[i])
    /\ held' = RemoveAt(held, i)
    /\ UNCHANGED <<srv, framesRead, packetsOut, emitted, wireVars>>

\* The callback gets an error status, or EncodeFrame refused the frame and its
\* result was ignored: the frame has no packet.
DropFrame(i) ==
    /\ "drop" \in Faults
    /\ Ready(i)
    /\ held' = RemoveAt(held, i)
    /\ UNCHANGED <<srv, framesRead, packetsOut, emitted, answered, trackerVars, wireVars>>

Callback(i) == EmitPacket(i) \/ SkipPacket(i)

-------------------------------------------------------------------------------
(***************************************************************************)
(* What the protocol lets the server's end send and vtremoted does not     *)
(* send after the handshake.  The client handles both.  At most one PING   *)
(* is unanswered (a bound).                                                *)
(***************************************************************************)
PeerPing ==
    /\ "ping" \in Faults
    /\ srv = "loop"
    /\ \A i \in DOMAIN s2c : s2c[i].type # "PING"
    /\ \A i \in DOMAIN c2s : c2s[i].type # "PONG"
    /\ ServerSend([type |-> "PING"])
    /\ UNCHANGED <<serverVars, c2s, c2sEnd, s2cEnd, tx, torn>>

\* The connection is closed immediately after an ERROR.
PeerError ==
    /\ "error" \in Faults
    /\ srv = "loop"
    /\ ServerSend([type |-> "ERROR"])
    /\ srv' = "closed"
    /\ held' = <<>>
    /\ ServerCloses(c2s)
    /\ UNCHANGED <<framesRead, packetsOut, emitted, answered, trackerVars>>

-------------------------------------------------------------------------------
LoopStep ==
    \/ ReadFrame \/ RejectFrame \/ ReadFlush \/ ReadOther \/ SendDone \/ Shutdown
    \/ ReadGarbled \/ ReadBroken

\* The encoder owes a callback: it keeps back at most EncoderDelay frames, and
\* none once it has been asked to complete them.
CallbackDue ==
    /\ Len(held) > EncoderDelay \/ srv = "completing"
    /\ \E i \in DOMAIN held : Callback(i)

ServerNext ==
    \/ LoopStep
    \/ \E i \in DOMAIN held : Callback(i) \/ DropFrame(i)
    \/ Crash
    \/ PeerPing
    \/ PeerError
===============================================================================
