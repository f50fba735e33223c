------------------------------- MODULE EncSession -------------------------------
(***************************************************************************)
(* An encode session: the client and the server over one connection, from  *)
(* the end of the handshake to both sockets closed.                        *)
(***************************************************************************)
EXTENDS EncClient, EncServer, FiniteSets

vars == <<clientVars, serverVars, wireVars>>

TypeOK == WireTypeOK /\ ClientTypeOK /\ ServerTypeOK

Init == WireInit /\ ClientInit /\ ServerInit

\* Both ends have closed; nothing is left to happen.
Terminated ==
    /\ pc = "closed"
    /\ srv = "closed"
    /\ UNCHANGED vars

Next ==
    \/ ClientNext /\ UNCHANGED serverVars
    \/ ServerNext /\ UNCHANGED clientVars
    \/ PeerReset /\ UNCHANGED <<clientVars, serverVars>>
    \/ Terminated

Spec == Init /\ [][Next]_vars

(***************************************************************************)
(* Fairness.  A call that has begun is run by a thread that goes on, and   *)
(* so is the server's loop.  VideoToolbox delivers what it owes.  The      *)
(* application is assumed to end the stream and, after the end, to close.  *)
(* Nothing is assumed of timeouts, resets, drops or of new frames.         *)
(***************************************************************************)
Fairness ==
    /\ WF_vars(CallStep /\ UNCHANGED serverVars)
    /\ WF_vars(LoopStep /\ UNCHANGED clientVars)
    /\ WF_vars(CallbackDue /\ UNCHANGED clientVars)
    /\ WF_vars((StartDraining \/ DrainAgain \/ Close) /\ UNCHANGED serverVars)

FairSpec == Spec /\ Fairness

-------------------------------------------------------------------------------
(***************************************************************************)
(* Flow control.  As long as no message has been cut: behind a part the    *)
(* server may take for a FRAME what is none, and answer it with a PACKET.  *)
(***************************************************************************)

\* Frames on the way plus packets waiting in the ring never exceed the
\* in-flight limit.  Hence the ring (twice the limit) never fills, and the
\* branch of ff_vtremote_encode that returns a queued packet always finds room
\* for the frame: were it not so, libavcodec would free the frame unsent.
FlowControl == ~torn => inflight + Len(pktQueue) <= Inflight

\* inflight_frames is exactly the frames transmitted minus the packets
\* received: the guards against a negative counter never engage, because no
\* packet can come without a frame.
InflightExact ==
    ~torn => packetsRecv <= Len(sent) /\ inflight = Len(sent) - packetsRecv

\* A call blocks in receive_packet only when no packet is waiting in the ring.
QueueEmptyWhenBlocked == Blocked => pktQueue = <<>>

\* No frame is transmitted a third time; the second time follows the first; and
\* a session transmits at most one FRAME more than the application handed over.
\* Without lost sends this means that one frame is transmitted twice: the one
\* that takes the last in-flight slot for the first time.
OneFrameResent ==
    /\ \A i, j \in DOMAIN sent : i < j /\ sent[i] = sent[j] => j = i + 1
    /\ ~torn => Len(sent) <= nextFrame

-------------------------------------------------------------------------------
(***************************************************************************)
(* Packets.                                                                *)
(***************************************************************************)
\* The packets in transit, by their place in the stream.
Coming == {i \in DOMAIN s2c : s2c[i].type = "PACKET"}

\* The number of packets received by the time the one at place i is.
Turn(i) == Len(delivered) + Len(pktQueue) + Cardinality({j \in Coming : j <= i})

\* What the application got, then what waits in the ring, then what is in
\* transit is, in this order and without a gap, what the encoder emitted; only
\* a tail can be missing, after one of the two ends is gone.
PacketsInOrder ==
    /\ IsPrefix(delivered \o pktQueue, emitted)
    /\ \A i \in Coming : Turn(i) <= Len(emitted) /\ s2c[i] = emitted[Turn(i)]
    /\ c2sEnd = "open" /\ s2cEnd # "rst" => Turn(Len(s2c)) = Len(emitted)

\* Once the client has read DONE it has received the packet of every frame it
\* transmitted: they were all read, encoded and emitted before DONE was sent.
DoneMeansComplete ==
    done /\ ~torn => \A f \in ToSet(sent) :
        \E p \in ToSet(delivered \o pktQueue) : Pts[p.frame] = Pts[f]

-------------------------------------------------------------------------------
(***************************************************************************)
(* What the session promises its application, as EncodeService states it.  *)
(* A frame goes in when it is transmitted, not when libavcodec accepts it. *)
(***************************************************************************)
Service == INSTANCE EncodeService WITH
    InOrder <- ~Reorder,
    Ticks <- {Pts[f] : f \in Frames},
    accepted <- ToSet(sent),
    output <- [i \in DOMAIN delivered |->
                  [frame |-> delivered[i].frame, dts |-> delivered[i].dts]],
    ended <- drained,
    torn <- torn

\* Every step of a session is a step of the service or none, whatever times
\* out, fails or is lost; in particular the copy of a frame that is transmitted
\* twice never comes back as a packet.  When a message is cut the session falls
\* back on what the service promises then.
EncodesInOrder == Service!Spec

-------------------------------------------------------------------------------
(***************************************************************************)
(* Action properties.                                                      *)
(***************************************************************************)

\* A call that returns success has transmitted its frame: libavcodec frees the
\* frame then, so nothing else would.  The exception is a send that fails while
\* a packet is returned: on a dead connection, or by the send timeout, which may
\* cut the frame.
Returns == pc \notin {"app", "closed"} /\ pc' = "app"

SuccessMeansSent ==
    [][Returns /\ arg # NoFrame /\ ret' = "OK" =>
        arg \in ToSet(sent') \/ SendCanFail \/ torn']_vars

-------------------------------------------------------------------------------
(***************************************************************************)
(* Liveness.                                                               *)
(***************************************************************************)

\* A call of the encoder returns, without help of the receive timeout.
CallsReturn == (pc # "app") ~> (pc \in {"app", "closed"})

\* The session ends on both sides.
SessionEnds == <>(pc = "closed" /\ srv = "closed")

-------------------------------------------------------------------------------
(***************************************************************************)
(* Statements of the repository that the code does not keep.               *)
(***************************************************************************)

\* vtremote_enc_common.c: "Now send the pending frame since we freed up a
\* slot" - the frame sent after the wait has not been sent before.
PendingFrameUnsent == pc = "resend" => arg \notin ToSet(sent)

\* vtremote_enc_common.c: "Return a queued packet if available" - the stream
\* does not end for libavcodec while packets wait in the ring.
QueuedPacketsReturned == drained => pktQueue = <<>>
===============================================================================
