--------------------------------- MODULE Wire ---------------------------------
(***************************************************************************)
(* The TCP connection between the FFmpeg client and vtremoted, once the    *)
(* handshake is over: the functions that write and read one message on     *)
(* either side, and the kernels between them, which are external and       *)
(* modelled by what that code relies on.                                   *)
(*                                                                         *)
(* A direction is the sequence of protocol messages written and not yet    *)
(* read.  A reader may always be ahead of delivery, so "nothing to read    *)
(* yet" is possible while messages are on their way.  Closing a socket     *)
(* ends its direction with a FIN; bytes that meet a closed socket provoke  *)
(* a reset.                                                                *)
(*                                                                         *)
(* A message is written and read whole, with one exception: write_full of  *)
(* the client can time out with a part of a message written.  Nothing      *)
(* closes the connection then; what is written next follows the part, and  *)
(* the server reads it as the rest of the message.                         *)
(***************************************************************************)
EXTENDS Integers, Sequences

CONSTANTS
    NumFrames,      \* frames the application encodes in a session
    C2SCap,         \* messages the client can write ahead of the server
    S2CCap,         \* messages the server can write ahead of the client
    Faults          \* which faults and optional peer behaviours can occur

FaultNames ==
    { "timeout",    \* SO_RCVTIMEO expires while the client waits
      "stall",      \* SO_SNDTIMEO expires before the client has written all
      "idle",       \* vtremoted's 10 s read poll expires
      "drop",       \* VideoToolbox ends a frame with an error status
      "reject",     \* handleFrameMessage throws, for want of a pixel buffer
      "reset",      \* a reset loses data that had not arrived
      "crash",      \* vtremoted dies: killed, or by a session of another client
      "ping",       \* the peer sends PING, which the protocol allows
      "error" }     \* the peer sends ERROR, which the protocol allows

ASSUME WireAssumption ==
    /\ NumFrames \in Nat
    /\ C2SCap \in Nat \ {0}
    /\ S2CCap \in Nat \ {0}
    /\ Faults \subseteq FaultNames

VARIABLES
    c2s,            \* client to server: messages in transit
    s2c,            \* server to client: messages in transit
    c2sEnd,         \* "open", or "fin" once the client has closed
    s2cEnd,         \* "open", "fin" once the server has closed, "rst" when
                    \* a reset took the place of the FIN
    tx,             \* the client's sending side: "ok"; "refused" once bytes
                    \* of it met a closed socket; "dead" when the reset they
                    \* provoked has come back
    torn            \* history: the client has written a part of a message

wireVars == <<c2s, s2c, c2sEnd, s2cEnd, tx, torn>>

Frames == 1 .. NumFrames

NoFrame == 0

(***************************************************************************)
(* ord numbers the FRAMEs, respectively the PACKETs, of a session in       *)
(* sending order.  It is not on the wire: it is a history field that names *)
(* a transmission, since the same frame can be transmitted twice.  PART is *)
(* what was written of a message that was not written whole, with its      *)
(* frame if it is a FRAME: a picture is long, and its header and timestamp *)
(* are in front of it.                                                     *)
(***************************************************************************)
FrameMsg  == [type : {"FRAME"}, ord : Nat \ {0}, frame : Frames]
PacketMsg == [type : {"PACKET"}, ord : Nat \ {0}, frame : Frames, dts : Int]
PartMsg   == [type : {"PART"}, frame : Frames \cup {NoFrame}]
ClientMsg == FrameMsg \cup PartMsg \cup [type : {"FLUSH", "PONG"}]
ServerMsg == PacketMsg \cup [type : {"DONE", "PING", "ERROR"}]

WireTypeOK ==
    /\ c2s \in Seq(ClientMsg)
    /\ s2c \in Seq(ServerMsg)
    /\ c2sEnd \in {"open", "fin"}
    /\ s2cEnd \in {"open", "fin", "rst"}
    /\ tx \in {"ok", "refused", "dead"}
    /\ torn \in BOOLEAN

WireInit ==
    /\ c2s = <<>>
    /\ s2c = <<>>
    /\ c2sEnd = "open"
    /\ s2cEnd = "open"
    /\ tx = "ok"
    /\ torn = FALSE

(***************************************************************************)
(* Sending.  A send to a socket that is full blocks: the action is not     *)
(* enabled, and it fails when the send timeout expires first.  A send to a *)
(* peer that has closed succeeds locally until the reset comes back; only  *)
(* then does it fail.                                                      *)
(***************************************************************************)
ClientSend(m) ==
    /\ tx # "dead"
    /\ IF s2cEnd = "open"
       THEN /\ Len(c2s) < C2SCap
            /\ c2s' = Append(c2s, m)
            /\ UNCHANGED tx
       ELSE /\ tx' = "refused"
            /\ UNCHANGED c2s
    /\ UNCHANGED torn

SendCanFail ==
    \/ tx = "dead"
    \/ "stall" \in Faults /\ s2cEnd = "open" /\ Len(c2s) >= C2SCap

SendError == IF tx = "dead" THEN "EPIPE" ELSE "EAGAIN"

\* The socket has taken nothing of the message.
NothingWritten ==
    /\ SendCanFail
    /\ UNCHANGED <<c2s, tx, torn>>

\* There was room for a part of the message, and the timeout expired before
\* there was room for the rest.  f is its frame, if it has one.
PartWritten(f) ==
    /\ "stall" \in Faults
    /\ tx # "dead"
    /\ s2cEnd = "open"
    /\ Len(c2s) < C2SCap
    /\ c2s' = Append(c2s, [type |-> "PART", frame |-> f])
    /\ torn' = TRUE
    /\ UNCHANGED tx

ClientSendFails(f) == NothingWritten \/ PartWritten(f)

\* A server write to a client that is gone is an error for the caller to
\* handle, or to ignore; nothing is added to the stream either way.
ServerSend(m) ==
    IF c2sEnd = "open"
    THEN Len(s2c) < S2CCap /\ s2c' = Append(s2c, m)
    ELSE UNCHANGED s2c

\* The head of a direction, when its type is t.
ClientSees(t) == s2c # <<>> /\ Head(s2c).type = t
ServerSees(t) == c2s # <<>> /\ Head(c2s).type = t

\* close() on the server: the messages it leaves unread meet a closed socket.
ServerCloses(unread) ==
    /\ s2cEnd' = "fin"
    /\ c2s' = <<>>
    /\ tx' = IF unread = <<>> THEN tx ELSE "refused"
    /\ UNCHANGED <<c2sEnd, torn>>

(***************************************************************************)
(* Reading behind a part.  The header says how much the server has to      *)
(* read, however long that takes: the 10 s limit is for the first byte of  *)
(* a message only.                                                         *)
(***************************************************************************)

\* The part and what follows it pass for one message.  It ends where one of
\* the messages behind the part ends, or inside that one.
ReadSpliced ==
    /\ ServerSees("PART")
    /\ \E n \in 2 .. Len(c2s) :
          LET rest == SubSeq(c2s, n + 1, Len(c2s))
          IN  c2s' \in {rest, <<[type |-> "PART", frame |-> NoFrame]>> \o rest}

\* The part and what follows it are no message, or the stream ends first.
NoMessage == ServerSees("PART") /\ (Len(c2s) > 1 \/ c2sEnd = "fin")

ClientCloses ==
    /\ c2sEnd' = "fin"
    /\ UNCHANGED <<c2s, s2c, s2cEnd, tx, torn>>

(***************************************************************************)
(* The reset reaches the client.  It follows all data of the server when   *)
(* the network keeps order and loses nothing; otherwise any suffix of what *)
(* had not arrived is gone, and the FIN with it.                           *)
(***************************************************************************)
PeerReset ==
    /\ tx = "refused"
    /\ tx' = "dead"
    /\ \E kept \in (IF "reset" \in Faults THEN 0 .. Len(s2c) ELSE {Len(s2c)}) :
          /\ s2c' = SubSeq(s2c, 1, kept)
          /\ s2cEnd' = IF kept = Len(s2c) THEN s2cEnd ELSE "rst"
    /\ UNCHANGED <<c2s, c2sEnd, torn>>
===============================================================================
