-------------------------------- MODULE Framing --------------------------------
(***************************************************************************)
(* One direction of the connection at the grain at which it can break: the *)
(* 12-byte header and the payload of a message are written and read in     *)
(* pieces, and a socket timeout can come between any two of them.  Module  *)
(* Wire has whole messages; this one shows what that rests on.             *)
(*                                                                         *)
(*   "up"    FFmpeg writes, with a send timeout (SO_SNDTIMEO); vtremoted   *)
(*           reads, polling 10 s for the first byte of a header and then   *)
(*           blocking without limit.                                       *)
(*   "down"  vtremoted writes, with no timeout; FFmpeg reads, with a       *)
(*           receive timeout (SO_RCVTIMEO) on every byte.                  *)
(*                                                                         *)
(* The stream is a sequence of units: the four fields of a header and the  *)
(* pieces of a payload.  A unit <<m, p>> is piece p of message m.  No      *)
(* payload is taken to contain the bytes of a magic and a version.         *)
(***************************************************************************)
EXTENDS Integers, Sequences

CONSTANTS
    Payload,        \* Payload[m]: units of payload of message m
    Garbage,        \* lengths that bytes which are not a length can mean
    MaxReports      \* bound: errors after which the client's caller gives up

HeaderSize == 4     \* magic, version, type, length
Messages == 1 .. Len(Payload)

ASSUME FramingAssumption ==
    /\ Payload \in Seq(Nat)
    /\ Garbage \subseteq Nat \ {0}
    /\ MaxReports \in Nat \ {0}

VARIABLES
    dir,            \* the direction
    wire,           \* units written and not yet read
    out,            \* the unit to write next
    failed,         \* messages whose send returned an error
    closed,         \* the writer has closed the socket
    head,           \* the header read and accepted, <<>> before
    need,           \* the payload length it means
    got,            \* units read of the header, or else of the payload
    reading,        \* the reader has not given up
    reports,        \* errors, other than EAGAIN, its caller has seen
    accepted        \* history: the messages read, as they were read

vars == <<dir, wire, out, failed, closed, head, need, got, reading, reports, accepted>>
writerVars == <<dir, out, failed, closed>>
readerVars == <<head, need, got, reading, reports, accepted>>

Init ==
    /\ dir \in {"up", "down"}
    /\ wire = <<>>
    /\ out = <<1, 1>>
    /\ failed = {}
    /\ closed = FALSE
    /\ head = <<>>
    /\ need = 0
    /\ got = <<>>
    /\ reading = TRUE
    /\ reports = 0
    /\ accepted = <<>>

-------------------------------------------------------------------------------
(***************************************************************************)
(* The writer: write_full for the header, then for the payload, or writev. *)
(***************************************************************************)
Writing == ~closed /\ out[1] \in Messages

WriteUnit ==
    /\ Writing
    /\ wire' = Append(wire, out)
    /\ out' = IF out[2] < HeaderSize + Payload[out[1]]
              THEN <<out[1], out[2] + 1>>
              ELSE <<out[1] + 1, 1>>
    /\ UNCHANGED <<dir, failed, closed, readerVars>>

\* The socket stays full for the send timeout.  What was written stays
\* written; the caller's next message follows it.
SendTimeout ==
    /\ dir = "up"
    /\ Writing
    /\ failed' = failed \cup {out[1]}
    /\ out' = <<out[1] + 1, 1>>
    /\ UNCHANGED <<dir, wire, closed, readerVars>>

Close ==
    /\ ~closed
    /\ closed' = TRUE
    /\ UNCHANGED <<dir, wire, out, failed, readerVars>>

-------------------------------------------------------------------------------
(***************************************************************************)
(* The reader.                                                             *)
(***************************************************************************)

\* Mutated form: a header is believed whatever it begins with.
MutHeaderOK(h) == TRUE

\* The checks of vtremote_read_header and VTRMessageHeader.decode.
HeaderOK(h) == h[1][2] = 1 /\ h[2][2] = 2

\* Mutated form: the length is taken to count one unit too many.
MutLengths(h) == IF h[4][2] = 4 THEN {Payload[h[4][1]] + 1} ELSE Garbage

\* The payload length a header means.
Lengths(h) == IF h[4][2] = 4 THEN {Payload[h[4][1]]} ELSE Garbage

\* Start over with a header, having dropped what was read of a message.
Restart == head' = <<>> /\ need' = 0 /\ got' = <<>>

Accept(h, body) ==
    /\ accepted' = Append(accepted, [head |-> h, body |-> body])
    /\ Restart
    /\ UNCHANGED <<reading, reports>>

\* Mutated form: the client takes a bad header for "nothing to read".
MutReport ==
    /\ reports' = IF dir = "up" THEN reports + 1 ELSE reports
    /\ reading' = (dir = "down")
    /\ Restart
    /\ UNCHANGED accepted

\* An error: vtremoted's handler unwinds and closes; FFmpeg's caller may go on
\* calling.
Report ==
    /\ reports' = reports + 1
    /\ reading' = (dir = "down" /\ reports' < MaxReports)
    /\ Restart
    /\ UNCHANGED accepted

\* read() or recv() returns a unit, and with it perhaps a header or a message.
ReadUnit ==
    /\ reading
    /\ wire # <<>>
    /\ wire' = Tail(wire)
    /\ LET now == Append(got, Head(wire))
       IN  \/ /\ Len(now) < (IF head = <<>> THEN HeaderSize ELSE need)
              /\ got' = now
              /\ UNCHANGED <<head, need, reading, reports, accepted>>
           \/ /\ head = <<>>
              /\ Len(now) = HeaderSize
              /\ ~HeaderOK(now)
              /\ Report
           \/ /\ head = <<>>
              /\ Len(now) = HeaderSize
              /\ HeaderOK(now)
              /\ \E len \in Lengths(now) :
                    \/ len = 0 /\ Accept(now, <<>>)
                    \/ /\ len > 0
                       /\ head' = now
                       /\ need' = len
                       /\ got' = <<>>
                       /\ UNCHANGED <<reading, reports, accepted>>
           \/ /\ head # <<>>
              /\ Len(now) = need
              /\ Accept(head, now)
    /\ UNCHANGED writerVars

\* Mutated form: the end of the stream is seen between messages only.
MutEndOfStream ==
    /\ reading
    /\ wire = <<>> /\ closed /\ got = <<>> /\ head = <<>>
    /\ reading' = FALSE
    /\ UNCHANGED <<wire, writerVars, head, need, got, reports, accepted>>

\* read() or recv() returns 0.
EndOfStream ==
    /\ reading
    /\ wire = <<>> /\ closed
    /\ reading' = FALSE
    /\ UNCHANGED <<wire, writerVars, head, need, got, reports, accepted>>

Starved == reading /\ wire = <<>> /\ ~closed

\* poll() finds nothing for 10 s: only tried before a header.
PollTimeout ==
    /\ dir = "up"
    /\ Starved
    /\ head = <<>> /\ got = <<>>
    /\ Report
    /\ UNCHANGED <<wire, writerVars>>

\* read_full after the first byte: EIO.
RecvTimeoutInside ==
    /\ dir = "down"
    /\ Starved
    /\ got # <<>>
    /\ Report
    /\ UNCHANGED <<wire, writerVars>>

\* read_full before the first byte of a payload: EAGAIN, which its callers take
\* for "no message yet", with the header gone.  (Before the first byte of a
\* header the same EAGAIN changes nothing.)
RecvTimeoutBetween ==
    /\ dir = "down"
    /\ Starved
    /\ got = <<>> /\ head # <<>>
    /\ Restart
    /\ UNCHANGED <<wire, writerVars, reading, reports, accepted>>

\* The session may be over; that the reader is then done is ReaderEnds.
Terminated == closed /\ UNCHANGED vars

Next ==
    \/ WriteUnit \/ SendTimeout \/ Close
    \/ ReadUnit \/ EndOfStream \/ PollTimeout \/ RecvTimeoutInside \/ RecvTimeoutBetween
    \/ Terminated

\* A reader that can make progress does.
Spec == Init /\ [][Next]_vars /\ WF_vars(ReadUnit) /\ WF_vars(EndOfStream)

-------------------------------------------------------------------------------
(***************************************************************************)
(* Properties.                                                             *)
(***************************************************************************)

\* The message an accepted header begins with, and that message as written.
Begun(a) == a.head[1][1]
Whole(m) == [head |-> [p \in 1 .. HeaderSize |-> <<m, p>>],
             body |-> [p \in 1 .. Payload[m] |-> <<m, HeaderSize + p>>]]

\* Whatever timeouts cut, what a reader accepts is a message that was sent,
\* whole and in order - except one whose own send failed half-way, which can
\* be completed with bytes of the messages behind it.  So an interrupted send
\* spoils one message, and vtremoted's frames never reach FFmpeg mixed.
AcceptedAreSent ==
    \A i \in DOMAIN accepted :
        /\ accepted[i] = Whole(Begun(accepted[i])) \/ Begun(accepted[i]) \in failed
        /\ \A j \in 1 .. i - 1 : Begun(accepted[j]) < Begun(accepted[i])

\* No message is lost between two accepted ones without an error that the
\* sender's or the reader's caller has seen, although a receive timeout between
\* header and payload throws the header away as if nothing had been there.
LossIsReported ==
    \A i \in DOMAIN accepted : \A m \in 1 .. Begun(accepted[i]) - 1 :
        \/ reports > 0
        \/ \E f \in failed : f <= m
        \/ \E j \in DOMAIN accepted : Begun(accepted[j]) = m

\* vtremoted waits without limit for the rest of a message; the writer owes it
\* that rest, unless a send has failed before.  Otherwise both sides would wait:
\* vtremoted for bytes, FFmpeg for an answer.
WaitsForOwedBytes ==
    dir = "up" /\ Starved /\ failed = {} =>
        (out[2] = 1 <=> head = <<>> /\ got = <<>>)

\* The unlimited wait ends when FFmpeg closes the socket, wherever it stopped.
ReaderEnds == closed ~> ~reading
===============================================================================
