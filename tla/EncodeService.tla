----------------------------- MODULE EncodeService -----------------------------
(***************************************************************************)
(* What a remote encoder promises its application: a packet comes only for *)
(* a frame that went in and with a DTS that is not past its PTS; without   *)
(* B-frames packets come in the order of the frames, each frame and each   *)
(* timestamp once, and their DTS increases; nothing comes after the end.   *)
(* A frame may be left without a packet.                                   *)
(*                                                                         *)
(* The transport can tear the stream of frames.  Then only this is left:   *)
(* what has come out stays as it is, and nothing comes after the end.      *)
(***************************************************************************)
EXTENDS Integers, Sequences, SequencesExt

CONSTANTS
    Frames,         \* a set of natural numbers, in the order of input
    Pts,            \* Pts[f]: presentation timestamp of frame f
    Ticks,          \* the timestamps a DTS can have
    InOrder         \* there are no B-frames

VARIABLES
    accepted,       \* the frames that went in
    output,         \* the packets that came out: [frame, dts]
    ended,          \* the stream has ended
    torn            \* the stream of frames is torn

vars == <<accepted, output, ended, torn>>

Init ==
    /\ accepted = {}
    /\ output = <<>>
    /\ ended = FALSE
    /\ torn = FALSE

\* A frame goes in, perhaps for a second time.
Takes(f) == accepted' = accepted \cup {f}

\* A packet comes out.
Gives(f, dts) ==
    /\ f \in accepted
    /\ dts <= Pts[f]
    /\ InOrder => \A i \in DOMAIN output :
          /\ f > output[i].frame
          /\ dts > output[i].dts
          /\ Pts[f] # Pts[output[i].frame]
    /\ output' = Append(output, [frame |-> f, dts |-> dts])

Accept(f) == ~ended /\ Takes(f) /\ UNCHANGED <<output, ended>>

Output(f, dts) == ~ended /\ Gives(f, dts) /\ UNCHANGED <<accepted, ended>>

\* The packet of one frame comes out in the call that takes another.
Exchange(f, g, dts) == ~ended /\ Takes(f) /\ Gives(g, dts) /\ UNCHANGED ended

End == ~ended /\ ended' = TRUE /\ UNCHANGED <<accepted, output>>

Serve ==
    \/ End
    \/ \E f \in Frames :
          \/ Accept(f)
          \/ \E dts \in Ticks : Output(f, dts) \/ \E g \in Frames : Exchange(g, f, dts)

\* Any step from the one that tears the stream on.
Torn ==
    /\ torn' = TRUE
    /\ accepted \subseteq accepted'
    /\ IsPrefix(output, output')
    /\ ended => ended' = TRUE /\ output' = output

Next == (Serve /\ ~torn /\ UNCHANGED torn) \/ Torn

Spec == Init /\ [][Next]_vars
===============================================================================
