----------------------------- MODULE DecodeService -----------------------------
(***************************************************************************)
(* What a remote decoder promises its application: frames come back in the *)
(* order in which their packets went in, each at most once, and none after *)
(* the end of the stream.  A packet may be left without a frame.           *)
(***************************************************************************)
EXTENDS Integers, Sequences, SequencesExt

CONSTANT
    Packets         \* a set of natural numbers, in decoding order

VARIABLES
    accepted,       \* the packets that went in, in order
    output,         \* the frames that came out, by packet
    ended           \* the stream has ended

vars == <<accepted, output, ended>>

Init ==
    /\ accepted = <<>>
    /\ output = <<>>
    /\ ended = FALSE

After(p, s) == s = <<>> \/ p > Last(s)

Accept(p) ==
    /\ ~ended
    /\ After(p, accepted)
    /\ accepted' = Append(accepted, p)
    /\ UNCHANGED <<output, ended>>

Output(p) ==
    /\ ~ended
    /\ p \in ToSet(accepted)
    /\ After(p, output)
    /\ output' = Append(output, p)
    /\ UNCHANGED <<accepted, ended>>

End ==
    /\ ~ended
    /\ ended' = TRUE
    /\ UNCHANGED <<accepted, output>>

Next == End \/ \E p \in Packets : Accept(p) \/ Output(p)

Spec == Init /\ [][Next]_vars
===============================================================================
