------------------------------- MODULE MCTracker -------------------------------
(* TrackerSession on a small set of timestamps, the unset mark among them. *)
EXTENDS TrackerSession

MCMinTicks == -1
MCTicks == -1 .. 3

\* The round trip that brings the tracker its ticks, in integers up to 20: what
\* TrackerProofs proves for all.
Timebase == INSTANCE Timebase WITH MaxInt <- 20

ASSUME RoundTripChecked ==
    \A t, u \in Timebase!Int64, num, den \in 1 .. 3 :
        /\ t * num * den \in Timebase!Int64 => Timebase!RoundTrip(t, num, den) = t
        /\ t <= u => Timebase!RoundTrip(t, num, den) <= Timebase!RoundTrip(u, num, den)
===============================================================================
