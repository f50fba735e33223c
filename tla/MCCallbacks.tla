------------------------------ MODULE MCCallbacks ------------------------------
(* EncCallbacks on three samples with every timing over a few ticks. *)
EXTENDS EncCallbacks

MCMinTicks == -1

MCAnyTimings == [Samples -> [pts : 0 .. 1, dts : 0 .. 1]]
===============================================================================
