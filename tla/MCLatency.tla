------------------------------- MODULE MCLatency -------------------------------
(* A ring that wraps, and grows at every place of its head. *)
EXTENDS LatencyTracker
===============================================================================
