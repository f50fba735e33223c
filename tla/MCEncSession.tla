------------------------------ MODULE MCEncSession ------------------------------
(* EncSession on small sessions: see the .cfg files. *)
EXTENDS EncSession

MCMinTicks == -1

\* Strictly increasing presentation timestamps, and a source that repeats one.
MCPts == [f \in Frames |-> 2 * f]
MCPtsRepeated == [f \in Frames |-> IF f = 2 THEN 1 ELSE f]
===============================================================================
