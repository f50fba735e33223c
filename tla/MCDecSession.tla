------------------------------ MODULE MCDecSession ------------------------------
(* DecSession, and the promise of DecodeService, on small sessions. *)
EXTENDS DecSession
===============================================================================
