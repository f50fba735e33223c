------------------------------- MODULE MCWarmup -------------------------------
(* EncWarmup on a few frames: see the .cfg files. *)
EXTENDS EncWarmup

MCKeyAsked == {3}
===============================================================================
