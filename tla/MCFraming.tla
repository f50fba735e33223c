------------------------------- MODULE MCFraming -------------------------------
(* Framing with payloads longer and shorter than a header, and one of the     *)
(* length of a header, with which a reader that is off falls into step again. *)
EXTENDS Framing

MCPayload == <<2, 4, 0, 1>>
===============================================================================
