------------------------------- MODULE MCDaemon -------------------------------
(* Two clients, known or not, and GCD with one thread to spare. *)
EXTENDS Daemon
===============================================================================
