----------------------------- MODULE MCSignalQueue -----------------------------
(* SignalQueue for TLC. *)
EXTENDS SignalQueue
=============================================================================
