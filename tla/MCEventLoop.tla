------------------------------ MODULE MCEventLoop ------------------------------
(* EventLoop for TLC; descriptor numbers are ordered (accept() takes the    *)
(* lowest free one), so there is no symmetry.                               *)
EXTENDS EventLoop
=============================================================================
