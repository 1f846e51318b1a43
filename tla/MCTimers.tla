------------------------------ MODULE MCTimers ------------------------------
(* Two timers of the main loop and one of the AioContext, three points of time. *)
EXTENDS Timers
=============================================================================
