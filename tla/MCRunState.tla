----------------------------- MODULE MCRunState -----------------------------
(* Three commands, guest requests, disk requests or wakeups in any order. *)
EXTENDS RunState
=============================================================================
