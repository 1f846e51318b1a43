---------------------------- MODULE MCThreadPool ----------------------------
(* Two workers and three requests, one of them without a callback. *)
EXTENDS ThreadPool
=============================================================================
