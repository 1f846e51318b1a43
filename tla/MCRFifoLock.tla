----------------------------- MODULE MCRFifoLock ----------------------------
(* Three threads and a counter of four values: the tickets wrap. *)
EXTENDS RFifoLock
=============================================================================
