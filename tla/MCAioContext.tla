---------------------------- MODULE MCAioContext ----------------------------
(* Two items, and aio_poll called from device code and inside a callback. *)
EXTENDS AioContext
=============================================================================
