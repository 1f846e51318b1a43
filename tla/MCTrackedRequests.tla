--------------------------- MODULE MCTrackedRequests ---------------------------
(* Three coroutines and a disk of two blocks, one cluster: writes with an  *)
(* unaligned tail, head and tail, an aligned write, a read and a copy       *)
(* on read.                                                                *)
EXTENDS TrackedRequests

MCShapes == {[kind |-> "write", offset |-> 1, bytes |-> 2],
             [kind |-> "write", offset |-> 2, bytes |-> 1],
             [kind |-> "write", offset |-> 0, bytes |-> 2],
             [kind |-> "read", offset |-> 2, bytes |-> 2],
             [kind |-> "cor", offset |-> 0, bytes |-> 2]}
=============================================================================
