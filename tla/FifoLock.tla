------------------------------ MODULE FifoLock ------------------------------
(***************************************************************************)
(* What a recursive FIFO lock promises its clients: callers are queued in  *)
(* the order in which they ask, only the caller at the front of the queue  *)
(* holds the lock, a holder may lock again without queueing, and the lock  *)
(* passes on when the outermost lock has been undone.                      *)
(***************************************************************************)
EXTENDS Naturals, Sequences

CONSTANTS Threads,     \* the threads that use the lock
          MaxNesting   \* how deeply a client nests its calls

VARIABLES queue,       \* the threads that have asked and not yet released
          depth        \* depth[t]: how many locks t holds

vars == <<queue, depth>>

Init ==
    /\ queue = <<>>
    /\ depth = [t \in Threads |-> 0]

InQueue(t) == \E i \in 1 .. Len(queue) : queue[i] = t

(* A thread that holds nothing asks for the lock. *)
Request(t) ==
    /\ ~InQueue(t)
    /\ queue' = Append(queue, t)
    /\ UNCHANGED depth

(* The thread at the front receives the lock ... *)
Grant(t) ==
    /\ queue # <<>> /\ Head(queue) = t
    /\ depth[t] = 0
    /\ depth' = [depth EXCEPT ![t] = 1]
    /\ UNCHANGED queue

(* ... possibly in the step in which it asks. *)
RequestAndGrant(t) ==
    /\ queue = <<>>
    /\ queue' = <<t>>
    /\ depth' = [depth EXCEPT ![t] = 1]

Nest(t) ==
    /\ depth[t] \in 1 .. MaxNesting - 1
    /\ depth' = [depth EXCEPT ![t] = @ + 1]
    /\ UNCHANGED queue

Release(t) ==
    /\ depth[t] > 0
    /\ depth' = [depth EXCEPT ![t] = @ - 1]
    /\ queue' = IF depth[t] = 1 THEN Tail(queue) ELSE queue

Next == \E t \in Threads :
            Request(t) \/ Grant(t) \/ RequestAndGrant(t) \/ Nest(t) \/ Release(t)

Spec == Init /\ [][Next]_vars
=============================================================================
