--------------------------- MODULE TrackedRequests --------------------------
(***************************************************************************)
(* How requests to one block device that overlap are kept apart:           *)
(* block/block.c (tracked requests, read-modify-write cycles, copy on      *)
(* read, bdrv_drain), on the coroutines of block/coroutine.c and their     *)
(* queues, block/coroutine-lock.c.                                         *)
(*                                                                         *)
(* A coroutine runs until it yields, so an action is what a coroutine does *)
(* from one yield to the next.  It yields to wait for another request or   *)
(* for its I/O, which the worker threads carry out meanwhile.  The disk    *)
(* is an array of cells; a block of Align cells is the smallest unit of    *)
(* I/O and a cluster of Cluster cells the unit of copy on read.            *)
(***************************************************************************)
EXTENDS LinkedLists, FiniteSets

CONSTANTS Coroutines,   \* each carries one request at a time
          Shapes,       \* the requests they may make
          MaxRequests,  \* how many requests they make in all
          Cells,        \* the number of cells of the disk
          Align, Cluster,
          NoOne

ASSUME NoOneAssumption == NoOne \notin Coroutines
ASSUME SizesNat == {Cells, Align, Cluster, MaxRequests} \subseteq Nat \ {0}
ASSUME ShapesFit ==
    \A s \in Shapes :
        /\ s.kind \in {"read", "cor", "write"}
        /\ s.offset \in Nat /\ s.bytes \in Nat \ {0} /\ s.offset + s.bytes <= Cells
        /\ s.kind # "write" => s.offset % Align = 0 /\ s.bytes % Align = 0

VARIABLES
    \* the coroutines
    pc,          \* "out" of the block layer, "wait"ing, in "io", "iodone" or "failed"
    stage,       \* the step of its request
    current,     \* the coroutine that has left the block layer and goes on
    wakeup,      \* co_queue_wakeup: whom to enter when this one yields
    ready,       \* the coroutines that vmx_co_queue_run_restart has yet to enter
    made,        \* how many requests they have made
    \* BdrvTrackedRequest, one per coroutine
    req,
    waiting_for,
    wait_queue,
    \* BlockDriverState
    tracked,     \* tracked_requests, the newest first
    serialising_in_flight,
    \* data
    disk,        \* who wrote each cell last
    buf          \* what the request has read

covars == <<pc, stage, current, wakeup, ready, made>>
reqvars == <<req, waiting_for, wait_queue>>
bsvars == <<tracked, serialising_in_flight>>
datavars == <<disk, buf>>
vars == <<covars, reqvars, bsvars, datavars>>

-----------------------------------------------------------------------------
Down(n, a) == n - (n % a)
Up(n, a) == Down(n + a - 1, a)
Cell == 0 .. Cells - 1
Span(offset, bytes) == {i \in Cell : offset <= i /\ i < offset + bytes}
MaxOf(a, b) == IF a > b THEN a ELSE b
MinOf(a, b) == IF a < b THEN a ELSE b

Idle == [kind |-> "none", offset |-> 0, bytes |-> 0, serialising |-> FALSE,
         overlap_offset |-> 0, overlap_bytes |-> 0]

Init ==
    /\ pc = [c \in Coroutines |-> "out"]
    /\ stage = [c \in Coroutines |-> "none"]
    /\ current = NoOne
    /\ wakeup = [c \in Coroutines |-> <<>>]
    /\ ready = <<>>
    /\ made = 0
    /\ req = [c \in Coroutines |-> Idle]
    /\ waiting_for = [c \in Coroutines |-> NoOne]
    /\ wait_queue = [c \in Coroutines |-> <<>>]
    /\ tracked = <<>> /\ serialising_in_flight = 0
    /\ disk = [i \in Cell |-> NoOne]
    /\ buf = [c \in Coroutines |-> [i \in Cell |-> NoOne]]

-----------------------------------------------------------------------------
(* The stages of a request *)

HasHead(r) == r.kind = "write" /\ r.offset % Align # 0
HasTail(r) == r.kind = "write" /\ (r.offset + r.bytes) % Align # 0

AfterHead(r) == IF HasTail(r) THEN "tail" ELSE "write"
FirstStage(r) == IF r.kind # "write" THEN "read" ELSE IF HasHead(r) THEN "head" ELSE AfterHead(r)

(* The cells of the I/O of a stage. *)
IoSpan(r, s) ==
    CASE s = "head"  -> Span(Down(r.offset, Align), Align)
      [] s = "tail"  -> Span(Down(r.offset + r.bytes, Align), Align)
      [] s = "write" -> Span(Down(r.offset, Align), Up(r.offset + r.bytes, Align) - Down(r.offset, Align))
      [] s = "read"  -> Span(r.offset, r.bytes)
      [] s \in {"corread", "corwrite"} ->
            Span(Down(r.offset, Cluster), Up(r.offset + r.bytes, Cluster) - Down(r.offset, Cluster))

Alignment(r) == IF r.kind = "cor" THEN Cluster ELSE Align

(* Mutant: the range that counts is the request's own. *)
MarkKeepsRange(r) == [r EXCEPT !.serialising = TRUE]

(* mark_request_serialising, for a request that is not marked yet or is    *)
(* marked again.                                                           *)
Marked(r) ==
    LET from == Down(r.offset, Alignment(r))
        len  == Up(r.offset + r.bytes, Alignment(r)) - from
    IN  [r EXCEPT !.serialising = TRUE,
                  !.overlap_offset = MinOf(@, from),
                  !.overlap_bytes = MaxOf(@, len)]

Marks(r, s) == s \in {"head", "tail"} \/ (r.kind = "cor" /\ s = "read")

tracked_request_overlaps(q, r) ==
    /\ r.overlap_offset < q.overlap_offset + q.overlap_bytes
    /\ q.overlap_offset < r.overlap_offset + r.overlap_bytes

(* Mutant: a request waits also for one that waits itself. *)
BlocksAnyway(q, c, r) ==
    /\ q # c /\ (req[q].serialising \/ r.serialising)
    /\ tracked_request_overlaps(req[q], r)

(* The request of coroutine c, r, has to wait for that of q. *)
Blocks(q, c, r) ==
    /\ q # c /\ (req[q].serialising \/ r.serialising)
    /\ tracked_request_overlaps(req[q], r)
    /\ waiting_for[q] = NoOne

(* wait_serialising_requests's loop over the list: the first request to    *)
(* wait for, or none and the stage's I/O is started.                       *)
WaitOrGo(c, r, list) ==
    LET blockers == {k \in DOMAIN list : Blocks(list[k], c, r)} IN
    \/ /\ blockers = {}
       /\ pc' = [pc EXCEPT ![c] = "io"]
       /\ waiting_for' = [waiting_for EXCEPT ![c] = NoOne]
       /\ UNCHANGED wait_queue
    \/ /\ blockers # {}
       /\ LET q == list[First(blockers)] IN
          /\ waiting_for' = [waiting_for EXCEPT ![c] = q]
          /\ wait_queue' = [wait_queue EXCEPT ![q] = Append(@, c)]
       /\ pc' = [pc EXCEPT ![c] = "wait"]

(* The coroutine yields: coroutine_swap enters the ones it has woken,      *)
(* before the rest of whoever entered it.                                  *)
Yield(c, rest) ==
    /\ ready' = wakeup[c] \o rest
    /\ wakeup' = [wakeup EXCEPT ![c] = <<>>]
    /\ current' = NoOne

(* The next stage: mark, look for requests to wait for if there are        *)
(* serialising ones, and yield.                                            *)
EnterStage(c, r0, s, list, rest) ==
    LET r == IF Marks(r0, s) THEN Marked(r0) ELSE r0
        n == serialising_in_flight + IF r.serialising /\ ~r0.serialising THEN 1 ELSE 0
    IN  /\ req' = [req EXCEPT ![c] = r]
        /\ stage' = [stage EXCEPT ![c] = s]
        /\ serialising_in_flight' = n
        /\ WaitOrGo(c, r, IF n = 0 THEN <<>> ELSE list)
        /\ Yield(c, rest)

-----------------------------------------------------------------------------
(* Nothing runs: the event loop may start or resume a coroutine. *)
AtEventLoop == current = NoOne /\ ready = <<>>

(* bdrv_co_do_preadv, bdrv_co_do_pwritev up to the first yield, called     *)
(* from the event loop or by the coroutine that goes on.                   *)
Begin(c, s) ==
    /\ pc[c] = "out" /\ made < MaxRequests
    /\ current = c \/ AtEventLoop
    /\ LET r == [kind |-> s.kind, offset |-> s.offset, bytes |-> s.bytes, serialising |-> FALSE,
                 overlap_offset |-> s.offset, overlap_bytes |-> s.bytes]
           list == <<c>> \o tracked
       IN  /\ tracked' = list
           /\ EnterStage(c, r, FirstStage(r), list, ready)
    /\ made' = made + 1
    /\ UNCHANGED datavars

(* The coroutine yields to its caller or terminates. *)
Leave(c) ==
    /\ current = c
    /\ Yield(c, ready)
    /\ UNCHANGED <<pc, stage, made, reqvars, bsvars, datavars>>

(* A worker thread carries the I/O out: the padding of a write is what the *)
(* request has read before, a copy on read writes back all of it.          *)
DiskIo(c) ==
    /\ pc[c] = "io"
    /\ LET span == IoSpan(req[c], stage[c])
           own  == IF stage[c] = "write" THEN Span(req[c].offset, req[c].bytes) ELSE {}
       IN  IF stage[c] \in {"write", "corwrite"}
           THEN /\ disk' = [i \in Cell |-> IF i \in own THEN c
                                           ELSE IF i \in span THEN buf[c][i] ELSE disk[i]]
                /\ UNCHANGED buf
           ELSE /\ buf' = [buf EXCEPT ![c] = [i \in Cell |-> IF i \in span THEN disk[i] ELSE @[i]]]
                /\ UNCHANGED disk
    /\ pc' = [pc EXCEPT ![c] = "iodone"]
    /\ UNCHANGED <<stage, current, wakeup, ready, made, reqvars, bsvars>>

(* The I/O fails, or a notifier of a write refuses it. *)
IoFails(c) ==
    /\ pc[c] = "io"
    /\ pc' = [pc EXCEPT ![c] = "failed"]
    /\ UNCHANGED <<stage, current, wakeup, ready, made, reqvars, bsvars, datavars>>

(* The I/O of a read-modify-write cycle's read is complete. *)
StageDone(c) ==
    /\ pc[c] = "iodone" /\ AtEventLoop
    /\ stage[c] \in {"head", "tail"}
    /\ EnterStage(c, req[c], IF stage[c] = "head" THEN AfterHead(req[c]) ELSE "write", tracked, ready)
    /\ UNCHANGED <<made, tracked, datavars>>

(* A copy on read whose cluster is not allocated reads the cluster instead *)
(* and then writes it; neither waits again.                                *)
CopyOnRead(c) ==
    /\ req[c].kind = "cor"
    /\ \/ pc[c] = "io" /\ stage[c] = "read" /\ stage' = [stage EXCEPT ![c] = "corread"]
       \/ pc[c] = "iodone" /\ stage[c] = "corread" /\ stage' = [stage EXCEPT ![c] = "corwrite"]
    /\ AtEventLoop
    /\ pc' = [pc EXCEPT ![c] = "io"]
    /\ UNCHANGED <<current, wakeup, ready, made, reqvars, bsvars, datavars>>

(* Mutant: the waiters are not woken. *)
RestartNone(q) == <<>>

(* vmx_co_queue_restart_all: the waiters that are moved to co_queue_wakeup. *)
restart_all(q) == q

(* Mutant: the count is not given back. *)
InFlightAfterKept(r) == serialising_in_flight

(* Mutant: the count is given back for every request. *)
InFlightAfterAny(r) == serialising_in_flight - 1

InFlightAfter(r) == serialising_in_flight - IF r.serialising THEN 1 ELSE 0

(* tracked_request_end, when the last I/O is complete or one has failed.   *)
End(c) ==
    /\ pc[c] = "failed" \/ (pc[c] = "iodone" /\ stage[c] \in {"read", "write", "corwrite"})
    /\ AtEventLoop
    /\ serialising_in_flight' = InFlightAfter(req[c])
    /\ tracked' = Removed(tracked, c)
    /\ wakeup' = [wakeup EXCEPT ![c] = @ \o restart_all(wait_queue[c])]
    /\ wait_queue' = [wait_queue EXCEPT ![c] = <<>>]
    /\ req' = [req EXCEPT ![c] = Idle]
    /\ pc' = [pc EXCEPT ![c] = "out"]
    /\ stage' = [stage EXCEPT ![c] = "none"]
    /\ buf' = [buf EXCEPT ![c] = [i \in Cell |-> NoOne]]
    /\ current' = c
    /\ UNCHANGED <<ready, made, waiting_for, disk>>

(* vmx_co_queue_run_restart enters a waiter, which looks through the list  *)
(* again.                                                                  *)
Resume(c) ==
    /\ current = NoOne /\ ready # <<>> /\ c = Head(ready)
    /\ WaitOrGo(c, req[c], tracked)
    /\ Yield(c, Tail(ready))
    /\ UNCHANGED <<stage, made, req, bsvars, datavars>>

Step(c) == DiskIo(c) \/ IoFails(c) \/ StageDone(c) \/ CopyOnRead(c) \/ End(c) \/ Resume(c) \/ Leave(c)

(* All requests have been made and the device is idle. *)
Finished == AtEventLoop /\ tracked = <<>> /\ made = MaxRequests

Next ==
    \/ \E c \in Coroutines : Step(c) \/ \E s \in Shapes : Begin(c, s)
    \/ Finished /\ UNCHANGED vars

Spec == Init /\ [][Next]_vars

(* I/O that was started ends, the event loop dispatches its completion,    *)
(* and a coroutine runs on to its next yield.                              *)
Fairness == \A c \in Coroutines : WF_vars(Step(c))
FairSpec == Spec /\ Fairness

-----------------------------------------------------------------------------
(* Every variable has its type; the unsigned counters of the code never go *)
(* below zero (tracked_request_end).                                       *)
TypeOK ==
    /\ pc \in [Coroutines -> {"out", "wait", "io", "iodone", "failed"}]
    /\ stage \in [Coroutines -> {"none", "head", "tail", "write", "read", "corread", "corwrite"}]
    /\ current \in Coroutines \cup {NoOne}
    /\ wakeup \in [Coroutines -> Seq(Coroutines)] /\ ready \in Seq(Coroutines)
    /\ made \in 0 .. MaxRequests
    /\ \A c \in Coroutines :
          /\ req[c].kind \in {"none", "read", "cor", "write"} /\ req[c].serialising \in BOOLEAN
          /\ {req[c].offset, req[c].bytes, req[c].overlap_offset, req[c].overlap_bytes} \subseteq Nat
    /\ waiting_for \in [Coroutines -> Coroutines \cup {NoOne}]
    /\ wait_queue \in [Coroutines -> Seq(Coroutines)]
    /\ tracked \in Seq(Coroutines) /\ serialising_in_flight \in Nat
    /\ disk \in [Cell -> Coroutines \cup {NoOne}]
    /\ buf \in [Coroutines -> [Cell -> Coroutines \cup {NoOne}]]

(* The cells that the request has read and is going to write back. *)
Done(c, s) == stage[c] = s /\ pc[c] = "iodone"
HeadRead(c) == HasHead(req[c]) /\ (stage[c] \in {"tail", "write"} \/ Done(c, "head"))
TailRead(c) == HasTail(req[c]) /\ (stage[c] = "write" \/ Done(c, "tail"))
ClusterRead(c) == Done(c, "corread") \/ stage[c] = "corwrite"
Carried(c) ==
    (IF HeadRead(c) THEN IoSpan(req[c], "head") \ Span(req[c].offset, req[c].bytes) ELSE {})
    \cup (IF TailRead(c) THEN IoSpan(req[c], "tail") \ Span(req[c].offset, req[c].bytes) ELSE {})
    \cup (IF ClusterRead(c) THEN IoSpan(req[c], "corread") ELSE {})

(* A read-modify-write cycle is atomic, and so is the copy of a cluster:   *)
(* what the request will write back next to its own data is still what the *)
(* disk holds, whatever the other coroutines do between its yields.        *)
(* bdrv_aligned_preadv: "guest writes cannot interleave between them".     *)
ReadModifyWriteAtomic ==
    \A c \in Coroutines :
        pc[c] # "failed" => \A i \in Carried(c) : buf[c][i] = disk[i]

(* The assertions of bdrv_co_do_pwritev and bdrv_aligned_pwritev: a        *)
(* request that has read its head waits neither before it reads its tail   *)
(* nor before it writes; what it had read would be stale.                  *)
RmwNeverWaits ==
    \A c \in Coroutines : pc[c] = "wait" =>
        /\ stage[c] = "tail" => ~HasHead(req[c])
        /\ stage[c] = "write" => ~req[c].serialising

(* No ring of requests that wait for each other: "just go on (instead of   *)
(* producing a deadlock)" of wait_serialising_requests is enough, also for *)
(* rings through several requests.                                         *)
NoWaitCycle ==
    \A S \in (SUBSET Coroutines) \ {{}} :
        \E c \in S : pc[c] # "wait" \/ waiting_for[c] \notin S

(* serialising_in_flight, which lets a request skip the search, counts the *)
(* serialising requests of the list, and nobody sleeps in the queue of a   *)
(* request that has gone (it lives on its coroutine's stack).              *)
InFlightCounts ==
    /\ serialising_in_flight =
          Cardinality({c \in Coroutines : req[c].serialising /\ \E k \in DOMAIN tracked : tracked[k] = c})
    /\ \A c \in Coroutines : wait_queue[c] # <<>> => \E k \in DOMAIN tracked : tracked[k] = c

(* Every request ends, however many requests it has to wait for, so        *)
(* bdrv_drain, which polls until the list is empty, returns.               *)
RequestsEnd == \A c \in Coroutines : pc[c] # "out" ~> pc[c] = "out"
=============================================================================
