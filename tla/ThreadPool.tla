----------------------------- MODULE ThreadPool -----------------------------
(***************************************************************************)
(* The pool of worker threads that executes blocking disk I/O,             *)
(* util/thread-pool.c.                                                     *)
(*                                                                         *)
(* The client is the one thread at a time that runs the AioContext under   *)
(* the global mutex: it submits and cancels requests and runs the          *)
(* completion bottom half, whose callbacks may submit, cancel and call     *)
(* aio_poll, which runs the bottom half again inside the callback.  The    *)
(* workers run beside it; what they do under pool->lock is one action,     *)
(* what they do without it is one action per shared access.                *)
(*                                                                         *)
(* The bottom half itself is what AioContext promises: a flag that, once   *)
(* set, makes the client's event loop call the function.                   *)
(***************************************************************************)
EXTENDS LinkedLists, FiniteSets

CONSTANTS Requests,     \* the ThreadPoolElements, each submitted at most once
          WithCallback, \* those of thread_pool_submit_aio and _co; the others
                        \* come from thread_pool_submit
          Workers,      \* the pool's threads
          NoRequest,
          MaxDepth      \* how deeply callbacks nest aio_poll

ASSUME RequestSets == WithCallback \subseteq Requests /\ NoRequest \notin Requests
ASSUME WorkersFinite == IsFiniteSet(Workers)
ASSUME DepthNat == MaxDepth \in Nat

VARIABLES
    state, ret,     \* of each ThreadPoolElement
    head,           \* pool->head: the elements that are not completed
    request_list,   \* pool->request_list
    sem,            \* the count of pool->sem
    stopping,       \* pool->stopping
    scheduled,      \* completion_bh is scheduled
    wpc, wreq,      \* where each worker is, and its local variable req
    cpc,            \* where the client is
    depth,          \* how many callbacks the client is inside
    scan,           \* the elements that QLIST_FOREACH_SAFE has yet to visit
    called          \* how often each element's callback was called

elemvars == <<state, ret>>
workervars == <<wpc, wreq>>
clientvars == <<cpc, depth, scan>>
vars == <<elemvars, head, request_list, sem, stopping, scheduled,
          workervars, clientvars, called>>

(* thread_pool_create *)
Init ==
    /\ state = [r \in Requests |-> "NEW"]
    /\ ret = [r \in Requests |-> "none"]
    /\ head = {} /\ request_list = <<>>
    /\ sem = 0 /\ stopping = FALSE /\ scheduled = FALSE
    /\ wpc = [w \in Workers |-> "check"]
    /\ wreq = [w \in Workers |-> NoRequest]
    /\ cpc = "client" /\ depth = 0 /\ scan = {}
    /\ called = [r \in Requests |-> 0]

-----------------------------------------------------------------------------
(* worker_thread *)

WorkerGoto(w, from, to) == wpc[w] = from /\ wpc' = [wpc EXCEPT ![w] = to]

(* The loop's test of pool->stopping, made without the lock. *)
WorkerCheck(w) ==
    /\ WorkerGoto(w, "check", IF stopping THEN "exited" ELSE "wait")
    /\ UNCHANGED <<elemvars, head, request_list, sem, stopping, scheduled, wreq,
                   clientvars, called>>

WorkerToken(w) ==
    /\ WorkerGoto(w, "wait", "lock")
    /\ sem > 0 /\ sem' = sem - 1
    /\ UNCHANGED <<elemvars, head, request_list, stopping, scheduled, wreq,
                   clientvars, called>>

(* Mutant: a token is taken although none was there. *)
TimeoutDecrements(w) ==
    /\ WorkerGoto(w, "wait", "lock")
    /\ sem' = sem - 1
    /\ UNCHANGED <<elemvars, head, request_list, stopping, scheduled, wreq,
                   clientvars, called>>

(* vmx_sem_timedwait times out or is aborted; its result is not looked at. *)
WorkerTimeout(w) ==
    /\ WorkerGoto(w, "wait", "lock")
    /\ UNCHANGED <<elemvars, head, request_list, sem, stopping, scheduled, wreq,
                   clientvars, called>>

WorkerNothing(w) ==
    /\ request_list = <<>>
    /\ WorkerGoto(w, "lock", "check")
    /\ UNCHANGED <<elemvars, head, request_list, sem, stopping, scheduled, wreq,
                   clientvars, called>>

WorkerTake(w) ==
    /\ request_list # <<>>
    /\ WorkerGoto(w, "lock", "run")
    /\ wreq' = [wreq EXCEPT ![w] = Head(request_list)]
    /\ request_list' = Tail(request_list)
    /\ state' = [state EXCEPT ![Head(request_list)] = "ACTIVE"]
    /\ UNCHANGED <<ret, head, sem, stopping, scheduled, clientvars, called>>

(* Mutant: the result is stored after the request is marked as done. *)
StoreDoneFirst(w) ==
    /\ \/ /\ WorkerGoto(w, "run", "ran")
          /\ state' = [state EXCEPT ![wreq[w]] = "DONE"]
          /\ UNCHANGED ret
       \/ /\ WorkerGoto(w, "ran", "done")
          /\ ret' = [ret EXCEPT ![wreq[w]] = "result"]
          /\ UNCHANGED state

(* req->func returns; the result, then the state, are written without the  *)
(* lock.                                                                   *)
StoreResult(w) ==
    /\ \/ /\ WorkerGoto(w, "run", "ran")
          /\ ret' = [ret EXCEPT ![wreq[w]] = "result"]
          /\ UNCHANGED state
       \/ /\ WorkerGoto(w, "ran", "done")
          /\ state' = [state EXCEPT ![wreq[w]] = "DONE"]
          /\ UNCHANGED ret

WorkerStore(w) ==
    /\ StoreResult(w)
    /\ UNCHANGED <<head, request_list, sem, stopping, scheduled, wreq, clientvars, called>>

WorkerSchedule(w) ==
    /\ WorkerGoto(w, "done", "check")
    /\ scheduled' = TRUE
    /\ wreq' = [wreq EXCEPT ![w] = NoRequest]
    /\ UNCHANGED <<elemvars, head, request_list, sem, stopping, clientvars, called>>

Worker(w) ==
    \/ WorkerCheck(w) \/ WorkerToken(w) \/ WorkerTimeout(w) \/ WorkerNothing(w)
    \/ WorkerTake(w) \/ WorkerStore(w) \/ WorkerSchedule(w)

-----------------------------------------------------------------------------
(* The client *)

ClientGoto(from, to) == cpc = from /\ cpc' = to

(* thread_pool_submit_aio: the request is on the list before its token is  *)
(* in the semaphore.                                                       *)
SubmitAio(r) ==
    /\ ClientGoto("client", "post")
    /\ state[r] = "NEW"
    /\ state' = [state EXCEPT ![r] = "QUEUED"]
    /\ head' = head \cup {r}
    /\ request_list' = Append(request_list, r)
    /\ UNCHANGED <<ret, sem, stopping, scheduled, workervars, depth, scan, called>>

SubmitPost ==
    /\ ClientGoto("post", "client")
    /\ sem' = sem + 1
    /\ UNCHANGED <<elemvars, head, request_list, stopping, scheduled, workervars,
                   depth, scan, called>>

(* What becomes of an element that is cancelled, wherever it was. *)
MarkCancelled(r) ==
    /\ scheduled' = TRUE
    /\ state' = [state EXCEPT ![r] = "DONE"]
    /\ ret' = [ret EXCEPT ![r] = "ECANCELED"]

Cancelled(r) ==
    /\ \E i \in 1 .. Len(request_list) :
          request_list[i] = r /\ request_list' = RemovedAt(request_list, i)
    /\ MarkCancelled(r)

(* Mutants: the token is taken before the state is looked at; the state is *)
(* not looked at.                                                          *)
CancelTokenFirst(r) ==
    /\ sem > 0 /\ sem' = sem - 1
    /\ IF state[r] = "QUEUED" THEN Cancelled(r)
       ELSE UNCHANGED <<state, ret, request_list, scheduled>>

CancelAnyState(r) ==
    /\ sem > 0 /\ sem' = sem - 1
    /\ IF state[r] = "QUEUED" THEN Cancelled(r)
       ELSE MarkCancelled(r) /\ UNCHANGED request_list

(* thread_pool_cancel's body; with another state or without a token it     *)
(* does nothing.                                                           *)
CancelQueued(r) ==
    /\ state[r] = "QUEUED"
    /\ sem > 0 /\ sem' = sem - 1
    /\ Cancelled(r)

thread_pool_cancel(r) ==
    /\ cpc = "client" /\ r \in head
    /\ CancelQueued(r)
    /\ UNCHANGED <<head, stopping, workervars, clientvars, called>>

(* aio_bh_poll calls thread_pool_completion_bh. *)
BhStart ==
    /\ ClientGoto("client", "scan")
    /\ scheduled /\ depth < MaxDepth
    /\ scheduled' = FALSE
    /\ scan' = head
    /\ UNCHANGED <<elemvars, head, request_list, sem, stopping, workervars, depth, called>>

(* The loop passes an element whose state, read without the lock, is not   *)
(* yet done.                                                               *)
BhSkip(r) ==
    /\ cpc = "scan" /\ r \in scan
    /\ state[r] # "DONE"
    /\ scan' = scan \ {r}
    /\ UNCHANGED <<elemvars, head, request_list, sem, stopping, scheduled, workervars,
                   cpc, depth, called>>

(* Mutants: the bottom half does not schedule itself, or removes the       *)
(* element after its callback.                                             *)
CompleteNoSchedule(r) == head' = head \ {r} /\ UNCHANGED scheduled

CompleteRemovesLate(r) == UNCHANGED head /\ scheduled' = TRUE

Complete(r) == head' = head \ {r} /\ scheduled' = TRUE

(* An element that is done is removed and its callback called. *)
BhCallback(r) ==
    /\ ClientGoto("scan", "client") /\ r \in scan
    /\ state[r] = "DONE" /\ r \in WithCallback
    /\ Complete(r)
    /\ depth' = depth + 1
    /\ called' = [called EXCEPT ![r] = @ + 1]
    /\ UNCHANGED <<elemvars, request_list, sem, stopping, workervars, scan>>

(* The callback returns: goto restart. *)
CallbackReturn ==
    /\ ClientGoto("client", "scan") /\ depth > 0
    /\ depth' = depth - 1
    /\ scan' = head
    /\ UNCHANGED <<elemvars, head, request_list, sem, stopping, scheduled, workervars, called>>

BhDrop(r) ==
    /\ cpc = "scan" /\ r \in scan
    /\ state[r] = "DONE" /\ r \notin WithCallback
    /\ head' = head \ {r}
    /\ scan' = scan \ {r}
    /\ UNCHANGED <<elemvars, request_list, sem, stopping, scheduled, workervars,
                   cpc, depth, called>>

BhEnd ==
    /\ ClientGoto("scan", "client")
    /\ scan = {}
    /\ UNCHANGED <<elemvars, head, request_list, sem, stopping, scheduled, workervars,
                   depth, scan, called>>

(* Mutant: one token is posted for all the workers. *)
TokensToStopOne == 1

TokensToStop == Cardinality(Workers)

(* thread_pool_destroy asks the workers to stop ... *)
Destroy ==
    /\ ClientGoto("client", "join") /\ depth = 0
    /\ head = {}
    /\ stopping' = TRUE
    /\ sem' = sem + TokensToStop
    /\ UNCHANGED <<elemvars, head, request_list, scheduled, workervars, depth, scan, called>>

(* ... joins them, and deletes the bottom half and the pool. *)
DestroyJoined ==
    /\ ClientGoto("join", "gone")
    /\ \A w \in Workers : wpc[w] = "exited"
    /\ scheduled' = FALSE
    /\ UNCHANGED <<elemvars, head, request_list, sem, stopping, workervars, depth, scan, called>>

CompletionBh ==
    \/ BhEnd \/ \E r \in Requests : BhSkip(r) \/ BhCallback(r) \/ BhDrop(r)

Client ==
    \/ \E r \in Requests : SubmitAio(r) \/ thread_pool_cancel(r)
    \/ SubmitPost \/ BhStart \/ CompletionBh \/ CallbackReturn
    \/ Destroy \/ DestroyJoined

Next == Client \/ \E w \in Workers : Worker(w)

Spec == Init /\ [][Next]_vars

(* Threads are scheduled, the kernel serves the semaphore's waiters in     *)
(* order (SYNC_POLICY_FIFO), the event loop calls a scheduled bottom half  *)
(* and callbacks return.  Nothing is assumed of the timeouts.              *)
Fairness ==
    /\ WF_vars(SubmitPost) /\ WF_vars(CompletionBh) /\ WF_vars(DestroyJoined)
    /\ SF_vars(BhStart) /\ SF_vars(CallbackReturn)
    /\ \A w \in Workers :
          /\ WF_vars(WorkerCheck(w) \/ WorkerNothing(w) \/ WorkerTake(w)
                     \/ WorkerStore(w) \/ WorkerSchedule(w))
          /\ SF_vars(WorkerToken(w))

FairSpec == Spec /\ Fairness

-----------------------------------------------------------------------------
(* Properties *)

InList(r) == \E i \in 1 .. Len(request_list) : request_list[i] = r

Busy(w) == wpc[w] \in {"run", "ran", "done"}

(* Every variable has its type. *)
TypeOK ==
    /\ state \in [Requests -> {"NEW", "QUEUED", "ACTIVE", "DONE"}]
    /\ ret \in [Requests -> {"none", "result", "ECANCELED"}]
    /\ head \in SUBSET Requests /\ request_list \in Seq(Requests)
    /\ sem \in Nat /\ stopping \in BOOLEAN /\ scheduled \in BOOLEAN
    /\ wpc \in [Workers -> {"check", "wait", "lock", "run", "ran", "done", "exited"}]
    /\ wreq \in [Workers -> Requests \cup {NoRequest}]
    /\ cpc \in {"client", "post", "scan", "join", "gone"}
    /\ depth \in 0 .. MaxDepth /\ scan \in SUBSET Requests
    /\ called \in [Requests -> Nat]

(* No request waits without a token: for each one on the list there is a   *)
(* token in the semaphore, a worker about to take a request, or the        *)
(* submitter about to post.  Neither cancellation nor a worker that timed  *)
(* out may lose one, or a request would wait for somebody's timeout.       *)
TokensCover ==
    Len(request_list) <= sem + Cardinality({w \in Workers : wpc[w] = "lock"})
                             + IF cpc = "post" THEN 1 ELSE 0

(* A request has one owner: it is on the list while queued, and a worker   *)
(* that will still write to it owns it alone; the client has neither       *)
(* freed it (it is on pool->head) nor cancelled it.                        *)
OneOwner ==
    /\ \A r \in Requests : InList(r) <=> state[r] = "QUEUED"
    /\ \A w \in Workers : wpc[w] \in {"run", "ran"} =>
          /\ wreq[w] \in head /\ state[wreq[w]] = "ACTIVE"
          /\ \A v \in Workers \ {w} : wpc[v] \in {"run", "ran"} => wreq[v] # wreq[w]

(* A completed request has its result, and its callback was called once;   *)
(* one that is not completed has not been reported.                        *)
CompletedOnce ==
    \A r \in Requests :
        /\ state[r] = "DONE" => ret[r] # "none"
        /\ called[r] = IF r \in WithCallback /\ state[r] = "DONE" /\ r \notin head
                       THEN 1 ELSE 0

(* No lost completion: when the client runs, also inside a callback that   *)
(* polls for another request, a request that is done will be found: the    *)
(* bottom half is scheduled or a worker is about to schedule it.           *)
NoLostCompletion ==
    cpc = "client" /\ (\E r \in head : state[r] = "DONE") =>
        scheduled \/ \E w \in Workers : wpc[w] = "done"

(* Every request that is submitted is completed, by the tokens alone: once *)
(* the client stops submitting (it has finitely many requests here), the   *)
(* list of requests that are not completed becomes empty.                  *)
EveryRequestCompletes == head # {} ~> head = {}

(* thread_pool_destroy returns, by its tokens alone. *)
DestroyReturns == cpc = "join" ~> cpc = "gone"
=============================================================================
