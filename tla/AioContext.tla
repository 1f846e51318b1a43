----------------------------- MODULE AioContext -----------------------------
(***************************************************************************)
(* How an AioContext's bottom half is scheduled by threads that do not     *)
(* hold the global mutex, and how the event loops that should run it are   *)
(* woken: block/async.c and util/main-loop.c.                              *)
(*                                                                         *)
(* Two event loops poll the same context: the main loop, which gives the   *)
(* mutex up while it sleeps, and aio_poll, which a thread calls with the   *)
(* mutex held, from a virtual CPU's device code or nested in a callback.   *)
(* The workers of the thread pool make items ready and schedule the        *)
(* bottom half, whose function is thread_pool_completion_bh: it runs the   *)
(* callbacks of the items it finds ready and schedules itself first.       *)
(***************************************************************************)
EXTENDS Naturals, Sequences

CONSTANTS Main, Vcpu,   \* the threads that poll the context
          Nobody,
          Items,        \* requests executed by worker threads
          NoItem,
          MaxDepth,     \* how deeply a thread nests aio_poll
          StoreBuffer   \* the host's stores pass later loads (x86)

ASSUME Names == Main # Vcpu /\ Nobody \notin {Main, Vcpu} /\ NoItem \notin Items
ASSUME Depth == MaxDepth \in Nat
ASSUME StoreBufferBoolean == StoreBuffer \in BOOLEAN

Pollers == {Main, Vcpu}

VARIABLES
    bql,          \* who holds the global mutex
    item,         \* of each item: at work, ready, or seen by its callback
    ipc,          \* where the worker of each item is in vmx_bh_schedule
    scheduled,    \* bh->scheduled in memory
    buffered,     \* who has scheduled = 0 in its store buffer
    notified,     \* the notifier's pipe is readable
    dispatching,  \* ctx->dispatching
    revents,      \* node->pfd.revents of the notifier's handler
    pc,           \* where each poller is
    frames        \* the calls of aio_poll that each poller is in

vars == <<bql, item, ipc, scheduled, buffered, notified, dispatching, revents, pc, frames>>

Init ==
    /\ bql = Main
    /\ item = [i \in Items |-> "work"]
    /\ ipc = [i \in Items |-> "work"]
    /\ scheduled = FALSE /\ buffered = Nobody
    /\ notified = FALSE /\ dispatching = FALSE /\ revents = FALSE
    /\ pc = [t \in Pollers |-> IF t = Main THEN "prepare" ELSE "guest"]
    /\ frames = [t \in Pollers |-> <<>>]

Goto(t, from, to) == pc[t] = from /\ pc' = [pc EXCEPT ![t] = to]

aio_notify == notified' = (notified \/ ~dispatching)

-----------------------------------------------------------------------------
(* A worker thread: worker_thread's last lines and vmx_bh_schedule         *)

(* The item is ready; pool->lock orders this before what follows. *)
WorkerReady(i) ==
    /\ ipc[i] = "work"
    /\ ipc' = [ipc EXCEPT ![i] = "schedule"]
    /\ item' = [item EXCEPT ![i] = "ready"]
    /\ UNCHANGED <<bql, scheduled, buffered, notified, dispatching, revents, pc, frames>>

(* vmx_bh_schedule up to the memory barrier of aio_notify.  A store that   *)
(* is buffered may have become visible by now, or not yet.                 *)
WorkerSchedule(i) ==
    /\ ipc[i] = "schedule"
    /\ \/ /\ scheduled
          /\ ipc' = [ipc EXCEPT ![i] = "end"]
          /\ UNCHANGED <<scheduled, buffered>>
       \/ /\ ~scheduled \/ buffered # Nobody
          /\ ipc' = [ipc EXCEPT ![i] = "notify"]
          /\ scheduled' = TRUE /\ buffered' = Nobody
    /\ UNCHANGED <<bql, item, notified, dispatching, revents, pc, frames>>

WorkerNotify(i) ==
    /\ ipc[i] = "notify"
    /\ ipc' = [ipc EXCEPT ![i] = "end"]
    /\ aio_notify
    /\ UNCHANGED <<bql, item, scheduled, buffered, dispatching, revents, pc, frames>>

Worker(i) == WorkerReady(i) \/ WorkerSchedule(i) \/ WorkerNotify(i)

-----------------------------------------------------------------------------
(* aio_dispatch: the bottom half, then the notifier's handler              *)

(* What a thread reads when it reads bh->scheduled. *)
SeesScheduled(t) == scheduled /\ buffered # t

(* aio_bh_poll clears bh->scheduled before it calls the function.  smp_rmb *)
(* is no instruction: the store may become visible as late as the thread's *)
(* next locked instruction or barrier (Drain).                             *)
BhTake(t) ==
    /\ SeesScheduled(t)
    /\ Goto(t, "bh", "cb")
    /\ scheduled' = StoreBuffer
    /\ buffered' = IF StoreBuffer THEN t ELSE Nobody
    /\ UNCHANGED <<bql, item, ipc, notified, dispatching, revents, frames>>

BhNone(t) ==
    /\ ~SeesScheduled(t)
    /\ Goto(t, "bh", "drain")
    /\ UNCHANGED <<bql, item, ipc, scheduled, buffered, notified, dispatching, revents, frames>>

Drain(t) ==
    /\ scheduled' = (scheduled /\ buffered # t)
    /\ buffered' = Nobody

(* The function finds an item ready: it schedules the bottom half again,   *)
(* which has a memory barrier, and calls the item's callback.              *)
BhCallback(t, i) ==
    /\ Goto(t, "cb", "callback")
    /\ item[i] = "ready"
    /\ item' = [item EXCEPT ![i] = "seen"]
    /\ scheduled' = TRUE
    /\ buffered' = Nobody
    /\ IF SeesScheduled(t) THEN UNCHANGED notified ELSE aio_notify
    /\ UNCHANGED <<bql, ipc, dispatching, revents, frames>>

CallbackReturn(t) ==
    /\ Goto(t, "callback", "cb")
    /\ UNCHANGED <<bql, item, ipc, scheduled, buffered, notified, dispatching, revents, frames>>

BhEnd(t) ==
    /\ Goto(t, "cb", "drain")
    /\ \A i \in Items : item[i] # "ready"
    /\ UNCHANGED <<bql, item, ipc, scheduled, buffered, notified, dispatching, revents, frames>>

(* ctx->walking_bh is not zero after aio_bh_poll has decremented it: the   *)
(* call is nested in a callback of another one.                            *)
WalkingBh(t) == Len(frames[t]) > (IF t = Vcpu THEN 1 ELSE 0)

(* The outermost aio_bh_poll takes bh_lock: the store buffer is empty then. *)
BhLock(t) ==
    /\ Goto(t, "drain", "handlers")
    /\ IF WalkingBh(t) THEN UNCHANGED <<scheduled, buffered>> ELSE Drain(t)
    /\ UNCHANGED <<bql, item, ipc, notified, dispatching, revents, frames>>

(* aio_dispatch's loop over the handlers: the notifier's empties its pipe. *)
Handlers(t) ==
    /\ Goto(t, "handlers", IF frames[t] = <<>> THEN "prepare" ELSE "return")
    /\ notified' = (notified /\ ~revents)
    /\ revents' = FALSE
    /\ UNCHANGED <<bql, item, ipc, scheduled, buffered, dispatching, frames>>

Dispatch(t) ==
    \/ BhTake(t) \/ BhNone(t) \/ CallbackReturn(t) \/ BhEnd(t) \/ BhLock(t) \/ Handlers(t)
    \/ \E i \in Items : BhCallback(t, i)

-----------------------------------------------------------------------------
(* aio_poll, called with the mutex held.  A caller that waits for an item  *)
(* calls it with blocking = true until the item's callback has run; any    *)
(* other (bdrv_drain of a device that is not busy) with blocking = false.  *)

Blocking(f) == f.for # NoItem

(* Mutant: a nested call leaves ctx->dispatching as it found it. *)
DispatchingKept(f) == dispatching

(* aio_poll's value for ctx->dispatching while it polls. *)
DispatchingAtPoll(f) == ~Blocking(f)

(* Clearing ctx->dispatching is followed by a memory barrier. *)
aio_set_dispatching(t, value) ==
    /\ dispatching' = value
    /\ IF value THEN UNCHANGED <<scheduled, buffered>> ELSE Drain(t)

AioPoll(t, i) ==
    /\ pc[t] \in {"device", "callback"} /\ Len(frames[t]) < MaxDepth
    /\ i # NoItem => item[i] # "seen"
    /\ LET f == [was |-> dispatching, for |-> i] IN
       /\ frames' = [frames EXCEPT ![t] = Append(@, f)]
       /\ aio_set_dispatching(t, DispatchingAtPoll(f))
    /\ pc' = [pc EXCEPT ![t] = "compute"]
    /\ UNCHANGED <<bql, item, ipc, notified, revents>>

Frame(t) == frames[t][Len(frames[t])]

(* Mutant: the bottom halves are not looked at. *)
TimeoutIsZeroNever(t) == FALSE

(* aio_compute_timeout *)
TimeoutIsZero(t) == SeesScheduled(t)

AioPollCompute(t) ==
    /\ Goto(t, "compute", IF Blocking(Frame(t)) /\ ~TimeoutIsZero(t) THEN "sleep" ELSE "nowait")
    /\ UNCHANGED <<bql, item, ipc, scheduled, buffered, notified, dispatching, revents, frames>>

(* vmx_poll_ns returns: at once, or when the pipe is readable. *)
AioPollReturns(t) ==
    /\ \/ Goto(t, "nowait", "bh")
       \/ Goto(t, "sleep", "bh") /\ notified
    /\ revents' = (revents \/ notified)
    /\ aio_set_dispatching(t, TRUE)
    /\ UNCHANGED <<bql, item, ipc, notified, frames>>

(* aio_poll restores ctx->dispatching and returns; its caller calls it     *)
(* again while its item has not been seen.                                 *)
AioPollEnd(t) ==
    /\ pc[t] = "return"
    /\ LET f == Frame(t)
           n == Len(frames[t]) IN
       IF Blocking(f) /\ item[f.for] # "seen"
       THEN /\ UNCHANGED frames
            /\ aio_set_dispatching(t, DispatchingAtPoll(f))
            /\ pc' = [pc EXCEPT ![t] = "compute"]
       ELSE /\ frames' = [frames EXCEPT ![t] = SubSeq(@, 1, n - 1)]
            /\ aio_set_dispatching(t, f.was)
            /\ pc' = [pc EXCEPT ![t] = IF t = Vcpu /\ n = 1 THEN "device" ELSE "callback"]
    /\ UNCHANGED <<bql, item, ipc, notified, revents>>

AioPollCall(t) == \E i \in Items \cup {NoItem} : AioPoll(t, i)

AioPollStep(t) == AioPollCompute(t) \/ AioPollReturns(t) \/ AioPollEnd(t)

(* The virtual CPU leaves the guest for device code and returns to it. *)
VcpuEnters ==
    /\ Goto(Vcpu, "guest", "device")
    /\ bql = Nobody /\ bql' = Vcpu
    /\ UNCHANGED <<item, ipc, scheduled, buffered, notified, dispatching, revents, frames>>

VcpuLeaves ==
    /\ Goto(Vcpu, "device", "guest")
    /\ bql' = Nobody
    /\ UNCHANGED <<item, ipc, scheduled, buffered, notified, dispatching, revents, frames>>

-----------------------------------------------------------------------------
(* The main loop, vmx_event_wait_ns                                        *)

(* aio_ctx_prepare; the mutex is given up if the timeout is not zero. *)
MainPrepare ==
    /\ Goto(Main, "prepare", IF TimeoutIsZero(Main) THEN "check" ELSE "mpoll")
    /\ bql' = IF TimeoutIsZero(Main) THEN Main ELSE Nobody
    /\ UNCHANGED <<item, ipc, scheduled, buffered, notified, dispatching, revents, frames>>

(* The poll returns because the pipe is readable ... *)
MainNotified ==
    /\ Goto(Main, "mpoll", "mlock")
    /\ notified
    /\ UNCHANGED <<bql, item, ipc, scheduled, buffered, notified, dispatching, revents, frames>>

(* ... or because of another descriptor or a timer. *)
MainOtherEvent ==
    /\ Goto(Main, "mpoll", "mother")
    /\ UNCHANGED <<bql, item, ipc, scheduled, buffered, notified, dispatching, revents, frames>>

(* Mutant: the mutex is not taken back after the poll. *)
MainCheckUnlocked ==
    /\ pc[Main] \in {"mlock", "mother", "check"}
    /\ revents' = notified
    /\ pc' = [pc EXCEPT ![Main] = IF scheduled \/ notified THEN "bh" ELSE "prepare"]
    /\ UNCHANGED <<bql, item, ipc, scheduled, buffered, notified, dispatching, frames>>

(* aio_ctx_check, with the descriptors' state as poll saw it. *)
MainCheck ==
    /\ \/ pc[Main] \in {"mlock", "mother"} /\ bql = Nobody
       \/ pc[Main] = "check"
    /\ bql' = Main
    /\ LET ready == pc[Main] = "mlock" \/ (pc[Main] = "check" /\ notified) IN
       /\ revents' = ready
       /\ pc' = [pc EXCEPT ![Main] = IF scheduled \/ ready THEN "bh" ELSE "prepare"]
    /\ UNCHANGED <<item, ipc, scheduled, buffered, notified, dispatching, frames>>

-----------------------------------------------------------------------------
PollerStep(t) == Dispatch(t) \/ AioPollStep(t)

Next ==
    \/ \E i \in Items : Worker(i)
    \/ \E t \in Pollers : PollerStep(t) \/ AioPollCall(t)
    \/ VcpuEnters \/ VcpuLeaves
    \/ MainPrepare \/ MainNotified \/ MainOtherEvent \/ MainCheck

Spec == Init /\ [][Next]_vars

(* Threads are scheduled and receive the mutex they ask for; a poll whose  *)
(* pipe stays readable returns; device code and callbacks end.  That some  *)
(* other descriptor or timer ends a poll is not assumed.                   *)
Fairness ==
    /\ \A i \in Items : WF_vars(Worker(i))
    /\ \A t \in Pollers : WF_vars(PollerStep(t)) /\ SF_vars(CallbackReturn(t))
    /\ SF_vars(VcpuLeaves) /\ WF_vars(MainPrepare) /\ WF_vars(MainNotified)
    /\ SF_vars(MainCheck)

FairSpec == Spec /\ Fairness

-----------------------------------------------------------------------------
(* Properties *)

PollPcs == {"bh", "cb", "callback", "drain", "handlers", "return", "compute", "nowait", "sleep"}

(* Every variable has its type; only the mutex's holder is in the code     *)
(* that must hold it.                                                      *)
TypeOK ==
    /\ bql \in Pollers \cup {Nobody} /\ buffered \in Pollers \cup {Nobody}
    /\ item \in [Items -> {"work", "ready", "seen"}]
    /\ ipc \in [Items -> {"work", "schedule", "notify", "end"}]
    /\ scheduled \in BOOLEAN /\ notified \in BOOLEAN
    /\ dispatching \in BOOLEAN /\ revents \in BOOLEAN
    /\ pc[Main] \in PollPcs \cup {"prepare", "check", "mpoll", "mlock", "mother"}
    /\ pc[Vcpu] \in PollPcs \cup {"guest", "device"}
    /\ \A t \in Pollers : Len(frames[t]) <= MaxDepth
    /\ \A t \in Pollers : bql # t => pc[t] \in {"guest", "mpoll", "mlock", "mother"}

(* No thread sleeps in aio_poll while the bottom half is scheduled unless  *)
(* it will be notified: clearing ctx->dispatching before the timeout is    *)
(* computed closes the gap, also in a nested call.                         *)
SleeperIsNotified ==
    \A t \in Pollers : pc[t] = "sleep" /\ scheduled =>
        notified \/ \E i \in Items : ipc[i] = "notify"

(* A thread that waits in aio_poll for an item returns once the item's     *)
(* worker has finished: every vmx_bh_schedule reaches the bottom half.     *)
WaiterReturns == \A t \in Pollers : frames[t] # <<>> ~> frames[t] = <<>>

(* vmx_bh_schedule makes the event loop run the bottom half: an item that  *)
(* is ready is seen.                                                       *)
BottomHalfRuns == \A i \in Items : item[i] = "ready" ~> item[i] = "seen"
=============================================================================
