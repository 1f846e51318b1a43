# A TLA+ model of the VDHH virtual machine monitor

VDHH is a hypervisor for macOS: a QEMU derivative whose CPU back end is Apple's
Hypervisor framework. This directory holds TLA+ modules of its concurrent core, TLC
configurations that check them on small instances, and TLAPS proofs. Paths below are
relative to `src/`.

## 1. Inventory

| Component | Code | State | Operations | What is hard | What makes it correct |
|---|---|---|---|---|---|
| Virtual CPU threads | `util/cpus.c`, `vmm/veertu.c`, `vmm/x86veertu.c`, `util/cpu.c` | per CPU: `stop`, `stopped`, `hlt`, `halted`, `interrupt_request`, `vmx_vcpu_dirty`, work queue | run, wait for I/O, kick, stop, `run_on_cpu`, exits | the global mutex is given up in the guest, in every wait and in the halted CPU's yield | no lost wakeup; a pause is answered; registers are read and reset only while nobody else uses them |
| Main loop and VM requests | `util/vl.c`, `util/cpus.c` | run state, `*_requested` flags | suspend, reset, wakeup, stop, start | requests come from CPUs' device code while the main loop carries out others | every operation ends; paused means paused |
| Snapshots | `util/savevm.c` | run state, the CPUs' register copies | `do_savevm`, `load_vmstate` | memory is written with the mutex released | the guest is still while it is written |
| Recursive FIFO lock | `util/rfifolock.c` | head, tail, nesting, owner | lock, unlock | wrapping tickets, a stale owner, broadcasts | exclusion, FIFO order, no starvation |
| Thread pool | `util/thread-pool.c` | element states, the list of all and of queued elements, a semaphore | submit, cancel, worker, completion bottom half, destroy | states are written without the lock; nested event loops; timed waits | each request is completed once, none is stranded |
| AioContext and bottom halves | `block/async.c` | bottom halves, handlers, notifier, `dispatching` | schedule, notify, poll, GSource callbacks | lock-free flags; two event loops on one context | whatever is scheduled runs |
| Main loop polling | `util/main-loop.c` | descriptor sets, timeouts | prepare, poll, dispatch | polls with the mutex released | as above |
| Thread primitives | `util/qemu-thread-posix.c` | QemuEvent, semaphores | set, reset, wait | compare-and-swap protocol of the event | a waiter wakes exactly when it should |
| Timers and clocks | `util/vmx-timer.c` | timer lists, `enabled`, `timers_done_ev` | mod, anticipate, del, run, enable | timers are armed while the main loop sleeps without the mutex; disabling waits for events under the mutex | the list is sorted and exact; the main loop never sleeps past a timer; disabling returns |
| Coroutines and their locks | `block/coroutine.c`, `block/coroutine-lock.c` | wait queues, `co_queue_wakeup` | enter, yield, CoQueue, CoMutex, CoRwlock | wakeups run later, when the waker yields | no lost wakeup |
| Block layer | `block/block.c` | `tracked_requests`, `serialising_in_flight`, `waiting_for` | read, copy on read, write, drain | requests that overlap interleave at every yield; read-modify-write cycles; failures in the middle | a cycle is atomic, nobody waits in a ring, every request ends |
| Jobs, image formats | `block/` | jobs, metadata | - | - | section 7 |
| Run state and user commands | `util/vl.c`, `window/cocoa.m`, `window/VmView.m`, `util/monitor.c` | run state, the request flags, the UI's flags | shutdown, reboot, reset, suspend, shutoff, signals | menu commands hold no lock; `abort` on an unlisted transition; a change handler that starts the VM again | which transitions can abort; flags agree; a saved VM never runs; requests are carried out |
| Guest memory slots | `vmm/veertu.c` | 32 slots | add, remove | inclusive bounds, splitting, exhaustion | slots do not overlap |
| Interrupt controllers | `devices/apic.c`, `devices/ioapic.c`, `devices/i8259.c` | IRR, ISR, masks | raise, acknowledge, EOI | priorities | - |
| Network, slirp, devices, emulator, guest tools, launcher | `util/net.c`, `slirp/`, `devices/`, `vmm/x86_emu.c`, `vlaunch/`, `vda/` | - | - | - | section 7 |

How they interact. One global mutex (`vmx_global_mutex`, written *bql* below)
serialises the main loop and the CPU threads. CPU threads give it up in
`hv_vcpu_run` and when they sleep on `halt_cond`; the main loop gives it up while it
polls. A CPU asks the main loop for resets, suspends and stops through flags in
`vl.c`; the main loop asks CPUs through `stop`, work items and kicks. Disk requests
go to the thread pool; a worker reports through a bottom half of the AioContext, run
by the main loop (through a GSource) or by whichever thread calls `aio_poll`, and
enters the coroutine that waits for the request. The recursive FIFO lock is what
`aio_context_acquire` takes. Pausing the CPUs disables the virtual clock, so every
stop of the VM goes through the timers' events. The user's commands set the flags of
`vl.c` and of `cocoa.m`, from the monitor inside the main loop or from the menu on the
Cocoa thread, which does not take the mutex. `current_cpu` is a plain global
(`include/qemu/tls.h`), so the reset that such a command requests stops whatever CPU
was the last to set it (`cpu_stop_current`), also from those two threads. The suspend
command is an idle bottom half, `do_suspendVM`, and runs in whichever `aio_poll` comes
first: the main loop's, or that of a CPU whose device drains a disk.

The hazards, each at its line and with the properties that watch it, are listed in
`PROJECT.json`.

## 2. Modules

| Module | Models | Checked by |
|---|---|---|
| `FifoLock` | abstract specification: a queue of threads, the first of which may hold the lock, nested | refinement target |
| `RFifoLock` | `util/rfifolock.c` | `MCRFifoLock` |
| `LinkedLists` | taking an element out of a list of `include/qemu/queue.h`, finding the first | through the modules that use it |
| `VcpuRun` | CPU threads with the main loop's pause, reset, suspend, wakeup, stop, snapshot and start | `MCVcpuRun`, three configurations |
| `ThreadPool` | `util/thread-pool.c` | `MCThreadPool` |
| `AioContext` | a bottom half, the notifier, `aio_poll` and the main loop's poll | `MCAioContext`, three configurations |
| `TrackedRequests` | overlapping requests to one disk, on coroutines and their queues | `MCTrackedRequests` |
| `RunState` | the run state, the requests to the main loop, the user's commands, the suspend to a snapshot | `MCRunState`, two configurations |
| `Timers` | timer lists, the virtual clock, QemuEvent, the main loop's sleep | `MCTimers` |
| `LinkedListProofs` | lemmas about lists: what removal leaves, lists whose elements are distinct | tlapm |
| `RFifoLockProofs`, `ThreadPoolProofs`, `VcpuRunProofs`, `AioContextProofs`, `TrackedRequestsProofs`, `RunStateProofs`, `TimersProofs` | theorems about the module of that name (section 5) | tlapm |

`VcpuRun` and `RunState` model the same main loop from two sides: the first follows
each CPU through a pause, the second follows what the requests mean and takes the
pause as one step. They share the order of the stages, the run states and the rule
for aborting.

Definitions named "Mutant" are wrong versions of the definition that follows them;
no specification uses them. They serve to show that a property can fail.

### RFifoLock

All code of the lock runs under `r->lock`, which only a `cond_wait` gives up, so an
action is the code between taking and giving up that mutex. `ticket` is the local
variable of `rfifolock_lock`; `held` counts a client's own calls and is the only
variable that the code does not have. `Inc` is the wrapping `++`. A sleeper that
wakes when it is not its turn changes nothing. The contention callback changes no
state of the lock and is left out. `FifoLock` states what the comment "Theory of
operation" in the source promises; `TicketQueue` is the refinement mapping.

### VcpuRun

An action is one stretch of code under the mutex. The exception is the forced restart
of the menu, on the Cocoa thread: its stores, to `reset_requested`, `stop` and
`stopped`, and its signal are one action each (`CocoaReset` to `CocoaSignal`), and
`pause_all_vcpus`, the only code that sleeps on what they change, is split at the
places where they may fall: after the requests (`PauseAsk`), between the test and the
wait (`PauseTest`, `PauseSleep`) and after a wakeup (`PauseRecheck`). A CPU's `pc`:

- `wait`: in `vmx_wait_for_io` with the mutex (`WaitSleep`, `WaitAgain`, `Exec`);
- `idle`, `woken`: asleep on `halt_cond`, and woken but without the mutex;
- `yield`: the unlock and lock of a CPU that stays halted;
- `enter`: the mutex given up in `veertu_cpu_exec`, before the test of `halted`;
- `guest`: inside `hv_vcpu_run`;
- `saveram`, `savesync`, `savewait`: in a `do_suspendVM` that its `aio_poll` runs:
  memory is written without the mutex, the registers of all CPUs are fetched, another
  CPU is waited for.

The main thread's `mpc` names its place: `poll` (mutex released), `dispatch` (one
handler), the stages `suspend`, `shutdown`, `reset`, `wakeup`, `vmstop` of
`main_loop_should_exit` in that order, `exited` and `aborted` when the process has
ended, and inside an operation `op` the steps of
`pause_all_vcpus`, `cpu_synchronize_all_states`, the device reset,
`cpu_synchronize_all_post_reset`, `resume_all_vcpus` and `vm_start`.

Abstractions:

- The kick's signal stays blocked in the CPU's thread (`vmx_init_cpu_signals`
  computes a mask and never applies it), so a kick wakes sleepers and does not end
  `hv_vcpu_run`; `thread_kicked` and `exit_request` have no reader that matters and
  are left out.
- `run_on_cpu` is called for another CPU by the main thread and by a CPU that saves
  the VM, and both wait for their item, so a queue holds at most one item of each:
  `work` is the main thread's, `sitem` and `scpu` are the saving CPU's.
- `current_cpu` is any CPU where the main or the Cocoa thread reads it: it holds the
  last CPU that handled an exit, or the one that `run_on_cpu` put back. Each of the
  Cocoa thread's stores reads it again.
- `Menu` says which commands the user may give: the forced restart, the suspend.
- `wait_for_sipi` always equals `halted` and is not kept.
- Of the guest's EFLAGS the model keeps IF while the CPU is halted. Whether a
  running guest can take an interrupt is a nondeterministic choice at each entry.
- NMI, TPR, POLL, MCE and debug events are left out. The only shutdown is the one at
  the end of a snapshot; the others, and powerdown, are `RunState`'s.
- A snapshot is the one of the suspend command (`do_suspendVM`), the only caller of
  `do_savevm`, and the program shuts down after it. On the main thread the VM is
  stopped before `do_savevm` looks whether it runs, so `do_savevm` never starts it
  again. On a CPU's thread `vm_stop` only requests the stop, `do_savevm` sees a running
  VM, and its `vm_start` at the end takes the request back or, if the main loop has
  carried it out meanwhile, starts the VM again (`CpuSaveDone`). `save` says how far
  this is; it is `overlapped` if the end fell into an operation for which the main loop
  had paused the CPUs, or restarted them while it waited for the pause.
- `raced` records that the Cocoa thread took a stop request back during the present
  pause.
- A suspend request taken when the VM does not run aborts the program
  (`PausedSuspendAborts`).
- `Init` is the state at the first `vm_start`: the reset before it has written the
  registers back, so no CPU is dirty.
- One handler runs per round of the main loop, and device state is not modelled.

### ThreadPool

What a worker does under `pool->lock` is one action; its writes of `ret` and
`state`, made without the lock, are one action each. The client is the one thread
at a time that holds the global mutex. Its callbacks may submit, cancel and start
the completion bottom half again (`depth`). `pool->head` is a set, because the
order of the list has no influence on which elements are completed; `request_list`
is a sequence, from which `RemovedAt` of `LinkedLists` takes a cancelled element. The number of workers is fixed, as in this code, where
`thread_pool_create` starts them all.

### AioContext

One bottom half, the pipe of the notifier, `ctx->dispatching`, a worker per item
that makes the item ready and calls `vmx_bh_schedule`, and two threads that run
event loops: the main loop and a virtual CPU in device code. `frames` is a stack of
active `aio_poll` calls. With `StoreBuffer = TRUE` the store `bh->scheduled = 0` may
stay in the CPU's store buffer, unseen by others, up to the next locked instruction or
fence of that thread: this is what x86 allows and what the compiler barriers of
`include/qemu/atomic.h` do not prevent. It may also become visible earlier; the model
decides that when a worker reads the flag (`WorkerSchedule`). What empties the buffer
is `bh_lock` at the end of the outermost `aio_bh_poll` (a nested one does not take it)
and the barrier with which `aio_set_dispatching` clears the flag.

### TrackedRequests

A coroutine runs until it yields, so an action is what happens from one yield to the
next. `stage` is the place in `bdrv_co_do_preadv` or `bdrv_co_do_pwritev`: the read of
the head and of the tail of an unaligned write, the write, a read, the read and write
of a copy on read. `EnterStage` is `mark_request_serialising` and
`wait_serialising_requests` up to the yield. A coroutine that ends a request goes on
(`current`), may begin the next one and only when it yields are the coroutines in its
`co_queue_wakeup` entered, before the rest of whoever entered it (`ready`), which is
the order of `coroutine_swap`. The disk is an array of cells that remember their last
writer, `buf` what a request has read. The second wait inside `bdrv_aligned_preadv`
of a head or tail finds the state that the wait just before it left, without a yield
in between, and is not a step of its own. Left out: unaligned reads (padding only),
zero writes, flushes, dirty bitmaps, growth at the end of the file. `bdrv_is_allocated`
is a nondeterministic choice (`CopyOnRead` or a plain read).

### RunState

`mpc` is the main thread's place, `op` the request it carries out. A user's command is
its tests followed by its stores one at a time, because the Cocoa thread takes no lock
and its stores may fall between any two of the main loop's: `todo` lists the stores that
the menu has still to make, `mtodo` those of the thread that has the mutex (a monitor
command, the end of `vm_change_state`, the start of `suspend_vm_internal`). The
`cpu_stop_current` of a reset request is a store like the others; it may leave a
`straggler`, which is also the effect of finding 1: a CPU that counts as stopped and may
still issue requests.

`do_suspendVM` runs on the main thread (`SuspendVm`, `SuspendStop`, ..., `SaveVm`) or on
a CPU (`CpuSuspendVm`, `CpuStopAsked`, `CpuSaved`); `closing` says which, `spc` is the
CPU's place in it and `saved_vm_running` the local variable by which `do_savevm` decides
to start the VM again.

`raced` remembers that two threads had commands under way at the same time, that the
main loop used the flags in the middle of a menu command, or that a signal cleared
`no_shutdown`; the next command that clears all the flags forgets it. `dropped` says
that a `vm_start` has taken a request to stop since the last disk error. Both are what
the exceptions in the properties refer to. `off`, `saved` and `owed` are history. The
two stores of `vmx_system_killed` are one step, which is counted as a race whenever a
command is under way. The states of incoming migration, the debugger, the watchdog and
guest panic are not entered by this program and are left out of the table;
`-no-reboot` is not given.

### Timers

The two lists of one clock: the main loop's and the AioContext's. Everything runs
under the global mutex but the main loop's sleep and the wait of a pause, so an
action is what a thread does between two callbacks. Times are the ticks of the poll's
timeout; a time in the past is one of the inputs, because `timer_mod_ns` inserts by
the time it is given and stores at least zero. A callback may arm any timer for a
later time or delete one. The event's states are `set`, `free` and `busy`; its waiter
compares with the value it read before it made the event busy (`SleepsOn`), so a free
event is not waited for at all. `missed` records that a virtual CPU's `aio_poll` took
or kept back a notification while the main loop slept, that of a request made without
the mutex included.

`main_loop_should_exit` takes up to `NStages` requests in a round, each of which pauses
the CPUs and so disables the clock; between two of them no list is run, and each leaves
the clock enabled (a reset) or disabled (a stop). Whether a second wait ends therefore
depends on what the first one left in the events. `Init` is the first round of the main
loop: its own list has never been run, and that of the AioContext has, by the `aio_poll`
that read the disk images. A VM without disks, and a `vm_start` that a CPU makes at the
end of a snapshot while the main loop has disabled the clock, are not covered.

## 3. Runs

| Run | Instance | Shows |
|---|---|---|
| `rfifolock` | 3 threads, 4 tickets, nesting 2 | exclusion, distinct tickets across the wrap, FIFO order, no starvation, and that it implements `FifoLock` |
| `vcpu_run` | 2 CPUs, device interrupts and SIPI, the suspend command on any thread | no CPU sleeps with something to do; register copies are exclusive to the main loop while it uses them; an application processor runs only after its SIPI; no CPU starts to execute while paused |
| `vcpu_live` | 2 CPUs, no interrupts, the forced restart without the mutex | a pause always has someone who will answer it; every operation of the main loop ends |
| `vcpu_pause` | 1 CPU, device interrupts | finding 1 |
| `thread_pool` | 2 workers, 3 requests (2 with callbacks), nesting 2 | no request without a token, one owner, completed once, no lost completion; every request completes and `thread_pool_destroy` returns without help from timeouts |
| `aio_context` | 2 items, nesting 2, stores visible at once | a thread asleep in `aio_poll` is notified; every waiter returns |
| `aio_lost_wakeup` | the same | finding 2 |
| `aio_store_buffer` | the same with store buffers | finding 3 |
| `tracked_requests` | 3 coroutines, 4 requests of 5 shapes, 2 blocks of 2 cells in one cluster | read-modify-write cycles and copies on read are atomic, the assertions that a cycle never waits again hold, no ring of waiting requests, the count of serialising requests is exact, every request ends |
| `run_state` | any 3 commands, signals, guest requests or wakeups | only a stale suspend request can abort; the flags of a reboot agree unless two threads or a signal raced; a guest that powered off is reset before it runs; a VM that the main loop saved never runs again; a disk error stops the VM unless a `vm_start` drops the request; a saved VM ends the program |
| `stop_event` | any 2 of them | finding 4 |
| `timers` | 2 timers of the main loop, 1 of the context, times 0 to 2, 2 requests in a round | lists stay sorted and exact, the main loop never sleeps past a timer, disabling the clock returns, timers fire |

Why these bounds are enough for the interesting cases. Three threads and four
tickets: a holder, two sleepers in either order, and a wrap in every fourth
acquisition. Two CPUs: a boot and an application processor, one that stops itself
while the other is asked to, one asleep while the other runs; the code treats all
application processors alike. Three requests and two workers: one request always
has to wait for a worker, can be cancelled meanwhile, and two can finish at the
same time; depth two is a callback that polls for another request. Two items: one
is scheduled while the other is being handled. The runs of `VcpuRun` divide its inputs:
liveness is checked without interrupts, since they only multiply the states in which
the protocol of pause and `run_on_cpu` runs, the restart and the suspend are not mixed,
and INIT is left to the proofs, which cover every choice of interrupts and of commands
at once. Three coroutines are the smallest ring that the test of
`waiting_for` does not see directly, and the fourth request lets a coroutine begin a
new one with woken waiters still in its queue. In `run_state` three events are a reboot,
the guest's power off and a request or command that arrives while it is carried out;
four were checked once by hand (2.1 million states) with the same result. Two timers on
a list can be in either order with a third list entry in the other list, three points of
time give a past, a present and a future, and two requests are a second pause with no
list run since the first.

`thread_pool` and `aio_store_buffer` do not check deadlock: a pool that has been
destroyed rightly does nothing any more, and the second run is about a stuck state.

## 4. Fairness

- Threads that can go on do so (weak fairness).
- The global mutex is fair: macOS mutexes hand the lock to waiters in order, so a
  thread that asks again and again receives it (strong fairness of the steps that
  take it).
- `hv_vcpu_run` returns again and again because of the host's timer interrupts
  (strong fairness of `ExitInterrupt`). Without it nothing would end a guest's loop,
  as the kick does not.
- The pool's semaphore is created with `SYNC_POLICY_FIFO` (strong fairness of
  `WorkerToken`). Timeouts are not fair: a protocol that needed them would fail the
  run.
- In `AioContext`, nothing is assumed of other descriptors or timers that happen to
  end a poll; callbacks and device code end.
- A client of the FIFO lock undoes its locks.
- In `TrackedRequests`, I/O that was started ends, perhaps with an error, and its
  completion is dispatched (that the pool delivers it is `ThreadPool`'s subject).
  Nothing is assumed of new requests.
- In `RunState`, the main loop goes on and every thread finishes the stores it has
  begun. A CPU that saves the VM goes on (`CpuStopAsked`) and ends, with the mutex that
  the main loop gives up in every round (strong fairness of `CpuSaved`). Users, guests
  and wakeups are not fair.
- In `VcpuRun`, the Cocoa thread finishes a restart it has begun; it is free never to
  begin one.
- In `Timers`, time passes, callbacks return, a poll returns when its notifier is set
  or its timeout is over, and the mutex is fair.

## 5. What is proved

Every invariant and every action property that a passing run checks is also a theorem
about `Spec`, without its fairness, for every value of the constants that the named
assumptions allow. TLC evaluates those assumptions in the runs. In each proof module
`IInv` is the inductive invariant, `Invariance` the theorem `Spec => []IInv`, and the
proof that a step keeps it has one lemma or step per action. Each `IInv` was checked
with TLC on the instance of its run before it was proved. What the strengthening says,
and why the properties are not inductive without it:

| Module | Theorems (and the property) | For every |
|---|---|---|
| `RFifoLockProofs` | `TypeCorrect` (`TypeOK`), `LockExcludes` (`MutualExclusion`), `TicketsStayDistinct` (`TicketsDistinct`), `LockIsFifo` (`FirstComeFirstServed`), `ImplementsPromise` (`ImplementsFifoLock`) | finite set of threads, larger modulus, nesting limit (`ThreadsFinite`, `TicketsSuffice`, `NestingNat`) |
| `ThreadPoolProofs` | `TypeCorrect` (`TypeOK`), `NoTokenLost` (`TokensCover`), `OwnersAreAlone` (`OneOwner`), `CallbacksOnce` (`CompletedOnce`), `CompletionsAreFound` (`NoLostCompletion`) | finite set of workers, set of requests, nesting limit (`WorkersFinite`, `RequestSets`, `DepthNat`) |
| `VcpuRunProofs` | `TypeCorrect` (`TypeOK`), `WakeupsAreNotLost` (`NoLostWakeup`), `PausesAreAnswered` (`PauseIsAnswered`), `RegistersAreExclusive` (`RegistersExclusive`), `SipiComesFirst` (`ApRunsOnlyAfterSipi`), `PauseForbidsExec` (`NoExecWhilePaused`) | number of CPUs, choice of interrupts and of menu commands (`CpuCount`, `IrqKinds`, `MenuItems`, `ThreadNames`) |
| `AioContextProofs` | `TypeCorrect` (`TypeOK`), `SleepersAreNotified` (`SleeperIsNotified`) | set of items, nesting limit, with and without store buffers (`Names`, `Depth`, `StoreBufferBoolean`) |
| `TrackedRequestsProofs` | `TypeCorrect` (`TypeOK`), `RmwIsAtomic` (`ReadModifyWriteAtomic`), `RmwDoesNotWait` (`RmwNeverWaits`), `WaitsAreAcyclic` (`NoWaitCycle`), `InFlightIsCount` (`InFlightCounts`) | set of coroutines and of requests, disk, block and cluster size (`NoOneAssumption`, `SizesNat`, `ShapesFit`) |
| `RunStateProofs` | `TypeCorrect` (`TypeOK`), `OnlyStaleSuspendAborts` (`AbortOnlyStaleSuspend`), `RebootAgrees` (`RebootFlagsAgree`), `RestartIsReset` (`RestartedGuestIsReset`), `SavedIsFinal` (`SavedStateFinal`) | number of events (`MaxEventsNat`) |
| `TimersProofs` | `TypeCorrect` (`TypeOK`), `SleepIsCovered` (`SleepCoversDeadline`) | set of timers, time span, number of requests in a round (`TimersDisjoint`, `MaxTimeNat`, `NStagesPos`) |

- **RFifoLock.** `HolderInv`: the thread inside the lock is the owner, its ticket is the
  head and the lock's nesting count is its own. `TicketInv`: measured by their distance
  from the head, the outstanding tickets are exactly the numbers below their count, each
  held by one thread, and the tail follows the last. A new ticket then is at a distance
  that no thread has; that the tail does not run into the head from behind follows from
  `TicketsSuffice`. An unlock moves every distance down by one. For the refinement,
  `QueueShape` says that the mapped queue lists the threads with a ticket, each at its
  ticket's place: a thread that takes a ticket is appended, an unlock takes the first
  off, and a wakeup changes nothing of the queue.
- **ThreadPool.** The list holds exactly the queued elements; a worker that will still
  write owns its active element alone and has stored the result before the state;
  `FoundInv` says the bottom half is scheduled for each element that is done and that
  the running loop has passed. `TokensCover` counts the workers between the semaphore
  and the lock, which is why the set of workers has to be finite.
- **VcpuRun.** `Basic` is what holds always: the types, who has the mutex, and that at
  most one CPU saves the VM and queues work only while it waits for it. `Core` holds as
  long as such a save has not overlapped an operation of the main loop (`IInv` is
  `Basic /\ (save # "overlapped" => Core)`). Its parts are `AskedInv`: while the main loop
  waits for a pause that the Cocoa thread has not touched, a CPU that has not stopped is
  asked to; `AwakeInv` and `AnswerInv`: from the test on, one of them is awake and will
  answer; `PausedInv`: when `pause_all_vcpus` has returned no CPU may run; `WorkInv`:
  work is queued only for the CPU that the main thread waits for; `DirtyInv`: registers
  newer than the VMCS belong to a CPU outside the guest. The wakeup theorem holds because
  every change of an input of `cpu_thread_is_idle` is followed by a kick in the same
  critical section, and because the Cocoa thread's two stores can only make a CPU idle.
- **AioContext.** `SleepInv`: a blocking `aio_poll` has `ctx->dispatching` cleared from
  before it computes its timeout until the poll returns, nested calls included, and the
  barrier of that clear has emptied its store buffer when it computes the timeout. The
  theorem therefore also holds with store buffers: finding 3 is about the callback's
  reads and not about the notification.
- **TrackedRequests.** `Compatible`: of two requests that have passed
  `wait_serialising_requests`, neither serialises or they do not overlap. That a request
  which goes on past an overlapping one that waits is safe follows from `QueueInv` and
  `WakeInv`: who waits is either in the queue of a request that goes on, or was woken,
  and all that are woken at a time waited for the same request, whose coroutine was not
  woken. So no ring can close: the waiters of a ring would all be woken, and then wait
  for one that is not. `RequestInv` says that a request waits only before its first
  stage and is marked from then on, so the later searches find nobody
  (`NothingBlocks`). That the I/O of every stage stays within the claimed range needs
  arithmetic of rounding (`DownIsGreatest`, `HeadBelowUp`, `TailBelowUp`,
  `IoWithinClaim`), and with it no other request's write touches what a cycle carries.
- **RunState.** `StopInv`: a VM that is being stopped runs until its new state is set,
  so nothing else stops it first, which is why only a suspend can abort; `SaveInv`: a
  save under way on a CPU is known as one; `OffInv`: a guest that has powered off stays
  off until the reset that was requested for it is carried out, and no store of any
  command takes that request back; `AgreeInv`: unless two threads raced, at most one has
  stores to make, and the flags of a reboot agree once these are applied (`AfterWrites`).
  Of `events` the invariant says only its type: no bound on the number of commands is
  what makes it true.
- **Timers.** `IsList`: a list holds exactly its armed timers, once, in the order in
  which they expire; `Covered` is the claim about the sleeping main loop, whose only
  difficult step is the insertion: a timer that becomes the first one notifies, one that
  does not is no earlier than one that the timeout covers.

Only model-checked, because liveness under fairness is out of the prover's reach:
`NoStarvation`, `MainReturns`, `EveryRequestCompletes`, `DestroyReturns`,
`WaiterReturns`, `RequestsEnd`, `IoErrorStops`, `SuspendExits`, `ClockDisableReturns`
and `TimerFires`. The properties of the four runs that expect a violation are refuted
by TLC.

## 6. Findings

1. **A paused VM may execute** (`vcpu_pause`, `util/cpus.c:1242`). Device code that
   requests a reset or suspend calls `cpu_stop_current`, which sets `stopped`, but
   `veertu_cpu_exec` looks at neither `stop`, `stopped` nor `exit_request` and enters
   the guest again. `pause_all_vcpus` counts that CPU as paused. Resets are still
   safe (`RegistersExclusive`): the registers are fetched by a work item that only a
   CPU outside the guest executes. A snapshot that starts at that moment writes the
   memory of a running guest.
2. **A bottom half may wait for an unrelated event** (`aio_lost_wakeup`,
   `block/async.c:337`). `ctx->dispatching`, set by a CPU's `aio_poll`, makes a
   worker skip the notification that the main loop, already asleep in its own poll
   of the context, needs.
3. **A clear of `bh->scheduled` may be seen late** (`aio_store_buffer`,
   `block/async.c:137`). The barrier after it is a compiler barrier only.
4. **A BLOCK_IO_ERROR event without a STOP event** (`stop_event`,
   `util/cpus.c:575`). Comments in `vl.c` and `block.c` promise a STOP after every
   BLOCK_IO_ERROR. `do_vm_stop` sends it only if the VM still runs and drains the
   disks after it, so an error reported during the drain, or after a suspend was
   taken in the same round, is followed by none.

What the passing runs show is also bounded by exceptions, which are behaviours of the
code and are written into the properties:

- A guest's suspend request that is taken after the VM was stopped aborts the program
  (`AbortOnlyStaleSuspend`; `util/vl.c:570`).
- Restart chosen while the VM is being saved leaves `no_shutdown` set, and the
  shutdown that should end the program stops a VM that is stopped already
  (`SuspendExits`). Shutdown chosen while a reboot is pending reboots, because the
  forced shutdown leaves `no_shutdown` and `reboot_requested` as they are.
- The stores of a menu command fall between those of `vm_change_state`,
  `suspend_vm_internal` or a monitor command, or the main loop uses the flags in the
  middle of them: the flags may then disagree for good (`raced` in `RebootFlagsAgree`;
  `window/cocoa.m:247`, 373, 387).
- The forced restart of the menu calls `cpu_stop_current` without the mutex. It can take
  back the stop request of a CPU that has not stopped, or signal between the test and the
  wait of `pause_all_vcpus` (`util/cpus.c:1136`), where the signal is lost; the main loop
  may then wait for ever (`raced` in `PauseIsAnswered` and `MainReturns`).
- `do_suspendVM` on a CPU's thread does not stop the VM before it is saved and starts it
  again (`util/savevm.c:1074`), also when it has been stopped, shut down or is being reset
  by the main loop. The restart inside an operation of the main loop is `overlapped` in
  the properties of `VcpuRun`; in `RunState` it is `closing # "cpu"` in `SavedStateFinal`
  and `RestartedGuestIsReset`.
- A `vm_start`, of `vm_change_state` after the shutdown of a guest that reboots or of
  `do_savevm` on a CPU, drops the stop that a disk error has requested, and the VM runs on
  (`dropped` in `IoErrorStops`). The comment at `block/block.c:3444` expects this of a
  "cont" ("the VM will not stop"); here it happens without anybody having asked to go on.
- A VM in S3 is saved as it is and may be woken and run on before the program ends;
  `SavedStateFinal` is about VMs that were running.
- A virtual CPU's `aio_poll` shares the notifier with the main loop and can swallow
  the notification of a new deadline (`missed` in `SleepCoversDeadline` and
  `TimerFires`), which the comment in `timerlist_deadline_ns` ("there is no race
  condition") does not consider.

## 7. Not modelled

- Image formats, slirp, the instruction emulator and device models: data
  transformations inherited from QEMU, with states far beyond small instances and
  without concurrency of their own. They are most of the repository's lines.
- The network back ends, the guest tools channel and the launcher: host I/O, process
  management and user interface.
- Generated code (QAPI types, visitors and marshalling) and the vendored libusb.
- Guest memory slots and interrupt controllers: sequential code of single calls; a
  reference definition over bounded inputs would be the way to check them.
- The AioContext's lists of bottom halves and handlers that are deleted while they
  are walked; CoMutex and CoRwlock; block jobs.
- What the other change handlers do. When `vm_change_state` starts the VM from inside
  `vm_state_notify`, the handlers after it are told "running" first and "stopped"
  second; none of the modelled state depends on it.

## 8. Plan

The safety properties of the runs are proved. What remains for the proofs is to extend
them where the model has more to say than its runs check:

1. `AioContext` and `TrackedRequests`: the safety parts of the liveness arguments (who
   is responsible for the next step of a waiter) as further invariants;
2. `FifoLock`: its own invariants, from which those of `RFifoLock` would follow through
   the refinement;
3. an abstract specification of the disk, on which a request takes effect at once,
   as the promise of `TrackedRequests`.

Candidates for further models: the network packet queue, the AioContext's lists, the
memory slots.
