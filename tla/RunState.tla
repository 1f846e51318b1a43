------------------------------ MODULE RunState ------------------------------
(***************************************************************************)
(* The run state of the VM and the commands that change it: the requests   *)
(* that main_loop_should_exit takes (util/vl.c), vm_stop (util/cpus.c),    *)
(* and the user's shutdown, reboot, reset and suspend (window/cocoa.m,     *)
(* window/VmView.m), which come from the monitor, inside the main loop, or *)
(* from the menu, on the Cocoa thread and without the global mutex.        *)
(*                                                                         *)
(* How the virtual CPUs are paused and resumed is VcpuRun's subject; here  *)
(* the guest may act while they run and the mutex is free.                 *)
(***************************************************************************)
EXTENDS Naturals, Sequences

CONSTANT MaxEvents   \* how many commands, guest requests and wakeups there are

ASSUME MaxEventsNat == MaxEvents \in Nat

VARIABLES
    runstate,          \* current_run_state
    flag,              \* the request flags of vl.c and cocoa.m
    vmstop_requested,  \* vl.c; "max" when there is no request
    wakeup_reason,     \* vl.c
    mpc, op,           \* where the main thread is, and for which request
    target,            \* the run state that vm_stop was called with
    todo,              \* the stores that the menu's command has yet to make
    mtodo,             \* the stores that the thread with the mutex has yet to make
    spc,               \* where a CPU is in do_suspendVM: "no", "clear" or "saving"
    saved_vm_running,  \* do_savevm's, on that CPU
    resumed,           \* the virtual CPUs have been resumed
    straggler,         \* a CPU counts as stopped and has not left the guest
    io,                \* a disk request is in flight
    closing,           \* is_suspending: do_suspendVM is scheduled, or the
                       \* thread that it runs on, "main" or "cpu"
    saved,             \* last_state has been written
    off,               \* the guest has powered off and was not reset since
    owed,              \* a BLOCK_IO_ERROR event without a STOP event after it
    dropped,           \* vm_start took a request to stop since the last disk error
    events,            \* how many commands, guest requests and wakeups so far
    raced              \* a thread used or cleared the flags in the middle of
                       \* another thread's command, or a signal cleared
                       \* no_shutdown, and they have not been reset since

mainvars == <<mpc, op, target>>
storevars == <<todo, mtodo>>
guestvars == <<resumed, straggler, io>>
savevars == <<closing, saved, spc, saved_vm_running>>
errorvars == <<owed, dropped>>
vars == <<runstate, flag, vmstop_requested, wakeup_reason, mainvars, storevars,
          guestvars, savevars, off, errorvars, events, raced>>

-----------------------------------------------------------------------------
(* runstate_transitions_def, for the states this program enters *)

RunStates == {"prelaunch", "running", "paused", "suspended", "shutdown", "io-error", "save-vm"}

(* Mutant: the table lists no way from shutdown to paused. *)
TransitionsNoPause ==
    ({"running"} \X {"paused", "suspended", "shutdown", "io-error", "save-vm"})
    \cup ((RunStates \ {"running"}) \X {"running"})

Transitions ==
    ({"running"} \X {"paused", "suspended", "shutdown", "io-error", "save-vm"})
    \cup ((RunStates \ {"running"}) \X {"running"})
    \cup {<<"shutdown", "paused">>}

(* runstate_set aborts the process if the table does not list the change. *)
runstate_set(new, then) ==
    IF <<runstate, new>> \in Transitions
    THEN runstate' = new /\ mpc' = then
    ELSE UNCHANGED runstate /\ mpc' = "aborted"

Running == runstate = "running"
runstate_needs_reset == runstate = "shutdown"

Ended == mpc \in {"exited", "aborted"}

(* The main thread is at one of these places and has the global mutex, or  *)
(* takes it: no CPU has it, and there is no store of its own to be made.   *)
At(places) == mpc \in places /\ mtodo = <<>> /\ spc # "clear"

(* The global mutex is free: the main loop polls, waits for the CPUs to    *)
(* pause or for their registers, or writes the guest's memory to a         *)
(* snapshot.                                                               *)
MutexFree ==
    \/ At({"poll", "pausing", "saving"})
    \/ At({"paused"}) /\ op \in {"reset", "wakeup"}

Flags == {"shutdown_requested", "reset_requested", "suspend_requested", "powerdown_requested",
          "no_shutdown",
          "powerdown_asked",     \* powerdown_requested of cocoa.m
          "reboot_requested", "handler_added"}

Put(f, names, value) == [n \in Flags |-> IF n \in names THEN value ELSE f[n]]

(* main: vm_start at the end of the start up. *)
Init ==
    /\ runstate = "running"
    /\ flag = [n \in Flags |-> FALSE]
    /\ vmstop_requested = "max" /\ wakeup_reason = FALSE
    /\ mpc = "poll" /\ op = "none" /\ target = "none"
    /\ todo = <<>> /\ mtodo = <<>>
    /\ resumed = TRUE /\ straggler = FALSE /\ io = FALSE
    /\ closing = "no" /\ saved = FALSE /\ spc = "no" /\ saved_vm_running = FALSE
    /\ off = FALSE /\ owed = FALSE /\ dropped = FALSE
    /\ events = 0 /\ raced = FALSE

Event == events < MaxEvents /\ events' = events + 1

-----------------------------------------------------------------------------
(* The user's commands: the stores that each of them makes, in order *)

On(n) == <<n, TRUE>>
Off(n) == <<n, FALSE>>

(* cpu_stop_current, at the end of vmx_system_reset_request: it writes no  *)
(* flag and counts the CPU that current_cpu happens to hold as stopped.    *)
cpu_stop_current == <<"current_cpu", TRUE>>
Stores == (Flags \cup {"current_cpu"}) \X BOOLEAN

ForcedAnyway(forced) == forced \/ ~Running \/ flag.reboot_requested \/ flag.powerdown_asked

shutdown_vm(forced) ==
    IF ForcedAnyway(forced)
    THEN <<On("shutdown_requested"), Off("powerdown_asked")>>
    ELSE <<On("powerdown_asked"), On("powerdown_requested")>>

(* Mutant: the forced reboot leaves no_shutdown set. *)
RebootKeepsNoShutdown(forced) ==
    IF ForcedAnyway(forced)
    THEN <<On("no_shutdown"), On("reset_requested"), cpu_stop_current, Off("reboot_requested")>>
    ELSE <<On("no_shutdown"), On("handler_added"), On("reboot_requested"), On("powerdown_requested")>>

reboot_vm(forced) ==
    IF ForcedAnyway(forced)
    THEN <<On("no_shutdown"), On("reset_requested"), cpu_stop_current,
           Off("reboot_requested"), Off("no_shutdown")>>
    ELSE <<On("no_shutdown"), On("handler_added"), On("reboot_requested"), On("powerdown_requested")>>

reset_vm == <<Off("powerdown_asked"), Off("reboot_requested"), Off("no_shutdown"),
              On("reset_requested"), cpu_stop_current>>

(* The stores at the end of vm_change_state and at the start of            *)
(* suspend_vm_internal.                                                    *)
ClearAsked == <<Off("powerdown_asked"), Off("reboot_requested"), Off("no_shutdown")>>

(* The flags after all the stores of a command. *)
AfterWrites(f, writes) ==
    [n \in Flags |->
        LET mine == {k \in DOMAIN writes : writes[k][1] = n} IN
        IF mine = {} THEN f[n]
        ELSE writes[CHOOSE k \in mine : \A j \in mine : j <= k][2]]

MenuCommands == {shutdown_vm(f) : f \in BOOLEAN} \cup {reboot_vm(f) : f \in BOOLEAN}
MonitorCommands == {shutdown_vm(FALSE), reboot_vm(FALSE), reset_vm}

(* One store of a command. *)
Write(store) ==
    /\ ~Ended
    /\ flag' = Put(flag, {store[1]}, store[2])
    /\ \/ UNCHANGED straggler
       \/ store[1] = "current_cpu" /\ resumed /\ Running /\ straggler' = TRUE

(* A command of the menu, on the Cocoa thread: the tests, then the stores  *)
(* one by one, without the mutex.                                          *)
MenuChoose ==
    /\ Event
    /\ todo = <<>> /\ ~Ended
    /\ todo' \in MenuCommands
    /\ raced' = (raced \/ mtodo # <<>>)
    /\ UNCHANGED <<runstate, flag, vmstop_requested, wakeup_reason, mainvars, mtodo,
                   guestvars, savevars, off, errorvars>>

MenuWrite ==
    /\ todo # <<>>
    /\ Write(Head(todo))
    /\ todo' = Tail(todo)
    /\ UNCHANGED <<runstate, vmstop_requested, wakeup_reason, mainvars, mtodo,
                   resumed, io, savevars, off, errorvars, events, raced>>

(* A store of the thread that has the mutex. *)
HolderWrite ==
    /\ mtodo # <<>>
    /\ Write(Head(mtodo))
    /\ mtodo' = Tail(mtodo)
    /\ UNCHANGED <<runstate, vmstop_requested, wakeup_reason, mainvars, todo,
                   resumed, io, savevars, off, errorvars, events, raced>>

(* windowShouldClose: suspend a VM that runs, leave any other. *)
MenuClose ==
    /\ Event
    /\ todo = <<>> /\ ~Ended /\ closing = "no"
    /\ \/ Running /\ closing' = "scheduled" /\ UNCHANGED mpc
       \/ ~Running /\ mpc' = "exited" /\ UNCHANGED closing
    /\ UNCHANGED <<runstate, flag, vmstop_requested, wakeup_reason, op, target, storevars,
                   guestvars, saved, spc, saved_vm_running, off, errorvars, raced>>

-----------------------------------------------------------------------------
(* The guest *)

GuestActs == MutexFree /\ ((resumed /\ Running) \/ straggler)

(* The ACPI control register, port 92 and the like.  cpu_stop_current      *)
(* counts the CPU as stopped although it goes on.                          *)
GuestPowersOff ==
    /\ Event
    /\ GuestActs
    /\ flag' = Put(flag, {"shutdown_requested"}, TRUE)
    /\ UNCHANGED <<runstate, vmstop_requested, wakeup_reason, mainvars, storevars,
                   guestvars, savevars, off, errorvars, raced>>

GuestResets ==
    /\ Event
    /\ GuestActs
    /\ flag' = Put(flag, {"reset_requested"}, TRUE)
    /\ straggler' = TRUE
    /\ UNCHANGED <<runstate, vmstop_requested, wakeup_reason, mainvars, storevars,
                   resumed, io, savevars, off, errorvars, raced>>

GuestSuspends ==
    /\ Event
    /\ GuestActs /\ runstate # "suspended"
    /\ flag' = Put(flag, {"suspend_requested"}, TRUE)
    /\ straggler' = TRUE
    /\ UNCHANGED <<runstate, vmstop_requested, wakeup_reason, mainvars, storevars,
                   resumed, io, savevars, off, errorvars, raced>>

GuestStartsIo ==
    /\ Event
    /\ GuestActs
    /\ io' = TRUE
    /\ UNCHANGED <<runstate, flag, vmstop_requested, wakeup_reason, mainvars, storevars,
                   resumed, straggler, savevars, off, errorvars, raced>>

(* The CPU leaves the guest for its thread's loop. *)
StragglerStops ==
    /\ straggler /\ MutexFree
    /\ straggler' = FALSE
    /\ UNCHANGED <<runstate, flag, vmstop_requested, wakeup_reason, mainvars, storevars,
                   resumed, io, savevars, off, errorvars, events, raced>>

(* Mutant: a VM that is stopped for another reason is woken too. *)
WakeupAny ==
    /\ Event
    /\ ~Running /\ (MutexFree \/ At({"dispatch"}))
    /\ runstate' = "running"
    /\ wakeup_reason' = TRUE
    /\ UNCHANGED <<flag, vmstop_requested, mainvars, storevars, guestvars, savevars, off,
                   errorvars, raced>>

(* vmx_system_wakeup_request, from a key press under the mutex or from the *)
(* RTC or the power management timer in the main loop.                     *)
Wakeup ==
    /\ Event
    /\ runstate = "suspended" /\ (MutexFree \/ At({"dispatch"}))
    /\ runstate' = "running"
    /\ wakeup_reason' = TRUE
    /\ UNCHANGED <<flag, vmstop_requested, mainvars, storevars, guestvars, savevars, off,
                   errorvars, raced>>

(* vm_start: it takes a pending request to stop; a VM that runs sends the  *)
(* STOP event for it and nothing else.                                     *)
vm_start ==
    /\ vmstop_requested' = "max"
    /\ dropped' = (dropped \/ vmstop_requested # "max")
    /\ owed' = (owed /\ ~(Running /\ vmstop_requested # "max"))
    /\ runstate' = "running"
    /\ resumed' = (resumed \/ ~Running)

-----------------------------------------------------------------------------
(* do_suspendVM, a bottom half, on a CPU that polls for a disk request:    *)
(* suspend_vm_internal clears the flags ...                                *)
CpuSuspendVm ==
    /\ GuestActs /\ closing = "scheduled"
    /\ closing' = "cpu" /\ spc' = "clear"
    /\ mtodo' = ClearAsked
    /\ raced' = (todo # <<>>)
    /\ UNCHANGED <<runstate, flag, vmstop_requested, wakeup_reason, mainvars, todo, guestvars,
                   saved, saved_vm_running, off, errorvars, events>>

(* ... vm_stop, on a CPU, only asks for the stop; do_savevm returns if a   *)
(* disk takes no snapshots, or goes on with the VM running ...             *)
CpuStopAsked ==
    /\ spc = "clear" /\ mtodo = <<>> /\ ~Ended
    /\ vmstop_requested' = "save-vm"
    /\ \/ /\ spc' = "saving" /\ saved_vm_running' = Running
          /\ UNCHANGED <<flag, straggler>>
       \/ /\ spc' = "no" /\ straggler' = TRUE
          /\ flag' = Put(flag, {"shutdown_requested"}, TRUE)
          /\ UNCHANGED saved_vm_running
    /\ UNCHANGED <<runstate, wakeup_reason, mainvars, storevars, resumed, io,
                   closing, saved, off, errorvars, events, raced>>

(* ... and, having written the state or failed, starts a VM that ran when  *)
(* it began.                                                               *)
CpuSaved ==
    /\ spc = "saving" /\ spc' = "no" /\ MutexFree
    /\ saved' \in BOOLEAN
    /\ IF saved_vm_running THEN vm_start
       ELSE UNCHANGED <<vmstop_requested, errorvars, runstate, resumed>>
    /\ straggler' = (straggler \/ Running \/ ~saved_vm_running)
    /\ flag' = Put(flag, {"shutdown_requested"}, TRUE)
    /\ UNCHANGED <<wakeup_reason, mainvars, storevars, io, closing, saved_vm_running,
                   off, events, raced>>

-----------------------------------------------------------------------------
(* The main loop *)

Poll ==
    /\ At({"poll"}) /\ mpc' = "dispatch"
    /\ UNCHANGED <<runstate, flag, vmstop_requested, wakeup_reason, op, target, storevars,
                   guestvars, savevars, off, errorvars, events, raced>>

MonitorCommand ==
    /\ Event
    /\ At({"dispatch"})
    /\ mtodo' \in MonitorCommands
    /\ raced' = (raced \/ todo # <<>>)
    /\ UNCHANGED <<runstate, flag, vmstop_requested, wakeup_reason, mainvars, todo,
                   guestvars, savevars, off, errorvars>>

(* cmd_shutoff *)
MonitorShutoff ==
    /\ Event
    /\ At({"dispatch"}) /\ mpc' = "exited"
    /\ UNCHANGED <<runstate, flag, vmstop_requested, wakeup_reason, op, target, storevars,
                   guestvars, savevars, off, errorvars, raced>>

(* vmx_system_killed, in a signal handler. *)
Killed ==
    /\ Event
    /\ ~Ended
    /\ flag' = [flag EXCEPT !.no_shutdown = FALSE, !.shutdown_requested = TRUE]
    /\ raced' = (raced \/ todo # <<>> \/ mtodo # <<>> \/ flag.reboot_requested)
    /\ UNCHANGED <<runstate, vmstop_requested, wakeup_reason, mainvars, storevars,
                   guestvars, savevars, off, errorvars>>

(* Mutant: the stop is asked for with another state. *)
DiskResultInternal(failed) ==
    /\ io' = FALSE
    /\ IF io /\ failed THEN vmstop_requested' = "internal-error" /\ owed' = TRUE /\ dropped' = FALSE
                       ELSE UNCHANGED <<vmstop_requested, errorvars>>

(* bdrv_error_action, which sends BLOCK_IO_ERROR and asks for a stop. *)
DiskResult(failed) ==
    /\ io' = FALSE
    /\ IF io /\ failed THEN vmstop_requested' = "io-error" /\ owed' = TRUE /\ dropped' = FALSE
                       ELSE UNCHANGED <<vmstop_requested, errorvars>>

(* The request ends in the main loop or in a CPU's aio_poll. *)
DiskDone ==
    /\ At({"dispatch"}) \/ GuestActs
    /\ io /\ \E failed \in BOOLEAN : DiskResult(failed)
    /\ UNCHANGED <<runstate, flag, wakeup_reason, mainvars, storevars, resumed, straggler,
                   savevars, off, events, raced>>

(* do_suspendVM in the main loop: suspend_vm_internal clears the flags ... *)
SuspendVm ==
    /\ At({"dispatch"}) /\ closing = "scheduled"
    /\ closing' = "main" /\ mpc' = "close"
    /\ mtodo' = ClearAsked
    /\ raced' = (todo # <<>>)
    /\ UNCHANGED <<runstate, flag, vmstop_requested, wakeup_reason, op, target, todo, guestvars,
                   saved, spc, saved_vm_running, off, errorvars, events>>

(* ... and stops the VM. *)
SuspendStop ==
    /\ At({"close"})
    /\ op' = "save" /\ target' = "save-vm" /\ mpc' = IF Running THEN "pausing" ELSE "drain"
    /\ UNCHANGED <<runstate, flag, vmstop_requested, wakeup_reason, storevars, guestvars,
                   savevars, off, errorvars, events, raced>>

(* Mutant: the program is not ended. *)
SaveVmGoesOn ==
    /\ At({"saving"}) /\ mpc' = "dispatch" /\ op' = "none"
    /\ saved' \in BOOLEAN
    /\ UNCHANGED <<runstate, flag, vmstop_requested, wakeup_reason, target, storevars, guestvars,
                   closing, spc, saved_vm_running, off, errorvars, events, raced>>

(* do_savevm, which may find a disk that takes no snapshots, and the       *)
(* shutdown request.                                                       *)
SaveVm ==
    /\ At({"saving"}) /\ mpc' = "dispatch" /\ op' = "none"
    /\ saved' \in BOOLEAN
    /\ flag' = Put(flag, {"shutdown_requested"}, TRUE)
    /\ UNCHANGED <<runstate, vmstop_requested, wakeup_reason, target, storevars, guestvars,
                   closing, spc, saved_vm_running, off, errorvars, events, raced>>

DispatchDone ==
    /\ At({"dispatch"}) /\ mpc' = "suspend"
    /\ UNCHANGED <<runstate, flag, vmstop_requested, wakeup_reason, op, target, storevars,
                   guestvars, savevars, off, errorvars, events, raced>>

(* Mutants: resets are taken before shutdowns; stops are not taken. *)
NextStageResetFirst == [suspend |-> "reset", reset |-> "shutdown", shutdown |-> "wakeup",
                        wakeup |-> "powerdown", powerdown |-> "vmstop", vmstop |-> "poll"]
NextStageNoStop == [suspend |-> "shutdown", shutdown |-> "reset", reset |-> "wakeup",
                    wakeup |-> "powerdown", powerdown |-> "poll", vmstop |-> "poll"]

(* main_loop_should_exit takes the requests in this order. *)
NextStage == [suspend |-> "shutdown", shutdown |-> "reset", reset |-> "wakeup",
              wakeup |-> "powerdown", powerdown |-> "vmstop", vmstop |-> "poll"]
Stages == DOMAIN NextStage

RequestFlag == [suspend |-> "suspend_requested", shutdown |-> "shutdown_requested",
                reset |-> "reset_requested", powerdown |-> "powerdown_requested"]

Requested(s) == CASE s = "wakeup" -> wakeup_reason
                  [] s = "vmstop" -> vmstop_requested # "max"
                  [] OTHER        -> flag[RequestFlag[s]]

StageSkip ==
    /\ At(Stages) /\ ~Requested(mpc)
    /\ mpc' = NextStage[mpc] /\ op' = "none" /\ target' = "none"
    /\ UNCHANGED <<runstate, flag, vmstop_requested, wakeup_reason, storevars,
                   guestvars, savevars, off, errorvars, events, raced>>

(* The request is taken; wakeup_reason stays until the reset is done.  A   *)
(* shutdown ends the program or stops the VM; do_vm_stop pauses only a VM  *)
(* that runs.                                                              *)
StageTake ==
    /\ At(Stages) /\ Requested(mpc)
    /\ op' = mpc
    /\ target' = CASE mpc = "shutdown" -> "shutdown"
                   [] mpc = "vmstop"   -> vmstop_requested
                   [] OTHER            -> "none"
    /\ flag' = Put(flag, {RequestFlag[s] : s \in {mpc} \cap DOMAIN RequestFlag}, FALSE)
    /\ vmstop_requested' = IF mpc = "vmstop" THEN "max" ELSE vmstop_requested
    /\ raced' = (raced \/ (mpc = "shutdown" /\ todo # <<>>))
    /\ mpc' = CASE mpc = "shutdown" /\ ~flag.no_shutdown -> "exited"
                [] mpc = "powerdown" -> NextStage[mpc]
                [] mpc \in {"shutdown", "vmstop"} /\ ~Running -> "drain"
                [] OTHER -> "pausing"
    /\ UNCHANGED <<runstate, wakeup_reason, storevars, guestvars, savevars, off, errorvars, events>>

(* pause_all_vcpus returns. *)
Paused ==
    /\ At({"pausing"}) /\ mpc' = "paused"
    /\ resumed' = FALSE
    /\ UNCHANGED <<runstate, flag, vmstop_requested, wakeup_reason, op, target, storevars,
                   straggler, io, savevars, off, errorvars, events, raced>>

(* vmx_system_suspend *)
PausedSuspend ==
    /\ At({"paused"}) /\ op = "suspend"
    /\ runstate_set("suspended", NextStage[op])
    /\ UNCHANGED <<flag, vmstop_requested, wakeup_reason, op, target, storevars,
                   guestvars, savevars, off, errorvars, events, raced>>

(* The reset and the wakeup of the guest, and resume_all_vcpus. *)
PausedReset ==
    /\ At({"paused"}) /\ op \in {"reset", "wakeup"}
    /\ resumed' = TRUE /\ off' = FALSE
    /\ wakeup_reason' = (wakeup_reason /\ op # "wakeup")
    /\ IF op = "reset" /\ runstate_needs_reset
       THEN runstate_set("paused", NextStage[op])
       ELSE UNCHANGED runstate /\ mpc' = NextStage[op]
    /\ UNCHANGED <<flag, vmstop_requested, op, target, storevars, straggler, io, savevars,
                   errorvars, events, raced>>

(* do_vm_stop sets the new state ... *)
PausedStop ==
    /\ At({"paused"}) /\ op \in {"shutdown", "vmstop", "save"}
    /\ runstate_set(target, "notify")
    /\ off' = (off \/ target = "shutdown")
    /\ UNCHANGED <<flag, vmstop_requested, wakeup_reason, op, target, storevars,
                   guestvars, savevars, errorvars, events, raced>>

(* ... and notifies the handlers, vm_change_state first if it was added.   *)
(* It turns the shutdown of a guest that was asked to reboot into a reset  *)
(* and starts the VM again ...                                             *)
Notify ==
    /\ At({"notify"})
    /\ mpc' = IF target = "shutdown" /\ flag.handler_added THEN "clear" ELSE "stopped"
    /\ IF target = "shutdown" /\ flag.handler_added /\ flag.reboot_requested
       THEN flag' = Put(flag, {"reset_requested"}, TRUE) /\ vm_start
       ELSE UNCHANGED <<flag, vmstop_requested, errorvars, runstate, resumed>>
    /\ raced' = (raced \/ (target = "shutdown" /\ todo # <<>>))
    /\ UNCHANGED <<wakeup_reason, op, target, storevars, straggler, io, savevars, off, events>>

(* ... and goes on to clear the flags of the reboot ... *)
Clear ==
    /\ At({"clear"}) /\ mpc' = "stopped"
    /\ mtodo' = ClearAsked
    /\ raced' = (todo # <<>>)
    /\ UNCHANGED <<runstate, flag, vmstop_requested, wakeup_reason, op, target, todo,
                   guestvars, savevars, off, errorvars, events>>

(* ... sends the STOP event ... *)
Stopped ==
    /\ At({"stopped"}) /\ mpc' = "drain"
    /\ owed' = FALSE
    /\ UNCHANGED <<runstate, flag, vmstop_requested, wakeup_reason, op, target, storevars,
                   guestvars, savevars, off, dropped, events, raced>>

(* ... and, whether it had to stop the VM or not, waits for the disks. *)
Drain ==
    /\ At({"drain"})
    /\ mpc' = IF op = "save" THEN "saving" ELSE NextStage[op]
    /\ \E failed \in BOOLEAN : DiskResult(failed)
    /\ UNCHANGED <<runstate, flag, wakeup_reason, op, target, storevars, resumed, straggler,
                   savevars, off, events, raced>>

Main ==
    \/ Poll \/ SuspendVm \/ SuspendStop \/ SaveVm \/ DispatchDone
    \/ StageSkip \/ StageTake \/ Paused \/ PausedSuspend \/ PausedReset
    \/ PausedStop \/ Notify \/ Clear \/ Stopped \/ Drain

Others ==
    \/ MenuChoose \/ MenuWrite \/ HolderWrite \/ MenuClose
    \/ GuestPowersOff \/ GuestResets \/ GuestSuspends \/ GuestStartsIo \/ StragglerStops
    \/ CpuSuspendVm \/ CpuStopAsked \/ CpuSaved
    \/ Wakeup \/ MonitorCommand \/ MonitorShutoff \/ Killed \/ DiskDone

Next == Main \/ Others \/ (Ended /\ UNCHANGED vars)

(* The main loop goes on: its handlers return, the CPUs pause, snapshots   *)
(* and disk requests end.  A thread finishes the stores it has begun.  A   *)
(* CPU that saves the VM gets the mutex, which the main loop gives up in   *)
(* every round, and the write of the snapshot ends.                        *)
Fairness ==
    /\ WF_vars(Main) /\ WF_vars(MenuWrite) /\ WF_vars(HolderWrite)
    /\ WF_vars(CpuStopAsked) /\ SF_vars(CpuSaved)

Spec == Init /\ [][Next]_vars
FairSpec == Spec /\ Fairness

-----------------------------------------------------------------------------
(* Every variable has its type: in particular the VM enters only the run   *)
(* states that this program asks for (runstate_set, bdrv_error_action).    *)
TypeOK ==
    /\ runstate \in RunStates
    /\ flag \in [Flags -> BOOLEAN]
    /\ vmstop_requested \in {"max", "io-error", "save-vm"} /\ wakeup_reason \in BOOLEAN
    /\ mpc \in Stages \cup {"poll", "dispatch", "close", "pausing", "paused", "notify", "clear",
                            "stopped", "drain", "saving", "exited", "aborted"}
    /\ op \in Stages \cup {"none", "save"}
    /\ target \in {"none", "shutdown", "io-error", "save-vm"}
    /\ todo \in Seq(Stores) /\ Len(todo) <= 5
    /\ mtodo \in Seq(Stores) /\ Len(mtodo) <= 5
    /\ events \in 0 .. MaxEvents
    /\ {resumed, straggler, io, saved, saved_vm_running, off, owed, dropped, raced} \subseteq BOOLEAN
    /\ closing \in {"no", "scheduled", "main", "cpu"} /\ spc \in {"no", "clear", "saving"}

(* The only change of state that the table does not list and that the      *)
(* program can try is that of vmx_system_suspend: a suspend requested while *)
(* the main loop stops the VM for something else aborts the program         *)
(* (runstate_set).  No order of shutdowns, reboots, resets, wakeups, disk   *)
(* errors and snapshots makes any other runstate_set abort.                 *)
AbortOnlyStaleSuspend == mpc = "aborted" => op = "suspend" /\ ~Running

(* Whatever commands were given, no_shutdown is set exactly while a reboot *)
(* is pending, and then vm_change_state is there to carry it out: a guest  *)
(* that powers off in a reboot never ends the program and one that powers  *)
(* off otherwise does.  It can fail only if two threads changed the flags  *)
(* at the same time, or the main loop used them in the middle of a menu    *)
(* command: the Cocoa thread takes no lock (reboot_vm, vm_change_state,    *)
(* reset_vm, suspend_vm_internal); or if a signal cancelled the reboot     *)
(* (vmx_system_killed).                                                    *)
RebootFlagsAgree ==
    todo = <<>> /\ mtodo = <<>> /\ ~raced =>
        /\ flag.no_shutdown = flag.reboot_requested
        /\ flag.reboot_requested => flag.handler_added

(* vm_change_state starts a guest that has powered off before it is reset; *)
(* the reset is carried out before the main loop polls again.  The         *)
(* exception is a VM that is saved on a CPU's thread: the vm_start at the  *)
(* end of do_savevm starts whatever state the VM is in by then.            *)
RestartedGuestIsReset == mpc = "poll" /\ off /\ closing # "cpu" => ~Running

(* A VM that the main loop stopped to save it never runs again: the        *)
(* snapshot would no longer match the disk.  No reset, wakeup, reboot or   *)
(* shutdown request that comes late leads out of the state                 *)
(* (suspend_vm_internal).  A CPU's aio_poll that runs do_suspendVM is the  *)
(* exception: do_savevm finds the VM running and starts it again.          *)
SavedStateFinal == [][runstate = "save-vm" /\ closing # "cpu" => runstate' = "save-vm"]_vars

(* A stop requested by a disk error (bdrv_error_action) is carried out by  *)
(* the main loop, which is left with a VM that does not run, whatever else *)
(* is asked of it meanwhile.  Only a vm_start, of vm_change_state or of    *)
(* do_savevm on a CPU, takes the request away: "the VM will not stop".     *)
IoErrorStops ==
    vmstop_requested = "io-error" ~>
        \/ mpc = "drain" /\ op = "vmstop" /\ ~Running /\ vmstop_requested # "io-error"
        \/ dropped \/ Ended

(* A VM that is saved, on whatever thread, ends the program, unless the    *)
(* user asks for a reboot while it is saved: no_shutdown then makes the    *)
(* main loop stop a VM that may be stopped already, and the shutdown       *)
(* request is gone.                                                        *)
SuspendExits == (op = "save" \/ spc = "saving") ~> (Ended \/ raced \/ flag.reboot_requested)

(* vm_start: "The BLOCK_IO_ERROR event, for example, according to          *)
(* documentation is always followed by the STOP event."  do_vm_stop sends  *)
(* it only if the VM still runs, and waits for the disks after it.         *)
StopFollowsIoError == owed ~> ~owed \/ Ended
=============================================================================
