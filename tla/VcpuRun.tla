------------------------------- MODULE VcpuRun ------------------------------
(***************************************************************************)
(* The virtual CPUs' threads and the main loop that pauses, resets,        *)
(* suspends, saves and resumes them: util/cpus.c, vmm/veertu.c,            *)
(* vmm/x86veertu.c, util/vl.c.                                             *)
(*                                                                         *)
(* These threads work under the global mutex (bql), given up only in       *)
(* hv_vcpu_run, in cond_waits, in the yield of a halted CPU and while the  *)
(* main loop polls or a snapshot's first part is written.  An action of    *)
(* theirs is one stretch of code between two points where a thread may     *)
(* give up or has to wait for the mutex.  The Cocoa thread, whose forced   *)
(* restart takes no mutex, makes one store per action, and                 *)
(* pause_all_vcpus, which looks at what it stores, is split accordingly.   *)
(***************************************************************************)
EXTENDS Naturals, FiniteSets

CONSTANTS NCpus,   \* number of virtual CPUs; CPU 0 is the boot processor
          Irqs,    \* the interrupts that occur
          Menu,    \* what the user chooses from the VM's menu
          Main,    \* the main loop's thread
          Nobody   \* the mutex is free

ASSUME CpuCount == NCpus \in Nat \ {0}
ASSUME IrqKinds == Irqs \subseteq {"HARD", "INIT", "SIPI"}
ASSUME MenuItems == Menu \subseteq {"restart", "suspend"}
ASSUME ThreadNames == Main # Nobody /\ {Main, Nobody} \cap Nat = {}

Cpus == 0 .. NCpus - 1
Bsp == 0

VARIABLES
    bql,                \* who holds vmx_global_mutex
    \* fields of CPUState, per CPU
    pc,                 \* where the CPU's thread is
    stop, stopped,      \* stop requested; stopped
    hlt,                \* the guest executed HLT
    halted,             \* a processor that waits for its SIPI
    irq,                \* interrupt_request
    iflag,              \* IF of a halted guest's EFLAGS
    dirty,              \* vmx_vcpu_dirty: env is newer than the VMCS
    work,               \* the queued work item of run_on_cpu
    \* globals of vl.c
    runstate,
    reset_requested, suspend_requested, wakeup_reason, shutdown_requested,
    vmstop_requested,   \* the run state that is asked for, or "max"
    \* the main loop
    mpc,                \* where the main thread is
    op,                 \* the operation it is carrying out
    mcpu,               \* its position in a CPU_FOREACH
    \* the Cocoa thread's forced restart
    cocoa,              \* what it does next
    raced,              \* it has touched stop or stopped in this pause
    \* do_suspendVM, a bottom half that runs once
    save,               \* how far it is on a CPU's thread
    scpu,               \* that thread's position in a CPU_FOREACH
    sitem               \* it waits for a work item queued to CPU scpu

cpuvars == <<pc, stop, stopped, hlt, halted, irq, iflag, dirty, work>>
reqvars == <<reset_requested, suspend_requested, vmstop_requested, wakeup_reason,
             shutdown_requested>>
mainvars == <<mpc, op, mcpu>>
cocoavars == <<cocoa, raced>>
savevars == <<save, scpu, sitem>>
sidevars == <<cocoavars, savevars>>
vars == <<bql, cpuvars, runstate, reqvars, mainvars, sidevars>>

-----------------------------------------------------------------------------
(* Helpers *)

Acquire(t) == bql = Nobody /\ bql' = t
Release(t) == bql = t /\ bql' = Nobody
Hold(t) == bql = t /\ bql' = t

cpu_is_stopped(c) == stopped[c] \/ runstate # "running"

(* Mutant: a CPU that was paused may run. *)
CanRunIgnoresStopped(c) == ~stop[c] /\ runstate = "running"

cpu_can_run(c) == ~stop[c] /\ ~cpu_is_stopped(c)

cpu_has_work(c) == ("HARD" \in irq[c] /\ iflag[c]) \/ irq[c] \cap {"INIT", "SIPI"} # {}

(* run_on_cpu's items that wait for CPU c: the main loop's, and that of a  *)
(* CPU that saves the VM.                                                  *)
SaveItem(c) == sitem /\ scpu = c
HasItems(c) == work[c] # "none" \/ SaveItem(c)

cpu_thread_is_idle(c) ==
    /\ ~stop[c] /\ ~HasItems(c)
    /\ cpu_is_stopped(c) \/ (hlt[c] /\ ~cpu_has_work(c))

(* vmx_cpu_kick: wakes the sleepers on halt_cond.  Its signal stays        *)
(* blocked in the CPU's thread, so it does not end hv_vcpu_run: the host's *)
(* own interrupts do that (ExitInterrupt).                                 *)
Kicked(p, S) == [c \in Cpus |-> IF c \in S /\ p[c] = "idle" THEN "woken" ELSE p[c]]

(* vmx_cond_signal(&vmx_pause_cond) *)
SignalPause == mpc' = IF mpc = "pwait" THEN "pwoken" ELSE mpc

Init ==
    /\ bql = Main
    /\ pc = [c \in Cpus |-> "idle"]
    /\ stop = [c \in Cpus |-> FALSE]
    /\ stopped = [c \in Cpus |-> TRUE]
    /\ hlt = [c \in Cpus |-> FALSE]
    /\ halted = [c \in Cpus |-> c # Bsp]
    /\ irq = [c \in Cpus |-> {}]
    /\ iflag = [c \in Cpus |-> FALSE]
    /\ dirty = [c \in Cpus |-> FALSE]
    /\ work = [c \in Cpus |-> "none"]
    /\ runstate = "prelaunch"
    /\ reset_requested = FALSE /\ suspend_requested = FALSE
    /\ wakeup_reason = FALSE /\ shutdown_requested = FALSE
    /\ vmstop_requested = "max"
    /\ mpc = "vmstart" /\ op = "boot" /\ mcpu = 0
    /\ cocoa = "idle" /\ raced = FALSE
    /\ save = "no" /\ scpu = 0 /\ sitem = FALSE

-----------------------------------------------------------------------------
(* The CPU's thread, vmx_cpu_thread_fn                                     *)

(* veertu_process_events, for its effects on one CPU's fields: INIT, then  *)
(* a deliverable interrupt, then SIPI.  IF matters for a halted CPU only;  *)
(* of a CPU that runs it is part of "injectable" below.                    *)
Events(c) ==
    LET init == "INIT" \in irq[c]
        irq1 == IF init THEN irq[c] \cap {"SIPI"} ELSE irq[c]
        ap   == IF init THEN c # Bsp ELSE halted[c]
        sipi == "SIPI" \in irq1
        hlt1 == hlt[c] /\ ~init /\ ~("HARD" \in irq1 /\ iflag[c]) /\ ~(sipi /\ ap)
    IN  [irq |-> irq1 \ {"SIPI"}, hlt |-> hlt1, iflag |-> iflag[c] /\ hlt1,
         halted |-> ap /\ ~sipi, changed |-> init \/ sipi]

(* The head of veertu_cpu_exec's loop: write back the registers, inject    *)
(* what can be injected (IF is set, the guest is interruptible and nothing *)
(* else is being injected) and give the mutex up.                          *)
WriteBackAndInject(c, pending) ==
    /\ dirty' = [dirty EXCEPT ![c] = FALSE]
    /\ \E injectable \in SUBSET {"HARD"} : irq' = [irq EXCEPT ![c] = pending \ injectable]

EnterGuest(c, pending) ==
    /\ WriteBackAndInject(c, pending)
    /\ pc' = [pc EXCEPT ![c] = "enter"]

(* Mutant: the mutex is not taken back. *)
YieldReturnUnlocked(c) ==
    /\ pc[c] = "yield" /\ UNCHANGED bql
    /\ pc' = [pc EXCEPT ![c] = "wait"]
    /\ UNCHANGED <<stop, stopped, hlt, halted, irq, iflag, dirty, work,
                   runstate, reqvars, mainvars, sidevars>>

(* A CPU that stays halted gives the mutex up for a moment. *)
YieldReturn(c) ==
    /\ pc[c] = "yield" /\ Acquire(c)
    /\ pc' = [pc EXCEPT ![c] = "wait"]
    /\ UNCHANGED <<stop, stopped, hlt, halted, irq, iflag, dirty, work,
                   runstate, reqvars, mainvars, sidevars>>

(* Mutant: the test of halted is forgotten. *)
WaitsForSipiNever(c) == FALSE

(* The test before hv_vcpu_run, made without the mutex. *)
WaitsForSipi(c) == c # Bsp /\ halted[c]

EnterHalted(c) ==
    /\ pc[c] = "enter" /\ WaitsForSipi(c) /\ Acquire(c)
    /\ pc' = [pc EXCEPT ![c] = "wait"]
    /\ UNCHANGED <<stop, stopped, hlt, halted, irq, iflag, dirty, work,
                   runstate, reqvars, mainvars, sidevars>>

EnterRun(c) ==
    /\ pc[c] = "enter" /\ ~WaitsForSipi(c)
    /\ pc' = [pc EXCEPT ![c] = "guest"]
    /\ UNCHANGED <<bql, stop, stopped, hlt, halted, irq, iflag, dirty, work,
                   runstate, reqvars, mainvars, sidevars>>

(* EXIT_REASON_HLT: the thread takes the mutex and reads EFLAGS. *)
ExitHlt(c) ==
    /\ pc[c] = "guest" /\ Acquire(c)
    /\ \/ \E f \in BOOLEAN :
             /\ hlt' = [hlt EXCEPT ![c] = ~("HARD" \in irq[c] /\ f)]
             /\ iflag' = [iflag EXCEPT ![c] = f /\ "HARD" \notin irq[c]]
       \/ UNCHANGED <<hlt, iflag>>        \* an event was being delivered
    /\ pc' = [pc EXCEPT ![c] = "wait"]
    /\ UNCHANGED <<stop, stopped, halted, irq, dirty, work, runstate, reqvars, mainvars, sidevars>>

(* The exits with ret # 0: a host interrupt, an interrupt window, TPR. *)
ExitInterrupt(c) ==
    /\ pc[c] = "guest" /\ Acquire(c)
    /\ pc' = [pc EXCEPT ![c] = "wait"]
    /\ UNCHANGED <<stop, stopped, hlt, halted, irq, iflag, dirty, work,
                   runstate, reqvars, mainvars, sidevars>>

(* The exits with ret = 0 (port and memory mapped I/O, MSRs, CPUID): the   *)
(* loop of veertu_cpu_exec goes round under the mutex and enters the guest *)
(* again without a look at stop and stopped.                               *)
ExitIo(c) ==
    /\ pc[c] = "guest" /\ bql = Nobody /\ UNCHANGED bql
    /\ EnterGuest(c, irq[c])

ExitIoPlain(c) ==
    /\ ExitIo(c)
    /\ UNCHANGED <<stop, stopped, hlt, halted, iflag, work, runstate, reqvars, mainvars, sidevars>>

(* Mutant: the interrupt that does not kick its CPU. *)
InterruptNoKick(p, d, kind) ==
    /\ irq' = [irq EXCEPT ![d] = @ \cup {kind}]
    /\ pc' = p

(* veertu_interrupt_handle, where p is pc after the caller's own step. *)
veertu_interrupt_handle(p, d, kind) ==
    /\ irq' = [irq EXCEPT ![d] = @ \cup {kind}]
    /\ pc' = Kicked(p, {d})

(* An exit whose device or local APIC interrupts a CPU; what the caller    *)
(* itself could then inject it injects on a later entry.                   *)
ExitIoInterrupt(c, d, kind) ==
    /\ pc[c] = "guest" /\ bql = Nobody /\ UNCHANGED bql
    /\ kind # "HARD" => d # Bsp
    /\ veertu_interrupt_handle([pc EXCEPT ![c] = "enter"], d, kind)
    /\ UNCHANGED <<stop, stopped, hlt, halted, iflag, dirty, work,
                   runstate, reqvars, mainvars, sidevars>>

(* cpu_stop_current, where current_cpu is c.                               *)
StopCurrent(c) ==
    /\ stop' = [stop EXCEPT ![c] = FALSE]
    /\ stopped' = [stopped EXCEPT ![c] = TRUE]
    /\ SignalPause

(* vmx_system_reset_request from a device (keyboard controller, port 92,   *)
(* PIIX, ICH9) ...                                                         *)
ExitIoReset(c) ==
    /\ ExitIo(c)
    /\ reset_requested' = TRUE
    /\ StopCurrent(c)
    /\ UNCHANGED <<hlt, halted, iflag, work, runstate, suspend_requested,
                   vmstop_requested, wakeup_reason, shutdown_requested, op, mcpu, sidevars>>

(* ... or, with ret # 0, from a triple fault. *)
ExitTripleFault(c) ==
    /\ pc[c] = "guest" /\ Acquire(c)
    /\ reset_requested' = TRUE
    /\ StopCurrent(c)
    /\ pc' = [pc EXCEPT ![c] = "wait"]
    /\ UNCHANGED <<hlt, halted, irq, iflag, dirty, work, runstate, suspend_requested,
                   vmstop_requested, wakeup_reason, shutdown_requested, op, mcpu, sidevars>>

(* vmx_system_suspend_request from the ACPI control register. *)
ExitIoSuspend(c) ==
    /\ runstate # "suspended"
    /\ ExitIo(c)
    /\ suspend_requested' = TRUE
    /\ StopCurrent(c)
    /\ UNCHANGED <<hlt, halted, iflag, work, runstate, reset_requested,
                   vmstop_requested, wakeup_reason, shutdown_requested, op, mcpu, sidevars>>

(* A disk error that asks the main loop to stop the VM. *)
ExitIoError(c) ==
    /\ ExitIo(c)
    /\ vmstop_requested' = "io-error"
    /\ UNCHANGED <<stop, stopped, hlt, halted, iflag, work, runstate,
                   reset_requested, suspend_requested, wakeup_reason, shutdown_requested,
                   mainvars, sidevars>>

(* vmx_wait_for_io: sleep on halt_cond ... *)
WaitSleep(c) ==
    /\ pc[c] = "wait" /\ cpu_thread_is_idle(c)
    /\ Release(c)
    /\ pc' = [pc EXCEPT ![c] = "idle"]
    /\ UNCHANGED <<stop, stopped, hlt, halted, irq, iflag, dirty, work,
                   runstate, reqvars, mainvars, sidevars>>

(* flush_queued_work: a "sync" item (a saving CPU's always is one) reads   *)
(* the registers into env, a "reset" item writes env to the VMCS.  After   *)
(* one of each, it depends on their order.                                 *)
DirtyAfterWork(c) ==
    IF SaveItem(c) THEN {TRUE} \cup (IF work[c] = "reset" THEN {FALSE} ELSE {})
    ELSE {IF work[c] = "none" THEN dirty[c] ELSE work[c] = "sync"}

flush_queued_work(c) ==
    /\ work' = [work EXCEPT ![c] = "none"]
    /\ sitem' = (sitem /\ scpu # c)

(* Mutant: a stop request is answered without telling the main loop. *)
AnswerStopSilently(c) ==
    /\ stop' = [stop EXCEPT ![c] = FALSE]
    /\ stopped' = [stopped EXCEPT ![c] = @ \/ stop[c]]
    /\ UNCHANGED mpc

(* vmx_wait_io_event_common's answer to a stop request. *)
AnswerStop(c) ==
    /\ stop' = [stop EXCEPT ![c] = FALSE]
    /\ stopped' = [stopped EXCEPT ![c] = @ \/ stop[c]]
    /\ IF stop[c] THEN SignalPause ELSE UNCHANGED mpc

(* ... or answer a stop request and do the queued work.  A CPU that may    *)
(* not run goes round vmx_cpu_thread_fn's loop and waits again ...         *)
WaitAgain(c) ==
    /\ pc[c] = "wait" /\ ~cpu_thread_is_idle(c)
    /\ Hold(c)
    /\ ~cpu_can_run(c)
    /\ AnswerStop(c)
    /\ flush_queued_work(c)
    /\ \E d \in DirtyAfterWork(c) : dirty' = [dirty EXCEPT ![c] = d]
    /\ UNCHANGED <<pc, hlt, halted, irq, iflag, runstate, reqvars, op, mcpu,
                   cocoavars, save, scpu>>

(* ... one that may calls veertu_cpu_exec, which lasts to hv_vcpu_run or   *)
(* to the yield of a CPU that stays halted.                                *)
Exec(c) ==
    /\ pc[c] = "wait" /\ ~cpu_thread_is_idle(c)
    /\ cpu_can_run(c)
    /\ Release(c)
    /\ flush_queued_work(c)
    /\ LET e == Events(c) IN
       /\ hlt' = [hlt EXCEPT ![c] = e.hlt]
       /\ halted' = [halted EXCEPT ![c] = e.halted]
       /\ iflag' = [iflag EXCEPT ![c] = e.iflag]
       /\ \/ /\ e.hlt
             /\ irq' = [irq EXCEPT ![c] = e.irq]
             /\ \E d \in DirtyAfterWork(c) : dirty' = [dirty EXCEPT ![c] = e.changed \/ d]
             /\ pc' = [pc EXCEPT ![c] = "yield"]
          \/ /\ ~e.hlt
             /\ EnterGuest(c, e.irq)
    /\ UNCHANGED <<stop, stopped, runstate, reqvars, mainvars, cocoavars, save, scpu>>

Woken(c) ==
    /\ pc[c] = "woken" /\ Acquire(c)
    /\ pc' = [pc EXCEPT ![c] = "wait"]
    /\ UNCHANGED <<stop, stopped, hlt, halted, irq, iflag, dirty, work,
                   runstate, reqvars, mainvars, sidevars>>

(* do_suspendVM on a CPU's thread: any aio_poll runs the bottom half, also *)
(* the one in which a device drains its disk.  There vm_stop only asks for *)
(* the stop.  do_savevm may return at once, or fail before it has written  *)
(* anything: the vm_start of a VM that runs then takes the request back.   *)
CpuSavevmFails(c) ==
    /\ "suspend" \in Menu /\ save = "no" /\ save' = "done"
    /\ ExitIo(c)
    /\ StopCurrent(c)
    /\ \/ vmstop_requested' = "save-vm"
       \/ runstate = "running" /\ vmstop_requested' = "max"
    /\ shutdown_requested' = TRUE
    /\ UNCHANGED <<hlt, halted, iflag, work, runstate, reset_requested, suspend_requested,
                   wakeup_reason, op, mcpu, cocoavars, scpu, sitem>>

(* Or it notes whether the VM runs and writes the snapshot, its first part *)
(* with the mutex given up.                                                *)
CpuSavevm(c) ==
    /\ "suspend" \in Menu /\ save = "no"
    /\ save' = IF runstate = "running" THEN "running" ELSE "stopped"
    /\ pc[c] = "guest" /\ bql = Nobody /\ UNCHANGED bql
    /\ vmstop_requested' = "save-vm"
    /\ StopCurrent(c)
    /\ pc' = [pc EXCEPT ![c] = "saveram"]
    /\ UNCHANGED <<hlt, halted, irq, iflag, dirty, work, runstate, reset_requested,
                   suspend_requested, wakeup_reason, shutdown_requested, op, mcpu,
                   cocoavars, scpu, sitem>>

CpuSaveRamDone(c) ==
    /\ pc[c] = "saveram" /\ Acquire(c)
    /\ pc' = [pc EXCEPT ![c] = "savesync"]
    /\ scpu' = 0
    /\ UNCHANGED <<stop, stopped, hlt, halted, irq, iflag, dirty, work, runstate,
                   reqvars, mainvars, cocoavars, save, sitem>>

(* cpu_synchronize_all_states on CPU c's thread: its own registers at once, *)
(* another CPU's by a work item, for which it waits.                       *)
CpuSyncState(c) ==
    /\ pc[c] = "savesync" /\ scpu < NCpus /\ Hold(c)
    /\ scpu = c \/ dirty[scpu]
    /\ dirty' = [dirty EXCEPT ![scpu] = TRUE]
    /\ scpu' = scpu + 1
    /\ UNCHANGED <<pc, stop, stopped, hlt, halted, irq, iflag, work, runstate,
                   reqvars, mainvars, cocoavars, save, sitem>>

CpuSyncQueued(c) ==
    /\ pc[c] = "savesync" /\ scpu < NCpus /\ Release(c)
    /\ scpu # c /\ ~dirty[scpu]
    /\ sitem' = TRUE
    /\ pc' = Kicked([pc EXCEPT ![c] = "savewait"], {scpu})
    /\ UNCHANGED <<stop, stopped, hlt, halted, irq, iflag, dirty, work, runstate,
                   reqvars, mainvars, cocoavars, save, scpu>>

CpuSyncDone(c) ==
    /\ pc[c] = "savewait" /\ ~sitem /\ Acquire(c)
    /\ pc' = [pc EXCEPT ![c] = "savesync"]
    /\ scpu' = scpu + 1
    /\ UNCHANGED <<stop, stopped, hlt, halted, irq, iflag, dirty, work, runstate,
                   reqvars, mainvars, cocoavars, save, sitem>>

(* The main loop waits in a pause_all_vcpus; it has paused the CPUs and    *)
(* not yet let them go on.                                                 *)
MainPauses == mpc \in {"ptest", "pgap", "pwait", "pwoken"}
MainHasPaused == mpc \in {"paused", "saveram", "sync", "syncwait", "post", "postwait"}

(* The end of do_savevm, after the CPU section or an error in the first    *)
(* part: a VM that ran is started again, by a vm_start that takes the stop *)
(* request back and, if the main loop has carried it out, resumes all      *)
(* CPUs, whatever the main loop is doing.  The program is to shut down,    *)
(* and the CPU goes on in veertu_cpu_exec.                                 *)
CpuSaveDone(c) ==
    LET restarts == save = "running" /\ runstate # "running"
    IN  /\ pc[c] = "savesync" /\ scpu \in {0, NCpus} /\ Release(c)
        /\ vmstop_requested' = IF save = "running" THEN "max" ELSE vmstop_requested
        /\ runstate' = IF restarts THEN "running" ELSE runstate
        /\ stop' = [d \in Cpus |-> stop[d] /\ ~restarts]
        /\ stopped' = [d \in Cpus |-> stopped[d] /\ ~restarts]
        /\ shutdown_requested' = TRUE
        /\ WriteBackAndInject(c, irq[c])
        /\ pc' = Kicked([pc EXCEPT ![c] = "enter"], IF restarts THEN Cpus ELSE {})
        /\ save' = IF MainHasPaused \/ (MainPauses /\ restarts) THEN "overlapped" ELSE "done"
        /\ scpu' = 0
        /\ UNCHANGED <<hlt, halted, iflag, work, reset_requested, suspend_requested,
                       wakeup_reason, mainvars, cocoavars, sitem>>

CpuIrq(c) == \E d \in Cpus, kind \in Irqs : ExitIoInterrupt(c, d, kind)

Cpu(c) ==
    \/ YieldReturn(c) \/ EnterHalted(c) \/ EnterRun(c)
    \/ ExitHlt(c) \/ ExitInterrupt(c) \/ ExitTripleFault(c)
    \/ ExitIoPlain(c) \/ CpuIrq(c)
    \/ ExitIoReset(c) \/ ExitIoSuspend(c) \/ ExitIoError(c)
    \/ WaitSleep(c) \/ WaitAgain(c) \/ Exec(c) \/ Woken(c)
    \/ CpuSavevmFails(c) \/ CpuSavevm(c)
    \/ CpuSaveRamDone(c) \/ CpuSyncState(c) \/ CpuSyncQueued(c) \/ CpuSyncDone(c)
    \/ CpuSaveDone(c)

-----------------------------------------------------------------------------
(* The Cocoa thread: vmx_system_reset_request for the menu's forced        *)
(* restart, without the mutex and so one store at a time.  current_cpu is  *)
(* a plain global: it holds the CPU that handled an exit last, or one that *)
(* run_on_cpu has put back, and it may change between two uses.            *)
CocoaReset ==
    /\ "restart" \in Menu /\ cocoa = "idle" /\ cocoa' = "stop"
    /\ reset_requested' = TRUE
    /\ UNCHANGED <<bql, cpuvars, runstate, suspend_requested, vmstop_requested,
                   wakeup_reason, shutdown_requested, mainvars, raced, savevars>>

CocoaStop ==
    /\ cocoa = "stop" /\ cocoa' = "stopped"
    /\ \E c \in Cpus : stop' = [stop EXCEPT ![c] = FALSE]
    /\ raced' = (raced \/ MainPauses)
    /\ UNCHANGED <<bql, pc, stopped, hlt, halted, irq, iflag, dirty, work,
                   runstate, reqvars, mainvars, savevars>>

CocoaStopped ==
    /\ cocoa = "stopped" /\ cocoa' = "signal"
    /\ \E c \in Cpus : stopped' = [stopped EXCEPT ![c] = TRUE]
    /\ UNCHANGED <<bql, pc, stop, hlt, halted, irq, iflag, dirty, work,
                   runstate, reqvars, mainvars, raced, savevars>>

CocoaSignal ==
    /\ cocoa = "signal" /\ cocoa' = "idle"
    /\ SignalPause
    /\ UNCHANGED <<bql, cpuvars, runstate, reqvars, op, mcpu, raced, savevars>>

Cocoa == CocoaReset \/ CocoaStop \/ CocoaStopped \/ CocoaSignal

-----------------------------------------------------------------------------
(* The main thread, vmx_process_events                                     *)

MainGoto(where) == mpc' = where /\ UNCHANGED <<op, mcpu>>

(* An operation ends; its name and position are forgotten. *)
MainGoesOn(where) == mpc' = where /\ op' = "none" /\ mcpu' = 0

(* main_loop_wait returns from its poll with the mutex; the handlers it    *)
(* dispatches may ask for things.                                          *)
MainWakes ==
    /\ mpc = "poll" /\ Acquire(Main)
    /\ MainGoto("dispatch")
    /\ UNCHANGED <<cpuvars, runstate, reqvars, sidevars>>

(* A device's timer or descriptor handler interrupts a CPU. *)
MainInterrupt ==
    /\ mpc = "dispatch" /\ Hold(Main)
    /\ "HARD" \in Irqs /\ \E d \in Cpus : veertu_interrupt_handle(pc, d, "HARD")
    /\ MainGoto("suspend")
    /\ UNCHANGED <<stop, stopped, hlt, halted, iflag, dirty, work, runstate, reqvars, sidevars>>

(* vmx_system_reset_request for the monitor's reset, with the mutex; it    *)
(* too stops the CPU that current_cpu happens to hold.                     *)
MainResetRequest ==
    /\ mpc = "dispatch" /\ Hold(Main)
    /\ reset_requested' = TRUE
    /\ \E c \in Cpus : /\ stop' = [stop EXCEPT ![c] = FALSE]
                       /\ stopped' = [stopped EXCEPT ![c] = TRUE]
    /\ MainGoto("suspend")
    /\ UNCHANGED <<pc, hlt, halted, irq, iflag, dirty, work, runstate, suspend_requested,
                   vmstop_requested, wakeup_reason, shutdown_requested, sidevars>>

(* vmx_system_wakeup_request from a key press or the RTC. *)
MainWakeupRequest ==
    /\ mpc = "dispatch" /\ Hold(Main)
    /\ runstate = "suspended"
    /\ runstate' = "running"
    /\ wakeup_reason' = TRUE
    /\ MainGoto("suspend")
    /\ UNCHANGED <<cpuvars, reset_requested, suspend_requested, vmstop_requested,
                   shutdown_requested, sidevars>>

(* do_suspendVM on the main thread: the snapshot of a VM that does not run *)
(* fails ...                                                               *)
MainSavevmFails ==
    /\ mpc = "dispatch" /\ Hold(Main)
    /\ "suspend" \in Menu /\ save = "no" /\ save' = "main"
    /\ runstate # "running"
    /\ shutdown_requested' = TRUE
    /\ MainGoesOn("suspend")
    /\ UNCHANGED <<cpuvars, runstate, reset_requested, suspend_requested, vmstop_requested,
                   wakeup_reason, cocoavars, scpu, sitem>>

(* ... or it is saved as it is ...                                         *)
MainSavevmStopped ==
    /\ mpc = "dispatch" /\ Release(Main)
    /\ "suspend" \in Menu /\ save = "no" /\ save' = "main"
    /\ runstate # "running"
    /\ mpc' = "saveram" /\ op' = "savevm"
    /\ UNCHANGED <<mcpu, cpuvars, runstate, reqvars, cocoavars, scpu, sitem>>

(* ... and a VM that runs is stopped first. *)
MainSavevm ==
    /\ mpc = "dispatch" /\ Hold(Main)
    /\ "suspend" \in Menu /\ save = "no" /\ save' = "main"
    /\ runstate = "running"
    /\ mpc' = "pause" /\ op' = "savevm"
    /\ UNCHANGED <<mcpu, cpuvars, runstate, reqvars, cocoavars, scpu, sitem>>

MainNothing ==
    /\ mpc = "dispatch" /\ Hold(Main)
    /\ MainGoto("suspend")
    /\ UNCHANGED <<cpuvars, runstate, reqvars, sidevars>>

(* main_loop_should_exit takes the requests in this order. *)
NextStage == [suspend |-> "shutdown", shutdown |-> "reset", reset |-> "wakeup",
              wakeup |-> "vmstop", vmstop |-> "poll", boot |-> "poll"]

(* The program shuts down when it has saved the VM (suspend_vm_internal).  *)
Requested(s) == CASE s = "suspend" -> suspend_requested
                  [] s = "shutdown" -> shutdown_requested
                  [] s = "reset"   -> reset_requested
                  [] s = "wakeup"  -> wakeup_reason
                  [] s = "vmstop"  -> vmstop_requested # "max"

Leave(where) == IF where = "poll" THEN Release(Main) ELSE Hold(Main)

Stages == {"suspend", "shutdown", "reset", "wakeup", "vmstop"}

(* The request was not made, or (do_vm_stop) the VM does not run anyway. *)
StageSkip(s) ==
    /\ mpc = s
    /\ ~Requested(s) \/ (s = "vmstop" /\ runstate # "running")
    /\ vmstop_requested' = IF s = "vmstop" THEN "max" ELSE vmstop_requested
    /\ Leave(NextStage[s])
    /\ MainGoto(NextStage[s])
    /\ UNCHANGED <<cpuvars, runstate, reset_requested, suspend_requested, wakeup_reason,
                   shutdown_requested, sidevars>>

(* The request is taken; wakeup_reason is cleared only after the reset. *)
StageTake(s) ==
    /\ mpc = s /\ s # "shutdown" /\ Hold(Main)
    /\ Requested(s) /\ ~(s = "vmstop" /\ runstate # "running")
    /\ suspend_requested' = (suspend_requested /\ s # "suspend")
    /\ reset_requested' = (reset_requested /\ s # "reset")
    /\ vmstop_requested' = IF s = "vmstop" THEN "max" ELSE vmstop_requested
    /\ mpc' = "pause" /\ op' = IF s = "vmstop" THEN vmstop_requested ELSE s
    /\ UNCHANGED <<mcpu, cpuvars, runstate, wakeup_reason, shutdown_requested, sidevars>>

MainExits ==
    /\ mpc = "shutdown" /\ Requested(mpc) /\ Hold(Main)
    /\ MainGoto("exited")
    /\ UNCHANGED <<cpuvars, runstate, reqvars, sidevars>>

AllPaused == \A c \in Cpus : stopped[c]

(* Mutant: only CPUs that are not halted are asked. *)
AskAllButHalted ==
    /\ stop' = [c \in Cpus |-> stop[c] \/ ~hlt[c]]
    /\ pc' = Kicked(pc, {c \in Cpus : ~hlt[c]})

AskAllToStop ==
    /\ stop' = [c \in Cpus |-> TRUE]
    /\ pc' = Kicked(pc, Cpus)

(* pause_all_vcpus asks all CPUs, tests whether they have stopped, and     *)
(* waits for a signal otherwise.  It holds the mutex from the test to the  *)
(* wait, which the CPUs' signals need, and the Cocoa thread's does not.    *)
PauseAsk ==
    /\ mpc = "pause" /\ Hold(Main)
    /\ AskAllToStop
    /\ MainGoto("ptest")
    /\ UNCHANGED <<stopped, hlt, halted, irq, iflag, dirty, work, runstate, reqvars,
                   sidevars>>

PauseTest ==
    /\ mpc = "ptest" /\ Hold(Main)
    /\ MainGoto(IF AllPaused THEN "paused" ELSE "pgap")
    /\ raced' = (raced /\ ~AllPaused)
    /\ UNCHANGED <<cpuvars, runstate, reqvars, cocoa, savevars>>

PauseSleep ==
    /\ mpc = "pgap" /\ Release(Main)
    /\ MainGoto("pwait")
    /\ UNCHANGED <<cpuvars, runstate, reqvars, sidevars>>

PauseRecheck ==
    /\ mpc = "pwoken" /\ Acquire(Main)
    /\ pc' = Kicked(pc, Cpus)
    /\ MainGoto("ptest")
    /\ UNCHANGED <<stop, stopped, hlt, halted, irq, iflag, dirty, work, runstate, reqvars,
                   sidevars>>

(* vmx_system_suspend and do_vm_stop change the run state; so does the     *)
(* vm_stop of a snapshot, which goes on to write the guest's memory with   *)
(* the mutex given up (vmx_savevm_state).                                  *)
PausedSuspend ==
    /\ mpc = "paused" /\ op = "suspend" /\ Hold(Main)
    /\ runstate = "running" /\ runstate' = "suspended"
    /\ MainGoesOn("shutdown")
    /\ UNCHANGED <<cpuvars, reqvars, sidevars>>

(* runstate_set aborts the program: the table lists suspended only after   *)
(* running, and the VM was stopped for another reason since the request.   *)
PausedSuspendAborts ==
    /\ mpc = "paused" /\ op = "suspend" /\ Hold(Main)
    /\ runstate # "running"
    /\ MainGoto("aborted")
    /\ UNCHANGED <<cpuvars, runstate, reqvars, sidevars>>

PausedVmstop ==
    /\ mpc = "paused" /\ op \in {"io-error", "save-vm"} /\ Release(Main)
    /\ runstate' = op
    /\ MainGoesOn("poll")
    /\ UNCHANGED <<cpuvars, reqvars, sidevars>>

PausedSavevm ==
    /\ mpc = "paused" /\ op = "savevm" /\ Release(Main)
    /\ runstate' = "save-vm"
    /\ MainGoto("saveram")
    /\ UNCHANGED <<cpuvars, reqvars, sidevars>>

(* A snapshot that fails before it is written. *)
PausedSavevmFails ==
    /\ mpc = "paused" /\ op = "savevm" /\ Hold(Main)
    /\ runstate' = "save-vm"
    /\ shutdown_requested' = TRUE
    /\ MainGoesOn("suspend")
    /\ UNCHANGED <<cpuvars, reset_requested, suspend_requested, vmstop_requested,
                   wakeup_reason, sidevars>>

PausedReset ==
    /\ mpc = "paused" /\ op \in {"reset", "wakeup"} /\ Hold(Main)
    /\ mpc' = "sync" /\ mcpu' = 0
    /\ UNCHANGED <<op, cpuvars, runstate, reqvars, sidevars>>

SaveRamDone ==
    /\ mpc = "saveram" /\ Acquire(Main)
    /\ mpc' = "sync" /\ mcpu' = 0
    /\ UNCHANGED <<op, cpuvars, runstate, reqvars, sidevars>>

(* run_on_cpu from the main thread: queue an item, kick, wait for it. *)
run_on_cpu(c, item) ==
    /\ work' = [work EXCEPT ![c] = item]
    /\ pc' = Kicked(pc, {c})
    /\ Release(Main)

(* Mutant: the registers are taken to be synchronised already. *)
NeedsSyncNever(c) == FALSE

(* veertu_cpu_synchronize_state's test. *)
NeedsSync(c) == ~dirty[c]

(* cpu_synchronize_all_states *)
SyncCpu ==
    /\ mpc = "sync" /\ mcpu < NCpus
    /\ \/ /\ NeedsSync(mcpu)
          /\ run_on_cpu(mcpu, "sync")
          /\ MainGoto("syncwait")
       \/ /\ ~NeedsSync(mcpu) /\ Hold(Main)
          /\ mcpu' = mcpu + 1
          /\ UNCHANGED <<pc, work, mpc, op>>
    /\ UNCHANGED <<stop, stopped, hlt, halted, irq, iflag, dirty, runstate, reqvars, sidevars>>

(* cpu_synchronize_all_post_reset *)
PostResetCpu ==
    /\ mpc = "post" /\ mcpu < NCpus
    /\ run_on_cpu(mcpu, "reset")
    /\ MainGoto("postwait")
    /\ UNCHANGED <<stop, stopped, hlt, halted, irq, iflag, dirty, runstate, reqvars, sidevars>>

WorkDone(here, back) ==
    /\ mpc = here /\ work[mcpu] = "none" /\ Acquire(Main)
    /\ mpc' = back /\ mcpu' = mcpu + 1
    /\ UNCHANGED <<op, cpuvars, runstate, reqvars, sidevars>>

(* x86_cpu_reset of every CPU *)
x86_cpu_reset ==
    /\ irq' = [c \in Cpus |-> {}]
    /\ halted' = [c \in Cpus |-> c # Bsp]
    /\ hlt' = [c \in Cpus |-> FALSE]
    /\ iflag' = [c \in Cpus |-> FALSE]

(* vmx_devices_reset; the other devices' state is not modelled. *)
DevicesReset ==
    /\ mpc = "sync" /\ mcpu = NCpus /\ op \in {"reset", "wakeup"} /\ Hold(Main)
    /\ x86_cpu_reset
    /\ mpc' = "post" /\ mcpu' = 0
    /\ UNCHANGED <<op, pc, stop, stopped, dirty, work, runstate, reqvars, sidevars>>

(* The end of a snapshot, after the CPU section or an error in the first   *)
(* part; the VM, which vm_stop has stopped already when do_savevm looks,   *)
(* is not started again.                                                   *)
SaveDone ==
    /\ mpc = "sync" /\ mcpu \in {0, NCpus} /\ op = "savevm" /\ Hold(Main)
    /\ shutdown_requested' = TRUE
    /\ MainGoesOn("suspend")
    /\ UNCHANGED <<cpuvars, runstate, reset_requested, suspend_requested, vmstop_requested,
                   wakeup_reason, sidevars>>

(* resume_all_vcpus *)
ResumeAll ==
    /\ stop' = [c \in Cpus |-> FALSE]
    /\ stopped' = [c \in Cpus |-> FALSE]
    /\ pc' = Kicked(pc, Cpus)

ResetDone ==
    /\ mpc = "post" /\ mcpu = NCpus /\ Leave(NextStage[op])
    /\ ResumeAll
    /\ wakeup_reason' = (wakeup_reason /\ op # "wakeup")
    /\ MainGoesOn(NextStage[op])
    /\ UNCHANGED <<hlt, halted, irq, iflag, dirty, work, runstate, reset_requested,
                   suspend_requested, vmstop_requested, shutdown_requested, sidevars>>

(* vm_start at the end of main; it consumes a pending stop request. *)
VmStart ==
    /\ mpc = "vmstart" /\ Leave(NextStage[op])
    /\ runstate' = "running"
    /\ vmstop_requested' = "max"
    /\ ResumeAll
    /\ MainGoesOn(NextStage[op])
    /\ UNCHANGED <<hlt, halted, irq, iflag, dirty, work,
                   reset_requested, suspend_requested, wakeup_reason, shutdown_requested,
                   sidevars>>

MainStage == \E s \in Stages : StageSkip(s) \/ StageTake(s)

MainStep ==
    \/ MainInterrupt \/ MainResetRequest \/ MainWakeupRequest
    \/ MainSavevmFails \/ MainSavevm \/ MainSavevmStopped \/ MainNothing
    \/ MainStage \/ MainExits
    \/ PauseAsk \/ PauseTest \/ PauseSleep \/ PauseRecheck
    \/ PausedSuspend \/ PausedSuspendAborts \/ PausedVmstop
    \/ PausedSavevm \/ PausedSavevmFails \/ PausedReset
    \/ SaveRamDone \/ SyncCpu \/ PostResetCpu
    \/ WorkDone("syncwait", "sync") \/ WorkDone("postwait", "post")
    \/ DevicesReset \/ SaveDone \/ ResetDone \/ VmStart

(* The process has ended and its threads with it. *)
Ended == mpc \in {"exited", "aborted"}

Next ==
    \/ ~Ended /\ (MainWakes \/ MainStep \/ Cocoa \/ \E c \in Cpus : Cpu(c))
    \/ Ended /\ UNCHANGED vars

Spec == Init /\ [][Next]_vars

(* Threads are scheduled, and the mutex is a fair one: a thread that keeps *)
(* asking for it receives it.  (A thread is at one place at a time, so one *)
(* formula speaks for the steps of all its places.)  The host's timer      *)
(* interrupt ends hv_vcpu_run again and again.                             *)
CpuGoesOn(c) ==
    \/ YieldReturn(c) \/ EnterHalted(c) \/ EnterRun(c)
    \/ WaitSleep(c) \/ WaitAgain(c) \/ Exec(c) \/ Woken(c)
    \/ CpuSaveRamDone(c) \/ CpuSyncState(c) \/ CpuSyncQueued(c) \/ CpuSyncDone(c)
    \/ CpuSaveDone(c)

Fairness ==
    /\ SF_vars(MainWakes \/ MainStep)
    /\ WF_vars(~Ended /\ (CocoaStop \/ CocoaStopped \/ CocoaSignal))
    /\ \A c \in Cpus : /\ SF_vars(~Ended /\ CpuGoesOn(c))
                       /\ SF_vars(~Ended /\ ExitInterrupt(c))

FairSpec == Spec /\ Fairness

-----------------------------------------------------------------------------
(* Properties *)

CpuPcs == {"idle", "woken", "wait", "yield", "enter", "guest",
           "saveram", "savesync", "savewait"}
MainPcs == Stages \cup {"vmstart", "poll", "dispatch", "pause", "ptest", "pgap", "pwait",
                        "pwoken", "paused", "saveram", "sync", "syncwait", "post",
                        "postwait", "exited", "aborted"}
Ops == {"none", "boot", "savevm", "suspend", "reset", "wakeup", "io-error", "save-vm"}

(* Every variable has its type, and a thread that sleeps or runs the guest *)
(* has given the mutex up.                                                 *)
TypeOK ==
    /\ bql \in Cpus \cup {Main, Nobody}
    /\ pc \in [Cpus -> CpuPcs]
    /\ stop \in [Cpus -> BOOLEAN] /\ stopped \in [Cpus -> BOOLEAN]
    /\ hlt \in [Cpus -> BOOLEAN] /\ halted \in [Cpus -> BOOLEAN]
    /\ irq \in [Cpus -> SUBSET Irqs] /\ iflag \in [Cpus -> BOOLEAN]
    /\ dirty \in [Cpus -> BOOLEAN] /\ work \in [Cpus -> {"none", "sync", "reset"}]
    /\ runstate \in {"prelaunch", "running", "suspended", "io-error", "save-vm"}
    /\ reset_requested \in BOOLEAN /\ suspend_requested \in BOOLEAN
    /\ wakeup_reason \in BOOLEAN /\ shutdown_requested \in BOOLEAN
    /\ vmstop_requested \in {"max", "io-error", "save-vm"}
    /\ mpc \in MainPcs /\ op \in Ops /\ mcpu \in 0 .. NCpus
    /\ cocoa \in {"idle", "stop", "stopped", "signal"} /\ raced \in BOOLEAN
    /\ save \in {"no", "main", "running", "stopped", "done", "overlapped"}
    /\ scpu \in 0 .. NCpus /\ sitem \in BOOLEAN
    /\ \A c \in Cpus : bql = c <=> pc[c] \in {"wait", "savesync"}

(* No lost wakeup: a CPU sleeps on halt_cond only while it has nothing to  *)
(* do, so whoever gives it something (an interrupt, a stop request, work,  *)
(* the permission to run) has kicked it.  Between a wakeup request and the *)
(* reset that carries it out the run state is ahead of the CPUs; and a     *)
(* reset clears hlt of CPUs that it takes to be paused, which they are not *)
(* any more when a do_savevm on a CPU's thread has restarted the VM.       *)
NoLostWakeup ==
    \A c \in Cpus : pc[c] = "idle" =>
        cpu_thread_is_idle(c) \/ wakeup_reason \/ save = "overlapped"

(* pause_all_vcpus never waits in vain: while it sleeps on vmx_pause_cond, *)
(* some CPU has a stop request it has not answered and will signal.  Two   *)
(* others may break this: the Cocoa thread when its cpu_stop_current takes *)
(* a request of this very pause back (its signal is lost when it comes     *)
(* between the test and the wait), and a do_savevm on a CPU that restarts  *)
(* the VM during the pause.                                                *)
PauseIsAnswered ==
    mpc = "pwait" /\ ~raced /\ save # "overlapped" =>
        \E c \in Cpus : stop[c] /\ pc[c] # "idle"

(* The main loop works on a CPU's copy of the registers (x86_cpu_reset,    *)
(* the snapshot's CPU section) only while they are up to date and no guest *)
(* code can change them; unless a do_savevm on a CPU's thread has ended    *)
(* since the CPUs were paused, and that CPU gone on in the guest.          *)
RegistersExclusive ==
    save # "overlapped" =>
    \A c \in Cpus :
        /\ mpc \in {"sync", "syncwait"} /\ c < mcpu =>
               dirty[c] /\ pc[c] \notin {"enter", "guest"}
        /\ mpc \in {"post", "postwait"} => pc[c] \notin {"enter", "guest"}

(* A processor that has been reset runs guest code only after its SIPI,    *)
(* although veertu_cpu_exec tests halted without the mutex; with the same  *)
(* exception.                                                              *)
ApRunsOnlyAfterSipi ==
    save # "overlapped" => \A c \in Cpus \ {Bsp} : pc[c] = "guest" => ~halted[c]

(* Once all CPUs are paused none starts a new veertu_cpu_exec until the    *)
(* main loop resumes them, or the vm_start of a do_savevm on a CPU does.   *)
NoExecWhilePaused ==
    [][\A c \in Cpus : MainHasPaused /\ pc[c] = "wait" /\ save # "overlapped"
                          => pc'[c] # "enter"]_vars

(* Every operation of the main loop comes to its end: the pause, each      *)
(* run_on_cpu and the resumption, whatever the CPUs do meanwhile; with the *)
(* exceptions of PauseIsAnswered.                                          *)
MainReturns == mpc # "poll" ~> mpc = "poll" \/ Ended \/ raced \/ save = "overlapped"

(* What the comment in vm_stop asks for ("should not return to device code *)
(* in case vm_stop() has been requested") and savevm takes for granted     *)
(* when it writes the guest's memory without the mutex: a paused VM        *)
(* executes nothing.                                                       *)
PausedMeansQuiescent ==
    MainHasPaused => \A c \in Cpus : pc[c] \notin {"enter", "guest"}
=============================================================================
