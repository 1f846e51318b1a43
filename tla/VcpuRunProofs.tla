--------------------------- MODULE VcpuRunProofs ----------------------------
(***************************************************************************)
(* The safety of pausing, resetting, saving and resuming the virtual CPUs, *)
(* for any number of CPUs, any interrupts and any use of the menu.         *)
(***************************************************************************)
EXTENDS VcpuRun, TLAPS

-----------------------------------------------------------------------------
(* The inductive invariant *)

(* The main thread holds the mutex except where it polls, waits for a CPU  *)
(* or writes a snapshot's first part.                                      *)
MainHolds == MainPcs \ {"poll", "pwait", "pwoken", "saveram", "syncwait", "postwait"}

MutexInv == bql = Main <=> mpc \in MainHolds

(* Only a reset goes on to write the registers back, and only the start    *)
(* up's vm_start has no operation.                                         *)
OpInv ==
    /\ mpc \in {"post", "postwait"} => op \in {"reset", "wakeup"}
    /\ mpc = "vmstart" => op = "boot"
    /\ mpc \in {"syncwait", "postwait"} => mcpu < NCpus

(* At most one CPU's thread carries do_suspendVM out, and no work item is  *)
(* queued in its name but while it waits for it.                           *)
Saving == {"saveram", "savesync", "savewait"}

SaveInv ==
    /\ \A c \in Cpus : pc[c] \in Saving => save \in {"running", "stopped"}
    /\ \A c, d \in Cpus : pc[c] \in Saving /\ pc[d] \in Saving => c = d
    /\ \A c \in Cpus : pc[c] = "savewait" => scpu < NCpus
    /\ sitem => \E c \in Cpus : pc[c] = "savewait"

(* What holds whatever a do_savevm on a CPU's thread does. *)
Basic == TypeOK /\ MutexInv /\ OpInv /\ SaveInv

(* While pause_all_vcpus waits, a CPU that has not stopped is asked to,    *)
(* unless the Cocoa thread has taken a request back ...                    *)
AskedInv == MainPauses /\ ~raced => \A c \in Cpus : ~stopped[c] => stop[c]

(* ... and none that it has just kicked can have gone to sleep again. *)
AwakeInv == mpc \in {"ptest", "pgap"} => \A c \in Cpus : pc[c] # "idle"

(* From the test on, some CPU is awake that has a request to answer. *)
AnswerInv ==
    mpc \in {"pgap", "pwait"} /\ ~raced => \E c \in Cpus : stop[c] /\ pc[c] # "idle"

(* When it has returned no CPU may run. *)
PausedInv == MainHasPaused => \A c \in Cpus : cpu_is_stopped(c)

(* Work is queued only for the CPU that the main thread waits for. *)
WorkInv ==
    \A c \in Cpus : work[c] # "none" =>
        /\ c = mcpu
        /\ \/ mpc = "syncwait" /\ work[c] = "sync"
           \/ mpc = "postwait" /\ work[c] = "reset"

(* The registers that are newer than the VMCS are those of a CPU outside   *)
(* the guest; the CPU whose synchronisation is done has such registers.    *)
DirtyInv ==
    /\ \A c \in Cpus : dirty[c] => pc[c] \notin {"enter", "guest"}
    /\ mpc = "syncwait" /\ work[mcpu] = "none" => dirty[mcpu]

(* What holds as long as such a do_savevm has not ended in the middle of   *)
(* an operation of the main loop.                                          *)
Core ==
    /\ Basic /\ save # "overlapped"
    /\ AskedInv /\ AwakeInv /\ AnswerInv /\ PausedInv /\ WorkInv /\ DirtyInv
    /\ NoLostWakeup /\ RegistersExclusive /\ ApRunsOnlyAfterSipi

IInv == Basic /\ (save # "overlapped" => Core)

-----------------------------------------------------------------------------
(* Operators *)

(* A kick leaves every thread where a thread can be; none that is kicked   *)
(* sleeps, and no thread that does not sleep is moved by it.               *)
LEMMA KickedType ==
    ASSUME NEW p \in [Cpus -> CpuPcs], NEW S
    PROVE  /\ Kicked(p, S) \in [Cpus -> CpuPcs]
           /\ \A c \in Cpus :
                 /\ c \in S => Kicked(p, S)[c] # "idle"
                 /\ Kicked(p, S)[c] = p[c] \/ (p[c] = "idle" /\ Kicked(p, S)[c] = "woken")
BY DEF Kicked, CpuPcs

(* What veertu_process_events leaves has the types of the CPU's fields. *)
LEMMA EventsType ==
    ASSUME TypeOK, NEW c \in Cpus
    PROVE  /\ Events(c).irq \in SUBSET Irqs
           /\ Events(c).hlt \in BOOLEAN /\ Events(c).iflag \in BOOLEAN
           /\ Events(c).halted \in BOOLEAN /\ Events(c).changed \in BOOLEAN
<1>1. irq[c] \in SUBSET Irqs /\ hlt[c] \in BOOLEAN /\ iflag[c] \in BOOLEAN /\ halted[c] \in BOOLEAN
  BY DEF TypeOK
<1>2. Events(c).irq \in SUBSET Irqs
  BY <1>1 DEF Events
<1>3. Events(c).hlt \in BOOLEAN /\ Events(c).iflag \in BOOLEAN
  BY <1>1 DEF Events
<1>4. Events(c).halted \in BOOLEAN /\ Events(c).changed \in BOOLEAN
  BY <1>1 DEF Events
<1> QED
  BY <1>2, <1>3, <1>4

-----------------------------------------------------------------------------
(* Types *)

(* The threads' names are distinct from each other's. *)
LEMMA Names == /\ Main \notin Cpus /\ Nobody \notin Cpus /\ Main # Nobody
               /\ Bsp \in Cpus /\ Cpus \subseteq Nat
BY ThreadNames, CpuCount DEF Cpus, Bsp

(* The places where a CPU's thread holds the mutex. *)
CpuHolds == {"wait", "savesync"}

(* A step of one thread that keeps the mutex, takes it or gives it up      *)
(* keeps what TypeOK says of it.                                           *)
LEMMA MutexMoves ==
    ASSUME TypeOK, NEW c \in Cpus, pc' \in [Cpus -> CpuPcs],
           \A d \in Cpus \ {c} : pc'[d] \in CpuHolds <=> pc[d] \in CpuHolds,
           \/ Acquire(c) /\ pc'[c] \in CpuHolds
           \/ Release(c) /\ pc'[c] \notin CpuHolds
           \/ UNCHANGED bql /\ (pc'[c] \in CpuHolds <=> pc[c] \in CpuHolds)
    PROVE  bql' \in Cpus \cup {Main, Nobody} /\ \A d \in Cpus : bql' = d <=> pc'[d] \in CpuHolds
<1>1. /\ bql \in Cpus \cup {Main, Nobody}
      /\ \A d \in Cpus : bql = d <=> pc[d] \in CpuHolds
  BY DEF TypeOK, CpuHolds
<1>2. CASE Acquire(c) /\ pc'[c] \in CpuHolds
  BY <1>1, <1>2, Names DEF Acquire
<1>3. CASE Release(c) /\ pc'[c] \notin CpuHolds
  BY <1>1, <1>3, Names DEF Release
<1>4. CASE UNCHANGED bql /\ (pc'[c] \in CpuHolds <=> pc[c] \in CpuHolds)
  BY <1>1, <1>4, Names
<1> QED
  BY <1>2, <1>3, <1>4

(* The same for the other threads. *)
LEMMA MainMutexMoves ==
    ASSUME TypeOK, pc' \in [Cpus -> CpuPcs],
           \A d \in Cpus : pc'[d] \in CpuHolds <=> pc[d] \in CpuHolds,
           Acquire(Main) \/ Release(Main) \/ Hold(Main) \/ UNCHANGED bql
    PROVE  bql' \in Cpus \cup {Main, Nobody} /\ \A d \in Cpus : bql' = d <=> pc'[d] \in CpuHolds
BY Names DEF TypeOK, Acquire, Release, Hold, CpuHolds

(* The fields whose types a step may disturb, apart from the mutex. *)
FieldTypes ==
    /\ pc \in [Cpus -> CpuPcs]
    /\ stop \in [Cpus -> BOOLEAN] /\ stopped \in [Cpus -> BOOLEAN]
    /\ hlt \in [Cpus -> BOOLEAN] /\ halted \in [Cpus -> BOOLEAN]
    /\ irq \in [Cpus -> SUBSET Irqs] /\ iflag \in [Cpus -> BOOLEAN]
    /\ dirty \in [Cpus -> BOOLEAN] /\ work \in [Cpus -> {"none", "sync", "reset"}]

RequestTypes ==
    /\ runstate \in {"prelaunch", "running", "suspended", "io-error", "save-vm"}
    /\ reset_requested \in BOOLEAN /\ suspend_requested \in BOOLEAN
    /\ wakeup_reason \in BOOLEAN /\ shutdown_requested \in BOOLEAN
    /\ vmstop_requested \in {"max", "io-error", "save-vm"}

MainTypes == mpc \in MainPcs /\ op \in Ops /\ mcpu \in 0 .. NCpus

SideTypes ==
    /\ cocoa \in {"idle", "stop", "stopped", "signal"} /\ raced \in BOOLEAN
    /\ save \in {"no", "main", "running", "stopped", "done", "overlapped"}
    /\ scpu \in 0 .. NCpus /\ sitem \in BOOLEAN

MutexTypes == bql \in Cpus \cup {Main, Nobody} /\ \A c \in Cpus : bql = c <=> pc[c] \in CpuHolds

(* The parts make up TypeOK, in a state and in the next one. *)
LEMMA TypeParts ==
    TypeOK <=> FieldTypes /\ RequestTypes /\ MainTypes /\ SideTypes /\ MutexTypes
BY DEF TypeOK, FieldTypes, RequestTypes, MainTypes, SideTypes, MutexTypes, CpuHolds

(* See TypeParts. *)
LEMMA TypePartsNext ==
    TypeOK' <=> FieldTypes' /\ RequestTypes' /\ MainTypes' /\ SideTypes' /\ MutexTypes'
BY TypeParts, PTL

-----------------------------------------------------------------------------
(* do_suspendVM on a CPU's thread *)

(* No item is queued in the name of a thread that is elsewhere. *)
LEMMA NoItem ==
    ASSUME SaveInv, NEW c \in Cpus, pc[c] \in {"saveram", "savesync"}
    PROVE  ~sitem
BY DEF SaveInv, Saving

(* A step that moves no thread into or out of the places of SaveInv, lets  *)
(* scpu be and queues no item.                                             *)
LEMMA SaveKept ==
    ASSUME SaveInv, scpu' = scpu, sitem' => sitem, save' = save \/ save = "no",
           \A d \in Cpus : pc'[d] = pc[d] \/ (pc[d] \notin Saving /\ pc'[d] \notin Saving)
    PROVE  SaveInv'
<1>1. \A d \in Cpus : /\ pc'[d] \in Saving <=> pc[d] \in Saving
                      /\ pc'[d] = "savewait" <=> pc[d] = "savewait"
  BY DEF Saving
<1>2. \A d \in Cpus : pc'[d] \in Saving => save' \in {"running", "stopped"}
  BY <1>1 DEF SaveInv
<1>3. sitem' => \E d \in Cpus : pc'[d] = "savewait"
  BY <1>1 DEF SaveInv
<1>4. \A d \in Cpus : pc'[d] = "savewait" => scpu' < NCpus
  BY <1>1 DEF SaveInv
<1>5. \A d, e \in Cpus : pc'[d] \in Saving /\ pc'[e] \in Saving => d = e
  BY <1>1 DEF SaveInv
<1> QED
  BY <1>2, <1>3, <1>4, <1>5 DEF SaveInv

(* The thread that begins it, or has begun it, is the only one. *)
LEMMA SaveMoves ==
    ASSUME SaveInv, NEW c \in Cpus, pc[c] \in Saving \/ save = "no",
           \A d \in Cpus \ {c} :
              pc'[d] = pc[d] \/ (pc[d] \notin Saving /\ pc'[d] \notin Saving),
           pc'[c] \in Saving => save' \in {"running", "stopped"},
           pc'[c] = "savewait" => scpu' < NCpus,
           sitem' => pc'[c] = "savewait"
    PROVE  SaveInv'
<1>1. \A d \in Cpus \ {c} : pc[d] \notin Saving
  BY DEF SaveInv
<1>2. \A d \in Cpus \ {c} : pc'[d] \notin Saving
  BY <1>1
<1>3. \A d \in Cpus \ {c} : pc'[d] # "savewait"
  BY <1>2 DEF Saving
<1> QED
  BY <1>2, <1>3 DEF SaveInv

-----------------------------------------------------------------------------
(* A CPU's steps keep the types *)

(* A CPU's own steps keep the types of the CPUs' fields. *)
LEMMA CpuFields ==
    ASSUME Basic, NEW c \in Cpus, Cpu(c)
    PROVE  FieldTypes'
<1>0. FieldTypes
  BY TypeParts DEF Basic
<1>1. CASE \/ YieldReturn(c) \/ EnterHalted(c) \/ EnterRun(c) \/ ExitInterrupt(c)
           \/ WaitSleep(c) \/ Woken(c) \/ CpuSaveRamDone(c) \/ CpuSyncDone(c)
  BY <1>0, <1>1
  DEF YieldReturn, EnterHalted, EnterRun, ExitInterrupt, WaitSleep, Woken, CpuSaveRamDone,
      CpuSyncDone, FieldTypes, CpuPcs
<1>2. CASE ExitHlt(c)
  <2>1. hlt' \in [Cpus -> BOOLEAN] /\ iflag' \in [Cpus -> BOOLEAN]
    BY <1>0, <1>2 DEF ExitHlt, FieldTypes
  <2>2. pc' \in [Cpus -> CpuPcs]
    BY <1>0, <1>2 DEF ExitHlt, FieldTypes, CpuPcs
  <2> QED
    BY <1>0, <1>2, <2>1, <2>2 DEF ExitHlt, FieldTypes
<1>3. ASSUME ExitIo(c)
      PROVE  dirty' \in [Cpus -> BOOLEAN] /\ irq' \in [Cpus -> SUBSET Irqs]
             /\ pc' \in [Cpus -> CpuPcs]
  BY <1>0, <1>3 DEF ExitIo, EnterGuest, WriteBackAndInject, FieldTypes, CpuPcs
<1>4. ASSUME StopCurrent(c)
      PROVE  stop' \in [Cpus -> BOOLEAN] /\ stopped' \in [Cpus -> BOOLEAN]
  BY <1>0, <1>4 DEF StopCurrent, FieldTypes
<1>5. CASE ExitIoPlain(c) \/ ExitIoError(c)
  BY <1>0, <1>3, <1>5 DEF ExitIoPlain, ExitIoError, FieldTypes
<1>6. CASE ExitIoReset(c) \/ ExitIoSuspend(c) \/ CpuSavevmFails(c)
  BY <1>0, <1>3, <1>4, <1>6 DEF ExitIoReset, ExitIoSuspend, CpuSavevmFails, FieldTypes
<1>7. CASE ExitTripleFault(c) \/ CpuSavevm(c)
  <2>1. pc' \in [Cpus -> CpuPcs]
    BY <1>0, <1>7 DEF ExitTripleFault, CpuSavevm, FieldTypes, CpuPcs
  <2> QED
    BY <1>0, <1>4, <1>7, <2>1 DEF ExitTripleFault, CpuSavevm, FieldTypes
<1>8. CASE CpuIrq(c)
  <2>1. PICK d \in Cpus, kind \in Irqs : ExitIoInterrupt(c, d, kind)
    BY <1>8 DEF CpuIrq
  <2>2. irq' \in [Cpus -> SUBSET Irqs]
    BY <1>0, <2>1 DEF ExitIoInterrupt, veertu_interrupt_handle, FieldTypes
  <2>3. [pc EXCEPT ![c] = "enter"] \in [Cpus -> CpuPcs]
    BY <1>0 DEF FieldTypes, CpuPcs
  <2>4. pc' \in [Cpus -> CpuPcs]
    BY <2>1, <2>3, KickedType DEF ExitIoInterrupt, veertu_interrupt_handle
  <2> QED
    BY <1>0, <2>1, <2>2, <2>4 DEF ExitIoInterrupt, FieldTypes
<1>9. DirtyAfterWork(c) \subseteq BOOLEAN
  BY <1>0 DEF DirtyAfterWork, FieldTypes
<1>10. CASE WaitAgain(c)
  <2>1. stop' \in [Cpus -> BOOLEAN] /\ stopped' \in [Cpus -> BOOLEAN]
    BY <1>0, <1>10 DEF WaitAgain, AnswerStop, FieldTypes
  <2>2. work' \in [Cpus -> {"none", "sync", "reset"}]
    BY <1>0, <1>10 DEF WaitAgain, flush_queued_work, FieldTypes
  <2>3. dirty' \in [Cpus -> BOOLEAN]
    BY <1>0, <1>9, <1>10 DEF WaitAgain, FieldTypes
  <2> QED
    BY <1>0, <1>10, <2>1, <2>2, <2>3 DEF WaitAgain, FieldTypes
<1>11. CASE Exec(c)
  <2>1. /\ Events(c).irq \in SUBSET Irqs
        /\ Events(c).hlt \in BOOLEAN /\ Events(c).iflag \in BOOLEAN
        /\ Events(c).halted \in BOOLEAN /\ Events(c).changed \in BOOLEAN
    BY EventsType DEF Basic
  <2>2. /\ hlt' \in [Cpus -> BOOLEAN] /\ halted' \in [Cpus -> BOOLEAN]
        /\ iflag' \in [Cpus -> BOOLEAN] /\ work' \in [Cpus -> {"none", "sync", "reset"}]
    BY <1>0, <1>11, <2>1 DEF Exec, flush_queued_work, FieldTypes
  <2>3. irq' \in [Cpus -> SUBSET Irqs] /\ pc' \in [Cpus -> CpuPcs]
    BY <1>0, <1>11, <2>1 DEF Exec, EnterGuest, WriteBackAndInject, FieldTypes, CpuPcs
  <2>4. dirty' \in [Cpus -> BOOLEAN]
    BY <1>0, <1>9, <1>11, <2>1 DEF Exec, EnterGuest, WriteBackAndInject, FieldTypes
  <2> QED
    BY <1>0, <1>11, <2>2, <2>3, <2>4 DEF Exec, FieldTypes
<1>12. CASE CpuSyncState(c)
  BY <1>0, <1>12 DEF CpuSyncState, FieldTypes
<1>13. CASE CpuSyncQueued(c)
  <2>1. [pc EXCEPT ![c] = "savewait"] \in [Cpus -> CpuPcs]
    BY <1>0 DEF FieldTypes, CpuPcs
  <2>2. pc' \in [Cpus -> CpuPcs]
    BY <1>13, <2>1, KickedType DEF CpuSyncQueued
  <2> QED
    BY <1>0, <1>13, <2>2 DEF CpuSyncQueued, FieldTypes
<1>14. CASE CpuSaveDone(c)
  <2>1. [pc EXCEPT ![c] = "enter"] \in [Cpus -> CpuPcs]
    BY <1>0 DEF FieldTypes, CpuPcs
  <2>2. pc' \in [Cpus -> CpuPcs]
    BY <1>14, <2>1, KickedType DEF CpuSaveDone
  <2>3. stop' \in [Cpus -> BOOLEAN] /\ stopped' \in [Cpus -> BOOLEAN]
    BY <1>0, <1>14 DEF CpuSaveDone, FieldTypes
  <2>4. dirty' \in [Cpus -> BOOLEAN] /\ irq' \in [Cpus -> SUBSET Irqs]
    BY <1>0, <1>14 DEF CpuSaveDone, WriteBackAndInject, FieldTypes
  <2> QED
    BY <1>0, <1>14, <2>2, <2>3, <2>4 DEF CpuSaveDone, FieldTypes
<1> QED
  BY <1>1, <1>2, <1>5, <1>6, <1>7, <1>8, <1>10, <1>11, <1>12, <1>13, <1>14 DEF Cpu

(* A CPU moves the main thread only by waking it in pause_all_vcpus, and   *)
(* asks it for things; only the end of a snapshot changes the run state.   *)
LEMMA CpuGlobals ==
    ASSUME Basic, NEW c \in Cpus, Cpu(c)
    PROVE  /\ RequestTypes' /\ MainTypes' /\ op' = op /\ mcpu' = mcpu
           /\ wakeup_reason' = wakeup_reason /\ raced' = raced /\ cocoa' = cocoa
           /\ runstate' = runstate \/ CpuSaveDone(c)
           /\ mpc' = mpc \/ (mpc = "pwait" /\ mpc' = "pwoken")
<1>1. /\ op' = op /\ mcpu' = mcpu /\ wakeup_reason' = wakeup_reason /\ UNCHANGED cocoavars
      /\ runstate' = runstate \/ (CpuSaveDone(c) /\ runstate' = "running")
      /\ reset_requested' \in {reset_requested, TRUE}
      /\ suspend_requested' \in {suspend_requested, TRUE}
      /\ shutdown_requested' \in {shutdown_requested, TRUE}
      /\ vmstop_requested' \in {vmstop_requested, "max", "io-error", "save-vm"}
  <2>1. CASE \/ YieldReturn(c) \/ EnterHalted(c) \/ EnterRun(c) \/ ExitInterrupt(c)
             \/ WaitSleep(c) \/ Woken(c) \/ ExitHlt(c) \/ ExitIoPlain(c) \/ CpuIrq(c)
    BY <2>1
    DEF YieldReturn, EnterHalted, EnterRun, ExitInterrupt, WaitSleep, Woken, ExitHlt,
        ExitIoPlain, CpuIrq, ExitIoInterrupt, reqvars, mainvars, sidevars
  <2>2. CASE ExitTripleFault(c) \/ ExitIoReset(c)
    BY <2>2 DEF ExitTripleFault, ExitIoReset, sidevars
  <2>3. CASE ExitIoSuspend(c) \/ ExitIoError(c)
    BY <2>3 DEF ExitIoSuspend, ExitIoError, mainvars, sidevars
  <2>4. CASE WaitAgain(c) \/ Exec(c) \/ CpuSaveRamDone(c) \/ CpuSyncState(c)
             \/ CpuSyncQueued(c) \/ CpuSyncDone(c)
    BY <2>4
    DEF WaitAgain, Exec, CpuSaveRamDone, CpuSyncState, CpuSyncQueued, CpuSyncDone, reqvars, mainvars
  <2>5. CASE CpuSavevmFails(c) \/ CpuSavevm(c)
    BY <2>5 DEF CpuSavevmFails, CpuSavevm
  <2>6. CASE CpuSaveDone(c)
    BY <2>6 DEF CpuSaveDone, mainvars
  <2> QED
    BY <2>1, <2>2, <2>3, <2>4, <2>5, <2>6 DEF Cpu
<1>2. mpc' = mpc \/ (mpc = "pwait" /\ mpc' = "pwoken")
  <2>1. CASE \/ YieldReturn(c) \/ EnterHalted(c) \/ EnterRun(c) \/ ExitInterrupt(c)
             \/ WaitSleep(c) \/ Woken(c) \/ ExitHlt(c) \/ ExitIoPlain(c) \/ CpuIrq(c)
             \/ Exec(c) \/ ExitIoError(c) \/ CpuSaveRamDone(c) \/ CpuSyncState(c)
             \/ CpuSyncQueued(c) \/ CpuSyncDone(c) \/ CpuSaveDone(c)
    BY <2>1
    DEF YieldReturn, EnterHalted, EnterRun, ExitInterrupt, WaitSleep, Woken, ExitHlt,
        ExitIoPlain, CpuIrq, ExitIoInterrupt, Exec, ExitIoError, CpuSaveRamDone, CpuSyncState,
        CpuSyncQueued, CpuSyncDone, CpuSaveDone, mainvars
  <2>2. CASE \/ ExitTripleFault(c) \/ ExitIoReset(c) \/ ExitIoSuspend(c)
             \/ CpuSavevmFails(c) \/ CpuSavevm(c)
    BY <2>2 DEF ExitTripleFault, ExitIoReset, ExitIoSuspend, CpuSavevmFails, CpuSavevm,
                StopCurrent, SignalPause
  <2>3. CASE WaitAgain(c)
    BY <2>3 DEF WaitAgain, AnswerStop, SignalPause
  <2> QED
    BY <2>1, <2>2, <2>3 DEF Cpu
<1>3. RequestTypes /\ MainTypes
  BY TypeParts DEF Basic
<1>4. RequestTypes'
  BY <1>1, <1>3 DEF RequestTypes
<1>5. MainTypes'
  BY <1>1, <1>2, <1>3 DEF MainTypes, MainPcs
<1> QED
  BY <1>1, <1>2, <1>4, <1>5 DEF cocoavars

(* A CPU's step does to another CPU what an interrupt does, if anything:   *)
(* one that sleeps is woken.                                               *)
LEMMA CpuOthers ==
    ASSUME Basic, NEW c \in Cpus, Cpu(c), NEW d \in Cpus \ {c}
    PROVE  /\ pc'[d] = pc[d] \/ (pc[d] = "idle" /\ pc'[d] = "woken")
           /\ irq'[d] = irq[d] \/ pc'[d] # "idle"
           /\ hlt'[d] = hlt[d] /\ halted'[d] = halted[d] /\ iflag'[d] = iflag[d]
           /\ dirty'[d] = dirty[d] /\ work'[d] = work[d]
           /\ (stop'[d] = stop[d] /\ stopped'[d] = stopped[d]) \/ CpuSaveDone(c)
<1>0. FieldTypes
  BY TypeParts DEF Basic
<1>1. CASE CpuIrq(c)
  BY <1>0, <1>1 DEF CpuIrq, ExitIoInterrupt, veertu_interrupt_handle, Kicked, FieldTypes
<1>2. CASE \/ YieldReturn(c) \/ EnterHalted(c) \/ EnterRun(c) \/ ExitInterrupt(c)
           \/ WaitSleep(c) \/ Woken(c) \/ CpuSaveRamDone(c) \/ CpuSyncDone(c)
  BY <1>0, <1>2
  DEF YieldReturn, EnterHalted, EnterRun, ExitInterrupt, WaitSleep, Woken, CpuSaveRamDone,
      CpuSyncDone, FieldTypes
<1>3. CASE ExitHlt(c) \/ ExitTripleFault(c) \/ CpuSavevm(c)
  BY <1>0, <1>3 DEF ExitHlt, ExitTripleFault, CpuSavevm, StopCurrent, FieldTypes
<1>4. CASE \/ ExitIoPlain(c) \/ ExitIoReset(c) \/ ExitIoSuspend(c) \/ ExitIoError(c)
           \/ CpuSavevmFails(c)
  BY <1>0, <1>4
  DEF ExitIoPlain, ExitIoReset, ExitIoSuspend, ExitIoError, CpuSavevmFails, ExitIo, EnterGuest,
      WriteBackAndInject, StopCurrent, FieldTypes
<1>5. CASE WaitAgain(c)
  BY <1>0, <1>5 DEF WaitAgain, AnswerStop, flush_queued_work, FieldTypes
<1>6. CASE Exec(c)
  BY <1>0, <1>6 DEF Exec, EnterGuest, WriteBackAndInject, flush_queued_work, FieldTypes
<1>7. CASE CpuSyncState(c)
  BY <1>0, <1>7 DEF CpuSyncState, FieldTypes
<1>8. CASE CpuSyncQueued(c)
  BY <1>0, <1>8 DEF CpuSyncQueued, Kicked, FieldTypes
<1>9. CASE CpuSaveDone(c)
  BY <1>0, <1>9 DEF CpuSaveDone, WriteBackAndInject, Kicked, FieldTypes
<1> QED
  BY <1>1, <1>2, <1>3, <1>4, <1>5, <1>6, <1>7, <1>8, <1>9 DEF Cpu

(* A CPU takes the mutex when it is free and gives up only its own. *)
LEMMA CpuMutex ==
    ASSUME Basic, NEW c \in Cpus, Cpu(c)
    PROVE  MutexTypes' /\ MutexInv'
<1>0. TypeOK /\ FieldTypes /\ MutexTypes
  BY TypeParts DEF Basic
<1>1. \/ Acquire(c) /\ pc'[c] \in CpuHolds
      \/ Release(c) /\ pc'[c] \notin CpuHolds
      \/ UNCHANGED bql /\ (pc'[c] \in CpuHolds <=> pc[c] \in CpuHolds)
  <2>1. CASE \/ YieldReturn(c) \/ EnterHalted(c) \/ ExitInterrupt(c) \/ Woken(c)
             \/ CpuSaveRamDone(c) \/ CpuSyncDone(c)
    BY <1>0, <2>1 DEF YieldReturn, EnterHalted, ExitInterrupt, Woken, CpuSaveRamDone,
                      CpuSyncDone, FieldTypes, CpuHolds
  <2>2. CASE ExitHlt(c) \/ ExitTripleFault(c)
    BY <1>0, <2>2 DEF ExitHlt, ExitTripleFault, FieldTypes, CpuHolds
  <2>3. CASE EnterRun(c) \/ CpuSavevm(c)
    BY <1>0, <2>3 DEF EnterRun, CpuSavevm, FieldTypes, CpuHolds
  <2>4. CASE \/ ExitIoPlain(c) \/ ExitIoError(c) \/ ExitIoReset(c) \/ ExitIoSuspend(c)
             \/ CpuSavevmFails(c)
    <3>1. ExitIo(c)
      BY <2>4 DEF ExitIoPlain, ExitIoError, ExitIoReset, ExitIoSuspend, CpuSavevmFails
    <3> QED
      BY <1>0, <3>1 DEF ExitIo, EnterGuest, FieldTypes, CpuHolds
  <2>5. CASE CpuIrq(c)
    <3>1. PICK d \in Cpus, kind \in Irqs : ExitIoInterrupt(c, d, kind)
      BY <2>5 DEF CpuIrq
    <3>2. [pc EXCEPT ![c] = "enter"] \in [Cpus -> CpuPcs] /\ [pc EXCEPT ![c] = "enter"][c] = "enter"
      BY <1>0 DEF FieldTypes, CpuPcs
    <3>3. pc'[c] = "enter"
      BY <3>1, <3>2 DEF ExitIoInterrupt, veertu_interrupt_handle, Kicked
    <3> QED
      BY <3>1, <3>3 DEF ExitIoInterrupt, CpuHolds
  <2>6. CASE WaitAgain(c) \/ CpuSyncState(c)
    BY <2>6 DEF WaitAgain, CpuSyncState, Hold
  <2>7. CASE WaitSleep(c)
    BY <1>0, <2>7 DEF WaitSleep, FieldTypes, CpuHolds
  <2>8. CASE Exec(c)
    BY <1>0, <2>8 DEF Exec, EnterGuest, FieldTypes, CpuHolds
  <2>9. CASE CpuSyncQueued(c)
    BY <1>0, <2>9 DEF CpuSyncQueued, Kicked, FieldTypes, CpuHolds
  <2>10. CASE CpuSaveDone(c)
    BY <1>0, <2>10 DEF CpuSaveDone, Kicked, FieldTypes, CpuHolds
  <2> QED
    BY <2>1, <2>2, <2>3, <2>4, <2>5, <2>6, <2>7, <2>8, <2>9, <2>10 DEF Cpu
<1>3. pc' \in [Cpus -> CpuPcs]
  BY CpuFields DEF FieldTypes
<1>4. \A d \in Cpus \ {c} : pc'[d] \in CpuHolds <=> pc[d] \in CpuHolds
  BY CpuOthers DEF CpuHolds
<1>5. MutexTypes'
  BY <1>0, <1>1, <1>3, <1>4, MutexMoves DEF MutexTypes
<1>6. bql' = Main <=> bql = Main
  BY <1>0, <1>1, Names DEF Acquire, Release, MutexTypes
<1>7. mpc' \in MainHolds <=> mpc \in MainHolds
  BY CpuGlobals DEF MainHolds
<1> QED
  BY <1>5, <1>6, <1>7 DEF Basic, MutexInv

(* A CPU's steps keep what is known of do_suspendVM on a CPU's thread. *)
LEMMA CpuSaves ==
    ASSUME Basic, NEW c \in Cpus, Cpu(c)
    PROVE  SideTypes' /\ SaveInv'
<1>0. FieldTypes /\ SideTypes /\ SaveInv
  BY TypeParts DEF Basic
<1>1. \A d \in Cpus \ {c} : pc'[d] = pc[d] \/ (pc[d] \notin Saving /\ pc'[d] \notin Saving)
  BY CpuOthers DEF Saving
<1>2. raced' \in BOOLEAN /\ cocoa' \in {"idle", "stop", "stopped", "signal"}
  BY <1>0, CpuGlobals DEF SideTypes
<1>3. ASSUME scpu' = scpu, sitem' \in BOOLEAN, sitem' => sitem,
             save' = save \/ (save = "no" /\ save' = "done"),
             pc'[c] = pc[c] \/ (pc[c] \notin Saving /\ pc'[c] \notin Saving)
      PROVE  SideTypes' /\ SaveInv'
  <2>1. \A d \in Cpus : pc'[d] = pc[d] \/ (pc[d] \notin Saving /\ pc'[d] \notin Saving)
    BY <1>1, <1>3
  <2>2. save' = save \/ save = "no"
    BY <1>3
  <2>3. SaveInv'
    BY <1>0, <1>3, <2>1, <2>2, SaveKept
  <2> QED
    BY <1>0, <1>2, <1>3, <2>3 DEF SideTypes
<1>4. CASE \/ YieldReturn(c) \/ EnterHalted(c) \/ EnterRun(c) \/ ExitInterrupt(c)
           \/ WaitSleep(c) \/ Woken(c) \/ ExitHlt(c) \/ ExitTripleFault(c)
  <2>1. /\ UNCHANGED savevars
        /\ pc[c] \notin Saving /\ pc'[c] \notin Saving
    BY <1>0, <1>4
    DEF YieldReturn, EnterHalted, EnterRun, ExitInterrupt, WaitSleep, Woken, ExitHlt,
        ExitTripleFault, sidevars, FieldTypes, Saving
  <2> QED
    BY <1>0, <1>3, <2>1 DEF savevars, SideTypes
<1>5. CASE ExitIoPlain(c) \/ ExitIoReset(c) \/ ExitIoSuspend(c) \/ ExitIoError(c)
  <2>1. UNCHANGED savevars /\ ExitIo(c)
    BY <1>5 DEF ExitIoPlain, ExitIoReset, ExitIoSuspend, ExitIoError, sidevars
  <2>2. pc[c] \notin Saving /\ pc'[c] \notin Saving
    BY <1>0, <2>1 DEF ExitIo, EnterGuest, FieldTypes, Saving
  <2> QED
    BY <1>0, <1>3, <2>1, <2>2 DEF savevars, SideTypes
<1>6. CASE CpuIrq(c)
  <2>1. UNCHANGED savevars /\ pc[c] \notin Saving /\ pc'[c] \notin Saving
    BY <1>0, <1>6
    DEF CpuIrq, ExitIoInterrupt, veertu_interrupt_handle, Kicked, sidevars, FieldTypes, Saving
  <2> QED
    BY <1>0, <1>3, <2>1 DEF savevars, SideTypes
<1>7. CASE WaitAgain(c) \/ Exec(c)
  <2>1. scpu' = scpu /\ save' = save /\ pc[c] \notin Saving /\ pc'[c] \notin Saving
    BY <1>0, <1>7 DEF WaitAgain, Exec, EnterGuest, FieldTypes, Saving
  <2>2. sitem' \in BOOLEAN /\ (sitem' => sitem)
    BY <1>7 DEF WaitAgain, Exec, flush_queued_work
  <2> QED
    BY <1>3, <2>1, <2>2
<1>8. CASE CpuSavevmFails(c)
  <2>1. /\ scpu' = scpu /\ sitem' = sitem /\ save = "no" /\ save' = "done" /\ ExitIo(c)
    BY <1>8 DEF CpuSavevmFails
  <2>2. pc[c] \notin Saving /\ pc'[c] \notin Saving
    BY <1>0, <2>1 DEF ExitIo, EnterGuest, FieldTypes, Saving
  <2> QED
    BY <1>0, <1>3, <2>1, <2>2 DEF SideTypes
<1>9. CASE CpuSavevm(c)
  <2>1. /\ save = "no" /\ save' \in {"running", "stopped"} /\ pc'[c] = "saveram"
        /\ scpu' = scpu /\ sitem' = sitem
    BY <1>0, <1>9 DEF CpuSavevm, FieldTypes
  <2>2. ~sitem
    BY <1>0, <2>1 DEF SaveInv, Saving
  <2>3. SaveInv'
    BY <1>0, <1>1, <2>1, <2>2, SaveMoves DEF Saving
  <2> QED
    BY <1>0, <1>2, <2>1, <2>3 DEF SideTypes
<1>10. CASE CpuSaveRamDone(c) \/ CpuSyncState(c)
  <2>1. /\ save' = save /\ pc[c] \in {"saveram", "savesync"} /\ pc'[c] = "savesync"
        /\ sitem' = sitem /\ scpu' \in 0 .. NCpus
    BY <1>0, <1>10, CpuCount DEF CpuSaveRamDone, CpuSyncState, FieldTypes, SideTypes
  <2>2. ~sitem /\ save \in {"running", "stopped"}
    BY <1>0, <2>1, NoItem DEF SaveInv, Saving
  <2>3. SaveInv'
    BY <1>0, <1>1, <2>1, <2>2, SaveMoves DEF Saving
  <2> QED
    BY <1>0, <1>2, <2>1, <2>3 DEF SideTypes
<1>11. CASE CpuSyncQueued(c)
  <2>1. /\ save' = save /\ pc[c] = "savesync" /\ pc'[c] = "savewait"
        /\ scpu' = scpu /\ scpu < NCpus /\ sitem' = TRUE
    BY <1>0, <1>11 DEF CpuSyncQueued, Kicked, FieldTypes
  <2>2. save \in {"running", "stopped"}
    BY <1>0, <2>1 DEF SaveInv, Saving
  <2>3. SaveInv'
    BY <1>0, <1>1, <2>1, <2>2, SaveMoves DEF Saving
  <2> QED
    BY <1>0, <1>2, <2>1, <2>3 DEF SideTypes
<1>12. CASE CpuSyncDone(c)
  <2>1. /\ save' = save /\ pc[c] = "savewait" /\ pc'[c] = "savesync" /\ ~sitem /\ sitem' = sitem
        /\ scpu' = scpu + 1
    BY <1>0, <1>12 DEF CpuSyncDone, FieldTypes
  <2>2. save \in {"running", "stopped"} /\ scpu < NCpus
    BY <1>0, <2>1 DEF SaveInv, Saving
  <2>3. SaveInv'
    BY <1>0, <1>1, <2>1, <2>2, SaveMoves DEF Saving
  <2>4. scpu' \in 0 .. NCpus
    BY <1>0, <2>1, <2>2, CpuCount DEF SideTypes
  <2> QED
    BY <1>0, <1>2, <2>1, <2>3, <2>4 DEF SideTypes
<1>13. CASE CpuSaveDone(c)
  <2>1. /\ save' \in {"done", "overlapped"} /\ pc[c] = "savesync" /\ pc'[c] = "enter"
        /\ sitem' = sitem /\ scpu' = 0
    BY <1>0, <1>13 DEF CpuSaveDone, Kicked, FieldTypes
  <2>2. ~sitem
    BY <1>0, <2>1, NoItem
  <2>3. SaveInv'
    BY <1>0, <1>1, <2>1, <2>2, SaveMoves DEF Saving
  <2> QED
    BY <1>0, <1>2, <2>1, <2>3, CpuCount DEF SideTypes
<1> QED
  BY <1>4, <1>5, <1>6, <1>7, <1>8, <1>9, <1>10, <1>11, <1>12, <1>13 DEF Cpu

(* A CPU's steps preserve the first part of the invariant. *)
LEMMA CpuBasic ==
    ASSUME Basic, NEW c \in Cpus, Cpu(c)
    PROVE  Basic'
<1>1. TypeOK'
  BY CpuFields, CpuGlobals, CpuMutex, CpuSaves, TypePartsNext
<1>2. OpInv'
  BY CpuGlobals DEF Basic, OpInv
<1> QED
  BY <1>1, <1>2, CpuMutex, CpuSaves DEF Basic

-----------------------------------------------------------------------------
(* The other threads' steps keep the types *)

(* The main thread moves a CPU's thread only by waking it, and do_suspendVM *)
(* only by beginning it itself.                                            *)
LEMMA MainMoves ==
    ASSUME MainWakes \/ MainStep
    PROVE  /\ pc' = pc \/ \E S : pc' = Kicked(pc, S)
           /\ scpu' = scpu /\ sitem' = sitem /\ cocoa' = cocoa
           /\ save' = save \/ (save = "no" /\ save' = "main")
           /\ raced' = raced \/ PauseTest
           /\ Acquire(Main) \/ Release(Main) \/ Hold(Main)
<1>1. CASE MainWakes \/ MainWakeupRequest \/ MainNothing \/ MainExits
  BY <1>1 DEF MainWakes, MainWakeupRequest, MainNothing, MainExits, cpuvars, sidevars,
              cocoavars, savevars
<1>2. CASE MainResetRequest \/ MainSavevmFails \/ MainSavevm \/ MainSavevmStopped
  BY <1>2 DEF MainResetRequest, MainSavevmFails, MainSavevm, MainSavevmStopped, cpuvars,
              sidevars, cocoavars, savevars
<1>3. CASE MainStage
  BY <1>3 DEF MainStage, StageSkip, StageTake, Leave, cpuvars, sidevars, cocoavars, savevars
<1>4. CASE PausedSuspend \/ PausedSuspendAborts \/ PausedVmstop \/ PausedSavevm
           \/ PausedSavevmFails \/ PausedReset
  BY <1>4 DEF PausedSuspend, PausedSuspendAborts, PausedVmstop, PausedSavevm,
              PausedSavevmFails, PausedReset, cpuvars, sidevars, cocoavars, savevars
<1>5. CASE \/ SaveRamDone \/ SaveDone \/ DevicesReset
           \/ WorkDone("syncwait", "sync") \/ WorkDone("postwait", "post")
  BY <1>5 DEF SaveRamDone, SaveDone, WorkDone, DevicesReset, cpuvars, sidevars, cocoavars, savevars
<1>6. CASE MainInterrupt
  BY <1>6 DEF MainInterrupt, veertu_interrupt_handle, sidevars, cocoavars, savevars
<1>7. CASE PauseAsk \/ PauseTest \/ PauseSleep \/ PauseRecheck
  BY <1>7 DEF PauseAsk, AskAllToStop, PauseTest, PauseSleep, PauseRecheck, cpuvars, sidevars,
              cocoavars, savevars
<1>8. CASE ResetDone \/ VmStart
  BY <1>8 DEF ResetDone, VmStart, ResumeAll, Leave, sidevars, cocoavars, savevars
<1>9. CASE SyncCpu \/ PostResetCpu
  BY <1>9 DEF SyncCpu, PostResetCpu, run_on_cpu, sidevars, cocoavars, savevars
<1> QED
  BY <1>1, <1>2, <1>3, <1>4, <1>5, <1>6, <1>7, <1>8, <1>9 DEF MainStep

(* What that does to the threads' places. *)
LEMMA MainKicks ==
    ASSUME Basic, MainWakes \/ MainStep
    PROVE  /\ pc' \in [Cpus -> CpuPcs]
           /\ \A c \in Cpus : pc'[c] = pc[c] \/ (pc[c] = "idle" /\ pc'[c] = "woken")
<1>1. pc \in [Cpus -> CpuPcs]
  BY DEF Basic, TypeOK
<1>2. CASE pc' = pc
  BY <1>1, <1>2
<1>3. CASE \E S : pc' = Kicked(pc, S)
  BY <1>1, <1>3, KickedType
<1> QED
  BY <1>2, <1>3, MainMoves

(* The mutex, the snapshot and the Cocoa thread's state. *)
LEMMA MainSides ==
    ASSUME Basic, MainWakes \/ MainStep
    PROVE  MutexTypes' /\ SideTypes' /\ SaveInv'
<1>0. TypeOK /\ SideTypes /\ SaveInv
  BY TypeParts DEF Basic
<1>1. MutexTypes'
  <2>1. \A c \in Cpus : pc'[c] \in CpuHolds <=> pc[c] \in CpuHolds
    BY MainKicks DEF CpuHolds
  <2> QED
    BY <1>0, <2>1, MainKicks, MainMoves, MainMutexMoves DEF MutexTypes
<1>2. SaveInv'
  <2>1. \A c \in Cpus : pc'[c] = pc[c] \/ (pc[c] \notin Saving /\ pc'[c] \notin Saving)
    BY MainKicks DEF Saving
  <2> QED
    BY <1>0, <2>1, MainMoves, SaveKept
<1>3. raced' \in BOOLEAN
  BY <1>0, MainMoves DEF PauseTest, SideTypes
<1>4. SideTypes'
  BY <1>0, <1>3, MainMoves DEF SideTypes
<1> QED
  BY <1>1, <1>2, <1>4

(* The fields of the CPUs. *)
LEMMA MainFields ==
    ASSUME Basic, MainWakes \/ MainStep
    PROVE  FieldTypes'
<1>0. FieldTypes /\ MainTypes /\ pc' \in [Cpus -> CpuPcs]
  BY TypeParts, MainKicks DEF Basic
<1>1. CASE UNCHANGED cpuvars
  BY <1>0, <1>1 DEF cpuvars, FieldTypes
<1>2. CASE MainResetRequest
  BY <1>0, <1>2 DEF MainResetRequest, FieldTypes
<1>3. CASE MainInterrupt
  <2>1. irq' \in [Cpus -> SUBSET Irqs]
    BY <1>0, <1>3 DEF MainInterrupt, veertu_interrupt_handle, FieldTypes
  <2> QED
    BY <1>0, <1>3, <2>1 DEF MainInterrupt, FieldTypes
<1>4. CASE PauseAsk
  BY <1>0, <1>4 DEF PauseAsk, AskAllToStop, FieldTypes
<1>5. CASE PauseRecheck
  BY <1>0, <1>5 DEF PauseRecheck, FieldTypes
<1>6. CASE SyncCpu
  BY <1>0, <1>6 DEF SyncCpu, run_on_cpu, FieldTypes
<1>7. CASE PostResetCpu
  BY <1>0, <1>7 DEF PostResetCpu, run_on_cpu, FieldTypes
<1>8. CASE DevicesReset
  <2>1. halted' \in [Cpus -> BOOLEAN]
    BY <1>8 DEF DevicesReset, x86_cpu_reset
  <2>2. hlt' \in [Cpus -> BOOLEAN] /\ iflag' \in [Cpus -> BOOLEAN]
    BY <1>8 DEF DevicesReset, x86_cpu_reset
  <2>3. irq' \in [Cpus -> SUBSET Irqs]
    BY <1>8 DEF DevicesReset, x86_cpu_reset
  <2> QED
    BY <1>0, <1>8, <2>1, <2>2, <2>3 DEF DevicesReset, FieldTypes
<1>9. CASE ResetDone \/ VmStart
  <2>1. stop' \in [Cpus -> BOOLEAN] /\ stopped' \in [Cpus -> BOOLEAN]
    BY <1>9 DEF ResetDone, VmStart, ResumeAll
  <2> QED
    BY <1>0, <1>9, <2>1 DEF ResetDone, VmStart, FieldTypes
<1>10. CASE \/ MainWakes \/ MainWakeupRequest \/ MainSavevmFails \/ MainSavevm
            \/ MainSavevmStopped \/ MainNothing \/ MainStage \/ MainExits
            \/ PauseTest \/ PauseSleep
  BY <1>1, <1>10
  DEF MainWakes, MainWakeupRequest, MainSavevmFails, MainSavevm, MainSavevmStopped, MainNothing,
      MainStage, StageSkip, StageTake, MainExits, PauseTest, PauseSleep
<1>11. CASE \/ PausedSuspend \/ PausedSuspendAborts \/ PausedVmstop \/ PausedSavevm
            \/ PausedSavevmFails \/ PausedReset \/ SaveRamDone \/ SaveDone
            \/ WorkDone("syncwait", "sync") \/ WorkDone("postwait", "post")
  BY <1>1, <1>11
  DEF PausedSuspend, PausedSuspendAborts, PausedVmstop, PausedSavevm, PausedSavevmFails,
      PausedReset, SaveRamDone, SaveDone, WorkDone
<1> QED
  BY <1>2, <1>3, <1>4, <1>5, <1>6, <1>7, <1>8, <1>9, <1>10, <1>11 DEF MainStep

(* Polling, the requests, and taking them. *)
LEMMA RequestsBasic ==
    ASSUME Basic,
           \/ MainWakes \/ MainInterrupt \/ MainResetRequest \/ MainWakeupRequest
           \/ MainSavevmFails \/ MainSavevm \/ MainSavevmStopped \/ MainNothing
           \/ MainStage \/ MainExits
    PROVE  /\ RequestTypes' /\ MainTypes' /\ MutexInv' /\ OpInv'
           /\ mpc \in Stages \cup {"poll", "dispatch"}
           /\ mpc' \in Stages \cup {"poll", "dispatch", "pause", "saveram", "exited"}
           /\ mpc' = "saveram" => runstate' # "running"
           /\ runstate' = runstate \/ (runstate' = "running" /\ wakeup_reason' = TRUE)
           /\ wakeup_reason' = wakeup_reason \/ wakeup_reason' = TRUE
<1>0. RequestTypes /\ MainTypes /\ MutexInv /\ OpInv
  BY TypeParts DEF Basic
<1>1. CASE MainStage
  <2>1. PICK s \in Stages : StageSkip(s) \/ StageTake(s)
    BY <1>1 DEF MainStage
  <2>2. /\ mpc = s /\ runstate' = runstate /\ wakeup_reason' = wakeup_reason
        /\ shutdown_requested' = shutdown_requested /\ mcpu' = mcpu
        /\ mpc' = NextStage[s] \/ mpc' = "pause"
        /\ vmstop_requested' \in {"max", vmstop_requested}
    BY <2>1 DEF StageSkip, StageTake, MainGoto
  <2>3. NextStage[s] \in Stages \cup {"poll"}
    BY DEF NextStage, Stages
  <2>4. reset_requested' \in BOOLEAN /\ suspend_requested' \in BOOLEAN
    BY <1>0, <2>1 DEF StageSkip, StageTake, RequestTypes
  <2>5. op' \in Ops
    <3>1. CASE StageSkip(s)
      BY <1>0, <3>1 DEF StageSkip, MainGoto, MainTypes
    <3>2. CASE StageTake(s) /\ s = "vmstop"
      <4>1. op' = vmstop_requested /\ vmstop_requested # "max"
        BY <3>2 DEF StageTake, Requested
      <4> QED
        BY <1>0, <4>1 DEF RequestTypes, Ops
    <3>3. CASE StageTake(s) /\ s # "vmstop"
      BY <2>1, <3>3 DEF StageTake, Stages, Ops
    <3> QED
      BY <2>1, <3>1, <3>2, <3>3
  <2>6. RequestTypes'
    BY <1>0, <2>2, <2>4 DEF RequestTypes
  <2>7. mpc' \in Stages \cup {"poll", "pause"}
    BY <2>2, <2>3
  <2>8. MainTypes'
    BY <1>0, <2>2, <2>5, <2>7 DEF MainTypes, MainPcs
  <2>9. /\ mpc' = "poll" => Release(Main)
        /\ mpc' # "poll" => Hold(Main)
    BY <2>1 DEF StageSkip, StageTake, Leave, MainGoto
  <2>10. MutexInv'
    BY <2>7, <2>9, Names DEF MutexInv, MainHolds, MainPcs, Stages, Hold, Release
  <2>11. OpInv' /\ mpc' # "saveram"
    BY <2>7 DEF OpInv, Stages
  <2> QED
    BY <2>2, <2>6, <2>7, <2>8, <2>10, <2>11
<1>2. CASE ~MainStage
  <2>0. \/ MainWakes \/ MainInterrupt \/ MainResetRequest \/ MainWakeupRequest
        \/ MainSavevmFails \/ MainSavevm \/ MainSavevmStopped \/ MainNothing \/ MainExits
    BY <1>2
  <2>1. /\ mpc \in {"poll", "dispatch", "shutdown"}
        /\ mpc' \in {"dispatch", "suspend", "pause", "saveram", "exited"}
        /\ mpc' = "saveram" => runstate' # "running"
    BY <2>0
    DEF MainWakes, MainInterrupt, MainResetRequest, MainWakeupRequest, MainSavevmFails,
        MainSavevm, MainSavevmStopped, MainNothing, MainExits, MainGoto, MainGoesOn
  <2>2. /\ op' \in {op, "none", "savevm"} /\ mcpu' \in {mcpu, 0}
    BY <2>0
    DEF MainWakes, MainInterrupt, MainResetRequest, MainWakeupRequest, MainSavevmFails,
        MainSavevm, MainSavevmStopped, MainNothing, MainExits, MainGoto, MainGoesOn
  <2>3. /\ runstate' = runstate \/ (runstate' = "running" /\ wakeup_reason' = TRUE)
        /\ wakeup_reason' = wakeup_reason \/ wakeup_reason' = TRUE
        /\ reset_requested' \in {reset_requested, TRUE}
        /\ suspend_requested' = suspend_requested /\ vmstop_requested' = vmstop_requested
        /\ shutdown_requested' \in {shutdown_requested, TRUE}
    BY <2>0
    DEF MainWakes, MainInterrupt, MainResetRequest, MainWakeupRequest, MainSavevmFails,
        MainSavevm, MainSavevmStopped, MainNothing, MainExits, reqvars
  <2>4. /\ mpc' = "saveram" => Release(Main)
        /\ mpc' # "saveram" => Acquire(Main) \/ Hold(Main)
    BY <2>0
    DEF MainWakes, MainInterrupt, MainResetRequest, MainWakeupRequest, MainSavevmFails,
        MainSavevm, MainSavevmStopped, MainNothing, MainExits, MainGoto, MainGoesOn
  <2>5. RequestTypes'
    BY <1>0, <2>3 DEF RequestTypes
  <2>6. MainTypes'
    BY <1>0, <2>1, <2>2, CpuCount DEF MainTypes, MainPcs, Stages, Ops
  <2>7. MutexInv'
    BY <2>1, <2>4, Names DEF MutexInv, MainHolds, MainPcs, Stages, Acquire, Hold, Release
  <2>8. OpInv'
    BY <2>1 DEF OpInv
  <2> QED
    BY <2>1, <2>3, <2>5, <2>6, <2>7, <2>8 DEF Stages
<1> QED
  BY <1>1, <1>2

(* What is done to a VM that is paused. *)
LEMMA PausedBasic ==
    ASSUME Basic,
           \/ PausedSuspend \/ PausedSuspendAborts \/ PausedVmstop \/ PausedSavevm
           \/ PausedSavevmFails \/ PausedReset \/ SaveRamDone \/ SaveDone
    PROVE  /\ RequestTypes' /\ MainTypes' /\ MutexInv' /\ OpInv'
           /\ mpc \in {"paused", "saveram", "sync"} /\ wakeup_reason' = wakeup_reason
           /\ UNCHANGED cpuvars
           /\ mpc' \in {"shutdown", "aborted", "poll", "saveram", "suspend", "sync"}
           /\ mpc' = "sync" => mcpu' = 0
           /\ runstate' = runstate \/ runstate' \in {"suspended", "io-error", "save-vm"}
<1>0. RequestTypes /\ MainTypes /\ MutexInv /\ OpInv
  BY TypeParts DEF Basic
<1>1. /\ mpc \in {"paused", "saveram", "sync"} /\ UNCHANGED cpuvars
      /\ op' \in {op, "none"}
      /\ mpc' \in {"shutdown", "aborted", "poll", "saveram", "suspend", "sync"}
      /\ mcpu' = mcpu \/ mcpu' = 0
      /\ mpc' = "sync" => mcpu' = 0
  BY DEF PausedSuspend, PausedSuspendAborts, PausedVmstop, PausedSavevm, PausedSavevmFails,
         PausedReset, SaveRamDone, SaveDone, MainGoto, MainGoesOn
<1>2. runstate' = runstate \/ runstate' \in {"suspended", "io-error", "save-vm"}
  BY DEF PausedSuspend, PausedSuspendAborts, PausedVmstop, PausedSavevm, PausedSavevmFails,
         PausedReset, SaveRamDone, SaveDone
<1>3. /\ wakeup_reason' = wakeup_reason /\ reset_requested' = reset_requested
      /\ suspend_requested' = suspend_requested /\ vmstop_requested' = vmstop_requested
      /\ shutdown_requested' \in {shutdown_requested, TRUE}
  BY DEF PausedSuspend, PausedSuspendAborts, PausedVmstop, PausedSavevm, PausedSavevmFails,
         PausedReset, SaveRamDone, SaveDone, reqvars
<1>4. /\ mpc' \in {"poll", "saveram"} => Release(Main)
      /\ mpc' \notin {"poll", "saveram"} => Acquire(Main) \/ Hold(Main)
  BY DEF PausedSuspend, PausedSuspendAborts, PausedVmstop, PausedSavevm, PausedSavevmFails,
         PausedReset, SaveRamDone, SaveDone, MainGoto, MainGoesOn
<1>5. RequestTypes'
  BY <1>0, <1>2, <1>3 DEF RequestTypes
<1>6. MainTypes'
  BY <1>0, <1>1, CpuCount DEF MainTypes, MainPcs, Stages, Ops
<1>7. MutexInv'
  BY <1>1, <1>4, Names DEF MutexInv, MainHolds, MainPcs, Stages, Acquire, Hold, Release
<1>8. OpInv'
  BY <1>1 DEF OpInv
<1> QED
  BY <1>1, <1>2, <1>3, <1>5, <1>6, <1>7, <1>8

(* Pausing, working through the CPUs, and resuming. *)
LEMMA WorkBasic ==
    ASSUME Basic,
           \/ PauseAsk \/ PauseTest \/ PauseSleep \/ PauseRecheck \/ SyncCpu \/ PostResetCpu
           \/ WorkDone("syncwait", "sync") \/ WorkDone("postwait", "post")
           \/ DevicesReset \/ ResetDone \/ VmStart
    PROVE  RequestTypes' /\ MainTypes' /\ MutexInv' /\ OpInv'
<1>0. RequestTypes /\ MainTypes /\ MutexInv /\ OpInv
  BY TypeParts DEF Basic
<1>1. CASE PauseAsk \/ PauseTest \/ PauseSleep \/ PauseRecheck
  <2>1. /\ mpc' \in {"ptest", "paused", "pgap", "pwait"} /\ op' = op /\ mcpu' = mcpu
        /\ UNCHANGED <<runstate, reqvars>>
        /\ mpc' = "pwait" => Release(Main)
        /\ mpc' # "pwait" => Acquire(Main) \/ Hold(Main)
    BY <1>1 DEF PauseAsk, PauseTest, PauseSleep, PauseRecheck, MainGoto
  <2>2. RequestTypes' /\ MainTypes'
    BY <1>0, <2>1 DEF RequestTypes, MainTypes, reqvars, MainPcs
  <2>3. MutexInv' /\ OpInv'
    BY <2>1, Names DEF MutexInv, MainHolds, MainPcs, Acquire, Hold, Release, OpInv
  <2> QED
    BY <2>2, <2>3
<1>2. CASE SyncCpu \/ PostResetCpu
  <2>1. /\ op' = op /\ mcpu < NCpus /\ UNCHANGED <<runstate, reqvars>>
        /\ \/ mpc = "sync" /\ mpc' = "sync" /\ mcpu' = mcpu + 1 /\ Hold(Main)
           \/ mpc = "sync" /\ mpc' = "syncwait" /\ mcpu' = mcpu /\ Release(Main)
           \/ mpc = "post" /\ mpc' = "postwait" /\ mcpu' = mcpu /\ Release(Main)
    BY <1>2 DEF SyncCpu, PostResetCpu, run_on_cpu, MainGoto
  <2>2. mcpu' \in 0 .. NCpus
    BY <1>0, <2>1, CpuCount DEF MainTypes
  <2>3. RequestTypes' /\ MainTypes'
    BY <1>0, <2>1, <2>2 DEF RequestTypes, MainTypes, reqvars, MainPcs
  <2>4. MutexInv'
    BY <2>1, Names DEF MutexInv, MainHolds, MainPcs, Hold, Release
  <2>5. OpInv'
    BY <1>0, <2>1 DEF OpInv
  <2> QED
    BY <2>3, <2>4, <2>5
<1>3. CASE WorkDone("syncwait", "sync") \/ WorkDone("postwait", "post")
  <2>1. /\ op' = op /\ UNCHANGED <<runstate, reqvars>> /\ mcpu' = mcpu + 1 /\ Acquire(Main)
        /\ \/ mpc = "syncwait" /\ mpc' = "sync"
           \/ mpc = "postwait" /\ mpc' = "post"
    BY <1>3 DEF WorkDone
  <2>2. mcpu' \in 0 .. NCpus
    BY <1>0, <2>1, CpuCount DEF MainTypes, OpInv
  <2>3. RequestTypes' /\ MainTypes'
    BY <1>0, <2>1, <2>2 DEF RequestTypes, MainTypes, reqvars, MainPcs
  <2>4. MutexInv' /\ OpInv'
    BY <1>0, <2>1 DEF MutexInv, MainHolds, MainPcs, Acquire, OpInv
  <2> QED
    BY <2>3, <2>4
<1>4. CASE DevicesReset
  <2>1. /\ op \in {"reset", "wakeup"} /\ op' = op /\ mpc' = "post" /\ mcpu' = 0 /\ Hold(Main)
        /\ UNCHANGED <<runstate, reqvars>>
    BY <1>4 DEF DevicesReset
  <2>2. RequestTypes' /\ MainTypes'
    BY <1>0, <2>1, CpuCount DEF RequestTypes, MainTypes, reqvars, MainPcs
  <2>3. MutexInv' /\ OpInv'
    BY <2>1 DEF MutexInv, MainHolds, MainPcs, Hold, OpInv
  <2> QED
    BY <2>2, <2>3
<1>5. CASE ResetDone \/ VmStart
  <2>1. /\ mpc \in {"post", "vmstart"} /\ mpc' = NextStage[op] /\ Leave(NextStage[op])
        /\ op' = "none" /\ mcpu' = 0
        /\ reset_requested' = reset_requested /\ suspend_requested' = suspend_requested
        /\ shutdown_requested' = shutdown_requested
        /\ vmstop_requested' \in {vmstop_requested, "max"}
        /\ runstate' = runstate \/ runstate' = "running"
    BY <1>5 DEF ResetDone, VmStart, MainGoesOn
  <2>2. wakeup_reason' \in BOOLEAN
    BY <1>0, <1>5 DEF ResetDone, VmStart, RequestTypes
  <2>3. mpc' \in {"wakeup", "vmstop", "poll"}
    <3>1. op \in {"reset", "wakeup", "boot"}
      BY <1>0, <2>1 DEF OpInv
    <3> QED
      BY <2>1, <3>1 DEF NextStage
  <2>4. RequestTypes'
    BY <1>0, <2>1, <2>2 DEF RequestTypes
  <2>5. MainTypes'
    BY <2>1, <2>3, CpuCount DEF MainTypes, MainPcs, Stages, Ops
  <2>6. MutexInv' /\ OpInv'
    BY <2>1, <2>3, Names DEF MutexInv, MainHolds, MainPcs, Stages, Leave, Hold, Release, OpInv
  <2> QED
    BY <2>4, <2>5, <2>6
<1> QED
  BY <1>1, <1>2, <1>3, <1>4, <1>5

(* The main thread's steps preserve the first part of the invariant. *)
LEMMA MainBasic ==
    ASSUME Basic, MainWakes \/ MainStep
    PROVE  Basic'
<1>1. RequestTypes' /\ MainTypes' /\ MutexInv' /\ OpInv'
  BY RequestsBasic, PausedBasic, WorkBasic DEF MainStep
<1> QED
  BY <1>1, MainSides, MainFields, TypePartsNext DEF Basic

(* So do the Cocoa thread's. *)
LEMMA CocoaBasic ==
    ASSUME Basic, Cocoa
    PROVE  /\ Basic' /\ save' = save /\ scpu' = scpu /\ sitem' = sitem /\ op' = op
           /\ mcpu' = mcpu /\ runstate' = runstate /\ wakeup_reason' = wakeup_reason
           /\ mpc' = mpc \/ (mpc = "pwait" /\ mpc' = "pwoken")
           /\ \A c \in Cpus : /\ stop'[c] => stop[c]
                              /\ stopped[c] => stopped'[c]
                              /\ stop'[c] = stop[c] \/ ~MainPauses \/ raced'
           /\ raced => raced'
           /\ UNCHANGED <<pc, hlt, halted, irq, iflag, dirty, work>>
<1>0. FieldTypes /\ RequestTypes /\ MainTypes /\ SideTypes /\ TypeOK
  BY TypeParts DEF Basic
<1>1. /\ bql' = bql /\ UNCHANGED <<pc, hlt, halted, irq, iflag, dirty, work>>
      /\ runstate' = runstate /\ UNCHANGED savevars /\ op' = op /\ mcpu' = mcpu
      /\ wakeup_reason' = wakeup_reason /\ suspend_requested' = suspend_requested
      /\ vmstop_requested' = vmstop_requested /\ shutdown_requested' = shutdown_requested
      /\ reset_requested' \in {reset_requested, TRUE}
      /\ cocoa' \in {"idle", "stop", "stopped", "signal"}
      /\ mpc' = mpc \/ (mpc = "pwait" /\ mpc' = "pwoken")
      /\ raced' = raced \/ raced' = (raced \/ MainPauses)
  BY DEF Cocoa, CocoaReset, CocoaStop, CocoaStopped, CocoaSignal, SignalPause, cpuvars, reqvars,
         mainvars
<1>2. /\ stop' \in [Cpus -> BOOLEAN] /\ stopped' \in [Cpus -> BOOLEAN]
      /\ \A c \in Cpus : /\ stop'[c] => stop[c]
                         /\ stopped[c] => stopped'[c]
                         /\ stop'[c] = stop[c] \/ raced' = (raced \/ MainPauses)
  <2>1. CASE CocoaReset \/ CocoaSignal
    BY <1>0, <2>1 DEF CocoaReset, CocoaSignal, cpuvars, FieldTypes
  <2>2. CASE CocoaStop
    <3>1. PICK c \in Cpus : stop' = [stop EXCEPT ![c] = FALSE]
      BY <2>2 DEF CocoaStop
    <3>2. stopped' = stopped /\ raced' = (raced \/ MainPauses)
      BY <2>2 DEF CocoaStop
    <3> QED
      BY <1>0, <3>1, <3>2 DEF FieldTypes
  <2>3. CASE CocoaStopped
    <3>1. PICK c \in Cpus : stopped' = [stopped EXCEPT ![c] = TRUE]
      BY <2>3 DEF CocoaStopped
    <3>2. stop' = stop
      BY <2>3 DEF CocoaStopped
    <3> QED
      BY <1>0, <3>1, <3>2 DEF FieldTypes
  <2> QED
    BY <2>1, <2>2, <2>3 DEF Cocoa
<1>3. raced' \in BOOLEAN /\ (raced => raced')
  <2>1. raced \in BOOLEAN
    BY <1>0 DEF SideTypes
  <2>2. CASE raced' = raced
    BY <2>1, <2>2
  <2>3. CASE raced' = (raced \/ MainPauses)
    BY <2>3
  <2> QED
    BY <1>1, <2>2, <2>3
<1>4. FieldTypes'
  BY <1>0, <1>1, <1>2 DEF FieldTypes
<1>5. RequestTypes' /\ MainTypes' /\ SideTypes'
  <2>1. RequestTypes'
    BY <1>0, <1>1 DEF RequestTypes
  <2>2. MainTypes'
    BY <1>0, <1>1 DEF MainTypes, MainPcs
  <2>3. SideTypes'
    BY <1>0, <1>1, <1>3 DEF SideTypes, savevars
  <2> QED
    BY <2>1, <2>2, <2>3
<1>6. MutexTypes'
  BY <1>0, <1>1, <1>4, MainMutexMoves DEF MutexTypes, FieldTypes
<1>7. MutexInv' /\ OpInv'
  BY <1>1 DEF Basic, MutexInv, MainHolds, OpInv
<1>8. SaveInv'
  <2>1. \A d \in Cpus : pc'[d] = pc[d]
    BY <1>1
  <2> QED
    BY <1>1, <2>1, SaveKept DEF Basic, savevars
<1>9. Basic'
  BY <1>4, <1>5, <1>6, <1>7, <1>8, TypePartsNext DEF Basic
<1>10. \A c \in Cpus : stop'[c] = stop[c] \/ ~MainPauses \/ raced'
  BY <1>2
<1> QED
  BY <1>1, <1>2, <1>3, <1>9, <1>10 DEF savevars

-----------------------------------------------------------------------------
(* A CPU's steps, as long as none ends a do_savevm *)

(* A CPU that changes its own stop or stopped has stopped, holds the mutex *)
(* and tells a pause_all_vcpus; it queues no work for itself.              *)
LEMMA CpuAnswers ==
    ASSUME Basic, NEW c \in Cpus, Cpu(c), ~CpuSaveDone(c)
    PROVE  /\ \/ stop'[c] = stop[c] /\ stopped'[c] = stopped[c]
              \/ stopped'[c] /\ mpc' # "pwait" /\ mpc \notin MainHolds
           /\ work'[c] = work[c] \/ work'[c] = "none"
<1>0. FieldTypes /\ MutexInv
  BY TypeParts DEF Basic
<1>1. CASE \/ YieldReturn(c) \/ EnterHalted(c) \/ EnterRun(c) \/ ExitInterrupt(c)
           \/ WaitSleep(c) \/ Woken(c) \/ ExitHlt(c) \/ ExitIoPlain(c) \/ CpuIrq(c)
           \/ ExitIoError(c) \/ CpuSaveRamDone(c) \/ CpuSyncState(c) \/ CpuSyncQueued(c)
           \/ CpuSyncDone(c)
  BY <1>1
  DEF YieldReturn, EnterHalted, EnterRun, ExitInterrupt, WaitSleep, Woken, ExitHlt,
      ExitIoPlain, CpuIrq, ExitIoInterrupt, ExitIoError, CpuSaveRamDone, CpuSyncState,
      CpuSyncQueued, CpuSyncDone
<1>2. CASE \/ ExitTripleFault(c) \/ ExitIoReset(c) \/ ExitIoSuspend(c)
           \/ CpuSavevmFails(c) \/ CpuSavevm(c)
  <2>1. StopCurrent(c) /\ work' = work /\ bql = Nobody
    BY <1>2 DEF ExitTripleFault, ExitIoReset, ExitIoSuspend, CpuSavevmFails, CpuSavevm, ExitIo,
                Acquire
  <2>2. mpc \notin MainHolds
    BY <1>0, <2>1, Names DEF MutexInv
  <2> QED
    BY <1>0, <2>1, <2>2 DEF StopCurrent, SignalPause, FieldTypes
<1>3. CASE WaitAgain(c)
  <2>1. AnswerStop(c) /\ work'[c] = "none" /\ bql = c
    BY <1>0, <1>3 DEF WaitAgain, flush_queued_work, Hold, FieldTypes
  <2>2. mpc \notin MainHolds
    BY <1>0, <2>1, Names DEF MutexInv
  <2>3. CASE stop[c]
    BY <1>0, <2>1, <2>2, <2>3 DEF AnswerStop, SignalPause, FieldTypes
  <2>4. CASE ~stop[c]
    BY <1>0, <2>1, <2>4 DEF AnswerStop, FieldTypes
  <2> QED
    BY <2>1, <2>3, <2>4
<1>4. CASE Exec(c)
  BY <1>0, <1>4 DEF Exec, flush_queued_work, FieldTypes
<1> QED
  BY <1>1, <1>2, <1>3, <1>4 DEF Cpu

(* A CPU that is found asleep after the step has no new item of a saver's. *)
LEMMA CpuItems ==
    ASSUME Basic, NEW c \in Cpus, Cpu(c), NEW d \in Cpus, pc'[d] = "idle", SaveItem(d)'
    PROVE  SaveItem(d)
<1>0. FieldTypes /\ SaveInv
  BY TypeParts DEF Basic
<1>1. CASE \/ YieldReturn(c) \/ EnterHalted(c) \/ EnterRun(c) \/ ExitInterrupt(c)
           \/ WaitSleep(c) \/ Woken(c) \/ ExitHlt(c) \/ ExitIoPlain(c) \/ CpuIrq(c)
           \/ ExitIoError(c) \/ ExitTripleFault(c) \/ ExitIoReset(c) \/ ExitIoSuspend(c)
  <2>1. UNCHANGED savevars
    BY <1>1
    DEF YieldReturn, EnterHalted, EnterRun, ExitInterrupt, WaitSleep, Woken, ExitHlt,
        ExitIoPlain, CpuIrq, ExitIoInterrupt, ExitIoError, ExitTripleFault, ExitIoReset,
        ExitIoSuspend, sidevars
  <2> QED
    BY <2>1 DEF savevars, SaveItem
<1>2. CASE CpuSavevmFails(c) \/ CpuSavevm(c)
  BY <1>2 DEF CpuSavevmFails, CpuSavevm, SaveItem
<1>3. CASE WaitAgain(c) \/ Exec(c)
  <2>1. scpu' = scpu /\ (sitem' => sitem)
    BY <1>3 DEF WaitAgain, Exec, flush_queued_work
  <2> QED
    BY <2>1 DEF SaveItem
<1>4. CASE CpuSaveRamDone(c) \/ CpuSyncState(c) \/ CpuSyncDone(c) \/ CpuSaveDone(c)
  <2>1. sitem' = sitem
    BY <1>4 DEF CpuSaveRamDone, CpuSyncState, CpuSyncDone, CpuSaveDone
  <2>2. ~sitem
    BY <1>0, <1>4, NoItem DEF CpuSaveRamDone, CpuSyncState, CpuSyncDone, CpuSaveDone
  <2> QED
    BY <2>1, <2>2 DEF SaveItem
<1>5. CASE CpuSyncQueued(c)
  <2>1. scpu' = scpu /\ pc' = Kicked([pc EXCEPT ![c] = "savewait"], {scpu})
    BY <1>5 DEF CpuSyncQueued
  <2>2. [pc EXCEPT ![c] = "savewait"] \in [Cpus -> CpuPcs]
    BY <1>0 DEF FieldTypes, CpuPcs
  <2>3. d # scpu
    BY <2>1, <2>2, KickedType
  <2> QED
    BY <2>1, <2>3 DEF SaveItem
<1> QED
  BY <1>1, <1>2, <1>3, <1>4, <1>5 DEF Cpu

(* A thread goes to sleep only when its CPU has nothing to do. *)
LEMMA CpuSleeps ==
    ASSUME Basic, NEW c \in Cpus, Cpu(c), pc'[c] = "idle"
    PROVE  /\ cpu_thread_is_idle(c) /\ mpc \notin MainHolds
           /\ UNCHANGED <<stop, stopped, hlt, irq, iflag, work, runstate, scpu, sitem>>
<1>0. FieldTypes /\ MutexInv
  BY TypeParts DEF Basic
<1>1. WaitSleep(c)
  <2>1. CASE CpuIrq(c)
    BY <1>0, <2>1 DEF CpuIrq, ExitIoInterrupt, veertu_interrupt_handle, Kicked, FieldTypes
  <2>2. CASE \/ YieldReturn(c) \/ EnterHalted(c) \/ EnterRun(c) \/ ExitInterrupt(c)
             \/ Woken(c) \/ ExitHlt(c) \/ ExitTripleFault(c) \/ WaitAgain(c) \/ Exec(c)
    BY <1>0, <2>2
    DEF YieldReturn, EnterHalted, EnterRun, ExitInterrupt, Woken, ExitHlt, ExitTripleFault,
        WaitAgain, Exec, EnterGuest, FieldTypes
  <2>3. CASE \/ ExitIoPlain(c) \/ ExitIoReset(c) \/ ExitIoSuspend(c) \/ ExitIoError(c)
             \/ CpuSavevmFails(c)
    BY <1>0, <2>3
    DEF ExitIoPlain, ExitIoReset, ExitIoSuspend, ExitIoError, CpuSavevmFails, ExitIo, EnterGuest,
        FieldTypes
  <2>4. CASE CpuSavevm(c) \/ CpuSaveRamDone(c) \/ CpuSyncState(c) \/ CpuSyncDone(c)
    BY <1>0, <2>4 DEF CpuSavevm, CpuSaveRamDone, CpuSyncState, CpuSyncDone, FieldTypes
  <2>5. CASE CpuSyncQueued(c) \/ CpuSaveDone(c)
    BY <1>0, <2>5 DEF CpuSyncQueued, CpuSaveDone, Kicked, FieldTypes
  <2> QED
    BY <2>1, <2>2, <2>3, <2>4, <2>5 DEF Cpu
<1>2. mpc \notin MainHolds
  BY <1>0, <1>1, Names DEF WaitSleep, Release, MutexInv
<1> QED
  BY <1>1, <1>2 DEF WaitSleep, sidevars, savevars

(* A CPU enters the guest with its registers in the VMCS and, unless it is *)
(* the boot processor, after its SIPI.                                     *)
LEMMA CpuEnters ==
    ASSUME Basic, DirtyInv, NEW c \in Cpus, Cpu(c)
    PROVE  /\ dirty'[c] => pc'[c] \notin {"enter", "guest"}
           /\ pc'[c] = "guest" => c = Bsp \/ ~halted'[c]
<1>0. FieldTypes
  BY TypeParts DEF Basic
<1>1. CASE CpuIrq(c)
  BY <1>0, <1>1
  DEF CpuIrq, ExitIoInterrupt, veertu_interrupt_handle, Kicked, FieldTypes, DirtyInv
<1>2. CASE \/ YieldReturn(c) \/ EnterHalted(c) \/ ExitInterrupt(c) \/ WaitSleep(c) \/ Woken(c)
           \/ ExitHlt(c) \/ ExitTripleFault(c) \/ WaitAgain(c)
  BY <1>0, <1>2
  DEF YieldReturn, EnterHalted, ExitInterrupt, WaitSleep, Woken, ExitHlt, ExitTripleFault,
      WaitAgain, FieldTypes
<1>3. CASE EnterRun(c)
  BY <1>0, <1>3 DEF EnterRun, WaitsForSipi, FieldTypes, DirtyInv
<1>4. CASE \/ ExitIoPlain(c) \/ ExitIoReset(c) \/ ExitIoSuspend(c) \/ ExitIoError(c)
           \/ CpuSavevmFails(c)
  BY <1>0, <1>4
  DEF ExitIoPlain, ExitIoReset, ExitIoSuspend, ExitIoError, CpuSavevmFails, ExitIo, EnterGuest,
      WriteBackAndInject, FieldTypes
<1>5. CASE Exec(c)
  BY <1>0, <1>5 DEF Exec, EnterGuest, WriteBackAndInject, FieldTypes
<1>6. CASE CpuSavevm(c) \/ CpuSaveRamDone(c) \/ CpuSyncState(c) \/ CpuSyncDone(c)
  BY <1>0, <1>6 DEF CpuSavevm, CpuSaveRamDone, CpuSyncState, CpuSyncDone, FieldTypes
<1>7. CASE CpuSyncQueued(c)
  BY <1>0, <1>7 DEF CpuSyncQueued, Kicked, FieldTypes
<1>8. CASE CpuSaveDone(c)
  BY <1>0, <1>8 DEF CpuSaveDone, WriteBackAndInject, Kicked, FieldTypes
<1> QED
  BY <1>1, <1>2, <1>3, <1>4, <1>5, <1>6, <1>7, <1>8 DEF Cpu

(* A CPU that may not run does not enter the guest, and loses no register  *)
(* but by the work that writes them back.                                  *)
LEMMA CpuKeepsOut ==
    ASSUME Basic, DirtyInv, NEW c \in Cpus, Cpu(c), ~CpuSaveDone(c), ~cpu_can_run(c)
    PROVE  /\ pc'[c] \in {"enter", "guest"} => pc[c] \in {"enter", "guest"}
           /\ dirty[c] /\ work[c] = "none" => dirty'[c]
           /\ work[c] = "sync" /\ work'[c] = "none" => dirty'[c]
<1>0. FieldTypes
  BY TypeParts DEF Basic
<1>1. CASE CpuIrq(c)
  BY <1>0, <1>1
  DEF CpuIrq, ExitIoInterrupt, veertu_interrupt_handle, Kicked, FieldTypes, DirtyInv
<1>2. CASE \/ YieldReturn(c) \/ EnterHalted(c) \/ ExitInterrupt(c) \/ WaitSleep(c) \/ Woken(c)
           \/ ExitHlt(c) \/ ExitTripleFault(c) \/ EnterRun(c) \/ CpuSavevm(c)
           \/ CpuSaveRamDone(c) \/ CpuSyncDone(c)
  BY <1>0, <1>2
  DEF YieldReturn, EnterHalted, ExitInterrupt, WaitSleep, Woken, ExitHlt, ExitTripleFault,
      EnterRun, CpuSavevm, CpuSaveRamDone, CpuSyncDone, FieldTypes
<1>3. CASE WaitAgain(c)
  BY <1>0, <1>3 DEF WaitAgain, DirtyAfterWork, FieldTypes
<1>4. CASE \/ ExitIoPlain(c) \/ ExitIoReset(c) \/ ExitIoSuspend(c) \/ ExitIoError(c)
           \/ CpuSavevmFails(c)
  BY <1>0, <1>4
  DEF ExitIoPlain, ExitIoReset, ExitIoSuspend, ExitIoError, CpuSavevmFails, ExitIo, EnterGuest,
      FieldTypes, DirtyInv
<1>5. CASE Exec(c)
  BY <1>5 DEF Exec
<1>6. CASE CpuSyncState(c)
  BY <1>0, <1>6 DEF CpuSyncState, FieldTypes
<1>7. CASE CpuSyncQueued(c)
  BY <1>0, <1>7 DEF CpuSyncQueued, Kicked, FieldTypes
<1> QED
  BY <1>1, <1>2, <1>3, <1>4, <1>5, <1>6, <1>7 DEF Cpu

(* A CPU's steps other than the end of a do_savevm preserve the rest of    *)
(* the invariant.                                                          *)
LEMMA CpuStep ==
    ASSUME Core, NEW c \in Cpus, Cpu(c), ~CpuSaveDone(c), save' # "overlapped"
    PROVE  Core'
<1>0. Basic /\ FieldTypes /\ MainTypes
  BY TypeParts DEF Core, Basic
<1>1. Basic'
  BY <1>0, CpuBasic
<1>2. /\ op' = op /\ mcpu' = mcpu /\ runstate' = runstate /\ wakeup_reason' = wakeup_reason
      /\ raced' = raced
      /\ mpc' = mpc \/ (mpc = "pwait" /\ mpc' = "pwoken")
  BY <1>0, CpuGlobals
<1>3. (MainPauses' <=> MainPauses) /\ (MainHasPaused' <=> MainHasPaused)
  BY <1>2 DEF MainPauses, MainHasPaused
<1>4. \A d \in Cpus : \/ stop'[d] = stop[d] /\ stopped'[d] = stopped[d]
                      \/ stopped'[d] /\ mpc' # "pwait" /\ mpc \notin MainHolds
  BY <1>0, CpuAnswers, CpuOthers
<1>5. AskedInv'
  <2> SUFFICES ASSUME MainPauses', ~raced', NEW d \in Cpus, ~stopped'[d]
               PROVE  stop'[d]
    BY DEF AskedInv
  <2>0. MainPauses /\ ~raced
    BY <1>2, <1>3
  <2>1. stop'[d] = stop[d] /\ stopped'[d] = stopped[d]
    BY <1>4
  <2>2. stop[d]
    BY <2>0, <2>1 DEF Core, AskedInv
  <2> QED
    BY <2>1, <2>2
<1>6. PausedInv'
  BY <1>2, <1>3, <1>4 DEF Core, PausedInv, cpu_is_stopped
<1>7. \A d \in Cpus : work'[d] = work[d] \/ work'[d] = "none"
  BY <1>0, CpuAnswers, CpuOthers
<1>8. WorkInv'
  BY <1>2, <1>7 DEF Core, WorkInv
<1>9. \A d \in Cpus : MainHasPaused =>
        /\ pc'[d] \in {"enter", "guest"} => pc[d] \in {"enter", "guest"}
        /\ dirty[d] /\ work[d] = "none" => dirty'[d]
        /\ work[d] = "sync" /\ work'[d] = "none" => dirty'[d]
  <2>1. CASE MainHasPaused
    <3>1. ~cpu_can_run(c) /\ DirtyInv
      BY <2>1 DEF Core, PausedInv, cpu_can_run
    <3> QED
      BY <1>0, <3>1, CpuKeepsOut, CpuOthers
  <2> QED
    BY <2>1
<1>10. DirtyInv'
  <2>1. \A d \in Cpus : dirty'[d] => pc'[d] \notin {"enter", "guest"}
    BY <1>0, CpuEnters, CpuOthers DEF Core, DirtyInv
  <2>2. ASSUME mpc' = "syncwait", work'[mcpu] = "none"
        PROVE  dirty'[mcpu]
    <3>1. mpc = "syncwait" /\ mcpu \in Cpus
      BY <1>0, <1>2, <2>2, CpuCount DEF MainTypes, Basic, OpInv, Cpus
    <3>2. CASE work[mcpu] = "none"
      BY <1>9, <3>1, <3>2 DEF Core, DirtyInv, MainHasPaused
    <3>3. CASE work[mcpu] # "none"
      <4>1. work[mcpu] = "sync"
        BY <3>1, <3>3 DEF Core, WorkInv
      <4> QED
        BY <1>9, <2>2, <3>1, <4>1 DEF MainHasPaused
    <3> QED
      BY <3>2, <3>3
  <2> QED
    BY <1>2, <2>1, <2>2 DEF DirtyInv
<1>11. NoLostWakeup'
  <2> SUFFICES ASSUME NEW d \in Cpus, pc'[d] = "idle"
               PROVE  cpu_thread_is_idle(d)' \/ wakeup_reason'
    BY DEF NoLostWakeup
  <2>1. CASE d = c
    BY <1>0, <1>2, <2>1, CpuSleeps
    DEF cpu_thread_is_idle, cpu_is_stopped, cpu_has_work, HasItems, SaveItem
  <2>2. CASE d # c
    <3>1. /\ pc[d] = "idle" /\ stop'[d] = stop[d] /\ stopped'[d] = stopped[d]
          /\ hlt'[d] = hlt[d] /\ irq'[d] = irq[d] /\ iflag'[d] = iflag[d] /\ work'[d] = work[d]
      BY <1>0, <2>2, CpuOthers
    <3>2. cpu_thread_is_idle(d) \/ wakeup_reason
      BY <3>1 DEF Core, NoLostWakeup
    <3>3. SaveItem(d)' => SaveItem(d)
      BY <1>0, CpuItems
    <3>4. HasItems(d)' => HasItems(d)
      BY <3>1, <3>3 DEF HasItems
    <3> QED
      BY <1>2, <3>1, <3>2, <3>4 DEF cpu_thread_is_idle, cpu_is_stopped, cpu_has_work
  <2> QED
    BY <2>1, <2>2
<1>12. AwakeInv'
  <2> SUFFICES ASSUME mpc' \in {"ptest", "pgap"}, NEW d \in Cpus, pc'[d] = "idle"
               PROVE  FALSE
    BY DEF AwakeInv
  <2>1. mpc = mpc' /\ mpc \in MainHolds
    BY <1>2 DEF MainHolds, MainPcs
  <2>2. pc[d] # "idle"
    BY <2>1 DEF Core, AwakeInv
  <2> QED
    BY <1>0, <2>1, <2>2, CpuSleeps, CpuOthers
<1>13. AnswerInv'
  <2> SUFFICES ASSUME mpc' \in {"pgap", "pwait"}, ~raced
               PROVE  \E d \in Cpus : stop'[d] /\ pc'[d] # "idle"
    BY <1>2 DEF AnswerInv
  <2>0. mpc = mpc'
    BY <1>2
  <2>1. PICK d \in Cpus : stop[d] /\ pc[d] # "idle"
    BY <2>0 DEF Core, AnswerInv
  <2>2. pc'[d] # "idle"
    <3>1. CASE d = c
      BY <1>0, <2>1, <3>1, CpuSleeps DEF cpu_thread_is_idle
    <3>2. CASE d # c
      BY <1>0, <2>1, <3>2, CpuOthers
    <3> QED
      BY <3>1, <3>2
  <2>3. ~(mpc' # "pwait" /\ mpc \notin MainHolds)
    BY <2>0 DEF MainHolds, MainPcs
  <2>4. stop'[d] = stop[d]
    BY <1>4, <2>3
  <2> QED
    BY <2>1, <2>2, <2>4
<1>14. RegistersExclusive'
  <2> SUFFICES ASSUME NEW d \in Cpus
               PROVE  /\ mpc' \in {"sync", "syncwait"} /\ d < mcpu =>
                            dirty'[d] /\ pc'[d] \notin {"enter", "guest"}
                      /\ mpc' \in {"post", "postwait"} => pc'[d] \notin {"enter", "guest"}
    BY <1>2 DEF RegistersExclusive
  <2>1. ASSUME mpc' \in {"sync", "syncwait"}, d < mcpu
        PROVE  dirty'[d] /\ pc'[d] \notin {"enter", "guest"}
    <3>1. mpc \in {"sync", "syncwait"} /\ MainHasPaused
      BY <1>2, <2>1 DEF MainHasPaused
    <3>2. dirty[d] /\ pc[d] \notin {"enter", "guest"}
      BY <2>1, <3>1 DEF Core, RegistersExclusive
    <3>3. work[d] = "none"
      <4>1. d # mcpu
        BY <1>0, <2>1, Names DEF MainTypes
      <4> QED
        BY <4>1 DEF Core, WorkInv
    <3> QED
      BY <1>9, <3>1, <3>2, <3>3
  <2>2. ASSUME mpc' \in {"post", "postwait"}
        PROVE  pc'[d] \notin {"enter", "guest"}
    <3>1. mpc \in {"post", "postwait"} /\ MainHasPaused
      BY <1>2, <2>2 DEF MainHasPaused
    <3> QED
      BY <1>9, <3>1 DEF Core, RegistersExclusive
  <2> QED
    BY <2>1, <2>2
<1>15. ApRunsOnlyAfterSipi'
  <2> SUFFICES ASSUME NEW d \in Cpus \ {Bsp}, pc'[d] = "guest"
               PROVE  ~halted'[d]
    BY DEF ApRunsOnlyAfterSipi
  <2>1. CASE d = c
    BY <1>0, <2>1, CpuEnters DEF Core
  <2>2. CASE d # c
    BY <1>0, <2>2, CpuOthers DEF Core, ApRunsOnlyAfterSipi
  <2> QED
    BY <2>1, <2>2
<1> QED
  BY <1>1, <1>5, <1>6, <1>8, <1>10, <1>11, <1>12, <1>13, <1>14, <1>15 DEF Core

(* So does the end of a do_savevm while the main loop has no CPU paused    *)
(* and, when the VM is started again, asks for no pause.                   *)
LEMMA SaveEnds ==
    ASSUME Core, NEW c \in Cpus, CpuSaveDone(c), save' # "overlapped"
    PROVE  Core'
<1> DEFINE restarts == save = "running" /\ runstate # "running"
<1>0. Basic /\ FieldTypes /\ MutexInv /\ MainTypes /\ Cpu(c)
  BY TypeParts DEF Core, Basic, Cpu
<1>1. Basic'
  BY <1>0, CpuBasic
<1>2. /\ mpc' = mpc /\ mcpu' = mcpu /\ raced' = raced /\ work' = work /\ halted' = halted
      /\ wakeup_reason' = wakeup_reason /\ hlt' = hlt /\ iflag' = iflag /\ sitem' = sitem
  BY DEF CpuSaveDone, mainvars, cocoavars
<1>3. ~MainHasPaused /\ ~(MainPauses /\ restarts)
  BY DEF CpuSaveDone
<1>4. mpc \notin MainHolds
  BY <1>0, Names DEF CpuSaveDone, Release, MutexInv
<1>5. mpc \in {"poll", "pwait", "pwoken"}
  BY <1>0, <1>3, <1>4 DEF MainHolds, MainTypes, MainHasPaused
<1>6. ~sitem
  BY <1>0, NoItem DEF CpuSaveDone, Basic
<1>7. AwakeInv' /\ PausedInv' /\ RegistersExclusive'
  BY <1>2, <1>5 DEF AwakeInv, PausedInv, MainHasPaused, RegistersExclusive
<1>8. WorkInv'
  BY <1>2 DEF Core, WorkInv
<1>9. DirtyInv'
  <2>1. \A d \in Cpus : dirty'[d] => pc'[d] \notin {"enter", "guest"}
    BY <1>0, CpuEnters, CpuOthers DEF Core, DirtyInv
  <2> QED
    BY <1>2, <1>5, <2>1 DEF DirtyInv
<1>10. ApRunsOnlyAfterSipi'
  <2> SUFFICES ASSUME NEW d \in Cpus \ {Bsp}, pc'[d] = "guest"
               PROVE  ~halted'[d]
    BY DEF ApRunsOnlyAfterSipi
  <2>1. CASE d = c
    BY <1>0, <2>1, CpuEnters DEF Core
  <2>2. CASE d # c
    BY <1>0, <2>2, CpuOthers DEF Core, ApRunsOnlyAfterSipi
  <2> QED
    BY <2>1, <2>2
<1>11. [pc EXCEPT ![c] = "enter"] \in [Cpus -> CpuPcs]
  BY <1>0 DEF FieldTypes, CpuPcs
<1>12. CASE restarts
  <2>1. mpc' = "poll"
    BY <1>2, <1>3, <1>5, <1>12 DEF MainPauses
  <2>2. AskedInv' /\ AnswerInv'
    BY <2>1 DEF AskedInv, AnswerInv, MainPauses
  <2>3. pc' = Kicked([pc EXCEPT ![c] = "enter"], Cpus)
    BY <1>12 DEF CpuSaveDone
  <2>4. NoLostWakeup'
    BY <1>11, <2>3, KickedType DEF NoLostWakeup
  <2> QED
    BY <1>1, <1>7, <1>8, <1>9, <1>10, <2>2, <2>4 DEF Core
<1>13. CASE ~restarts
  <2>1. runstate' = runstate /\ \A d \in Cpus : stop'[d] = stop[d] /\ stopped'[d] = stopped[d]
    BY <1>0, <1>13 DEF CpuSaveDone, FieldTypes
  <2>2. AskedInv'
    BY <1>2, <2>1 DEF Core, AskedInv, MainPauses
  <2>3. \A d \in Cpus : pc'[d] = "idle" => pc[d] = "idle" /\ d # c
    BY <1>0, CpuSleeps, CpuOthers DEF cpu_thread_is_idle, CpuSaveDone, Kicked, FieldTypes
  <2>4. \A d \in Cpus : pc[d] # "idle" => pc'[d] # "idle"
    BY <2>3
  <2>5. AnswerInv'
    BY <1>2, <2>1, <2>4 DEF Core, AnswerInv
  <2>6. NoLostWakeup'
    <3> SUFFICES ASSUME NEW d \in Cpus, pc'[d] = "idle"
                 PROVE  cpu_thread_is_idle(d)' \/ wakeup_reason'
      BY DEF NoLostWakeup
    <3>1. pc[d] = "idle" /\ irq'[d] = irq[d]
      BY <1>0, <2>3, CpuOthers
    <3>2. cpu_thread_is_idle(d) \/ wakeup_reason
      BY <3>1 DEF Core, NoLostWakeup
    <3>3. HasItems(d)' => HasItems(d)
      BY <1>2, <1>6 DEF HasItems, SaveItem
    <3> QED
      BY <1>2, <2>1, <3>1, <3>2, <3>3 DEF cpu_thread_is_idle, cpu_is_stopped, cpu_has_work
  <2> QED
    BY <1>1, <1>7, <1>8, <1>9, <1>10, <2>2, <2>5, <2>6 DEF Core
<1> QED
  BY <1>12, <1>13

-----------------------------------------------------------------------------
(* The Cocoa thread *)

(* What it stores takes a stop request back or declares a CPU stopped: no  *)
(* CPU has more to do for that, and a pause in which it happens is marked. *)
LEMMA CocoaStep ==
    ASSUME Core, Cocoa
    PROVE  Core'
<1>0. Basic /\ FieldTypes
  BY TypeParts DEF Core, Basic
<1>1. /\ Basic' /\ save' = save /\ scpu' = scpu /\ sitem' = sitem /\ mcpu' = mcpu
      /\ runstate' = runstate /\ wakeup_reason' = wakeup_reason
      /\ mpc' = mpc \/ (mpc = "pwait" /\ mpc' = "pwoken")
      /\ \A c \in Cpus : /\ stop'[c] => stop[c]
                         /\ stopped[c] => stopped'[c]
                         /\ stop'[c] = stop[c] \/ ~MainPauses \/ raced'
      /\ raced => raced'
      /\ pc' = pc /\ hlt' = hlt /\ halted' = halted /\ irq' = irq /\ iflag' = iflag
      /\ dirty' = dirty /\ work' = work
  BY <1>0, CocoaBasic
<1>2. (MainPauses' <=> MainPauses) /\ (MainHasPaused' <=> MainHasPaused)
  BY <1>1 DEF MainPauses, MainHasPaused
<1>3. AskedInv'
  BY <1>1, <1>2 DEF Core, AskedInv
<1>4. AwakeInv'
  BY <1>1 DEF Core, AwakeInv
<1>5. AnswerInv'
  <2> SUFFICES ASSUME mpc' \in {"pgap", "pwait"}, ~raced'
               PROVE  \E d \in Cpus : stop'[d] /\ pc'[d] # "idle"
    BY DEF AnswerInv
  <2>1. mpc = mpc' /\ ~raced /\ MainPauses
    BY <1>1 DEF MainPauses
  <2>2. PICK d \in Cpus : stop[d] /\ pc[d] # "idle"
    BY <2>1 DEF Core, AnswerInv
  <2>3. stop'[d] = stop[d]
    BY <1>1, <2>1
  <2> QED
    BY <1>1, <2>2, <2>3
<1>6. PausedInv'
  BY <1>1, <1>2 DEF Core, PausedInv, cpu_is_stopped
<1>7. WorkInv' /\ DirtyInv'
  BY <1>1 DEF Core, WorkInv, DirtyInv
<1>8. RegistersExclusive' /\ ApRunsOnlyAfterSipi'
  BY <1>1 DEF Core, RegistersExclusive, ApRunsOnlyAfterSipi
<1>9. NoLostWakeup'
  <2> SUFFICES ASSUME NEW c \in Cpus, pc[c] = "idle", ~wakeup_reason
               PROVE  cpu_thread_is_idle(c)'
    BY <1>1 DEF NoLostWakeup
  <2>1. cpu_thread_is_idle(c)
    BY DEF Core, NoLostWakeup
  <2>2. HasItems(c)' => HasItems(c)
    BY <1>1 DEF HasItems, SaveItem
  <2> QED
    BY <1>1, <2>1, <2>2 DEF cpu_thread_is_idle, cpu_is_stopped, cpu_has_work
<1> QED
  BY <1>1, <1>3, <1>4, <1>5, <1>6, <1>7, <1>8, <1>9 DEF Core

-----------------------------------------------------------------------------
(* Steps of the main thread that give the CPUs nothing to do *)

(* No work is queued while the main thread waits for none. *)
LEMMA NoWork ==
    ASSUME Core, mpc \notin {"syncwait", "postwait"}, NEW c \in Cpus
    PROVE  work[c] = "none"
BY DEF Core, WorkInv

(* The places where the main thread waits for CPUs. *)
Waits == {"ptest", "pgap", "pwait", "pwoken", "syncwait", "postwait"}

(* What remains to be shown of a step that gives no CPU anything to do and *)
(* does not end in a wait for one: the run state is not ahead of the CPUs  *)
(* unless a wakeup is requested, and what a pause promises holds where it  *)
(* leads.                                                                  *)
LEMMA QuietStep ==
    ASSUME Core, MainWakes \/ MainStep,
           UNCHANGED <<pc, hlt, halted, irq, iflag, dirty, work>>,
           \A c \in Cpus : (stop'[c] => stop[c]) /\ (stopped[c] => stopped'[c]),
           mpc' \notin Waits,
           \A c \in Cpus : work[c] = "none",
           runstate' = runstate \/ runstate' # "running" \/ wakeup_reason',
           wakeup_reason => wakeup_reason',
           PausedInv', RegistersExclusive'
    PROVE  Core'
<1>1. Basic' /\ save' # "overlapped" /\ scpu' = scpu /\ sitem' = sitem
  BY MainBasic, MainMoves DEF Core
<1>2. AskedInv' /\ AwakeInv' /\ AnswerInv'
  BY DEF AskedInv, AwakeInv, AnswerInv, MainPauses, Waits
<1>3. WorkInv'
  BY DEF WorkInv
<1>4. DirtyInv'
  BY DEF Core, DirtyInv, Waits
<1>5. NoLostWakeup'
  <2> SUFFICES ASSUME NEW c \in Cpus, pc[c] = "idle", ~wakeup_reason'
               PROVE  cpu_thread_is_idle(c)'
    BY DEF NoLostWakeup
  <2>1. cpu_thread_is_idle(c)
    BY DEF Core, NoLostWakeup
  <2>2. runstate' = runstate \/ runstate' # "running"
    OBVIOUS
  <2>3. HasItems(c)' => HasItems(c)
    BY <1>1 DEF HasItems, SaveItem
  <2> QED
    BY <2>1, <2>2, <2>3 DEF cpu_thread_is_idle, cpu_is_stopped, cpu_has_work
<1>6. ApRunsOnlyAfterSipi'
  BY DEF Core, ApRunsOnlyAfterSipi
<1> QED
  BY <1>1, <1>2, <1>3, <1>4, <1>5, <1>6 DEF Core

(* Polling, the requests, and taking them. *)
LEMMA MainRequests ==
    ASSUME Core,
           \/ MainWakes \/ MainResetRequest \/ MainWakeupRequest \/ MainSavevmFails
           \/ MainSavevm \/ MainSavevmStopped \/ MainNothing \/ MainStage \/ MainExits
    PROVE  Core'
<1>0. Basic /\ FieldTypes /\ (MainWakes \/ MainStep)
  BY TypeParts DEF Core, Basic, MainStep
<1>1. /\ mpc \in Stages \cup {"poll", "dispatch"}
      /\ mpc' \in Stages \cup {"poll", "dispatch", "pause", "saveram", "exited"}
      /\ mpc' = "saveram" => runstate' # "running"
      /\ runstate' = runstate \/ (runstate' = "running" /\ wakeup_reason' = TRUE)
      /\ wakeup_reason' = wakeup_reason \/ wakeup_reason' = TRUE
  BY <1>0, RequestsBasic
<1>2. /\ UNCHANGED <<pc, hlt, halted, irq, iflag, dirty, work>>
      /\ \A c \in Cpus : (stop'[c] => stop[c]) /\ (stopped[c] => stopped'[c])
  <2>1. CASE MainResetRequest
    <3>1. PICK c \in Cpus : /\ stop' = [stop EXCEPT ![c] = FALSE]
                            /\ stopped' = [stopped EXCEPT ![c] = TRUE]
      BY <2>1 DEF MainResetRequest
    <3>2. UNCHANGED <<pc, hlt, halted, irq, iflag, dirty, work>>
      BY <2>1 DEF MainResetRequest
    <3> QED
      BY <1>0, <3>1, <3>2 DEF FieldTypes
  <2>2. CASE ~MainResetRequest
    <3>1. UNCHANGED cpuvars
      BY <2>2 DEF MainWakes, MainWakeupRequest, MainSavevmFails, MainSavevm, MainSavevmStopped,
                  MainNothing, MainStage, StageSkip, StageTake, MainExits
    <3> QED
      BY <3>1 DEF cpuvars
  <2> QED
    BY <2>1, <2>2
<1>3. mpc' \notin Waits /\ RegistersExclusive'
  BY <1>1 DEF Waits, RegistersExclusive, Stages
<1>4. PausedInv'
  BY <1>1 DEF PausedInv, MainHasPaused, Stages, cpu_is_stopped
<1>5. \A c \in Cpus : work[c] = "none"
  BY <1>1, NoWork DEF Stages
<1>6. wakeup_reason => wakeup_reason'
  BY <1>1
<1> QED
  BY <1>0, <1>1, <1>2, <1>3, <1>4, <1>5, <1>6, QuietStep

(* What is done to a VM that is paused. *)
LEMMA MainPaused ==
    ASSUME Core,
           \/ PausedSuspend \/ PausedSuspendAborts \/ PausedVmstop \/ PausedSavevm
           \/ PausedSavevmFails \/ PausedReset \/ SaveRamDone \/ SaveDone
    PROVE  Core'
<1>0. Basic /\ MainStep
  BY DEF Core, MainStep
<1>1. /\ mpc \in {"paused", "saveram", "sync"} /\ wakeup_reason' = wakeup_reason
      /\ UNCHANGED cpuvars
      /\ mpc' \in {"shutdown", "aborted", "poll", "saveram", "suspend", "sync"}
      /\ mpc' = "sync" => mcpu' = 0
      /\ runstate' = runstate \/ runstate' \in {"suspended", "io-error", "save-vm"}
  BY <1>0, PausedBasic
<1>2. /\ UNCHANGED <<pc, hlt, halted, irq, iflag, dirty, work>>
      /\ \A c \in Cpus : stop'[c] = stop[c] /\ stopped'[c] = stopped[c]
  BY <1>1 DEF cpuvars
<1>3. mpc' \notin Waits
  BY <1>1 DEF Waits
<1>4. RegistersExclusive'
  <2>1. \A c \in Cpus : ~(c < 0)
    BY DEF Cpus
  <2> QED
    BY <1>1, <2>1 DEF RegistersExclusive
<1>5. PausedInv'
  <2>1. MainHasPaused
    BY <1>1 DEF MainHasPaused
  <2> QED
    BY <1>1, <1>2, <2>1 DEF Core, PausedInv, cpu_is_stopped
<1>6. \A c \in Cpus : work[c] = "none"
  BY <1>1, NoWork
<1>7. runstate' = runstate \/ runstate' # "running"
  BY <1>1
<1> QED
  BY <1>0, <1>1, <1>2, <1>3, <1>4, <1>5, <1>6, <1>7, QuietStep

(* run_on_cpu returns: the item is done. *)
LEMMA MainWorkDone ==
    ASSUME Core, WorkDone("syncwait", "sync") \/ WorkDone("postwait", "post")
    PROVE  Core'
<1>0. MainStep /\ MainTypes
  BY TypeParts DEF Core, Basic, MainStep
<1>1. /\ UNCHANGED cpuvars /\ UNCHANGED reqvars /\ runstate' = runstate
      /\ mcpu' = mcpu + 1 /\ work[mcpu] = "none"
      /\ \/ mpc = "syncwait" /\ mpc' = "sync"
         \/ mpc = "postwait" /\ mpc' = "post"
  BY DEF WorkDone
<1>2. mcpu \in Cpus
  BY <1>0, <1>1, CpuCount DEF MainTypes, Core, Basic, OpInv, Cpus
<1>3. /\ UNCHANGED <<pc, hlt, halted, irq, iflag, dirty, work>> /\ wakeup_reason' = wakeup_reason
      /\ \A c \in Cpus : stop'[c] = stop[c] /\ stopped'[c] = stopped[c]
  BY <1>1 DEF cpuvars, reqvars
<1>4. PausedInv'
  BY <1>1, <1>3 DEF Core, PausedInv, MainHasPaused, cpu_is_stopped
<1>5. \A c \in Cpus : work[c] = "none"
  BY <1>1 DEF Core, WorkInv
<1>6. RegistersExclusive'
  <2>1. CASE mpc = "syncwait"
    <3>1. mpc' = "sync"
      BY <1>1, <2>1
    <3>2. ASSUME NEW c \in Cpus, c < mcpu + 1
          PROVE  dirty[c] /\ pc[c] \notin {"enter", "guest"}
      <4>1. CASE c < mcpu
        BY <2>1, <4>1 DEF Core, RegistersExclusive
      <4>2. CASE c = mcpu
        BY <1>1, <2>1, <4>2 DEF Core, DirtyInv
      <4> QED
        BY <1>2, <3>2, <4>1, <4>2, Names DEF Cpus
    <3> QED
      BY <1>1, <1>3, <3>1, <3>2 DEF RegistersExclusive
  <2>2. CASE mpc = "postwait"
    BY <1>1, <1>3, <2>2 DEF Core, RegistersExclusive
  <2> QED
    BY <1>1, <2>1, <2>2
<1>7. mpc' \notin Waits
  BY <1>1 DEF Waits
<1> QED
  BY <1>0, <1>1, <1>3, <1>4, <1>5, <1>6, <1>7, QuietStep

-----------------------------------------------------------------------------
(* Steps of the main thread that ask, kick or reset the CPUs *)

(* What a kick of the CPUs in S does. *)
LEMMA MainKick ==
    ASSUME Core, NEW S, pc' = Kicked(pc, S), NEW c \in Cpus
    PROVE  /\ pc'[c] = "idle" => pc[c] = "idle" /\ c \notin S
           /\ pc'[c] \in {"enter", "guest"} <=> pc[c] \in {"enter", "guest"}
           /\ pc'[c] = "guest" <=> pc[c] = "guest"
BY KickedType DEF Core, Basic, TypeOK

(* An interrupt of a device. *)
LEMMA MainInterrupts ==
    ASSUME Core, MainInterrupt
    PROVE  Core'
<1>0. FieldTypes /\ MainStep
  BY TypeParts DEF Core, Basic, MainStep
<1>1. PICK d \in Cpus : irq' = [irq EXCEPT ![d] = @ \cup {"HARD"}] /\ pc' = Kicked(pc, {d})
  BY DEF MainInterrupt, veertu_interrupt_handle
<1>2. /\ mpc = "dispatch" /\ mpc' = "suspend"
      /\ stop' = stop /\ stopped' = stopped /\ hlt' = hlt /\ halted' = halted
      /\ iflag' = iflag /\ dirty' = dirty /\ work' = work /\ runstate' = runstate
      /\ UNCHANGED reqvars
  BY DEF MainInterrupt, MainGoto
<1>3. Basic' /\ save' # "overlapped" /\ scpu' = scpu /\ sitem' = sitem
  BY <1>0, MainBasic, MainMoves DEF Core
<1>4. AskedInv' /\ AwakeInv' /\ AnswerInv' /\ PausedInv' /\ RegistersExclusive'
  BY <1>2 DEF AskedInv, AwakeInv, AnswerInv, PausedInv, MainPauses, MainHasPaused,
              RegistersExclusive
<1>5. WorkInv'
  BY <1>2, NoWork DEF WorkInv
<1>6. DirtyInv' /\ ApRunsOnlyAfterSipi'
  BY <1>1, <1>2, MainKick DEF Core, DirtyInv, ApRunsOnlyAfterSipi
<1>7. NoLostWakeup'
  <2> SUFFICES ASSUME NEW c \in Cpus, pc'[c] = "idle"
               PROVE  cpu_thread_is_idle(c)' \/ wakeup_reason'
    BY DEF NoLostWakeup
  <2>1. pc[c] = "idle" /\ c # d
    BY <1>1, MainKick
  <2>2. irq'[c] = irq[c]
    BY <1>0, <1>1, <2>1 DEF FieldTypes
  <2>3. cpu_thread_is_idle(c) \/ wakeup_reason
    BY <2>1 DEF Core, NoLostWakeup
  <2>4. HasItems(c)' => HasItems(c)
    BY <1>2, <1>3 DEF HasItems, SaveItem
  <2> QED
    BY <1>2, <2>2, <2>3, <2>4 DEF cpu_thread_is_idle, cpu_is_stopped, cpu_has_work, reqvars
<1> QED
  BY <1>3, <1>4, <1>5, <1>6, <1>7 DEF Core

(* pause_all_vcpus, when it asks all CPUs and when it kicks them again. *)
LEMMA MainAsks ==
    ASSUME Core, PauseAsk \/ PauseRecheck
    PROVE  Core'
<1>0. FieldTypes /\ MainStep
  BY TypeParts DEF Core, Basic, MainStep
<1>1. /\ pc' = Kicked(pc, Cpus) /\ mpc \in {"pause", "pwoken"} /\ mpc' = "ptest"
      /\ stopped' = stopped /\ halted' = halted /\ dirty' = dirty /\ work' = work
      /\ raced' = raced
  BY DEF PauseAsk, AskAllToStop, PauseRecheck, MainGoto, sidevars, cocoavars
<1>2. Basic' /\ save' # "overlapped"
  BY <1>0, MainBasic, MainMoves DEF Core
<1>3. AskedInv'
  <2>1. CASE PauseAsk
    BY <2>1 DEF PauseAsk, AskAllToStop, AskedInv
  <2>2. CASE PauseRecheck
    <3>1. mpc = "pwoken" /\ stop' = stop
      BY <2>2 DEF PauseRecheck
    <3> QED
      BY <1>1, <3>1 DEF Core, AskedInv, MainPauses
  <2> QED
    BY <2>1, <2>2
<1>4. \A c \in Cpus : pc'[c] # "idle"
  BY <1>1, MainKick
<1>5. AwakeInv' /\ AnswerInv' /\ PausedInv' /\ RegistersExclusive' /\ NoLostWakeup'
  BY <1>1, <1>4 DEF AwakeInv, AnswerInv, PausedInv, MainHasPaused, RegistersExclusive,
                    NoLostWakeup
<1>6. WorkInv'
  BY <1>1, NoWork DEF WorkInv
<1>7. DirtyInv' /\ ApRunsOnlyAfterSipi'
  BY <1>1, MainKick DEF Core, DirtyInv, ApRunsOnlyAfterSipi
<1> QED
  BY <1>2, <1>3, <1>5, <1>6, <1>7 DEF Core

(* It finds all stopped or some awake that has yet to answer, and sleeps.  *)
LEMMA MainTests ==
    ASSUME Core, PauseTest \/ PauseSleep
    PROVE  Core'
<1>0. MainStep
  BY DEF MainStep
<1>1. /\ UNCHANGED cpuvars /\ UNCHANGED reqvars /\ runstate' = runstate
      /\ \/ mpc = "ptest" /\ mpc' = "paused" /\ AllPaused
         \/ mpc = "ptest" /\ mpc' = "pgap" /\ ~AllPaused /\ (raced => raced')
         \/ mpc = "pgap" /\ mpc' = "pwait" /\ (raced => raced')
  <2>1. CASE PauseTest /\ AllPaused
    BY <2>1 DEF PauseTest, MainGoto
  <2>2. CASE PauseTest /\ ~AllPaused
    BY <2>2 DEF PauseTest, MainGoto
  <2>3. CASE PauseSleep
    BY <2>3 DEF PauseSleep, MainGoto, sidevars, cocoavars
  <2> QED
    BY <2>1, <2>2, <2>3
<1>2. /\ pc' = pc /\ stop' = stop /\ stopped' = stopped /\ hlt' = hlt /\ halted' = halted
      /\ irq' = irq /\ iflag' = iflag /\ dirty' = dirty /\ work' = work
      /\ wakeup_reason' = wakeup_reason
  BY <1>1 DEF cpuvars, reqvars
<1>3. Basic' /\ save' # "overlapped" /\ scpu' = scpu /\ sitem' = sitem
  BY <1>0, MainBasic, MainMoves DEF Core
<1>4. AskedInv'
  BY <1>1, <1>2 DEF Core, AskedInv, MainPauses
<1>5. AwakeInv'
  BY <1>1, <1>2 DEF Core, AwakeInv
<1>6. AnswerInv'
  <2>1. CASE mpc = "ptest"
    BY <1>1, <1>2, <2>1 DEF Core, AskedInv, MainPauses, AwakeInv, AnswerInv, AllPaused
  <2>2. CASE mpc = "pgap"
    BY <1>1, <1>2, <2>2 DEF Core, AnswerInv
  <2> QED
    BY <1>1, <2>1, <2>2
<1>7. PausedInv'
  BY <1>1, <1>2 DEF PausedInv, MainHasPaused, AllPaused, cpu_is_stopped
<1>8. WorkInv'
  BY <1>1, <1>2, NoWork DEF WorkInv
<1>9. DirtyInv' /\ RegistersExclusive' /\ ApRunsOnlyAfterSipi'
  BY <1>1, <1>2 DEF Core, DirtyInv, RegistersExclusive, ApRunsOnlyAfterSipi
<1>10. NoLostWakeup'
  BY <1>1, <1>2, <1>3
  DEF Core, NoLostWakeup, cpu_thread_is_idle, cpu_is_stopped, cpu_has_work, HasItems, SaveItem
<1> QED
  BY <1>3, <1>4, <1>5, <1>6, <1>7, <1>8, <1>9, <1>10 DEF Core

(* cpu_synchronize_all_states and cpu_synchronize_all_post_reset queue     *)
(* work for one CPU after the other.                                       *)
LEMMA MainQueues ==
    ASSUME Core, SyncCpu \/ PostResetCpu
    PROVE  Core'
<1>0. FieldTypes /\ MainTypes /\ MainStep /\ \A c \in Cpus : work[c] = "none"
  <2>1. mpc \notin {"syncwait", "postwait"}
    BY DEF SyncCpu, PostResetCpu
  <2> QED
    BY <2>1, TypeParts, NoWork DEF Core, Basic, MainStep
<1>1. /\ mpc \in {"sync", "post"} /\ mcpu < NCpus
      /\ stop' = stop /\ stopped' = stopped /\ hlt' = hlt /\ halted' = halted /\ irq' = irq
      /\ iflag' = iflag /\ dirty' = dirty /\ runstate' = runstate /\ UNCHANGED reqvars
  BY DEF SyncCpu, PostResetCpu, MainGoto
<1>2. mcpu \in Cpus
  BY <1>0, <1>1, CpuCount DEF MainTypes, Cpus
<1>3. CASE SyncCpu /\ ~NeedsSync(mcpu)
  <2>1. /\ mpc = "sync" /\ mpc' = "sync" /\ mcpu' = mcpu + 1 /\ dirty[mcpu]
        /\ pc' = pc /\ work' = work
    BY <1>1, <1>3 DEF SyncCpu, NeedsSync
  <2>2. PausedInv'
    BY <1>1, <2>1 DEF Core, PausedInv, MainHasPaused, cpu_is_stopped
  <2>3. RegistersExclusive'
    <3>1. ASSUME NEW c \in Cpus, c < mcpu + 1
          PROVE  dirty[c] /\ pc[c] \notin {"enter", "guest"}
      <4>1. CASE c < mcpu
        BY <2>1, <4>1 DEF Core, RegistersExclusive
      <4>2. CASE c = mcpu
        BY <2>1, <4>2 DEF Core, DirtyInv
      <4> QED
        BY <1>2, <3>1, <4>1, <4>2, Names DEF Cpus
    <3> QED
      BY <1>1, <2>1, <3>1 DEF RegistersExclusive
  <2>4. mpc' \notin Waits
    BY <2>1 DEF Waits
  <2>5. wakeup_reason' = wakeup_reason
    BY <1>1 DEF reqvars
  <2> QED
    BY <1>0, <1>1, <2>1, <2>2, <2>3, <2>4, <2>5, QuietStep
<1>4. CASE PostResetCpu \/ (SyncCpu /\ NeedsSync(mcpu))
  <2>1. PICK item \in {"sync", "reset"} :
          /\ work' = [work EXCEPT ![mcpu] = item] /\ pc' = Kicked(pc, {mcpu})
          /\ mcpu' = mcpu
          /\ \/ mpc = "sync" /\ mpc' = "syncwait" /\ item = "sync"
             \/ mpc = "post" /\ mpc' = "postwait" /\ item = "reset"
    BY <1>4 DEF PostResetCpu, SyncCpu, run_on_cpu, MainGoto
  <2>2. Basic' /\ save' # "overlapped" /\ scpu' = scpu /\ sitem' = sitem
    BY <1>0, MainBasic, MainMoves DEF Core
  <2>3. \A c \in Cpus : work'[c] = IF c = mcpu THEN item ELSE "none"
    BY <1>0, <1>2, <2>1 DEF FieldTypes
  <2>4. AskedInv' /\ AwakeInv' /\ AnswerInv'
    BY <2>1 DEF AskedInv, AwakeInv, AnswerInv, MainPauses
  <2>5. PausedInv'
    BY <1>1, <2>1 DEF Core, PausedInv, MainHasPaused, cpu_is_stopped
  <2>6. WorkInv'
    <3> SUFFICES ASSUME NEW c \in Cpus, work'[c] # "none"
                 PROVE  /\ c = mcpu'
                        /\ \/ mpc' = "syncwait" /\ work'[c] = "sync"
                           \/ mpc' = "postwait" /\ work'[c] = "reset"
      BY DEF WorkInv
    <3>1. c = mcpu /\ work'[c] = item
      BY <2>3
    <3> QED
      BY <2>1, <3>1
  <2>7. DirtyInv'
    BY <1>1, <1>2, <2>1, <2>3, MainKick DEF Core, DirtyInv
  <2>8. RegistersExclusive' /\ ApRunsOnlyAfterSipi'
    BY <1>1, <2>1, MainKick DEF Core, RegistersExclusive, ApRunsOnlyAfterSipi
  <2>9. NoLostWakeup'
    <3> SUFFICES ASSUME NEW c \in Cpus, pc'[c] = "idle"
                 PROVE  cpu_thread_is_idle(c)' \/ wakeup_reason'
      BY DEF NoLostWakeup
    <3>1. pc[c] = "idle" /\ work'[c] = work[c]
      BY <1>0, <2>1, <2>3, MainKick
    <3>2. cpu_thread_is_idle(c) \/ wakeup_reason
      BY <3>1 DEF Core, NoLostWakeup
    <3>3. HasItems(c)' => HasItems(c)
      BY <2>2, <3>1 DEF HasItems, SaveItem
    <3> QED
      BY <1>1, <3>2, <3>3 DEF cpu_thread_is_idle, cpu_is_stopped, cpu_has_work, reqvars
  <2> QED
    BY <2>2, <2>4, <2>5, <2>6, <2>7, <2>8, <2>9 DEF Core
<1> QED
  BY <1>3, <1>4

(* The reset of the devices and CPUs. *)
LEMMA MainResets ==
    ASSUME Core, DevicesReset
    PROVE  Core'
<1>0. MainStep
  BY DEF MainStep
<1>1. /\ mpc = "sync" /\ mcpu = NCpus /\ mpc' = "post" /\ mcpu' = 0 /\ pc' = pc
      /\ stop' = stop /\ stopped' = stopped /\ dirty' = dirty /\ work' = work
      /\ runstate' = runstate /\ UNCHANGED reqvars
  BY DEF DevicesReset
<1>2. Basic' /\ save' # "overlapped" /\ scpu' = scpu /\ sitem' = sitem
  BY <1>0, MainBasic, MainMoves DEF Core
<1>3. \A c \in Cpus : pc[c] \notin {"enter", "guest"}
  <2>1. \A c \in Cpus : c < mcpu
    BY <1>1, CpuCount DEF Cpus
  <2> QED
    BY <1>1, <2>1 DEF Core, RegistersExclusive
<1>4. AskedInv' /\ AwakeInv' /\ AnswerInv'
  BY <1>1 DEF AskedInv, AwakeInv, AnswerInv, MainPauses
<1>5. \A c \in Cpus : cpu_is_stopped(c)
  BY <1>1 DEF Core, PausedInv, MainHasPaused
<1>6. PausedInv'
  BY <1>1, <1>5 DEF PausedInv, cpu_is_stopped
<1>7. WorkInv'
  BY <1>1, NoWork DEF WorkInv
<1>8. DirtyInv'
  BY <1>1 DEF Core, DirtyInv
<1>9. RegistersExclusive' /\ ApRunsOnlyAfterSipi'
  BY <1>1, <1>3 DEF RegistersExclusive, ApRunsOnlyAfterSipi
<1>10. NoLostWakeup'
  BY <1>1, <1>2, <1>5
  DEF Core, NoLostWakeup, cpu_thread_is_idle, cpu_is_stopped, HasItems, SaveItem, reqvars
<1> QED
  BY <1>2, <1>4, <1>6, <1>7, <1>8, <1>9, <1>10 DEF Core

(* resume_all_vcpus, after a reset and in vm_start. *)
LEMMA MainResumes ==
    ASSUME Core, ResetDone \/ VmStart
    PROVE  Core'
<1>0. MainStep
  BY DEF MainStep
<1>1. /\ mpc \in {"post", "vmstart"} /\ mpc' = NextStage[op] /\ ResumeAll
      /\ halted' = halted /\ dirty' = dirty /\ work' = work
  BY DEF ResetDone, VmStart, MainGoesOn
<1>2. mpc' \in {"wakeup", "vmstop", "poll"}
  <2>1. op \in {"reset", "wakeup", "boot"}
    BY <1>1 DEF Core, Basic, OpInv
  <2> QED
    BY <1>1, <2>1 DEF NextStage
<1>3. pc' = Kicked(pc, Cpus)
  BY <1>1 DEF ResumeAll
<1>4. Basic' /\ save' # "overlapped"
  BY <1>0, MainBasic, MainMoves DEF Core
<1>5. AskedInv' /\ AwakeInv' /\ AnswerInv' /\ PausedInv' /\ RegistersExclusive'
  BY <1>2 DEF AskedInv, AwakeInv, AnswerInv, MainPauses, PausedInv, MainHasPaused,
              RegistersExclusive
<1>6. WorkInv'
  BY <1>1, NoWork DEF WorkInv
<1>7. DirtyInv' /\ ApRunsOnlyAfterSipi'
  BY <1>1, <1>2, <1>3, MainKick DEF Core, DirtyInv, ApRunsOnlyAfterSipi
<1>8. NoLostWakeup'
  BY <1>3, MainKick DEF NoLostWakeup
<1> QED
  BY <1>4, <1>5, <1>6, <1>7, <1>8 DEF Core

-----------------------------------------------------------------------------
(* The theorems *)

(* The start up of the program leaves the threads in a consistent state. *)
LEMMA InitIInv == Init => IInv
<1> SUFFICES ASSUME Init PROVE IInv
  OBVIOUS
<1>1. FieldTypes
  <2>1. stop \in [Cpus -> BOOLEAN] /\ stopped \in [Cpus -> BOOLEAN]
        /\ hlt \in [Cpus -> BOOLEAN] /\ iflag \in [Cpus -> BOOLEAN]
    BY DEF Init
  <2>2. halted \in [Cpus -> BOOLEAN] /\ dirty \in [Cpus -> BOOLEAN]
    BY DEF Init
  <2>3. pc \in [Cpus -> CpuPcs] /\ irq \in [Cpus -> SUBSET Irqs]
        /\ work \in [Cpus -> {"none", "sync", "reset"}]
    BY DEF Init, CpuPcs
  <2> QED
    BY <2>1, <2>2, <2>3 DEF FieldTypes
<1>2. RequestTypes
  BY DEF Init, RequestTypes
<1>3. MainTypes
  BY CpuCount DEF Init, MainTypes, MainPcs, Ops
<1>4. SideTypes
  <2>1. raced \in BOOLEAN /\ sitem \in BOOLEAN
    BY DEF Init
  <2>2. scpu \in 0 .. NCpus
    BY CpuCount DEF Init
  <2> QED
    BY <2>1, <2>2 DEF Init, SideTypes
<1>5. TypeOK
  BY <1>1, <1>2, <1>3, <1>4, TypeParts, Names DEF Init, MutexTypes, CpuHolds
<1>6. MutexInv /\ OpInv /\ SaveInv
  BY DEF Init, MutexInv, MainHolds, MainPcs, OpInv, SaveInv, Saving
<1>7. AskedInv /\ AwakeInv /\ AnswerInv /\ PausedInv
  BY DEF Init, AskedInv, AwakeInv, AnswerInv, PausedInv, MainPauses, MainHasPaused
<1>8. WorkInv /\ DirtyInv /\ ApRunsOnlyAfterSipi /\ RegistersExclusive
  BY DEF Init, WorkInv, DirtyInv, ApRunsOnlyAfterSipi, RegistersExclusive
<1>9. NoLostWakeup
  BY DEF Init, NoLostWakeup, cpu_thread_is_idle, cpu_is_stopped, HasItems, SaveItem
<1> QED
  BY <1>5, <1>6, <1>7, <1>8, <1>9 DEF IInv, Core, Basic

(* Once a do_savevm has ended in the middle of an operation of the main    *)
(* loop, none begins any more: it runs once.                               *)
LEMMA OverlappedStays ==
    ASSUME Basic, save = "overlapped", MainWakes \/ MainStep \/ Cocoa \/ \E c \in Cpus : Cpu(c)
    PROVE  save' = "overlapped"
<1>1. CASE MainWakes \/ MainStep
  BY <1>1, MainMoves
<1>2. CASE Cocoa
  BY <1>2, CocoaBasic
<1>3. ASSUME NEW c \in Cpus, Cpu(c)
      PROVE  save' = "overlapped"
  <2>1. ~CpuSavevm(c) /\ ~CpuSavevmFails(c)
    BY DEF CpuSavevm, CpuSavevmFails
  <2>2. ~CpuSaveDone(c)
    BY DEF CpuSaveDone, Basic, SaveInv, Saving
  <2>3. save' = save
    BY <1>3, <2>1, <2>2
    DEF Cpu, YieldReturn, EnterHalted, EnterRun, ExitHlt, ExitInterrupt, ExitTripleFault,
        ExitIoPlain, CpuIrq, ExitIoInterrupt, ExitIoReset, ExitIoSuspend, ExitIoError,
        WaitSleep, WaitAgain, Exec, Woken, CpuSaveRamDone, CpuSyncState, CpuSyncQueued,
        CpuSyncDone, sidevars, savevars
  <2> QED
    BY <2>3
<1> QED
  BY <1>1, <1>2, <1>3

(* Every step preserves the inductive invariant. *)
LEMMA StepIInv == IInv /\ [Next]_vars => IInv'
<1> SUFFICES ASSUME IInv, [Next]_vars PROVE IInv'
  OBVIOUS
<1>1. CASE UNCHANGED vars
  <2> USE <1>1 DEF vars, cpuvars, reqvars, mainvars, sidevars, cocoavars, savevars
  <2>1. TypeOK' <=> TypeOK
    BY DEF TypeOK
  <2>2. Basic' <=> Basic
    BY <2>1 DEF Basic, MutexInv, OpInv, SaveInv
  <2>3. (AskedInv' <=> AskedInv) /\ (AwakeInv' <=> AwakeInv) /\ (AnswerInv' <=> AnswerInv)
    BY DEF AskedInv, AwakeInv, AnswerInv, MainPauses
  <2>4. (PausedInv' <=> PausedInv) /\ (WorkInv' <=> WorkInv) /\ (DirtyInv' <=> DirtyInv)
    BY DEF PausedInv, MainHasPaused, cpu_is_stopped, WorkInv, DirtyInv
  <2>5. /\ RegistersExclusive' <=> RegistersExclusive
        /\ ApRunsOnlyAfterSipi' <=> ApRunsOnlyAfterSipi
    BY DEF RegistersExclusive, ApRunsOnlyAfterSipi
  <2>6. NoLostWakeup' <=> NoLostWakeup
    BY DEF NoLostWakeup, cpu_thread_is_idle, cpu_is_stopped, cpu_has_work, HasItems, SaveItem
  <2> QED
    BY <2>2, <2>3, <2>4, <2>5, <2>6 DEF IInv, Core
<1>2. CASE MainWakes \/ MainStep \/ Cocoa \/ \E c \in Cpus : Cpu(c)
  <2>0. Basic
    BY DEF IInv
  <2>1. Basic'
    BY <1>2, <2>0, CpuBasic, MainBasic, CocoaBasic
  <2>2. ASSUME save' # "overlapped"
        PROVE  Core'
    <3>1. Core
      BY <1>2, <2>0, <2>2, OverlappedStays DEF IInv
    <3>2. CASE \E c \in Cpus : Cpu(c)
      BY <2>2, <3>1, <3>2, CpuStep, SaveEnds
    <3>3. CASE Cocoa
      BY <3>1, <3>3, CocoaStep
    <3>4. CASE MainWakes \/ MainStep
      BY <3>1, <3>4, MainRequests, MainPaused, MainWorkDone, MainInterrupts, MainAsks,
         MainTests, MainQueues, MainResets, MainResumes DEF MainStep
    <3> QED
      BY <1>2, <3>2, <3>3, <3>4
  <2> QED
    BY <2>1, <2>2 DEF IInv
<1> QED
  BY <1>1, <1>2 DEF Next

(* The inductive invariant holds in every reachable state. *)
THEOREM Invariance == Spec => []IInv
BY InitIInv, StepIInv, PTL DEF Spec

(* Every variable keeps its type, and the mutex belongs to exactly the CPU *)
(* whose thread runs under it.                                             *)
THEOREM TypeCorrect == Spec => []TypeOK
<1>1. IInv => TypeOK
  BY DEF IInv, Basic
<1> QED
  BY <1>1, Invariance, PTL

(* No CPU sleeps on halt_cond while it has something to do, for any number *)
(* of CPUs and any interrupts, pauses, resets, restarts and snapshots.     *)
THEOREM WakeupsAreNotLost == Spec => []NoLostWakeup
<1>1. IInv => NoLostWakeup
  BY DEF IInv, Core, NoLostWakeup
<1> QED
  BY <1>1, Invariance, PTL

(* While pause_all_vcpus sleeps some CPU is awake that has a stop request  *)
(* to answer, unless the Cocoa thread has taken a request of this pause    *)
(* back or a do_savevm on a CPU has restarted the VM meanwhile.            *)
THEOREM PausesAreAnswered == Spec => []PauseIsAnswered
<1>1. IInv => PauseIsAnswered
  BY DEF IInv, Core, AnswerInv, PauseIsAnswered
<1> QED
  BY <1>1, Invariance, PTL

(* The main loop works on registers that are up to date and that no guest  *)
(* code can change, unless a do_savevm on a CPU has ended in between.      *)
THEOREM RegistersAreExclusive == Spec => []RegistersExclusive
<1>1. IInv => RegistersExclusive
  BY DEF IInv, Core, RegistersExclusive
<1> QED
  BY <1>1, Invariance, PTL

(* No application processor runs guest code between its reset and its      *)
(* SIPI, with the same exception.                                          *)
THEOREM SipiComesFirst == Spec => []ApRunsOnlyAfterSipi
<1>1. IInv => ApRunsOnlyAfterSipi
  BY DEF IInv, Core, ApRunsOnlyAfterSipi
<1> QED
  BY <1>1, Invariance, PTL

(* No CPU begins a new veertu_cpu_exec between a pause and the resumption, *)
(* with the same exception.                                                *)
THEOREM PauseForbidsExec == Spec => NoExecWhilePaused
<1> DEFINE Quiet == \A c \in Cpus : MainHasPaused /\ pc[c] = "wait" /\ save # "overlapped"
                                       => pc'[c] # "enter"
<1>1. IInv /\ [Next]_vars => [Quiet]_vars
  <2> SUFFICES ASSUME IInv, Next, NEW d \in Cpus, MainHasPaused, pc[d] = "wait",
                      save # "overlapped"
               PROVE  pc'[d] # "enter" \/ UNCHANGED vars
    OBVIOUS
  <2>0. Basic /\ Core
    BY DEF IInv
  <2>1. CASE \E c \in Cpus : Cpu(c)
    <3>1. PICK c \in Cpus : Cpu(c)
      BY <2>1
    <3>2. CASE c = d
      <4>1. ~cpu_can_run(c) /\ DirtyInv
        BY <2>0 DEF Core, PausedInv, cpu_can_run
      <4>2. ~CpuSaveDone(c)
        BY <3>2 DEF CpuSaveDone
      <4> QED
        BY <2>0, <3>1, <3>2, <4>1, <4>2, CpuKeepsOut
    <3>3. CASE c # d
      BY <2>0, <3>1, <3>3, CpuOthers
    <3> QED
      BY <3>2, <3>3
  <2>2. CASE MainWakes \/ MainStep
    BY <2>0, <2>2, MainKicks
  <2>3. CASE Cocoa
    BY <2>0, <2>3, CocoaBasic
  <2> QED
    BY <2>1, <2>2, <2>3 DEF Next
<1> QED
  BY <1>1, Invariance, PTL DEF Spec, NoExecWhilePaused
=============================================================================
