------------------------------- MODULE Timers -------------------------------
(***************************************************************************)
(* The timers of one clock (QEMU_CLOCK_VIRTUAL) and the main loop that     *)
(* sleeps until the next one expires: util/vmx-timer.c, util/main-loop.c,  *)
(* block/async.c, and the events of util/qemu-thread-posix.c.              *)
(*                                                                         *)
(* The clock has two timer lists.  The main loop runs both; a virtual CPU  *)
(* that waits for a disk in aio_poll runs that of the AioContext too.      *)
(* Everything but MainSleep and Pausing happens under the global mutex, so *)
(* an action is what a thread does between two callbacks, or up to the     *)
(* point where it gives the mutex up.                                      *)
(***************************************************************************)
EXTENDS Integers, LinkedLists

CONSTANTS MainTimers, AioTimers,   \* the timers of each list
          MaxTime,                 \* the clock stops there
          NStages                  \* the requests that pause the CPUs, in the order
                                   \* in which main_loop_should_exit takes them

ASSUME TimersDisjoint == MainTimers \cap AioTimers = {}
ASSUME MaxTimeNat == MaxTime \in Nat
ASSUME NStagesPos == NStages \in Nat \ {0}

TimerSet == MainTimers \cup AioTimers
Lists == {"main", "aio"}
Home(t) == IF t \in MainTimers THEN "main" ELSE "aio"

VARIABLES
    now,             \* vmx_clock_get_ns, in units of the poll's timeout
    enabled,         \* clock->enabled
    expire,          \* ts->expire_time, -1 while it is not armed
    active,          \* timer_list->active_timers
    done,            \* timers_done_ev of each list
    run,             \* the list being run, by whom, current_time, and whether
                     \* a callback is being called
    notified,        \* the AioContext's notifier is set
    request,         \* the requests that are pending
    mpc, stage,      \* where the main loop is, and at which request
    wake_at,         \* when its poll times out; Never
    missed           \* a virtual CPU's aio_poll has taken, or kept back, a
                     \* notification since the main loop went to sleep

mainvars == <<mpc, stage, wake_at>>
vars == <<now, enabled, expire, active, done, run, notified, request, mainvars, missed>>

Never == MaxTime + 1
NoRun == [list |-> "none", by |-> "main", time |-> 0, cb |-> FALSE]

(* The main loop is about to begin.  Its list has not been run yet; that   *)
(* of the AioContext has, by the aio_poll that read the disk images.       *)
Init ==
    /\ now = 0 /\ enabled = TRUE
    /\ expire = [t \in TimerSet |-> -1]
    /\ active = [l \in Lists |-> <<>>]
    /\ done = [l \in Lists |-> IF l = "main" THEN "free" ELSE "set"]
    /\ run = NoRun
    /\ notified = FALSE /\ request = {}
    /\ mpc = "prepare" /\ stage = 1 /\ wake_at = Never /\ missed = FALSE

-----------------------------------------------------------------------------
(* Timer lists *)

timer_expired_ns(t, time) == expire[t] <= time

(* timer_del_locked: the timer, if the list has it, is taken out. *)
Without(l, t) == Removed(active[l], t)

(* Mutant: the new timer is put in front of the others. *)
PlaceFirst(rest, e) == 0

(* timer_mod_ns_locked: the timers that stay before one that expires at e. *)
Place(rest, e) ==
    LET before == {k \in DOMAIN rest : timer_expired_ns(rest[k], e)}
    IN  IF before = {} THEN 0 ELSE CHOOSE k \in before : \A j \in before : j <= k

(* Mutant: only a timer put into an empty list counts. *)
RearmsEmpty(rest, e) == rest = <<>>

(* Whether the main loop's deadline has to be computed again. *)
Rearms(rest, e) == Place(rest, e) = 0

(* vmx_notify_event and aio_timerlist_notify; aio_poll keeps notifications *)
(* back while it dispatches.                                               *)
aio_notify ==
    IF run.by = "cpu" THEN /\ missed' = (missed \/ mpc = "sleep")
                           /\ UNCHANGED notified
                      ELSE notified' = TRUE /\ UNCHANGED missed

timer_mod_ns(t, e) ==
    LET l    == Home(t)
        rest == Without(l, t)
        k    == Place(rest, e)
    IN  /\ active' = [active EXCEPT ![l] = SubSeq(rest, 1, k) \o <<t>> \o SubSeq(rest, k + 1, Len(rest))]
        /\ expire' = [expire EXCEPT ![t] = IF e > 0 THEN e ELSE 0]
        /\ IF Rearms(rest, e) THEN aio_notify ELSE UNCHANGED <<notified, missed>>

(* A time in the past and every time to come. *)
Times == {-2} \cup now .. MaxTime

(* timer_mod_anticipate_ns *)
timer_mod_anticipate_ns(t, e) == (expire[t] = -1 \/ expire[t] > e) /\ timer_mod_ns(t, e)

timer_del(t) ==
    /\ expire[t] # -1
    /\ active' = [active EXCEPT ![Home(t)] = Without(Home(t), t)]
    /\ expire' = [expire EXCEPT ![t] = -1]
    /\ UNCHANGED <<notified, missed>>

(* Mutant: the AioContext's timers are left out. *)
DeadlineMainOnly ==
    IF enabled /\ active["main"] # <<>> THEN expire[Head(active["main"])] ELSE Never

(* timerlistgroup_deadline_ns of both groups: when the first timer expires. *)
Deadline ==
    LET heads == {expire[Head(active[l])] : l \in {m \in Lists : enabled /\ active[m] # <<>>}}
    IN  IF heads = {} THEN Never ELSE CHOOSE e \in heads : \A f \in heads : e <= f

-----------------------------------------------------------------------------
(* timers_done_ev *)

EventReset(l) == [done EXCEPT ![l] = IF @ = "set" THEN "free" ELSE @]

(* Mutant: the event is set only if somebody waits for it. *)
EventSetIfBusy(l) == [done EXCEPT ![l] = IF @ = "busy" THEN "set" ELSE @]

EventSet(l) == [done EXCEPT ![l] = "set"]

(* vmx_event_wait compares the event with the value it read before it made *)
(* it busy, so that only who finds it busy sleeps.                         *)
SleepsOn(l) == done[l] = "busy"

EventAfterWait(l) == IF done[l] = "free" THEN "busy" ELSE done[l]

-----------------------------------------------------------------------------
(* timerlist_run_timers *)

RunBegin(l, by) ==
    \/ /\ enabled
       /\ run' = [list |-> l, by |-> by, time |-> now, cb |-> FALSE]
       /\ done' = EventReset(l)
    \/ /\ ~enabled
       /\ done' = EventSet(l)
       /\ UNCHANGED run

Expired(l, time) == active[l] # <<>> /\ timer_expired_ns(Head(active[l]), time)

(* The first timer is taken off the list and its callback called ... *)
RunOne ==
    /\ run.list # "none" /\ ~run.cb /\ Expired(run.list, run.time)
    /\ active' = [active EXCEPT ![run.list] = Tail(@)]
    /\ expire' = [expire EXCEPT ![Head(active[run.list])] = -1]
    /\ run' = [run EXCEPT !.cb = TRUE]
    /\ UNCHANGED <<now, enabled, done, notified, request, mainvars, missed>>

(* ... which may arm a timer, itself or another one, for a time to come,   *)
(* or delete one.                                                          *)
Callback ==
    /\ run.cb
    /\ run' = [run EXCEPT !.cb = FALSE]
    /\ \/ UNCHANGED <<expire, active, notified, missed>>
       \/ \E t \in TimerSet : timer_del(t) \/ \E e \in now + 1 .. MaxTime : timer_mod_ns(t, e)
    /\ UNCHANGED <<now, enabled, done, request, mainvars>>

RunEnd ==
    /\ run.list # "none" /\ ~run.cb /\ ~Expired(run.list, run.time)
    /\ done' = EventSet(run.list)
    /\ run' = NoRun
    /\ UNCHANGED <<now, enabled, expire, active, notified, request, mainvars, missed>>

-----------------------------------------------------------------------------
(* The threads that take the mutex while the main loop has given it up *)

MutexFree == mpc \in {"sleep", "pausing"} /\ run = NoRun

(* Device code of a virtual CPU, or the user interface, changes a timer. *)
OtherArms ==
    /\ MutexFree
    /\ \E t \in TimerSet :
          \/ \E e \in Times : timer_mod_ns(t, e) \/ timer_mod_anticipate_ns(t, e)
          \/ timer_del(t)
    /\ UNCHANGED <<now, enabled, done, run, request, mainvars>>

(* aio_poll on a virtual CPU's thread clears the notifier and runs the     *)
(* context's timers.                                                       *)
CpuPolls ==
    /\ MutexFree
    /\ notified' = FALSE
    /\ missed' = (missed \/ (notified /\ mpc = "sleep"))
    /\ RunBegin("aio", "cpu")
    /\ UNCHANGED <<now, enabled, expire, active, request, mainvars>>

(* A request to the main loop, with or without the mutex. *)
Request ==
    /\ \E s \in 1 .. NStages \ request : request' = request \cup {s}
    /\ aio_notify
    /\ UNCHANGED <<now, enabled, expire, active, done, run, mainvars>>

Tick ==
    /\ now < MaxTime
    /\ now' = now + 1
    /\ UNCHANGED <<enabled, expire, active, done, run, notified, request, mainvars, missed>>

-----------------------------------------------------------------------------
(* The main loop *)

(* main_loop_wait: with a timeout of zero it keeps the mutex. *)
Prepare ==
    /\ mpc = "prepare"
    /\ wake_at' = Deadline
    /\ mpc' = IF Deadline <= now THEN "check" ELSE "sleep"
    /\ missed' = FALSE
    /\ UNCHANGED <<now, enabled, expire, active, done, run, notified, request, stage>>

(* The poll returns: on the notifier, on its timeout or for something else. *)
WakeDue == notified \/ wake_at <= now

MainSleep ==
    /\ mpc = "sleep" /\ run = NoRun
    /\ mpc' = "check"
    /\ UNCHANGED <<now, enabled, expire, active, done, run, notified, request, wake_at, missed, stage>>

(* aio_ctx_check and aio_dispatch *)
AioDispatch ==
    /\ mpc = "check" /\ mpc' = "main"
    /\ \/ /\ notified \/ (enabled /\ Expired("aio", now))
          /\ notified' = FALSE
          /\ RunBegin("aio", "main")
       \/ /\ ~notified /\ ~(enabled /\ Expired("aio", now))
          /\ UNCHANGED <<notified, done, run>>
    /\ UNCHANGED <<now, enabled, expire, active, request, wake_at, missed, stage>>

(* vmx_clock_run_all_timers *)
RunMainTimers ==
    /\ mpc = "main" /\ run = NoRun
    /\ mpc' = "requests"
    /\ RunBegin("main", "main")
    /\ UNCHANGED <<now, enabled, expire, active, notified, request, wake_at, missed, stage>>

(* main_loop_should_exit takes the requests one after the other. *)
NextRequest ==
    IF stage < NStages THEN stage' = stage + 1 /\ mpc' = "requests"
                       ELSE stage' = 1 /\ mpc' = "prepare"

NoRequest ==
    /\ mpc = "requests" /\ run = NoRun /\ stage \notin request
    /\ NextRequest
    /\ UNCHANGED <<now, enabled, expire, active, done, run, notified, request, wake_at, missed>>

(* pause_all_vcpus disables the clock and waits for both lists ... *)
TakeRequest ==
    /\ mpc = "requests" /\ run = NoRun /\ stage \in request
    /\ request' = request \ {stage}
    /\ enabled' = FALSE
    /\ mpc' = IF enabled THEN "disabling" ELSE "pausing"
    /\ UNCHANGED <<now, expire, active, done, run, notified, stage, wake_at, missed>>

Disabling ==
    /\ mpc = "disabling" /\ \A l \in Lists : ~SleepsOn(l)
    /\ done' = [l \in Lists |-> EventAfterWait(l)]
    /\ mpc' = "pausing"
    /\ UNCHANGED <<now, enabled, expire, active, run, notified, request, stage, wake_at, missed>>

(* ... and, the CPUs being paused, the VM stays stopped or                 *)
(* resume_all_vcpus enables the clock again and notifies both lists.  The  *)
(* next request may disable it again before the lists are run.             *)
Pausing ==
    /\ mpc = "pausing" /\ run = NoRun
    /\ NextRequest
    /\ \/ enabled' = TRUE /\ notified' = TRUE
       \/ UNCHANGED <<enabled, notified>>
    /\ UNCHANGED <<now, expire, active, done, run, request, wake_at, missed>>

Main == Prepare \/ AioDispatch \/ RunMainTimers \/ NoRequest \/ TakeRequest \/ Disabling \/ Pausing
Run == RunOne \/ Callback \/ RunEnd

Next == Main \/ MainSleep \/ Run \/ OtherArms \/ CpuPolls \/ Request \/ Tick

Spec == Init /\ [][Next]_vars

(* Time passes, callbacks return, and a poll returns when it has to.  A    *)
(* virtual CPU does not keep the mutex from the main loop for ever.        *)
Fairness ==
    /\ WF_vars(Tick) /\ WF_vars(Run)
    /\ SF_vars(Main) /\ SF_vars(WakeDue /\ MainSleep)

FairSpec == Spec /\ Fairness

-----------------------------------------------------------------------------
(* Every variable has its type, and the lists hold exactly the timers that *)
(* are armed, each once and in the order in which they expire              *)
(* (timer_mod_ns_locked, timer_del_locked, timerlist_run_timers).          *)
TypeOK ==
    /\ now \in 0 .. MaxTime /\ wake_at \in 0 .. Never
    /\ {enabled, notified, missed} \subseteq BOOLEAN
    /\ request \subseteq 1 .. NStages /\ stage \in 1 .. NStages
    /\ expire \in [TimerSet -> -1 .. MaxTime]
    /\ done \in [Lists -> {"set", "free", "busy"}]
    /\ run \in [list : Lists \cup {"none"}, by : {"main", "cpu"}, time : 0 .. MaxTime,
               cb : BOOLEAN]
    /\ mpc \in {"prepare", "sleep", "check", "main", "requests", "disabling", "pausing"}
    /\ \A l \in Lists :
          /\ {active[l][k] : k \in DOMAIN active[l]} = {t \in TimerSet : Home(t) = l /\ expire[t] # -1}
          /\ \A j, k \in DOMAIN active[l] :
                j < k => active[l][j] # active[l][k] /\ expire[active[l][j]] <= expire[active[l][k]]

(* timerlist_deadline_ns: "->notify_cb() is called when the deadline       *)
(* changes.  Therefore the caller should notice the change and there is no *)
(* race condition."  The main loop never sleeps past a timer, whoever arms *)
(* it meanwhile; the exception is a virtual CPU in aio_poll, which shares  *)
(* the notifier.                                                           *)
SleepCoversDeadline ==
    mpc = "sleep" /\ enabled /\ ~missed => wake_at <= Deadline \/ notified

(* vmx_clock_enable's wait for the lists returns, although                 *)
(* vmx_event_wait leaves a free event busy and the next wait would then    *)
(* never end: main_loop_should_exit may disable the clock several times in *)
(* one round, and in between no list is run.                               *)
ClockDisableReturns == mpc = "disabling" ~> mpc = "pausing"

(* A timer that is armed fires or is taken back, unless the clock is       *)
(* disabled; a notification that a virtual CPU's aio_poll has swallowed    *)
(* can delay it.                                                           *)
TimerFires ==
    \A t \in TimerSet : expire[t] # -1 ~> expire[t] = -1 \/ ~enabled \/ missed
=============================================================================
