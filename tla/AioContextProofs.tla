-------------------------- MODULE AioContextProofs --------------------------
(***************************************************************************)
(* The safety of the AioContext's bottom half and of its sleepers, for any *)
(* number of items, any nesting of aio_poll, and hosts whose stores are    *)
(* buffered as well as hosts whose stores are not.                         *)
(***************************************************************************)
EXTENDS AioContext, SequenceTheorems, TLAPS

-----------------------------------------------------------------------------
(* The inductive invariant *)

FrameType == [was : BOOLEAN, for : Items \cup {NoItem}]

AllPcs == PollPcs \cup {"prepare", "check", "mpoll", "mlock", "mother", "guest", "device"}

(* pc and frames are functions of the pollers. *)
FunctionTypes ==
    /\ pc \in [Pollers -> AllPcs]
    /\ frames \in [Pollers -> Seq(FrameType)]

(* A thread in aio_poll has a frame; a virtual CPU dispatches only there. *)
FramesInv ==
    /\ \A t \in Pollers : pc[t] \in {"compute", "nowait", "sleep", "return"} => frames[t] # <<>>
    /\ pc[Vcpu] \in PollPcs => frames[Vcpu] # <<>>

(* A blocking aio_poll has ctx->dispatching cleared before it computes its *)
(* timeout and until poll returns, and its store buffer is empty when it   *)
(* computes it.                                                            *)
SleepInv ==
    \A t \in Pollers :
        /\ pc[t] = "compute" => dispatching = ~Blocking(Frame(t))
        /\ pc[t] = "sleep" => ~dispatching
        /\ pc[t] = "compute" /\ Blocking(Frame(t)) => buffered # t

(* The code outside the mutex. *)
Outside == {"guest", "mpoll", "mlock", "mother"}

IInv == TypeOK /\ FunctionTypes /\ FramesInv /\ SleepInv /\ SleeperIsNotified

-----------------------------------------------------------------------------
(* The parts of the type invariant *)

GlobalTypes ==
    /\ bql \in Pollers \cup {Nobody} /\ buffered \in Pollers \cup {Nobody}
    /\ item \in [Items -> {"work", "ready", "seen"}]
    /\ ipc \in [Items -> {"work", "schedule", "notify", "end"}]
    /\ scheduled \in BOOLEAN /\ notified \in BOOLEAN
    /\ dispatching \in BOOLEAN /\ revents \in BOOLEAN

PcTypes ==
    /\ pc[Main] \in PollPcs \cup {"prepare", "check", "mpoll", "mlock", "mother"}
    /\ pc[Vcpu] \in PollPcs \cup {"guest", "device"}

DepthInv == \A t \in Pollers : Len(frames[t]) <= MaxDepth

MutexInv == \A t \in Pollers : bql # t => pc[t] \in Outside

(* TypeOK is the conjunction of its parts. *)
LEMMA TypeParts == TypeOK <=> GlobalTypes /\ PcTypes /\ DepthInv /\ MutexInv
BY DEF TypeOK, GlobalTypes, PcTypes, DepthInv, MutexInv, Outside

(* The same in the next state. *)
LEMMA TypePartsNext == TypeOK' <=> (GlobalTypes /\ PcTypes /\ DepthInv /\ MutexInv)'
BY TypeParts, PTL

(* The invariant holds initially. *)
LEMMA InitIInv == Init => IInv
<1> SUFFICES ASSUME Init PROVE IInv
  OBVIOUS
<1>1. GlobalTypes /\ PcTypes /\ MutexInv
  BY Names DEF Init, GlobalTypes, PcTypes, MutexInv, Outside, Pollers, PollPcs
<1>2. DepthInv
  BY Depth DEF Init, DepthInv
<1>3. FunctionTypes
  BY Names DEF Init, FunctionTypes, AllPcs, PollPcs
<1>4. FramesInv /\ SleepInv /\ SleeperIsNotified
  BY Names DEF Init, FramesInv, SleepInv, SleeperIsNotified, Pollers, PollPcs
<1> QED
  BY <1>1, <1>2, <1>3, <1>4, TypeParts DEF IInv

-----------------------------------------------------------------------------
(* The workers *)

(* A worker's step preserves the invariant: it finds the bottom half       *)
(* scheduled already, or notifies whoever sleeps.                          *)
LEMMA WorkerKeeps ==
    ASSUME IInv, NEW i \in Items, Worker(i)
    PROVE  IInv'
<1>0. /\ GlobalTypes /\ PcTypes /\ DepthInv /\ MutexInv
      /\ FunctionTypes /\ FramesInv /\ SleepInv /\ SleeperIsNotified
  BY TypeParts DEF IInv
<1>1. UNCHANGED <<bql, dispatching, revents, pc, frames>> /\ buffered' \in {buffered, Nobody}
  BY DEF Worker, WorkerReady, WorkerSchedule, WorkerNotify
<1>2. GlobalTypes'
  <2>1. CASE WorkerReady(i)
    BY <1>0, <2>1 DEF GlobalTypes, WorkerReady
  <2>2. CASE WorkerSchedule(i)
    BY <1>0, <2>2 DEF GlobalTypes, WorkerSchedule
  <2>3. CASE WorkerNotify(i)
    BY <1>0, <2>3 DEF GlobalTypes, WorkerNotify, aio_notify
  <2> QED
    BY <2>1, <2>2, <2>3 DEF Worker
<1>3. (PcTypes /\ DepthInv /\ MutexInv /\ FunctionTypes /\ FramesInv /\ SleepInv)'
  <2>1. (PcTypes /\ DepthInv /\ MutexInv /\ FunctionTypes /\ FramesInv)'
    BY <1>0, <1>1 DEF PcTypes, DepthInv, MutexInv, FunctionTypes, FramesInv
  <2>2. SleepInv'
    BY <1>0, <1>1, Names DEF SleepInv, Frame, Pollers
  <2> QED
    BY <2>1, <2>2
<1>4. SleeperIsNotified'
  <2> SUFFICES ASSUME NEW t \in Pollers, pc'[t] = "sleep", scheduled'
               PROVE  notified' \/ \E j \in Items : ipc'[j] = "notify"
    BY DEF SleeperIsNotified
  <2>1. CASE WorkerReady(i)
    BY <1>0, <1>1, <2>1 DEF GlobalTypes, SleeperIsNotified, WorkerReady
  <2>2. CASE WorkerSchedule(i)
    BY <1>0, <1>1, <2>2 DEF GlobalTypes, SleeperIsNotified, WorkerSchedule
  <2>3. CASE WorkerNotify(i)
    BY <1>0, <1>1, <2>3 DEF SleepInv, WorkerNotify, aio_notify
  <2> QED
    BY <2>1, <2>2, <2>3 DEF Worker
<1> QED
  BY <1>0, <1>2, <1>3, <1>4, TypePartsNext DEF IInv

-----------------------------------------------------------------------------
(* The pollers *)

(* Of two pollers, at most one is in the code that needs the mutex. *)
LEMMA OneInside ==
    ASSUME MutexInv, NEW t \in Pollers, pc[t] \notin Outside
    PROVE  bql = t /\ \A u \in Pollers \ {t} : pc[u] \in Outside
BY DEF MutexInv

(* A step of a poller inside the mutex that keeps it there and leads it to *)
(* pc "to" with frames f.                                                  *)
InsideStep(t, to, f) ==
    /\ pc[t] \notin Outside /\ bql' = bql
    /\ pc' = [pc EXCEPT ![t] = to] /\ to \in PollPcs \cup {"prepare", "check", "device"}
    /\ t = Main => to # "device"
    /\ t = Vcpu => to \notin {"prepare", "check"}
    /\ frames' = [frames EXCEPT ![t] = f] /\ f \in Seq(FrameType) /\ Len(f) <= MaxDepth
    /\ to \in {"compute", "nowait", "sleep", "return"} => f # <<>>
    /\ t = Vcpu /\ to \in PollPcs => f # <<>>
    /\ to = "compute" => dispatching' = ~Blocking(f[Len(f)])
    /\ to = "sleep" => ~dispatching' /\ ~scheduled'
    /\ to = "compute" /\ Blocking(f[Len(f)]) => buffered' # t

(* Such a step preserves the invariant. *)
LEMMA InsideKeeps ==
    ASSUME IInv, NEW t \in Pollers, NEW to, NEW f, InsideStep(t, to, f), GlobalTypes'
    PROVE  IInv'
<1>0. /\ GlobalTypes /\ PcTypes /\ DepthInv /\ MutexInv
      /\ FunctionTypes /\ FramesInv /\ SleepInv /\ SleeperIsNotified
  BY TypeParts DEF IInv
<1>1. bql = t /\ \A u \in Pollers \ {t} : pc[u] \in Outside
  BY <1>0, OneInside DEF InsideStep
<1> USE DEF InsideStep
<1>2. /\ pc'[t] = to /\ frames'[t] = f
      /\ \A u \in Pollers \ {t} : pc'[u] = pc[u] /\ frames'[u] = frames[u]
  BY <1>0 DEF FunctionTypes
<1>3. PcTypes'
  BY <1>0, <1>2, Names DEF PcTypes, Pollers, PollPcs
<1>4. DepthInv'
  BY <1>0, <1>2 DEF DepthInv
<1>5. MutexInv'
  BY <1>1, <1>2 DEF MutexInv, Outside
<1>6. FunctionTypes'
  BY <1>0 DEF FunctionTypes, AllPcs
<1>7. FramesInv'
  BY <1>0, <1>1, <1>2, Names DEF FramesInv, Pollers, Outside
<1>8. SleepInv'
  <2> SUFFICES ASSUME NEW u \in Pollers
               PROVE  /\ pc'[u] = "compute" => dispatching' = ~Blocking(Frame(u)')
                      /\ pc'[u] = "sleep" => ~dispatching'
                      /\ pc'[u] = "compute" /\ Blocking(Frame(u)') => buffered' # u
    BY DEF SleepInv, Frame
  <2>1. CASE u = t
    BY <1>2, <2>1 DEF Frame
  <2>2. CASE u # t
    BY <1>0, <1>1, <1>2, <2>2, Names DEF SleepInv, Outside, Pollers
  <2> QED
    BY <2>1, <2>2
<1>9. SleeperIsNotified'
  BY <1>1, <1>2 DEF SleeperIsNotified, Outside
<1> QED
  BY <1>3, <1>4, <1>5, <1>6, <1>7, <1>8, <1>9, TypePartsNext DEF IInv

(* The dispatch of the bottom half and of the handlers preserves the       *)
(* invariant.                                                              *)
LEMMA DispatchKeeps ==
    ASSUME IInv, NEW t \in Pollers, Dispatch(t)
    PROVE  IInv'
<1>0. /\ GlobalTypes /\ PcTypes /\ DepthInv /\ MutexInv
      /\ FunctionTypes /\ FramesInv /\ SleepInv /\ SleeperIsNotified
  BY TypeParts DEF IInv
<1>1. /\ frames[t] \in Seq(FrameType) /\ frames = [frames EXCEPT ![t] = frames[t]]
      /\ Len(frames[t]) <= MaxDepth
      /\ t = Vcpu /\ pc[t] \in PollPcs => frames[t] # <<>>
  BY <1>0 DEF FunctionTypes, DepthInv, FramesInv
<1>2. t \in {Main, Vcpu}
  BY DEF Pollers
<1>3. ASSUME BhTake(t) PROVE IInv'
  <2>1. GlobalTypes'
    BY <1>0, <1>3, StoreBufferBoolean DEF GlobalTypes, BhTake, Goto
  <2>2. /\ pc[t] = "bh" /\ pc' = [pc EXCEPT ![t] = "cb"]
        /\ UNCHANGED <<bql, frames>>
    BY <1>3 DEF BhTake, Goto
  <2>9. InsideStep(t, "cb", frames[t])
    BY <1>1, <2>1, <2>2 DEF InsideStep, Outside, PollPcs
  <2> QED
    BY <2>1, <2>9, InsideKeeps
<1>4. ASSUME BhNone(t) PROVE IInv'
  <2>1. GlobalTypes'
    BY <1>0, <1>4 DEF GlobalTypes, BhNone, Goto
  <2>2. /\ pc[t] = "bh" /\ pc' = [pc EXCEPT ![t] = "drain"]
        /\ UNCHANGED <<bql, frames>>
    BY <1>4 DEF BhNone, Goto
  <2>9. InsideStep(t, "drain", frames[t])
    BY <1>1, <2>1, <2>2 DEF InsideStep, Outside, PollPcs
  <2> QED
    BY <2>1, <2>9, InsideKeeps
<1>5. ASSUME CallbackReturn(t) PROVE IInv'
  <2>1. GlobalTypes'
    BY <1>0, <1>5 DEF GlobalTypes, CallbackReturn, Goto
  <2>2. /\ pc[t] = "callback" /\ pc' = [pc EXCEPT ![t] = "cb"]
        /\ UNCHANGED <<bql, frames>>
    BY <1>5 DEF CallbackReturn, Goto
  <2>9. InsideStep(t, "cb", frames[t])
    BY <1>1, <2>1, <2>2 DEF InsideStep, Outside, PollPcs
  <2> QED
    BY <2>1, <2>9, InsideKeeps
<1>6. ASSUME BhEnd(t) PROVE IInv'
  <2>1. GlobalTypes'
    BY <1>0, <1>6 DEF GlobalTypes, BhEnd, Goto
  <2>2. /\ pc[t] = "cb" /\ pc' = [pc EXCEPT ![t] = "drain"]
        /\ UNCHANGED <<bql, frames>>
    BY <1>6 DEF BhEnd, Goto
  <2>9. InsideStep(t, "drain", frames[t])
    BY <1>1, <2>1, <2>2 DEF InsideStep, Outside, PollPcs
  <2> QED
    BY <2>1, <2>9, InsideKeeps
<1>7. ASSUME BhLock(t) PROVE IInv'
  <2>1. GlobalTypes'
    BY <1>0, <1>7 DEF GlobalTypes, BhLock, Goto, Drain
  <2>2. /\ pc[t] = "drain" /\ pc' = [pc EXCEPT ![t] = "handlers"]
        /\ UNCHANGED <<bql, frames>>
    BY <1>7 DEF BhLock, Goto, Drain
  <2>9. InsideStep(t, "handlers", frames[t])
    BY <1>1, <1>2, <2>1, <2>2, Names DEF InsideStep, Outside, PollPcs
  <2> QED
    BY <2>1, <2>9, InsideKeeps
<1>8. ASSUME Handlers(t) PROVE IInv'
  <2>1. GlobalTypes'
    BY <1>0, <1>8 DEF GlobalTypes, Handlers, Goto
  <2>2. /\ pc[t] = "handlers"
        /\ pc' = [pc EXCEPT ![t] = IF frames[t] = <<>> THEN "prepare" ELSE "return"]
        /\ UNCHANGED <<bql, frames>>
    BY <1>8 DEF Handlers, Goto
  <2>4. CASE frames[t] = <<>>
    <3>1. t # Vcpu /\ pc' = [pc EXCEPT ![t] = "prepare"]
      BY <1>1, <2>2, <2>4 DEF PollPcs
    <3>9. InsideStep(t, "prepare", frames[t])
      BY <1>1, <2>1, <2>2, <3>1 DEF InsideStep, Outside, PollPcs
    <3> QED
      BY <2>1, <3>9, InsideKeeps
  <2>5. CASE frames[t] # <<>>
    <3>1. pc' = [pc EXCEPT ![t] = "return"]
      BY <2>2, <2>5
    <3>9. InsideStep(t, "return", frames[t])
      BY <1>1, <2>1, <2>2, <2>5, <3>1 DEF InsideStep, Outside, PollPcs
    <3> QED
      BY <2>1, <3>9, InsideKeeps
  <2> QED
    BY <2>4, <2>5
<1>9. ASSUME NEW i \in Items, BhCallback(t, i) PROVE IInv'
  <2>1. GlobalTypes'
    BY <1>0, <1>9 DEF GlobalTypes, BhCallback, Goto, aio_notify
  <2>2. /\ pc[t] = "cb" /\ pc' = [pc EXCEPT ![t] = "callback"]
        /\ UNCHANGED <<bql, frames>>
    BY <1>9 DEF BhCallback, Goto
  <2>9. InsideStep(t, "callback", frames[t])
    BY <1>1, <1>2, <2>1, <2>2, Names DEF InsideStep, Outside, PollPcs
  <2> QED
    BY <2>1, <2>9, InsideKeeps
<1> QED
  BY <1>3, <1>4, <1>5, <1>6, <1>7, <1>8, <1>9 DEF Dispatch

(* The innermost frame of a poller, and what leaving it leaves. *)
LEMMA InnerFrame ==
    ASSUME FunctionTypes, NEW t \in Pollers, frames[t] # <<>>
    PROVE  /\ Len(frames[t]) \in Nat \ {0} /\ Frame(t) \in FrameType
           /\ SubSeq(frames[t], 1, Len(frames[t]) - 1) \in Seq(FrameType)
           /\ Len(SubSeq(frames[t], 1, Len(frames[t]) - 1)) = Len(frames[t]) - 1
<1>1. frames[t] \in Seq(FrameType)
  BY DEF FunctionTypes
<1>2. Len(frames[t]) \in Nat \ {0}
  BY <1>1, EmptySeq, LenProperties
<1>3. frames[t][Len(frames[t])] \in FrameType
  BY <1>1, <1>2, ElementOfSeq
<1>4. \A k \in 1 .. Len(frames[t]) - 1 : frames[t][k] \in FrameType
  BY <1>1, <1>2, ElementOfSeq
<1> QED
  BY <1>1, <1>2, <1>3, <1>4, SubSeqProperties DEF Frame

(* aio_set_dispatching's barrier empties the store buffer. *)
LEMMA SetDispatching ==
    ASSUME NEW t \in Pollers, NEW value \in BOOLEAN, aio_set_dispatching(t, value)
    PROVE  /\ dispatching' = value /\ buffered' \in {buffered, Nobody}
           /\ scheduled \in BOOLEAN => scheduled' \in BOOLEAN
           /\ ~value => buffered' # t
BY Names DEF aio_set_dispatching, Drain, Pollers

(* Entering aio_poll, and each step in it, preserve the invariant: the     *)
(* timeout is computed after ctx->dispatching has been cleared.            *)
LEMMA AioPollKeeps ==
    ASSUME IInv, NEW t \in Pollers, AioPollStep(t) \/ AioPollCall(t)
    PROVE  IInv'
<1>0. /\ GlobalTypes /\ PcTypes /\ DepthInv /\ MutexInv
      /\ FunctionTypes /\ FramesInv /\ SleepInv /\ SleeperIsNotified
  BY TypeParts DEF IInv
<1>1. /\ frames[t] \in Seq(FrameType) /\ frames = [frames EXCEPT ![t] = frames[t]]
      /\ Len(frames[t]) <= MaxDepth /\ Len(frames[t]) \in Nat
      /\ t = Vcpu /\ pc[t] \in PollPcs => frames[t] # <<>>
  BY <1>0, LenProperties DEF FunctionTypes, DepthInv, FramesInv
<1>2. ASSUME NEW i \in Items \cup {NoItem}, AioPoll(t, i) PROVE IInv'
  <2> DEFINE f == [was |-> dispatching, for |-> i]
  <2>1. /\ pc[t] \in {"device", "callback"} /\ pc' = [pc EXCEPT ![t] = "compute"]
        /\ frames' = [frames EXCEPT ![t] = Append(frames[t], f)]
        /\ aio_set_dispatching(t, DispatchingAtPoll(f)) /\ Len(frames[t]) < MaxDepth
        /\ UNCHANGED <<bql, item, ipc, notified, revents>>
    BY <1>2 DEF AioPoll
  <2>2. f \in FrameType
    BY <1>0 DEF GlobalTypes, FrameType
  <2> HIDE DEF f
  <2>3. /\ Append(frames[t], f) \in Seq(FrameType)
        /\ Len(Append(frames[t], f)) = Len(frames[t]) + 1
        /\ Append(frames[t], f)[Len(frames[t]) + 1] = f
        /\ Append(frames[t], f) # <<>>
    BY <1>1, <2>2, AppendProperties
  <2>4. frames'[t] = Append(frames[t], f)
    BY <1>0, <2>1 DEF FunctionTypes
  <2>5. Frame(t)' = f
    BY <1>1, <2>3, <2>4 DEF Frame
  <2>6. GlobalTypes'
    BY <1>0, <2>1, SetDispatching DEF GlobalTypes, DispatchingAtPoll
  <2>7. dispatching' = ~Blocking(f) /\ (Blocking(f) => buffered' # t)
    BY <2>1, SetDispatching DEF DispatchingAtPoll
  <2>8. Len(Append(frames[t], f)) <= MaxDepth
    BY <1>1, <2>1, <2>3, Depth
  <2>9. InsideStep(t, "compute", Append(frames[t], f))
    BY <1>1, <2>1, <2>3, <2>5, <2>6, <2>7, <2>8 DEF InsideStep, Outside, PollPcs
  <2> QED
    BY <2>6, <2>9, InsideKeeps
<1>3. ASSUME AioPollCompute(t) PROVE IInv'
  <2>1. GlobalTypes'
    BY <1>0, <1>3 DEF GlobalTypes, AioPollCompute, Goto
  <2>2. /\ pc[t] = "compute"
        /\ UNCHANGED <<bql, frames, buffered, dispatching, scheduled>>
        /\ pc' = [pc EXCEPT ![t] = IF Blocking(Frame(t)) /\ ~SeesScheduled(t) THEN "sleep" ELSE "nowait"]
    BY <1>3 DEF AioPollCompute, Goto, TimeoutIsZero
  <2>3. /\ Blocking(Frame(t)) => buffered # t
        /\ dispatching = ~Blocking(Frame(t)) /\ frames[t] # <<>>
    BY <1>0, <2>2 DEF SleepInv, FramesInv
  <2>4. CASE Blocking(Frame(t)) /\ ~SeesScheduled(t)
    <3>1. pc' = [pc EXCEPT ![t] = "sleep"] /\ ~dispatching' /\ ~scheduled'
      BY <2>2, <2>3, <2>4 DEF SeesScheduled
    <3>9. InsideStep(t, "sleep", frames[t])
      BY <1>1, <2>1, <2>2, <2>3, <3>1 DEF InsideStep, Outside, PollPcs
    <3> QED
      BY <2>1, <3>9, InsideKeeps
  <2>5. CASE ~(Blocking(Frame(t)) /\ ~SeesScheduled(t))
    <3>1. pc' = [pc EXCEPT ![t] = "nowait"]
      BY <2>2, <2>5
    <3>9. InsideStep(t, "nowait", frames[t])
      BY <1>1, <2>1, <2>2, <2>3, <3>1 DEF InsideStep, Outside, PollPcs
    <3> QED
      BY <2>1, <3>9, InsideKeeps
  <2> QED
    BY <2>4, <2>5
<1>4. ASSUME AioPollReturns(t) PROVE IInv'
  <2>1. GlobalTypes'
    BY <1>0, <1>4, SetDispatching DEF GlobalTypes, AioPollReturns
  <2>2. /\ pc[t] \in {"nowait", "sleep"} /\ pc' = [pc EXCEPT ![t] = "bh"]
        /\ UNCHANGED <<bql, frames>>
    BY <1>4 DEF AioPollReturns, Goto
  <2>4. frames[t] # <<>>
    BY <1>0, <2>2 DEF FramesInv
  <2>9. InsideStep(t, "bh", frames[t])
    BY <1>1, <2>1, <2>2, <2>4 DEF InsideStep, Outside, PollPcs
  <2> QED
    BY <2>1, <2>9, InsideKeeps
<1>5. ASSUME AioPollEnd(t) PROVE IInv'
  <2> DEFINE n == Len(frames[t])
  <2>1. /\ pc[t] = "return"
        /\ UNCHANGED <<bql, item, ipc, notified, revents>>
    BY <1>5 DEF AioPollEnd
  <2>2. frames[t] # <<>>
    BY <1>0, <2>1 DEF FramesInv
  <2>3. /\ n \in Nat \ {0} /\ Frame(t) \in FrameType
        /\ SubSeq(frames[t], 1, n - 1) \in Seq(FrameType)
        /\ Len(SubSeq(frames[t], 1, n - 1)) = n - 1
    BY <1>0, <2>2, InnerFrame
  <2>4. Frame(t).was \in BOOLEAN
    BY <2>3 DEF FrameType
  <2>5. CASE Blocking(Frame(t)) /\ item[Frame(t).for] # "seen"
    <3>1. /\ UNCHANGED frames /\ aio_set_dispatching(t, DispatchingAtPoll(Frame(t)))
          /\ pc' = [pc EXCEPT ![t] = "compute"]
      BY <1>5, <2>5 DEF AioPollEnd
    <3>2. GlobalTypes'
      BY <1>0, <2>1, <3>1, SetDispatching DEF GlobalTypes, DispatchingAtPoll
    <3>3. Frame(t)' = Frame(t)
      BY <3>1 DEF Frame
    <3>4. dispatching' = ~Blocking(Frame(t)) /\ (Blocking(Frame(t)) => buffered' # t)
      BY <3>1, SetDispatching DEF DispatchingAtPoll
    <3>9. InsideStep(t, "compute", frames[t])
      BY <1>1, <2>1, <2>2, <3>1, <3>2, <3>3, <3>4 DEF InsideStep, Outside, PollPcs, Frame
    <3> QED
      BY <3>2, <3>9, InsideKeeps
  <2>6. CASE ~(Blocking(Frame(t)) /\ item[Frame(t).for] # "seen")
    <3>1. /\ frames' = [frames EXCEPT ![t] = SubSeq(frames[t], 1, n - 1)]
          /\ aio_set_dispatching(t, Frame(t).was)
          /\ pc' = [pc EXCEPT ![t] = IF t = Vcpu /\ n = 1 THEN "device" ELSE "callback"]
      BY <1>5, <2>6 DEF AioPollEnd
    <3>2. GlobalTypes'
      BY <1>0, <2>1, <2>4, <3>1, SetDispatching DEF GlobalTypes
    <3>3. Len(SubSeq(frames[t], 1, n - 1)) <= MaxDepth
      BY <1>1, <2>3, Depth
    <3>4. CASE t = Vcpu /\ n = 1
      <4>1. pc' = [pc EXCEPT ![t] = "device"]
        BY <3>1, <3>4
      <4>9. InsideStep(t, "device", SubSeq(frames[t], 1, n - 1))
        BY <2>1, <2>2, <2>3, <3>1, <3>2, <3>3, <3>4, <4>1, Names DEF InsideStep, Outside, PollPcs
      <4> QED
        BY <3>2, <4>9, InsideKeeps
    <3>5. CASE ~(t = Vcpu /\ n = 1)
      <4>1. pc' = [pc EXCEPT ![t] = "callback"]
        BY <3>1, <3>5
      <4>2. t = Vcpu => SubSeq(frames[t], 1, n - 1) # <<>>
        <5>1. t = Vcpu => n - 1 # 0
          BY <2>3, <3>5
        <5>2. SubSeq(frames[t], 1, n - 1) = <<>> => n - 1 = 0
          BY <2>3, EmptySeq
        <5> QED
          BY <5>1, <5>2
      <4>9. InsideStep(t, "callback", SubSeq(frames[t], 1, n - 1))
        BY <2>1, <2>2, <2>3, <3>1, <3>2, <3>3, <4>1, <4>2 DEF InsideStep, Outside, PollPcs
      <4> QED
        BY <3>2, <4>9, InsideKeeps
    <3> QED
      BY <3>4, <3>5
  <2> QED
    BY <2>5, <2>6
<1> QED
  BY <1>2, <1>3, <1>4, <1>5 DEF AioPollStep, AioPollCall

-----------------------------------------------------------------------------
(* The mutex changes hands *)

(* The virtual CPU's entry and exit, and the main loop's steps, preserve   *)
(* the invariant.                                                          *)
LEMMA OthersKeep ==
    ASSUME IInv,
           \/ VcpuEnters \/ VcpuLeaves
           \/ MainPrepare \/ MainNotified \/ MainOtherEvent \/ MainCheck
    PROVE  IInv'
<1>0. /\ GlobalTypes /\ PcTypes /\ DepthInv /\ MutexInv
      /\ FunctionTypes /\ FramesInv /\ SleepInv /\ SleeperIsNotified
  BY TypeParts DEF IInv
<1> DEFINE Moves(t, from, to) ==
             /\ pc[t] \in from /\ pc' = [pc EXCEPT ![t] = to]
             /\ UNCHANGED <<item, ipc, scheduled, buffered, notified, dispatching, frames>>
           Plain == {"guest", "device", "prepare", "check", "mpoll", "mlock", "mother"}
<1>1. ASSUME NEW t \in Pollers, NEW to, Moves(t, Plain, to), GlobalTypes', MutexInv',
             \/ t = Vcpu /\ to \in {"guest", "device"}
             \/ t = Main /\ to \in {"prepare", "check", "mpoll", "mlock", "mother", "bh"}
      PROVE  IInv'
  <2>1. pc'[t] = to /\ \A u \in Pollers \ {t} : pc'[u] = pc[u]
    BY <1>0, <1>1 DEF FunctionTypes
  <2>2. PcTypes'
    BY <1>0, <1>1, <2>1, Names DEF PcTypes, Pollers, PollPcs
  <2>3. FunctionTypes'
    BY <1>0, <1>1 DEF FunctionTypes, AllPcs, PollPcs
  <2>4. DepthInv'
    BY <1>0, <1>1 DEF DepthInv
  <2>5. FramesInv'
    BY <1>0, <1>1, <2>1, Names DEF FramesInv, Pollers, PollPcs
  <2>6. SleepInv'
    BY <1>0, <1>1, <2>1 DEF SleepInv, Frame
  <2>7. SleeperIsNotified'
    BY <1>0, <1>1, <2>1 DEF SleeperIsNotified
  <2> QED
    BY <1>1, <2>2, <2>3, <2>4, <2>5, <2>6, <2>7, TypePartsNext DEF IInv
<1>2. Main \in Pollers /\ Vcpu \in Pollers /\ Main # Vcpu
  BY Names DEF Pollers
<1>3. CASE VcpuEnters
  <2>1. Moves(Vcpu, Plain, "device") /\ bql = Nobody /\ bql' = Vcpu /\ UNCHANGED revents
    BY <1>3 DEF VcpuEnters, Goto
  <2>2. GlobalTypes'
    BY <1>0, <1>2, <2>1 DEF GlobalTypes
  <2>3. MutexInv'
    BY <1>0, <1>2, <2>1, Names DEF MutexInv, FunctionTypes, Pollers
  <2> QED
    BY <1>1, <1>2, <2>1, <2>2, <2>3
<1>4. CASE VcpuLeaves
  <2>1. Moves(Vcpu, Plain, "guest") /\ pc[Vcpu] = "device" /\ bql' = Nobody /\ UNCHANGED revents
    BY <1>4 DEF VcpuLeaves, Goto
  <2>2. GlobalTypes'
    BY <1>0, <1>2, <2>1 DEF GlobalTypes
  <2>3. MutexInv'
    BY <1>0, <1>2, <2>1, Names DEF MutexInv, FunctionTypes, Pollers, Outside
  <2> QED
    BY <1>1, <1>2, <2>1, <2>2, <2>3
<1>5. CASE MainPrepare
  <2>1. PICK to \in {"check", "mpoll"} :
          /\ Moves(Main, Plain, to) /\ pc[Main] = "prepare" /\ UNCHANGED revents
          /\ bql' = IF to = "check" THEN Main ELSE Nobody
    BY <1>5 DEF MainPrepare, Goto
  <2>2. GlobalTypes'
    BY <1>0, <1>2, <2>1 DEF GlobalTypes
  <2>3. MutexInv'
    BY <1>0, <1>2, <2>1, Names DEF MutexInv, FunctionTypes, Pollers, Outside
  <2> QED
    BY <1>1, <1>2, <2>1, <2>2, <2>3
<1>6. CASE MainNotified \/ MainOtherEvent
  <2>1. PICK to \in {"mlock", "mother"} :
          Moves(Main, Plain, to) /\ pc[Main] = "mpoll" /\ UNCHANGED <<bql, revents>>
    BY <1>6 DEF MainNotified, MainOtherEvent, Goto
  <2>2. GlobalTypes'
    BY <1>0, <2>1 DEF GlobalTypes
  <2>3. MutexInv'
    BY <1>0, <1>2, <2>1 DEF MutexInv, FunctionTypes, Outside
  <2> QED
    BY <1>1, <1>2, <2>1, <2>2, <2>3
<1>7. CASE MainCheck
  <2>1. PICK to \in {"bh", "prepare"} :
          /\ Moves(Main, Plain, to) /\ bql' = Main /\ revents' \in BOOLEAN
          /\ pc[Main] = "check" \/ bql = Nobody
    BY <1>0, <1>7 DEF MainCheck, GlobalTypes
  <2>2. GlobalTypes'
    BY <1>0, <1>2, <2>1 DEF GlobalTypes
  <2>3. MutexInv'
    BY <1>0, <1>2, <2>1, Names DEF MutexInv, FunctionTypes, Pollers, Outside
  <2> QED
    BY <1>1, <1>2, <2>1, <2>2, <2>3
<1> QED
  BY <1>3, <1>4, <1>5, <1>6, <1>7

-----------------------------------------------------------------------------
(* The theorems *)

(* The inductive invariant holds of every reachable state. *)
THEOREM Invariance == Spec => []IInv
<1>1. IInv /\ [Next]_vars => IInv'
  <2> SUFFICES ASSUME IInv, [Next]_vars PROVE IInv'
    OBVIOUS
  <2>1. CASE UNCHANGED vars
    <3>0. /\ GlobalTypes /\ PcTypes /\ DepthInv /\ MutexInv
          /\ FunctionTypes /\ FramesInv /\ SleepInv /\ SleeperIsNotified
      BY TypeParts DEF IInv
    <3>1. (GlobalTypes /\ PcTypes /\ DepthInv /\ MutexInv)'
      BY <2>1, <3>0 DEF vars, GlobalTypes, PcTypes, DepthInv, MutexInv
    <3>2. (FunctionTypes /\ FramesInv /\ SleepInv /\ SleeperIsNotified)'
      BY <2>1, <3>0 DEF vars, FunctionTypes, FramesInv, SleepInv, SleeperIsNotified, Frame
    <3> QED
      BY <3>1, <3>2, TypePartsNext DEF IInv
  <2> QED
    BY <2>1, WorkerKeeps, DispatchKeeps, AioPollKeeps, OthersKeep DEF Next, PollerStep
<1> QED
  BY InitIInv, <1>1, PTL DEF Spec

(* Every variable keeps its type, no call of aio_poll nests deeper than    *)
(* the bound, and two threads are never both in the code that needs the    *)
(* global mutex.                                                           *)
THEOREM TypeCorrect == Spec => []TypeOK
<1>1. IInv => TypeOK
  BY DEF IInv
<1> QED
  BY <1>1, Invariance, PTL

(* vmx_bh_schedule never leaves a thread asleep in aio_poll: while the     *)
(* bottom half is scheduled, either the notifier's pipe is readable or the *)
(* worker is about to write to it, however calls nest and whether or not   *)
(* the host buffers the store that aio_bh_poll makes.                      *)
THEOREM SleepersAreNotified == Spec => []SleeperIsNotified
<1>1. IInv => SleeperIsNotified
  BY DEF IInv
<1> QED
  BY <1>1, Invariance, PTL
=============================================================================
