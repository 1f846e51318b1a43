--------------------------- MODULE RunStateProofs ---------------------------
(***************************************************************************)
(* The run state's safety for any number of commands, guest requests and   *)
(* wakeups: no runstate_set aborts but that of a stale suspend, a VM that  *)
(* the main loop saved never runs again, a guest that was restarted after  *)
(* it powered off is reset before the main loop polls, and the flags of a  *)
(* reboot agree unless two threads used them at the same time.             *)
(***************************************************************************)
EXTENDS RunState, TLAPS, SequenceTheorems

(* The requests that stop the VM. *)
StopOps == {"shutdown", "vmstop", "save"}

(* A VM that is being stopped runs until its new state is set, and has     *)
(* that state while the handlers are notified: nothing that another thread *)
(* does while the CPUs pause stops the VM first.  Only a shutdown leads to *)
(* the state that vm_change_state looks for.                               *)
StopInv ==
    /\ mpc \in {"pausing", "paused"} /\ op \in StopOps => Running
    /\ mpc = "notify" => op \in StopOps /\ runstate = target
    /\ mpc = "clear" => op = "shutdown"
    /\ mpc \in {"pausing", "paused", "stopped", "drain"} => op # "none"
    /\ mpc \in {"pausing", "paused", "notify"} /\ op \in StopOps =>
            target # "none" /\ (op = "shutdown" <=> target = "shutdown")

(* Only a CPU's do_suspendVM is under way on a CPU. *)
SaveInv == spc # "no" => closing = "cpu"

(* The reset of a guest that vm_change_state has restarted is requested or *)
(* being carried out.                                                      *)
ResetOnItsWay ==
    \/ mpc \in {"clear", "stopped", "drain"} /\ op = "shutdown" /\ flag.reset_requested
    \/ mpc = "reset" /\ flag.reset_requested
    \/ mpc \in {"pausing", "paused"} /\ op = "reset"

(* No command takes a request for a reset back. *)
KeepsReset(writes) == \A k \in 1 .. Len(writes) : writes[k] # Off("reset_requested")

(* A guest that has powered off stays off until it is reset, unless a CPU  *)
(* has saved the VM.                                                       *)
OffInv ==
    /\ off => runstate = "shutdown" \/ (Running /\ ResetOnItsWay) \/ closing = "cpu"
    /\ KeepsReset(todo) /\ KeepsReset(mtodo)

Agree(f) ==
    /\ f.no_shutdown = f.reboot_requested
    /\ f.reboot_requested => f.handler_added

(* The flags agree as soon as the command under way has made its last      *)
(* store, if no other thread has a command under way.                      *)
AgreeInv ==
    ~raced => /\ todo = <<>> \/ mtodo = <<>>
              /\ todo = <<>> => Agree(AfterWrites(flag, mtodo))
              /\ mtodo = <<>> => Agree(AfterWrites(flag, todo))

IInv == TypeOK /\ StopInv /\ SaveInv /\ OffInv /\ AgreeInv /\ AbortOnlyStaleSuspend

-----------------------------------------------------------------------------
(* The stores of the commands                                              *)

Writes == Seq(Stores)

ShutdownForced == <<On("shutdown_requested"), Off("powerdown_asked")>>
ShutdownAsked == <<On("powerdown_asked"), On("powerdown_requested")>>
RebootForced == <<On("no_shutdown"), On("reset_requested"), cpu_stop_current,
                  Off("reboot_requested"), Off("no_shutdown")>>
RebootAsked == <<On("no_shutdown"), On("handler_added"), On("reboot_requested"), On("powerdown_requested")>>
CommandLists == {ShutdownForced, ShutdownAsked, RebootForced, RebootAsked, reset_vm, ClearAsked}

(* A write is the flag's name and its new value. *)
LEMMA OnOff ==
    ASSUME NEW n
    PROVE  On(n)[1] = n /\ On(n)[2] = TRUE /\ Off(n)[1] = n /\ Off(n)[2] = FALSE
BY DEF On, Off

(* A write that does not clear a flag sets it. *)
LEMMA OffOrTrue ==
    ASSUME NEW x \in Stores, NEW n, x[1] = n, x # Off(n)
    PROVE  x[2] = TRUE
<1>1. PICK a \in Flags \cup {"current_cpu"}, b \in BOOLEAN : x = <<a, b>>
  BY DEF Stores
<1>2. a = n /\ b = x[2]
  BY <1>1
<1>3. CASE b = FALSE
  BY <1>1, <1>2, <1>3 DEF Off
<1> QED
  BY <1>2, <1>3

(* These are all the lists of stores that the commands come to. *)
LEMMA CommandsListed == MenuCommands \cup MonitorCommands \subseteq CommandLists
<1>1. ASSUME NEW forced \in BOOLEAN
      PROVE  shutdown_vm(forced) \in CommandLists
  BY DEF shutdown_vm, CommandLists, ShutdownForced, ShutdownAsked
<1>2. ASSUME NEW forced \in BOOLEAN
      PROVE  reboot_vm(forced) \in CommandLists
  BY DEF reboot_vm, CommandLists, RebootForced, RebootAsked
<1> QED
  BY <1>1, <1>2 DEF MenuCommands, MonitorCommands, CommandLists

(* Commands of two stores are lists of stores. *)
LEMMA TwoWrites ==
    ASSUME NEW S, NEW a \in S, NEW b \in S
    PROVE  /\ <<a, b>> \in Seq(S) /\ Len(<<a, b>>) = 2
           /\ <<a, b>>[1] = a /\ <<a, b>>[2] = b
OBVIOUS

(* So are commands of three, ... *)
LEMMA ThreeWrites ==
    ASSUME NEW S, NEW a \in S, NEW b \in S, NEW c \in S
    PROVE  /\ <<a, b, c>> \in Seq(S) /\ Len(<<a, b, c>>) = 3
           /\ <<a, b, c>>[1] = a /\ <<a, b, c>>[2] = b /\ <<a, b, c>>[3] = c
OBVIOUS

(* ... of four ... *)
LEMMA FourWrites ==
    ASSUME NEW S, NEW a \in S, NEW b \in S, NEW c \in S, NEW d \in S
    PROVE  /\ <<a, b, c, d>> \in Seq(S) /\ Len(<<a, b, c, d>>) = 4
           /\ <<a, b, c, d>>[1] = a /\ <<a, b, c, d>>[2] = b
           /\ <<a, b, c, d>>[3] = c /\ <<a, b, c, d>>[4] = d
OBVIOUS

(* ... and of five. *)
LEMMA FiveWrites ==
    ASSUME NEW S, NEW a \in S, NEW b \in S, NEW c \in S, NEW d \in S, NEW e \in S
    PROVE  /\ <<a, b, c, d, e>> \in Seq(S) /\ Len(<<a, b, c, d, e>>) = 5
           /\ <<a, b, c, d, e>>[1] = a /\ <<a, b, c, d, e>>[2] = b
           /\ <<a, b, c, d, e>>[3] = c /\ <<a, b, c, d, e>>[4] = d
           /\ <<a, b, c, d, e>>[5] = e
OBVIOUS

(* The commands are well formed, and none takes a reset request back. *)
LEMMA CommandsTyped ==
    ASSUME NEW w \in CommandLists
    PROVE  w \in Writes /\ Len(w) <= 5 /\ KeepsReset(w)
<1> DEFINE Kept == {x \in Stores : x # Off("reset_requested")}
<1>1. ASSUME NEW n \in Flags
      PROVE  On(n) \in Kept /\ (n # "reset_requested" => Off(n) \in Kept)
  BY DEF On, Off, Stores
<1>2. cpu_stop_current \in Kept
  BY DEF cpu_stop_current, Off, Stores
<1>3. {"shutdown_requested", "powerdown_asked", "powerdown_requested", "no_shutdown",
       "reset_requested", "reboot_requested", "handler_added"} \subseteq Flags
  BY DEF Flags
<1>4. Kept \subseteq Stores /\ \A x \in Kept : x # Off("reset_requested")
  OBVIOUS
<1> HIDE DEF Kept
<1>5. w \in Seq(Kept) /\ Len(w) <= 5
  <2>1. CASE w = ShutdownForced
    BY <1>1, <1>3, <2>1, TwoWrites DEF ShutdownForced
  <2>2. CASE w = ShutdownAsked
    BY <1>1, <1>3, <2>2, TwoWrites DEF ShutdownAsked
  <2>3. CASE w = ClearAsked
    BY <1>1, <1>3, <2>3, ThreeWrites DEF ClearAsked
  <2>4. CASE w = RebootAsked
    BY <1>1, <1>3, <2>4, FourWrites DEF RebootAsked
  <2>5. CASE w = RebootForced
    BY <1>1, <1>2, <1>3, <2>5, FiveWrites DEF RebootForced
  <2>6. CASE w = reset_vm
    BY <1>1, <1>2, <1>3, <2>6, FiveWrites DEF reset_vm
  <2> QED
    BY <2>1, <2>2, <2>3, <2>4, <2>5, <2>6 DEF CommandLists
<1>6. \A k \in 1 .. Len(w) : w[k] \in Kept
  BY <1>5
<1>7. w \in Seq(Stores)
  BY <1>4, <1>5
<1> QED
  BY <1>4, <1>5, <1>6, <1>7 DEF Writes, KeepsReset

(* A flag that is not written keeps its value. *)
LEMMA NoWrite ==
    ASSUME NEW f, NEW w \in Writes, NEW n \in Flags,
           \A k \in 1 .. Len(w) : w[k][1] # n
    PROVE  AfterWrites(f, w)[n] = f[n]
BY DEF AfterWrites, Writes

(* A flag that is written has the value of its last write. *)
LEMMA LastWrite ==
    ASSUME NEW f, NEW w \in Writes, NEW n \in Flags,
           NEW k \in 1 .. Len(w), w[k][1] = n,
           \A j \in 1 .. Len(w) : j > k => w[j][1] # n
    PROVE  AfterWrites(f, w)[n] = w[k][2]
<1> DEFINE mine == {i \in DOMAIN w : w[i][1] = n}
<1>1. DOMAIN w = 1 .. Len(w)
  BY DEF Writes
<1>2. k \in mine /\ \A j \in mine : j <= k
  BY <1>1
<1>3. (CHOOSE i \in mine : \A j \in mine : j <= i) = k
  BY <1>1, <1>2
<1> QED
  BY <1>2, <1>3 DEF AfterWrites

(* One of the two applies. *)
LEMMA WrittenOrNot ==
    ASSUME NEW w \in Writes, Len(w) <= 5, NEW n \in Flags
    PROVE  \/ \A k \in 1 .. Len(w) : w[k][1] # n
           \/ \E k \in 1 .. Len(w) : /\ w[k][1] = n
                                     /\ \A j \in 1 .. Len(w) : j > k => w[j][1] # n
<1>1. Len(w) \in Nat
  BY LenProperties DEF Writes
<1>2. PICK len \in Nat : len = Len(w)
  BY <1>1
<1>3. len \in 0 .. 5
  BY <1>2
<1>4. \/ \A k \in 1 .. len : w[k][1] # n
      \/ \E k \in 1 .. len : w[k][1] = n /\ \A j \in 1 .. len : j > k => w[j][1] # n
  BY <1>3
<1> QED
  BY <1>2, <1>4

(* Making the first write and then the others comes to the same. *)
LEMMA FirstWrite ==
    ASSUME NEW f \in [Flags -> BOOLEAN], NEW w \in Writes, Len(w) <= 5, w # <<>>,
           NEW n \in Flags
    PROVE  AfterWrites(Put(f, {Head(w)[1]}, Head(w)[2]), Tail(w))[n] = AfterWrites(f, w)[n]
<1> DEFINE g == Put(f, {Head(w)[1]}, Head(w)[2])
           v == Tail(w)
<1>1. /\ v \in Writes /\ Len(v) = Len(w) - 1 /\ Len(w) \in Nat
      /\ \A i \in 1 .. Len(v) : v[i] = w[i + 1]
      /\ Head(w) = w[1] /\ w[1] \in Stores /\ Len(w) >= 1
  BY HeadTailProperties DEF Writes
<1>2. g[n] = IF w[1][1] = n THEN w[1][2] ELSE f[n]
  BY <1>1 DEF Put
<1> HIDE DEF g, v
<1>3. ASSUME \A k \in 1 .. Len(w) : w[k][1] # n
      PROVE  AfterWrites(g, v)[n] = AfterWrites(f, w)[n]
  <2>1. \A k \in 1 .. Len(v) : v[k][1] # n
    BY <1>1, <1>3
  <2>2. AfterWrites(g, v)[n] = g[n] /\ AfterWrites(f, w)[n] = f[n]
    BY <1>1, <1>3, <2>1, NoWrite
  <2> QED
    BY <1>1, <1>2, <1>3, <2>2
<1>4. ASSUME NEW k \in 1 .. Len(w), w[k][1] = n,
             \A j \in 1 .. Len(w) : j > k => w[j][1] # n
      PROVE  AfterWrites(g, v)[n] = AfterWrites(f, w)[n]
  <2>1. AfterWrites(f, w)[n] = w[k][2]
    BY <1>4, LastWrite
  <2>2. CASE k = 1
    <3>1. \A j \in 1 .. Len(v) : v[j][1] # n
      BY <1>1, <1>4, <2>2
    <3> QED
      BY <1>1, <1>2, <1>4, <2>1, <2>2, <3>1, NoWrite
  <2>3. CASE k # 1
    <3>1. /\ k - 1 \in 1 .. Len(v) /\ v[k - 1] = w[k]
          /\ \A j \in 1 .. Len(v) : j > k - 1 => v[j][1] # n
      BY <1>1, <1>4, <2>3
    <3>2. AfterWrites(g, v)[n] = v[k - 1][2]
      BY <1>1, <1>4, <3>1, LastWrite
    <3> QED
      BY <2>1, <3>1, <3>2
  <2> QED
    BY <2>2, <2>3
<1>5. AfterWrites(g, v)[n] = AfterWrites(f, w)[n]
  BY <1>3, <1>4, WrittenOrNot
<1> QED
  BY <1>5 DEF g, v

(* A write of another flag changes nothing about this one. *)
LEMMA SameFlag ==
    ASSUME NEW f, NEW g, NEW w \in Writes, Len(w) <= 5, NEW n \in Flags, f[n] = g[n]
    PROVE  AfterWrites(f, w)[n] = AfterWrites(g, w)[n]
<1>1. CASE \A k \in 1 .. Len(w) : w[k][1] # n
  BY <1>1, NoWrite
<1>2. ASSUME NEW k \in 1 .. Len(w), w[k][1] = n,
             \A j \in 1 .. Len(w) : j > k => w[j][1] # n
      PROVE  AfterWrites(f, w)[n] = AfterWrites(g, w)[n]
  BY <1>2, LastWrite
<1> QED
  BY <1>1, <1>2, WrittenOrNot

(* The last write of a flag in a list whose length is known. *)
LEMMA LastOf ==
    ASSUME NEW f, NEW w \in Writes, NEW len \in 3 .. 5, Len(w) = len, NEW n \in Flags,
           NEW k \in 1 .. len, w[k][1] = n, \A j \in 1 .. len : j > k => w[j][1] # n
    PROVE  AfterWrites(f, w)[n] = w[k][2]
<1>1. k \in 1 .. Len(w) /\ \A j \in 1 .. Len(w) : j > k => w[j][1] # n
  OBVIOUS
<1> QED
  BY <1>1, LastWrite

(* A command whose last writes of the reboot's two flags clear them. *)
LEMMA ClearsAgree ==
    ASSUME NEW f, NEW w \in Writes, NEW len \in 3 .. 5, Len(w) = len,
           NEW j \in 1 .. len, NEW k \in 1 .. len,
           w[j] = Off("reboot_requested"), w[k] = Off("no_shutdown"),
           \A i \in 1 .. len : i > j => w[i][1] # "reboot_requested",
           \A i \in 1 .. len : i > k => w[i][1] # "no_shutdown"
    PROVE  Agree(AfterWrites(f, w))
<1>0. "reboot_requested" \in Flags /\ "no_shutdown" \in Flags
  BY DEF Flags
<1>1. AfterWrites(f, w)["reboot_requested"] = FALSE
  <2>1. w[j][1] = "reboot_requested" /\ w[j][2] = FALSE
    BY OnOff
  <2>2. AfterWrites(f, w)["reboot_requested"] = w[j][2]
    <3> DEFINE m == "reboot_requested"
    <3>1. /\ m \in Flags /\ w[j][1] = m /\ j \in 1 .. Len(w)
          /\ \A i \in 1 .. Len(w) : i > j => w[i][1] # m
      BY <1>0, <2>1
    <3> HIDE DEF m
    <3>2. AfterWrites(f, w)[m] = w[j][2]
      BY <3>1, LastWrite
    <3> QED
      BY <3>2 DEF m
  <2> QED
    BY <2>1, <2>2
<1>2. AfterWrites(f, w)["no_shutdown"] = FALSE
  <2>1. w[k][1] = "no_shutdown" /\ w[k][2] = FALSE
    BY OnOff
  <2>2. AfterWrites(f, w)["no_shutdown"] = w[k][2]
    <3> DEFINE m == "no_shutdown"
    <3>1. /\ m \in Flags /\ w[k][1] = m /\ k \in 1 .. Len(w)
          /\ \A i \in 1 .. Len(w) : i > k => w[i][1] # m
      BY <1>0, <2>1
    <3> HIDE DEF m
    <3>2. AfterWrites(f, w)[m] = w[k][2]
      BY <3>1, LastWrite
    <3> QED
      BY <3>2 DEF m
  <2> QED
    BY <2>1, <2>2
<1> QED
  BY <1>1, <1>2 DEF Agree

(* What ClearAsked leaves agrees, whatever it found. *)
LEMMA ClearAskedAgrees ==
    ASSUME NEW f
    PROVE  Agree(AfterWrites(f, ClearAsked))
<1> DEFINE w == ClearAsked
<1>1. w \in Writes
  BY CommandsTyped DEF CommandLists
<1>2. /\ Len(w) = 3 /\ w[2] = Off("reboot_requested") /\ w[3] = Off("no_shutdown")
      /\ w[3][1] = "no_shutdown"
  BY OnOff DEF ClearAsked
<1> HIDE DEF w
<1>3. Agree(AfterWrites(f, w))
  BY <1>1, <1>2, ClearsAgree
<1> QED
  BY <1>3 DEF w

(* Each command leaves the flags in agreement when it found them so. *)
LEMMA CommandAgrees ==
    ASSUME NEW f \in [Flags -> BOOLEAN], Agree(f), NEW w \in CommandLists
    PROVE  Agree(AfterWrites(f, w))
<1> DEFINE g == AfterWrites(f, w)
<1>0. w \in Writes /\ {"no_shutdown", "reboot_requested", "handler_added"} \subseteq Flags
  BY CommandsTyped DEF Flags
<1>1. CASE w \in {ShutdownForced, ShutdownAsked}
  <2>1. /\ Len(w) = 2
        /\ w[1][1] \in {"shutdown_requested", "powerdown_asked"}
        /\ w[2][1] \in {"powerdown_asked", "powerdown_requested"}
    <3>1. CASE w = ShutdownForced
      BY <3>1, OnOff DEF ShutdownForced
    <3>2. CASE w = ShutdownAsked
      BY <3>2, OnOff DEF ShutdownAsked
    <3> QED
      BY <1>1, <3>1, <3>2
  <2>2. \A k \in 1 .. Len(w) :
            w[k][1] \notin {"no_shutdown", "reboot_requested", "handler_added"}
    BY <2>1
  <2> QED
    BY <1>0, <2>2, NoWrite DEF Agree
<1>2. CASE w = RebootForced
  <2>1. /\ Len(w) = 5 /\ w[4] = Off("reboot_requested") /\ w[5] = Off("no_shutdown")
        /\ w[5][1] = "no_shutdown"
    BY <1>2, OnOff DEF RebootForced
  <2> QED
    BY <1>0, <2>1, ClearsAgree
<1>3. CASE w = RebootAsked
  <2>1. /\ Len(w) = 4 /\ w[1][1] = "no_shutdown" /\ w[2][1] = "handler_added"
        /\ w[3][1] = "reboot_requested" /\ w[4][1] = "powerdown_requested"
        /\ w[1][2] = TRUE /\ w[2][2] = TRUE /\ w[3][2] = TRUE
    BY <1>3, OnOff DEF RebootAsked
  <2>2. g["reboot_requested"] = w[3][2]
    BY <1>0, <2>1, LastOf
  <2>3. g["no_shutdown"] = w[1][2]
    BY <1>0, <2>1, LastOf
  <2>4. g["handler_added"] = w[2][2]
    BY <1>0, <2>1, LastOf
  <2> QED
    BY <2>1, <2>2, <2>3, <2>4 DEF Agree
<1>4. CASE w = reset_vm
  <2>1. /\ Len(w) = 5 /\ w[2] = Off("reboot_requested") /\ w[3] = Off("no_shutdown")
        /\ w[3][1] = "no_shutdown" /\ w[4][1] = "reset_requested" /\ w[5][1] = "current_cpu"
    BY <1>4, OnOff DEF reset_vm, cpu_stop_current
  <2> QED
    BY <1>0, <2>1, ClearsAgree
<1>5. CASE w = ClearAsked
  BY <1>5, ClearAskedAgrees
<1> QED
  BY <1>1, <1>2, <1>3, <1>4, <1>5 DEF CommandLists

-----------------------------------------------------------------------------
(* The inductive invariant                                                 *)

(* Without a command under way the flags themselves agree. *)
LEMMA AgreeIdle ==
    ASSUME NEW f, NEW w, w = <<>>
    PROVE  Agree(AfterWrites(f, w)) <=> Agree(f)
<1>1. w \in Writes /\ \A k \in 1 .. Len(w) : FALSE
  BY DEF Writes
<1>2. \A n \in Flags : AfterWrites(f, w)[n] = f[n]
  BY <1>1, NoWrite
<1> QED
  BY <1>2 DEF Agree, Flags

(* The program starts with no request pending. *)
LEMMA InitIInv == Init => IInv
<1> SUFFICES ASSUME Init PROVE IInv
  OBVIOUS
<1>0. todo = <<>> /\ mtodo = <<>>
  BY DEF Init
<1>1. TypeOK
  <2>1. <<>> \in Seq(Stores) /\ Len(<<>>) = 0
    BY EmptySeq
  <2>2. todo \in Seq(Stores) /\ Len(todo) <= 5 /\ mtodo \in Seq(Stores) /\ Len(mtodo) <= 5
    BY <1>0, <2>1
  <2>3. events \in 0 .. MaxEvents
    BY MaxEventsNat DEF Init
  <2> QED
    BY <2>2, <2>3 DEF Init, TypeOK, RunStates
<1>2. StopInv /\ SaveInv /\ AbortOnlyStaleSuspend
  BY DEF Init, StopInv, SaveInv, AbortOnlyStaleSuspend
<1>3. OffInv
  <2>1. KeepsReset(<<>>)
    BY DEF KeepsReset
  <2> QED
    BY <1>0, <2>1 DEF Init, OffInv
<1>4. AgreeInv
  <2>1. Agree(flag)
    BY DEF Init, Agree, Flags
  <2> QED
    BY <1>0, <2>1, AgreeIdle DEF AgreeInv
<1> QED
  BY <1>1, <1>2, <1>3, <1>4 DEF IInv

(* Setting or clearing some flags leaves flags. *)
LEMMA PutType ==
    ASSUME NEW f \in [Flags -> BOOLEAN], NEW names, NEW v \in BOOLEAN
    PROVE  Put(f, names, v) \in [Flags -> BOOLEAN]
BY DEF Put

(* The count of events stays within its bound. *)
LEMMA EventType ==
    ASSUME events \in 0 .. MaxEvents, Event
    PROVE  events' \in 0 .. MaxEvents
BY MaxEventsNat DEF Event

(* The stages of main_loop_should_exit and what follows each of them. *)
LEMMA StageNames ==
    /\ Stages = {"suspend", "shutdown", "reset", "wakeup", "powerdown", "vmstop"}
    /\ \A s \in Stages : NextStage[s] \in Stages \cup {"poll"}
BY DEF Stages, NextStage

(* The variables that hold stores. *)
StoresOK ==
    /\ todo \in Writes /\ Len(todo) <= 5 /\ KeepsReset(todo)
    /\ mtodo \in Writes /\ Len(mtodo) <= 5 /\ KeepsReset(mtodo)

(* Making the first store leaves a list of stores, ... *)
LEMMA RestOfWrites ==
    ASSUME NEW w \in Writes, Len(w) <= 5, KeepsReset(w), w # <<>>
    PROVE  /\ Tail(w) \in Writes /\ Len(Tail(w)) <= 5 /\ KeepsReset(Tail(w))
           /\ Head(w) \in Stores /\ Head(w) # Off("reset_requested")
<1>1. /\ Tail(w) \in Writes /\ Len(Tail(w)) = Len(w) - 1 /\ Len(w) \in Nat
      /\ \A i \in 1 .. Len(Tail(w)) : Tail(w)[i] = w[i + 1]
      /\ Head(w) = w[1] /\ w[1] \in Stores /\ Len(w) >= 1
  BY HeadTailProperties, LenProperties DEF Writes
<1>2. Head(w) # Off("reset_requested")
  BY <1>1 DEF KeepsReset
<1>3. KeepsReset(Tail(w))
  BY <1>1 DEF KeepsReset
<1>4. Len(Tail(w)) <= 5
  BY <1>1
<1> QED
  BY <1>1, <1>2, <1>3, <1>4

(* ... and so do the steps: they begin a command, make a store, or leave   *)
(* the lists alone.                                                        *)
LEMMA StoresStep ==
    ASSUME IInv, Main \/ Others
    PROVE  StoresOK'
<1>0. StoresOK
  BY DEF IInv, TypeOK, OffInv, StoresOK, Writes
<1>1. CASE MenuChoose
  <2>1. todo' \in CommandLists /\ mtodo' = mtodo
    BY <1>1, CommandsListed DEF MenuChoose
  <2> QED
    BY <1>0, <2>1, CommandsTyped DEF StoresOK
<1>2. CASE MonitorCommand
  <2>1. mtodo' \in CommandLists /\ todo' = todo
    BY <1>2, CommandsListed DEF MonitorCommand
  <2> QED
    BY <1>0, <2>1, CommandsTyped DEF StoresOK
<1>3. CASE CpuSuspendVm \/ SuspendVm \/ Clear
  <2>1. mtodo' \in CommandLists /\ todo' = todo
    BY <1>3 DEF CpuSuspendVm, SuspendVm, Clear, CommandLists
  <2> QED
    BY <1>0, <2>1, CommandsTyped DEF StoresOK
<1>4. CASE MenuWrite
  <2>1. todo # <<>> /\ todo' = Tail(todo) /\ mtodo' = mtodo
    BY <1>4 DEF MenuWrite
  <2> QED
    BY <1>0, <2>1, RestOfWrites DEF StoresOK
<1>5. CASE HolderWrite
  <2>1. mtodo # <<>> /\ mtodo' = Tail(mtodo) /\ todo' = todo
    BY <1>5 DEF HolderWrite
  <2> QED
    BY <1>0, <2>1, RestOfWrites DEF StoresOK
<1>6. CASE /\ ~MenuChoose /\ ~MonitorCommand /\ ~CpuSuspendVm /\ ~SuspendVm /\ ~Clear
           /\ ~MenuWrite /\ ~HolderWrite
  <2>1. todo' = todo /\ mtodo' = mtodo
    BY <1>6
    DEF storevars, Main, Poll, SuspendStop, SaveVm, DispatchDone, StageSkip, StageTake,
        Paused, PausedSuspend, PausedReset, PausedStop, Notify, Stopped, Drain,
        Others, MenuClose, GuestPowersOff, GuestResets, GuestSuspends, GuestStartsIo,
        StragglerStops, CpuStopAsked, CpuSaved, Wakeup, MonitorShutoff, Killed, DiskDone
  <2> QED
    BY <1>0, <2>1 DEF StoresOK
<1> QED
  BY <1>1, <1>2, <1>3, <1>4, <1>5, <1>6

(* The Boolean variables. *)
BoolsOK == {resumed, straggler, io, saved, saved_vm_running, off, owed, dropped, raced} \subseteq BOOLEAN

(* The other variables' types. *)
RestOK ==
    /\ BoolsOK
    /\ runstate \in RunStates
    /\ flag \in [Flags -> BOOLEAN]
    /\ vmstop_requested \in {"max", "io-error", "save-vm"} /\ wakeup_reason \in BOOLEAN
    /\ mpc \in Stages \cup {"poll", "dispatch", "close", "pausing", "paused", "notify", "clear",
                            "stopped", "drain", "saving", "exited", "aborted"}
    /\ op \in Stages \cup {"none", "save"}
    /\ target \in {"none", "shutdown", "io-error", "save-vm"}
    /\ events \in 0 .. MaxEvents
    /\ closing \in {"no", "scheduled", "main", "cpu"} /\ spc \in {"no", "clear", "saving"}

(* vm_start keeps the types. *)
LEMMA VmStartType ==
    ASSUME RestOK, vm_start
    PROVE  /\ vmstop_requested' \in {"max", "io-error", "save-vm"} /\ runstate' \in RunStates
           /\ dropped' \in BOOLEAN /\ owed' \in BOOLEAN /\ resumed' \in BOOLEAN
BY DEF RestOK, BoolsOK, vm_start, RunStates

(* Every step of the main loop keeps the types. *)
LEMMA MainType ==
    ASSUME IInv, Main
    PROVE  RestOK'
<1>0. RestOK
  BY DEF IInv, TypeOK, RestOK, BoolsOK
<1> USE <1>0, StageNames DEF RestOK, BoolsOK, At, mainvars, guestvars, savevars, errorvars
<1>1. CASE Poll
  BY <1>1 DEF Poll
<1>2. CASE SuspendVm
  BY <1>2 DEF SuspendVm
<1>3. CASE SaveVm
  BY <1>3, PutType DEF SaveVm
<1>4. CASE DispatchDone
  BY <1>4 DEF DispatchDone
<1>5. CASE StageSkip
  BY <1>5 DEF StageSkip
<1>6. CASE StageTake
  <2>1. flag' \in [Flags -> BOOLEAN]
    BY <1>6, PutType DEF StageTake
  <2>2. mpc' \in Stages \cup {"poll", "exited", "drain", "pausing"} /\ op' \in Stages
    BY <1>6 DEF StageTake
  <2>3. raced' \in BOOLEAN /\ vmstop_requested' \in {"max", "io-error", "save-vm"}
    BY <1>6 DEF StageTake
  <2>4. target' \in {"none", "shutdown", "io-error", "save-vm"}
    BY <1>6 DEF StageTake, Requested
  <2> QED
    BY <1>6, <2>1, <2>2, <2>3, <2>4 DEF StageTake
<1>7. CASE Paused
  BY <1>7 DEF Paused
<1>8. CASE PausedSuspend
  BY <1>8 DEF PausedSuspend, runstate_set, RunStates
<1>9. CASE PausedReset
  BY <1>9 DEF PausedReset, runstate_set, RunStates
<1>10. CASE PausedStop
  <2>1. target # "none"
    BY <1>10 DEF PausedStop, IInv, StopInv, StopOps
  <2>2. runstate' \in RunStates /\ mpc' \in {"notify", "aborted"} /\ off' \in BOOLEAN
    BY <1>10, <2>1 DEF PausedStop, runstate_set, RunStates
  <2> QED
    BY <1>10, <2>2 DEF PausedStop
<1>11. CASE Notify
  <2>1. flag' \in [Flags -> BOOLEAN]
    <3>1. flag' = flag \/ flag' = Put(flag, {"reset_requested"}, TRUE)
      BY <1>11 DEF Notify
    <3>2. Put(flag, {"reset_requested"}, TRUE) \in [Flags -> BOOLEAN]
      BY PutType
    <3> QED
      BY <3>1, <3>2
  <2>2. /\ vmstop_requested' \in {"max", "io-error", "save-vm"} /\ runstate' \in RunStates
        /\ dropped' \in BOOLEAN /\ owed' \in BOOLEAN /\ resumed' \in BOOLEAN
    <3>1. vm_start \/ UNCHANGED <<vmstop_requested, errorvars, runstate, resumed>>
      BY <1>11 DEF Notify
    <3> QED
      BY <3>1, VmStartType
  <2>3. mpc' \in {"clear", "stopped"} /\ raced' \in BOOLEAN
    BY <1>11 DEF Notify
  <2> QED
    BY <1>11, <2>1, <2>2, <2>3 DEF Notify
<1>12. CASE Clear
  BY <1>12 DEF Clear
<1>13. CASE Stopped
  BY <1>13 DEF Stopped
<1>14. CASE Drain
  <2>1. op # "none"
    BY <1>14 DEF Drain, IInv, StopInv
  <2>2. mpc' \in Stages \cup {"poll", "saving"}
    BY <1>14, <2>1 DEF Drain
  <2>3. BoolsOK'
    BY <1>14 DEF Drain, DiskResult
  <2>4. vmstop_requested' \in {"max", "io-error", "save-vm"}
    BY <1>14 DEF Drain, DiskResult
  <2>5. UNCHANGED <<runstate, flag, wakeup_reason, op, target, closing, spc, events>>
    BY <1>14 DEF Drain
  <2> QED
    BY <2>2, <2>3, <2>4, <2>5
<1>15. CASE SuspendStop
  BY <1>15 DEF SuspendStop
<1> QED
  BY <1>1, <1>2, <1>3, <1>4, <1>5, <1>6, <1>7, <1>8, <1>9, <1>10, <1>11, <1>12,
     <1>13, <1>14, <1>15 DEF Main

(* A store keeps the flags' type. *)
LEMMA WriteType ==
    ASSUME RestOK, NEW store \in Stores, Write(store)
    PROVE  flag' \in [Flags -> BOOLEAN] /\ straggler' \in BOOLEAN
<1>1. store[2] \in BOOLEAN
  BY DEF Stores
<1>2. flag' \in [Flags -> BOOLEAN]
  BY <1>1, PutType DEF RestOK, Write
<1>3. straggler' \in BOOLEAN
  BY DEF RestOK, BoolsOK, Write
<1> QED
  BY <1>2, <1>3

(* So does every step of the others. *)
LEMMA OthersType ==
    ASSUME IInv, Others
    PROVE  RestOK'
<1>0. RestOK /\ StoresOK
  BY DEF IInv, TypeOK, RestOK, BoolsOK, OffInv, StoresOK, Writes
<1> USE <1>0 DEF RestOK, BoolsOK, mainvars, guestvars, savevars, errorvars
<1>1. CASE MenuChoose
  BY <1>1, EventType DEF MenuChoose
<1>2. CASE MenuWrite
  <2>1. Head(todo) \in Stores
    BY <1>2, RestOfWrites DEF MenuWrite, StoresOK
  <2>2. flag' \in [Flags -> BOOLEAN] /\ straggler' \in BOOLEAN
    BY <1>2, <2>1, WriteType DEF MenuWrite
  <2> QED
    BY <1>2, <2>2 DEF MenuWrite
<1>3. CASE HolderWrite
  <2>1. Head(mtodo) \in Stores
    BY <1>3, RestOfWrites DEF HolderWrite, StoresOK
  <2>2. flag' \in [Flags -> BOOLEAN] /\ straggler' \in BOOLEAN
    BY <1>3, <2>1, WriteType DEF HolderWrite
  <2> QED
    BY <1>3, <2>2 DEF HolderWrite
<1>4. CASE MenuClose
  BY <1>4, EventType DEF MenuClose
<1>5. CASE GuestPowersOff
  <2>1. flag' \in [Flags -> BOOLEAN]
    BY <1>5, PutType DEF GuestPowersOff
  <2>2. BoolsOK'
    BY <1>5 DEF GuestPowersOff
  <2>3. events' \in 0 .. MaxEvents
    BY <1>5, EventType DEF GuestPowersOff
  <2>4. UNCHANGED <<runstate, vmstop_requested, wakeup_reason, mpc, op, target, closing, spc>>
    BY <1>5 DEF GuestPowersOff
  <2> QED
    BY <2>1, <2>2, <2>3, <2>4
<1>6. CASE GuestResets
  <2>1. flag' \in [Flags -> BOOLEAN]
    BY <1>6, PutType DEF GuestResets
  <2>2. BoolsOK'
    BY <1>6 DEF GuestResets
  <2>3. events' \in 0 .. MaxEvents
    BY <1>6, EventType DEF GuestResets
  <2>4. UNCHANGED <<runstate, vmstop_requested, wakeup_reason, mpc, op, target, closing, spc>>
    BY <1>6 DEF GuestResets
  <2> QED
    BY <2>1, <2>2, <2>3, <2>4
<1>7. CASE GuestSuspends
  <2>1. flag' \in [Flags -> BOOLEAN]
    BY <1>7, PutType DEF GuestSuspends
  <2>2. BoolsOK'
    BY <1>7 DEF GuestSuspends
  <2>3. events' \in 0 .. MaxEvents
    BY <1>7, EventType DEF GuestSuspends
  <2>4. UNCHANGED <<runstate, vmstop_requested, wakeup_reason, mpc, op, target, closing, spc>>
    BY <1>7 DEF GuestSuspends
  <2> QED
    BY <2>1, <2>2, <2>3, <2>4
<1>8. CASE GuestStartsIo
  BY <1>8, EventType DEF GuestStartsIo
<1>9. CASE StragglerStops
  <2>1. BoolsOK'
    BY <1>9 DEF StragglerStops
  <2> QED
    BY <1>9, <2>1 DEF StragglerStops
<1>10. CASE Wakeup
  BY <1>10, EventType DEF Wakeup, RunStates
<1>11. CASE MonitorCommand
  BY <1>11, EventType DEF MonitorCommand
<1>12. CASE MonitorShutoff
  BY <1>12, EventType DEF MonitorShutoff
<1>13. CASE Killed
  <2>1. flag' \in [Flags -> BOOLEAN]
    BY <1>13 DEF Killed, Flags
  <2>2. raced' \in BOOLEAN
    BY <1>13 DEF Killed
  <2> QED
    BY <1>13, <2>1, <2>2, EventType DEF Killed
<1>14. CASE DiskDone
  <2>1. BoolsOK'
    BY <1>14 DEF DiskDone, DiskResult
  <2> QED
    BY <1>14, <2>1 DEF DiskDone, DiskResult
<1>15. CASE CpuSuspendVm
  BY <1>15 DEF CpuSuspendVm
<1>16. CASE CpuStopAsked
  <2>1. flag' \in [Flags -> BOOLEAN]
    <3>1. flag' = flag \/ flag' = Put(flag, {"shutdown_requested"}, TRUE)
      BY <1>16 DEF CpuStopAsked
    <3>2. Put(flag, {"shutdown_requested"}, TRUE) \in [Flags -> BOOLEAN]
      BY PutType
    <3> QED
      BY <3>1, <3>2
  <2>2. saved_vm_running' \in BOOLEAN /\ straggler' \in BOOLEAN /\ spc' \in {"saving", "no"}
    BY <1>16 DEF CpuStopAsked, Running
  <2> QED
    BY <1>16, <2>1, <2>2 DEF CpuStopAsked
<1>17. CASE CpuSaved
  <2>1. flag' \in [Flags -> BOOLEAN] /\ saved' \in BOOLEAN
    BY <1>17, PutType DEF CpuSaved
  <2>2. /\ vmstop_requested' \in {"max", "io-error", "save-vm"} /\ runstate' \in RunStates
        /\ dropped' \in BOOLEAN /\ owed' \in BOOLEAN /\ resumed' \in BOOLEAN
    <3>1. vm_start \/ UNCHANGED <<vmstop_requested, errorvars, runstate, resumed>>
      BY <1>17 DEF CpuSaved
    <3> QED
      BY <3>1, VmStartType
  <2>3. straggler' \in BOOLEAN
    BY <1>17 DEF CpuSaved, Running
  <2>4. BoolsOK'
    BY <1>17, <2>1, <2>2, <2>3 DEF CpuSaved
  <2> QED
    BY <1>17, <2>1, <2>2, <2>4 DEF CpuSaved
<1> QED
  BY <1>1, <1>2, <1>3, <1>4, <1>5, <1>6, <1>7, <1>8, <1>9, <1>10, <1>11, <1>12,
     <1>13, <1>14, <1>15, <1>16, <1>17 DEF Others

(* What the steps outside the main loop do to its state: only the menu's   *)
(* close, a wakeup, a CPU that has saved the VM and the monitor's shutoff  *)
(* change any of it.                                                       *)
LEMMA OthersKeep ==
    ASSUME Others
    PROVE  \/ UNCHANGED <<mpc, op, target, runstate, off>>
           \/ MenuClose /\ UNCHANGED <<op, target, runstate, off>>
           \/ Wakeup /\ UNCHANGED <<mpc, op, target, off>>
           \/ CpuSaved /\ UNCHANGED <<mpc, op, target, off>>
           \/ MonitorShutoff /\ UNCHANGED <<op, target, runstate, off>>
<1> USE DEF mainvars
<1> QED
  BY DEF Others, MenuChoose, MenuWrite, HolderWrite, MenuClose, GuestPowersOff, GuestResets,
         GuestSuspends, GuestStartsIo, StragglerStops, CpuSuspendVm, CpuStopAsked, CpuSaved,
         Wakeup, MonitorCommand, MonitorShutoff, Killed, DiskDone

(* A CPU that has saved the VM leaves it in its state or running. *)
LEMMA SavedRuns ==
    ASSUME CpuSaved
    PROVE  runstate' \in {"running", runstate} /\ spc = "saving" /\ MutexFree
BY DEF CpuSaved, vm_start

(* A stop in progress is not disturbed. *)
LEMMA StopStep ==
    ASSUME IInv, Main \/ Others
    PROVE  StopInv' /\ AbortOnlyStaleSuspend'
<1>0. target \in {"none", "shutdown", "io-error", "save-vm"}
      /\ vmstop_requested \in {"max", "io-error", "save-vm"}
  BY DEF IInv, TypeOK
<1> USE <1>0, StageNames DEF IInv, StopInv, StopOps, AbortOnlyStaleSuspend, Running, At, mainvars
<1>1. CASE Poll
  BY <1>1 DEF Poll
<1>2. CASE SuspendVm
  BY <1>2 DEF SuspendVm
<1>3. CASE SaveVm
  BY <1>3 DEF SaveVm
<1>4. CASE DispatchDone
  BY <1>4 DEF DispatchDone
<1>5. CASE StageSkip
  BY <1>5 DEF StageSkip
<1>6. CASE StageTake
  BY <1>6 DEF StageTake, Requested
<1>7. CASE Paused
  BY <1>7 DEF Paused
<1>8. CASE PausedSuspend
  BY <1>8 DEF PausedSuspend, runstate_set, Transitions
<1>9. CASE PausedReset
  BY <1>9 DEF PausedReset, runstate_set, Transitions, runstate_needs_reset
<1>10. CASE PausedStop
  <2>1. <<runstate, target>> \in Transitions
    BY <1>10 DEF PausedStop, Transitions
  <2> QED
    BY <1>10, <2>1 DEF PausedStop, runstate_set
<1>11. CASE Notify
  BY <1>11 DEF Notify
<1>12. CASE Clear
  BY <1>12 DEF Clear
<1>13. CASE Stopped
  BY <1>13 DEF Stopped
<1>14. CASE Drain
  BY <1>14 DEF Drain, TypeOK
<1>15. CASE SuspendStop
  BY <1>15 DEF SuspendStop
<1>16. CASE Others
  <2>1. CASE CpuSaved
    <3>1. mpc \notin {"aborted", "notify"} /\ UNCHANGED <<mpc, op, target>>
      BY <2>1 DEF CpuSaved, MutexFree
    <3>2. runstate' = "running" \/ runstate' = runstate
      BY <2>1, SavedRuns
    <3> QED
      BY <3>1, <3>2
  <2>2. CASE ~CpuSaved
    BY <1>16, <2>2, OthersKeep DEF MenuClose, Wakeup, MonitorShutoff, Ended, MutexFree
  <2> QED
    BY <2>1, <2>2
<1> QED
  BY <1>1, <1>2, <1>3, <1>4, <1>5, <1>6, <1>7, <1>8, <1>9, <1>10, <1>11, <1>12,
     <1>13, <1>14, <1>15, <1>16 DEF Main

(* Which thread runs do_suspendVM is settled once. *)
LEMMA ClosingKept ==
    ASSUME Main \/ Others
    PROVE  /\ closing = "cpu" => closing' = "cpu"
           /\ spc' # "no" => spc # "no" \/ closing' = "cpu"
<1> USE DEF savevars
<1> QED
  BY DEF Main, Poll, SuspendVm, SuspendStop, SaveVm, DispatchDone, StageSkip, StageTake,
         Paused, PausedSuspend, PausedReset, PausedStop, Notify, Clear, Stopped, Drain,
         Others, MenuChoose, MenuWrite, HolderWrite, MenuClose, GuestPowersOff, GuestResets,
         GuestSuspends, GuestStartsIo, StragglerStops, CpuSuspendVm, CpuStopAsked, CpuSaved,
         Wakeup, MonitorCommand, MonitorShutoff, Killed, DiskDone

(* A store that does not clear the reset request keeps it. *)
LEMMA WriteKeepsReset ==
    ASSUME NEW store \in Stores, store # Off("reset_requested"), Write(store),
           flag.reset_requested
    PROVE  flag'.reset_requested
<1>1. store[1] = "reset_requested" => store[2] = TRUE
  BY OffOrTrue
<1>2. "reset_requested" \in Flags
  BY DEF Flags
<1> QED
  BY <1>1, <1>2 DEF Write, Put

(* While the reset is on its way the others leave the request alone. *)
LEMMA ResetRequestKept ==
    ASSUME IInv, Others, flag.reset_requested
    PROVE  flag'.reset_requested
<1>0. StoresOK
  BY DEF IInv, TypeOK, OffInv, StoresOK, Writes
<1>1. CASE MenuWrite
  BY <1>0, <1>1, RestOfWrites, WriteKeepsReset DEF MenuWrite, StoresOK
<1>2. CASE HolderWrite
  BY <1>0, <1>2, RestOfWrites, WriteKeepsReset DEF HolderWrite, StoresOK
<1>3. CASE Killed
  BY <1>3 DEF Killed, IInv, TypeOK, Flags
<1>4. CASE GuestPowersOff \/ GuestResets \/ GuestSuspends \/ CpuStopAsked \/ CpuSaved
  BY <1>4 DEF GuestPowersOff, GuestResets, GuestSuspends, CpuStopAsked, CpuSaved, Put, Flags
<1>5. CASE \/ MenuChoose \/ MenuClose \/ GuestStartsIo \/ StragglerStops \/ CpuSuspendVm
           \/ Wakeup \/ MonitorCommand \/ MonitorShutoff \/ DiskDone
  BY <1>5 DEF MenuChoose, MenuClose, GuestStartsIo, StragglerStops, CpuSuspendVm,
              Wakeup, MonitorCommand, MonitorShutoff, DiskDone
<1> QED
  BY <1>1, <1>2, <1>3, <1>4, <1>5 DEF Others

(* A guest that has powered off runs again only on its way to a reset, or  *)
(* because a CPU has saved the VM.                                         *)
LEMMA OffStep ==
    ASSUME IInv, Main \/ Others
    PROVE  OffInv'
<1> SUFFICES ASSUME off', closing' # "cpu"
             PROVE  (runstate = "shutdown" \/ (Running /\ ResetOnItsWay))'
  BY StoresStep DEF OffInv, StoresOK
<1>0. closing # "cpu" /\ spc = "no"
  BY ClosingKept DEF IInv, SaveInv
<1> USE <1>0, StageNames DEF IInv, StopInv, StopOps, OffInv, Running, ResetOnItsWay, At, mainvars
<1>1. CASE Poll
  BY <1>1 DEF Poll
<1>2. CASE SuspendVm
  BY <1>2 DEF SuspendVm
<1>3. CASE SaveVm
  BY <1>3 DEF SaveVm
<1>4. CASE DispatchDone
  BY <1>4 DEF DispatchDone
<1>5. CASE StageSkip
  BY <1>5 DEF StageSkip, Requested, RequestFlag
<1>6. CASE StageTake
  BY <1>6 DEF StageTake
<1>7. CASE Paused
  BY <1>7 DEF Paused
<1>8. CASE PausedSuspend
  BY <1>8 DEF PausedSuspend, runstate_set, Transitions
<1>9. CASE PausedReset
  BY <1>9 DEF PausedReset
<1>10. CASE PausedStop
  <2>1. runstate = "running" /\ ~ResetOnItsWay
    BY <1>10 DEF PausedStop
  <2>2. target = "shutdown"
    BY <1>10, <2>1 DEF PausedStop
  <2>3. <<"running", "shutdown">> \in Transitions
    BY DEF Transitions
  <2> QED
    BY <1>10, <2>1, <2>2, <2>3 DEF PausedStop, runstate_set
<1>11. CASE Notify
  <2>1. "reset_requested" \in Flags /\ runstate = target
    BY <1>11 DEF Notify, Flags
  <2> QED
    BY <1>11, <2>1 DEF Notify, vm_start, Put
<1>12. CASE Clear
  BY <1>12 DEF Clear
<1>13. CASE Stopped
  BY <1>13 DEF Stopped
<1>14. CASE Drain
  BY <1>14 DEF Drain, NextStage
<1>15. CASE SuspendStop
  BY <1>15 DEF SuspendStop
<1>16. CASE Others
  <2>1. flag.reset_requested => flag'.reset_requested
    BY <1>16, ResetRequestKept
  <2>2. ~CpuSaved
    BY DEF CpuSaved
  <2> QED
    BY <1>16, <2>1, <2>2, OthersKeep DEF MenuClose, Wakeup, MonitorShutoff, Ended
<1> QED
  BY <1>1, <1>2, <1>3, <1>4, <1>5, <1>6, <1>7, <1>8, <1>9, <1>10, <1>11, <1>12,
     <1>13, <1>14, <1>15, <1>16 DEF Main

(* The flags that a reboot goes by. *)
RebootFlags == {"no_shutdown", "reboot_requested", "handler_added"}

(* Flags that do not matter to a reboot may change. *)
LEMMA AgreeKept ==
    ASSUME NEW f, NEW g, NEW w \in Writes, Len(w) <= 5,
           Agree(AfterWrites(f, w)), \A n \in RebootFlags : f[n] = g[n]
    PROVE  Agree(AfterWrites(g, w))
<1>1. RebootFlags \subseteq Flags
  BY DEF RebootFlags, Flags
<1>2. \A n \in RebootFlags : AfterWrites(f, w)[n] = AfterWrites(g, w)[n]
  BY <1>1, SameFlag
<1> QED
  BY <1>2 DEF Agree, RebootFlags

(* A request for a shutdown, a reset or a suspend is none of the reboot's  *)
(* flags.                                                                  *)
LEMMA RequestKeepsReboot ==
    ASSUME NEW f, NEW n \in {"shutdown_requested", "reset_requested", "suspend_requested"}
    PROVE  \A r \in RebootFlags : Put(f, {n}, TRUE)[r] = f[r]
<1>1. \A r \in RebootFlags : r \in Flags /\ r # n
  BY DEF RebootFlags, Flags
<1> QED
  BY <1>1 DEF Put

(* A step that leaves the reboot's flags and the commands under way alone. *)
LEMMA AgreeSame ==
    ASSUME IInv, ~raced, UNCHANGED <<todo, mtodo>>, \A n \in RebootFlags : flag'[n] = flag[n]
    PROVE  AgreeInv'
<1>0. StoresOK
  BY DEF IInv, TypeOK, OffInv, StoresOK, Writes
<1>1. Agree(AfterWrites(flag, todo)) => Agree(AfterWrites(flag', todo))
  BY <1>0, AgreeKept DEF StoresOK
<1>2. Agree(AfterWrites(flag, mtodo)) => Agree(AfterWrites(flag', mtodo))
  BY <1>0, AgreeKept DEF StoresOK
<1> QED
  BY <1>1, <1>2 DEF IInv, AgreeInv

(* A store of the command under way. *)
LEMMA AgreeWrite ==
    ASSUME NEW f \in [Flags -> BOOLEAN], NEW w \in Writes, Len(w) <= 5, w # <<>>,
           Agree(AfterWrites(f, w))
    PROVE  Agree(AfterWrites(Put(f, {Head(w)[1]}, Head(w)[2]), Tail(w)))
<1> DEFINE g == Put(f, {Head(w)[1]}, Head(w)[2])
<1>1. \A n \in Flags : AfterWrites(g, Tail(w))[n] = AfterWrites(f, w)[n]
  BY FirstWrite
<1> HIDE DEF g
<1>2. Agree(AfterWrites(g, Tail(w)))
  BY <1>1 DEF Agree, Flags
<1> QED
  BY <1>2 DEF g

(* A menu command, the monitor's commands, a signal, and the places that   *)
(* clear the flags keep them in agreement.                                 *)
LEMMA AgreeStep ==
    ASSUME IInv, Main \/ Others
    PROVE  AgreeInv'
<1> SUFFICES ASSUME ~raced'
             PROVE  AgreeInv'
  BY DEF AgreeInv
<1>0. StoresOK /\ flag \in [Flags -> BOOLEAN]
  BY DEF IInv, TypeOK, OffInv, StoresOK, Writes
<1>1. CASE MenuChoose
  <2>1. todo = <<>> /\ mtodo = <<>> /\ mtodo' = <<>> /\ flag' = flag /\ ~raced /\ todo' \in CommandLists
    BY <1>1, CommandsListed DEF MenuChoose
  <2>2. Agree(flag)
    BY <2>1, AgreeIdle DEF IInv, AgreeInv
  <2>3. Agree(AfterWrites(flag', todo'))
    BY <1>0, <2>1, <2>2, CommandAgrees
  <2> QED
    BY <2>1, <2>2, <2>3, AgreeIdle DEF AgreeInv
<1>2. CASE MenuWrite
  <2>1. /\ todo # <<>> /\ todo' = Tail(todo) /\ mtodo' = mtodo /\ ~raced
        /\ flag' = Put(flag, {Head(todo)[1]}, Head(todo)[2])
    BY <1>2 DEF MenuWrite, Write
  <2>2. mtodo = <<>> /\ Agree(AfterWrites(flag, todo))
    BY <2>1 DEF IInv, AgreeInv
  <2>3. Agree(AfterWrites(flag', todo'))
    BY <1>0, <2>1, <2>2, AgreeWrite DEF StoresOK
  <2> QED
    BY <2>1, <2>2, <2>3, AgreeIdle DEF AgreeInv
<1>3. CASE HolderWrite
  <2>1. /\ mtodo # <<>> /\ mtodo' = Tail(mtodo) /\ todo' = todo /\ ~raced
        /\ flag' = Put(flag, {Head(mtodo)[1]}, Head(mtodo)[2])
    BY <1>3 DEF HolderWrite, Write
  <2>2. todo = <<>> /\ Agree(AfterWrites(flag, mtodo))
    BY <2>1 DEF IInv, AgreeInv
  <2>3. Agree(AfterWrites(flag', mtodo'))
    BY <1>0, <2>1, <2>2, AgreeWrite DEF StoresOK
  <2> QED
    BY <2>1, <2>2, <2>3, AgreeIdle DEF AgreeInv
<1>4. CASE MonitorCommand
  <2>1. mtodo = <<>> /\ todo = <<>> /\ todo' = <<>> /\ flag' = flag /\ ~raced /\ mtodo' \in CommandLists
    BY <1>4, CommandsListed DEF MonitorCommand, At
  <2>2. Agree(flag)
    BY <2>1, AgreeIdle DEF IInv, AgreeInv
  <2>3. Agree(AfterWrites(flag', mtodo'))
    BY <1>0, <2>1, <2>2, CommandAgrees
  <2> QED
    BY <2>1, <2>2, <2>3, AgreeIdle DEF AgreeInv
<1>5. CASE CpuSuspendVm \/ SuspendVm \/ Clear
  <2>1. todo = <<>> /\ todo' = <<>> /\ mtodo' = ClearAsked
    BY <1>5 DEF CpuSuspendVm, SuspendVm, Clear
  <2>2. Agree(AfterWrites(flag', mtodo'))
    BY <2>1, ClearAskedAgrees
  <2>3. mtodo' # <<>>
    BY <2>1 DEF ClearAsked
  <2> QED
    BY <2>1, <2>2, <2>3 DEF AgreeInv
<1>6. CASE Killed
  <2>1. /\ todo = <<>> /\ todo' = <<>> /\ mtodo = <<>> /\ mtodo' = <<>>
        /\ ~raced /\ ~flag.reboot_requested
    BY <1>6 DEF Killed, storevars
  <2>2. ~flag'.reboot_requested /\ ~flag'.no_shutdown
    BY <1>0, <1>6, <2>1 DEF Killed, Flags
  <2>3. flag'.reboot_requested \in BOOLEAN /\ flag'.no_shutdown \in BOOLEAN
    BY <1>0, <1>6 DEF Killed, Flags
  <2>4. Agree(flag')
    BY <2>2, <2>3 DEF Agree
  <2> QED
    BY <2>1, <2>4, AgreeIdle DEF AgreeInv
<1>7. CASE StageTake
  <2>1. UNCHANGED <<todo, mtodo>> /\ ~raced
    BY <1>7 DEF StageTake, storevars
  <2>2. \A n \in RebootFlags : flag'[n] = flag[n]
    BY <1>7 DEF StageTake, Put, RequestFlag, Flags, RebootFlags
  <2> QED
    BY <2>1, <2>2, AgreeSame
<1>8. CASE \/ SaveVm \/ Notify \/ GuestPowersOff \/ GuestResets \/ GuestSuspends
           \/ CpuStopAsked \/ CpuSaved
  <2>1. UNCHANGED <<todo, mtodo>> /\ ~raced
    <3>1. UNCHANGED <<todo, mtodo>>
      BY <1>8 DEF SaveVm, Notify, GuestPowersOff, GuestResets, GuestSuspends, CpuStopAsked,
                  CpuSaved, storevars
    <3>2. CASE Notify
      BY <3>1, <3>2 DEF Notify
    <3>3. CASE ~Notify
      <4>1. raced' = raced
        BY <1>8, <3>3 DEF SaveVm, GuestPowersOff, GuestResets, GuestSuspends, CpuStopAsked, CpuSaved
      <4> QED
        BY <3>1, <4>1
    <3> QED
      BY <3>2, <3>3
  <2>2. \/ flag' = flag
        \/ flag' = Put(flag, {"shutdown_requested"}, TRUE)
        \/ flag' = Put(flag, {"reset_requested"}, TRUE)
        \/ flag' = Put(flag, {"suspend_requested"}, TRUE)
    BY <1>8 DEF SaveVm, Notify, GuestPowersOff, GuestResets, GuestSuspends, CpuStopAsked, CpuSaved
  <2>3. \A r \in RebootFlags : flag'[r] = flag[r]
    <3>1. CASE flag' = Put(flag, {"shutdown_requested"}, TRUE)
      BY <3>1, RequestKeepsReboot
    <3>2. CASE flag' = Put(flag, {"reset_requested"}, TRUE)
      BY <3>2, RequestKeepsReboot
    <3>3. CASE flag' = Put(flag, {"suspend_requested"}, TRUE)
      BY <3>3, RequestKeepsReboot
    <3> QED
      BY <2>2, <3>1, <3>2, <3>3
  <2> QED
    BY <2>1, <2>3, AgreeSame
<1>9. CASE \/ Poll \/ DispatchDone \/ SuspendStop \/ StageSkip \/ Paused \/ PausedSuspend
           \/ PausedReset \/ PausedStop \/ Stopped \/ Drain
  <2>1. UNCHANGED <<todo, mtodo>> /\ ~raced /\ flag' = flag
    BY <1>9
    DEF Poll, DispatchDone, SuspendStop, StageSkip, Paused, PausedSuspend,
        PausedReset, PausedStop, Stopped, Drain, storevars
  <2> QED
    BY <2>1, AgreeSame
<1>10. CASE MenuClose \/ GuestStartsIo \/ StragglerStops \/ Wakeup \/ MonitorShutoff \/ DiskDone
  <2>1. UNCHANGED <<todo, mtodo>> /\ ~raced /\ flag' = flag
    BY <1>10
    DEF MenuClose, GuestStartsIo, StragglerStops, Wakeup, MonitorShutoff, DiskDone, storevars
  <2> QED
    BY <2>1, AgreeSame
<1> QED
  BY <1>1, <1>2, <1>3, <1>4, <1>5, <1>6, <1>7, <1>8, <1>9, <1>10 DEF Main, Others

(* Every step preserves the inductive invariant. *)
LEMMA StepIInv == IInv /\ [Next]_vars => IInv'
<1> SUFFICES ASSUME IInv, [Next]_vars PROVE IInv'
  OBVIOUS
<1>1. CASE UNCHANGED vars
  BY <1>1 DEF vars, mainvars, storevars, guestvars, savevars, errorvars, IInv, TypeOK,
              StopInv, SaveInv, OffInv, AgreeInv, AbortOnlyStaleSuspend, Running, ResetOnItsWay
<1>2. CASE Main \/ Others
  <2>1. RestOK' /\ StoresOK'
    BY <1>2, MainType, OthersType, StoresStep
  <2>2. TypeOK'
    BY <2>1 DEF TypeOK, RestOK, BoolsOK, StoresOK, Writes
  <2>3. SaveInv'
    BY <1>2, ClosingKept DEF IInv, SaveInv
  <2> QED
    BY <1>2, <2>2, <2>3, StopStep, OffStep, AgreeStep DEF IInv
<1> QED
  BY <1>1, <1>2 DEF Next

(* The inductive invariant holds in every reachable state. *)
THEOREM Invariance == Spec => []IInv
BY InitIInv, StepIInv, PTL DEF Spec

(* Every variable keeps its type: the VM enters only the run states that   *)
(* this program asks for, and a command has at most five stores to make.   *)
THEOREM TypeCorrect == Spec => []TypeOK
<1>1. IInv => TypeOK
  BY DEF IInv
<1> QED
  BY <1>1, Invariance, PTL

(* No order of any number of shutdowns, reboots, resets, wakeups, disk     *)
(* errors and snapshots, on whatever thread, makes a runstate_set abort    *)
(* other than that of a suspend whose VM was stopped meanwhile.            *)
THEOREM OnlyStaleSuspendAborts == Spec => []AbortOnlyStaleSuspend
<1>1. IInv => AbortOnlyStaleSuspend
  BY DEF IInv
<1> QED
  BY <1>1, Invariance, PTL

(* Whatever commands were given, no_shutdown is set exactly while a reboot *)
(* is pending that vm_change_state will carry out, if no two threads used  *)
(* the flags at the same time.                                             *)
THEOREM RebootAgrees == Spec => []RebootFlagsAgree
<1>1. IInv => RebootFlagsAgree
  <2> SUFFICES ASSUME IInv, todo = <<>>, mtodo = <<>>, ~raced PROVE Agree(flag)
    BY DEF RebootFlagsAgree, Agree
  <2> QED
    BY AgreeIdle DEF IInv, AgreeInv
<1> QED
  BY <1>1, Invariance, PTL

(* A guest that vm_change_state has restarted is reset before the main     *)
(* loop polls again, unless a CPU has saved the VM.                        *)
THEOREM RestartIsReset == Spec => []RestartedGuestIsReset
<1>1. IInv => RestartedGuestIsReset
  BY DEF IInv, OffInv, ResetOnItsWay, RestartedGuestIsReset, Running
<1> QED
  BY <1>1, Invariance, PTL

(* A VM that the main loop stopped to save it never runs again. *)
THEOREM SavedIsFinal == Spec => SavedStateFinal
<1>1. IInv /\ [Next]_vars => [runstate = "save-vm" /\ closing # "cpu" => runstate' = "save-vm"]_vars
  <2> SUFFICES ASSUME IInv, Main \/ Others, runstate = "save-vm", closing # "cpu"
               PROVE  runstate' = "save-vm"
    BY DEF Next
  <2>1. CASE Others
    <3>1. ~CpuSaved
      BY DEF CpuSaved, IInv, SaveInv
    <3> QED
      BY <2>1, <3>1, OthersKeep DEF Wakeup
  <2>2. CASE Main
    <3>1. CASE PausedSuspend
      BY <3>1 DEF PausedSuspend, runstate_set, Transitions
    <3>2. CASE PausedReset
      BY <3>2 DEF PausedReset, runstate_needs_reset
    <3>3. CASE PausedStop
      BY <3>3 DEF PausedStop, At, IInv, StopInv, StopOps, Running
    <3>4. CASE Notify
      <4>1. target # "shutdown"
        BY <3>4 DEF Notify, At, IInv, StopInv
      <4> QED
        BY <3>4, <4>1 DEF Notify
    <3> QED
      BY <2>2, <3>1, <3>2, <3>3, <3>4
      DEF Main, Poll, SuspendVm, SuspendStop, SaveVm, DispatchDone, StageSkip, StageTake,
          Paused, Clear, Stopped, Drain
  <2> QED
    BY <2>1, <2>2
<1> QED
  BY <1>1, Invariance, PTL DEF Spec, SavedStateFinal
=============================================================================
