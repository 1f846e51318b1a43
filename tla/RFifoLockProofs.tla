-------------------------- MODULE RFifoLockProofs ---------------------------
(***************************************************************************)
(* Mutual exclusion and first come, first served for the ticket lock of    *)
(* RFifoLock, and that it implements FifoLock, for any finite set of       *)
(* threads and any counter width with more values than there are threads.  *)
(***************************************************************************)
EXTENDS RFifoLock, TLAPS, FiniteSetTheorems, SequenceTheorems

Outstanding == Cardinality(Active)

(* A thread inside the lock is the owner, its ticket is the head, and the  *)
(* lock's nesting count is its own.                                        *)
HolderInv ==
    /\ \A t \in Threads : held[t] > 0 =>
          /\ owner_thread = t
          /\ nesting = held[t]
          /\ ticket[t] = head
          /\ pc[t] = "client"
    /\ nesting > 0 => owner_thread \in Threads /\ held[owner_thread] = nesting

(* The outstanding tickets are exactly the ones from head up to tail. *)
TicketInv ==
    /\ tail = IF head + Outstanding >= Modulus THEN head + Outstanding - Modulus
                                               ELSE head + Outstanding
    /\ \A t \in Active : Ahead(ticket[t]) < Outstanding
    /\ \A t, u \in Active : ticket[t] = ticket[u] => t = u
    /\ \A i \in 0 .. Outstanding - 1 : \E t \in Active : Ahead(ticket[t]) = i

IInv == TypeOK /\ HolderInv /\ TicketInv

-----------------------------------------------------------------------------
(* There are fewer outstanding tickets than values of the counter. *)
LEMMA OutstandingBound ==
    Outstanding \in Nat /\ Outstanding < Modulus /\ IsFiniteSet(Active)
<1>1. Active \subseteq Threads
  BY DEF Active
<1>2. IsFiniteSet(Active) /\ Cardinality(Active) <= Cardinality(Threads)
  BY <1>1, ThreadsFinite, FS_Subset
<1>3. Cardinality(Active) \in Nat /\ Cardinality(Threads) \in Nat
  BY <1>2, ThreadsFinite, FS_CardinalityType
<1> QED
  BY <1>2, <1>3, TicketsSuffice DEF Outstanding

(* The same in the next state. *)
LEMMA OutstandingBoundNext ==
    Outstanding' \in Nat /\ Outstanding' < Modulus /\ IsFiniteSet(Active')
<1>1. Active' \subseteq Threads
  BY DEF Active
<1>2. IsFiniteSet(Active') /\ Cardinality(Active') <= Cardinality(Threads)
  BY <1>1, ThreadsFinite, FS_Subset
<1>3. Cardinality(Active') \in Nat /\ Cardinality(Threads) \in Nat
  BY <1>2, ThreadsFinite, FS_CardinalityType
<1> QED
  BY <1>2, <1>3, TicketsSuffice DEF Outstanding

(* Initially nobody has a ticket. *)
LEMMA InitIInv == Init => IInv
<1> SUFFICES ASSUME Init PROVE IInv
  OBVIOUS
<1>1. TypeOK
  BY TicketsSuffice, NestingNat, OutstandingBound DEF Init, TypeOK, Tickets
<1>2. HolderInv
  BY DEF Init, HolderInv
<1>3. Active = {}
  BY DEF Init, Active
<1>4. Outstanding = 0
  BY <1>3, FS_EmptySet DEF Outstanding
<1>5. TicketInv
  BY <1>3, <1>4, TicketsSuffice, OutstandingBound DEF Init, TicketInv
<1> QED
  BY <1>1, <1>2, <1>5 DEF IInv

(* Calls that neither take nor give back a ticket leave the tickets alone. *)
LEMMA SameTickets ==
    ASSUME TicketInv, Active' = Active, UNCHANGED <<head, tail, ticket>>
    PROVE  TicketInv'
BY DEF TicketInv, Outstanding, Ahead

(* A recursive call: the caller is the holder already. *)
LEMMA NestedStep ==
    ASSUME IInv, NEW t \in Threads, LockNested(t)
    PROVE  IInv'
<1> USE DEF IInv
<1>1. held[t] = nesting /\ held[t] > 0 /\ owner_thread = t
  BY DEF LockNested, IsNested, HolderInv
<1>2. TypeOK'
  BY NestingNat DEF LockNested, TakeLock, TypeOK
<1>3. HolderInv'
  BY <1>1 DEF LockNested, TakeLock, HolderInv, TypeOK
<1>4. Active' = Active
  BY <1>1 DEF LockNested, TakeLock, Active, TypeOK
<1>5. TicketInv'
  BY <1>4, SameTickets DEF LockNested
<1> QED
  BY <1>2, <1>3, <1>5

(* A sleeper whose turn has come: nobody else can hold the lock, because   *)
(* a holder's ticket is the head too.                                      *)
LEMMA WakeStep ==
    ASSUME IInv, NEW t \in Threads, WakeAndTake(t)
    PROVE  IInv'
<1> USE DEF IInv
<1>1. t \in Active /\ ticket[t] = head /\ held[t] = 0
  BY DEF WakeAndTake, IsMyTurn, Active, HolderInv, TypeOK
<1>2. \A u \in Threads : held[u] = 0
  BY <1>1 DEF HolderInv, TicketInv, Active, TypeOK
<1>3. nesting = 0
  BY <1>2 DEF HolderInv, TypeOK
<1>4. TypeOK'
  BY <1>1, NestingNat DEF WakeAndTake, TakeLock, TypeOK
<1>5. HolderInv'
  BY <1>1, <1>2, <1>3 DEF WakeAndTake, TakeLock, HolderInv, TypeOK
<1>6. Active' = Active
  BY <1>1, <1>2 DEF WakeAndTake, TakeLock, Active, TypeOK
<1>7. TicketInv'
  BY <1>6, SameTickets DEF WakeAndTake
<1> QED
  BY <1>4, <1>5, <1>7

(* A thread without the lock takes the ticket at the tail. *)
LEMMA OutermostStep ==
    ASSUME IInv, NEW t \in Threads, LockOutermost(t)
    PROVE  IInv'
<1> USE DEF IInv
<1>1. held[t] = 0 /\ t \notin Active /\ pc[t] = "client"
  BY DEF LockOutermost, IsNested, HolderInv, TypeOK, Active
<1>2. TypeOK'
  BY <1>1, NestingNat, TicketsSuffice DEF LockOutermost, TakeLock, TypeOK, Tickets, Inc
<1>3. Active' = Active \cup {t}
  BY <1>1 DEF LockOutermost, TakeLock, Active, TypeOK
<1>4. Outstanding' = Outstanding + 1
  BY <1>1, <1>3, OutstandingBound, FS_AddElement DEF Outstanding
<1>5. Outstanding \in Nat /\ Outstanding + 1 < Modulus
  BY <1>4, OutstandingBound, OutstandingBoundNext
<1>6. head' = head /\ ticket' = [ticket EXCEPT ![t] = tail] /\ tail' = Inc(tail)
  BY DEF LockOutermost
<1>7. Ahead(tail) = Outstanding /\ (tail = head <=> Outstanding = 0)
  BY <1>5, TicketsSuffice DEF TypeOK, Tickets, TicketInv, Ahead
<1>8. TicketInv'
  <2>1. tail' = IF head + (Outstanding + 1) >= Modulus
                THEN head + (Outstanding + 1) - Modulus
                ELSE head + (Outstanding + 1)
    BY <1>5, <1>6, TicketsSuffice DEF TypeOK, Tickets, TicketInv, Inc
  <2>2. \A u \in Active : ticket'[u] = ticket[u]
    BY <1>1, <1>6 DEF TypeOK, Active
  <2>3. ticket'[t] = tail
    BY <1>6 DEF TypeOK
  <2>4. \A u \in Active' : Ahead(ticket'[u]) < Outstanding + 1
    BY <1>3, <1>5, <1>7, <2>2, <2>3, TicketsSuffice
    DEF TicketInv, Ahead, TypeOK, Tickets, Active
  <2>5. \A u, v \in Active' : ticket'[u] = ticket'[v] => u = v
    <3>1. \A u \in Active : ticket[u] # tail
      BY <1>5, <1>7 DEF TicketInv
    <3> QED
      BY <1>3, <2>2, <2>3, <3>1 DEF TicketInv
  <2>6. \A i \in 0 .. Outstanding : \E u \in Active' : Ahead(ticket'[u]) = i
    <3> SUFFICES ASSUME NEW i \in 0 .. Outstanding
                 PROVE  \E u \in Active' : Ahead(ticket'[u]) = i
      OBVIOUS
    <3>1. CASE i = Outstanding
      BY <3>1, <1>3, <1>7, <2>3
    <3>2. CASE i # Outstanding
      <4>1. i \in 0 .. Outstanding - 1
        BY <3>2, <1>5
      <4>2. PICK u \in Active : Ahead(ticket[u]) = i
        BY <4>1 DEF TicketInv
      <4> QED
        BY <4>2, <1>3, <2>2
    <3> QED
      BY <3>1, <3>2
  <2> QED
    BY <1>4, <1>5, <1>6, <2>1, <2>4, <2>5, <2>6 DEF TicketInv, Ahead
<1>9. HolderInv'
  <2>1. CASE tail = head
    <3>1. \A u \in Threads : held[u] = 0
      <4>1. Active = {}
        BY <2>1, <1>7, OutstandingBound, FS_EmptySet DEF Outstanding
      <4> QED
        BY <4>1 DEF Active, TypeOK
    <3>2. nesting = 0
      BY <3>1 DEF HolderInv, TypeOK
    <3> QED
      BY <1>1, <2>1, <3>1, <3>2 DEF LockOutermost, TakeLock, HolderInv, TypeOK
  <2>2. CASE tail # head
    BY <1>1, <2>2 DEF LockOutermost, HolderInv, TypeOK
  <2> QED
    BY <2>1, <2>2
<1> QED
  BY <1>2, <1>8, <1>9

(* An unlock: the outermost one gives the ticket at the head back. *)
LEMMA UnlockStep ==
    ASSUME IInv, NEW t \in Threads, Unlock(t)
    PROVE  IInv'
<1> USE DEF IInv
<1>1. held[t] = nesting /\ nesting > 0 /\ ticket[t] = head /\ t \in Active
  BY DEF Unlock, HolderInv, TypeOK, Active
<1>2. TypeOK'
  BY <1>1, NestingNat, TicketsSuffice DEF Unlock, TypeOK, Tickets, Inc
<1>3. \A u \in Threads : held[u] > 0 => u = t
  BY <1>1 DEF HolderInv
<1>4. HolderInv'
  BY <1>1, <1>3 DEF Unlock, HolderInv, TypeOK
<1>5. CASE nesting > 1
  <2>1. Active' = Active
    BY <1>1, <1>5 DEF Unlock, Active, TypeOK
  <2>2. TicketInv'
    BY <2>1, <1>5, SameTickets DEF Unlock
  <2> QED
    BY <1>2, <1>4, <2>2
<1>6. CASE nesting = 1
  <2>1. Active' = Active \ {t}
    BY <1>1, <1>6 DEF Unlock, Active, TypeOK, HolderInv
  <2>2. Outstanding' = Outstanding - 1 /\ Outstanding \in Nat /\ Outstanding > 0
    BY <1>1, <2>1, OutstandingBound, FS_RemoveElement, FS_EmptySet DEF Outstanding
  <2>3. head' = Inc(head) /\ tail' = tail /\ ticket' = ticket
    BY <1>6 DEF Unlock
  <2>4. \A u \in Active' : ticket[u] # head /\ ticket[u] \in Tickets
    BY <1>1, <2>1 DEF TicketInv, Active, TypeOK
  <2>5. ASSUME NEW n \in Tickets, n # head
        PROVE  Ahead(n)' = Ahead(n) - 1
    BY <2>3, <2>5, TicketsSuffice DEF Ahead, Inc, Tickets, TypeOK
  <2>6. TicketInv'
    <3>1. tail' = IF head' + (Outstanding - 1) >= Modulus
                  THEN head' + (Outstanding - 1) - Modulus
                  ELSE head' + (Outstanding - 1)
      BY <2>2, <2>3, OutstandingBound, TicketsSuffice
      DEF TypeOK, Tickets, TicketInv, Inc
    <3>2. \A u \in Active' : Ahead(ticket[u])' = Ahead(ticket[u]) - 1
      BY <2>4, <2>5, <2>3 DEF Ahead
    <3>3. \A u \in Active' : Ahead(ticket[u])' < Outstanding - 1
      BY <2>1, <2>2, <2>4, <3>2, TicketsSuffice DEF TicketInv, Ahead, Tickets, TypeOK
    <3>4. \A i \in 0 .. (Outstanding - 1) - 1 :
              \E u \in Active' : Ahead(ticket[u])' = i
      <4> SUFFICES ASSUME NEW i \in 0 .. (Outstanding - 1) - 1
                   PROVE  \E u \in Active' : Ahead(ticket[u])' = i
        OBVIOUS
      <4>1. PICK u \in Active : Ahead(ticket[u]) = i + 1
        BY <2>2 DEF TicketInv
      <4>2. u # t
        BY <1>1, <4>1 DEF Ahead, TypeOK, Tickets
      <4>3. u \in Active'
        BY <4>2, <2>1
      <4> QED
        BY <4>1, <4>3, <3>2
    <3> QED
      BY <2>1, <2>2, <2>3, <3>1, <3>3, <3>4 DEF TicketInv, Ahead
  <2> QED
    BY <1>2, <1>4, <2>6
<1> QED
  BY <1>1, <1>5, <1>6 DEF TypeOK

(* Every step of the lock preserves the inductive invariant. *)
LEMMA StepIInv == IInv /\ [Next]_vars => IInv'
<1> SUFFICES ASSUME IInv, [Next]_vars PROVE IInv'
  OBVIOUS
<1>1. CASE UNCHANGED vars
  <2>1. Active' = Active
    BY <1>1 DEF vars, Active
  <2>2. TicketInv'
    BY <1>1, <2>1, SameTickets DEF vars, IInv
  <2> QED
    BY <1>1, <2>2 DEF vars, IInv, TypeOK, HolderInv
<1>2. ASSUME NEW t \in Threads, Lock(t) \/ Unlock(t) PROVE IInv'
  BY <1>2, NestedStep, OutermostStep, WakeStep, UnlockStep DEF Lock
<1> QED
  BY <1>1, <1>2 DEF Next

(* The inductive invariant holds in every reachable state. *)
THEOREM Invariance == Spec => []IInv
BY InitIInv, StepIInv, PTL DEF Spec

(* Every variable keeps its type; in particular the ticket counters stay   *)
(* within the width of an unsigned int when they wrap.                     *)
THEOREM TypeCorrect == Spec => []TypeOK
<1>1. IInv => TypeOK
  BY DEF IInv
<1> QED
  BY <1>1, Invariance, PTL

(* rfifolock_lock returns to one thread at a time, and the assertions of   *)
(* rfifolock_unlock hold.                                                  *)
THEOREM LockExcludes == Spec => []MutualExclusion
<1>1. IInv => MutualExclusion
  BY DEF IInv, HolderInv, MutualExclusion, TypeOK
<1> QED
  BY <1>1, Invariance, PTL

(* Outstanding tickets differ and the head ticket has an owner, across any *)
(* number of wraps of the counters.                                        *)
THEOREM TicketsStayDistinct == Spec => []TicketsDistinct
<1>1. IInv => TicketsDistinct
  <2> SUFFICES ASSUME IInv PROVE TicketsDistinct
    OBVIOUS
  <2>1. ASSUME Active # {} PROVE \E t \in Active : ticket[t] = head
    <3>1. Outstanding # 0
      BY <2>1, OutstandingBound, FS_EmptySet DEF Outstanding
    <3>2. 0 \in 0 .. Outstanding - 1
      BY <3>1, OutstandingBound
    <3>3. PICK t \in Active : Ahead(ticket[t]) = 0
      BY <3>2 DEF IInv, TicketInv
    <3>4. ticket[t] \in Tickets /\ head \in Tickets
      BY DEF IInv, TypeOK, Active
    <3>5. ticket[t] = head
      BY <3>3, <3>4, TicketsSuffice DEF Ahead, Tickets
    <3> QED
      BY <3>5
  <2> QED
    BY <2>1 DEF IInv, TicketInv, TicketsDistinct
<1> QED
  BY <1>1, Invariance, PTL

(* A step that hands the lock over hands it to the earliest caller. *)
LEMMA HandOver ==
    ASSUME IInv, [Next]_vars,
           NEW t \in Threads, held[t] = 0, held'[t] = 1,
           NEW u \in Threads \ {t}, pc[u] = "waiting"
    PROVE  Ahead(ticket'[t]) < Ahead(ticket[u])
<1> USE DEF IInv
<1>1. u \in Active
  BY DEF Active
<1>2. PICK v \in Threads : Lock(v) \/ Unlock(v)
  BY DEF Next, vars
<1>3. v = t /\ (LockOutermost(t) \/ WakeAndTake(t))
  BY <1>2 DEF Lock, LockNested, LockOutermost, WakeAndTake, Unlock, TakeLock,
              IsNested, HolderInv, TypeOK
<1>4. CASE LockOutermost(t)
  <2>1. tail = head
    BY <1>4 DEF LockOutermost
  <2>2. Outstanding = 0
    BY <2>1, OutstandingBound, TicketsSuffice DEF TicketInv, TypeOK, Tickets
  <2> QED
    BY <1>1, <2>2, OutstandingBound, FS_EmptySet DEF Outstanding
<1>5. CASE WakeAndTake(t)
  <2>1. ticket'[t] = head /\ ticket[t] = head /\ t \in Active
    BY <1>5 DEF WakeAndTake, IsMyTurn, Active
  <2>2. ticket[u] # head /\ ticket[u] \in Tickets
    BY <1>1, <2>1 DEF TicketInv, TypeOK
  <2> QED
    BY <2>1, <2>2, TicketsSuffice DEF Ahead, Tickets, TypeOK
<1> QED
  BY <1>3, <1>4, <1>5

(* First come, first served, for every number of threads. *)
THEOREM LockIsFifo == Spec => FirstComeFirstServed
<1>1. IInv /\ [Next]_vars =>
        [\A t \in Threads : held[t] = 0 /\ held'[t] = 1 =>
           \A u \in Threads \ {t} :
               pc[u] = "waiting" => Ahead(ticket'[t]) < Ahead(ticket[u])]_vars
  BY HandOver
<1> QED
  BY <1>1, Invariance, PTL DEF Spec, FirstComeFirstServed

-----------------------------------------------------------------------------
(* The ticket lock implements the abstract queue lock: every step of       *)
(* RFifoLock is a step of FifoLock, or leaves its state alone, under the   *)
(* refinement mapping that lists the threads by the distance of their      *)
(* tickets from the head.                                                  *)

(* What the proof uses of the mapped queue: it lists threads with a        *)
(* ticket, as many as there are, each at its ticket's place.               *)
QueueShape ==
    /\ TicketQueue \in [1 .. Outstanding -> Active]
    /\ \A i \in 1 .. Outstanding : Ahead(ticket[TicketQueue[i]]) = i - 1

(* A function on 1 .. n is a sequence of length n. *)
LEMMA FunctionIsSeq ==
    ASSUME NEW S, NEW n \in Nat, NEW q \in [1 .. n -> S]
    PROVE  q \in Seq(S) /\ Len(q) = n
OBVIOUS

(* The mapped queue has that shape: no place is empty. *)
LEMMA QueueShapeInv == IInv => QueueShape
<1> SUFFICES ASSUME IInv PROVE QueueShape
  OBVIOUS
<1>1. ASSUME NEW i \in 1 .. Outstanding
      PROVE  LET c == CHOOSE t \in Active : Ahead(ticket[t]) = i - 1
             IN  c \in Active /\ Ahead(ticket[c]) = i - 1
  BY OutstandingBound DEF IInv, TicketInv
<1> QED
  BY <1>1 DEF QueueShape, TicketQueue, Outstanding

(* The same in the next state. *)
LEMMA QueueShapeNext == IInv' => QueueShape'
BY QueueShapeInv, PTL

(* Tickets that are equally far from the head are equal. *)
LEMMA AheadInjective ==
    ASSUME head \in Tickets, NEW m \in Tickets, NEW n \in Tickets, Ahead(m) = Ahead(n)
    PROVE  m = n
BY TicketsSuffice DEF Ahead, Tickets

(* Every thread is at the place of its ticket. *)
AtItsPlace ==
    \A t \in Active :
        /\ Ahead(ticket[t]) + 1 \in 1 .. Outstanding
        /\ TicketQueue[Ahead(ticket[t]) + 1] = t

(* The mapping puts every thread there: tickets are distinct. *)
LEMMA PlaceOf == IInv => AtItsPlace
<1> SUFFICES ASSUME IInv, NEW t \in Active
             PROVE  /\ Ahead(ticket[t]) + 1 \in 1 .. Outstanding
                    /\ TicketQueue[Ahead(ticket[t]) + 1] = t
  BY DEF AtItsPlace
<1>1. ticket \in [Threads -> Tickets] /\ head \in Tickets /\ t \in Threads
  BY DEF IInv, TypeOK, Active
<1>2. Ahead(ticket[t]) \in 0 .. Outstanding - 1
  BY <1>1, OutstandingBound, TicketsSuffice DEF IInv, TicketInv, Ahead, Tickets
<1>3. Ahead(ticket[t]) + 1 \in 1 .. Outstanding
  BY <1>2, OutstandingBound
<1> DEFINE u == TicketQueue[Ahead(ticket[t]) + 1]
<1>4. u \in Active /\ Ahead(ticket[u]) = Ahead(ticket[t])
  BY <1>2, <1>3, QueueShapeInv DEF QueueShape
<1>5. ticket[u] = ticket[t]
  BY <1>1, <1>4, AheadInjective DEF Active
<1> QED
  BY <1>3, <1>4, <1>5 DEF IInv, TicketInv

(* The same in the next state. *)
LEMMA PlaceOfNext == IInv' => AtItsPlace'
BY PlaceOf, PTL

(* Initially the queue is empty. *)
LEMMA InitRefines == Init => Promise!Init
<1> SUFFICES ASSUME Init PROVE Promise!Init
  OBVIOUS
<1>1. Active = {}
  BY DEF Init, Active
<1>2. Outstanding = 0
  BY <1>1, FS_EmptySet DEF Outstanding
<1>3. TicketQueue = <<>>
  BY <1>2 DEF TicketQueue, Outstanding
<1> QED
  BY <1>3 DEF Init, Promise!Init

(* A call that keeps the tickets keeps the queue. *)
LEMMA SameQueue ==
    ASSUME Active' = Active, UNCHANGED <<head, ticket>>
    PROVE  TicketQueue' = TicketQueue
BY DEF TicketQueue, Ahead

(* A recursive call nests. *)
LEMMA NestedRefines ==
    ASSUME IInv, NEW t \in Threads, LockNested(t)
    PROVE  Promise!Nest(t)
<1>1. held[t] > 0 /\ held[t] \in 0 .. MaxNesting
  BY DEF LockNested, IsNested, IInv, HolderInv, TypeOK
<1>2. Active' = Active
  BY <1>1 DEF LockNested, TakeLock, Active, IInv, TypeOK
<1>3. TicketQueue' = TicketQueue
  BY <1>2, SameQueue DEF LockNested
<1> QED
  BY <1>1, <1>3, NestingNat DEF LockNested, TakeLock, Promise!Nest

(* A sleeper whose ticket is the head is at the front of the queue. *)
LEMMA WakeRefines ==
    ASSUME IInv, NEW t \in Threads, WakeAndTake(t)
    PROVE  Promise!Grant(t)
<1>1. t \in Active /\ held[t] = 0 /\ Ahead(ticket[t]) = 0
  BY TicketsSuffice
  DEF WakeAndTake, IsMyTurn, Active, IInv, HolderInv, TypeOK, Ahead, Tickets
<1>2. TicketQueue[0 + 1] = t /\ 0 + 1 \in 1 .. Outstanding
  BY <1>1, PlaceOf DEF AtItsPlace
<1>3. TicketQueue \in Seq(Active) /\ Len(TicketQueue) = Outstanding
  BY QueueShapeInv, OutstandingBound, FunctionIsSeq DEF QueueShape
<1>4. TicketQueue # <<>> /\ Head(TicketQueue) = t
  BY <1>2, <1>3
<1>5. Active' = Active
  BY <1>1 DEF WakeAndTake, TakeLock, Active, IInv, TypeOK
<1>6. TicketQueue' = TicketQueue
  BY <1>5, SameQueue DEF WakeAndTake
<1>7. held' = [held EXCEPT ![t] = 1]
  BY <1>1 DEF WakeAndTake, TakeLock, IInv, TypeOK
<1> QED
  BY <1>1, <1>4, <1>6, <1>7 DEF Promise!Grant

(* A ticket taken at the tail is a place at the end of the queue; the      *)
(* lock is received at once exactly when the queue is empty.               *)
LEMMA OutermostRefines ==
    ASSUME IInv, NEW t \in Threads, LockOutermost(t)
    PROVE  Promise!Request(t) \/ Promise!RequestAndGrant(t)
<1>1. IInv'
  BY OutermostStep
<1>2. held[t] = 0 /\ t \notin Active /\ pc[t] = "client"
  BY DEF LockOutermost, IsNested, IInv, HolderInv, TypeOK, Active
<1>3. Active' = Active \cup {t}
  BY <1>2 DEF LockOutermost, TakeLock, Active, IInv, TypeOK
<1>4. Outstanding' = Outstanding + 1 /\ Outstanding \in Nat
  BY <1>2, <1>3, OutstandingBound, FS_AddElement DEF Outstanding
<1>5. head' = head /\ ticket' = [ticket EXCEPT ![t] = tail]
  BY DEF LockOutermost
<1>6. Ahead(tail) = Outstanding /\ (tail = head <=> Outstanding = 0)
  BY OutstandingBound, TicketsSuffice DEF IInv, TypeOK, Tickets, TicketInv, Ahead
<1>7. TicketQueue' \in [1 .. Outstanding + 1 -> Active \cup {t}]
  BY <1>1, <1>3, <1>4, QueueShapeNext DEF QueueShape
<1>8. TicketQueue \in [1 .. Outstanding -> Active]
  BY QueueShapeInv DEF QueueShape
<1>9. TicketQueue'[Outstanding + 1] = t
  <2>1. t \in Active' /\ ticket'[t] = tail
    BY <1>3, <1>5 DEF IInv, TypeOK
  <2>2. (Ahead(ticket[t]))' = Outstanding
    BY <1>5, <1>6, <2>1 DEF Ahead
  <2> QED
    BY <1>1, <2>1, <2>2, PlaceOfNext DEF AtItsPlace
<1>10. \A i \in 1 .. Outstanding : TicketQueue'[i] = TicketQueue[i]
  <2> SUFFICES ASSUME NEW i \in 1 .. Outstanding
               PROVE  TicketQueue'[i] = TicketQueue[i]
    OBVIOUS
  <2>1. PICK u \in Active : u = TicketQueue[i] /\ Ahead(ticket[u]) = i - 1
    BY QueueShapeInv DEF QueueShape
  <2>2. u \in Active' /\ ticket'[u] = ticket[u]
    BY <1>2, <1>3, <1>5 DEF IInv, TypeOK, Active
  <2>3. Ahead(ticket[u])' = i - 1
    BY <1>5, <2>1, <2>2 DEF Ahead
  <2>4. TicketQueue'[(i - 1) + 1] = u
    BY <1>1, <2>2, <2>3, PlaceOfNext DEF AtItsPlace
  <2> QED
    BY <2>1, <2>4
<1>11. TicketQueue \in Seq(Threads) /\ Len(TicketQueue) = Outstanding
  BY <1>4, <1>8, FunctionIsSeq DEF Active
<1>12. TicketQueue' \in Seq(Threads) /\ Len(TicketQueue') = Outstanding + 1
  BY <1>4, <1>7, FunctionIsSeq DEF Active
<1>13. TicketQueue' = Append(TicketQueue, t)
  BY <1>4, <1>9, <1>10, <1>11, <1>12, SeqEqual, AppendProperties
<1>14. CASE tail # head
  <2>1. ~Promise!InQueue(t)
    BY <1>2, <1>8, <1>11 DEF Promise!InQueue
  <2>2. UNCHANGED held
    BY <1>14 DEF LockOutermost
  <2> QED
    BY <1>13, <2>1, <2>2 DEF Promise!Request
<1>15. CASE tail = head
  <2>1. TicketQueue = <<>>
    BY <1>6, <1>11, <1>15
  <2>2. TicketQueue' = <<t>>
    BY <1>13, <2>1
  <2>3. held' = [held EXCEPT ![t] = 1]
    BY <1>2, <1>15 DEF LockOutermost, TakeLock, IInv, TypeOK
  <2> QED
    BY <2>1, <2>2, <2>3 DEF Promise!RequestAndGrant
<1> QED
  BY <1>14, <1>15

(* The outermost unlock removes the thread at the front of the queue. *)
LEMMA UnlockRefines ==
    ASSUME IInv, NEW t \in Threads, Unlock(t)
    PROVE  Promise!Release(t)
<1>1. IInv'
  BY UnlockStep
<1>2. held[t] = nesting /\ nesting > 0 /\ ticket[t] = head /\ t \in Active
  BY DEF Unlock, IInv, HolderInv, TypeOK, Active
<1>3. CASE nesting # 1
  <2>1. Active' = Active
    BY <1>2, <1>3 DEF Unlock, Active, IInv, TypeOK
  <2>2. TicketQueue' = TicketQueue
    BY <1>3, <2>1, SameQueue DEF Unlock
  <2> QED
    BY <1>2, <1>3, <2>2 DEF Unlock, Promise!Release
<1>4. CASE nesting = 1
  <2>1. Active' = Active \ {t}
    BY <1>2, <1>4 DEF Unlock, Active, IInv, TypeOK, HolderInv
  <2>2. Outstanding' = Outstanding - 1 /\ Outstanding \in Nat /\ Outstanding > 0
    BY <1>2, <2>1, OutstandingBound, FS_RemoveElement, FS_EmptySet DEF Outstanding
  <2>3. head' = Inc(head) /\ ticket' = ticket
    BY <1>4 DEF Unlock
  <2>4. TicketQueue \in [1 .. Outstanding -> Active]
    BY QueueShapeInv DEF QueueShape
  <2>5. TicketQueue' \in [1 .. Outstanding - 1 -> Active \ {t}]
    BY <1>1, <2>1, <2>2, QueueShapeNext DEF QueueShape
  <2>6. TicketQueue \in Seq(Threads) /\ Len(TicketQueue) = Outstanding
    BY <2>2, <2>4, FunctionIsSeq DEF Active
  <2>7. TicketQueue' \in Seq(Threads) /\ Len(TicketQueue') = Outstanding - 1
    BY <2>2, <2>5, FunctionIsSeq DEF Active
  <2>8. \A i \in 1 .. Outstanding - 1 : TicketQueue'[i] = TicketQueue[i + 1]
    <3> SUFFICES ASSUME NEW i \in 1 .. Outstanding - 1
                 PROVE  TicketQueue'[i] = TicketQueue[i + 1]
      OBVIOUS
    <3>1. i + 1 \in 1 .. Outstanding
      BY <2>2
    <3>2. PICK u \in Active : u = TicketQueue[i + 1] /\ Ahead(ticket[u]) = (i + 1) - 1
      BY <3>1, QueueShapeInv DEF QueueShape
    <3>3. u # t
      BY <1>2, <3>2 DEF Ahead, IInv, TypeOK, Tickets
    <3>4. ticket[u] \in Tickets /\ ticket[u] # head
      BY <1>2, <3>2, <3>3 DEF IInv, TicketInv, TypeOK, Active
    <3>5. Ahead(ticket[u])' = i - 1
      BY <2>3, <3>2, <3>4, TicketsSuffice DEF Ahead, Inc, Tickets, IInv, TypeOK
    <3>6. u \in Active'
      BY <2>1, <3>3
    <3>7. TicketQueue'[(i - 1) + 1] = u
      BY <1>1, <3>5, <3>6, PlaceOfNext DEF AtItsPlace
    <3> QED
      BY <3>2, <3>7
  <2>9. TicketQueue' = Tail(TicketQueue)
    BY <2>2, <2>6, <2>7, <2>8, SeqEqual, HeadTailProperties
  <2> QED
    BY <1>2, <1>4, <2>9 DEF Unlock, Promise!Release
<1> QED
  BY <1>3, <1>4

(* The ticket lock is a recursive FIFO lock: every step is one of the      *)
(* abstract lock's or leaves its queue and its depths alone.               *)
THEOREM ImplementsPromise == Spec => ImplementsFifoLock
<1>1. IInv /\ [Next]_vars => [Promise!Next]_(Promise!vars)
  <2> SUFFICES ASSUME IInv, [Next]_vars
               PROVE  [Promise!Next]_(Promise!vars)
    OBVIOUS
  <2>1. CASE UNCHANGED vars
    <3>1. Active' = Active /\ UNCHANGED <<head, ticket>> /\ held' = held
      BY <2>1 DEF vars, Active
    <3> QED
      BY <3>1, SameQueue DEF Promise!vars
  <2>2. ASSUME NEW t \in Threads, Lock(t) \/ Unlock(t)
        PROVE  Promise!Next
    BY <2>2, NestedRefines, OutermostRefines, WakeRefines, UnlockRefines
    DEF Lock, Promise!Next
  <2> QED
    BY <2>1, <2>2 DEF Next
<1> QED
  BY <1>1, InitRefines, Invariance, PTL DEF Spec, ImplementsFifoLock, Promise!Spec
=============================================================================
