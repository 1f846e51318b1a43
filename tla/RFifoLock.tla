------------------------------ MODULE RFifoLock -----------------------------
(***************************************************************************)
(* The recursive FIFO lock of util/rfifolock.c, which guards an AioContext *)
(* (aio_context_acquire, aio_context_release in block/async.c).            *)
(*                                                                         *)
(* Every function body runs under the mutex r->lock, and a cond_wait       *)
(* gives the mutex up: an action is therefore one stretch of code between  *)
(* taking r->lock and giving it up.  Tickets are unsigned ints: they wrap  *)
(* at Modulus (2^32 in the code).                                          *)
(***************************************************************************)
EXTENDS Naturals, FiniteSets

CONSTANTS Threads,     \* the threads that use the lock
          Modulus,     \* the number of values of an unsigned int
          MaxNesting,  \* how deeply a client nests its calls
          NoThread     \* owner_thread before anyone has locked

ASSUME ThreadsFinite == IsFiniteSet(Threads) /\ NoThread \notin Threads

(* At most one ticket per thread is outstanding: this many must differ. *)
ASSUME TicketsSuffice == Modulus \in Nat /\ Cardinality(Threads) < Modulus

ASSUME NestingNat == MaxNesting \in Nat \ {0}

VARIABLES
    head, tail,    \* r->head, r->tail
    nesting,       \* r->nesting
    owner_thread,  \* r->owner_thread, never cleared by an unlock
    pc,            \* where each client thread is
    ticket,        \* rfifolock_lock's local variable
    held           \* held[t]: the locks that t has taken and not undone

vars == <<head, tail, nesting, owner_thread, pc, ticket, held>>

Tickets == 0 .. Modulus - 1

(* Mutant: the counter does not wrap. *)
IncNoWrap(n) == n + 1

Inc(n) == IF n = Modulus - 1 THEN 0 ELSE n + 1

Init ==
    /\ head = 0 /\ tail = 0
    /\ nesting = 0
    /\ owner_thread = NoThread
    /\ pc = [t \in Threads |-> "client"]
    /\ ticket = [t \in Threads |-> 0]
    /\ held = [t \in Threads |-> 0]

(* The end of rfifolock_lock: the caller becomes the owner. *)
TakeLock(t) ==
    /\ owner_thread' = t
    /\ nesting' = nesting + 1
    /\ held' = [held EXCEPT ![t] = @ + 1]
    /\ pc' = [pc EXCEPT ![t] = "client"]

(* Mutant: the test without nesting > 0 believes the stale owner_thread. *)
IsNestedStaleOwner(t) == owner_thread = t

(* rfifolock_lock's test for a recursive call. *)
IsNested(t) == nesting > 0 /\ owner_thread = t

(* A recursive call puts its ticket back. *)
LockNested(t) ==
    /\ pc[t] = "client"
    /\ IsNested(t)
    /\ held[t] < MaxNesting
    /\ TakeLock(t)
    /\ UNCHANGED <<head, tail, ticket>>

(* Any other call keeps its ticket and goes on at once when its turn has   *)
(* come already; otherwise it calls the contention callback and sleeps.    *)
LockOutermost(t) ==
    /\ pc[t] = "client"
    /\ ~IsNested(t)
    /\ ticket' = [ticket EXCEPT ![t] = tail]
    /\ tail' = Inc(tail)
    /\ UNCHANGED head
    /\ \/ /\ tail = head
          /\ TakeLock(t)
       \/ /\ tail # head
          /\ pc' = [pc EXCEPT ![t] = "waiting"]
          /\ UNCHANGED <<nesting, owner_thread, held>>

(* Mutant: a sleeper takes any wakeup with the lock free for its turn. *)
IsMyTurnOnAnyWakeup(t) == nesting = 0

(* The loop's test after the cond_wait returned. *)
IsMyTurn(t) == ticket[t] = head

(* A sleeper whose turn has come leaves the loop.  A sleeper that finds    *)
(* another ticket at the head (the broadcast wakes everyone, and POSIX     *)
(* allows spurious wakeups) only sleeps again: a stuttering step.          *)
WakeAndTake(t) ==
    /\ pc[t] = "waiting"
    /\ IsMyTurn(t)
    /\ TakeLock(t)
    /\ UNCHANGED <<head, tail, ticket>>

(* Mutants: the head moves on never, or at every level of nesting. *)
UnlockKeepsHead(t) ==
    /\ pc[t] = "client"
    /\ held[t] > 0
    /\ nesting' = nesting - 1
    /\ held' = [held EXCEPT ![t] = @ - 1]
    /\ UNCHANGED <<head, tail, owner_thread, pc, ticket>>

UnlockMovesHead(t) ==
    /\ pc[t] = "client"
    /\ held[t] > 0
    /\ nesting' = nesting - 1
    /\ held' = [held EXCEPT ![t] = @ - 1]
    /\ head' = Inc(head)
    /\ UNCHANGED <<tail, owner_thread, pc, ticket>>

(* rfifolock_unlock; only a thread that holds the lock calls it. *)
Unlock(t) ==
    /\ pc[t] = "client"
    /\ held[t] > 0
    /\ nesting' = nesting - 1
    /\ held' = [held EXCEPT ![t] = @ - 1]
    /\ head' = IF nesting = 1 THEN Inc(head) ELSE head
    /\ UNCHANGED <<tail, owner_thread, pc, ticket>>

Lock(t) == LockNested(t) \/ LockOutermost(t) \/ WakeAndTake(t)

Next == \E t \in Threads : Lock(t) \/ Unlock(t)

Spec == Init /\ [][Next]_vars

(* The broadcast wakes every sleeper, so one whose turn has come runs      *)
(* eventually; a client undoes its locks, the outermost one too, although  *)
(* it may nest again and again in between.                                 *)
Fairness == \A t \in Threads :
                /\ WF_vars(WakeAndTake(t))
                /\ WF_vars(Unlock(t))
                /\ SF_vars(Unlock(t) /\ nesting = 1)

FairSpec == Spec /\ Fairness

-----------------------------------------------------------------------------
(* The threads with an outstanding ticket: the holder and the sleepers. *)
Active == {t \in Threads : held[t] > 0 \/ pc[t] = "waiting"}

(* How many tickets a ticket is ahead of the head, across the wrap. *)
Ahead(n) == IF n >= head THEN n - head ELSE n + Modulus - head

(* Tickets, counters and the clients' program counters have their types. *)
TypeOK ==
    /\ head \in Tickets /\ tail \in Tickets
    /\ nesting \in Nat
    /\ owner_thread \in Threads \cup {NoThread}
    /\ pc \in [Threads -> {"client", "waiting"}]
    /\ ticket \in [Threads -> Tickets]
    /\ held \in [Threads -> 0 .. MaxNesting]

(* rfifolock_lock returns to one thread at a time: the lock's own count    *)
(* of nested calls is the holder's, so rfifolock_unlock's two assertions   *)
(* (nesting > 0, the caller is the owner) never fail.                      *)
MutualExclusion ==
    \A t \in Threads : held[t] > 0 =>
        /\ owner_thread = t
        /\ nesting = held[t]
        /\ \A u \in Threads \ {t} : held[u] = 0

(* No two outstanding tickets are equal although the counters wrap: two    *)
(* sleepers never both find their turn at the same head, and the head      *)
(* ticket always belongs to somebody, so that the lock is never stuck.     *)
TicketsDistinct ==
    /\ \A t, u \in Active : ticket[t] = ticket[u] => t = u
    /\ Active # {} => \E t \in Active : ticket[t] = head

(* First come, first served: the thread that receives the lock has a       *)
(* ticket ahead of every sleeper's.                                        *)
FirstComeFirstServed ==
    [][\A t \in Threads : held[t] = 0 /\ held'[t] = 1 =>
           \A u \in Threads \ {t} :
               pc[u] = "waiting" => Ahead(ticket'[t]) < Ahead(ticket[u])]_vars

(* Every sleeper receives the lock although others keep asking for it. *)
NoStarvation ==
    \A t \in Threads : pc[t] = "waiting" ~> held[t] > 0

(* The refinement mapping: the abstract queue lists the threads with a     *)
(* ticket by their distance from the head.                                 *)
TicketQueue ==
    [i \in 1 .. Cardinality(Active) |->
        CHOOSE t \in Active : Ahead(ticket[t]) = i - 1]

Promise == INSTANCE FifoLock WITH queue <- TicketQueue, depth <- held

(* The ticket lock is the recursive FIFO lock of the comment "Theory of    *)
(* operation" in rfifolock.c.                                              *)
ImplementsFifoLock == Promise!Spec

=============================================================================
