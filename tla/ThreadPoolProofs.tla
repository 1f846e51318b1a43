-------------------------- MODULE ThreadPoolProofs --------------------------
(***************************************************************************)
(* The safety of the thread pool, for any number of requests and workers   *)
(* and any nesting of callbacks.                                           *)
(***************************************************************************)
EXTENDS ThreadPool, LinkedListProofs, FiniteSetTheorems

-----------------------------------------------------------------------------
(* The inductive invariant *)

(* A list holds exactly the queued elements, each once. *)
Lists(list, st) ==
    /\ \A i, j \in 1 .. Len(list) : list[i] = list[j] => i = j
    /\ \A i \in 1 .. Len(list) : st[list[i]] = "QUEUED"
    /\ \A r \in Requests : st[r] = "QUEUED" => \E i \in 1 .. Len(list) : list[i] = r

(* An element that is not done is on pool->head from its submission on. *)
HeadInv ==
    \A r \in Requests : /\ state[r] \in {"QUEUED", "ACTIVE"} => r \in head
                        /\ r \in head => state[r] # "NEW"

(* The loop's remaining elements are still there, and a callback may nest. *)
ScanInv == cpc = "scan" => scan \subseteq head /\ depth < MaxDepth

(* A worker that will still write to a request owns it; the result is      *)
(* there before the state says so.                                         *)
WorkerInv ==
    /\ \A w \in Workers : wpc[w] \in {"run", "ran"} =>
          wreq[w] \in Requests /\ state[wreq[w]] = "ACTIVE"
    /\ \A w, v \in Workers :
          wpc[w] \in {"run", "ran"} /\ wpc[v] \in {"run", "ran"} /\ wreq[w] = wreq[v] => w = v
    /\ \A w \in Workers : wpc[w] = "ran" => ret[wreq[w]] # "none"

(* The bottom half will run again for each element that is done and that   *)
(* the running loop, if there is one, has passed.                          *)
FoundInv ==
    cpc \in {"client", "post", "scan"} =>
        \A r \in head : state[r] = "DONE" /\ ~(cpc = "scan" /\ r \in scan) =>
            scheduled \/ \E w \in Workers : wpc[w] = "done"

IInv ==
    /\ TypeOK /\ Lists(request_list, state) /\ HeadInv /\ ScanInv /\ WorkerInv
    /\ TokensCover /\ CompletedOnce /\ FoundInv

-----------------------------------------------------------------------------
(* Lists of requests *)

(* The submission of a new request. *)
LEMMA ListsAppend ==
    ASSUME NEW list \in Seq(Requests), NEW T, NEW st \in [Requests -> T], Lists(list, st),
           NEW r \in Requests, st[r] # "QUEUED"
    PROVE  Lists(Append(list, r), [st EXCEPT ![r] = "QUEUED"])
<1> DEFINE new == Append(list, r)
<1>0. Len(list) \in Nat /\ \A i \in 1 .. Len(list) : list[i] \in Requests
  BY LenProperties, ElementOfSeq
<1>1. Len(new) = Len(list) + 1 /\ new[Len(list) + 1] = r
      /\ \A i \in 1 .. Len(list) : new[i] = list[i]
  BY AppendProperties
<1> HIDE DEF new
<1>2. \A i \in 1 .. Len(new) : i \in 1 .. Len(list) \/ i = Len(list) + 1
  BY <1>0, <1>1
<1>3. \A i \in 1 .. Len(list) : list[i] # r
  BY <1>0 DEF Lists
<1>4. \A i, j \in 1 .. Len(new) : new[i] = new[j] => i = j
  BY <1>1, <1>2, <1>3 DEF Lists
<1>5. \A i \in 1 .. Len(new) : [st EXCEPT ![r] = "QUEUED"][new[i]] = "QUEUED"
  BY <1>0, <1>1, <1>2, <1>3 DEF Lists
<1>6. ASSUME NEW q \in Requests, [st EXCEPT ![r] = "QUEUED"][q] = "QUEUED"
      PROVE  \E i \in 1 .. Len(new) : new[i] = q
  <2>1. CASE q = r
    BY <2>1, <1>0, <1>1
  <2>2. CASE q # r
    <3>1. PICK i \in 1 .. Len(list) : list[i] = q
      BY <1>6, <2>2 DEF Lists
    <3>2. i \in 1 .. Len(new) /\ new[i] = q
      BY <3>1, <1>0, <1>1
    <3> QED
      BY <3>2
  <2> QED
    BY <2>1, <2>2
<1> QED
  BY <1>4, <1>5, <1>6 DEF Lists, new

(* A request that leaves the list, at whatever place, is queued no more. *)
LEMMA ListsRemove ==
    ASSUME NEW list \in Seq(Requests), NEW T, NEW st \in [Requests -> T], Lists(list, st),
           NEW n \in 1 .. Len(list), NEW new \in Seq(Requests), NEW value, value # "QUEUED",
           Len(new) = Len(list) - 1,
           \A k \in 1 .. Len(list) - 1 : new[k] = IF k < n THEN list[k] ELSE list[k + 1]
    PROVE  Lists(new, [st EXCEPT ![list[n]] = value])
<1>0. Len(list) \in Nat /\ \A i \in 1 .. Len(list) : list[i] \in Requests
  BY LenProperties, ElementOfSeq
<1>1. PICK len \in Nat : len = Len(list)
  BY <1>0
<1>2. ASSUME NEW k \in 1 .. len - 1
      PROVE  \E i \in 1 .. len : i # n /\ new[k] = list[i] /\ i = IF k < n THEN k ELSE k + 1
  <2>1. CASE k < n
    BY <2>1, <1>1
  <2>2. CASE ~(k < n)
    <3>1. k + 1 \in 1 .. len /\ k + 1 # n /\ new[k] = list[k + 1]
      BY <2>2, <1>1
    <3> QED
      BY <2>2, <3>1
  <2> QED
    BY <2>1, <2>2
<1>3. ASSUME NEW j \in 1 .. len - 1, NEW k \in 1 .. len - 1, new[j] = new[k]
      PROVE  j = k
  <2>1. PICK a \in 1 .. len : new[j] = list[a] /\ a = IF j < n THEN j ELSE j + 1
    BY <1>2
  <2>2. PICK b \in 1 .. len : new[k] = list[b] /\ b = IF k < n THEN k ELSE k + 1
    BY <1>2
  <2>3. a = b
    <3>1. list[a] = list[b]
      BY <1>3, <2>1, <2>2
    <3> QED
      BY <1>1, <3>1 DEF Lists
  <2> QED
    BY <1>1, <2>1, <2>2, <2>3
<1>4. ASSUME NEW k \in 1 .. len - 1
      PROVE  [st EXCEPT ![list[n]] = value][new[k]] = "QUEUED"
  <2>1. PICK a \in 1 .. len : a # n /\ new[k] = list[a]
    BY <1>2
  <2>2. list[a] # list[n] /\ st[list[a]] = "QUEUED" /\ list[a] \in Requests
    BY <1>0, <1>1, <2>1 DEF Lists
  <2> QED
    BY <2>1, <2>2
<1>5. ASSUME NEW q \in Requests, [st EXCEPT ![list[n]] = value][q] = "QUEUED"
      PROVE  \E k \in 1 .. len - 1 : new[k] = q
  <2>1. q # list[n] /\ st[q] = "QUEUED"
    BY <1>0, <1>1, <1>5
  <2>2. PICK a \in 1 .. len : list[a] = q
    BY <1>1, <2>1 DEF Lists
  <2>3. CASE a < n
    <3>1. a \in 1 .. len - 1 /\ new[a] = list[a]
      BY <1>1, <2>3
    <3> QED
      BY <2>2, <3>1
  <2>4. CASE ~(a < n)
    <3>1. a - 1 \in 1 .. len - 1 /\ ~(a - 1 < n)
      BY <1>1, <2>1, <2>2, <2>4
    <3>2. new[a - 1] = list[(a - 1) + 1]
      BY <1>1, <3>1
    <3>3. (a - 1) + 1 = a
      OBVIOUS
    <3> QED
      BY <2>2, <3>1, <3>2, <3>3
  <2> QED
    BY <2>3, <2>4
<1>6. Len(new) = len - 1
  BY <1>1
<1> QED
  BY <1>3, <1>4, <1>5, <1>6 DEF Lists

-----------------------------------------------------------------------------
(* Workers about to take a request *)

LockCount == Cardinality({w \in Workers : wpc[w] = "lock"})

(* The number of workers about to take a request changes by the one that   *)
(* moves.                                                                  *)
LEMMA LockCountMoves ==
    ASSUME TypeOK, NEW w \in Workers, NEW from, NEW to, WorkerGoto(w, from, to)
    PROVE  /\ LockCount \in Nat
           /\ LockCount' = CASE from = "lock" /\ to # "lock" -> LockCount - 1
                             [] from # "lock" /\ to = "lock" -> LockCount + 1
                             [] OTHER -> LockCount
<1> DEFINE L == {v \in Workers : wpc[v] = "lock"}
<1>1. PICK before : before = L
  OBVIOUS
<1>2. before \in SUBSET Workers /\ IsFiniteSet(before) /\ Cardinality(before) \in Nat
  BY <1>1, WorkersFinite, FS_Subset, FS_CardinalityType
<1>3. wpc[w] = from /\ wpc' = [wpc EXCEPT ![w] = to]
  BY DEF WorkerGoto
<1>4. \A v \in Workers : wpc'[v] = IF v = w THEN to ELSE wpc[v]
  BY <1>3 DEF TypeOK
<1>5. (w \in before) <=> (from = "lock")
  BY <1>1, <1>3
<1>6. LockCount = Cardinality(before)
  BY <1>1 DEF LockCount
<1>7. CASE from = "lock" /\ to # "lock"
  <2>1. L' = before \ {w}
    BY <1>1, <1>4, <1>7
  <2>2. Cardinality(before \ {w}) = Cardinality(before) - 1
    BY <1>2, <1>5, <1>7, FS_RemoveElement
  <2> QED
    BY <1>2, <1>6, <1>7, <2>1, <2>2 DEF LockCount
<1>8. CASE from # "lock" /\ to = "lock"
  <2>1. L' = before \cup {w}
    BY <1>1, <1>4, <1>8
  <2>2. Cardinality(before \cup {w}) = Cardinality(before) + 1
    BY <1>2, <1>5, <1>8, FS_AddElement
  <2> QED
    BY <1>2, <1>6, <1>8, <2>1, <2>2 DEF LockCount
<1>9. CASE from = "lock" <=> to = "lock"
  <2>1. L' = before
    BY <1>1, <1>3, <1>4, <1>9
  <2> QED
    BY <1>2, <1>6, <1>9, <2>1 DEF LockCount
<1> QED
  BY <1>7, <1>8, <1>9

(* A step that moves no worker leaves it. *)
LEMMA LockCountSame ==
    ASSUME TypeOK
    PROVE  /\ LockCount \in Nat
           /\ UNCHANGED wpc => LockCount' = LockCount
<1> DEFINE L == {v \in Workers : wpc[v] = "lock"}
<1>1. L \in SUBSET Workers
  OBVIOUS
<1>2. LockCount \in Nat
  BY <1>1, WorkersFinite, FS_Subset, FS_CardinalityType DEF LockCount
<1>3. UNCHANGED wpc => LockCount' = LockCount
  BY DEF LockCount
<1> QED
  BY <1>2, <1>3

-----------------------------------------------------------------------------
(* Types *)

(* thread_pool_create leaves a consistent pool. *)
LEMMA InitIInv == Init => IInv
<1> SUFFICES ASSUME Init PROVE IInv
  OBVIOUS
<1>1. TypeOK
  <2>1. request_list \in Seq(Requests) /\ depth \in 0 .. MaxDepth /\ sem \in Nat
    BY DepthNat DEF Init
  <2>2. stopping \in BOOLEAN /\ scheduled \in BOOLEAN
    BY DEF Init
  <2> QED
    BY <2>1, <2>2 DEF Init, TypeOK
<1>2. Lists(request_list, state) /\ HeadInv /\ ScanInv /\ WorkerInv /\ FoundInv
  BY DEF Init, Lists, HeadInv, ScanInv, WorkerInv, FoundInv
<1>3. TokensCover
  BY <1>1, LockCountSame DEF Init, TokensCover, LockCount
<1>4. CompletedOnce
  BY DEF Init, CompletedOnce
<1> QED
  BY <1>1, <1>2, <1>3, <1>4 DEF IInv

(* Workers preserve the types. *)
LEMMA WorkerType ==
    ASSUME IInv, NEW w \in Workers, Worker(w)
    PROVE  TypeOK'
<1> USE DEF IInv, TypeOK, WorkerGoto, elemvars, workervars, clientvars
<1>1. CASE WorkerCheck(w)
  <2>1. wpc' \in [Workers -> {"check", "wait", "lock", "run", "ran", "done", "exited"}]
    BY <1>1 DEF WorkerCheck
  <2> QED
    BY <1>1, <2>1 DEF WorkerCheck
<1>5. CASE WorkerToken(w)
  BY <1>5 DEF WorkerToken
<1>6. CASE WorkerTimeout(w) \/ WorkerNothing(w)
  BY <1>6 DEF WorkerTimeout, WorkerNothing
<1>2. CASE WorkerTake(w)
  <2>1. Head(request_list) \in Requests /\ Tail(request_list) \in Seq(Requests)
    BY <1>2, HeadTailProperties DEF WorkerTake
  <2> QED
    BY <1>2, <2>1 DEF WorkerTake
<1>3. CASE WorkerStore(w)
  BY <1>3 DEF WorkerStore, StoreResult
<1>4. CASE WorkerSchedule(w)
  BY <1>4 DEF WorkerSchedule
<1> QED
  BY <1>1, <1>2, <1>3, <1>4, <1>5, <1>6 DEF Worker

(* The client preserves the types: callbacks nest no deeper than bounded.  *)
LEMMA ClientType ==
    ASSUME IInv, Client
    PROVE  TypeOK'
<1> USE DEF IInv, TypeOK, ClientGoto, elemvars, workervars, clientvars
<1>1. CASE \E r \in Requests : SubmitAio(r)
  <2>1. PICK r \in Requests : SubmitAio(r)
    BY <1>1
  <2>2. Append(request_list, r) \in Seq(Requests)
    BY AppendProperties
  <2> QED
    BY <2>1, <2>2 DEF SubmitAio
<1>2. CASE \E r \in Requests : thread_pool_cancel(r)
  <2>1. PICK r \in Requests : thread_pool_cancel(r)
    BY <1>2
  <2>2. request_list' \in Seq(Requests)
    BY <2>1, RemovedProperties DEF thread_pool_cancel, CancelQueued, Cancelled
  <2> QED
    BY <2>1, <2>2 DEF thread_pool_cancel, CancelQueued, Cancelled, MarkCancelled
<1>3. CASE SubmitPost \/ BhEnd
  BY <1>3 DEF SubmitPost, BhEnd
<1>7. CASE BhStart \/ DestroyJoined
  BY <1>7 DEF BhStart, DestroyJoined
<1>8. CASE CallbackReturn
  <2>1. depth - 1 \in 0 .. MaxDepth
    BY <1>8, DepthNat DEF CallbackReturn
  <2> QED
    BY <1>8, <2>1 DEF CallbackReturn
<1>4. CASE Destroy
  <2>1. TokensToStop \in Nat
    BY WorkersFinite, FS_CardinalityType DEF TokensToStop
  <2> QED
    BY <1>4, <2>1 DEF Destroy
<1>5. CASE \E r \in Requests : BhSkip(r) \/ BhDrop(r)
  BY <1>5 DEF BhSkip, BhDrop
<1>6. CASE \E r \in Requests : BhCallback(r)
  <2>1. PICK r \in Requests : BhCallback(r)
    BY <1>6
  <2>2. depth + 1 \in 0 .. MaxDepth
    BY <2>1, DepthNat DEF BhCallback, ScanInv
  <2> QED
    BY <2>1, <2>2 DEF BhCallback, Complete
<1> QED
  BY <1>1, <1>2, <1>3, <1>4, <1>5, <1>6, <1>7, <1>8 DEF Client, CompletionBh

-----------------------------------------------------------------------------
(* The list and pool->head *)

(* What does not queue an element or take it off leaves the list right. *)
LEMMA ListsKept ==
    ASSUME NEW list \in Seq(Requests), NEW st, NEW st2, Lists(list, st),
           \A r \in Requests : st2[r] = "QUEUED" <=> st[r] = "QUEUED"
    PROVE  Lists(list, st2)
<1>1. \A i \in 1 .. Len(list) : list[i] \in Requests
  BY ElementOfSeq
<1> QED
  BY <1>1 DEF Lists

(* The first request of the list is queued, and nobody else owns it. *)
LEMMA HeadIsQueued ==
    ASSUME IInv, request_list # <<>>
    PROVE  /\ 1 \in 1 .. Len(request_list) /\ Head(request_list) = request_list[1]
           /\ Head(request_list) \in Requests
           /\ state[Head(request_list)] = "QUEUED"
<1>1. request_list \in Seq(Requests)
  BY DEF IInv, TypeOK
<1>2. Len(request_list) \in Nat /\ Len(request_list) # 0
  BY <1>1, EmptySeq, LenProperties
<1>3. 1 \in 1 .. Len(request_list) /\ Head(request_list) = request_list[1]
  BY <1>1, <1>2
<1>4. request_list[1] \in Requests
  BY <1>1, <1>3, ElementOfSeq
<1> QED
  BY <1>3, <1>4 DEF IInv, Lists

(* Every step keeps the list right. *)
LEMMA ListsStep ==
    ASSUME IInv, Client \/ \E w \in Workers : Worker(w)
    PROVE  Lists(request_list, state)'
<1>0. /\ request_list \in Seq(Requests) /\ Lists(request_list, state)
      /\ state \in [Requests -> {"NEW", "QUEUED", "ACTIVE", "DONE"}]
  BY DEF IInv, TypeOK
<1>1. PICK T : state \in [Requests -> T]
  BY <1>0
<1>2. CASE \E r \in Requests : SubmitAio(r)
  <2>1. PICK r \in Requests : SubmitAio(r)
    BY <1>2
  <2>2. Lists(Append(request_list, r), [state EXCEPT ![r] = "QUEUED"])
    BY <2>1, <1>0, <1>1, ListsAppend DEF SubmitAio
  <2> QED
    BY <2>1, <2>2 DEF SubmitAio
<1>3. CASE \E r \in Requests : thread_pool_cancel(r)
  <2>1. PICK r \in Requests : thread_pool_cancel(r)
    BY <1>3
  <2>2. PICK i \in 1 .. Len(request_list) :
          request_list[i] = r /\ request_list' = RemovedAt(request_list, i)
    BY <2>1 DEF thread_pool_cancel, CancelQueued, Cancelled
  <2>3. state' = [state EXCEPT ![request_list[i]] = "DONE"]
    BY <2>1, <2>2 DEF thread_pool_cancel, CancelQueued, Cancelled, MarkCancelled
  <2>4. /\ request_list' \in Seq(Requests) /\ Len(request_list') = Len(request_list) - 1
        /\ \A k \in 1 .. Len(request_list) - 1 :
              request_list'[k] = IF k < i THEN request_list[k] ELSE request_list[k + 1]
    BY <1>0, <2>2, RemovedProperties
  <2>5. PICK new : new = request_list'
    OBVIOUS
  <2>6. Lists(new, [state EXCEPT ![request_list[i]] = "DONE"])
    BY <1>0, <1>1, <2>4, <2>5, ListsRemove
  <2> QED
    BY <2>3, <2>5, <2>6
<1>4. CASE \E w \in Workers : WorkerTake(w)
  <2>1. PICK w \in Workers : WorkerTake(w)
    BY <1>4
  <2>2. /\ request_list # <<>> /\ request_list' = Tail(request_list)
        /\ state' = [state EXCEPT ![Head(request_list)] = "ACTIVE"]
    BY <2>1 DEF WorkerTake
  <2>3. 1 \in 1 .. Len(request_list) /\ Head(request_list) = request_list[1]
    BY <2>2, HeadIsQueued
  <2>4. PICK new : new = Tail(request_list)
    OBVIOUS
  <2>5. /\ new \in Seq(Requests) /\ Len(new) = Len(request_list) - 1
        /\ \A k \in 1 .. Len(request_list) - 1 : new[k] = request_list[k + 1]
    BY <1>0, <2>2, <2>4, HeadTailProperties
  <2>6. \A k \in 1 .. Len(request_list) - 1 :
          new[k] = IF k < 1 THEN request_list[k] ELSE request_list[k + 1]
    BY <2>5
  <2>7. Lists(new, [state EXCEPT ![request_list[1]] = "ACTIVE"])
    BY <1>0, <1>1, <2>3, <2>5, <2>6, ListsRemove
  <2> QED
    BY <2>2, <2>3, <2>4, <2>7
<1>5. CASE \E w \in Workers : WorkerStore(w)
  <2>1. PICK w \in Workers : WorkerStore(w)
    BY <1>5
  <2>2. request_list' = request_list
    BY <2>1 DEF WorkerStore
  <2>3. state' = state \/ (wpc[w] = "ran" /\ state' = [state EXCEPT ![wreq[w]] = "DONE"])
    BY <2>1 DEF WorkerStore, StoreResult, WorkerGoto
  <2>4. wpc[w] = "ran" => state[wreq[w]] = "ACTIVE"
    BY DEF IInv, WorkerInv
  <2>5. \A r \in Requests : state'[r] = "QUEUED" <=> state[r] = "QUEUED"
    BY <1>0, <2>3, <2>4
  <2> QED
    BY <1>0, <2>2, <2>5, ListsKept
<1>6. CASE \E w \in Workers : Worker(w) /\ ~WorkerTake(w) /\ ~WorkerStore(w)
  <2>1. request_list' = request_list /\ state' = state
    BY <1>6
    DEF Worker, WorkerCheck, WorkerToken, WorkerTimeout, WorkerNothing, WorkerSchedule, elemvars
  <2> QED
    BY <1>0, <2>1
<1>7. CASE \/ SubmitPost \/ BhStart \/ CompletionBh \/ CallbackReturn
           \/ Destroy \/ DestroyJoined
  <2>1. request_list' = request_list /\ state' = state
    BY <1>7
    DEF SubmitPost, BhStart, CompletionBh, BhEnd, BhSkip, BhCallback, BhDrop,
        CallbackReturn, Destroy, DestroyJoined, elemvars
  <2> QED
    BY <1>0, <2>1
<1> QED
  BY <1>2, <1>3, <1>4, <1>5, <1>6, <1>7 DEF Client

(* The client's steps keep pool->head and the completion loop right. *)
LEMMA ClientHead ==
    ASSUME IInv, Client
    PROVE  HeadInv' /\ ScanInv'
<1> USE DEF IInv, TypeOK, HeadInv, ScanInv, ClientGoto
<1>1. CASE \E r \in Requests : SubmitAio(r)
  BY <1>1 DEF SubmitAio
<1>2. CASE \E r \in Requests : thread_pool_cancel(r)
  BY <1>2 DEF thread_pool_cancel, CancelQueued, Cancelled, MarkCancelled, clientvars
<1>3. CASE SubmitPost \/ BhEnd \/ Destroy \/ DestroyJoined
  BY <1>3 DEF SubmitPost, BhEnd, Destroy, DestroyJoined, elemvars
<1>4. CASE BhStart \/ CallbackReturn
  BY <1>4, DepthNat DEF BhStart, CallbackReturn, elemvars
<1>5. CASE \E r \in Requests : BhSkip(r) \/ BhDrop(r)
  BY <1>5 DEF BhSkip, BhDrop, elemvars
<1>6. CASE \E r \in Requests : BhCallback(r)
  BY <1>6 DEF BhCallback, Complete, elemvars
<1> QED
  BY <1>1, <1>2, <1>3, <1>4, <1>5, <1>6 DEF Client, CompletionBh

(* So do the workers'. *)
LEMMA WorkerHead ==
    ASSUME IInv, NEW w \in Workers, Worker(w)
    PROVE  HeadInv' /\ ScanInv'
<1>1. cpc' = cpc /\ scan' = scan /\ head' = head /\ depth' = depth
  BY DEF Worker, WorkerCheck, WorkerToken, WorkerTimeout, WorkerNothing, WorkerTake,
         WorkerStore, WorkerSchedule, clientvars
<1>2. ScanInv'
  BY <1>1 DEF IInv, ScanInv
<1>3. \A r \in Requests :
         \/ state'[r] = state[r]
         \/ state[r] = "QUEUED" /\ state'[r] = "ACTIVE"
         \/ state[r] = "ACTIVE" /\ state'[r] = "DONE"
  <2>1. CASE WorkerTake(w)
    BY <2>1, HeadIsQueued DEF WorkerTake, IInv, TypeOK
  <2>2. CASE WorkerStore(w)
    BY <2>2 DEF WorkerStore, StoreResult, WorkerGoto, IInv, TypeOK, WorkerInv
  <2>3. CASE ~WorkerTake(w) /\ ~WorkerStore(w)
    BY <2>3
    DEF Worker, WorkerCheck, WorkerToken, WorkerTimeout, WorkerNothing, WorkerSchedule, elemvars
  <2> QED
    BY <2>1, <2>2, <2>3
<1>4. HeadInv'
  BY <1>1, <1>3 DEF IInv, HeadInv
<1> QED
  BY <1>2, <1>4

-----------------------------------------------------------------------------
(* The workers *)

(* The client writes to no request that a worker owns. *)
LEMMA ClientWorkers ==
    ASSUME IInv, Client
    PROVE  WorkerInv'
<1>0. wpc' = wpc /\ wreq' = wreq
  BY DEF Client, CompletionBh, SubmitAio, thread_pool_cancel, SubmitPost, BhStart, BhEnd,
         BhSkip, BhCallback, BhDrop, CallbackReturn, Destroy, DestroyJoined, workervars
<1>1. \A r \in Requests : state[r] = "ACTIVE" => state'[r] = "ACTIVE" /\ ret'[r] = ret[r]
  <2>1. CASE \E r \in Requests : SubmitAio(r)
    BY <2>1 DEF SubmitAio, IInv, TypeOK
  <2>2. CASE \E r \in Requests : thread_pool_cancel(r)
    BY <2>2 DEF thread_pool_cancel, CancelQueued, Cancelled, MarkCancelled, IInv, TypeOK
  <2>3. CASE \/ SubmitPost \/ BhStart \/ CompletionBh \/ CallbackReturn
             \/ Destroy \/ DestroyJoined
    BY <2>3 DEF SubmitPost, BhStart, CompletionBh, BhEnd, BhSkip, BhCallback, BhDrop,
                CallbackReturn, Destroy, DestroyJoined, elemvars
  <2> QED
    BY <2>1, <2>2, <2>3 DEF Client
<1> QED
  BY <1>0, <1>1 DEF IInv, WorkerInv

(* A worker takes a request that no other has, and writes to no other's. *)
LEMMA WorkerWorkers ==
    ASSUME IInv, NEW w \in Workers, Worker(w)
    PROVE  WorkerInv'
<1> USE DEF WorkerGoto
<1>0. /\ wpc \in [Workers -> {"check", "wait", "lock", "run", "ran", "done", "exited"}]
      /\ wreq \in [Workers -> Requests \cup {NoRequest}]
      /\ state \in [Requests -> {"NEW", "QUEUED", "ACTIVE", "DONE"}]
      /\ ret \in [Requests -> {"none", "result", "ECANCELED"}]
      /\ WorkerInv
  BY DEF IInv, TypeOK
<1>1. CASE WorkerTake(w)
  <2>1. PICK r \in Requests : r = Head(request_list) /\ state[r] = "QUEUED"
    BY <1>1, HeadIsQueued DEF WorkerTake
  <2>2. /\ wpc' = [wpc EXCEPT ![w] = "run"] /\ wreq' = [wreq EXCEPT ![w] = r]
        /\ state' = [state EXCEPT ![r] = "ACTIVE"] /\ ret' = ret
    BY <1>1, <2>1 DEF WorkerTake
  <2>3. \A v \in Workers : wpc[v] \in {"run", "ran"} => wreq[v] # r
    BY <1>0, <2>1 DEF WorkerInv
  <2> QED
    BY <1>0, <2>1, <2>2, <2>3 DEF WorkerInv
<1>2. CASE WorkerStore(w) /\ wpc[w] = "run"
  <2>1. /\ wpc' = [wpc EXCEPT ![w] = "ran"] /\ wreq' = wreq
        /\ state' = state /\ ret' = [ret EXCEPT ![wreq[w]] = "result"]
    BY <1>2 DEF WorkerStore, StoreResult
  <2> QED
    BY <1>0, <1>2, <2>1 DEF WorkerInv
<1>3. CASE WorkerStore(w) /\ wpc[w] # "run"
  <2>1. /\ wpc[w] = "ran" /\ wpc' = [wpc EXCEPT ![w] = "done"] /\ wreq' = wreq
        /\ ret' = ret /\ state' = [state EXCEPT ![wreq[w]] = "DONE"]
    BY <1>3 DEF WorkerStore, StoreResult
  <2> QED
    BY <1>0, <1>3, <2>1 DEF WorkerInv
<1>4. CASE ~WorkerTake(w) /\ ~WorkerStore(w)
  <2>1. /\ state' = state /\ ret' = ret
        /\ \A v \in Workers \ {w} : wpc'[v] = wpc[v] /\ wreq'[v] = wreq[v]
    BY <1>0, <1>4
    DEF Worker, WorkerCheck, WorkerToken, WorkerTimeout, WorkerNothing, WorkerSchedule, elemvars
  <2>2. wpc'[w] \notin {"run", "ran"}
    BY <1>0, <1>4
    DEF Worker, WorkerCheck, WorkerToken, WorkerTimeout, WorkerNothing, WorkerSchedule
  <2> QED
    BY <1>0, <2>1, <2>2 DEF WorkerInv
<1> QED
  BY <1>1, <1>2, <1>3, <1>4

-----------------------------------------------------------------------------
(* Tokens *)

(* The client's steps lose no token. *)
LEMMA ClientTokens ==
    ASSUME IInv, Client
    PROVE  TokensCover'
<1>0. /\ request_list \in Seq(Requests) /\ sem \in Nat /\ TypeOK
      /\ Len(request_list) \in Nat
      /\ Len(request_list) <= sem + LockCount + IF cpc = "post" THEN 1 ELSE 0
  BY LenProperties DEF IInv, TypeOK, TokensCover, LockCount
<1>1. LockCount \in Nat /\ LockCount' = LockCount
  <2>1. wpc' = wpc
    BY DEF Client, CompletionBh, SubmitAio, thread_pool_cancel, SubmitPost, BhStart, BhEnd,
           BhSkip, BhCallback, BhDrop, CallbackReturn, Destroy, DestroyJoined, workervars
  <2> QED
    BY <1>0, <2>1, LockCountSame
<1> SUFFICES Len(request_list') <= sem' + LockCount + IF cpc' = "post" THEN 1 ELSE 0
  BY <1>1 DEF TokensCover, LockCount
<1>2. CASE \E r \in Requests : SubmitAio(r)
  <2>1. /\ cpc # "post" /\ cpc' = "post" /\ sem' = sem
        /\ \E r \in Requests : request_list' = Append(request_list, r)
    BY <1>2 DEF SubmitAio, ClientGoto
  <2>2. Len(request_list') = Len(request_list) + 1
    BY <1>0, <2>1, AppendProperties
  <2> QED
    BY <1>0, <1>1, <2>1, <2>2
<1>3. CASE \E r \in Requests : thread_pool_cancel(r)
  <2>1. /\ cpc # "post" /\ cpc' = cpc /\ sem > 0 /\ sem' = sem - 1
        /\ \E i \in 1 .. Len(request_list) : request_list' = RemovedAt(request_list, i)
    BY <1>3 DEF thread_pool_cancel, CancelQueued, Cancelled, clientvars
  <2>2. Len(request_list') = Len(request_list) - 1
    BY <1>0, <2>1, RemovedProperties
  <2> QED
    BY <1>0, <1>1, <2>1, <2>2
<1>4. CASE SubmitPost
  BY <1>0, <1>1, <1>4 DEF SubmitPost, ClientGoto
<1>5. CASE Destroy
  <2>1. TokensToStop \in Nat
    BY WorkersFinite, FS_CardinalityType DEF TokensToStop
  <2> QED
    BY <1>0, <1>1, <1>5, <2>1 DEF Destroy, ClientGoto
<1>6. CASE BhStart \/ CompletionBh \/ CallbackReturn \/ DestroyJoined
  <2>1. request_list' = request_list /\ sem' = sem /\ cpc # "post" /\ cpc' # "post"
    BY <1>6
    DEF BhStart, CompletionBh, BhEnd, BhSkip, BhCallback, BhDrop, CallbackReturn,
        DestroyJoined, ClientGoto
  <2> QED
    BY <1>0, <1>1, <2>1
<1> QED
  BY <1>2, <1>3, <1>4, <1>5, <1>6 DEF Client

(* A worker that takes a token, or none, goes on to look at the list; one  *)
(* that finds nothing there may forget its token.                          *)
LEMMA WorkerTokens ==
    ASSUME IInv, NEW w \in Workers, Worker(w)
    PROVE  TokensCover'
<1>0. /\ request_list \in Seq(Requests) /\ sem \in Nat /\ TypeOK
      /\ Len(request_list) \in Nat
      /\ Len(request_list) <= sem + LockCount + IF cpc = "post" THEN 1 ELSE 0
  BY LenProperties DEF IInv, TypeOK, TokensCover, LockCount
<1>1. cpc' = cpc
  BY DEF Worker, WorkerCheck, WorkerToken, WorkerTimeout, WorkerNothing, WorkerTake,
         WorkerStore, WorkerSchedule, clientvars
<1>2. LockCount \in Nat
  BY <1>0, LockCountSame
<1> SUFFICES Len(request_list') <= sem' + LockCount' + IF cpc = "post" THEN 1 ELSE 0
  BY <1>1 DEF TokensCover, LockCount
<1>3. CASE WorkerToken(w) \/ WorkerTimeout(w)
  <2>1. WorkerGoto(w, "wait", "lock")
    BY <1>3 DEF WorkerToken, WorkerTimeout
  <2>2. LockCount' = LockCount + 1
    BY <1>0, <2>1, LockCountMoves
  <2>3. request_list' = request_list /\ (sem' = sem \/ (sem > 0 /\ sem' = sem - 1))
    BY <1>3 DEF WorkerToken, WorkerTimeout
  <2> QED
    BY <1>0, <1>2, <2>2, <2>3
<1>4. CASE WorkerNothing(w) \/ WorkerTake(w)
  <2>1. LockCount' = LockCount - 1
    <3>1. \E to \in {"check", "run"} : WorkerGoto(w, "lock", to)
      BY <1>4 DEF WorkerNothing, WorkerTake
    <3> QED
      BY <1>0, <3>1, LockCountMoves
  <2>2. w \in {v \in Workers : wpc[v] = "lock"}
    BY <1>4 DEF WorkerNothing, WorkerTake, WorkerGoto
  <2>3. LockCount > 0
    <3>1. {v \in Workers : wpc[v] = "lock"} \in SUBSET Workers
      OBVIOUS
    <3>2. IsFiniteSet({v \in Workers : wpc[v] = "lock"})
      BY <3>1, WorkersFinite, FS_Subset
    <3> QED
      BY <1>2, <2>2, <3>2, FS_EmptySet DEF LockCount
  <2>4. sem' = sem
    BY <1>4 DEF WorkerNothing, WorkerTake
  <2>5. CASE WorkerNothing(w)
    <3>1. Len(request_list') = 0
      BY <2>5 DEF WorkerNothing
    <3> QED
      BY <1>0, <1>2, <2>1, <2>3, <2>4, <3>1
  <2>6. CASE WorkerTake(w)
    <3>1. Len(request_list') = Len(request_list) - 1
      BY <1>0, <2>6, HeadTailProperties DEF WorkerTake
    <3> QED
      BY <1>0, <1>2, <2>1, <2>3, <2>4, <3>1
  <2> QED
    BY <1>4, <2>5, <2>6
<1>5. CASE WorkerCheck(w) \/ WorkerStore(w) \/ WorkerSchedule(w)
  <2>1. request_list' = request_list /\ sem' = sem
    BY <1>5 DEF WorkerCheck, WorkerStore, WorkerSchedule
  <2>2. \E from \in {"check", "run", "ran", "done"}, to \in {"exited", "wait", "ran", "done", "check"} :
           WorkerGoto(w, from, to)
    BY <1>5 DEF WorkerCheck, WorkerStore, StoreResult, WorkerSchedule
  <2>3. LockCount' = LockCount
    BY <1>0, <2>2, LockCountMoves
  <2> QED
    BY <1>0, <2>1, <2>3
<1> QED
  BY <1>3, <1>4, <1>5 DEF Worker

-----------------------------------------------------------------------------
(* Completions *)

(* What the client reports of a request: see CompletedOnce. *)
Reported(r, hd, st, calls) ==
    calls[r] = IF r \in WithCallback /\ st[r] = "DONE" /\ r \notin hd THEN 1 ELSE 0

(* The client calls each callback once. *)
LEMMA ClientCompletes ==
    ASSUME IInv, Client
    PROVE  CompletedOnce'
<1>0. /\ state \in [Requests -> {"NEW", "QUEUED", "ACTIVE", "DONE"}]
      /\ ret \in [Requests -> {"none", "result", "ECANCELED"}]
      /\ called \in [Requests -> Nat]
      /\ \A r \in Requests : state[r] = "DONE" => ret[r] # "none"
      /\ \A r \in Requests : Reported(r, head, state, called)
  BY DEF IInv, TypeOK, CompletedOnce, Reported
<1> SUFFICES /\ \A r \in Requests : state'[r] = "DONE" => ret'[r] # "none"
             /\ \A r \in Requests : Reported(r, head', state', called')
  BY DEF CompletedOnce, Reported
<1>1. CASE \E r \in Requests : SubmitAio(r)
  BY <1>0, <1>1 DEF SubmitAio, Reported
<1>2. CASE \E r \in Requests : thread_pool_cancel(r)
  BY <1>0, <1>2
  DEF thread_pool_cancel, CancelQueued, Cancelled, MarkCancelled, Reported
<1>3. CASE SubmitPost \/ BhStart \/ BhEnd \/ CallbackReturn \/ Destroy \/ DestroyJoined
  <2>1. state' = state /\ ret' = ret /\ head' = head /\ called' = called
    BY <1>3 DEF SubmitPost, BhStart, BhEnd, CallbackReturn, Destroy, DestroyJoined, elemvars
  <2> QED
    BY <1>0, <2>1
<1>4. CASE \E r \in Requests : BhSkip(r) \/ BhDrop(r)
  <2>1. state' = state /\ ret' = ret /\ called' = called
    BY <1>4 DEF BhSkip, BhDrop, elemvars
  <2>2. head' = head \/ \E r \in Requests : r \notin WithCallback /\ head' = head \ {r}
    BY <1>4 DEF BhSkip, BhDrop
  <2> QED
    BY <1>0, <2>1, <2>2 DEF Reported
<1>5. CASE \E r \in Requests : BhCallback(r)
  <2>1. PICK r \in Requests : BhCallback(r)
    BY <1>5
  <2>2. /\ state' = state /\ ret' = ret /\ head' = head \ {r}
        /\ called' = [called EXCEPT ![r] = @ + 1]
        /\ r \in head /\ state[r] = "DONE" /\ r \in WithCallback
    BY <2>1 DEF BhCallback, Complete, elemvars, ClientGoto, IInv, ScanInv
  <2>3. called[r] = 0
    BY <1>0, <2>2 DEF Reported
  <2> QED
    BY <1>0, <2>2, <2>3 DEF Reported
<1> QED
  BY <1>1, <1>2, <1>3, <1>4, <1>5 DEF Client, CompletionBh

(* A worker's request is on pool->head when it is marked as done. *)
LEMMA WorkerCompletes ==
    ASSUME IInv, NEW w \in Workers, Worker(w)
    PROVE  CompletedOnce'
<1>0. /\ state \in [Requests -> {"NEW", "QUEUED", "ACTIVE", "DONE"}]
      /\ ret \in [Requests -> {"none", "result", "ECANCELED"}]
      /\ \A r \in Requests : state[r] = "DONE" => ret[r] # "none"
      /\ \A r \in Requests : Reported(r, head, state, called)
  BY DEF IInv, TypeOK, CompletedOnce, Reported
<1>1. head' = head /\ called' = called
  BY DEF Worker, WorkerCheck, WorkerToken, WorkerTimeout, WorkerNothing, WorkerTake,
         WorkerStore, WorkerSchedule
<1> SUFFICES /\ \A r \in Requests : state'[r] = "DONE" => ret'[r] # "none"
             /\ \A r \in Requests : Reported(r, head, state', called)
  BY <1>1 DEF CompletedOnce, Reported
<1>2. CASE WorkerTake(w)
  <2>1. PICK r \in Requests : r = Head(request_list) /\ state[r] = "QUEUED"
    BY <1>2, HeadIsQueued DEF WorkerTake
  <2>2. state' = [state EXCEPT ![r] = "ACTIVE"] /\ ret' = ret
    BY <1>2, <2>1 DEF WorkerTake
  <2> QED
    BY <1>0, <2>1, <2>2 DEF Reported
<1>3. CASE WorkerStore(w) /\ wpc[w] = "run"
  <2>1. state' = state /\ ret' = [ret EXCEPT ![wreq[w]] = "result"]
    BY <1>3 DEF WorkerStore, StoreResult, WorkerGoto
  <2> QED
    BY <1>0, <2>1
<1>4. CASE WorkerStore(w) /\ wpc[w] # "run"
  <2>1. wpc[w] = "ran" /\ ret' = ret /\ state' = [state EXCEPT ![wreq[w]] = "DONE"]
    BY <1>4 DEF WorkerStore, StoreResult, WorkerGoto
  <2>2. /\ wreq[w] \in Requests /\ state[wreq[w]] = "ACTIVE" /\ ret[wreq[w]] # "none"
        /\ wreq[w] \in head
    BY <2>1 DEF IInv, WorkerInv, HeadInv
  <2> QED
    BY <1>0, <2>1, <2>2 DEF Reported
<1>5. CASE ~WorkerTake(w) /\ ~WorkerStore(w)
  <2>1. state' = state /\ ret' = ret
    BY <1>5
    DEF Worker, WorkerCheck, WorkerToken, WorkerTimeout, WorkerNothing, WorkerSchedule, elemvars
  <2> QED
    BY <1>0, <2>1
<1> QED
  BY <1>2, <1>3, <1>4, <1>5

(* The client lets no completion go unnoticed. *)
LEMMA ClientFinds ==
    ASSUME IInv, Client
    PROVE  FoundInv'
<1>0. /\ state \in [Requests -> {"NEW", "QUEUED", "ACTIVE", "DONE"}]
      /\ head \in SUBSET Requests /\ FoundInv
  BY DEF IInv, TypeOK
<1>1. wpc' = wpc
  BY DEF Client, CompletionBh, SubmitAio, thread_pool_cancel, SubmitPost, BhStart, BhEnd,
         BhSkip, BhCallback, BhDrop, CallbackReturn, Destroy, DestroyJoined, workervars
<1>2. CASE \E r \in Requests : SubmitAio(r)
  BY <1>0, <1>1, <1>2 DEF SubmitAio, ClientGoto, FoundInv
<1>3. CASE \E r \in Requests : thread_pool_cancel(r) \/ BhCallback(r)
  <2>1. scheduled'
    BY <1>3 DEF thread_pool_cancel, CancelQueued, Cancelled, MarkCancelled, BhCallback, Complete
  <2> QED
    BY <2>1 DEF FoundInv
<1>4. CASE SubmitPost
  BY <1>0, <1>1, <1>4 DEF SubmitPost, ClientGoto, FoundInv, elemvars
<1>5. CASE BhStart \/ CallbackReturn
  BY <1>5 DEF BhStart, CallbackReturn, ClientGoto, FoundInv
<1>6. CASE BhEnd
  BY <1>0, <1>1, <1>6 DEF BhEnd, ClientGoto, FoundInv, elemvars
<1>7. CASE Destroy \/ DestroyJoined
  BY <1>7 DEF Destroy, DestroyJoined, ClientGoto, FoundInv
<1>8. CASE \E r \in Requests : BhSkip(r) \/ BhDrop(r)
  <2>1. PICK r \in Requests : BhSkip(r) \/ BhDrop(r)
    BY <1>8
  <2>2. /\ cpc = "scan" /\ cpc' = "scan" /\ scan' = scan \ {r} /\ state' = state
        /\ scheduled' = scheduled /\ head' \subseteq head
        /\ state[r] # "DONE" \/ r \notin head'
    BY <2>1 DEF BhSkip, BhDrop, elemvars
  <2> QED
    BY <1>0, <1>1, <2>2 DEF FoundInv
<1> QED
  BY <1>2, <1>3, <1>4, <1>5, <1>6, <1>7, <1>8 DEF Client, CompletionBh

(* Nor do the workers: one that has marked its request schedules the       *)
(* bottom half, whatever others do meanwhile.                              *)
LEMMA WorkerFinds ==
    ASSUME IInv, NEW w \in Workers, Worker(w)
    PROVE  FoundInv'
<1> USE DEF WorkerGoto
<1>0. /\ state \in [Requests -> {"NEW", "QUEUED", "ACTIVE", "DONE"}]
      /\ wpc \in [Workers -> {"check", "wait", "lock", "run", "ran", "done", "exited"}]
      /\ head \in SUBSET Requests /\ FoundInv
  BY DEF IInv, TypeOK
<1>1. head' = head /\ cpc' = cpc /\ scan' = scan
  BY DEF Worker, WorkerCheck, WorkerToken, WorkerTimeout, WorkerNothing, WorkerTake,
         WorkerStore, WorkerSchedule, clientvars
<1>2. CASE WorkerSchedule(w)
  BY <1>2 DEF WorkerSchedule, FoundInv
<1>3. CASE WorkerStore(w) /\ wpc[w] # "run"
  <2>1. wpc'[w] = "done"
    BY <1>0, <1>3 DEF WorkerStore, StoreResult
  <2> QED
    BY <2>1 DEF FoundInv
<1>4. CASE ~WorkerSchedule(w) /\ ~(WorkerStore(w) /\ wpc[w] # "run")
  <2>1. scheduled' = scheduled /\ \A v \in Workers : wpc[v] = "done" => wpc'[v] = "done"
    BY <1>0, <1>4
    DEF Worker, WorkerCheck, WorkerToken, WorkerTimeout, WorkerNothing, WorkerTake, WorkerStore,
        StoreResult
  <2>2. \A r \in Requests : state'[r] = "DONE" => state[r] = "DONE"
    <3>1. CASE WorkerTake(w)
      BY <1>0, <3>1, HeadIsQueued DEF WorkerTake
    <3>2. CASE ~WorkerTake(w)
      BY <1>4, <3>2
      DEF Worker, WorkerCheck, WorkerToken, WorkerTimeout, WorkerNothing, WorkerStore,
          StoreResult, elemvars
    <3> QED
      BY <3>1, <3>2
  <2> QED
    BY <1>0, <1>1, <2>1, <2>2 DEF FoundInv
<1> QED
  BY <1>2, <1>3, <1>4

-----------------------------------------------------------------------------
(* The theorems *)

(* Every step preserves the inductive invariant. *)
LEMMA StepIInv == IInv /\ [Next]_vars => IInv'
<1> SUFFICES ASSUME IInv, [Next]_vars PROVE IInv'
  OBVIOUS
<1>1. CASE Client
  BY <1>1, ClientType, ListsStep, ClientHead, ClientWorkers, ClientTokens, ClientCompletes,
     ClientFinds DEF IInv
<1>2. CASE \E w \in Workers : Worker(w)
  BY <1>2, WorkerType, ListsStep, WorkerHead, WorkerWorkers, WorkerTokens, WorkerCompletes,
     WorkerFinds DEF IInv
<1>3. CASE UNCHANGED vars
  <2> USE <1>3 DEF vars, elemvars, workervars, clientvars, IInv
  <2>1. TypeOK'
    BY DEF TypeOK
  <2>2. Lists(request_list, state)'
    BY DEF Lists
  <2>3. HeadInv' /\ ScanInv' /\ WorkerInv' /\ FoundInv'
    BY DEF HeadInv, ScanInv, WorkerInv, FoundInv
  <2>4. TokensCover' /\ CompletedOnce'
    BY DEF TokensCover, CompletedOnce
  <2> QED
    BY <2>1, <2>2, <2>3, <2>4
<1> QED
  BY <1>1, <1>2, <1>3 DEF Next

(* The inductive invariant holds in every reachable state. *)
THEOREM Invariance == Spec => []IInv
BY InitIInv, StepIInv, PTL DEF Spec

(* Every variable keeps its type: callbacks nest within their bound and    *)
(* the semaphore's count never falls below zero.                           *)
THEOREM TypeCorrect == Spec => []TypeOK
<1>1. IInv => TypeOK
  BY DEF IInv
<1> QED
  BY <1>1, Invariance, PTL

(* No request waits without a token, however many workers and requests     *)
(* there are and however often waits time out or requests are cancelled.   *)
THEOREM NoTokenLost == Spec => []TokensCover
<1>1. IInv => TokensCover
  BY DEF IInv
<1> QED
  BY <1>1, Invariance, PTL

(* A request is on the list exactly while it is queued, and a worker that  *)
(* will still write to one owns it alone and finds it not freed.           *)
THEOREM OwnersAreAlone == Spec => []OneOwner
<1>1. IInv => OneOwner
  <2> SUFFICES ASSUME IInv PROVE OneOwner
    OBVIOUS
  <2>1. \A r \in Requests : InList(r) <=> state[r] = "QUEUED"
    BY DEF IInv, Lists, InList
  <2>2. \A w \in Workers : wpc[w] \in {"run", "ran"} =>
          /\ wreq[w] \in head /\ state[wreq[w]] = "ACTIVE"
          /\ \A v \in Workers \ {w} : wpc[v] \in {"run", "ran"} => wreq[v] # wreq[w]
    BY DEF IInv, WorkerInv, HeadInv
  <2> QED
    BY <2>1, <2>2 DEF OneOwner
<1> QED
  BY <1>1, Invariance, PTL

(* A request that is done has its result and its callback is called once,  *)
(* also when callbacks run the completion loop again.                      *)
THEOREM CallbacksOnce == Spec => []CompletedOnce
<1>1. IInv => CompletedOnce
  BY DEF IInv
<1> QED
  BY <1>1, Invariance, PTL

(* When the client runs, also inside a callback, the bottom half is        *)
(* scheduled, or about to be, for every request that is done.              *)
THEOREM CompletionsAreFound == Spec => []NoLostCompletion
<1>1. IInv => NoLostCompletion
  BY DEF IInv, FoundInv, NoLostCompletion
<1> QED
  BY <1>1, Invariance, PTL
=============================================================================
