------------------------ MODULE TrackedRequestsProofs -----------------------
(***************************************************************************)
(* Overlapping requests are kept apart without a deadlock, for any number  *)
(* of coroutines, any set of requests and any disk, block and cluster      *)
(* sizes.                                                                  *)
(***************************************************************************)
EXTENDS TrackedRequests, LinkedListProofs, FiniteSetTheorems

-----------------------------------------------------------------------------
(* Rounding *)

(* The sizes are positive numbers. *)
LEMMA Sizes ==
    /\ Cells \in Nat \ {0} /\ Align \in Nat \ {0} /\ Cluster \in Nat \ {0}
    /\ MaxRequests \in Nat \ {0}
BY SizesNat

(* Rounding down gives the multiple of a below n. *)
LEMMA DownProperties ==
    ASSUME NEW n \in Nat, NEW a \in Nat \ {0}
    PROVE  /\ Down(n, a) \in Nat /\ Down(n, a) <= n /\ n < Down(n, a) + a
           /\ \E k \in Nat : Down(n, a) = a * k
<1>1. n % a \in 0 .. a - 1 /\ n % a <= n
  OBVIOUS
<1>2. \E k \in Nat : n - (n % a) = a * k
  OBVIOUS
<1> QED
  BY <1>1, <1>2 DEF Down

(* Of two multiples of a, one that is less than a above the other is not   *)
(* above it.                                                               *)
LEMMA Multiples ==
    ASSUME NEW a \in Nat \ {0}, NEW x \in Nat, NEW y \in Nat, a * x < a * y + a
    PROVE  a * x <= a * y
<1>1. x <= y
  OBVIOUS
<1> QED
  BY <1>1

(* A multiple of a below n is not above n rounded down. *)
LEMMA DownIsGreatest ==
    ASSUME NEW n \in Nat, NEW a \in Nat \ {0}, NEW x \in Nat, a * x <= n
    PROVE  a * x <= Down(n, a)
<1>1. PICK y \in Nat : Down(n, a) = a * y
  BY DownProperties
<1>2. Down(n, a) \in Nat /\ n < Down(n, a) + a /\ a * x \in Nat
  BY DownProperties
<1>3. a * x < Down(n, a) + a
  BY <1>2
<1> QED
  BY <1>1, <1>3, Multiples

(* The number of the block behind the one that holds n, times its size. *)
LEMMA NextMultiple ==
    ASSUME NEW n \in Nat, NEW a \in Nat \ {0}
    PROVE  \E k \in Nat : Down(n, a) + a = a * k
<1>1. PICK y \in Nat : Down(n, a) = a * y
  BY DownProperties
<1>2. a * y + a = a * (y + 1) /\ y + 1 \in Nat
  OBVIOUS
<1> QED
  BY <1>1, <1>2

(* Rounding up gives a multiple of a that is not below n. *)
LEMMA UpProperties ==
    ASSUME NEW n \in Nat, NEW a \in Nat \ {0}
    PROVE  /\ Up(n, a) \in Nat /\ n <= Up(n, a) /\ Up(n, a) < n + a
           /\ \E k \in Nat : Up(n, a) = a * k
<1> DEFINE m == n + a - 1
<1>1. m \in Nat
  OBVIOUS
<1>2. /\ Down(m, a) \in Nat /\ Down(m, a) <= m /\ m < Down(m, a) + a
      /\ \E k \in Nat : Down(m, a) = a * k
  <2> HIDE DEF m
  <2> QED
    BY <1>1, DownProperties
<1>3. Up(n, a) = Down(m, a)
  BY DEF Up
<1>4. n <= Down(m, a) /\ Down(m, a) < n + a
  BY <1>2
<1> QED
  BY <1>2, <1>3, <1>4

(* The block of an earlier cell ends no later than the rounded-up end. *)
LEMMA HeadBelowUp ==
    ASSUME NEW n \in Nat, NEW m \in Nat, NEW a \in Nat \ {0}, n < m
    PROVE  Down(n, a) + a <= Up(m, a)
<1>1. PICK k \in Nat : Down(n, a) + a = a * k
  BY NextMultiple
<1>2. m + a - 1 \in Nat /\ a * k \in Nat /\ Down(n, a) <= n /\ Down(n, a) \in Nat
  BY DownProperties
<1>3. a * k <= m + a - 1
  BY <1>1, <1>2
<1> QED
  BY <1>1, <1>2, <1>3, DownIsGreatest DEF Up

(* So does the block of an end that is not aligned. *)
LEMMA TailBelowUp ==
    ASSUME NEW m \in Nat, NEW a \in Nat \ {0}, m % a # 0
    PROVE  Down(m, a) + a <= Up(m, a)
<1>1. PICK k \in Nat : Down(m, a) + a = a * k
  BY NextMultiple
<1>2. m % a \in 0 .. a - 1
  OBVIOUS
<1>3. Down(m, a) < m /\ Down(m, a) \in Nat
  <2>1. Down(m, a) = m - (m % a)
    BY DEF Down
  <2>2. Down(m, a) \in Nat
    BY DownProperties
  <2> QED
    BY <1>2, <2>1, <2>2
<1>4. m + a - 1 \in Nat /\ a * k \in Nat
  OBVIOUS
<1>5. a * k <= m + a - 1
  BY <1>1, <1>3, <1>4
<1> QED
  BY <1>1, <1>4, <1>5, DownIsGreatest DEF Up

(* An aligned number is its own rounding. *)
LEMMA AlignedIsRounded ==
    ASSUME NEW n \in Nat, NEW a \in Nat \ {0}, n % a = 0
    PROVE  Down(n, a) = n /\ Up(n, a) = n
<1>1. Down(n, a) = n
  BY DEF Down
<1>2. PICK x \in Nat : n = a * x
  BY <1>1, DownProperties
<1>3. PICK y \in Nat : Up(n, a) = a * y
  BY UpProperties
<1>4. Up(n, a) < n + a /\ n <= Up(n, a) /\ Up(n, a) \in Nat
  BY UpProperties
<1>5. Up(n, a) <= n
  BY <1>2, <1>3, <1>4, Multiples
<1> QED
  BY <1>1, <1>4, <1>5

-----------------------------------------------------------------------------
(* Requests *)

Base(s) ==
    [kind |-> s.kind, offset |-> s.offset, bytes |-> s.bytes, serialising |-> FALSE,
     overlap_offset |-> s.offset, overlap_bytes |-> s.bytes]

(* What bdrv_co_do_preadv and bdrv_co_do_pwritev make of a request. *)
Request(s) == IF Marks(Base(s), FirstStage(Base(s))) THEN Marked(Base(s)) ELSE Base(s)

ReqType == [kind : {"none", "read", "cor", "write"}, offset : Nat, bytes : Nat,
            serialising : BOOLEAN, overlap_offset : Nat, overlap_bytes : Nat]

(* The cells that a request keeps others away from. *)
Claim(r) == Span(r.overlap_offset, r.overlap_bytes)

Serial(r) == HasHead(r) \/ HasTail(r) \/ r.kind = "cor"

(* The fields of a request; a serialising one claims whole blocks or       *)
(* clusters.                                                               *)
LEMMA RequestFields ==
    ASSUME NEW s \in Shapes
    PROVE  LET r   == Request(s)
               end == r.offset + r.bytes
               a   == Alignment(r)
           IN  /\ r \in ReqType /\ r.kind \in {"read", "cor", "write"} /\ r.bytes # 0
               /\ r.kind = s.kind /\ r.offset = s.offset /\ r.bytes = s.bytes
               /\ r.serialising = Serial(r)
               /\ ~Serial(r) => r = Base(s)
               /\ Serial(r) => r.overlap_offset = Down(r.offset, a)
                               /\ r.overlap_bytes = Up(end, a) - Down(r.offset, a)
<1> DEFINE b == Base(s)
           a == Alignment(b)
           from == Down(b.offset, a)
           len == Up(b.offset + b.bytes, a) - from
<1>1. /\ s.kind \in {"read", "cor", "write"} /\ s.offset \in Nat /\ s.bytes \in Nat \ {0}
  BY ShapesFit
<1>2. /\ b.kind = s.kind /\ b.offset = s.offset /\ b.bytes = s.bytes /\ b.serialising = FALSE
      /\ b.overlap_offset = s.offset /\ b.overlap_bytes = s.bytes
  BY DEF Base
<1>3. b \in ReqType
  BY <1>1 DEF Base, ReqType
<1>4. Marks(b, FirstStage(b)) = Serial(b)
  BY <1>1, <1>2 DEF Marks, FirstStage, AfterHead, Serial, HasHead, HasTail
<1>5. a \in Nat \ {0}
  BY Sizes DEF Alignment
<1>6. from \in Nat /\ from <= s.offset /\ Up(s.offset + s.bytes, a) \in Nat
      /\ s.offset + s.bytes <= Up(s.offset + s.bytes, a)
  <2> HIDE DEF a
  <2>1. Down(s.offset, a) \in Nat /\ Down(s.offset, a) <= s.offset
    BY <1>1, <1>5, DownProperties
  <2>2. s.offset + s.bytes \in Nat
    BY <1>1
  <2>3. Up(s.offset + s.bytes, a) \in Nat /\ s.offset + s.bytes <= Up(s.offset + s.bytes, a)
    BY <1>5, <2>2, UpProperties
  <2> QED
    BY <1>2, <2>1, <2>3
<1>7. MinOf(s.offset, from) = from /\ MaxOf(s.bytes, len) = len /\ len \in Nat
  <2> HIDE DEF a, from
  <2> QED
    BY <1>1, <1>2, <1>6 DEF MinOf, MaxOf
<1>8. CASE ~Serial(b)
  <2>1. Request(s) = b
    BY <1>4, <1>8 DEF Request
  <2>2. b.serialising = Serial(b)
    BY <1>2, <1>8 DEF Serial, HasHead, HasTail
  <2> HIDE DEF b
  <2> QED
    BY <1>1, <1>2, <1>3, <1>8, <2>1, <2>2 DEF b
<1>9. CASE Serial(b)
  <2>1. Request(s) = [b EXCEPT !.serialising = TRUE, !.overlap_offset = MinOf(@, from),
                               !.overlap_bytes = MaxOf(@, len)]
    BY <1>4, <1>9 DEF Request, Marked
  <2> DEFINE r == Request(s)
  <2>2. Request(s) = [kind |-> s.kind, offset |-> s.offset, bytes |-> s.bytes, serialising |-> TRUE,
                      overlap_offset |-> from, overlap_bytes |-> len]
    <3> HIDE DEF from, len, a
    <3> QED
      BY <1>7, <2>1 DEF Base
  <2>3. r.kind = s.kind /\ r.offset = s.offset /\ r.bytes = s.bytes /\ r.serialising = TRUE
        /\ r.overlap_offset = from /\ r.overlap_bytes = len
    <3> HIDE DEF from, len, a
    <3> QED
      BY <2>2
  <2>4. r \in ReqType
    <3> HIDE DEF from, len, a
    <3> QED
      BY <1>1, <1>6, <1>7, <2>2 DEF ReqType
  <2>5. Alignment(r) = a
    BY <1>2, <2>3 DEF Alignment
  <2>6. Serial(r)
    BY <1>2, <1>9, <2>3 DEF Serial, HasHead, HasTail
  <2> HIDE DEF r
  <2>7. r.overlap_offset = Down(r.offset, Alignment(r))
    BY <1>2, <2>3, <2>5
  <2>8. r.overlap_bytes = Up(r.offset + r.bytes, Alignment(r)) - Down(r.offset, Alignment(r))
    BY <1>2, <2>3, <2>5
  <2> QED
    BY <1>1, <2>3, <2>4, <2>6, <2>7, <2>8 DEF r
<1> QED
  BY <1>8, <1>9

(* Marking a serialising request again changes nothing. *)
LEMMA MarkedAgain ==
    ASSUME NEW s \in Shapes, Request(s).serialising
    PROVE  Marked(Request(s)) = Request(s)
<1> DEFINE r == Request(s)
           a == Alignment(r)
           from == Down(r.offset, a)
           len == Up(r.offset + r.bytes, a) - from
<1>1. r \in ReqType /\ r.serialising = TRUE /\ r.overlap_offset = from /\ r.overlap_bytes = len
  BY RequestFields DEF ReqType
<1> HIDE DEF r, a, from, len
<1>2. MinOf(r.overlap_offset, from) = r.overlap_offset /\ MaxOf(r.overlap_bytes, len) = r.overlap_bytes
  BY <1>1 DEF MinOf, MaxOf
<1>3. Marked(r) = [r EXCEPT !.serialising = TRUE, !.overlap_offset = MinOf(@, from),
                            !.overlap_bytes = MaxOf(@, len)]
  BY DEF Marked, from, len, a
<1>4. [r EXCEPT !.serialising = TRUE, !.overlap_offset = MinOf(@, from), !.overlap_bytes = MaxOf(@, len)] = r
  BY <1>1, <1>2 DEF ReqType
<1> QED
  BY <1>3, <1>4 DEF r

(* The I/O of a request stays within what it claims, if it is a write, the *)
(* read of a read-modify-write cycle, or of a whole cluster.               *)
LEMMA IoWithinClaim ==
    ASSUME NEW s \in Shapes
    PROVE  LET r == Request(s)
           IN  /\ r.kind = "write" => IoSpan(r, "write") \subseteq Claim(r)
               /\ HasHead(r) => IoSpan(r, "head") \subseteq Claim(r)
               /\ HasTail(r) => IoSpan(r, "tail") \subseteq Claim(r)
               /\ r.kind = "cor" => /\ IoSpan(r, "corread") \subseteq Claim(r)
                                    /\ IoSpan(r, "corwrite") \subseteq Claim(r)
<1> DEFINE r == Request(s)
           a == Alignment(r)
           end == r.offset + r.bytes
<1>1. /\ r \in ReqType /\ r.kind \in {"read", "cor", "write"} /\ r.bytes # 0
      /\ r.kind = s.kind /\ r.offset = s.offset /\ r.bytes = s.bytes
      /\ ~Serial(r) => r = Base(s)
      /\ Serial(r) => r.overlap_offset = Down(r.offset, a)
                      /\ r.overlap_bytes = Up(end, a) - Down(r.offset, a)
  BY RequestFields
<1> HIDE DEF r
<1>2. /\ r.offset \in Nat /\ r.bytes \in Nat \ {0} /\ end \in Nat /\ r.offset < end
      /\ r.overlap_offset \in Nat /\ r.overlap_bytes \in Nat
  BY <1>1 DEF ReqType
<1>3. Align \in Nat \ {0} /\ Cluster \in Nat \ {0}
  BY Sizes
<1>4. /\ Down(r.offset, Align) \in Nat /\ Up(end, Align) \in Nat
      /\ Down(r.offset, Align) + Align <= Up(end, Align)
  BY <1>2, <1>3, DownProperties, UpProperties, HeadBelowUp
<1>5. /\ Down(end, Align) \in Nat /\ Down(r.offset, Align) <= Down(end, Align)
  <2>1. PICK k \in Nat : Down(r.offset, Align) = Align * k
    BY <1>2, <1>3, DownProperties
  <2>2. Down(r.offset, Align) <= r.offset
    BY <1>2, <1>3, DownProperties
  <2>3. Align * k <= end
    <3> HIDE DEF end
    <3> QED
      BY <1>2, <1>4, <2>1, <2>2
  <2>4. Align * k <= Down(end, Align) /\ Down(end, Align) \in Nat
    <3> HIDE DEF end
    <3> QED
      BY <1>2, <1>3, <2>3, DownIsGreatest, DownProperties
  <2> QED
    BY <2>1, <2>4
<1>6. ASSUME r.kind = "write", Serial(r)
      PROVE  Claim(r) = Span(Down(r.offset, Align), Up(end, Align) - Down(r.offset, Align))
  BY <1>1, <1>6 DEF Alignment, Claim
<1>7. ASSUME r.kind = "write" PROVE IoSpan(r, "write") \subseteq Claim(r)
  <2>1. IoSpan(r, "write") = Span(Down(r.offset, Align), Up(end, Align) - Down(r.offset, Align))
    BY DEF IoSpan
  <2>2. CASE ~Serial(r)
    <3>1. r.offset % Align = 0 /\ end % Align = 0
      BY <1>7, <2>2 DEF Serial, HasHead, HasTail
    <3>2. Down(r.offset, Align) = r.offset /\ Up(end, Align) = end
      BY <1>2, <1>3, <3>1, AlignedIsRounded
    <3>3. r.overlap_offset = r.offset /\ r.overlap_bytes = r.bytes
      BY <1>1, <2>2 DEF Base
    <3>4. end - r.offset = r.bytes
      BY <1>2
    <3> QED
      BY <2>1, <3>2, <3>3, <3>4 DEF Claim
  <2> QED
    BY <1>6, <1>7, <2>1, <2>2
<1>8. ASSUME HasHead(r) PROVE IoSpan(r, "head") \subseteq Claim(r)
  <2>1. IoSpan(r, "head") = Span(Down(r.offset, Align), Align)
    BY DEF IoSpan
  <2>2. Claim(r) = Span(Down(r.offset, Align), Up(end, Align) - Down(r.offset, Align))
    BY <1>6, <1>8 DEF HasHead, Serial
  <2> QED
    BY <1>3, <1>4, <2>1, <2>2, Sizes DEF Span, Cell
<1>9. ASSUME HasTail(r) PROVE IoSpan(r, "tail") \subseteq Claim(r)
  <2>1. IoSpan(r, "tail") = Span(Down(end, Align), Align)
    BY DEF IoSpan
  <2>2. Claim(r) = Span(Down(r.offset, Align), Up(end, Align) - Down(r.offset, Align))
    BY <1>6, <1>9 DEF HasTail, Serial
  <2>3. Down(end, Align) + Align <= Up(end, Align)
    BY <1>2, <1>3, <1>9, TailBelowUp DEF HasTail
  <2> QED
    BY <1>3, <1>4, <1>5, <2>1, <2>2, <2>3, Sizes DEF Span, Cell
<1>10. ASSUME r.kind = "cor"
       PROVE  IoSpan(r, "corread") \subseteq Claim(r) /\ IoSpan(r, "corwrite") \subseteq Claim(r)
  <2>1. Serial(r) /\ a = Cluster
    BY <1>10 DEF Serial, Alignment
  <2>2. Claim(r) = Span(Down(r.offset, Cluster), Up(end, Cluster) - Down(r.offset, Cluster))
    BY <1>1, <2>1 DEF Claim
  <2> QED
    BY <2>2 DEF IoSpan
<1> QED
  BY <1>7, <1>8, <1>9, <1>10 DEF r

(* Requests that do not overlap claim different cells. *)
LEMMA ClaimsDisjoint ==
    ASSUME NEW q \in ReqType, NEW r \in ReqType, ~tracked_request_overlaps(q, r)
    PROVE  Claim(q) \cap Claim(r) = {}
BY Sizes DEF ReqType, Claim, Span, Cell, tracked_request_overlaps

-----------------------------------------------------------------------------
(* The inductive invariant *)

(* The stage belongs to the request. *)
Fits(s, r) ==
    /\ s \in {"head", "tail", "write", "read", "corread", "corwrite"}
    /\ s = "head" => HasHead(r)
    /\ s = "tail" => HasTail(r)
    /\ s = "write" => r.kind = "write"
    /\ s = "read" => r.kind # "write"
    /\ s \in {"corread", "corwrite"} => r.kind = "cor"

(* The states of a request that has passed wait_serialising_requests. *)
Goes == {"io", "iodone", "failed"}

Types ==
    /\ pc \in [Coroutines -> {"out", "wait"} \cup Goes]
    /\ stage \in [Coroutines -> {"none", "head", "tail", "write", "read", "corread", "corwrite"}]
    /\ current \in Coroutines \cup {NoOne}
    /\ wakeup \in [Coroutines -> Seq(Coroutines)] /\ ready \in Seq(Coroutines)
    /\ made \in 0 .. MaxRequests
    /\ req \in [Coroutines -> ReqType]
    /\ waiting_for \in [Coroutines -> Coroutines \cup {NoOne}]
    /\ wait_queue \in [Coroutines -> Seq(Coroutines)]
    /\ tracked \in Seq(Coroutines) /\ serialising_in_flight \in Nat
    /\ disk \in [Cell -> Coroutines \cup {NoOne}]
    /\ buf \in [Coroutines -> [Cell -> Coroutines \cup {NoOne}]]

(* The list holds the requests that have begun and not ended, each once. *)
TrackedInv == Distinct(tracked) /\ \A c \in Coroutines : Holds(tracked, c) <=> pc[c] # "out"

(* A request that has begun is as its shape makes it, marked from the      *)
(* first on; it waits only before its first stage.                         *)
RequestInv ==
    \A c \in Coroutines :
        /\ pc[c] = "out" => stage[c] = "none" /\ req[c] = Idle
        /\ pc[c] # "out" => Fits(stage[c], req[c]) /\ \E s \in Shapes : req[c] = Request(s)
        /\ pc[c] = "wait" => stage[c] = FirstStage(req[c])

(* Of two requests that go on, neither serialises or they do not overlap. *)
Compatible ==
    \A c, d \in Coroutines :
        c # d /\ pc[c] \in Goes /\ pc[d] \in Goes /\ req[c].serialising =>
            ~tracked_request_overlaps(req[c], req[d])

(* The coroutines that have been taken off a queue and not yet entered. *)
Woken(c) == Holds(ready, c) \/ \E x \in Coroutines : Holds(wakeup[x], c)

(* Who waits is in the queue of a request that goes on, or has been woken. *)
QueueInv ==
    /\ \A q \in Coroutines : Distinct(wait_queue[q])
    /\ \A q, c \in Coroutines : Holds(wait_queue[q], c) =>
          pc[c] = "wait" /\ waiting_for[c] = q /\ pc[q] \in Goes /\ ~Woken(c)
    /\ \A c \in Coroutines : waiting_for[c] # NoOne <=> pc[c] = "wait"
    /\ \A c \in Coroutines : pc[c] = "wait" => Woken(c) \/ Holds(wait_queue[waiting_for[c]], c)

(* All that have been woken waited for the same request, whose coroutine   *)
(* has not been woken; it goes on or has yielded.                          *)
WakeInv ==
    /\ current # NoOne => ready = <<>> /\ pc[current] = "out"
    /\ \A x \in Coroutines : wakeup[x] # <<>> => current = x
    /\ Distinct(ready) /\ \A x \in Coroutines : Distinct(wakeup[x])
    /\ \A c \in Coroutines : Woken(c) => pc[c] = "wait" /\ ~Woken(waiting_for[c])
    /\ \A c, d \in Coroutines : Woken(c) /\ Woken(d) => waiting_for[c] = waiting_for[d]

(* The serialising requests. *)
Serialising == {c \in Coroutines : req[c].serialising}

CountInv == IsFiniteSet(Serialising) /\ serialising_in_flight = Cardinality(Serialising)

IInv ==
    /\ Types /\ TrackedInv /\ RequestInv /\ Compatible /\ QueueInv /\ WakeInv /\ CountInv
    /\ ReadModifyWriteAtomic

(* The invariant holds initially. *)
LEMMA InitIInv == Init => IInv
<1> SUFFICES ASSUME Init PROVE IInv
  OBVIOUS
<1>0. /\ \A c \in Coroutines : /\ pc[c] = "out" /\ stage[c] = "none" /\ req[c] = Idle
                               /\ waiting_for[c] = NoOne /\ wait_queue[c] = <<>> /\ wakeup[c] = <<>>
      /\ ready = <<>> /\ tracked = <<>> /\ current = NoOne /\ serialising_in_flight = 0
  BY DEF Init
<1>1. Types
  <2>1. Idle \in ReqType
    BY DEF Idle, ReqType
  <2>2. <<>> \in Seq(Coroutines) /\ 0 \in 0 .. MaxRequests
    BY EmptySeq, Sizes
  <2> QED
    BY <2>1, <2>2 DEF Init, Types
<1>2. TrackedInv /\ WakeInv
  BY <1>0, HoldsNothing DEF TrackedInv, WakeInv, Woken
<1>3. RequestInv /\ Compatible
  BY <1>0 DEF RequestInv, Compatible, Goes
<1>4. QueueInv
  BY <1>0, HoldsNothing DEF QueueInv
<1>5. CountInv
  <2>1. Serialising = {}
    BY <1>0 DEF Serialising, Idle
  <2> QED
    BY <1>0, <2>1, FS_EmptySet DEF CountInv
<1>6. ReadModifyWriteAtomic
  <2> SUFFICES ASSUME NEW c \in Coroutines PROVE Carried(c) = {}
    BY DEF ReadModifyWriteAtomic
  <2>1. ~HeadRead(c) /\ ~TailRead(c) /\ ~ClusterRead(c)
    BY <1>0 DEF HeadRead, TailRead, ClusterRead, Done, HasHead, HasTail, Idle
  <2> QED
    BY <2>1 DEF Carried
<1> QED
  BY <1>1, <1>2, <1>3, <1>4, <1>5, <1>6 DEF IInv

-----------------------------------------------------------------------------
(* Consequences of the invariant *)

(* Requests with a tracked coroutine are serialising as their shape says,  *)
(* and a coroutine outside has none.                                       *)
LEMMA SerialIsShape ==
    ASSUME RequestInv, NEW c \in Coroutines
    PROVE  /\ pc[c] # "out" => req[c].serialising = Serial(req[c])
           /\ pc[c] = "out" => req[c].serialising = FALSE
BY RequestFields DEF RequestInv, Idle

(* A request that has read something goes on, and keeps others away from   *)
(* it.                                                                     *)
LEMMA CarriedIsClaimed ==
    ASSUME Types, RequestInv, NEW c \in Coroutines, NEW i \in Carried(c)
    PROVE  pc[c] \in Goes /\ req[c].serialising /\ i \in Claim(req[c])
<1>1. HeadRead(c) \/ TailRead(c) \/ ClusterRead(c)
  BY DEF Carried
<1>2. pc[c] # "out"
  <2> SUFFICES ASSUME pc[c] = "out" PROVE FALSE
    OBVIOUS
  <2>1. stage[c] = "none" /\ req[c] = Idle
    BY DEF RequestInv
  <2> QED
    BY <1>1, <2>1 DEF HeadRead, TailRead, ClusterRead, Done, HasHead, HasTail, Idle
<1>3. Fits(stage[c], req[c]) /\ \E s \in Shapes : req[c] = Request(s)
  BY <1>2 DEF RequestInv
<1>4. Serial(req[c])
  BY <1>1, <1>3 DEF HeadRead, TailRead, ClusterRead, Done, Fits, Serial
<1>5. pc[c] # "wait"
  <2> SUFFICES ASSUME pc[c] = "wait" PROVE FALSE
    OBVIOUS
  <2>1. stage[c] = FirstStage(req[c])
    BY DEF RequestInv
  <2> QED
    BY <1>1, <2>1 DEF HeadRead, TailRead, ClusterRead, Done, FirstStage, AfterHead, HasHead, HasTail
<1>6. pc[c] \in Goes
  BY <1>2, <1>5 DEF Types
<1>7. req[c].serialising
  BY <1>2, <1>4, SerialIsShape
<1>8. i \in Claim(req[c])
  <2>1. HeadRead(c) => IoSpan(req[c], "head") \subseteq Claim(req[c])
    BY <1>3, IoWithinClaim DEF HeadRead
  <2>2. TailRead(c) => IoSpan(req[c], "tail") \subseteq Claim(req[c])
    BY <1>3, IoWithinClaim DEF TailRead
  <2>3. ClusterRead(c) => IoSpan(req[c], "corread") \subseteq Claim(req[c])
    BY <1>3, IoWithinClaim DEF ClusterRead, Done, Fits
  <2> QED
    BY <2>1, <2>2, <2>3 DEF Carried
<1> QED
  BY <1>6, <1>7, <1>8

(* No other request that goes on claims a cell that c will write back. *)
LEMMA OthersKeepOut ==
    ASSUME Types, RequestInv, Compatible, NEW c \in Coroutines, NEW d \in Coroutines, c # d,
           NEW i \in Carried(c), pc[d] \in Goes
    PROVE  i \notin Claim(req[d])
<1>1. pc[c] \in Goes /\ req[c].serialising /\ i \in Claim(req[c])
  BY CarriedIsClaimed
<1>2. ~tracked_request_overlaps(req[c], req[d]) /\ req[c] \in ReqType /\ req[d] \in ReqType
  BY <1>1 DEF Compatible, Types
<1> QED
  BY <1>1, <1>2, ClaimsDisjoint

-----------------------------------------------------------------------------
(* Steps of a request that goes on *)

(* A step of a request that goes on, from one stage to the next. *)
Proceeds(c, to, s) ==
    /\ pc[c] \in Goes /\ pc' = [pc EXCEPT ![c] = to] /\ to \in Goes
    /\ stage' = [stage EXCEPT ![c] = s] /\ Fits(s, req[c])
    /\ UNCHANGED <<current, wakeup, ready, made, req, waiting_for, wait_queue,
                   tracked, serialising_in_flight>>

(* Such a step disturbs only what is said of the data. *)
LEMMA ProceedsKeeps ==
    ASSUME IInv, NEW c \in Coroutines, NEW to, NEW s, Proceeds(c, to, s),
           disk' \in [Cell -> Coroutines \cup {NoOne}],
           buf' \in [Coroutines -> [Cell -> Coroutines \cup {NoOne}]],
           ReadModifyWriteAtomic'
    PROVE  IInv'
<1>0. /\ Types /\ TrackedInv /\ RequestInv /\ Compatible /\ QueueInv /\ WakeInv /\ CountInv
  BY DEF IInv
<1>1. /\ pc[c] \in Goes /\ to \in Goes /\ pc'[c] = to
      /\ \A d \in Coroutines \ {c} : pc'[d] = pc[d] /\ stage'[d] = stage[d]
      /\ stage'[c] = s /\ Fits(s, req[c])
      /\ UNCHANGED <<current, wakeup, ready, made, req, waiting_for, wait_queue,
                     tracked, serialising_in_flight>>
  BY <1>0 DEF Proceeds, Types
<1>2. /\ \A d \in Coroutines : (pc'[d] = "out" <=> pc[d] = "out") /\ (pc'[d] = "wait" <=> pc[d] = "wait")
      /\ \A d \in Coroutines : pc'[d] \in Goes <=> pc[d] \in Goes
      /\ \A d \in Coroutines : Woken(d)' <=> Woken(d)
  BY <1>0, <1>1 DEF Goes, Woken
<1>3. Types'
  <2>1. pc' \in [Coroutines -> {"out", "wait"} \cup Goes]
    BY <1>0 DEF Proceeds, Types
  <2>2. stage' \in [Coroutines -> {"none", "head", "tail", "write", "read", "corread", "corwrite"}]
    BY <1>0, <1>1 DEF Proceeds, Types, Fits
  <2> QED
    BY <1>0, <1>1, <2>1, <2>2 DEF Types
<1>4. TrackedInv'
  BY <1>0, <1>1, <1>2 DEF TrackedInv
<1>5. RequestInv'
  BY <1>0, <1>1, <1>2 DEF RequestInv, Goes
<1>6. Compatible'
  BY <1>0, <1>1, <1>2 DEF Compatible
<1>7. QueueInv'
  BY <1>0, <1>1, <1>2 DEF QueueInv
<1>8. WakeInv'
  <2>1. current # NoOne => current \in Coroutines
    BY <1>0 DEF Types
  <2>2. \A d \in Coroutines : Woken(d) => ~Woken(waiting_for[d])'
    BY <1>0, <1>1 DEF WakeInv, Woken
  <2> QED
    BY <1>0, <1>1, <1>2, <2>1, <2>2 DEF WakeInv
<1>9. CountInv'
  BY <1>0, <1>1 DEF CountInv, Serialising
<1> QED
  BY <1>3, <1>4, <1>5, <1>6, <1>7, <1>8, <1>9 DEF IInv

(* What a request carries depends on its own pc and stage. *)
LEMMA CarriedLocal ==
    ASSUME NEW c \in Coroutines, req'[c] = req[c], stage'[c] = stage[c], pc'[c] = pc[c]
    PROVE  Carried(c)' = Carried(c)
BY DEF Carried, HeadRead, TailRead, ClusterRead, Done

(* A worker carries out the I/O of a request: it writes only what the      *)
(* request claims, and what it has read is what the disk holds.            *)
LEMMA DiskIoKeeps ==
    ASSUME IInv, NEW c \in Coroutines, DiskIo(c)
    PROVE  IInv'
<1> DEFINE span == IoSpan(req[c], stage[c])
           own  == IF stage[c] = "write" THEN Span(req[c].offset, req[c].bytes) ELSE {}
           wr   == stage[c] \in {"write", "corwrite"}
<1>0. Types /\ RequestInv /\ Compatible /\ ReadModifyWriteAtomic
  BY DEF IInv
<1>1. /\ pc[c] = "io" /\ pc' = [pc EXCEPT ![c] = "iodone"]
      /\ UNCHANGED <<stage, current, wakeup, ready, made, req, waiting_for, wait_queue,
                     tracked, serialising_in_flight>>
  BY DEF DiskIo, reqvars, bsvars
<1>2. /\ wr => /\ disk' = [i \in Cell |-> IF i \in own THEN c
                                          ELSE IF i \in span THEN buf[c][i] ELSE disk[i]]
               /\ UNCHANGED buf
      /\ ~wr => /\ buf' = [buf EXCEPT ![c] = [i \in Cell |-> IF i \in span THEN disk[i] ELSE buf[c][i]]]
                /\ UNCHANGED disk
  BY DEF DiskIo
<1>3. Fits(stage[c], req[c]) /\ \E s \in Shapes : req[c] = Request(s)
  BY <1>0, <1>1 DEF RequestInv
<1>4. Proceeds(c, "iodone", stage[c])
  BY <1>0, <1>1, <1>3 DEF Proceeds, Goes, Types
<1>5. disk' \in [Cell -> Coroutines \cup {NoOne}]
  <2>1. buf[c] \in [Cell -> Coroutines \cup {NoOne}] /\ disk \in [Cell -> Coroutines \cup {NoOne}]
    BY <1>0 DEF Types
  <2> HIDE DEF span, own
  <2> QED
    BY <1>2, <2>1
<1>6. buf' \in [Coroutines -> [Cell -> Coroutines \cup {NoOne}]]
  <2>1. /\ buf \in [Coroutines -> [Cell -> Coroutines \cup {NoOne}]]
        /\ disk \in [Cell -> Coroutines \cup {NoOne}] /\ buf[c] \in [Cell -> Coroutines \cup {NoOne}]
    BY <1>0 DEF Types
  <2>2. [i \in Cell |-> IF i \in span THEN disk[i] ELSE buf[c][i]] \in [Cell -> Coroutines \cup {NoOne}]
    <3> HIDE DEF span
    <3> QED
      BY <2>1
  <2> HIDE DEF span, own
  <2> QED
    BY <1>2, <2>1, <2>2
<1>7. wr => span \subseteq Claim(req[c]) /\ own \subseteq span
  <2>1. stage[c] = "write" => span \subseteq Claim(req[c])
    BY <1>3, IoWithinClaim DEF Fits
  <2>2. stage[c] = "corwrite" => span \subseteq Claim(req[c]) /\ own = {}
    BY <1>3, IoWithinClaim DEF Fits
  <2>3. stage[c] = "write" => own \subseteq span
    <3> SUFFICES ASSUME stage[c] = "write"
                 PROVE  Span(req[c].offset, req[c].bytes) \subseteq IoSpan(req[c], "write")
      OBVIOUS
    <3> DEFINE end == req[c].offset + req[c].bytes
    <3>0. req[c] \in ReqType
      BY <1>0 DEF Types
    <3>1. req[c].offset \in Nat /\ req[c].bytes \in Nat /\ end \in Nat
      BY <3>0 DEF ReqType
    <3>2. /\ Down(req[c].offset, Align) <= req[c].offset /\ Down(req[c].offset, Align) \in Nat
          /\ end <= Up(end, Align) /\ Up(end, Align) \in Nat
      <4> HIDE DEF end
      <4> QED
        BY <3>1, Sizes, DownProperties, UpProperties
    <3>3. IoSpan(req[c], "write") = Span(Down(req[c].offset, Align), Up(end, Align) - Down(req[c].offset, Align))
      BY DEF IoSpan
    <3> QED
      BY <3>1, <3>2, <3>3, Sizes DEF Span, Cell
  <2> QED
    BY <2>1, <2>2, <2>3
<1>8. ReadModifyWriteAtomic'
  <2> SUFFICES ASSUME NEW d \in Coroutines, pc'[d] # "failed", NEW i \in Carried(d)'
               PROVE  buf'[d][i] = disk'[i]
    BY DEF ReadModifyWriteAtomic
  <2>0. Cell = 0 .. Cells - 1 /\ i \in Cell
    BY DEF Carried, IoSpan, Span, Cell
  <2>1. CASE d # c
    <3>1. Carried(d)' = Carried(d) /\ pc'[d] = pc[d]
      BY <1>0, <1>1, <2>1, CarriedLocal DEF Types
    <3>2. buf[d][i] = disk[i] /\ i \notin Claim(req[c])
      BY <1>0, <1>1, <2>1, <3>1, OthersKeepOut DEF ReadModifyWriteAtomic, Goes
    <3>3. buf'[d] = buf[d]
      BY <1>0, <1>2, <2>1 DEF Types
    <3>4. disk'[i] = disk[i]
      <4> HIDE DEF span, own, Cell
      <4> QED
        BY <1>2, <1>7, <2>0, <3>2
    <3> QED
      BY <3>2, <3>3, <3>4
  <2>2. CASE d = c /\ wr
    <3>1. i \in Carried(c) /\ i \notin own /\ i \in span
      <4>1. pc'[c] = "iodone" /\ stage'[c] = stage[c] /\ req'[c] = req[c]
        BY <1>0, <1>1 DEF Types
      <4>2. CASE stage[c] = "write"
        <5>1. ~ClusterRead(c)' /\ ~ClusterRead(c)
          BY <4>1, <4>2 DEF ClusterRead, Done
        <5>2. HeadRead(c)' <=> HeadRead(c)
          BY <4>1, <4>2 DEF HeadRead, Done
        <5>3. TailRead(c)' <=> TailRead(c)
          BY <4>1, <4>2 DEF TailRead, Done
        <5>4. i \in Carried(c) /\ i \notin own
          BY <2>2, <4>1, <4>2, <5>1, <5>2, <5>3 DEF Carried
        <5>5. i \in span
          <6>1. i \in Claim(req[c])
            BY <1>0, <5>4, CarriedIsClaimed
          <6>2. req[c].kind = "write" /\ Serial(req[c])
            BY <1>3, <4>2, <5>1, <5>4 DEF Fits, Carried, HeadRead, TailRead, Serial
          <6>3. Claim(req[c]) = IoSpan(req[c], "write")
            BY <1>3, <6>2, RequestFields DEF Claim, IoSpan, Alignment
          <6> QED
            BY <4>2, <6>1, <6>3
        <5> QED
          BY <5>4, <5>5
      <4>3. CASE stage[c] = "corwrite"
        <5>1. req[c].kind = "cor" /\ ClusterRead(c) /\ ClusterRead(c)'
          BY <1>3, <4>1, <4>3 DEF Fits, ClusterRead
        <5>2. ~HeadRead(c)' /\ ~TailRead(c)'
          BY <4>1, <4>3, <5>1 DEF HeadRead, TailRead, HasHead, HasTail
        <5>3. i \in IoSpan(req[c], "corread") /\ i \in Carried(c)
          BY <2>2, <4>1, <5>1, <5>2 DEF Carried
        <5> QED
          BY <4>3, <5>3 DEF IoSpan
      <4> QED
        BY <2>2, <4>2, <4>3
    <3>2. disk'[i] = buf[c][i] /\ buf' = buf
      <4> HIDE DEF span, own, Cell
      <4> QED
        BY <1>2, <2>0, <2>2, <3>1
    <3> QED
      BY <2>2, <3>2
  <2>3. CASE d = c /\ ~wr
    <3>1. disk' = disk /\ buf'[c][i] = IF i \in span THEN disk[i] ELSE buf[c][i]
      <4> HIDE DEF span, own, Cell
      <4> QED
        BY <1>0, <1>2, <2>0, <2>3 DEF Types
    <3>2. CASE i \in span
      BY <2>3, <3>1, <3>2
    <3>3. CASE i \notin span
      <4>1. pc'[c] = "iodone" /\ stage'[c] = stage[c] /\ req'[c] = req[c]
        BY <1>0, <1>1 DEF Types
      <4>2. i \in Carried(c)
        <5>1. CASE i \in IoSpan(req[c], "head") \ Span(req[c].offset, req[c].bytes) /\ HeadRead(c)'
          <6>1. HeadRead(c)
            BY <1>1, <3>3, <4>1, <5>1 DEF HeadRead, Done
          <6> QED
            BY <5>1, <6>1 DEF Carried
        <5>2. CASE i \in IoSpan(req[c], "tail") \ Span(req[c].offset, req[c].bytes) /\ TailRead(c)'
          <6>1. TailRead(c)
            BY <1>1, <3>3, <4>1, <5>2 DEF TailRead, Done
          <6> QED
            BY <5>2, <6>1 DEF Carried
        <5>3. CASE i \in IoSpan(req[c], "corread") /\ ClusterRead(c)'
          <6>1. ClusterRead(c)
            BY <1>1, <3>3, <4>1, <5>3 DEF ClusterRead, Done
          <6> QED
            BY <5>3, <6>1 DEF Carried
        <5> QED
          BY <2>3, <4>1, <5>1, <5>2, <5>3 DEF Carried
      <4>3. buf[c][i] = disk[i]
        BY <1>0, <1>1, <4>2 DEF ReadModifyWriteAtomic
      <4> QED
        BY <2>3, <3>1, <3>3, <4>3
    <3> QED
      BY <3>2, <3>3
  <2> QED
    BY <2>1, <2>2, <2>3
<1> QED
  BY <1>4, <1>5, <1>6, <1>8, ProceedsKeeps

(* A step that leaves the data alone and carries no more than before. *)
LEMMA CarriesNoMore ==
    ASSUME IInv, UNCHANGED <<disk, buf>>, NEW c \in Coroutines,
           \A d \in Coroutines \ {c} :
              req'[d] = req[d] /\ stage'[d] = stage[d] /\ pc'[d] = pc[d],
           pc'[c] # "failed" => pc[c] # "failed" /\ Carried(c)' \subseteq Carried(c)
    PROVE  ReadModifyWriteAtomic'
<1> SUFFICES ASSUME NEW d \in Coroutines, pc'[d] # "failed", NEW i \in Carried(d)'
             PROVE  buf[d][i] = disk[i]
  BY DEF ReadModifyWriteAtomic
<1>1. pc[d] # "failed" /\ i \in Carried(d)
  BY CarriedLocal
<1> QED
  BY <1>1 DEF IInv, ReadModifyWriteAtomic

(* The I/O of a request fails. *)
LEMMA IoFailsKeeps ==
    ASSUME IInv, NEW c \in Coroutines, IoFails(c)
    PROVE  IInv'
<1>0. Types /\ RequestInv
  BY DEF IInv
<1>1. /\ pc[c] = "io" /\ pc' = [pc EXCEPT ![c] = "failed"]
      /\ UNCHANGED <<stage, current, wakeup, ready, made, req, waiting_for, wait_queue,
                     tracked, serialising_in_flight, disk, buf>>
  BY DEF IoFails, reqvars, bsvars, datavars
<1>2. Fits(stage[c], req[c])
  BY <1>0, <1>1 DEF RequestInv
<1>3. Proceeds(c, "failed", stage[c])
  BY <1>0, <1>1, <1>2 DEF Proceeds, Goes, Types
<1>4. pc'[c] = "failed" /\ \A d \in Coroutines \ {c} : pc'[d] = pc[d]
  BY <1>0, <1>1 DEF Types
<1>5. ReadModifyWriteAtomic'
  BY <1>1, <1>4, CarriesNoMore
<1>6. /\ disk' \in [Cell -> Coroutines \cup {NoOne}]
      /\ buf' \in [Coroutines -> [Cell -> Coroutines \cup {NoOne}]]
  BY <1>0, <1>1 DEF Types
<1> QED
  BY <1>3, <1>5, <1>6, ProceedsKeeps

(* A copy on read goes on with the whole cluster. *)
LEMMA CopyOnReadKeeps ==
    ASSUME IInv, NEW c \in Coroutines, CopyOnRead(c)
    PROVE  IInv'
<1>0. Types /\ RequestInv
  BY DEF IInv
<1>1. /\ pc[c] \in {"io", "iodone"} /\ pc' = [pc EXCEPT ![c] = "io"] /\ req[c].kind = "cor"
      /\ UNCHANGED <<current, wakeup, ready, made, req, waiting_for, wait_queue,
                     tracked, serialising_in_flight, disk, buf>>
  BY DEF CopyOnRead, reqvars, bsvars, datavars
<1>2. PICK s \in {"corread", "corwrite"} :
        /\ stage' = [stage EXCEPT ![c] = s]
        /\ s = "corwrite" => pc[c] = "iodone" /\ stage[c] = "corread"
  BY DEF CopyOnRead
<1>3. Proceeds(c, "io", s)
  BY <1>1, <1>2 DEF Proceeds, Goes, Fits
<1>4. /\ pc'[c] = "io" /\ stage'[c] = s
      /\ \A d \in Coroutines \ {c} : pc'[d] = pc[d] /\ stage'[d] = stage[d]
  BY <1>0, <1>1, <1>2 DEF Types
<1>5. Carried(c)' \subseteq Carried(c)
  <2>1. ~HeadRead(c)' /\ ~TailRead(c)'
    BY <1>1 DEF HeadRead, TailRead, HasHead, HasTail
  <2>2. ClusterRead(c)' => ClusterRead(c)
    BY <1>2, <1>4 DEF ClusterRead, Done
  <2> QED
    BY <1>1, <2>1, <2>2 DEF Carried
<1>6. ReadModifyWriteAtomic'
  BY <1>1, <1>4, <1>5, CarriesNoMore
<1>7. /\ disk' \in [Cell -> Coroutines \cup {NoOne}]
      /\ buf' \in [Coroutines -> [Cell -> Coroutines \cup {NoOne}]]
  BY <1>0, <1>1 DEF Types
<1> QED
  BY <1>3, <1>6, <1>7, ProceedsKeeps

(* At the event loop nobody has been woken. *)
LEMMA NobodyWoken ==
    ASSUME Types, WakeInv, AtEventLoop
    PROVE  /\ \A x \in Coroutines : wakeup[x] = <<>>
           /\ \A c : ~Woken(c)
<1>1. ready = <<>> /\ current = NoOne
  BY DEF AtEventLoop
<1>2. \A x \in Coroutines : wakeup[x] = <<>>
  BY <1>1, NoOneAssumption DEF WakeInv
<1> QED
  BY <1>1, <1>2, HoldsNothing DEF Woken

(* What wait_serialising_requests would find: nobody, for a request that   *)
(* goes on already.                                                        *)
LEMMA NothingBlocks ==
    ASSUME IInv, NEW c \in Coroutines, pc[c] \in Goes, NEW q \in Coroutines
    PROVE  ~Blocks(q, c, req[c])
<1> SUFFICES ASSUME Blocks(q, c, req[c]) PROVE FALSE
  OBVIOUS
<1>0. Types /\ TrackedInv /\ RequestInv /\ Compatible /\ QueueInv
  BY DEF IInv
<1>1. q # c /\ waiting_for[q] = NoOne /\ tracked_request_overlaps(req[q], req[c])
      /\ (req[q].serialising \/ req[c].serialising)
  BY DEF Blocks
<1>2. pc[q] # "wait"
  BY <1>0, <1>1 DEF QueueInv
<1>3. CASE pc[q] = "out"
  <2>1. req[q] = Idle /\ req[c] \in ReqType
    BY <1>0, <1>3 DEF RequestInv, Types
  <2> QED
    BY <1>1, <2>1 DEF tracked_request_overlaps, Idle, ReqType
<1>4. CASE pc[q] \in Goes
  <2>1. ~tracked_request_overlaps(req[q], req[c]) \/ ~tracked_request_overlaps(req[c], req[q])
    BY <1>0, <1>1, <1>4 DEF Compatible
  <2> QED
    BY <1>1, <2>1 DEF tracked_request_overlaps
<1> QED
  BY <1>0, <1>2, <1>3, <1>4 DEF Types

(* The next stage of a read-modify-write cycle: the request is marked as   *)
(* before and waits for nobody.                                            *)
LEMMA StageDoneKeeps ==
    ASSUME IInv, NEW c \in Coroutines, StageDone(c)
    PROVE  IInv'
<1> DEFINE s == IF stage[c] = "head" THEN AfterHead(req[c]) ELSE "write"
           r == IF Marks(req[c], s) THEN Marked(req[c]) ELSE req[c]
           n == serialising_in_flight + IF r.serialising /\ ~req[c].serialising THEN 1 ELSE 0
           list == IF n = 0 THEN <<>> ELSE tracked
<1>0. Types /\ RequestInv /\ WakeInv /\ QueueInv
  BY DEF IInv
<1>1. /\ pc[c] = "iodone" /\ AtEventLoop /\ stage[c] \in {"head", "tail"}
      /\ EnterStage(c, req[c], s, tracked, ready)
      /\ UNCHANGED <<made, tracked, disk, buf>>
  BY DEF StageDone, datavars
<1>2. Fits(stage[c], req[c]) /\ \E z \in Shapes : req[c] = Request(z)
  BY <1>0, <1>1 DEF RequestInv
<1>3. req[c].kind = "write" /\ Serial(req[c])
  BY <1>1, <1>2 DEF Fits, HasHead, HasTail, Serial
<1>4. req[c].serialising /\ Marked(req[c]) = req[c]
  BY <1>2, <1>3, RequestFields, MarkedAgain
<1>5. r = req[c] /\ n = serialising_in_flight
  BY <1>0, <1>4 DEF Types
<1>6. /\ s \in {"tail", "write"} /\ Fits(s, req[c])
      /\ s = "tail" => stage[c] = "head"
      /\ HasTail(req[c]) /\ s = "write" => stage[c] = "tail"
  BY <1>1, <1>2, <1>3 DEF AfterHead, Fits
<1>7. /\ req' = [req EXCEPT ![c] = r] /\ stage' = [stage EXCEPT ![c] = s]
      /\ serialising_in_flight' = n /\ WaitOrGo(c, r, list) /\ Yield(c, ready)
  BY <1>1 DEF EnterStage
<1>8. list \in Seq(Coroutines) /\ \A k \in DOMAIN list : list[k] \in Coroutines
  <2>1. list \in Seq(Coroutines)
    BY <1>0, EmptySeq DEF Types
  <2> HIDE DEF list
  <2> QED
    BY <2>1, LenProperties, ElementOfSeq
<1> HIDE DEF list, s, r, n
<1>9. {k \in DOMAIN list : Blocks(list[k], c, r)} = {}
  BY <1>1, <1>5, <1>8, NothingBlocks DEF Goes
<1>10. /\ pc' = [pc EXCEPT ![c] = "io"] /\ UNCHANGED wait_queue
       /\ waiting_for' = [waiting_for EXCEPT ![c] = NoOne]
  BY <1>7, <1>9 DEF WaitOrGo
<1>11. UNCHANGED <<req, serialising_in_flight, waiting_for>>
  <2>1. waiting_for[c] = NoOne
    BY <1>0, <1>1 DEF QueueInv
  <2> QED
    BY <1>0, <1>5, <1>7, <1>10, <2>1 DEF Types
<1>12. UNCHANGED <<current, wakeup, ready>>
  <2>1. wakeup[c] = <<>> /\ ready = <<>> /\ current = NoOne
    BY <1>0, <1>1, NobodyWoken DEF AtEventLoop
  <2>2. ready' = wakeup[c] \o ready /\ wakeup' = [wakeup EXCEPT ![c] = <<>>] /\ current' = NoOne
    BY <1>7 DEF Yield
  <2>3. <<>> \o <<>> = <<>>
    BY ConcatEmptySeq, EmptySeq
  <2> QED
    BY <1>0, <2>1, <2>2, <2>3 DEF Types
<1>13. Proceeds(c, "io", s)
  BY <1>1, <1>6, <1>7, <1>10, <1>11, <1>12 DEF Proceeds, Goes
<1>14. /\ pc'[c] = "io" /\ stage'[c] = s /\ req'[c] = req[c]
       /\ \A d \in Coroutines \ {c} : pc'[d] = pc[d] /\ stage'[d] = stage[d] /\ req'[d] = req[d]
  BY <1>0, <1>7, <1>10, <1>11 DEF Types
<1>15. Carried(c)' \subseteq Carried(c)
  <2>1. HeadRead(c)' => HeadRead(c)
    BY <1>1, <1>14 DEF HeadRead, Done
  <2>2. TailRead(c)' => TailRead(c)
    BY <1>1, <1>6, <1>14 DEF TailRead, Done
  <2>3. ~ClusterRead(c)'
    BY <1>6, <1>14 DEF ClusterRead, Done
  <2> QED
    BY <1>14, <2>1, <2>2, <2>3 DEF Carried
<1>16. ReadModifyWriteAtomic'
  BY <1>1, <1>14, <1>15, CarriesNoMore
<1>17. /\ disk' \in [Cell -> Coroutines \cup {NoOne}]
       /\ buf' \in [Coroutines -> [Cell -> Coroutines \cup {NoOne}]]
  BY <1>0, <1>1 DEF Types
<1> QED
  BY <1>13, <1>16, <1>17, ProceedsKeeps

-----------------------------------------------------------------------------
(* Steps that wake coroutines and enter them *)

(* A coroutine yields: the ones it has woken are entered next. *)
LEMMA YieldKeepsWoken ==
    ASSUME Types, WakeInv, NEW c \in Coroutines, current = c \/ AtEventLoop, Yield(c, ready)
    PROVE  /\ \A d : Woken(d)' <=> Woken(d)
           /\ current' = NoOne /\ ready' \in Seq(Coroutines) /\ Distinct(ready')
           /\ wakeup' \in [Coroutines -> Seq(Coroutines)]
           /\ \A x \in Coroutines : wakeup'[x] = <<>>
<1>1. ready = <<>>
  BY NoOneAssumption DEF WakeInv, AtEventLoop
<1>2. /\ ready' = wakeup[c] \o ready /\ wakeup' = [wakeup EXCEPT ![c] = <<>>] /\ current' = NoOne
  BY DEF Yield
<1>3. ready' = wakeup[c] /\ wakeup[c] \in Seq(Coroutines)
  BY <1>1, <1>2, ConcatEmptySeq DEF Types
<1>4. \A x \in Coroutines : wakeup'[x] = <<>> /\ (x # c => wakeup[x] = <<>>)
  BY <1>2, NoOneAssumption DEF Types, WakeInv, AtEventLoop
<1>5. Distinct(ready')
  BY <1>3 DEF WakeInv
<1>6. wakeup' \in [Coroutines -> Seq(Coroutines)]
  BY <1>2, EmptySeq DEF Types
<1>7. ASSUME NEW d PROVE Woken(d)' <=> Woken(d)
  <2>1. Woken(d) <=> Holds(wakeup[c], d)
    BY <1>1, <1>4, HoldsNothing DEF Woken
  <2>2. Woken(d)' <=> Holds(ready', d)
    BY <1>4, HoldsNothing DEF Woken
  <2> QED
    BY <1>3, <2>1, <2>2
<1> QED
  BY <1>2, <1>3, <1>4, <1>5, <1>6, <1>7

(* A coroutine leaves the block layer. *)
LEMMA LeaveKeeps ==
    ASSUME IInv, NEW c \in Coroutines, Leave(c)
    PROVE  IInv'
<1>0. /\ Types /\ TrackedInv /\ RequestInv /\ Compatible /\ QueueInv /\ WakeInv /\ CountInv
      /\ ReadModifyWriteAtomic
  BY DEF IInv
<1>1. /\ current = c /\ Yield(c, ready)
      /\ UNCHANGED <<pc, stage, made, req, waiting_for, wait_queue, tracked,
                     serialising_in_flight, disk, buf>>
  BY DEF Leave, reqvars, bsvars, datavars
<1>2. /\ \A d : Woken(d)' <=> Woken(d)
      /\ current' = NoOne /\ ready' \in Seq(Coroutines) /\ Distinct(ready')
      /\ wakeup' \in [Coroutines -> Seq(Coroutines)]
      /\ \A x \in Coroutines : wakeup'[x] = <<>>
  BY <1>0, <1>1, YieldKeepsWoken
<1>3. Types'
  BY <1>0, <1>1, <1>2 DEF Types
<1>4. TrackedInv' /\ RequestInv' /\ Compatible'
  BY <1>0, <1>1 DEF TrackedInv, RequestInv, Compatible
<1>5. QueueInv'
  BY <1>0, <1>1, <1>2 DEF QueueInv
<1>6. WakeInv'
  <2>1. \A d : Woken(waiting_for[d])' <=> Woken(waiting_for[d])
    BY <1>1, <1>2 DEF Woken
  <2> QED
    BY <1>0, <1>1, <1>2, <2>1, HoldsNothing DEF WakeInv
<1>7. CountInv'
  BY <1>0, <1>1 DEF CountInv, Serialising
<1>8. ReadModifyWriteAtomic'
  BY <1>0, <1>1 DEF ReadModifyWriteAtomic, Carried, HeadRead, TailRead, ClusterRead, Done
<1> QED
  BY <1>3, <1>4, <1>5, <1>6, <1>7, <1>8 DEF IInv

(* wait_serialising_requests lets the request r of coroutine c go on: it   *)
(* gets along with all that go on.                                         *)
Starts(c, r) ==
    /\ pc' = [pc EXCEPT ![c] = "io"] /\ waiting_for' = [waiting_for EXCEPT ![c] = NoOne]
    /\ wait_queue' = wait_queue
    /\ \A d \in Coroutines \ {c} :
          pc[d] \in Goes /\ (req[d].serialising \/ r.serialising) =>
              ~tracked_request_overlaps(req[d], r)

(* It makes coroutine c wait for q, which goes on. *)
Waits(c, q) ==
    /\ pc' = [pc EXCEPT ![c] = "wait"] /\ waiting_for' = [waiting_for EXCEPT ![c] = q]
    /\ wait_queue' = [wait_queue EXCEPT ![q] = Append(@, c)]
    /\ q # c /\ pc[q] \in Goes

(* The requests that the search goes through: all, or none if there are    *)
(* no serialising ones.                                                    *)
Searched(c, r, list) ==
    /\ list \in Seq(Coroutines)
    /\ \/ \A d \in Coroutines : Holds(list, d) <=> pc[d] # "out" \/ d = c
       \/ list = <<>> /\ ~r.serialising /\ \A d \in Coroutines : ~req[d].serialising

(* The search of wait_serialising_requests. *)
LEMMA SearchOutcome ==
    ASSUME IInv, NEW c \in Coroutines, NEW r \in ReqType, NEW list, Searched(c, r, list),
           WaitOrGo(c, r, list)
    PROVE  Starts(c, r) \/ \E q \in Coroutines : Waits(c, q)
<1> DEFINE blockers == {k \in DOMAIN list : Blocks(list[k], c, r)}
<1>0. Types /\ QueueInv /\ RequestInv
  BY DEF IInv
<1>1. list \in Seq(Coroutines) /\ DOMAIN list = 1 .. Len(list) /\ Len(list) \in Nat
      /\ \A k \in 1 .. Len(list) : list[k] \in Coroutines
  <2>1. list \in Seq(Coroutines)
    BY DEF Searched
  <2> QED
    BY <2>1, LenProperties, ElementOfSeq
<1>2. CASE blockers = {}
  <2>1. /\ pc' = [pc EXCEPT ![c] = "io"] /\ waiting_for' = [waiting_for EXCEPT ![c] = NoOne]
        /\ wait_queue' = wait_queue
    BY <1>2 DEF WaitOrGo
  <2>2. ASSUME NEW d \in Coroutines \ {c}, pc[d] \in Goes, req[d].serialising \/ r.serialising
        PROVE  ~tracked_request_overlaps(req[d], r)
    <3>1. Holds(list, d)
      BY <2>2 DEF Searched, Goes
    <3>2. ~Blocks(d, c, r)
      BY <1>1, <1>2, <3>1 DEF Holds
    <3>3. waiting_for[d] = NoOne
      BY <1>0, <2>2 DEF QueueInv, Goes
    <3> QED
      BY <2>2, <3>2, <3>3 DEF Blocks
  <2> QED
    BY <2>1, <2>2 DEF Starts
<1>3. CASE blockers # {}
  <2> DEFINE q == list[First(blockers)]
  <2>1. First(blockers) \in blockers
    <3>1. blockers \in SUBSET Nat
      BY <1>1
    <3> QED
      BY <1>3, <3>1, FirstProperties
  <2>2. q \in Coroutines /\ Blocks(q, c, r)
    BY <1>1, <2>1
  <2>3. /\ pc' = [pc EXCEPT ![c] = "wait"] /\ waiting_for' = [waiting_for EXCEPT ![c] = q]
        /\ wait_queue' = [wait_queue EXCEPT ![q] = Append(@, c)]
    BY <1>3 DEF WaitOrGo
  <2> HIDE DEF q
  <2>4. q # c /\ waiting_for[q] = NoOne /\ tracked_request_overlaps(req[q], r)
    BY <2>2 DEF Blocks
  <2>5. pc[q] # "wait"
    BY <1>0, <2>2, <2>4 DEF QueueInv
  <2>6. pc[q] # "out"
    <3> SUFFICES ASSUME pc[q] = "out" PROVE FALSE
      OBVIOUS
    <3>1. req[q] = Idle
      BY <1>0, <2>2 DEF RequestInv
    <3> QED
      BY <2>4, <3>1 DEF tracked_request_overlaps, Idle, ReqType
  <2>7. pc[q] \in Goes
    BY <1>0, <2>2, <2>5, <2>6 DEF Types
  <2> QED
    BY <2>2, <2>3, <2>4, <2>7 DEF Waits
<1> QED
  BY <1>2, <1>3

(* A request at its first stage has been searched for; whoever entered its *)
(* coroutine goes on with the others that were woken.                      *)
Enters(c, r) ==
    /\ pc[c] = "out" \/ (pc[c] = "wait" /\ Woken(c))
    /\ r \in ReqType /\ \E s \in Shapes : r = Request(s)
    /\ req' = [req EXCEPT ![c] = r] /\ stage' = [stage EXCEPT ![c] = FirstStage(r)]
    /\ Starts(c, r) \/ \E q \in Coroutines : Waits(c, q)
    /\ tracked' \in Seq(Coroutines) /\ Distinct(tracked')
    /\ \A d \in Coroutines : Holds(tracked', d) <=> pc[d] # "out" \/ d = c
    /\ CountInv' /\ made' \in 0 .. MaxRequests /\ serialising_in_flight' \in Nat
    /\ current' = NoOne /\ ready' \in Seq(Coroutines) /\ Distinct(ready')
    /\ wakeup' \in [Coroutines -> Seq(Coroutines)] /\ \A x \in Coroutines : wakeup'[x] = <<>>
    /\ \A d : Woken(d)' <=> Woken(d) /\ d # c
    /\ UNCHANGED <<disk, buf>>

(* Such a step keeps the invariant. *)
LEMMA EntersKeeps ==
    ASSUME IInv, NEW c \in Coroutines, NEW r, Enters(c, r)
    PROVE  IInv'
<1>0. /\ Types /\ TrackedInv /\ RequestInv /\ Compatible /\ QueueInv /\ WakeInv
      /\ ReadModifyWriteAtomic
  BY DEF IInv
<1>1. /\ pc[c] \in {"out", "wait"} /\ pc[c] \notin Goes /\ r \in ReqType
      /\ \A q \in Coroutines : ~Holds(wait_queue[q], c)
      /\ \E s \in Shapes : r = Request(s)
  BY <1>0 DEF Enters, QueueInv, Goes
<1>2. /\ req'[c] = r /\ stage'[c] = FirstStage(r) /\ pc'[c] \in {"io", "wait"}
      /\ \A d \in Coroutines \ {c} : req'[d] = req[d] /\ stage'[d] = stage[d] /\ pc'[d] = pc[d]
                                     /\ waiting_for'[d] = waiting_for[d]
  BY <1>0 DEF Enters, Types, Starts, Waits
<1>3. r.kind \in {"read", "cor", "write"} /\ Fits(FirstStage(r), r)
  <2>1. r.kind \in {"read", "cor", "write"}
    BY <1>1, RequestFields
  <2> QED
    BY <2>1 DEF Fits, FirstStage, AfterHead, HasHead, HasTail
<1>4. Types'
  <2>1. pc' \in [Coroutines -> {"out", "wait"} \cup Goes]
    BY <1>0 DEF Enters, Types, Starts, Waits, Goes
  <2>2. stage' \in [Coroutines -> {"none", "head", "tail", "write", "read", "corread", "corwrite"}]
    BY <1>0, <1>3 DEF Enters, Types, Fits
  <2>3. req' \in [Coroutines -> ReqType]
    BY <1>0 DEF Enters, Types
  <2>4. waiting_for' \in [Coroutines -> Coroutines \cup {NoOne}]
    BY <1>0 DEF Enters, Types, Starts, Waits
  <2>5. wait_queue' \in [Coroutines -> Seq(Coroutines)]
    <3>1. \A q \in Coroutines : Append(wait_queue[q], c) \in Seq(Coroutines)
      BY <1>0, AppendDistinct DEF Types
    <3>2. wait_queue \in [Coroutines -> Seq(Coroutines)]
      BY <1>0 DEF Types
    <3>3. \A q \in Coroutines : Waits(c, q) => wait_queue' \in [Coroutines -> Seq(Coroutines)]
      BY <3>1, <3>2 DEF Waits
    <3>4. Starts(c, r) => wait_queue' = wait_queue
      BY DEF Starts
    <3> QED
      BY <3>2, <3>3, <3>4 DEF Enters
  <2> QED
    BY <1>0, <2>1, <2>2, <2>3, <2>4, <2>5 DEF Enters, Types
<1>5. TrackedInv'
  BY <1>0, <1>2 DEF Enters, TrackedInv
<1>6. RequestInv'
  <2> SUFFICES ASSUME NEW d \in Coroutines
               PROVE  /\ pc'[d] = "out" => stage'[d] = "none" /\ req'[d] = Idle
                      /\ pc'[d] # "out" => Fits(stage'[d], req'[d]) /\ \E s \in Shapes : req'[d] = Request(s)
                      /\ pc'[d] = "wait" => stage'[d] = FirstStage(req'[d])
    BY DEF RequestInv
  <2>1. CASE d = c
    BY <1>1, <1>2, <1>3, <2>1
  <2>2. CASE d # c
    BY <1>0, <1>2, <2>2 DEF RequestInv
  <2> QED
    BY <2>1, <2>2
<1>7. Compatible'
  <2> SUFFICES ASSUME NEW x \in Coroutines, NEW y \in Coroutines, x # y,
                      pc'[x] \in Goes, pc'[y] \in Goes, req'[x].serialising
               PROVE  ~tracked_request_overlaps(req'[x], req'[y])
    BY DEF Compatible
  <2>1. CASE x # c /\ y # c
    BY <1>0, <1>2, <2>1 DEF Compatible
  <2>2. CASE x = c \/ y = c
    <3>1. Starts(c, r)
      <4>1. pc'[c] \in Goes
        BY <2>2
      <4> QED
        BY <1>0, <4>1 DEF Enters, Waits, Types, Goes
    <3>2. \A d \in Coroutines \ {c} :
             pc[d] \in Goes /\ (req[d].serialising \/ r.serialising) =>
                ~tracked_request_overlaps(req[d], r)
      BY <3>1 DEF Starts
    <3>3. CASE x = c
      <4>1. ~tracked_request_overlaps(req[y], r)
        BY <1>2, <3>2, <3>3
      <4>2. ~tracked_request_overlaps(r, req[y])
        BY <4>1 DEF tracked_request_overlaps
      <4> QED
        BY <1>2, <3>3, <4>2
    <3>4. CASE y = c
      BY <1>2, <3>2, <3>4
    <3> QED
      BY <2>2, <3>3, <3>4
  <2> QED
    BY <2>1, <2>2
<1>8. ASSUME NEW q \in Coroutines, NEW d \in Coroutines
      PROVE  /\ Distinct(wait_queue'[q])
             /\ Holds(wait_queue'[q], d) <=> Holds(wait_queue[q], d) \/ (d = c /\ Waits(c, q))
  <2>0. wait_queue[q] \in Seq(Coroutines) /\ Distinct(wait_queue[q]) /\ wait_queue \in [Coroutines -> Seq(Coroutines)]
    BY <1>0 DEF Types, QueueInv
  <2>1. CASE Starts(c, r)
    <3>1. ~Waits(c, q)
      BY <1>0, <2>1 DEF Starts, Waits, Types
    <3> QED
      BY <2>0, <2>1, <3>1 DEF Starts
  <2>2. ASSUME NEW p \in Coroutines, Waits(c, p)
        PROVE  /\ Distinct(wait_queue'[q])
               /\ Holds(wait_queue'[q], d) <=> Holds(wait_queue[q], d) \/ (d = c /\ Waits(c, q))
    <3>1. Waits(c, q) <=> q = p
      <4>1. waiting_for'[c] = p
        BY <1>0, <2>2 DEF Waits, Types
      <4>2. Waits(c, q) => waiting_for'[c] = q
        BY <1>0 DEF Waits, Types
      <4> QED
        BY <2>2, <4>1, <4>2
    <3>2. wait_queue'[q] = IF q = p THEN Append(wait_queue[q], c) ELSE wait_queue[q]
      BY <2>0, <2>2 DEF Waits
    <3>3. /\ Distinct(Append(wait_queue[q], c))
          /\ \A y : Holds(Append(wait_queue[q], c), y) <=> Holds(wait_queue[q], y) \/ y = c
      BY <1>1, <2>0, AppendDistinct
    <3> QED
      BY <2>0, <3>1, <3>2, <3>3
  <2> QED
    BY <2>1, <2>2 DEF Enters
<1>9. QueueInv'
  <2>0. \A d : Woken(d)' <=> Woken(d) /\ d # c
    BY DEF Enters
  <2>1. \A q \in Coroutines : Distinct(wait_queue'[q])
    BY <1>8
  <2>2. ASSUME NEW q \in Coroutines, NEW d \in Coroutines, Holds(wait_queue'[q], d)
        PROVE  pc'[d] = "wait" /\ waiting_for'[d] = q /\ pc'[q] \in Goes /\ ~Woken(d)'
    <3>1. CASE Holds(wait_queue[q], d)
      <4>1. pc[d] = "wait" /\ waiting_for[d] = q /\ pc[q] \in Goes /\ ~Woken(d)
        BY <1>0, <3>1 DEF QueueInv
      <4>2. d # c /\ q # c
        BY <1>1, <3>1, <4>1
      <4> QED
        BY <1>2, <2>0, <4>1, <4>2
    <3>2. CASE d = c /\ Waits(c, q)
      <4>1. pc'[c] = "wait" /\ waiting_for'[c] = q /\ pc'[q] = pc[q] /\ pc[q] \in Goes
        BY <1>0, <1>2, <3>2 DEF Waits, Types
      <4> QED
        BY <2>0, <3>2, <4>1
    <3> QED
      BY <1>8, <2>2, <3>1, <3>2
  <2>3. ASSUME NEW d \in Coroutines
        PROVE  /\ waiting_for'[d] # NoOne <=> pc'[d] = "wait"
               /\ pc'[d] = "wait" => Woken(d)' \/ Holds(wait_queue'[waiting_for'[d]], d)
    <3>1. CASE d # c
      <4>1. /\ waiting_for[d] # NoOne <=> pc[d] = "wait"
            /\ pc[d] = "wait" => Woken(d) \/ Holds(wait_queue[waiting_for[d]], d)
        BY <1>0 DEF QueueInv
      <4>2. pc[d] = "wait" => waiting_for[d] \in Coroutines
        BY <1>0, <4>1 DEF Types
      <4> QED
        BY <1>2, <1>8, <2>0, <3>1, <4>1, <4>2
    <3>2. CASE d = c
      <4>1. CASE Starts(c, r)
        BY <1>0, <3>2, <4>1 DEF Starts, Types
      <4>2. ASSUME NEW q \in Coroutines, Waits(c, q)
            PROVE  /\ waiting_for'[c] # NoOne /\ pc'[c] = "wait"
                   /\ Holds(wait_queue'[waiting_for'[c]], c)
        <5>1. waiting_for'[c] = q /\ pc'[c] = "wait"
          BY <1>0, <4>2 DEF Waits, Types
        <5> QED
          BY <1>8, <4>2, <5>1, NoOneAssumption
      <4> QED
        BY <3>2, <4>1, <4>2 DEF Enters
    <3> QED
      BY <3>1, <3>2
  <2> QED
    BY <2>1, <2>2, <2>3 DEF QueueInv
<1>10. WakeInv'
  <2>0. /\ \A d : Woken(d)' <=> Woken(d) /\ d # c
        /\ current' = NoOne /\ Distinct(ready') /\ \A x \in Coroutines : wakeup'[x] = <<>>
    BY DEF Enters
  <2>1. \A d \in Coroutines : Woken(d)' => pc'[d] = "wait" /\ waiting_for'[d] = waiting_for[d]
    BY <1>0, <1>2, <2>0 DEF WakeInv
  <2>2. \A d \in Coroutines : Woken(d)' => ~Woken(waiting_for[d])'
    <3> SUFFICES ASSUME NEW d \in Coroutines, Woken(d)'
                 PROVE  ~(Woken(waiting_for[d])')
      OBVIOUS
    <3>1. Woken(d) /\ d # c /\ waiting_for'[d] = waiting_for[d] /\ ~Woken(waiting_for[d])
      BY <1>0, <2>0, <2>1 DEF WakeInv
    <3>2. \A y : y = waiting_for[d] => (Woken(y)' <=> Woken(y) /\ y # c)
      BY <2>0
    <3> QED
      BY <3>1, <3>2 DEF Woken
  <2>3. \A d, e \in Coroutines : Woken(d)' /\ Woken(e)' => waiting_for'[d] = waiting_for'[e]
    BY <1>0, <2>0, <2>1 DEF WakeInv
  <2> QED
    BY <2>0, <2>1, <2>2, <2>3, HoldsNothing DEF WakeInv
<1>11. ReadModifyWriteAtomic'
  <2>1. Carried(c)' = {}
    <3>1. ~HeadRead(c)' /\ ~TailRead(c)' /\ ~ClusterRead(c)'
      BY <1>2 DEF HeadRead, TailRead, ClusterRead, Done, FirstStage, AfterHead, HasHead, HasTail
    <3> QED
      BY <3>1 DEF Carried
  <2>2. pc[c] # "failed" /\ UNCHANGED <<disk, buf>>
    BY <1>1 DEF Enters
  <2> QED
    BY <1>2, <2>1, <2>2, CarriesNoMore
<1> QED
  BY <1>4, <1>5, <1>6, <1>7, <1>9, <1>10, <1>11 DEF IInv, Enters

(* No request serialises when the count is zero. *)
LEMMA NoneInFlight ==
    ASSUME CountInv, serialising_in_flight = 0, NEW d \in Coroutines
    PROVE  ~req[d].serialising
<1>1. Serialising = {}
  BY FS_EmptySet DEF CountInv
<1> QED
  BY <1>1 DEF Serialising

(* A coroutine makes a request. *)
LEMMA BeginKeeps ==
    ASSUME IInv, NEW c \in Coroutines, NEW s \in Shapes, Begin(c, s)
    PROVE  IInv'
<1> DEFINE b == Base(s)
           r == Request(s)
           n == serialising_in_flight + IF r.serialising /\ ~b.serialising THEN 1 ELSE 0
           list == <<c>> \o tracked
           searched == IF n = 0 THEN <<>> ELSE list
<1>0. /\ Types /\ TrackedInv /\ RequestInv /\ QueueInv /\ WakeInv /\ CountInv
  BY DEF IInv
<1>1. /\ pc[c] = "out" /\ made < MaxRequests /\ made' = made + 1
      /\ current = c \/ AtEventLoop
      /\ tracked' = list /\ UNCHANGED <<disk, buf>>
  BY DEF Begin, datavars
<1>2. EnterStage(c, b, FirstStage(b), list, ready)
  BY DEF Begin, Base
<1>3. /\ req' = [req EXCEPT ![c] = r] /\ stage' = [stage EXCEPT ![c] = FirstStage(b)]
      /\ serialising_in_flight' = n
      /\ WaitOrGo(c, r, searched) /\ Yield(c, ready)
  BY <1>2 DEF EnterStage, Request
<1>4. /\ r \in ReqType /\ r.kind = s.kind /\ r.offset = s.offset /\ r.bytes = s.bytes
      /\ r.serialising \in BOOLEAN
  BY RequestFields DEF ReqType
<1>5. b.serialising = FALSE /\ FirstStage(r) = FirstStage(b)
  <2>1. b.kind = s.kind /\ b.offset = s.offset /\ b.bytes = s.bytes /\ b.serialising = FALSE
    BY DEF Base
  <2> HIDE DEF b, r
  <2> QED
    BY <1>4, <2>1 DEF FirstStage, AfterHead, HasHead, HasTail
<1> HIDE DEF b, r
<1>6. n = serialising_in_flight + IF r.serialising THEN 1 ELSE 0
  BY <1>5
<1>7. ~Holds(tracked, c) /\ Distinct(tracked) /\ tracked \in Seq(Coroutines)
  BY <1>0, <1>1 DEF TrackedInv, Types
<1>8. /\ list \in Seq(Coroutines) /\ Distinct(list)
      /\ \A d \in Coroutines : Holds(list, d) <=> pc[d] # "out" \/ d = c
  <2>1. /\ list \in Seq(Coroutines) /\ Distinct(list)
        /\ \A y : Holds(list, y) <=> Holds(tracked, y) \/ y = c
    BY <1>7, ConsDistinct
  <2> HIDE DEF list
  <2> QED
    BY <1>0, <2>1 DEF TrackedInv
<1>9. Searched(c, r, searched)
  <2>1. CASE n = 0
    <3>1. serialising_in_flight = 0 /\ ~r.serialising
      BY <1>0, <1>4, <1>6, <2>1 DEF Types
    <3> QED
      BY <1>0, <2>1, <3>1, NoneInFlight, EmptySeq DEF Searched
  <2>2. CASE n # 0
    BY <1>8, <2>2 DEF Searched
  <2> QED
    BY <2>1, <2>2
<1> HIDE DEF n, list, searched
<1>10. Starts(c, r) \/ \E q \in Coroutines : Waits(c, q)
  BY <1>3, <1>4, <1>9, SearchOutcome
<1>11. /\ \A d : Woken(d)' <=> Woken(d)
       /\ current' = NoOne /\ ready' \in Seq(Coroutines) /\ Distinct(ready')
       /\ wakeup' \in [Coroutines -> Seq(Coroutines)]
       /\ \A x \in Coroutines : wakeup'[x] = <<>>
  BY <1>0, <1>1, <1>3, YieldKeepsWoken
<1>12. ~Woken(c)
  BY <1>0, <1>1 DEF WakeInv
<1>13. CountInv' /\ serialising_in_flight' \in Nat
  <2>1. c \notin Serialising
    BY <1>0, <1>1, SerialIsShape DEF Serialising
  <2>2. Serialising' = IF r.serialising THEN Serialising \cup {c} ELSE Serialising
    <3>1. \A d \in Coroutines : req'[d] = IF d = c THEN r ELSE req[d]
      BY <1>0, <1>3 DEF Types
    <3> QED
      BY <2>1, <3>1 DEF Serialising
  <2>3. IsFiniteSet(Serialising) /\ serialising_in_flight = Cardinality(Serialising)
        /\ serialising_in_flight \in Nat
    BY <1>0 DEF CountInv, Types
  <2>4. IsFiniteSet(Serialising \cup {c}) /\ Cardinality(Serialising \cup {c}) = Cardinality(Serialising) + 1
    BY <2>1, <2>3, FS_AddElement
  <2>5. CASE r.serialising
    BY <1>3, <1>6, <2>2, <2>3, <2>4, <2>5 DEF CountInv
  <2>6. CASE ~r.serialising
    BY <1>3, <1>6, <2>2, <2>3, <2>6 DEF CountInv
  <2> QED
    BY <2>5, <2>6
<1>14. made' \in 0 .. MaxRequests
  BY <1>0, <1>1, Sizes DEF Types
<1>15. Enters(c, r)
  BY <1>1, <1>3, <1>4, <1>5, <1>8, <1>10, <1>11, <1>12, <1>13, <1>14 DEF Enters, r
<1> QED
  BY <1>15, EntersKeeps

(* A coroutine that was woken looks again for requests to wait for. *)
LEMMA ResumeKeeps ==
    ASSUME IInv, NEW c \in Coroutines, Resume(c)
    PROVE  IInv'
<1> DEFINE rest == Tail(ready)
<1>0. /\ Types /\ TrackedInv /\ RequestInv /\ QueueInv /\ WakeInv /\ CountInv
  BY DEF IInv
<1>1. /\ current = NoOne /\ ready # <<>> /\ c = Head(ready)
      /\ WaitOrGo(c, req[c], tracked) /\ Yield(c, rest)
      /\ UNCHANGED <<stage, made, req, tracked, serialising_in_flight, disk, buf>>
  BY DEF Resume, bsvars, datavars
<1>2. ready \in Seq(Coroutines) /\ Distinct(ready)
  BY <1>0 DEF Types, WakeInv
<1>3. rest = RemovedAt(ready, 1) /\ 1 \in 1 .. Len(ready) /\ c = ready[1]
  BY <1>1, <1>2, TailIsRemoved
<1>4. /\ rest \in Seq(Coroutines) /\ Distinct(rest)
      /\ \A y : Holds(rest, y) <=> Holds(ready, y) /\ y # c
  <2> HIDE DEF rest
  <2>1. /\ RemovedAt(ready, 1) \in Seq(Coroutines) /\ Distinct(RemovedAt(ready, 1))
        /\ \A y : Holds(RemovedAt(ready, 1), y) <=> Holds(ready, y) /\ y # ready[1]
    BY <1>2, <1>3, RemovedAtDistinct
  <2> QED
    BY <1>3, <2>1
<1>5. Holds(ready, c)
  BY <1>3 DEF Holds
<1>6. Woken(c) /\ pc[c] = "wait"
  BY <1>0, <1>5 DEF Woken, WakeInv
<1>7. stage[c] = FirstStage(req[c]) /\ req[c] \in ReqType /\ \E s \in Shapes : req[c] = Request(s)
  BY <1>0, <1>6 DEF RequestInv, Types
<1>8. \A d \in Coroutines : Holds(tracked, d) <=> pc[d] # "out" \/ d = c
  BY <1>0, <1>6 DEF TrackedInv
<1>9. Searched(c, req[c], tracked)
  BY <1>0, <1>8 DEF Searched, Types
<1>10. Starts(c, req[c]) \/ \E q \in Coroutines : Waits(c, q)
  BY <1>1, <1>7, <1>9, SearchOutcome
<1>11. \A x \in Coroutines : wakeup[x] = <<>>
  BY <1>0, <1>1, NoOneAssumption DEF WakeInv
<1> HIDE DEF rest
<1>12. ready' = rest /\ current' = NoOne /\ wakeup' = wakeup
  <2>1. ready' = wakeup[c] \o rest /\ current' = NoOne /\ wakeup' = [wakeup EXCEPT ![c] = <<>>]
    BY <1>1 DEF Yield
  <2>2. <<>> \o rest = rest
    BY <1>4, ConcatEmptySeq
  <2> QED
    BY <1>0, <1>11, <2>1, <2>2 DEF Types
<1>13. \A d : Woken(d)' <=> Woken(d) /\ d # c
  <2> SUFFICES ASSUME NEW d PROVE Woken(d)' <=> Woken(d) /\ d # c
    OBVIOUS
  <2>1. Woken(d) <=> Holds(ready, d)
    BY <1>11, HoldsNothing DEF Woken
  <2>2. Woken(d)' <=> Holds(ready', d)
    BY <1>11, <1>12, HoldsNothing DEF Woken
  <2> QED
    BY <1>4, <1>12, <2>1, <2>2
<1>14. CountInv'
  BY <1>0, <1>1 DEF CountInv, Serialising
<1>15. req' = [req EXCEPT ![c] = req[c]] /\ stage' = [stage EXCEPT ![c] = FirstStage(req[c])]
  BY <1>0, <1>1, <1>7 DEF Types
<1>16. /\ tracked' \in Seq(Coroutines) /\ Distinct(tracked') /\ tracked' = tracked
       /\ made' \in 0 .. MaxRequests /\ serialising_in_flight' \in Nat
       /\ wakeup' \in [Coroutines -> Seq(Coroutines)] /\ \A x \in Coroutines : wakeup'[x] = <<>>
  BY <1>0, <1>1, <1>11, <1>12 DEF Types, TrackedInv
<1>17. Enters(c, req[c])
  BY <1>1, <1>4, <1>6, <1>7, <1>8, <1>10, <1>12, <1>13, <1>14, <1>15, <1>16 DEF Enters
<1> QED
  BY <1>17, EntersKeeps

(* A request ends, which wakes all that wait for it. *)
LEMMA EndKeeps ==
    ASSUME IInv, NEW c \in Coroutines, End(c)
    PROVE  IInv'
<1>0. /\ Types /\ TrackedInv /\ RequestInv /\ Compatible /\ QueueInv /\ WakeInv /\ CountInv
      /\ ReadModifyWriteAtomic
  BY DEF IInv
<1>1. /\ pc[c] \in Goes /\ AtEventLoop /\ current = NoOne /\ ready = <<>>
      /\ serialising_in_flight' = InFlightAfter(req[c])
      /\ tracked' = Removed(tracked, c)
      /\ wakeup' = [wakeup EXCEPT ![c] = wakeup[c] \o wait_queue[c]]
      /\ wait_queue' = [wait_queue EXCEPT ![c] = <<>>]
      /\ req' = [req EXCEPT ![c] = Idle]
      /\ pc' = [pc EXCEPT ![c] = "out"]
      /\ stage' = [stage EXCEPT ![c] = "none"]
      /\ buf' = [buf EXCEPT ![c] = [i \in Cell |-> NoOne]]
      /\ current' = c
      /\ UNCHANGED <<ready, made, waiting_for, disk>>
  BY DEF End, Goes, AtEventLoop, restart_all
<1>2. (\A x \in Coroutines : wakeup[x] = <<>>) /\ \A d : ~Woken(d)
  BY <1>0, <1>1, NobodyWoken
<1>3. /\ pc'[c] = "out" /\ stage'[c] = "none" /\ req'[c] = Idle /\ wait_queue'[c] = <<>>
      /\ \A d \in Coroutines \ {c} : /\ pc'[d] = pc[d] /\ stage'[d] = stage[d] /\ req'[d] = req[d]
                                     /\ wait_queue'[d] = wait_queue[d] /\ buf'[d] = buf[d]
  BY <1>0, <1>1 DEF Types
<1>4. wait_queue[c] \in Seq(Coroutines) /\ Distinct(wait_queue[c])
  BY <1>0 DEF Types, QueueInv
<1>5. wakeup'[c] = wait_queue[c] /\ \A x \in Coroutines \ {c} : wakeup'[x] = <<>>
  <2>1. <<>> \o wait_queue[c] = wait_queue[c]
    BY <1>4, ConcatEmptySeq
  <2> QED
    BY <1>0, <1>1, <1>2, <2>1 DEF Types
<1>6. ASSUME NEW d PROVE Woken(d)' <=> Holds(wait_queue[c], d)
  BY <1>1, <1>5, HoldsNothing DEF Woken
<1>7. /\ tracked' \in Seq(Coroutines) /\ Distinct(tracked')
      /\ \A y : Holds(tracked', y) <=> Holds(tracked, y) /\ y # c
  BY <1>0, <1>1, RemovedDistinct DEF Types, TrackedInv
<1>8. CountInv' /\ serialising_in_flight' \in Nat
  <2>1. Serialising' = Serialising \ {c}
    <3>1. ~Idle.serialising
      BY DEF Idle
    <3> QED
      BY <1>3, <3>1 DEF Serialising
  <2>2. IsFiniteSet(Serialising) /\ serialising_in_flight = Cardinality(Serialising)
        /\ serialising_in_flight \in Nat
    BY <1>0 DEF CountInv, Types
  <2>3. /\ IsFiniteSet(Serialising \ {c})
        /\ Cardinality(Serialising \ {c}) =
              IF c \in Serialising THEN Cardinality(Serialising) - 1 ELSE Cardinality(Serialising)
    BY <2>2, FS_RemoveElement
  <2>4. Cardinality(Serialising \ {c}) \in Nat
    BY <2>3, FS_CardinalityType
  <2>5. c \in Serialising <=> req[c].serialising
    BY DEF Serialising
  <2> QED
    BY <1>1, <2>1, <2>2, <2>3, <2>4, <2>5 DEF CountInv, InFlightAfter
<1>9. Types'
  <2>1. pc' \in [Coroutines -> {"out", "wait"} \cup Goes]
    BY <1>0, <1>1 DEF Types
  <2>2. stage' \in [Coroutines -> {"none", "head", "tail", "write", "read", "corread", "corwrite"}]
    BY <1>0, <1>1 DEF Types
  <2>3. req' \in [Coroutines -> ReqType]
    <3>1. Idle \in ReqType
      BY DEF Idle, ReqType
    <3> QED
      BY <1>0, <1>1, <3>1 DEF Types
  <2>4. wakeup' \in [Coroutines -> Seq(Coroutines)] /\ wait_queue' \in [Coroutines -> Seq(Coroutines)]
    <3>1. <<>> \in Seq(Coroutines) /\ wakeup[c] \o wait_queue[c] \in Seq(Coroutines)
      BY <1>0, <1>2, <1>4, EmptySeq, ConcatEmptySeq
    <3> QED
      BY <1>0, <1>1, <3>1 DEF Types
  <2>5. buf' \in [Coroutines -> [Cell -> Coroutines \cup {NoOne}]]
    <3>1. [i \in Cell |-> NoOne] \in [Cell -> Coroutines \cup {NoOne}]
      OBVIOUS
    <3> QED
      BY <1>0, <1>1, <3>1 DEF Types
  <2> QED
    BY <1>0, <1>1, <1>7, <1>8, <2>1, <2>2, <2>3, <2>4, <2>5 DEF Types
<1>10. TrackedInv'
  BY <1>0, <1>3, <1>7 DEF TrackedInv
<1>11. RequestInv'
  <2> SUFFICES ASSUME NEW d \in Coroutines
               PROVE  /\ pc'[d] = "out" => stage'[d] = "none" /\ req'[d] = Idle
                      /\ pc'[d] # "out" => Fits(stage'[d], req'[d]) /\ \E s \in Shapes : req'[d] = Request(s)
                      /\ pc'[d] = "wait" => stage'[d] = FirstStage(req'[d])
    BY DEF RequestInv
  <2>1. CASE d = c
    BY <1>3, <2>1
  <2>2. CASE d # c
    BY <1>0, <1>3, <2>2 DEF RequestInv
  <2> QED
    BY <2>1, <2>2
<1>12. Compatible'
  BY <1>0, <1>3 DEF Compatible, Goes
<1>13. QueueInv'
  <2>1. \A q \in Coroutines : Distinct(wait_queue'[q])
    BY <1>0, <1>3, HoldsNothing DEF QueueInv
  <2>2. ASSUME NEW q \in Coroutines, NEW d \in Coroutines, Holds(wait_queue'[q], d)
        PROVE  pc'[d] = "wait" /\ waiting_for'[d] = q /\ pc'[q] \in Goes /\ ~Woken(d)'
    <3>1. q # c /\ Holds(wait_queue[q], d)
      BY <1>3, <2>2, HoldsNothing
    <3>2. pc[d] = "wait" /\ waiting_for[d] = q /\ pc[q] \in Goes
      BY <1>0, <3>1 DEF QueueInv
    <3>3. d # c /\ ~Holds(wait_queue[c], d)
      BY <1>0, <1>1, <3>1, <3>2 DEF QueueInv, Goes
    <3> QED
      BY <1>1, <1>3, <1>6, <3>1, <3>2, <3>3
  <2>3. ASSUME NEW d \in Coroutines
        PROVE  /\ waiting_for'[d] # NoOne <=> pc'[d] = "wait"
               /\ pc'[d] = "wait" => Woken(d)' \/ Holds(wait_queue'[waiting_for'[d]], d)
    <3>0. /\ waiting_for[d] # NoOne <=> pc[d] = "wait"
          /\ pc[d] = "wait" => Holds(wait_queue[waiting_for[d]], d)
      BY <1>0, <1>2 DEF QueueInv
    <3>1. CASE d = c
      BY <1>1, <1>3, <3>0, <3>1 DEF Goes
    <3>2. CASE d # c
      <4>1. pc[d] = "wait" => waiting_for[d] \in Coroutines
        BY <1>0, <3>0 DEF Types
      <4>2. pc'[d] = pc[d] /\ waiting_for'[d] = waiting_for[d]
        BY <1>1, <1>3, <3>2
      <4>3. pc[d] = "wait" /\ waiting_for[d] # c => Holds(wait_queue'[waiting_for[d]], d)
        BY <1>3, <3>0, <4>1
      <4>4. pc[d] = "wait" /\ waiting_for[d] = c => Woken(d)'
        BY <1>6, <3>0
      <4> QED
        BY <3>0, <4>2, <4>3, <4>4
    <3> QED
      BY <3>1, <3>2
  <2> QED
    BY <2>1, <2>2, <2>3 DEF QueueInv
<1>14. WakeInv'
  <2>1. \A d \in Coroutines : Woken(d)' => pc'[d] = "wait" /\ waiting_for'[d] = c
    <3> SUFFICES ASSUME NEW d \in Coroutines, Woken(d)'
                 PROVE  pc'[d] = "wait" /\ waiting_for'[d] = c
      OBVIOUS
    <3>1. pc[d] = "wait" /\ waiting_for[d] = c
      BY <1>0, <1>6 DEF QueueInv
    <3>2. d # c
      BY <1>1, <3>1 DEF Goes
    <3> QED
      BY <1>1, <1>3, <3>1, <3>2
  <2>2. ~Woken(c)'
    BY <1>3, <2>1
  <2>3. \A d \in Coroutines : Woken(d)' => ~Woken(waiting_for[d])'
    BY <2>1, <2>2 DEF Woken
  <2>4. current' # NoOne => ready' = <<>> /\ pc'[current'] = "out"
    BY <1>1, <1>3
  <2>5. \A x \in Coroutines : wakeup'[x] # <<>> => current' = x
    BY <1>1, <1>5
  <2>6. Distinct(ready') /\ \A x \in Coroutines : Distinct(wakeup'[x])
    BY <1>1, <1>4, <1>5, HoldsNothing
  <2> QED
    BY <2>1, <2>3, <2>4, <2>5, <2>6 DEF WakeInv
<1>15. ReadModifyWriteAtomic'
  <2> SUFFICES ASSUME NEW d \in Coroutines, pc'[d] # "failed", NEW i \in Carried(d)'
               PROVE  buf'[d][i] = disk'[i]
    BY DEF ReadModifyWriteAtomic
  <2>1. CASE d = c
    <3>1. ~HeadRead(c)' /\ ~TailRead(c)' /\ ~ClusterRead(c)'
      BY <1>3 DEF HeadRead, TailRead, ClusterRead, Done
    <3> QED
      BY <2>1, <3>1 DEF Carried
  <2>2. CASE d # c
    <3>1. Carried(d)' = Carried(d)
      BY <1>3, <2>2, CarriedLocal
    <3> QED
      BY <1>0, <1>1, <1>3, <2>2, <3>1 DEF ReadModifyWriteAtomic
  <2> QED
    BY <2>1, <2>2
<1> QED
  BY <1>8, <1>9, <1>10, <1>11, <1>12, <1>13, <1>14, <1>15 DEF IInv

-----------------------------------------------------------------------------
(* The theorems *)

(* Every step keeps the invariant. *)
LEMMA NextIInv == IInv /\ [Next]_vars => IInv'
<1> SUFFICES ASSUME IInv, [Next]_vars PROVE IInv'
  OBVIOUS
<1>1. ASSUME NEW c \in Coroutines, Step(c) PROVE IInv'
  BY <1>1, DiskIoKeeps, IoFailsKeeps, StageDoneKeeps, CopyOnReadKeeps, EndKeeps, ResumeKeeps,
     LeaveKeeps DEF Step
<1>2. ASSUME NEW c \in Coroutines, NEW s \in Shapes, Begin(c, s) PROVE IInv'
  BY <1>2, BeginKeeps
<1>3. CASE UNCHANGED vars
  BY <1>3 DEF vars, covars, reqvars, bsvars, datavars, IInv, Types, TrackedInv, RequestInv,
              Compatible, QueueInv, WakeInv, Woken, CountInv, Serialising, ReadModifyWriteAtomic,
              Carried, HeadRead, TailRead, ClusterRead, Done
<1> QED
  BY <1>1, <1>2, <1>3 DEF Next

(* IInv is an invariant: requests that go on are compatible, who waits is  *)
(* queued or woken, and the count is right (block.c).                      *)
THEOREM Invariance == Spec => []IInv
<1>1. Init => IInv
  BY InitIInv
<1>2. IInv /\ [Next]_vars => IInv'
  BY NextIInv
<1> QED
  BY <1>1, <1>2, PTL DEF Spec

(* Every variable keeps its type; serialising_in_flight, an unsigned       *)
(* number, is never decremented below zero by tracked_request_end.         *)
THEOREM TypeCorrect == Spec => []TypeOK
<1>1. IInv => TypeOK
  <2> SUFFICES ASSUME Types PROVE TypeOK
    BY DEF IInv
  <2>1. \A c \in Coroutines : req[c] \in ReqType
    BY DEF Types
  <2>2. \A c \in Coroutines :
          /\ req[c].kind \in {"none", "read", "cor", "write"} /\ req[c].serialising \in BOOLEAN
          /\ {req[c].offset, req[c].bytes, req[c].overlap_offset, req[c].overlap_bytes} \subseteq Nat
    BY <2>1 DEF ReqType
  <2>3. pc \in [Coroutines -> {"out", "wait", "io", "iodone", "failed"}]
    BY DEF Types, Goes
  <2> QED
    BY <2>2, <2>3 DEF Types, TypeOK
<1> QED
  BY <1>1, Invariance, PTL

(* The read-modify-write cycle of bdrv_co_do_pwritev and the copy of a     *)
(* cluster in bdrv_co_do_copy_on_readv are atomic: what is written back is *)
(* what the disk still holds, for every alignment, cluster size and number *)
(* of requests.                                                            *)
THEOREM RmwIsAtomic == Spec => []ReadModifyWriteAtomic
<1>1. IInv => ReadModifyWriteAtomic
  BY DEF IInv
<1> QED
  BY <1>1, Invariance, PTL

(* The assertions of bdrv_co_do_pwritev and bdrv_aligned_pwritev on the    *)
(* result of wait_serialising_requests never fail: after its first stage a *)
(* request does not wait.                                                  *)
THEOREM RmwDoesNotWait == Spec => []RmwNeverWaits
<1>1. IInv => RmwNeverWaits
  <2> SUFFICES ASSUME IInv, NEW c \in Coroutines, pc[c] = "wait"
               PROVE  /\ stage[c] = "tail" => ~HasHead(req[c])
                      /\ stage[c] = "write" => ~req[c].serialising
    BY DEF RmwNeverWaits
  <2>1. stage[c] = FirstStage(req[c]) /\ RequestInv
    BY DEF IInv, RequestInv
  <2>2. req[c].serialising = Serial(req[c])
    BY <2>1, SerialIsShape
  <2>3. stage[c] = "tail" => ~HasHead(req[c])
    BY <2>1 DEF FirstStage, AfterHead, HasHead
  <2>4. stage[c] = "write" => ~Serial(req[c])
    BY <2>1 DEF FirstStage, AfterHead, HasHead, HasTail, Serial
  <2> QED
    BY <2>2, <2>3, <2>4
<1> QED
  BY <1>1, Invariance, PTL

(* wait_serialising_requests never closes a ring of waiting requests: one  *)
(* that was not woken waits for a request that goes on, and one that was   *)
(* woken for a coroutine that was not.                                     *)
THEOREM WaitsAreAcyclic == Spec => []NoWaitCycle
<1>1. IInv => NoWaitCycle
  <2> SUFFICES ASSUME IInv, NEW S \in SUBSET Coroutines, S # {},
                      \A c \in S : pc[c] = "wait" /\ waiting_for[c] \in S
               PROVE  FALSE
    BY DEF NoWaitCycle
  <2>0. QueueInv /\ WakeInv
    BY DEF IInv
  <2>1. ASSUME NEW c \in S PROVE Woken(c)
    <3>1. pc[c] = "wait" /\ waiting_for[c] \in Coroutines /\ pc[waiting_for[c]] = "wait"
      OBVIOUS
    <3>2. ~Holds(wait_queue[waiting_for[c]], c)
      BY <2>0, <3>1 DEF QueueInv, Goes
    <3> QED
      BY <2>0, <3>1, <3>2 DEF QueueInv
  <2>2. PICK c \in S : TRUE
    OBVIOUS
  <2>3. ~Woken(waiting_for[c])
    BY <2>0, <2>1, <2>2 DEF WakeInv
  <2> QED
    BY <2>1, <2>2, <2>3
<1> QED
  BY <1>1, Invariance, PTL

(* serialising_in_flight is the number of serialising requests of the      *)
(* list, so wait_serialising_requests may skip the search when it is zero; *)
(* tracked_request_end leaves nobody in the queue of a request that ends.  *)
THEOREM InFlightIsCount == Spec => []InFlightCounts
<1>1. IInv => InFlightCounts
  <2> SUFFICES ASSUME IInv PROVE InFlightCounts
    OBVIOUS
  <2>0. Types /\ TrackedInv /\ RequestInv /\ QueueInv /\ CountInv
    BY DEF IInv
  <2>1. ASSUME NEW c \in Coroutines, pc[c] # "out" PROVE \E k \in DOMAIN tracked : tracked[k] = c
    <3>1. Holds(tracked, c) /\ DOMAIN tracked = 1 .. Len(tracked)
      BY <2>0, <2>1, LenProperties DEF TrackedInv, Types
    <3> QED
      BY <3>1 DEF Holds
  <2>2. \A c \in Coroutines : req[c].serialising => pc[c] # "out"
    BY <2>0, SerialIsShape
  <2>3. {c \in Coroutines : req[c].serialising /\ \E k \in DOMAIN tracked : tracked[k] = c} = Serialising
    BY <2>1, <2>2 DEF Serialising
  <2>4. ASSUME NEW c \in Coroutines, wait_queue[c] # <<>>
        PROVE  \E k \in DOMAIN tracked : tracked[k] = c
    <3>1. wait_queue[c] \in Seq(Coroutines) /\ Len(wait_queue[c]) # 0
      BY <2>0, <2>4, EmptySeq DEF Types
    <3>2. 1 \in 1 .. Len(wait_queue[c]) /\ wait_queue[c][1] \in Coroutines
      BY <3>1, LenProperties, ElementOfSeq
    <3>3. Holds(wait_queue[c], wait_queue[c][1])
      BY <3>2 DEF Holds
    <3>4. pc[c] \in Goes
      BY <2>0, <3>2, <3>3 DEF QueueInv
    <3> QED
      BY <2>1, <3>4 DEF Goes
  <2> QED
    BY <2>0, <2>3, <2>4 DEF InFlightCounts, CountInv
<1> QED
  BY <1>1, Invariance, PTL
=============================================================================
