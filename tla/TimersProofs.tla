---------------------------- MODULE TimersProofs ----------------------------
(***************************************************************************)
(* The timer lists stay sorted and the main loop never sleeps past a       *)
(* timer, for any number of timers and any times.                          *)
(***************************************************************************)
EXTENDS Timers, LinkedListProofs

-----------------------------------------------------------------------------
(* The inductive invariant *)

(* s lists the timers of list l that are armed, in the order of ex. *)
IsList(s, l, ex) ==
    /\ s \in Seq(TimerSet)
    /\ \A k \in 1 .. Len(s) : Home(s[k]) = l /\ ex[s[k]] # -1
    /\ \A t \in TimerSet : Home(t) = l /\ ex[t] # -1 => \E k \in 1 .. Len(s) : s[k] = t
    /\ \A j, k \in 1 .. Len(s) : j < k => s[j] # s[k] /\ ex[s[j]] <= ex[s[k]]

ListsInv ==
    /\ active \in [Lists -> Seq(TimerSet)]
    /\ \A l \in Lists : IsList(active[l], l, expire)

Expiries == [TimerSet -> -1 .. MaxTime]

RunType == [list : Lists \cup {"none"}, by : {"main", "cpu"}, time : 0 .. MaxTime, cb : BOOLEAN]

Scalars ==
    /\ now \in 0 .. MaxTime /\ wake_at \in 0 .. Never
    /\ enabled \in BOOLEAN /\ notified \in BOOLEAN /\ missed \in BOOLEAN
    /\ request \subseteq 1 .. NStages /\ stage \in 1 .. NStages
    /\ done \in [Lists -> {"set", "free", "busy"}]
    /\ run \in RunType
    /\ mpc \in {"prepare", "sleep", "check", "main", "requests", "disabling", "pausing"}

(* The sleeping main loop wakes up before any timer expires. *)
Covered ==
    mpc = "sleep" /\ enabled /\ ~missed =>
        notified \/ \A t \in TimerSet : expire[t] # -1 => wake_at <= expire[t]

IInv == Scalars /\ expire \in Expiries /\ ListsInv /\ Covered

-----------------------------------------------------------------------------
(* Sorted lists *)

(* Taking a timer out, as timer_del_locked does, disarms it. *)
LEMMA WithoutList ==
    ASSUME NEW l \in Lists, NEW ex \in Expiries, NEW s, IsList(s, l, ex),
           NEW t \in TimerSet, Home(t) = l
    PROVE  IsList(Removed(s, t), l, [ex EXCEPT ![t] = -1])
<1> DEFINE w == Removed(s, t)
           e0 == [ex EXCEPT ![t] = -1]
<1>0. s \in Seq(TimerSet) /\ Len(s) \in Nat
  BY LenProperties DEF IsList
<1>1. e0[t] = -1 /\ \A u \in TimerSet \ {t} : e0[u] = ex[u]
  BY DEF Expiries
<1>2. \A k \in 1 .. Len(s) : s[k] \in TimerSet
  BY <1>0, ElementOfSeq
<1>3. CASE w = s /\ \A i \in 1 .. Len(s) : s[i] # t
  BY <1>0, <1>1, <1>2, <1>3 DEF IsList
<1>4. ASSUME NEW i \in 1 .. Len(s), s[i] = t, w = RemovedAt(s, i)
      PROVE  IsList(w, l, e0)
  <2> DEFINE from(k) == IF k < i THEN k ELSE k + 1
  <2>1. /\ w \in Seq(TimerSet) /\ Len(w) = Len(s) - 1
        /\ \A k \in 1 .. Len(s) - 1 : w[k] = IF k < i THEN s[k] ELSE s[k + 1]
    BY <1>0, <1>4, RemovedProperties
  <2> HIDE DEF w, e0
  <2>2. \A k \in 1 .. Len(w) : from(k) \in 1 .. Len(s) /\ from(k) # i /\ w[k] = s[from(k)]
    BY <1>0, <2>1
  <2>3. \A j, k \in 1 .. Len(w) : j < k => from(j) < from(k)
    BY <1>0, <2>1
  <2>4. \A k \in 1 .. Len(s) : k # i => s[k] # t
    BY <1>4 DEF IsList
  <2>5. \A k \in 1 .. Len(w) : w[k] # t /\ w[k] \in TimerSet /\ e0[w[k]] = ex[s[from(k)]]
    BY <1>1, <1>2, <2>2, <2>4
  <2>6. ASSUME NEW k \in 1 .. Len(w) PROVE Home(w[k]) = l /\ e0[w[k]] # -1
    <3>1. PICK n \in 1 .. Len(s) : w[k] = s[n] /\ e0[w[k]] = ex[s[n]]
      BY <2>2, <2>5
    <3> QED
      BY <3>1 DEF IsList
  <2>7. ASSUME NEW u \in TimerSet, Home(u) = l, e0[u] # -1
        PROVE  \E k \in 1 .. Len(w) : w[k] = u
    <3>1. u # t
      BY <1>1, <2>7
    <3>2. PICK n \in 1 .. Len(s) : s[n] = u
      BY <1>1, <2>7, <3>1 DEF IsList
    <3>3. CASE n < i
      BY <1>0, <2>1, <3>2, <3>3
    <3>4. CASE n > i
      <4>1. n - 1 \in 1 .. Len(s) - 1 /\ ~(n - 1 < i) /\ n - 1 + 1 = n
        BY <1>0, <3>4
      <4> QED
        BY <2>1, <3>2, <4>1
    <3> QED
      BY <1>4, <3>1, <3>2, <3>3, <3>4
  <2>8. ASSUME NEW j \in 1 .. Len(w), NEW k \in 1 .. Len(w), j < k
        PROVE  w[j] # w[k] /\ e0[w[j]] <= e0[w[k]]
    BY <2>2, <2>3, <2>5, <2>8 DEF IsList
  <2> QED
    BY <2>1, <2>6, <2>7, <2>8 DEF IsList
<1> QED
  BY <1>0, <1>3, <1>4, RemovedCases

(* The list that timer_mod_ns_locked makes: t after the first k timers. *)
Inserted(s, k, t) == SubSeq(s, 1, k) \o <<t>> \o SubSeq(s, k + 1, Len(s))

(* new is s with t between its first k elements and the others. *)
Splices(new, s, k, t) ==
    /\ Len(new) = Len(s) + 1
    /\ \A j \in 1 .. Len(s) + 1 :
          new[j] = IF j <= k THEN s[j] ELSE IF j = k + 1 THEN t ELSE s[j - 1]

(* The elements of that list. *)
LEMMA InsertedProperties ==
    ASSUME NEW S, NEW s \in Seq(S), NEW t \in S, NEW k \in 0 .. Len(s)
    PROVE  Inserted(s, k, t) \in Seq(S) /\ Splices(Inserted(s, k, t), s, k, t)
<1> DEFINE a == SubSeq(s, 1, k)
           b == SubSeq(s, k + 1, Len(s))
           c == a \o <<t>>
<1>0. Len(s) \in Nat
  BY LenProperties
<1>1. a \in Seq(S) /\ Len(a) = k /\ \A j \in 1 .. k : a[j] = s[j]
  BY <1>0, SubSeqProperties
<1>2. b \in Seq(S) /\ Len(b) = Len(s) - k /\ \A j \in 1 .. Len(s) - k : b[j] = s[k + j]
  BY <1>0, SubSeqProperties
<1>3. <<t>> \in Seq(S) /\ Len(<<t>>) = 1 /\ <<t>>[1] = t
  OBVIOUS
<1> HIDE DEF a, b
<1>4. /\ c \in Seq(S) /\ Len(c) = k + 1
      /\ \A j \in 1 .. k + 1 : c[j] = IF j <= k THEN a[j] ELSE <<t>>[j - k]
  BY <1>1, <1>3, ConcatProperties
<1>5. c[k + 1] = t /\ \A j \in 1 .. k : c[j] = s[j]
  BY <1>1, <1>3, <1>4
<1> HIDE DEF c
<1>6. /\ c \o b \in Seq(S) /\ Len(c \o b) = Len(s) + 1
      /\ \A j \in 1 .. Len(s) + 1 : (c \o b)[j] = IF j <= k + 1 THEN c[j] ELSE b[j - (k + 1)]
  <2>1. /\ c \o b \in Seq(S) /\ Len(c \o b) = Len(c) + Len(b)
        /\ \A j \in 1 .. Len(c) + Len(b) : (c \o b)[j] = IF j <= Len(c) THEN c[j] ELSE b[j - Len(c)]
    BY <1>2, <1>4, ConcatProperties
  <2>2. Len(c) + Len(b) = Len(s) + 1
    BY <1>0, <1>2, <1>4
  <2> QED
    BY <1>4, <2>1, <2>2
<1>7. ASSUME NEW j \in 1 .. Len(s) + 1
      PROVE  (c \o b)[j] = IF j <= k THEN s[j] ELSE IF j = k + 1 THEN t ELSE s[j - 1]
  <2>1. CASE j <= k + 1
    BY <1>5, <1>6, <2>1
  <2>2. CASE j > k + 1
    <3>1. j - (k + 1) \in 1 .. Len(s) - k /\ k + (j - (k + 1)) = j - 1
      BY <1>0, <2>2
    <3>2. ~(j <= k + 1) /\ ~(j <= k) /\ j # k + 1
      BY <1>0, <2>2
    <3>3. (c \o b)[j] = b[j - (k + 1)]
      BY <1>6, <3>2
    <3>4. b[j - (k + 1)] = s[k + (j - (k + 1))]
      BY <1>2, <3>1
    <3> QED
      BY <3>1, <3>2, <3>3, <3>4
  <2>3. j <= k + 1 \/ j > k + 1
    BY <1>0
  <2> QED
    BY <2>1, <2>2, <2>3
<1>8. c \o b \in Seq(S) /\ Splices(c \o b, s, k, t)
  BY <1>6, <1>7 DEF Splices
<1> QED
  BY <1>8 DEF Inserted, a, b, c

(* Putting a timer after those that expire no later keeps the order. *)
LEMMA InsertedList ==
    ASSUME NEW l \in Lists, NEW ex \in Expiries, NEW s, IsList(s, l, ex),
           NEW t \in TimerSet, Home(t) = l, ex[t] = -1, NEW v \in 0 .. MaxTime,
           NEW k \in 0 .. Len(s),
           \A j \in 1 .. k : ex[s[j]] <= v,
           \A j \in k + 1 .. Len(s) : v <= ex[s[j]]
    PROVE  IsList(Inserted(s, k, t), l, [ex EXCEPT ![t] = v])
<1> DEFINE w == Inserted(s, k, t)
           e1 == [ex EXCEPT ![t] = v]
           from(j) == IF j <= k THEN j ELSE j - 1
<1>0. s \in Seq(TimerSet) /\ Len(s) \in Nat
  BY LenProperties DEF IsList
<1>1. e1[t] = v /\ \A u \in TimerSet \ {t} : e1[u] = ex[u]
  BY DEF Expiries
<1>2. \A j \in 1 .. Len(s) : s[j] \in TimerSet /\ s[j] # t /\ e1[s[j]] = ex[s[j]]
  <2>1. \A j \in 1 .. Len(s) : s[j] \in TimerSet /\ s[j] # t
    BY <1>0, ElementOfSeq DEF IsList
  <2> QED
    BY <1>1, <2>1
<1>3. /\ w \in Seq(TimerSet) /\ Len(w) = Len(s) + 1
      /\ \A j \in 1 .. Len(s) + 1 :
            w[j] = IF j <= k THEN s[j] ELSE IF j = k + 1 THEN t ELSE s[j - 1]
  <2>1. Inserted(s, k, t) \in Seq(TimerSet) /\ Splices(Inserted(s, k, t), s, k, t)
    BY <1>0, InsertedProperties
  <2> QED
    BY <2>1 DEF Splices
<1> HIDE DEF w, e1
<1>4. w[k + 1] = t /\ k + 1 \in 1 .. Len(w)
  BY <1>0, <1>3
<1>5. \A j \in 1 .. Len(w) : j # k + 1 =>
        /\ from(j) \in 1 .. Len(s) /\ w[j] = s[from(j)]
        /\ j < k + 1 => from(j) \in 1 .. k
        /\ j > k + 1 => from(j) \in k + 1 .. Len(s)
  BY <1>0, <1>3
<1>6. ASSUME NEW j \in 1 .. Len(w) PROVE Home(w[j]) = l /\ e1[w[j]] # -1
  <2>1. CASE j = k + 1
    BY <1>1, <1>4, <2>1
  <2>2. CASE j # k + 1
    <3>1. PICK n \in 1 .. Len(s) : w[j] = s[n]
      BY <1>5, <2>2
    <3> QED
      BY <1>2, <3>1 DEF IsList
  <2> QED
    BY <2>1, <2>2
<1>7. ASSUME NEW u \in TimerSet, Home(u) = l, e1[u] # -1
      PROVE  \E j \in 1 .. Len(w) : w[j] = u
  <2>1. CASE u = t
    BY <1>4, <2>1
  <2>2. CASE u # t
    <3>1. PICK n \in 1 .. Len(s) : s[n] = u
      BY <1>1, <1>7, <2>2 DEF IsList
    <3>2. CASE n <= k
      BY <1>0, <1>3, <3>1, <3>2
    <3>3. CASE n > k
      <4>1. n + 1 \in 1 .. Len(s) + 1 /\ ~(n + 1 <= k) /\ n + 1 # k + 1 /\ n + 1 - 1 = n
        BY <1>0, <3>3
      <4>2. w[n + 1] = s[n + 1 - 1]
        BY <1>3, <4>1
      <4> QED
        BY <1>3, <3>1, <4>1, <4>2
    <3> QED
      BY <1>0, <3>2, <3>3
  <2> QED
    BY <2>1, <2>2
<1>8. ASSUME NEW i \in 1 .. Len(w), NEW j \in 1 .. Len(w), i < j
      PROVE  w[i] # w[j] /\ e1[w[i]] <= e1[w[j]]
  <2>1. CASE i = k + 1
    <3>1. PICK n \in k + 1 .. Len(s) : n \in 1 .. Len(s) /\ w[j] = s[n]
      BY <1>5, <1>8, <2>1
    <3> QED
      BY <1>1, <1>2, <1>4, <2>1, <3>1
  <2>2. CASE j = k + 1
    <3>1. PICK n \in 1 .. k : n \in 1 .. Len(s) /\ w[i] = s[n]
      BY <1>5, <1>8, <2>2
    <3> QED
      BY <1>1, <1>2, <1>4, <2>2, <3>1
  <2>3. CASE i # k + 1 /\ j # k + 1
    <3>1. from(i) < from(j)
      BY <1>8, <2>3
    <3>2. PICK m \in 1 .. Len(s), n \in 1 .. Len(s) : m < n /\ w[i] = s[m] /\ w[j] = s[n]
      BY <1>5, <2>3, <3>1
    <3> QED
      BY <1>2, <3>2 DEF IsList
  <2> QED
    BY <2>1, <2>2, <2>3
<1> QED
  BY <1>3, <1>6, <1>7, <1>8 DEF IsList, w, e1

(* The other list does not notice that a timer is armed or disarmed. *)
LEMMA OtherList ==
    ASSUME NEW l \in Lists, NEW ex \in Expiries, NEW s, IsList(s, l, ex),
           NEW t \in TimerSet, Home(t) # l, NEW v
    PROVE  IsList(s, l, [ex EXCEPT ![t] = v])
<1> DEFINE e1 == [ex EXCEPT ![t] = v]
<1>1. \A u \in TimerSet \ {t} : e1[u] = ex[u]
  BY DEF Expiries
<1>2. \A j \in 1 .. Len(s) : s[j] \in TimerSet /\ s[j] # t
  BY ElementOfSeq DEF IsList
<1> HIDE DEF e1
<1>3. \A j \in 1 .. Len(s) : e1[s[j]] = ex[s[j]]
  BY <1>1, <1>2
<1>4. \A u \in TimerSet : Home(u) = l => e1[u] = ex[u]
  BY <1>1
<1> QED
  BY <1>3, <1>4 DEF IsList, e1

(* Place is where timer_mod_ns_locked's walk along the list stops: behind  *)
(* the timers that expire no later than e and before those that expire     *)
(* later.                                                                  *)
LEMMA PlaceProperties ==
    ASSUME NEW rest \in Seq(TimerSet), expire \in Expiries, NEW e \in Int,
           \A i, j \in 1 .. Len(rest) : i < j => expire[rest[i]] <= expire[rest[j]]
    PROVE  /\ Place(rest, e) \in 0 .. Len(rest)
           /\ \A j \in 1 .. Place(rest, e) : expire[rest[j]] <= e
           /\ \A j \in Place(rest, e) + 1 .. Len(rest) : e < expire[rest[j]]
<1> DEFINE before == {k \in DOMAIN rest : timer_expired_ns(rest[k], e)}
           p == Place(rest, e)
<1>0. Len(rest) \in Nat /\ DOMAIN rest = 1 .. Len(rest)
  BY LenProperties
<1>1. \A j \in 1 .. Len(rest) : expire[rest[j]] \in Int
  BY ElementOfSeq DEF Expiries
<1>2. \A j \in 1 .. Len(rest) : j \in before <=> expire[rest[j]] <= e
  BY <1>0 DEF timer_expired_ns
<1>3. before \in SUBSET (1 .. Len(rest))
  BY <1>0
<1>4. CASE before = {}
  <2>1. p = 0
    BY <1>4 DEF Place
  <2>2. \A j \in 1 .. Len(rest) : ~(expire[rest[j]] <= e)
    BY <1>2, <1>4
  <2> HIDE DEF p
  <2> QED
    BY <1>0, <1>1, <2>1, <2>2 DEF p
<1>5. CASE before # {}
  <2>1. \E k \in before : \A j \in before : j <= k
    BY <1>0, <1>3, <1>5, Greatest
  <2>2. p = CHOOSE k \in before : \A j \in before : j <= k
    BY <1>5 DEF Place
  <2> HIDE DEF before
  <2>3. p \in before /\ \A j \in before : j <= p
    BY <2>1, <2>2
  <2> HIDE DEF p
  <2>4. p \in 1 .. Len(rest) /\ expire[rest[p]] <= e
    BY <1>2, <1>3, <2>3
  <2>5. ASSUME NEW j \in 1 .. p PROVE expire[rest[j]] <= e
    <3>1. j \in 1 .. Len(rest) /\ (j = p \/ j < p)
      BY <1>0, <2>4
    <3>2. expire[rest[j]] <= expire[rest[p]]
      BY <1>1, <2>4, <3>1
    <3> QED
      BY <1>1, <2>4, <3>1, <3>2
  <2>6. ASSUME NEW j \in p + 1 .. Len(rest) PROVE e < expire[rest[j]]
    <3>1. j \in 1 .. Len(rest) /\ ~(j <= p)
      BY <1>0, <2>4
    <3>2. ~(expire[rest[j]] <= e)
      BY <1>2, <2>3, <3>1
    <3> QED
      BY <1>1, <3>1, <3>2
  <2>7. p \in 0 .. Len(rest)
    BY <2>4
  <2> QED
    BY <2>5, <2>6, <2>7 DEF p
<1> QED
  BY <1>4, <1>5

(* The first of a list that is not empty is armed, and expires first. *)
LEMMA HeadIsFirst ==
    ASSUME NEW l \in Lists, NEW ex \in Expiries, NEW s, IsList(s, l, ex), s # <<>>
    PROVE  /\ Head(s) \in TimerSet /\ Home(Head(s)) = l /\ ex[Head(s)] \in 0 .. MaxTime
           /\ \A t \in TimerSet : Home(t) = l /\ ex[t] # -1 => ex[Head(s)] <= ex[t]
<1>1. s \in Seq(TimerSet) /\ Len(s) \in Nat \ {0}
  BY EmptySeq DEF IsList
<1>2. Head(s) = s[1] /\ 1 \in 1 .. Len(s)
  BY <1>1
<1>3. s[1] \in TimerSet /\ Home(s[1]) = l /\ ex[s[1]] # -1
  BY <1>1, <1>2, ElementOfSeq DEF IsList
<1>4. ex[s[1]] \in 0 .. MaxTime
  BY <1>3, MaxTimeNat DEF Expiries
<1>5. ASSUME NEW t \in TimerSet, Home(t) = l, ex[t] # -1
      PROVE  ex[s[1]] <= ex[t]
  <2>1. PICK k \in 1 .. Len(s) : s[k] = t
    BY <1>5 DEF IsList
  <2>2. CASE k = 1
    BY <1>4, <2>1, <2>2
  <2>3. CASE 1 < k
    BY <1>2, <2>1, <2>3 DEF IsList
  <2> QED
    BY <1>1, <2>2, <2>3
<1> QED
  BY <1>2, <1>3, <1>4, <1>5

(* Deadline is no later than any armed timer, and no earlier than a time   *)
(* that none of them precedes.                                             *)
LEMMA DeadlineProperties ==
    ASSUME IInv
    PROVE  /\ Deadline \in 0 .. Never
           /\ enabled => \A t \in TimerSet : expire[t] # -1 => Deadline <= expire[t]
           /\ \A x \in 0 .. Never :
                 (\A t \in TimerSet : expire[t] # -1 => x <= expire[t]) => x <= Deadline
<1> DEFINE ls == {m \in Lists : enabled /\ active[m] # <<>>}
           heads == {expire[Head(active[l])] : l \in ls}
           d == Deadline
<1>1. \A l \in ls :
        /\ Head(active[l]) \in TimerSet /\ Home(Head(active[l])) = l
        /\ expire[Head(active[l])] \in 0 .. MaxTime
        /\ \A t \in TimerSet : Home(t) = l /\ expire[t] # -1 => expire[Head(active[l])] <= expire[t]
  BY HeadIsFirst DEF IInv, ListsInv
<1>2. heads \in SUBSET (0 .. MaxTime)
  BY <1>1
<1>3. ASSUME NEW t \in TimerSet, enabled, expire[t] # -1
      PROVE  Home(t) \in ls /\ expire[Head(active[Home(t)])] <= expire[t]
  <2>1. Home(t) \in Lists
    BY DEF Home, Lists
  <2>2. PICK k \in 1 .. Len(active[Home(t)]) : active[Home(t)][k] = t
    BY <1>3, <2>1 DEF IInv, ListsInv, IsList
  <2>3. active[Home(t)] # <<>>
    BY <2>2, EmptySeq
  <2> QED
    BY <1>1, <1>3, <2>1, <2>3
<1>4. CASE heads = {}
  <2>1. d = Never
    BY <1>4 DEF Deadline
  <2>2. enabled => \A t \in TimerSet : expire[t] = -1
    BY <1>3, <1>4
  <2>3. Never \in 0 .. Never
    BY MaxTimeNat DEF Never
  <2> QED
    BY <2>1, <2>2, <2>3
<1>5. CASE heads # {}
  <2>1. \E e \in heads : \A f \in heads : e <= f
    <3>1. heads \in SUBSET Nat
      BY <1>2, MaxTimeNat
    <3> HIDE DEF heads
    <3> QED
      BY <1>5, <3>1, Least
  <2>2. d = CHOOSE e \in heads : \A f \in heads : e <= f
    BY <1>5 DEF Deadline
  <2>3. d \in heads /\ \A f \in heads : d <= f
    <3> HIDE DEF heads, d
    <3> QED
      BY <2>1, <2>2
  <2>4. d \in 0 .. MaxTime
    BY <1>2, <2>3
  <2> HIDE DEF d
  <2>5. ASSUME NEW t \in TimerSet, enabled, expire[t] # -1 PROVE d <= expire[t]
    <3>1. Home(t) \in ls /\ expire[Head(active[Home(t)])] <= expire[t]
      BY <1>3, <2>5
    <3>2. d <= expire[Head(active[Home(t)])]
      BY <2>3, <3>1
    <3>3. expire[t] \in Int /\ expire[Head(active[Home(t)])] \in Int
      BY <1>1, <3>1, MaxTimeNat DEF IInv, Expiries
    <3> QED
      BY <2>4, <3>1, <3>2, <3>3, MaxTimeNat
  <2>6. ASSUME NEW x \in 0 .. Never, \A t \in TimerSet : expire[t] # -1 => x <= expire[t]
        PROVE  x <= d
    <3>1. PICK l \in ls : d = expire[Head(active[l])]
      BY <2>3
    <3> QED
      BY <1>1, <2>4, <2>6, <3>1
  <2>7. d \in 0 .. Never
    BY <2>4, MaxTimeNat DEF Never
  <2> QED
    BY <2>5, <2>6, <2>7 DEF d
<1> QED
  BY <1>4, <1>5

-----------------------------------------------------------------------------
(* Steps *)

(* The invariant holds initially. *)
LEMMA InitIInv == Init => IInv
<1> SUFFICES ASSUME Init PROVE IInv
  OBVIOUS
<1>1. Scalars
  <2>1. now \in 0 .. MaxTime /\ wake_at \in 0 .. Never
    BY MaxTimeNat DEF Init, Never
  <2>2. run \in RunType
    BY MaxTimeNat DEF Init, NoRun, RunType
  <2>3. done \in [Lists -> {"set", "free", "busy"}]
    BY DEF Init
  <2>4. stage \in 1 .. NStages /\ request \subseteq 1 .. NStages
    BY NStagesPos DEF Init
  <2> QED
    BY <2>1, <2>2, <2>3, <2>4 DEF Init, Scalars
<1>2. expire \in Expiries
  BY MaxTimeNat DEF Init, Expiries
<1>3. ListsInv
  <2>1. active \in [Lists -> Seq(TimerSet)]
    BY EmptySeq DEF Init
  <2>2. ASSUME NEW l \in Lists PROVE IsList(active[l], l, expire)
    <3>1. active[l] = <<>> /\ \A t \in TimerSet : expire[t] = -1
      BY DEF Init
    <3>2. <<>> \in Seq(TimerSet) /\ Len(<<>>) = 0
      BY EmptySeq
    <3> QED
      BY <3>1, <3>2 DEF IsList
  <2> QED
    BY <2>1, <2>2 DEF ListsInv
<1>4. Covered
  BY DEF Init, Covered
<1> QED
  BY <1>1, <1>2, <1>3, <1>4 DEF IInv

(* Arming a timer keeps the lists sorted, and the main loop covered: it is *)
(* notified, or another timer of the list expires no later.                *)
LEMMA ModKeeps ==
    ASSUME IInv, NEW t \in TimerSet, NEW e \in Int, e <= MaxTime, timer_mod_ns(t, e),
           UNCHANGED <<enabled, mpc, wake_at>>
    PROVE  /\ (expire \in Expiries /\ ListsInv /\ Covered)'
           /\ notified' \in BOOLEAN /\ missed' \in BOOLEAN
<1> DEFINE l == Home(t)
           rest == Without(l, t)
           k == Place(rest, e)
           v == IF e > 0 THEN e ELSE 0
           e0 == [expire EXCEPT ![t] = -1]
<1>1. /\ active' = [active EXCEPT ![l] = Inserted(rest, k, t)]
      /\ expire' = [expire EXCEPT ![t] = v]
      /\ IF Rearms(rest, e) THEN aio_notify ELSE UNCHANGED <<notified, missed>>
  BY DEF timer_mod_ns, Inserted
<1>2. Scalars /\ expire \in Expiries /\ ListsInv /\ Covered
  BY DEF IInv
<1>3. l \in Lists /\ v \in 0 .. MaxTime
  BY MaxTimeNat DEF Home, Lists
<1>4. IsList(rest, l, e0)
  BY <1>2, <1>3, WithoutList DEF Without, ListsInv
<1>5. e0 \in Expiries /\ e0[t] = -1 /\ \A u \in TimerSet \ {t} : e0[u] = expire[u]
  BY <1>2, MaxTimeNat DEF Expiries
<1> HIDE DEF rest, e0, v, l
<1>6. rest \in Seq(TimerSet) /\ Len(rest) \in Nat
  BY <1>4, LenProperties DEF IsList
<1>7. \A j \in 1 .. Len(rest) : /\ rest[j] \in TimerSet /\ rest[j] # t
                                /\ e0[rest[j]] = expire[rest[j]] /\ expire[rest[j]] \in 0 .. MaxTime
  <2>1. \A j \in 1 .. Len(rest) : rest[j] \in TimerSet /\ e0[rest[j]] # -1
    BY <1>4, <1>6, ElementOfSeq DEF IsList
  <2> QED
    BY <1>2, <1>5, <2>1, MaxTimeNat DEF Expiries
<1>8. /\ k \in 0 .. Len(rest)
      /\ \A j \in 1 .. k : expire[rest[j]] <= e
      /\ \A j \in k + 1 .. Len(rest) : e < expire[rest[j]]
  <2>1. \A i, j \in 1 .. Len(rest) : i < j => expire[rest[i]] <= expire[rest[j]]
    BY <1>4, <1>7 DEF IsList
  <2> QED
    BY <1>2, <1>6, <2>1, PlaceProperties
<1>9. expire' \in Expiries
  BY <1>1, <1>2, <1>3 DEF Expiries
<1>10. IsList(Inserted(rest, k, t), l, expire')
  <2>1. \A j \in 1 .. k : e0[rest[j]] <= v
    <3> SUFFICES ASSUME NEW j \in 1 .. k PROVE e0[rest[j]] <= v
      OBVIOUS
    <3>1. j \in 1 .. Len(rest) /\ expire[rest[j]] <= e
      BY <1>6, <1>8
    <3> QED
      BY <1>7, <3>1, MaxTimeNat DEF v
  <2>2. \A j \in k + 1 .. Len(rest) : v <= e0[rest[j]]
    <3> SUFFICES ASSUME NEW j \in k + 1 .. Len(rest) PROVE v <= e0[rest[j]]
      OBVIOUS
    <3>1. j \in 1 .. Len(rest) /\ e < expire[rest[j]]
      BY <1>6, <1>8
    <3> QED
      BY <1>7, <3>1, MaxTimeNat DEF v
  <2>3. IsList(Inserted(rest, k, t), l, [e0 EXCEPT ![t] = v])
    <3> HIDE DEF k
    <3> QED
      BY <1>3, <1>4, <1>5, <1>8, <2>1, <2>2, InsertedList DEF l
  <2>4. [e0 EXCEPT ![t] = v] = expire'
    BY <1>1, <1>2 DEF e0, Expiries
  <2> QED
    BY <2>3, <2>4
<1>11. ListsInv'
  <2>1. Inserted(rest, k, t) \in Seq(TimerSet)
    BY <1>10 DEF IsList
  <2>2. active' \in [Lists -> Seq(TimerSet)]
    BY <1>1, <1>2, <2>1 DEF ListsInv
  <2>3. ASSUME NEW m \in Lists PROVE IsList(active'[m], m, expire')
    <3>1. CASE m = l
      BY <1>1, <1>2, <1>3, <1>10, <3>1 DEF ListsInv
    <3>2. CASE m # l
      <4>1. active'[m] = active[m] /\ IsList(active[m], m, expire)
        BY <1>1, <1>2, <3>2 DEF ListsInv
      <4> QED
        BY <1>1, <1>2, <3>2, <4>1, OtherList DEF l
    <3> QED
      BY <3>1, <3>2
  <2> QED
    BY <2>2, <2>3 DEF ListsInv
<1>12. notified' \in BOOLEAN /\ missed' \in BOOLEAN
  BY <1>1, <1>2 DEF aio_notify, Scalars
<1>13. Covered'
  <2> SUFFICES ASSUME mpc' = "sleep", enabled', ~missed', ~notified',
                      NEW u \in TimerSet, expire'[u] # -1
               PROVE  wake_at' <= expire'[u]
    BY <1>12 DEF Covered
  <2>1. k # 0 /\ UNCHANGED <<notified, missed>>
    BY <1>1 DEF aio_notify, Rearms
  <2>2. \A w \in TimerSet : expire[w] # -1 => wake_at <= expire[w]
    BY <1>2, <2>1 DEF Covered
  <2>3. CASE u # t
    BY <1>1, <1>2, <2>2, <2>3 DEF Expiries
  <2>4. CASE u = t
    <3>1. k \in 1 .. k /\ k \in 1 .. Len(rest)
      BY <1>6, <1>8, <2>1
    <3>2. expire[rest[k]] <= e /\ rest[k] \in TimerSet /\ expire[rest[k]] \in 0 .. MaxTime
      BY <1>7, <1>8, <3>1
    <3>3. wake_at <= expire[rest[k]]
      BY <2>2, <3>2, MaxTimeNat
    <3>4. expire'[t] = v /\ e <= v
      BY <1>1, <1>2 DEF Expiries, v
    <3>5. wake_at \in Int /\ v \in Int
      BY <1>2, <1>3, MaxTimeNat DEF Scalars, Never
    <3> HIDE DEF k
    <3> QED
      BY <2>4, <3>2, <3>3, <3>4, <3>5, MaxTimeNat
  <2> QED
    BY <2>3, <2>4
<1> QED
  BY <1>9, <1>11, <1>12, <1>13

(* Taking a timer out keeps the lists sorted and the main loop covered. *)
LEMMA DelKeeps ==
    ASSUME IInv, NEW t \in TimerSet,
           active' = [active EXCEPT ![Home(t)] = Removed(active[Home(t)], t)],
           expire' = [expire EXCEPT ![t] = -1],
           UNCHANGED <<enabled, mpc, wake_at, notified, missed>>
    PROVE  (expire \in Expiries /\ ListsInv /\ Covered)'
<1>1. Scalars /\ expire \in Expiries /\ ListsInv /\ Covered
  BY DEF IInv
<1>2. Home(t) \in Lists
  BY DEF Home, Lists
<1>3. expire' \in Expiries
  BY <1>1, MaxTimeNat DEF Expiries
<1>4. IsList(Removed(active[Home(t)], t), Home(t), expire')
  BY <1>1, <1>2, WithoutList DEF ListsInv
<1>5. ListsInv'
  <2>1. Removed(active[Home(t)], t) \in Seq(TimerSet)
    BY <1>4 DEF IsList
  <2>2. active' \in [Lists -> Seq(TimerSet)]
    BY <1>1, <2>1 DEF ListsInv
  <2>3. ASSUME NEW m \in Lists PROVE IsList(active'[m], m, expire')
    <3>1. CASE m = Home(t)
      BY <1>1, <1>2, <1>4, <3>1 DEF ListsInv
    <3>2. CASE m # Home(t)
      <4>1. active'[m] = active[m] /\ IsList(active[m], m, expire)
        BY <1>1, <3>2 DEF ListsInv
      <4>2. \A v : IsList(active[m], m, [expire EXCEPT ![t] = v])
        BY <1>1, <3>2, <4>1, OtherList
      <4>3. IsList(active[m], m, [expire EXCEPT ![t] = -1])
        BY <4>2
      <4> QED
        BY <4>1, <4>3
    <3> QED
      BY <3>1, <3>2
  <2> QED
    BY <2>2, <2>3 DEF ListsInv
<1>6. Covered'
  <2>1. \A u \in TimerSet : expire'[u] # -1 => expire'[u] = expire[u]
    BY <1>1 DEF Expiries
  <2> QED
    BY <1>1, <2>1 DEF Covered
<1> QED
  BY <1>3, <1>5, <1>6

(* A step that leaves the timers alone, and the main loop awake or covered *)
(* as before, keeps them so.                                               *)
LEMMA QuietKeeps ==
    ASSUME IInv, UNCHANGED <<expire, active>>, Scalars',
           mpc' = "sleep" /\ enabled' /\ ~missed' =>
              \/ mpc = "sleep" /\ enabled /\ ~missed /\ wake_at' = wake_at /\ (notified => notified')
              \/ notified'
    PROVE  IInv'
<1>1. ListsInv'
  <2>1. ListsInv /\ expire' = expire /\ active' = active
    BY DEF IInv
  <2> QED
    BY <2>1 DEF ListsInv
<1>2. Covered'
  BY DEF IInv, Covered
<1>3. expire' \in Expiries
  BY DEF IInv
<1> QED
  BY <1>1, <1>2, <1>3 DEF IInv

(* timerlist_run_timers: the first timer of the list is taken off. *)
LEMMA RunOneKeeps == ASSUME IInv, RunOne PROVE IInv'
<1> DEFINE l == run.list
           s == active[l]
           t == Head(s)
<1>1. Scalars /\ expire \in Expiries /\ ListsInv /\ Covered
  BY DEF IInv
<1>2. l \in Lists /\ s # <<>> /\ IsList(s, l, expire)
  BY <1>1 DEF RunOne, Expired, Scalars, RunType, ListsInv
<1>3. t \in TimerSet /\ Home(t) = l
  BY <1>1, <1>2, HeadIsFirst
<1>4. s \in Seq(TimerSet) /\ Len(s) \in Nat \ {0} /\ t = s[1] /\ 1 \in 1 .. Len(s)
  BY <1>2, EmptySeq DEF IsList
<1>5. Removed(s, t) = Tail(s)
  <2>1. PICK i \in 1 .. Len(s) : s[i] = t /\ Removed(s, t) = RemovedAt(s, i)
    BY <1>4, RemovedCases
  <2>2. i = 1
    <3>1. ~(1 < i)
      BY <1>2, <1>4, <2>1 DEF IsList
    <3> QED
      BY <2>1, <3>1, <1>4
  <2>3. RemovedAt(s, 1) = Tail(s)
    BY <1>2, <1>4, TailIsRemoved
  <2> QED
    BY <2>1, <2>2, <2>3
<1>6. /\ active' = [active EXCEPT ![Home(t)] = Removed(active[Home(t)], t)]
      /\ expire' = [expire EXCEPT ![t] = -1]
      /\ UNCHANGED <<enabled, mpc, wake_at, notified, missed>>
  BY <1>3, <1>5 DEF RunOne, mainvars
<1>7. (expire \in Expiries /\ ListsInv /\ Covered)'
  <2> HIDE DEF t, s, l
  <2> QED
    BY <1>3, <1>6, DelKeeps
<1>8. Scalars'
  BY <1>1 DEF RunOne, Scalars, RunType, mainvars
<1> QED
  BY <1>7, <1>8 DEF IInv

(* A callback, and other code under the mutex, arms and deletes timers. *)
LEMMA ArmsKeeps ==
    ASSUME IInv, NEW t \in TimerSet,
           timer_del(t) \/ \E e \in Int : e <= MaxTime /\ timer_mod_ns(t, e),
           UNCHANGED <<now, enabled, done, request, mainvars>>, run' \in RunType
    PROVE  IInv'
<1>1. /\ (expire \in Expiries /\ ListsInv /\ Covered)'
      /\ notified' \in BOOLEAN /\ missed' \in BOOLEAN
  <2>1. CASE timer_del(t)
    <3>1. /\ active' = [active EXCEPT ![Home(t)] = Removed(active[Home(t)], t)]
          /\ expire' = [expire EXCEPT ![t] = -1] /\ UNCHANGED <<notified, missed>>
      BY <2>1 DEF timer_del, Without
    <3>2. notified \in BOOLEAN /\ missed \in BOOLEAN
      BY DEF IInv, Scalars
    <3> QED
      BY <3>1, <3>2, DelKeeps DEF mainvars
  <2>2. ASSUME NEW e \in Int, e <= MaxTime, timer_mod_ns(t, e)
        PROVE  /\ (expire \in Expiries /\ ListsInv /\ Covered)'
               /\ notified' \in BOOLEAN /\ missed' \in BOOLEAN
    BY <2>2, ModKeeps DEF mainvars
  <2> QED
    BY <2>1, <2>2
<1>2. Scalars'
  BY <1>1 DEF IInv, Scalars, mainvars
<1> QED
  BY <1>1, <1>2 DEF IInv

(* What RunBegin leaves in its variables. *)
LEMMA RunBeginTypes ==
    ASSUME Scalars, NEW l \in Lists, NEW by \in {"main", "cpu"}, RunBegin(l, by)
    PROVE  run' \in RunType /\ done' \in [Lists -> {"set", "free", "busy"}]
<1>1. CASE enabled
  <2>1. run' \in RunType
    <3>1. run' = [list |-> l, by |-> by, time |-> now, cb |-> FALSE]
      BY <1>1 DEF RunBegin
    <3>2. now \in 0 .. MaxTime
      BY DEF Scalars
    <3> QED
      BY <3>1, <3>2 DEF RunType
  <2>2. done' \in [Lists -> {"set", "free", "busy"}]
    BY <1>1 DEF RunBegin, Scalars, EventReset
  <2> QED
    BY <2>1, <2>2
<1>2. CASE ~enabled
  BY <1>2 DEF RunBegin, Scalars, EventSet
<1> QED
  BY <1>1, <1>2

(* The other steps of timerlist_run_timers. *)
LEMMA RunKeeps == ASSUME IInv, Callback \/ RunEnd PROVE IInv'
<1>0. Scalars
  BY DEF IInv
<1>1. CASE Callback
  <2>1. run' \in RunType
    BY <1>0, <1>1 DEF Callback, Scalars, RunType
  <2>2. CASE UNCHANGED <<expire, active, notified, missed>>
    <3>1. Scalars'
      BY <1>0, <1>1, <2>1, <2>2 DEF Callback, Scalars, mainvars
    <3> QED
      BY <1>1, <2>2, <3>1, QuietKeeps DEF Callback, mainvars
  <2>3. ASSUME NEW t \in TimerSet,
               timer_del(t) \/ \E e \in now + 1 .. MaxTime : timer_mod_ns(t, e)
        PROVE  IInv'
    <3>1. timer_del(t) \/ \E e \in Int : e <= MaxTime /\ timer_mod_ns(t, e)
      <4>1. \A e \in now + 1 .. MaxTime : e \in Int /\ e <= MaxTime
        BY <1>0, MaxTimeNat DEF Scalars
      <4> QED
        BY <2>3, <4>1
    <3>2. UNCHANGED <<now, enabled, done, request, mainvars>>
      BY <1>1 DEF Callback
    <3> QED
      BY <2>1, <3>1, <3>2, ArmsKeeps
  <2> QED
    BY <1>1, <2>2, <2>3 DEF Callback
<1>2. CASE RunEnd
  <2>1. Scalars'
    <3>1. run' \in RunType
      BY <1>2, MaxTimeNat DEF RunEnd, NoRun, RunType
    <3>2. done' \in [Lists -> {"set", "free", "busy"}]
      BY <1>0, <1>2 DEF RunEnd, EventSet, Scalars
    <3> QED
      BY <1>0, <1>2, <3>1, <3>2 DEF RunEnd, Scalars, mainvars
  <2> QED
    BY <1>2, <2>1, QuietKeeps DEF RunEnd, mainvars
<1> QED
  BY <1>1, <1>2

(* The threads that take the mutex while the main loop has given it up. *)
LEMMA OthersKeep == ASSUME IInv, OtherArms \/ CpuPolls \/ Request \/ Tick PROVE IInv'
<1>0. Scalars
  BY DEF IInv
<1>1. CASE OtherArms
  <2>1. PICK t \in TimerSet : \/ \E e \in Times : timer_mod_ns(t, e)
                              \/ timer_del(t)
    BY <1>1 DEF OtherArms, timer_mod_anticipate_ns
  <2>2. \A e \in Times : e \in Int /\ e <= MaxTime
    BY <1>0, MaxTimeNat DEF Scalars, Times
  <2>3. timer_del(t) \/ \E e \in Int : e <= MaxTime /\ timer_mod_ns(t, e)
    BY <2>1, <2>2
  <2>4. UNCHANGED <<now, enabled, done, run, request, mainvars>>
    BY <1>1 DEF OtherArms
  <2>5. run' \in RunType
    BY <1>0, <2>4 DEF Scalars
  <2> QED
    BY <2>3, <2>4, <2>5, ArmsKeeps
<1>2. CASE CpuPolls
  <2>1. run' \in RunType /\ done' \in [Lists -> {"set", "free", "busy"}]
    <3>1. RunBegin("aio", "cpu")
      BY <1>2 DEF CpuPolls
    <3> QED
      BY <1>0, <3>1, RunBeginTypes DEF Lists
  <2>2. Scalars'
    BY <1>0, <1>2, <2>1 DEF CpuPolls, Scalars, mainvars
  <2>3. notified \in BOOLEAN /\ missed \in BOOLEAN
    BY <1>0 DEF Scalars
  <2> QED
    BY <1>2, <2>2, <2>3, QuietKeeps DEF CpuPolls, mainvars
<1>3. CASE Request
  <2>1. /\ request' \subseteq 1 .. NStages
        /\ UNCHANGED <<now, enabled, expire, active, done, run, mpc, stage, wake_at>>
        /\ aio_notify
    BY <1>0, <1>3 DEF Request, Scalars, mainvars
  <2>2. notified \in BOOLEAN /\ missed \in BOOLEAN
    BY <1>0 DEF Scalars
  <2>3. notified' \in BOOLEAN /\ missed' \in BOOLEAN
    BY <2>1, <2>2 DEF aio_notify
  <2>4. Scalars'
    BY <1>0, <2>1, <2>3 DEF Scalars
  <2>5. (missed => missed') /\ (notified => notified')
    BY <2>1, <2>2 DEF aio_notify
  <2> QED
    BY <2>1, <2>3, <2>4, <2>5, QuietKeeps
<1>4. CASE Tick
  <2>1. Scalars'
    BY <1>0, <1>4, MaxTimeNat DEF Tick, Scalars, mainvars
  <2> QED
    BY <1>4, <2>1, QuietKeeps DEF Tick, mainvars
<1> QED
  BY <1>1, <1>2, <1>3, <1>4

(* The main loop goes on to the next request, or to the next round. *)
LEMMA NextRequestTypes ==
    ASSUME Scalars, NextRequest
    PROVE  stage' \in 1 .. NStages /\ mpc' \in {"requests", "prepare"}
BY NStagesPos DEF Scalars, NextRequest

(* The main loop: it computes its deadline and goes to sleep in one step   *)
(* under the mutex.                                                        *)
LEMMA MainKeeps == ASSUME IInv, Main \/ MainSleep PROVE IInv'
<1>0. Scalars
  BY DEF IInv
<1>1. CASE Prepare
  <2>1. /\ Deadline \in 0 .. Never
        /\ enabled => \A t \in TimerSet : expire[t] # -1 => Deadline <= expire[t]
    BY DeadlineProperties
  <2>2. /\ wake_at' = Deadline /\ missed' = FALSE
        /\ UNCHANGED <<now, enabled, expire, active, done, run, notified, request, stage>>
        /\ mpc' \in {"check", "sleep"}
    BY <1>1 DEF Prepare
  <2> USE <2>1, <2>2
  <2>3. Scalars'
    BY <1>0 DEF Scalars
  <2>4. Covered'
    BY DEF Covered
  <2>5. ListsInv' /\ expire' \in Expiries
    BY DEF IInv, ListsInv
  <2> QED
    BY <2>3, <2>4, <2>5 DEF IInv
<1>2. CASE AioDispatch
  <2>1. run' \in RunType /\ done' \in [Lists -> {"set", "free", "busy"}] /\ notified' \in BOOLEAN
    <3>1. (RunBegin("aio", "main") /\ notified' = FALSE) \/ UNCHANGED <<notified, done, run>>
      BY <1>2 DEF AioDispatch
    <3>2. CASE RunBegin("aio", "main") /\ notified' = FALSE
      BY <1>0, <3>2, RunBeginTypes DEF Lists
    <3>3. CASE UNCHANGED <<notified, done, run>>
      BY <1>0, <3>3 DEF Scalars
    <3> QED
      BY <3>1, <3>2, <3>3
  <2>2. Scalars' /\ mpc' # "sleep"
    BY <1>0, <1>2, <2>1 DEF AioDispatch, Scalars
  <2> QED
    BY <1>2, <2>2, QuietKeeps DEF AioDispatch
<1>3. CASE RunMainTimers
  <2>1. run' \in RunType /\ done' \in [Lists -> {"set", "free", "busy"}]
    <3>1. RunBegin("main", "main")
      BY <1>3 DEF RunMainTimers
    <3> QED
      BY <1>0, <3>1, RunBeginTypes DEF Lists
  <2>2. Scalars' /\ mpc' # "sleep"
    BY <1>0, <1>3, <2>1 DEF RunMainTimers, Scalars
  <2> QED
    BY <1>3, <2>2, QuietKeeps DEF RunMainTimers
<1>4. CASE NoRequest
  <2>1. Scalars' /\ mpc' # "sleep"
    BY <1>0, <1>4, NextRequestTypes DEF NoRequest, Scalars
  <2> QED
    BY <1>4, <2>1, QuietKeeps DEF NoRequest
<1>5. CASE TakeRequest
  <2>1. Scalars' /\ mpc' # "sleep"
    BY <1>0, <1>5 DEF TakeRequest, Scalars
  <2> QED
    BY <1>5, <2>1, QuietKeeps DEF TakeRequest
<1>6. CASE Disabling
  <2>1. done' \in [Lists -> {"set", "free", "busy"}]
    BY <1>0, <1>6 DEF Disabling, EventAfterWait, Scalars
  <2>2. Scalars' /\ mpc' # "sleep"
    BY <1>0, <1>6, <2>1 DEF Disabling, Scalars
  <2> QED
    BY <1>6, <2>2, QuietKeeps DEF Disabling
<1>7. CASE Pausing
  <2>1. Scalars' /\ mpc' # "sleep"
    BY <1>0, <1>7, NextRequestTypes DEF Pausing, Scalars
  <2> QED
    BY <1>7, <2>1, QuietKeeps DEF Pausing
<1>8. CASE MainSleep
  <2>1. Scalars' /\ mpc' # "sleep"
    BY <1>0, <1>8 DEF MainSleep, Scalars
  <2> QED
    BY <1>8, <2>1, QuietKeeps DEF MainSleep
<1> QED
  BY <1>1, <1>2, <1>3, <1>4, <1>5, <1>6, <1>7, <1>8 DEF Main

-----------------------------------------------------------------------------
(* The theorems *)

(* The inductive invariant holds of every reachable state. *)
THEOREM Invariance == Spec => []IInv
<1>1. IInv /\ [Next]_vars => IInv'
  <2> SUFFICES ASSUME IInv, [Next]_vars PROVE IInv'
    OBVIOUS
  <2>1. CASE UNCHANGED vars
    <3>1. Scalars'
      BY <2>1 DEF IInv, Scalars, vars, mainvars
    <3> QED
      BY <2>1, <3>1, QuietKeeps DEF vars, mainvars
  <2> QED
    BY <2>1, MainKeeps, RunOneKeeps, RunKeeps, OthersKeep DEF Next, Run
<1> QED
  BY InitIInv, <1>1, PTL DEF Spec

(* Every variable keeps its type, and whatever callbacks, virtual CPUs and *)
(* the user interface arm, anticipate and delete, each timer list holds    *)
(* exactly the armed timers, once, in the order in which they expire.      *)
THEOREM TypeCorrect == Spec => []TypeOK
<1>1. IInv => TypeOK
  <2> SUFFICES ASSUME IInv PROVE TypeOK
    OBVIOUS
  <2>1. Scalars /\ expire \in Expiries /\ ListsInv
    BY DEF IInv
  <2>2. ASSUME NEW l \in Lists
        PROVE  /\ {active[l][k] : k \in DOMAIN active[l]} = {t \in TimerSet : Home(t) = l /\ expire[t] # -1}
               /\ \A j, k \in DOMAIN active[l] :
                     j < k => active[l][j] # active[l][k] /\ expire[active[l][j]] <= expire[active[l][k]]
    <3>1. IsList(active[l], l, expire) /\ DOMAIN active[l] = 1 .. Len(active[l])
      BY <2>1, LenProperties DEF ListsInv
    <3>2. \A k \in 1 .. Len(active[l]) : active[l][k] \in TimerSet
      BY <3>1, ElementOfSeq DEF IsList
    <3> QED
      BY <3>1, <3>2 DEF IsList
  <2>3. {enabled, notified, missed} \subseteq BOOLEAN
    BY <2>1 DEF Scalars
  <2> QED
    BY <2>1, <2>2, <2>3 DEF TypeOK, Scalars, Expiries, RunType
<1> QED
  BY <1>1, Invariance, PTL

(* The main loop never sleeps past a timer, whoever arms it while it       *)
(* sleeps: its timeout is no later than the earliest deadline, or it is    *)
(* notified, unless a virtual CPU's aio_poll has swallowed the             *)
(* notification.                                                           *)
THEOREM SleepIsCovered == Spec => []SleepCoversDeadline
<1>1. IInv => SleepCoversDeadline
  <2> SUFFICES ASSUME IInv, mpc = "sleep", enabled, ~missed, ~notified
               PROVE  wake_at <= Deadline
    BY DEF SleepCoversDeadline
  <2>1. wake_at \in 0 .. Never /\ \A t \in TimerSet : expire[t] # -1 => wake_at <= expire[t]
    BY DEF IInv, Scalars, Covered
  <2> QED
    BY <2>1, DeadlineProperties
<1> QED
  BY <1>1, Invariance, PTL
=============================================================================
