-------------------------- MODULE LinkedListProofs --------------------------
(***************************************************************************)
(* What taking an element out of a list leaves, and the first and the last *)
(* of a set of places.                                                     *)
(***************************************************************************)
EXTENDS LinkedLists, SequenceTheorems, WellFoundedInduction, TLAPS

(* What QTAILQ_REMOVE leaves. *)
LEMMA RemovedProperties ==
    ASSUME NEW S, NEW s \in Seq(S), NEW i \in 1 .. Len(s)
    PROVE  /\ RemovedAt(s, i) \in Seq(S)
           /\ Len(RemovedAt(s, i)) = Len(s) - 1
           /\ \A k \in 1 .. Len(s) - 1 :
                 RemovedAt(s, i)[k] = IF k < i THEN s[k] ELSE s[k + 1]
<1> DEFINE a == SubSeq(s, 1, i - 1)
           b == SubSeq(s, i + 1, Len(s))
<1>0. Len(s) \in Nat
  BY LenProperties
<1>1. a \in Seq(S) /\ Len(a) = i - 1 /\ \A k \in 1 .. i - 1 : a[k] = s[k]
  BY <1>0, SubSeqProperties
<1>2. b \in Seq(S) /\ Len(b) = Len(s) - i /\ \A k \in 1 .. Len(s) - i : b[k] = s[i + k]
  BY <1>0, SubSeqProperties
<1>3. a \o b \in Seq(S) /\ Len(a \o b) = Len(a) + Len(b)
  BY <1>1, <1>2, ConcatProperties
<1>4. \A k \in 1 .. Len(a) + Len(b) :
        (a \o b)[k] = IF k <= Len(a) THEN a[k] ELSE b[k - Len(a)]
  BY <1>1, <1>2, ConcatProperties
<1> HIDE DEF a, b
<1>5. Len(a \o b) = Len(s) - 1
  BY <1>0, <1>1, <1>2, <1>3
<1>6. ASSUME NEW k \in 1 .. Len(s) - 1
      PROVE  (a \o b)[k] = IF k < i THEN s[k] ELSE s[k + 1]
  <2>1. k \in 1 .. Len(a) + Len(b)
    BY <1>0, <1>1, <1>2
  <2>2. CASE k < i
    <3>1. k \in 1 .. i - 1 /\ k <= Len(a)
      BY <2>2, <1>1
    <3> QED
      BY <2>1, <2>2, <3>1, <1>1, <1>4
  <2>3. CASE ~(k < i)
    <3>1. k - Len(a) \in 1 .. Len(s) - i /\ ~(k <= Len(a)) /\ i + (k - Len(a)) = k + 1
      BY <2>3, <1>0, <1>1
    <3> QED
      BY <2>1, <2>3, <3>1, <1>2, <1>4
  <2> QED
    BY <2>2, <2>3
<1> QED
  BY <1>3, <1>5, <1>6 DEF a, b, RemovedAt

(* Every set of naturals that is not empty has a least member. *)
LEMMA Least ==
    ASSUME NEW S \in SUBSET Nat, S # {}
    PROVE  \E x \in S : \A y \in S : x <= y
<1>1. PICK x \in S : \A y \in S : ~(<<y, x>> \in OpToRel(<, Nat))
  BY WFMin, NatLessThanWellFounded
<1>2. ASSUME NEW y \in S PROVE x <= y
  <2>1. x \in Nat /\ y \in Nat
    OBVIOUS
  <2>2. ~(y < x)
    BY <1>1, <2>1 DEF OpToRel
  <2> QED
    BY <2>1, <2>2
<1> QED
  BY <1>2

(* A set of places of a list that is not empty has a last one. *)
LEMMA Greatest ==
    ASSUME NEW n \in Nat, NEW S \in SUBSET (1 .. n), S # {}
    PROVE  \E x \in S : \A y \in S : y <= x
<1> DEFINE T == {n - x : x \in S}
<1>1. T \in SUBSET Nat
  OBVIOUS
<1>2. T # {}
  <2>1. PICK x \in S : TRUE
    OBVIOUS
  <2>2. n - x \in T
    BY <2>1
  <2> QED
    BY <2>2
<1>3. PICK x \in T : \A y \in T : x <= y
  BY <1>1, <1>2, Least
<1>4. PICK z \in S : x = n - z
  BY <1>3
<1>5. \A y \in S : n - z <= n - y
  BY <1>3, <1>4
<1> QED
  BY <1>4, <1>5

(* First is the least of the places. *)
LEMMA FirstProperties ==
    ASSUME NEW at \in SUBSET Nat, at # {}
    PROVE  First(at) \in at /\ \A j \in at : First(at) <= j
BY Least DEF First

(* Taking x out removes the first place that holds it, or nothing. *)
LEMMA RemovedCases ==
    ASSUME NEW S, NEW s \in Seq(S), NEW x
    PROVE  \/ \E i \in 1 .. Len(s) : s[i] = x /\ Removed(s, x) = RemovedAt(s, i)
           \/ Removed(s, x) = s /\ \A i \in 1 .. Len(s) : s[i] # x
<1> DEFINE at == {k \in DOMAIN s : s[k] = x}
<1>1. DOMAIN s = 1 .. Len(s) /\ Len(s) \in Nat
  BY LenProperties
<1>2. CASE at = {}
  BY <1>1, <1>2 DEF Removed
<1>3. CASE at # {}
  <2>0. at \in SUBSET Nat
    BY <1>1
  <2>1. First(at) \in at
    BY <1>3, <2>0, FirstProperties
  <2>2. Removed(s, x) = RemovedAt(s, First(at))
    BY <1>3 DEF Removed
  <2> QED
    BY <1>1, <2>1, <2>2
<1> QED
  BY <1>2, <1>3

-----------------------------------------------------------------------------
(* Lists whose elements are distinct *)

Distinct(s) == \A i, j \in 1 .. Len(s) : s[i] = s[j] => i = j

Holds(s, x) == \E i \in 1 .. Len(s) : s[i] = x

(* The empty list. *)
LEMMA HoldsNothing == Distinct(<<>>) /\ \A x : ~Holds(<<>>, x)
BY EmptySeq DEF Distinct, Holds

(* An element that is new at the end of a list. *)
LEMMA AppendDistinct ==
    ASSUME NEW S, NEW s \in Seq(S), NEW x \in S
    PROVE  /\ Append(s, x) \in Seq(S)
           /\ \A y : Holds(Append(s, x), y) <=> Holds(s, y) \/ y = x
           /\ Distinct(s) /\ ~Holds(s, x) => Distinct(Append(s, x))
<1> DEFINE t == Append(s, x)
<1>1. /\ t \in Seq(S) /\ Len(t) = Len(s) + 1 /\ Len(s) \in Nat /\ t[Len(s) + 1] = x
      /\ \A i \in 1 .. Len(s) : t[i] = s[i]
  BY AppendProperties, LenProperties
<1> HIDE DEF t
<1>2. \A i \in 1 .. Len(t) : i = Len(s) + 1 \/ i \in 1 .. Len(s)
  BY <1>1
<1>3. 1 .. Len(s) \subseteq 1 .. Len(t) /\ Len(s) + 1 \in 1 .. Len(t)
  BY <1>1
<1>4. \A y : Holds(t, y) <=> Holds(s, y) \/ y = x
  BY <1>1, <1>2, <1>3 DEF Holds
<1>5. Distinct(s) /\ ~Holds(s, x) => Distinct(t)
  BY <1>1, <1>2 DEF Distinct, Holds
<1> QED
  BY <1>1, <1>4, <1>5 DEF t

(* An element that is new at the front of a list. *)
LEMMA ConsDistinct ==
    ASSUME NEW S, NEW s \in Seq(S), NEW x \in S
    PROVE  /\ <<x>> \o s \in Seq(S)
           /\ \A y : Holds(<<x>> \o s, y) <=> Holds(s, y) \/ y = x
           /\ Distinct(s) /\ ~Holds(s, x) => Distinct(<<x>> \o s)
<1> DEFINE t == <<x>> \o s
<1>0. <<x>> \in Seq(S) /\ Len(<<x>>) = 1 /\ <<x>>[1] = x /\ Len(s) \in Nat
  BY LenProperties
<1>1. /\ t \in Seq(S) /\ Len(t) = Len(s) + 1
      /\ \A i \in 1 .. Len(s) + 1 : t[i] = IF i <= 1 THEN <<x>>[i] ELSE s[i - 1]
  BY <1>0, ConcatProperties
<1> HIDE DEF t
<1>2. t[1] = x /\ \A i \in 2 .. Len(s) + 1 : t[i] = s[i - 1]
  BY <1>0, <1>1
<1>3. \A i \in 1 .. Len(t) : i = 1 \/ (i \in 2 .. Len(s) + 1 /\ i - 1 \in 1 .. Len(s))
  BY <1>0, <1>1
<1>4. ASSUME NEW y PROVE Holds(t, y) <=> Holds(s, y) \/ y = x
  <2>1. Holds(t, y) => Holds(s, y) \/ y = x
    BY <1>2, <1>3 DEF Holds
  <2>2. 1 \in 1 .. Len(t)
    BY <1>0, <1>1
  <2>3. ASSUME NEW i \in 1 .. Len(s), s[i] = y PROVE Holds(t, y)
    <3>1. i + 1 \in 1 .. Len(t) /\ i + 1 \in 2 .. Len(s) + 1 /\ (i + 1) - 1 = i
      BY <1>0, <1>1
    <3>2. t[i + 1] = y
      BY <1>2, <2>3, <3>1
    <3> QED
      BY <3>1, <3>2 DEF Holds
  <2> QED
    BY <1>2, <2>1, <2>2, <2>3 DEF Holds
<1>5. ASSUME Distinct(s), ~Holds(s, x),
             NEW i \in 1 .. Len(t), NEW j \in 1 .. Len(t), t[i] = t[j]
      PROVE  i = j
  <2>1. \A k \in 2 .. Len(s) + 1 : k - 1 \in 1 .. Len(s) /\ t[k] # x
    <3>1. \A k \in 2 .. Len(s) + 1 : k - 1 \in 1 .. Len(s)
      BY <1>0
    <3> QED
      BY <1>2, <1>5, <3>1 DEF Holds
  <2>2. CASE i = 1 \/ j = 1
    BY <1>2, <1>3, <1>5, <2>1, <2>2
  <2>3. CASE i # 1 /\ j # 1
    <3>1. i \in 2 .. Len(s) + 1 /\ j \in 2 .. Len(s) + 1
      BY <1>3, <2>3
    <3>2. s[i - 1] = s[j - 1] /\ i - 1 \in 1 .. Len(s) /\ j - 1 \in 1 .. Len(s)
      BY <1>2, <1>5, <2>1, <3>1
    <3>3. i - 1 = j - 1
      BY <1>5, <3>2 DEF Distinct
    <3> QED
      BY <1>0, <3>1, <3>3
  <2> QED
    BY <2>2, <2>3
<1> QED
  BY <1>1, <1>4, <1>5 DEF t, Distinct

(* A list without one of its places. *)
LEMMA RemovedAtDistinct ==
    ASSUME NEW S, NEW s \in Seq(S), Distinct(s), NEW i \in 1 .. Len(s)
    PROVE  /\ RemovedAt(s, i) \in Seq(S) /\ Distinct(RemovedAt(s, i))
           /\ \A y : Holds(RemovedAt(s, i), y) <=> Holds(s, y) /\ y # s[i]
<1> DEFINE t == RemovedAt(s, i)
           from(k) == IF k < i THEN k ELSE k + 1
<1>1. /\ t \in Seq(S) /\ Len(t) = Len(s) - 1 /\ Len(s) \in Nat
      /\ \A k \in 1 .. Len(s) - 1 : t[k] = IF k < i THEN s[k] ELSE s[k + 1]
  BY RemovedProperties, LenProperties
<1> HIDE DEF t
<1>2. \A k \in 1 .. Len(t) : from(k) \in 1 .. Len(s) /\ from(k) # i /\ t[k] = s[from(k)]
  BY <1>1
<1>3. \A j, k \in 1 .. Len(t) : from(j) = from(k) => j = k
  BY <1>1
<1>4. ASSUME NEW n \in 1 .. Len(s), n # i PROVE Holds(t, s[n])
  <2>1. CASE n < i
    <3>1. n \in 1 .. Len(t) /\ t[n] = s[n]
      BY <1>1, <2>1
    <3> QED
      BY <3>1 DEF Holds
  <2>2. CASE n > i
    <3>1. n - 1 \in 1 .. Len(t) /\ ~(n - 1 < i) /\ (n - 1) + 1 = n
      BY <1>1, <2>2
    <3>2. t[n - 1] = s[n]
      BY <1>1, <3>1
    <3> QED
      BY <3>1, <3>2 DEF Holds
  <2> QED
    BY <1>4, <2>1, <2>2
<1>5. ASSUME NEW j \in 1 .. Len(t), NEW k \in 1 .. Len(t), t[j] = t[k] PROVE j = k
  <2>1. s[from(j)] = s[from(k)] /\ from(j) \in 1 .. Len(s) /\ from(k) \in 1 .. Len(s)
    BY <1>2, <1>5
  <2>2. from(j) = from(k)
    BY <2>1 DEF Distinct
  <2> QED
    BY <1>3, <2>2
<1>6. ASSUME NEW y PROVE Holds(t, y) <=> Holds(s, y) /\ y # s[i]
  <2>1. ASSUME Holds(t, y) PROVE Holds(s, y) /\ y # s[i]
    <3>1. PICK n \in 1 .. Len(s) : n # i /\ s[n] = y
      BY <1>2, <2>1 DEF Holds
    <3> QED
      BY <3>1 DEF Holds, Distinct
  <2>2. ASSUME Holds(s, y), y # s[i] PROVE Holds(t, y)
    BY <1>4, <2>2 DEF Holds
  <2> QED
    BY <2>1, <2>2
<1> QED
  BY <1>1, <1>5, <1>6 DEF t, Distinct

(* A list without one of its elements. *)
LEMMA RemovedDistinct ==
    ASSUME NEW S, NEW s \in Seq(S), Distinct(s), NEW x
    PROVE  /\ Removed(s, x) \in Seq(S) /\ Distinct(Removed(s, x))
           /\ \A y : Holds(Removed(s, x), y) <=> Holds(s, y) /\ y # x
<1>1. CASE Removed(s, x) = s /\ \A i \in 1 .. Len(s) : s[i] # x
  BY <1>1 DEF Holds
<1>2. ASSUME NEW i \in 1 .. Len(s), s[i] = x, Removed(s, x) = RemovedAt(s, i)
      PROVE  /\ Removed(s, x) \in Seq(S) /\ Distinct(Removed(s, x))
             /\ \A y : Holds(Removed(s, x), y) <=> Holds(s, y) /\ y # x
  BY <1>2, RemovedAtDistinct
<1> QED
  BY <1>1, <1>2, RemovedCases

(* The rest of a list is the list without its first place. *)
LEMMA TailIsRemoved ==
    ASSUME NEW S, NEW s \in Seq(S), s # <<>>
    PROVE  /\ Tail(s) = RemovedAt(s, 1) /\ 1 \in 1 .. Len(s) /\ Head(s) = s[1]
<1>1. Len(s) \in Nat \ {0} /\ Head(s) = s[1] /\ 1 \in 1 .. Len(s)
  BY EmptySeq
<1>2. /\ RemovedAt(s, 1) \in Seq(S) /\ Len(RemovedAt(s, 1)) = Len(s) - 1
      /\ \A k \in 1 .. Len(s) - 1 : RemovedAt(s, 1)[k] = s[k + 1]
  BY <1>1, RemovedProperties
<1>3. /\ Tail(s) \in Seq(S) /\ Len(Tail(s)) = Len(s) - 1
      /\ \A k \in 1 .. Len(s) - 1 : Tail(s)[k] = s[k + 1]
  BY HeadTailProperties
<1> QED
  BY <1>1, <1>2, <1>3, SeqEqual
=============================================================================
