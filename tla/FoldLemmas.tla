----------------------------- MODULE FoldLemmas -----------------------------
(***************************************************************************)
(* What the other proofs need of the community modules: Max and Min of a   *)
(* set of numbers, the elements of a sequence and of SetToSeq, FoldLeft as *)
(* the states it goes through, and FlattenSeq as the sequences it joins.   *)
(* FoldLeft takes an operator, and a theorem cannot; so FoldExists and     *)
(* FoldStates are about the function that MapThenFoldSet, by which it is   *)
(* defined, chooses, and each proof about one fold unfolds the definition  *)
(* and cites them.                                                         *)
(***************************************************************************)
EXTENDS Integers, Sequences, SequencesExt, FiniteSetTheorems, TLAPS

\* Induction from 0 up to n, for a set: by the size of the part of 0..n up to
\* which all is in S.
LEMMA Climb ==
    ASSUME NEW S, NEW n \in Nat, 0 \in S,
           \A k \in 1..n : k - 1 \in S => k \in S
    PROVE  \A k \in 0..n : k \in S
<1> DEFINE T == {k \in 0..n : \A j \in 0..k : j \in S}
           c == Cardinality(T)
<1>1. /\ IsFiniteSet(0..n) /\ T \subseteq 0..n
      /\ IsFiniteSet(T) /\ c \in Nat
  <2>1. IsFiniteSet(0..n)
    BY FS_Interval
  <2>2. T \subseteq 0..n
    OBVIOUS
  <2> HIDE DEF T
  <2>3. IsFiniteSet(T)
    BY <2>1, <2>2, FS_Subset
  <2> QED
    BY <2>1, <2>2, <2>3, FS_CardinalityType
<1>2. T \subseteq 0..(c - 1)
  <2> SUFFICES ASSUME NEW k \in T PROVE k < c
    <3> HIDE DEF c, T
    <3> QED
      BY <1>1
  <2>1. 0..k \subseteq T
    OBVIOUS
  <2>2. Cardinality(0..k) = k + 1
    BY FS_Interval
  <2>3. Cardinality(0..k) <= c
    BY <1>1, <2>1, FS_Subset
  <2> HIDE DEF c, T
  <2> QED
    BY <1>1, <2>2, <2>3
<1>3. T = 0..(c - 1)
  <2>1. IsFiniteSet(0..(c - 1)) /\ Cardinality(0..(c - 1)) = c
    <3> HIDE DEF c, T
    <3>1. 0 \in Int /\ c - 1 \in Int
      BY <1>1
    <3>2. 0 > c - 1 <=> c = 0
      BY <1>1
    <3> QED
      BY <1>1, <3>1, <3>2, FS_Interval
  <2> QED
    BY <1>2, <2>1, FS_Subset
<1>4. c > n
  <2> SUFFICES ASSUME c <= n PROVE FALSE
    BY <1>1
  <2>1. \A j \in 0..(c - 1) : j \in S
    BY <1>3
  <2> HIDE DEF c, T
  <2>2. c \in S
    <3>1. CASE c = 0
      BY <3>1
    <3>2. CASE c # 0
      <4>1. c \in 1..n /\ c - 1 \in 0..(c - 1)
        BY <1>1, <3>2
      <4> QED
        BY <2>1, <4>1
    <3> QED
      BY <3>1, <3>2
  <2>3. c \in 0..n /\ \A j \in 0..c : j \in S
    BY <1>1, <2>1, <2>2
  <2>4. c \in T
    BY <2>3 DEF T
  <2> QED
    BY <1>1, <1>3, <2>4
<1> QED
  <2>1. 0..n \subseteq T
    <3> HIDE DEF c, T
    <3> QED
      BY <1>1, <1>3, <1>4
  <2> QED
    BY <2>1

\* A set of numbers up to a bound has a largest one.

\* The greatest number of a set.
LEMMA MaxIn ==
  ASSUME NEW n \in Nat, NEW S \in SUBSET (1..n), S # {}
  PROVE  Max(S) \in S /\ \A k \in S : k <= Max(S)
<1>1. \E m \in S : \A k \in S : m >= k
  <2> SUFFICES ASSUME \A m \in S : \E k \in S : ~(m >= k) PROVE FALSE
    OBVIOUS
  <2> DEFINE P == {k \in 0..n : \A j \in S : j <= n - k}
  <2>1. 0 \in P
    OBVIOUS
  <2>2. ASSUME NEW k \in 1..n, k - 1 \in P PROVE k \in P
    <3>1. \A j \in S : j \in 1..n /\ j <= n - (k - 1)
      BY <2>2
    <3>2. n - (k - 1) \notin S
      BY <3>1
    <3> QED
      BY <3>1, <3>2
  <2>3. \A k \in 0..n : k \in P
    <3> HIDE DEF P
    <3> QED
      BY <2>1, <2>2, Climb
  <2>4. PICK j \in S : TRUE
    OBVIOUS
  <2>5. j \in 1..n /\ j <= n - n
    BY <2>3
  <2> QED
    BY <2>5
<1> QED
  BY <1>1 DEF Max

\* The greatest of the numbers up to k, and what is left without it.
LEMMA MaxUpTo ==
  ASSUME NEW k \in Nat, k > 0
  PROVE  Max(1..k) = k /\ (1..k) \ {k} = 1..(k - 1) /\ 1..k # {}
<1>1. 1..k # {} /\ k \in 1..k
  OBVIOUS
<1>2. Max(1..k) \in 1..k /\ k <= Max(1..k)
  BY <1>1, MaxIn
<1> QED
  BY <1>1, <1>2

\* The least one.
LEMMA MinIn ==
  ASSUME NEW n \in Nat, NEW S \in SUBSET (1..n), S # {}
  PROVE  Min(S) \in S /\ \A k \in S : Min(S) <= k
<1>1. \E m \in S : \A k \in S : m =< k
  <2> SUFFICES ASSUME \A m \in S : \E k \in S : ~(m =< k) PROVE FALSE
    OBVIOUS
  <2> DEFINE P == {k \in 0..n : \A j \in S : j > k}
  <2>1. 0 \in P
    OBVIOUS
  <2>2. ASSUME NEW k \in 1..n, k - 1 \in P PROVE k \in P
    <3>1. \A j \in S : j \in 1..n /\ j > k - 1
      BY <2>2
    <3>2. k \notin S
      BY <3>1
    <3> QED
      BY <3>1, <3>2
  <2>3. \A k \in 0..n : k \in P
    <3> HIDE DEF P
    <3> QED
      BY <2>1, <2>2, Climb
  <2>4. PICK j \in S : TRUE
    OBVIOUS
  <2>5. j \in 1..n /\ j > n
    BY <2>3
  <2> QED
    BY <2>5
<1> QED
  BY <1>1 DEF Min

(***************************************************************************)
(* The elements of a finite set in a row.                                  *)
(***************************************************************************)

\* What a row has when one more is put behind it.
LEMMA RowGrows ==
  ASSUME NEW T, NEW s \in Seq(T), NEW x \in T
  PROVE  /\ Append(s, x) \in Seq(T)
         /\ ToSet(Append(s, x)) = ToSet(s) \cup {x}
<1>1. DOMAIN Append(s, x) = 1..(Len(s) + 1) /\ DOMAIN s = 1..Len(s) /\ Len(s) \in Nat
  OBVIOUS
<1>2. \A i \in 1..Len(s) : Append(s, x)[i] = s[i] /\ i \in 1..(Len(s) + 1)
  OBVIOUS
<1>3. Append(s, x)[Len(s) + 1] = x /\ Len(s) + 1 \in 1..(Len(s) + 1)
  OBVIOUS
<1>4. \A i \in 1..(Len(s) + 1) : i \in 1..Len(s) \/ i = Len(s) + 1
  BY <1>1
<1>5. ToSet(Append(s, x)) \subseteq ToSet(s) \cup {x}
  BY <1>1, <1>2, <1>3, <1>4 DEF ToSet
<1>6. ToSet(s) \cup {x} \subseteq ToSet(Append(s, x))
  BY <1>1, <1>2, <1>3 DEF ToSet
<1> QED
  BY <1>5, <1>6

\* What it has when its head is taken.
LEMMA RowShrinks ==
  ASSUME NEW T, NEW s \in Seq(T), s # <<>>
  PROVE  /\ Head(s) \in T /\ Head(s) \in ToSet(s) /\ Tail(s) \in Seq(T)
         /\ ToSet(Tail(s)) \subseteq ToSet(s)
         /\ ToSet(s) \subseteq ToSet(Tail(s)) \cup {Head(s)}
<1>1. /\ Len(s) \in Nat /\ Len(s) > 0 /\ DOMAIN s = 1..Len(s)
      /\ Tail(s) \in Seq(T) /\ DOMAIN Tail(s) = 1..(Len(s) - 1)
      /\ \A i \in 1..(Len(s) - 1) : Tail(s)[i] = s[i + 1]
      /\ Head(s) = s[1] /\ 1 \in 1..Len(s)
  OBVIOUS
<1>2. \A i \in 1..(Len(s) - 1) : i + 1 \in 1..Len(s)
  BY <1>1
<1>3. \A i \in 1..Len(s) : i = 1 \/ (i - 1 \in 1..(Len(s) - 1) /\ (i - 1) + 1 = i)
  BY <1>1
<1>4. ToSet(Tail(s)) \subseteq ToSet(s)
  BY <1>1, <1>2 DEF ToSet
<1>5. ASSUME NEW x \in ToSet(s) PROVE x \in ToSet(Tail(s)) \cup {Head(s)}
  <2>1. PICK i \in 1..Len(s) : x = s[i]
    BY <1>1, <1>5 DEF ToSet
  <2>2. CASE i = 1
    BY <1>1, <2>1, <2>2
  <2>3. CASE i # 1
    <3>1. i - 1 \in DOMAIN Tail(s) /\ x = Tail(s)[i - 1]
      BY <1>1, <1>3, <2>1, <2>3
    <3> QED
      BY <3>1 DEF ToSet
  <2> QED
    BY <2>2, <2>3
<1>6. Head(s) \in T /\ Head(s) \in ToSet(s)
  BY <1>1 DEF ToSet
<1> QED
  BY <1>1, <1>4, <1>5, <1>6

\* The elements of a row are finitely many.
LEMMA RowIsFinite ==
  ASSUME NEW T, NEW s \in Seq(T)
  PROVE  ToSet(s) \in SUBSET T /\ IsFiniteSet(ToSet(s))
<1>1. s \in Surjection(1..Len(s), ToSet(s))
  BY DEF Surjection, ToSet
<1>2. IsFiniteSet(1..Len(s))
  BY FS_Interval, Len(s) \in Nat
<1> QED
  BY <1>1, <1>2, FS_Surjection DEF ToSet

\* A row as long as the set, without repetition, has all of it.
LEMMA RowHasAll ==
  ASSUME NEW S, IsFiniteSet(S), NEW f \in [1..Cardinality(S) -> S],
         \A i, j \in 1..Cardinality(S) : i # j => f[i] # f[j]
  PROVE  f \in Seq(S) /\ ToSet(f) = S
<1> DEFINE D == 1..Cardinality(S)
<1>1. Cardinality(S) \in Nat
  BY FS_CardinalityType
<1>2. Cardinality(D) = Cardinality(S)
  BY <1>1, FS_Interval
<1>3. f \in Injection(D, S)
  BY DEF Injection, IsInjective
<1>4. f \in Surjection(D, S)
  <2> HIDE DEF D
  <2> QED
    BY <1>2, <1>3, FS_Injection
<1> QED
  BY <1>1, <1>4 DEF Surjection, ToSet

\* SetToSeq is such a row.
LEMMA SetToSeqHasAll ==
  ASSUME NEW S, IsFiniteSet(S)
  PROVE  SetToSeq(S) \in Seq(S) /\ ToSet(SetToSeq(S)) = S
<1> DEFINE f == SetToSeq(S)
<1>1. \E g \in [1..Cardinality(S) -> S] : IsInjective(g)
  BY FS_CardinalityType DEF ExistsBijection, Bijection, Injection
<1>2. f \in [1..Cardinality(S) -> S] /\ IsInjective(f)
  BY <1>1 DEF SetToSeq
<1> HIDE DEF f
<1>3. \A i, j \in 1..Cardinality(S) : i # j => f[i] # f[j]
  BY <1>2 DEF IsInjective
<1> QED
  BY <1>2, <1>3, RowHasAll DEF f

(***************************************************************************)
(* FoldLeft.                                                               *)
(***************************************************************************)
\* it[S] is what folding G over S, from the smallest number up, makes of b.
IsFold(it, b, n, G) ==
    \A S \in SUBSET (1..n) :
       it[S] = IF S = {} THEN b ELSE G[<<it[S \ {Max(S)}], Max(S)>>]

\* A fold of a function that stays within V exists.
LEMMA FoldExists ==
  ASSUME NEW V, NEW b \in V, NEW n \in Nat, NEW G \in [V \X (1..n) -> V]
  PROVE  \E it \in [SUBSET (1..n) -> V] : IsFold(it, b, n, G)
<1> DEFINE Good(g, k) == \A S \in SUBSET (1..k) :
              g[S] = IF S = {} THEN b ELSE G[<<g[S \ {Max(S)}], Max(S)>>]
           P == {k \in 0..n : \E g \in [SUBSET (1..k) -> V] : Good(g, k)}
<1>1. 0 \in P
  <2>1. [S \in SUBSET (1..0) |-> b] \in [SUBSET (1..0) -> V]
    OBVIOUS
  <2>2. Good([S \in SUBSET (1..0) |-> b], 0)
    OBVIOUS
  <2> HIDE DEF Good
  <2> QED
    BY <2>1, <2>2
<1>2. ASSUME NEW k \in 1..n, k - 1 \in P PROVE k \in P
  <2>1. PICK g \in [SUBSET (1..(k - 1)) -> V] : Good(g, k - 1)
    BY <1>2
  <2> DEFINE h == [S \in SUBSET (1..k) |-> IF k \in S THEN G[<<g[S \ {k}], k>>] ELSE g[S]]
  <2>2. \A S \in SUBSET (1..k) :
           /\ S \ {k} \in SUBSET (1..(k - 1))
           /\ k \notin S => S \in SUBSET (1..(k - 1))
    OBVIOUS
  <2>3. h \in [SUBSET (1..k) -> V]
    BY <2>2
  <2>4. ASSUME NEW S \in SUBSET (1..k)
        PROVE  h[S] = IF S = {} THEN b ELSE G[<<h[S \ {Max(S)}], Max(S)>>]
    <3>1. CASE k \in S
      <4>1. Max(S) \in S /\ k <= Max(S) /\ S # {}
        BY <3>1, MaxIn, k \in Nat
      <4>2. Max(S) = k
        <5>1. Max(S) \in 1..k
          BY <4>1
        <5> QED
          BY <4>1, <5>1
      <4>3. h[S \ {k}] = g[S \ {k}]
        BY <2>2
      <4> QED
        BY <3>1, <4>1, <4>2, <4>3
    <3>2. CASE k \notin S
      <4>1. S \in SUBSET (1..(k - 1)) /\ S \in SUBSET (1..k)
        BY <2>2, <3>2
      <4>2. h[S] = g[S] /\ \A m : h[S \ {m}] = g[S \ {m}]
        BY <3>2, <4>1
      <4>3. g[S] = IF S = {} THEN b ELSE G[<<g[S \ {Max(S)}], Max(S)>>]
        BY <2>1, <4>1
      <4> HIDE DEF h
      <4> QED
        BY <4>2, <4>3
    <3> QED
      BY <3>1, <3>2
  <2> HIDE DEF h
  <2>5. Good(h, k)
    BY <2>4
  <2> HIDE DEF Good
  <2> QED
    BY <2>3, <2>5
<1>3. n \in P
  <2> HIDE DEF P
  <2> QED
    BY <1>1, <1>2, Climb
<1> QED
  BY <1>3 DEF IsFold

\* it does so on the way up, as long as it has stayed within V.
FoldsIn(it, V, b, n, G) ==
    /\ it[{}] = b
    /\ \A S \in SUBSET (1..n) :
          S # {} /\ it[S \ {Max(S)}] \in V => it[S] = G[<<it[S \ {Max(S)}], Max(S)>>]

\* F[i] is the state of the fold after i of the numbers, the last one its end.
AreStates(F, it, b, n, G) ==
    /\ F[0] = b
    /\ \A i \in 1..n : F[i] = G[<<F[i - 1], i>>]
    /\ F[n] = it[1..n]

\* The states of a fold, from the first on.
LEMMA FoldStates ==
  ASSUME NEW V, NEW b \in V, NEW n \in Nat, NEW G \in [V \X (1..n) -> V], NEW it,
         FoldsIn(it, V, b, n, G)
  PROVE  \E F \in [0..n -> V] : AreStates(F, it, b, n, G)
<1> DEFINE F == [i \in 0..n |-> it[1..i]]
           P == {i \in 0..n : F[i] \in V}
<1>1. 0 \in P /\ F[0] = b
  <2>1. 1..0 = {} /\ 0 \in 0..n
    OBVIOUS
  <2> QED
    BY <2>1 DEF FoldsIn
<1>2. ASSUME NEW i \in 1..n, i - 1 \in P
      PROVE  i \in P /\ F[i] = G[<<F[i - 1], i>>]
  <2>1. i \in Nat /\ i > 0 /\ i \in 0..n /\ i - 1 \in 0..n
    OBVIOUS
  <2>2. Max(1..i) = i /\ (1..i) \ {i} = 1..(i - 1) /\ 1..i # {}
    BY <2>1, MaxUpTo
  <2>3. F[i] = it[1..i] /\ F[i - 1] = it[1..(i - 1)] /\ it[1..(i - 1)] \in V
    BY <1>2, <2>1
  <2>4. 1..i \in SUBSET (1..n)
    BY <2>1
  <2>5. it[1..i] = G[<<it[1..(i - 1)], i>>]
    BY <2>2, <2>3, <2>4 DEF FoldsIn
  <2> HIDE DEF F
  <2>6. F[i] = G[<<F[i - 1], i>>] /\ F[i - 1] \in V
    BY <2>3, <2>5
  <2> QED
    BY <2>1, <2>6
<1>3. \A i \in 0..n : i \in P
  <2> HIDE DEF P
  <2> QED
    BY <1>1, <1>2, Climb
<1>4. F \in [0..n -> V]
  BY <1>3
<1>5. \A i \in 1..n : F[i] = G[<<F[i - 1], i>>]
  <2> SUFFICES ASSUME NEW i \in 1..n PROVE i - 1 \in P
    BY <1>2
  <2>1. i - 1 \in 0..n
    OBVIOUS
  <2> HIDE DEF P
  <2> QED
    BY <1>3, <2>1
<1>6. it[1..n] = F[n]
  <2>1. n \in 0..n
    OBVIOUS
  <2> QED
    BY <2>1
<1> HIDE DEF F
<1> QED
  BY <1>1, <1>4, <1>5, <1>6 DEF AreStates

(***************************************************************************)
(* FlattenSeq.                                                             *)
(***************************************************************************)
\* g[i] is the first i sequences of ss in one.
IsJoined(g, ss) ==
    \A i \in 1..Len(ss) : g[i] = IF i = 1 THEN ss[i] ELSE g[i - 1] \o ss[i]

\* FlattenSeq joins them one by one.
LEMMA FlattenRun ==
  ASSUME NEW T, NEW ss \in Seq(Seq(T)), Len(ss) > 0
  PROVE  \E g \in [1..Len(ss) -> Seq(T)] :
            IsJoined(g, ss) /\ FlattenSeq(ss) = g[Len(ss)]
<1> DEFINE m == Len(ss)
           Eq(g) == g = [i \in 1..m |-> IF i = 1 THEN ss[i] ELSE g[i - 1] \o ss[i]]
           Upto(g, k) == \A i \in 1..k : g[i] = IF i = 1 THEN ss[i] ELSE g[i - 1] \o ss[i]
           chosenG == CHOOSE g : Eq(g)
           P == {k \in 0..m : \E g \in [1..k -> Seq(T)] : Upto(g, k)}
<1>0. m \in Nat /\ m > 0 /\ \A i \in 1..m : ss[i] \in Seq(T)
  OBVIOUS
<1>1. FlattenSeq(ss) = chosenG[m]
  BY <1>0 DEF FlattenSeq
<1>2. 0 \in P
  <2>1. [i \in 1..0 |-> <<>>] \in [1..0 -> Seq(T)] /\ Upto([i \in 1..0 |-> <<>>], 0)
    OBVIOUS
  <2> HIDE DEF Upto
  <2>2. 0 \in 0..m
    BY <1>0
  <2>3. \E g \in [1..0 -> Seq(T)] : Upto(g, 0)
    BY <2>1
  <2> QED
    BY <2>2, <2>3
<1>3. ASSUME NEW k \in 1..m, k - 1 \in P PROVE k \in P
  <2>1. PICK g \in [1..(k - 1) -> Seq(T)] : Upto(g, k - 1)
    BY <1>3
  <2> DEFINE e == IF k = 1 THEN ss[k] ELSE g[k - 1] \o ss[k]
             h == [i \in 1..k |-> IF i = k THEN e ELSE g[i]]
  <2>2. e \in Seq(T)
    <3>1. CASE k = 1
      BY <1>0, <3>1
    <3>2. CASE k # 1
      <4>1. k - 1 \in 1..(k - 1)
        BY <1>0, <3>2
      <4> QED
        BY <1>0, <3>2, <4>1
    <3> QED
      BY <3>1, <3>2
  <2>3. h \in [1..k -> Seq(T)]
    <3>1. \A i \in 1..k : i # k => i \in 1..(k - 1)
      BY <1>0
    <3> HIDE DEF e
    <3> QED
      BY <2>2, <3>1
  <2>4. ASSUME NEW i \in 1..k PROVE h[i] = IF i = 1 THEN ss[i] ELSE h[i - 1] \o ss[i]
    <3>1. CASE i = k
      <4>1. k # 1 => k - 1 \in 1..k /\ k - 1 # k
        BY <1>0
      <4> QED
        BY <3>1, <4>1
    <3>2. CASE i # k
      <4>1. i \in 1..(k - 1) /\ (i # 1 => i - 1 \in 1..k /\ i - 1 # k)
        BY <1>0, <3>2
      <4> QED
        BY <2>1, <3>2, <4>1
    <3> QED
      BY <3>1, <3>2
  <2> HIDE DEF h
  <2>5. Upto(h, k)
    BY <2>4
  <2> HIDE DEF Upto
  <2> QED
    BY <2>3, <2>5
<1>4. m \in P
  <2> HIDE DEF P, m
  <2>1. \A k \in 0..m : k \in P
    BY <1>0, <1>2, <1>3, Climb
  <2>2. m \in 0..m
    BY <1>0
  <2> QED
    BY <2>1, <2>2
<1>5. PICK g \in [1..m -> Seq(T)] : Upto(g, m)
  BY <1>4
<1>6. Eq(g)
  BY <1>5
<1>7. Eq(chosenG)
  <2> HIDE DEF Eq
  <2> QED
    BY <1>6
<1> HIDE DEF chosenG
<1>8. Upto(chosenG, m)
  BY <1>7
<1>9. \A i \in 1..m : chosenG[i] \in Seq(T)
  <2> DEFINE Q == {i \in 0..m : i = 0 \/ chosenG[i] \in Seq(T)}
  <2>1. 0 \in Q
    BY <1>0
  <2>2. ASSUME NEW i \in 1..m, i - 1 \in Q PROVE i \in Q
    <3>1. i = 1 \/ chosenG[i - 1] \in Seq(T)
      BY <2>2
    <3>2. ss[i] \in Seq(T) /\ i \in 0..m
      BY <1>0
    <3>3. chosenG[i] = IF i = 1 THEN ss[i] ELSE chosenG[i - 1] \o ss[i]
      BY <1>8
    <3>4. CASE i = 1
      BY <3>2, <3>3, <3>4
    <3>5. CASE i # 1
      <4>1. chosenG[i - 1] \o ss[i] \in Seq(T)
        BY <3>1, <3>2, <3>5
      <4> QED
        BY <3>2, <3>3, <3>5, <4>1
    <3> QED
      BY <3>4, <3>5
  <2> HIDE DEF Q
  <2>3. \A i \in 0..m : i \in Q
    BY <1>0, <2>1, <2>2, Climb
  <2> QED
    BY <1>0, <2>3 DEF Q
<1>10. chosenG \in [1..m -> Seq(T)]
  BY <1>7, <1>9
<1> QED
  BY <1>1, <1>8, <1>10 DEF IsJoined

\* What is joined is a sequence of what the parts are sequences of.
LEMMA FlattenType ==
  ASSUME NEW T, NEW ss \in Seq(Seq(T))
  PROVE  FlattenSeq(ss) \in Seq(T)
<1>1. CASE Len(ss) = 0
  <2>1. FlattenSeq(ss) = ss /\ ss = <<>>
    BY <1>1 DEF FlattenSeq
  <2> QED
    BY <2>1
<1>2. CASE Len(ss) > 0
  <2>1. PICK g \in [1..Len(ss) -> Seq(T)] :
           IsJoined(g, ss) /\ FlattenSeq(ss) = g[Len(ss)]
    BY <1>2, FlattenRun
  <2>2. Len(ss) \in 1..Len(ss)
    BY <1>2
  <2> QED
    BY <2>1, <2>2
<1> QED
  BY <1>1, <1>2
=============================================================================
