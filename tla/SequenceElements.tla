-------------------------- MODULE SequenceElements --------------------------
(***************************************************************************)
(* The elements of a sequence, and what appending, concatenating and       *)
(* taking the tail do to them: the queues of the MAC and of the PHY are    *)
(* read and written in these ways only.  At the end: the ranks of a finite *)
(* set of numbers, by which positions of a sequence and slots are counted, *)
(* and folds over a sequence, stated as the run of values they go through. *)
(***************************************************************************)
EXTENDS Integers, Sequences, FiniteSets, FiniteSetsExt, FiniteSetTheorems, SequenceTheorems,
        WellFoundedInduction, TLAPS

Elems(s) == {s[k] : k \in DOMAIN s}

\* The elements of a sequence over S belong to S.
LEMMA ElemsType ==
  ASSUME NEW S, NEW s \in Seq(S)
  PROVE  /\ Elems(s) \subseteq S
         /\ Len(s) \in Nat /\ DOMAIN s = 1..Len(s)
<1>1. Len(s) \in Nat /\ DOMAIN s = 1..Len(s)
  BY LenProperties
<1>2. \A k \in DOMAIN s : s[k] \in S
  BY <1>1, ElementOfSeq
<1> QED BY <1>1, <1>2 DEF Elems

\* The empty sequence has none.
LEMMA ElemsEmpty == Elems(<<>>) = {} /\ DOMAIN <<>> = {} /\ \A S : <<>> \in Seq(S)
  BY DEF Elems

\* Appending adds one element at the end and leaves the others in their places.
LEMMA ElemsAppend ==
  ASSUME NEW S, NEW s \in Seq(S), NEW x \in S
  PROVE  /\ Append(s, x) \in Seq(S)
         /\ \A k \in DOMAIN Append(s, x) :
              \/ k \in DOMAIN s /\ Append(s, x)[k] = s[k]
              \/ k = Len(s) + 1 /\ Append(s, x)[k] = x
         /\ Elems(Append(s, x)) = Elems(s) \cup {x}
<1> DEFINE t == Append(s, x)
<1>1. /\ t \in Seq(S) /\ Len(t) = Len(s) + 1 /\ Len(s) \in Nat
      /\ DOMAIN t = 1..(Len(s) + 1) /\ DOMAIN s = 1..Len(s)
      /\ \A i \in 1..Len(s) : t[i] = s[i]
      /\ t[Len(s) + 1] = x
  BY AppendProperties, LenProperties
<1> HIDE DEF t
<1>2. \A k \in DOMAIN t : \/ k \in DOMAIN s /\ t[k] = s[k]
                          \/ k = Len(s) + 1 /\ t[k] = x
  BY <1>1
<1>3. \A k \in DOMAIN s : k \in DOMAIN t /\ t[k] = s[k]
  BY <1>1
<1>4. Len(s) + 1 \in DOMAIN t /\ t[Len(s) + 1] = x
  BY <1>1
<1>5. Elems(t) = Elems(s) \cup {x}
  BY <1>2, <1>3, <1>4 DEF Elems
<1> QED BY <1>1, <1>2, <1>5 DEF t

\* The elements of a concatenation are those of its two parts, the first ones first.
LEMMA ElemsConcat ==
  ASSUME NEW S, NEW s \in Seq(S), NEW t \in Seq(S)
  PROVE  /\ s \o t \in Seq(S)
         /\ Elems(s \o t) = Elems(s) \cup Elems(t)
<1> DEFINE a == Len(s)  b == Len(t)  u == s \o t
<1>1. /\ u \in Seq(S) /\ Len(u) = a + b /\ a \in Nat /\ b \in Nat
      /\ \A i \in 1..(a + b) : u[i] = IF i <= a THEN s[i] ELSE t[i - a]
  BY ConcatProperties, LenProperties
<1>2. DOMAIN u = 1..(a + b) /\ DOMAIN s = 1..a /\ DOMAIN t = 1..b
  BY <1>1, LenProperties
<1> HIDE DEF a, b, u
<1>3. ASSUME NEW i \in 1..(a + b) PROVE u[i] \in Elems(s) \cup Elems(t)
  <2>1. CASE i <= a
    <3>1. i \in DOMAIN s /\ u[i] = s[i]
      BY <1>1, <1>2, <2>1
    <3> QED BY <3>1 DEF Elems
  <2>2. CASE ~(i <= a)
    <3>1. i - a \in DOMAIN t /\ u[i] = t[i - a]
      BY <1>1, <1>2, <2>2
    <3> QED BY <3>1 DEF Elems
  <2> QED BY <2>1, <2>2
<1>4. ASSUME NEW i \in 1..a PROVE s[i] \in Elems(u)
  <2>1. i \in DOMAIN u /\ u[i] = s[i]
    BY <1>1, <1>2
  <2> QED BY <2>1 DEF Elems
<1>5. ASSUME NEW i \in 1..b PROVE t[i] \in Elems(u)
  <2>1. a + i \in 1..(a + b) /\ ~(a + i <= a) /\ (a + i) - a = i
    BY <1>1
  <2>2. a + i \in DOMAIN u /\ u[a + i] = t[i]
    BY <1>1, <1>2, <2>1
  <2> QED BY <2>2 DEF Elems
<1>6. Elems(u) = Elems(s) \cup Elems(t)
  BY <1>2, <1>3, <1>4, <1>5 DEF Elems
<1> QED BY <1>1, <1>6 DEF u

\* The head leaves, and the others move one place forward.
LEMMA ElemsTail ==
  ASSUME NEW S, NEW s \in Seq(S), s # <<>>
  PROVE  /\ Head(s) \in S /\ Head(s) = s[1] /\ 1 \in DOMAIN s /\ Head(s) \in Elems(s)
         /\ Tail(s) \in Seq(S)
         /\ \A k \in DOMAIN Tail(s) : /\ k \in Nat \ {0} /\ k + 1 \in DOMAIN s
                                      /\ Tail(s)[k] = s[k + 1]
         /\ Elems(Tail(s)) \subseteq Elems(s)
<1> DEFINE t == Tail(s)
<1>1. /\ t \in Seq(S) /\ Len(t) = Len(s) - 1 /\ Len(s) \in Nat \ {0}
      /\ \A i \in 1..Len(t) : t[i] = s[i + 1]
      /\ Head(s) \in S /\ Head(s) = s[1]
  BY HeadTailProperties, EmptySeq, LenProperties
<1>2. DOMAIN t = 1..(Len(s) - 1) /\ DOMAIN s = 1..Len(s)
  BY <1>1, LenProperties
<1> HIDE DEF t
<1>3. \A k \in DOMAIN t : k \in Nat \ {0} /\ k + 1 \in DOMAIN s /\ t[k] = s[k + 1]
  BY <1>1, <1>2
<1>4. Elems(t) \subseteq Elems(s)
  BY <1>3 DEF Elems
<1>5. 1 \in DOMAIN s /\ s[1] \in Elems(s)
  BY <1>1, <1>2 DEF Elems
<1> QED BY <1>1, <1>3, <1>4, <1>5 DEF t

\* A set of natural numbers has a least one.
LEMMA LeastNat == ASSUME NEW T \in SUBSET Nat, T # {}
                  PROVE  \E x \in T : \A y \in T : x <= y
<1> DEFINE R == OpToRel(<, Nat)
<1>1. IsWellFoundedOn(R, Nat)
  BY NatLessThanWellFounded
<1>2. \A i, j \in Nat : i < j => <<i, j>> \in R
  BY DEF OpToRel
<1> HIDE DEF R
<1>3. PICK x \in T : \A y \in T : <<y, x>> \notin R
  BY <1>1, WFMin
<1>4. \A y \in T : ~(y < x)
  BY <1>2, <1>3
<1> QED BY <1>4

\* Positions of which each comes with all before it are the first ones.
LEMMA FirstPositions ==
  ASSUME NEW n \in Nat, NEW K \in SUBSET (1..n),
         \A i, j \in 1..n : i < j /\ j \in K => i \in K
  PROVE  Cardinality(K) \in 0..n /\ K = 1..Cardinality(K)
<1> DEFINE Out == {i \in 1..(n + 1) : i \notin K}
<1>1. PICK m \in Out : \A i \in Out : m <= i
  <2>1. Out \subseteq Nat /\ n + 1 \in Out
    OBVIOUS
  <2> HIDE DEF Out
  <2> QED BY <2>1, LeastNat
<1>2. m \in 1..(n + 1) /\ \A i \in 1..(m - 1) : i \in K
  BY <1>1
<1>3. \A i \in K : i < m
  BY <1>1
<1>4. K = 1..(m - 1)
  <2>1. \A i \in K : i \in 1..(m - 1)
    BY <1>2, <1>3
  <2> QED BY <1>2, <2>1
<1>5. Cardinality(1..(m - 1)) = m - 1
  BY <1>2, FS_Interval
<1> QED BY <1>2, <1>4, <1>5

\* A sequence with x behind its first k elements.
Inserted(s, k, x) == SubSeq(s, 1, k) \o <<x>> \o SubSeq(s, k + 1, Len(s))

IsInserted(t, s, n, k, x) ==
  /\ Len(t) = n + 1 /\ DOMAIN t = 1..(n + 1)
  /\ \A i \in 1..k : t[i] = s[i]
  /\ t[k + 1] = x
  /\ \A i \in (k + 2)..(n + 1) : t[i] = s[i - 1]
  /\ Elems(t) = Elems(s) \cup {x}

\* Inserting moves those behind the first k elements one place back.
LEMMA ElemsInsert ==
  ASSUME NEW S, NEW s \in Seq(S), NEW n \in Nat, n = Len(s), NEW k \in Nat, k <= n, NEW x \in S,
         NEW t, t = Inserted(s, k, x)
  PROVE  t \in Seq(S) /\ IsInserted(t, s, n, k, x)
<1> DEFINE a == SubSeq(s, 1, k)  b == SubSeq(s, k + 1, n)  ax == a \o <<x>>
<1>1. DOMAIN s = 1..n /\ \A i \in 1..n : s[i] \in S
  BY LenProperties, ElementOfSeq
<1>2. a \in Seq(S) /\ Len(a) = k /\ \A i \in 1..k : a[i] = s[i]
  <2>1. \A i \in 1..k : s[i] \in S
    BY <1>1
  <2>2. /\ a \in Seq(S) /\ Len(a) = (IF 1 <= k THEN k - 1 + 1 ELSE 0)
        /\ \A i \in 1..(k - 1 + 1) : a[i] = s[1 + i - 1]
    BY <1>1, <2>1, SubSeqProperties
  <2> HIDE DEF a
  <2> QED BY <1>1, <2>2
<1>3. b \in Seq(S) /\ Len(b) = n - k /\ \A i \in 1..(n - k) : b[i] = s[k + i]
  <2>1. \A i \in (k + 1)..n : s[i] \in S
    BY <1>1
  <2>2. /\ b \in Seq(S) /\ Len(b) = (IF k + 1 <= n THEN n - (k + 1) + 1 ELSE 0)
        /\ \A i \in 1..(n - (k + 1) + 1) : b[i] = s[k + 1 + i - 1]
    BY <1>1, <2>1, SubSeqProperties
  <2> HIDE DEF b
  <2>3. n - (k + 1) + 1 = n - k /\ (k + 1 <= n \/ n - k = 0)
    BY <1>1
  <2>4. \A i \in 1..(n - k) : b[i] = s[k + i]
    <3> TAKE i \in 1..(n - k)
    <3>1. b[i] = s[k + 1 + i - 1]
      BY <2>2, <2>3
    <3>2. k + 1 + i - 1 = k + i
      BY <1>1
    <3> QED BY <3>1, <3>2
  <2> QED BY <2>2, <2>3, <2>4
<1> HIDE DEF a, b
<1>4. /\ ax \in Seq(S) /\ Len(ax) = k + 1 /\ ax[k + 1] = x /\ \A i \in 1..k : ax[i] = s[i]
  <2>1. <<x>> \in Seq(S) /\ Len(<<x>>) = 1 /\ <<x>>[1] = x
    OBVIOUS
  <2>2. /\ ax \in Seq(S) /\ Len(ax) = k + 1
        /\ \A i \in 1..(k + 1) : ax[i] = IF i <= k THEN a[i] ELSE <<x>>[i - k]
    BY <1>2, <2>1, ConcatProperties
  <2> HIDE DEF ax
  <2>3. ax[k + 1] = <<x>>[(k + 1) - k]
    BY <1>1, <2>2
  <2>4. \A i \in 1..k : ax[i] = s[i]
    BY <1>1, <1>2, <2>2
  <2> QED BY <1>1, <2>1, <2>2, <2>3, <2>4
<1> HIDE DEF ax
<1>5. t = ax \o b
  BY DEF ax, a, b, Inserted
<1>6. /\ t \in Seq(S) /\ Len(t) = n + 1
      /\ \A i \in 1..(n + 1) : t[i] = IF i <= k + 1 THEN ax[i] ELSE b[i - (k + 1)]
  <2>1. /\ ax \o b \in Seq(S) /\ Len(ax \o b) = Len(ax) + Len(b)
        /\ \A i \in 1..(Len(ax) + Len(b)) :
             (ax \o b)[i] = IF i <= Len(ax) THEN ax[i] ELSE b[i - Len(ax)]
    BY <1>3, <1>4, ConcatProperties
  <2>2. Len(ax) + Len(b) = n + 1
    BY <1>1, <1>3, <1>4
  <2> QED BY <1>4, <1>5, <2>1, <2>2
<1>7. DOMAIN t = 1..(n + 1)
  BY <1>6, LenProperties
<1>8. (\A i \in 1..k : t[i] = s[i]) /\ t[k + 1] = x
  BY <1>1, <1>4, <1>6
<1>9. \A i \in (k + 2)..(n + 1) : t[i] = s[i - 1]
  <2> TAKE i \in (k + 2)..(n + 1)
  <2>1. i \in 1..(n + 1) /\ ~(i <= k + 1) /\ i - (k + 1) \in 1..(n - k) /\ k + (i - (k + 1)) = i - 1
    BY <1>1
  <2> QED BY <1>3, <1>6, <2>1
<1>10. Elems(t) = Elems(s) \cup {x}
  <2>1. \A i \in DOMAIN t : t[i] \in Elems(s) \cup {x}
    <3> TAKE i \in DOMAIN t
    <3>1. i \in 1..k \/ i = k + 1 \/ i \in (k + 2)..(n + 1)
      BY <1>1, <1>7
    <3>2. i \in (k + 2)..(n + 1) => i - 1 \in DOMAIN s
      BY <1>1
    <3>3. i \in 1..k => i \in DOMAIN s
      BY <1>1
    <3> QED BY <1>8, <1>9, <3>1, <3>2, <3>3 DEF Elems
  <2>2. \A i \in DOMAIN s : s[i] \in Elems(t)
    <3> TAKE i \in DOMAIN s
    <3>1. CASE i <= k
      <4>1. i \in 1..k /\ i \in DOMAIN t
        BY <1>1, <1>7, <3>1
      <4> QED BY <1>8, <4>1 DEF Elems
    <3>2. CASE ~(i <= k)
      <4>1. i + 1 \in (k + 2)..(n + 1) /\ i + 1 \in DOMAIN t /\ (i + 1) - 1 = i
        BY <1>1, <1>7, <3>2
      <4> QED BY <1>9, <4>1 DEF Elems
    <3> QED BY <3>1, <3>2
  <2>3. x \in Elems(t)
    <3>1. k + 1 \in DOMAIN t
      BY <1>1, <1>7
    <3> QED BY <1>8, <3>1 DEF Elems
  <2> QED BY <2>1, <2>2, <2>3 DEF Elems
<1> QED BY <1>6, <1>7, <1>8, <1>9, <1>10 DEF IsInserted

\* The ranks of a finite set of numbers, counted from the least one, are the numbers up
\* to its size, in the same order.
LEMMA Ranks ==
  ASSUME NEW S \in SUBSET Int, IsFiniteSet(S), NEW c, c = Cardinality(S),
         NEW r, r = [k \in S |-> Cardinality({j \in S : j <= k})]
  PROVE  /\ c \in Nat /\ \A k \in S : r[k] \in 1..c
         /\ \A k, l \in S : k < l => r[k] < r[l]
         /\ \A i \in 1..c : \E k \in S : r[k] = i
<1> DEFINE Below(k) == {j \in S : j <= k}
<1>1. c \in Nat
  BY FS_CardinalityType
<1>2. \A k \in S : r[k] = Cardinality(Below(k))
  OBVIOUS
<1>3. ASSUME NEW k \in S PROVE IsFiniteSet(Below(k)) /\ r[k] \in 1..c
  <2>1. Below(k) \in SUBSET S /\ k \in Below(k)
    OBVIOUS
  <2> HIDE DEF Below
  <2>2. IsFiniteSet(Below(k)) /\ Cardinality(Below(k)) <= c
    BY <2>1, FS_Subset
  <2>3. Cardinality(Below(k)) \in Nat /\ Cardinality(Below(k)) # 0
    BY <2>1, <2>2, FS_CardinalityType, FS_EmptySet
  <2> QED BY <1>1, <1>2, <2>2, <2>3
<1>4. ASSUME NEW k \in S, NEW l \in S, k < l PROVE r[k] < r[l]
  <2>1. Below(k) \in SUBSET Below(l) /\ l \in Below(l) /\ l \notin Below(k)
    <3>1. \A j \in S : j <= k => j <= l
      BY <1>4
    <3>2. l <= l /\ ~(l <= k)
      BY <1>4
    <3> QED BY <3>1, <3>2
  <2>2. IsFiniteSet(Below(l)) /\ r[k] \in 1..c /\ r[l] \in 1..c
    BY <1>3
  <2>3. r[k] = Cardinality(Below(k)) /\ r[l] = Cardinality(Below(l))
    BY <1>2
  <2> HIDE DEF Below
  <2>4. r[k] <= r[l] /\ r[l] # r[k]
    BY <2>1, <2>2, <2>3, FS_Subset
  <2> QED BY <1>1, <2>2, <2>4
<1>5. r \in Injection(S, 1..c)
  <2>1. r \in [S -> 1..c]
    BY <1>3
  <2>2. ASSUME NEW k \in S, NEW l \in S, r[k] = r[l] PROVE k = l
    <3>1. k < l \/ l < k \/ k = l
      OBVIOUS
    <3>2. r[k] \in Int /\ r[l] \in Int
      BY <1>1, <1>3
    <3> QED BY <1>4, <2>2, <3>1, <3>2
  <2> QED BY <2>1, <2>2 DEF Injection, IsInjective
<1>6. IsFiniteSet(1..c) /\ Cardinality(1..c) = c
  BY <1>1, FS_Interval
<1>7. r \in Surjection(S, 1..c)
  BY <1>5, <1>6, FS_Injection
<1>8. \A i \in 1..c : \E k \in S : r[k] = i
  BY <1>7 DEF Surjection
<1> QED BY <1>1, <1>3, <1>4, <1>8

(***************************************************************************)
(* Folds.  A fold of the community modules is a function it on sets of     *)
(* positions that is chosen by its equation; what a loop computes is       *)
(* it[1..n], and it[1..i] is what it has computed after i elements.        *)
(***************************************************************************)
\* Induction up to n, for a property given as the set of the numbers that have it.
LEMMA UpTo ==
  ASSUME NEW n \in Nat, NEW T, 0 \in T, \A i \in 1..n : i - 1 \in T => i \in T
  PROVE  \A i \in 0..n : i \in T
<1> DEFINE Out == {i \in 0..n : i \notin T}
<1>1. SUFFICES ASSUME Out # {} PROVE FALSE
  OBVIOUS
<1>2. PICK m \in Out : \A i \in Out : m <= i
  <2>1. Out \in SUBSET Nat
    OBVIOUS
  <2> HIDE DEF Out
  <2> QED BY <1>1, <2>1, LeastNat
<1>3. m \in 1..n /\ m - 1 \in 0..n /\ m - 1 \notin Out
  BY <1>2
<1> QED BY <1>2, <1>3

\* The greatest of some of the positions of a sequence.
LEMMA MaxPosition ==
  ASSUME NEW n \in Nat, NEW s \in SUBSET (1..n), s # {}
  PROVE  Max(s) \in s /\ \A y \in s : Max(s) >= y
<1> DEFINE U == {n - x : x \in s}
<1>1. PICK u \in U : \A v \in U : u <= v
  <2>1. \A x \in s : n - x \in Nat
    OBVIOUS
  <2>2. \A v \in U : v \in Nat
    BY <2>1
  <2>3. PICK x \in s : TRUE
    OBVIOUS
  <2>4. n - x \in U
    OBVIOUS
  <2>5. U \in SUBSET Nat /\ U # {}
    BY <2>2, <2>4
  <2> HIDE DEF U
  <2> QED BY <2>5, LeastNat
<1>2. PICK x \in s : u = n - x
  BY <1>1
<1>3. \A y \in s : x >= y
  <2> TAKE y \in s
  <2>1. n - y \in U
    OBVIOUS
  <2>2. u <= n - y
    BY <1>1, <2>1
  <2> QED BY <1>2, <2>2
<1> QED BY <1>3 DEF Max

\* The first i positions end with position i.
LEMMA MaxOfFirst ==
  ASSUME NEW n \in Nat, NEW i \in 1..n
  PROVE  /\ Max(1..i) = i /\ (1..i) \ {i} = 1..(i - 1)
         /\ 1..i # {} /\ 1..i \in SUBSET (1..n)
<1>1. i \in 1..i /\ i \in Nat
  OBVIOUS
<1>2. 1..i # {}
  BY <1>1
<1>3. 1..i \in SUBSET (1..n)
  OBVIOUS
<1>4. Max(1..i) \in 1..i /\ Max(1..i) >= i
  BY <1>1, <1>2, <1>3, MaxPosition
<1>5. Max(1..i) = i
  BY <1>1, <1>4
<1>6. (1..i) \ {i} = 1..(i - 1)
  OBVIOUS
<1> QED BY <1>2, <1>3, <1>5, <1>6

IsFold(it, n, base, op) ==
  it = [s \in SUBSET (1..n) |-> IF s = {} THEN base ELSE op[<<Max(s), it[s \ {Max(s)}]>>]]

\* The equation of a fold has a solution, whose values are those of the operation.
LEMMA FoldExists ==
  ASSUME NEW n \in Nat, NEW A, NEW base \in A, NEW op \in [(1..n) \X A -> A]
  PROVE  \E it \in [SUBSET (1..n) -> A] : IsFold(it, n, base, op)
<1> DEFINE Eq(it, m) ==
             \A s \in SUBSET (1..m) :
               it[s] = IF s = {} THEN base ELSE op[<<Max(s), it[s \ {Max(s)}]>>]
           T == {m \in 0..n : \E it \in [SUBSET (1..m) -> A] : Eq(it, m)}
<1>1. 0 \in T
  <2> DEFINE g == [s \in SUBSET (1..0) |-> base]
  <2>1. SUBSET (1..0) = {{}}
    OBVIOUS
  <2>2. g \in [SUBSET (1..0) -> A]
    OBVIOUS
  <2>3. \A s \in SUBSET (1..0) : s = {} /\ g[s] = base
    BY <2>1
  <2> HIDE DEF g
  <2>4. Eq(g, 0)
    BY <2>3
  <2>5. 0 \in 0..n
    OBVIOUS
  <2> QED BY <2>2, <2>4, <2>5
<1>2. ASSUME NEW m \in 1..n, m - 1 \in T PROVE m \in T
  <2>1. PICK g \in [SUBSET (1..(m - 1)) -> A] : Eq(g, m - 1)
    BY <1>2
  <2> DEFINE h == [s \in SUBSET (1..m) |->
                     IF m \in s THEN op[<<m, g[s \ {m}]>>] ELSE g[s]]
  <2>2. ASSUME NEW s \in SUBSET (1..m), m \in s
        PROVE  /\ Max(s) = m /\ s \ {m} \in SUBSET (1..(m - 1))
               /\ h[s] = op[<<m, g[s \ {m}]>>] /\ h[s] \in A /\ h[s \ {m}] = g[s \ {m}]
    <3>1. Max(s) = m
      <4>1. m \in Nat /\ s # {}
        BY <2>2
      <4>2. Max(s) \in s /\ Max(s) >= m
        BY <2>2, <4>1, MaxPosition
      <4>3. Max(s) \in 1..m
        BY <4>2
      <4> QED BY <4>2, <4>3
    <3>2. s \ {m} \in SUBSET (1..(m - 1))
      OBVIOUS
    <3>3. g[s \ {m}] \in A
      BY <2>1, <3>2
    <3>4. s \ {m} \in SUBSET (1..m) /\ m \notin s \ {m}
      OBVIOUS
    <3> QED BY <2>2, <3>1, <3>2, <3>3, <3>4
  <2>3. ASSUME NEW s \in SUBSET (1..m), m \notin s
        PROVE  s \in SUBSET (1..(m - 1)) /\ h[s] = g[s] /\ h[s] \in A
    <3>1. s \in SUBSET (1..(m - 1))
      BY <2>3
    <3>2. h[s] = g[s]
      BY <2>3
    <3> QED BY <2>1, <3>1, <3>2
  <2>4. h \in [SUBSET (1..m) -> A]
    <3>1. \A s \in SUBSET (1..m) : h[s] \in A
      BY <2>2, <2>3
    <3> QED BY <3>1
  <2> HIDE DEF h
  <2>5. ASSUME NEW s \in SUBSET (1..m)
        PROVE  h[s] = IF s = {} THEN base ELSE op[<<Max(s), h[s \ {Max(s)}]>>]
    <3>1. CASE m \in s
      BY <2>2, <3>1
    <3>2. CASE m \notin s
      <4>1. h[s] = IF s = {} THEN base ELSE op[<<Max(s), g[s \ {Max(s)}]>>]
        BY <2>1, <2>3, <3>2
      <4>2. h[s \ {Max(s)}] = g[s \ {Max(s)}]
        BY <2>3, <3>2
      <4> QED BY <4>1, <4>2
    <3> QED BY <3>1, <3>2
  <2>6. m \in 0..n
    OBVIOUS
  <2>7. Eq(h, m)
    BY <2>5
  <2> QED BY <2>4, <2>6, <2>7
<1>3. n \in T
  <2> HIDE DEF T
  <2>1. n \in 0..n
    OBVIOUS
  <2> QED BY <1>1, <1>2, <2>1, UpTo
<1>4. PICK it \in [SUBSET (1..n) -> A] : Eq(it, n)
  BY <1>3
<1> QED BY <1>4 DEF IsFold
=============================================================================
