--------------------------- MODULE GnbSlots_proofs ---------------------------
(***************************************************************************)
(* Theorems about GnbSlots, for every set of TDD patterns, every set of    *)
(* UEs and every size of a slot: the SRS offsets are partitioned, the      *)
(* triggers of different slots never allocate a symbol twice, the UEs know *)
(* their slots, HARQ feedback arrives before its timer, and every UE       *)
(* sounds once per period.                                                 *)
(***************************************************************************)
EXTENDS GnbSlots, SequenceElements

\* What OffsetsPartition says of a state of SrsOffsets, and its types.
SrsOf(users, p) == [avail: Seq(Int), periodicity: {p},
                    ue: [users -> [offset: Int, periodicity: Int]]]

Partitioned(s) ==
  /\ ToSet(s.avail) \cup {s.ue[u].offset : u \in DOMAIN s.ue} = 0 .. s.periodicity - 1
  /\ IsInjective(s.avail)
  /\ \A u \in DOMAIN s.ue : /\ s.ue[u].periodicity = s.periodicity
                            /\ s.ue[u].offset \notin ToSet(s.avail)
                            /\ \A v \in DOMAIN s.ue \ {u} : s.ue[v].offset # s.ue[u].offset

SrsOK(s) == /\ s.periodicity \in Nat \ {0}
            /\ s \in SrsOf(DOMAIN s.ue, s.periodicity)
            /\ Partitioned(s)

\* A sequence of all elements of a set, each of them once: as long as the set, it
\* leaves none of them out.
LEMMA AllElements ==
  ASSUME NEW S, S \subseteq Int, IsFiniteSet(S), NEW s \in SetToSeqs(S)
  PROVE  s \in Seq(Int) /\ IsInjective(s) /\ ToSet(s) = S
<1> DEFINE n == Cardinality(S)
<1>1. n \in Nat
  BY FS_CardinalityType
<1>2. s \in [1 .. n -> S] /\ \A i, j \in 1 .. n : i # j => s[i] # s[j]
  BY DEF SetToSeqs
<1>3. s \in Injection(1 .. n, S)
  BY <1>2 DEF Injection, IsInjective
<1>4. Cardinality(1 .. n) = n
  BY <1>1, FS_Interval
<1>5. s \in Surjection(1 .. n, S)
  BY <1>3, <1>4, FS_Injection
<1>6. ToSet(s) = S
  BY <1>2, <1>5, ZenonT(30) DEF Surjection, ToSet
<1>7. s \in Seq(Int)
  <2>1. s \in Seq(S)
    BY <1>1, <1>2, SeqDef
  <2> QED BY <2>1, SeqMonotonic
<1> QED BY <1>3, <1>6, <1>7 DEF Injection

\* The front of a sequence has all its elements but the last.
LEMMA FrontElements ==
  ASSUME NEW a \in Seq(Int), a # <<>>
  PROVE  /\ Front(a) \in Seq(Int) /\ Last(a) \in Int
         /\ ToSet(a) = ToSet(Front(a)) \cup {Last(a)}
         /\ IsInjective(a) => IsInjective(Front(a)) /\ Last(a) \notin ToSet(Front(a))
<1> DEFINE n == Len(a)  b == Front(a)
<1>1. n \in Nat \ {0} /\ DOMAIN a = 1 .. n /\ \A i \in 1 .. n : a[i] \in Int
  OBVIOUS
<1>2. /\ b \in Seq(Int) /\ Len(b) = n - 1 /\ DOMAIN b = 1 .. n - 1
      /\ \A i \in 1 .. n - 1 : b[i] = a[i]
  BY <1>1 DEF Front
<1> HIDE DEF n, b
<1>3. Last(a) = a[n]
  BY DEF Last, n
<1>4. ToSet(b) = {a[i] : i \in 1 .. n - 1}
  BY <1>2 DEF ToSet
<1>5. ToSet(a) = {a[i] : i \in 1 .. n - 1} \cup {a[n]}
  <2>1. 1 .. n = (1 .. n - 1) \cup {n}
    BY <1>1
  <2> QED BY <1>1, <2>1 DEF ToSet
<1>6. ASSUME IsInjective(a) PROVE IsInjective(b) /\ a[n] \notin ToSet(b)
  <2>1. \A i, j \in 1 .. n : a[i] = a[j] => i = j
    BY <1>1, <1>6 DEF IsInjective
  <2>2. IsInjective(b)
    BY <1>1, <1>2, <2>1 DEF IsInjective
  <2>3. \A i \in 1 .. n - 1 : a[i] # a[n]
    BY <1>1, <2>1
  <2> QED BY <1>4, <2>2, <2>3
<1> QED BY <1>1, <1>2, <1>3, <1>4, <1>5, <1>6 DEF b

\* Appending adds one element.
LEMMA AppendElements ==
  ASSUME NEW a \in Seq(Int), NEW e \in Int
  PROVE  /\ Append(a, e) \in Seq(Int)
         /\ ToSet(Append(a, e)) = ToSet(a) \cup {e}
         /\ IsInjective(a) /\ e \notin ToSet(a) => IsInjective(Append(a, e))
<1> DEFINE n == Len(a)  b == Append(a, e)
<1>1. n \in Nat /\ DOMAIN a = 1 .. n
  OBVIOUS
<1>2. /\ b \in Seq(Int) /\ DOMAIN b = 1 .. n + 1 /\ b[n + 1] = e
      /\ \A i \in 1 .. n : b[i] = a[i]
  BY <1>1
<1> HIDE DEF n, b
<1>3. ToSet(a) = {b[i] : i \in 1 .. n}
  BY <1>1, <1>2 DEF ToSet
<1>4. ToSet(b) = {b[i] : i \in 1 .. n} \cup {e}
  <2>1. 1 .. n + 1 = (1 .. n) \cup {n + 1}
    BY <1>1
  <2> QED BY <1>2, <2>1 DEF ToSet
<1>5. ASSUME IsInjective(a), e \notin ToSet(a) PROVE IsInjective(b)
  <2>1. \A i, j \in 1 .. n : b[i] = b[j] => i = j
    BY <1>1, <1>2, <1>5 DEF IsInjective
  <2>2. \A i \in 1 .. n : b[i] # e
    BY <1>3, <1>5
  <2> QED BY <1>1, <1>2, <2>1, <2>2 DEF IsInjective
<1> QED BY <1>2, <1>3, <1>4, <1>5 DEF b

\* The offsets of the starting periodicity are all free.
LEMMA StartedOK == ASSUME NEW s \in Started PROVE SrsOK(s)
<1>1. PICK a \in SetToSeqs(0 .. StartingPeriodicity - 1) :
        s = [avail |-> a, periodicity |-> StartingPeriodicity, ue |-> <<>>]
  BY DEF Started
<1>2. StartingPeriodicity \in Nat \ {0}
  BY SrsAssumption
<1>3. IsFiniteSet(0 .. StartingPeriodicity - 1)
  BY <1>2, FS_Interval
<1>4. a \in Seq(Int) /\ IsInjective(a) /\ ToSet(a) = 0 .. StartingPeriodicity - 1
  BY <1>2, <1>3, AllElements
<1>5. DOMAIN s.ue = {} /\ s.ue \in [{} -> [offset: Int, periodicity: Int]]
  BY <1>1
<1> QED BY <1>1, <1>2, <1>4, <1>5 DEF SrsOK, SrsOf, Partitioned

\* A new UE takes the last of the free offsets.
LEMMA AddUeOK ==
  ASSUME NEW s, SrsOK(s), s.avail # <<>>, NEW u, u \notin DOMAIN s.ue
  PROVE  SrsOK(AddUe(s, u))
<1> DEFINE a == s.avail  b == Front(a)  o == Last(a)  p == s.periodicity
           t == AddUe(s, u)  cell == [offset |-> o, periodicity |-> p]
<1>1. /\ b \in Seq(Int) /\ o \in Int /\ p \in Nat \ {0} /\ IsInjective(b)
      /\ o \notin ToSet(b) /\ ToSet(a) = ToSet(b) \cup {o}
  BY FrontElements DEF SrsOK, SrsOf, Partitioned
<1>2. /\ t.avail = b /\ t.periodicity = p
      /\ t.ue = [v \in DOMAIN s.ue \cup {u} |-> IF v = u THEN cell ELSE s.ue[v]]
      /\ t = [avail |-> t.avail, periodicity |-> t.periodicity, ue |-> t.ue]
  BY DEF AddUe, Attached
<1>3. /\ s.ue \in [DOMAIN s.ue -> [offset: Int, periodicity: Int]]
      /\ ToSet(a) \cup {s.ue[v].offset : v \in DOMAIN s.ue} = 0 .. p - 1
      /\ \A v \in DOMAIN s.ue : /\ s.ue[v].periodicity = p /\ s.ue[v].offset \notin ToSet(a)
                               /\ \A w \in DOMAIN s.ue \ {v} : s.ue[w].offset # s.ue[v].offset
  BY DEF SrsOK, SrsOf, Partitioned
<1> HIDE DEF a, b, o, p, t
<1>4. /\ DOMAIN t.ue = DOMAIN s.ue \cup {u} /\ t.ue[u].offset = o /\ t.ue[u].periodicity = p
      /\ \A v \in DOMAIN s.ue : t.ue[v] = s.ue[v]
      /\ t.ue \in [DOMAIN t.ue -> [offset: Int, periodicity: Int]]
  BY <1>1, <1>2, <1>3
<1>5. {t.ue[v].offset : v \in DOMAIN t.ue} = {s.ue[v].offset : v \in DOMAIN s.ue} \cup {o}
  BY <1>4
<1>6. \A v \in DOMAIN t.ue :
         /\ t.ue[v].periodicity = p /\ t.ue[v].offset \notin ToSet(b)
         /\ \A w \in DOMAIN t.ue \ {v} : t.ue[w].offset # t.ue[v].offset
  BY <1>1, <1>3, <1>4
<1>7. Partitioned(t)
  BY <1>1, <1>2, <1>3, <1>5, <1>6 DEF Partitioned
<1>8. t \in SrsOf(DOMAIN t.ue, t.periodicity)
  BY <1>1, <1>2, <1>4 DEF SrsOf
<1>9. SrsOK(t)
  BY <1>1, <1>2, <1>7, <1>8 DEF SrsOK
<1> QED BY <1>9 DEF t

\* A released UE gives its own offset back.
LEMMA RemoveUeOK ==
  ASSUME NEW s, SrsOK(s), NEW u \in DOMAIN s.ue
  PROVE  SrsOK(RemoveUe(s, u))
<1> DEFINE a == s.avail  o == s.ue[u].offset  b == Append(a, o)  p == s.periodicity
           t == RemoveUe(s, u)
<1>1. /\ a \in Seq(Int) /\ o \in Int /\ p \in Nat \ {0} /\ IsInjective(a) /\ o \notin ToSet(a)
  BY DEF SrsOK, SrsOf, Partitioned
<1>2. b \in Seq(Int) /\ ToSet(b) = ToSet(a) \cup {o} /\ IsInjective(b)
  BY <1>1, AppendElements
<1>3. /\ t.avail = b /\ t.periodicity = p
      /\ t.ue = [v \in DOMAIN s.ue \ {u} |-> s.ue[v]]
      /\ t = [avail |-> t.avail, periodicity |-> t.periodicity, ue |-> t.ue]
  BY DEF RemoveUe, Attached, Restrict
<1>4. /\ s.ue \in [DOMAIN s.ue -> [offset: Int, periodicity: Int]]
      /\ ToSet(a) \cup {s.ue[v].offset : v \in DOMAIN s.ue} = 0 .. p - 1
      /\ \A v \in DOMAIN s.ue : /\ s.ue[v].periodicity = p /\ s.ue[v].offset \notin ToSet(a)
                               /\ \A w \in DOMAIN s.ue \ {v} : s.ue[w].offset # s.ue[v].offset
  BY DEF SrsOK, SrsOf, Partitioned
<1>5. {s.ue[v].offset : v \in DOMAIN s.ue} = {s.ue[v].offset : v \in DOMAIN s.ue \ {u}} \cup {o}
  OBVIOUS
<1>6. \A v \in DOMAIN s.ue \ {u} : s.ue[v].offset # o
  BY <1>4
<1> HIDE DEF a, b, o, p, t
<1>7. /\ DOMAIN t.ue = DOMAIN s.ue \ {u} /\ \A v \in DOMAIN t.ue : t.ue[v] = s.ue[v]
      /\ t.ue \in [DOMAIN t.ue -> [offset: Int, periodicity: Int]]
  BY <1>3, <1>4
<1>8. {t.ue[v].offset : v \in DOMAIN t.ue} = {s.ue[v].offset : v \in DOMAIN s.ue \ {u}}
  BY <1>7
<1>9. Partitioned(t)
  <2>1. ToSet(b) \cup {t.ue[v].offset : v \in DOMAIN t.ue} = 0 .. p - 1
    BY <1>2, <1>4, <1>5, <1>8
  <2>2. \A v \in DOMAIN t.ue : t.ue[v].periodicity = p /\ t.ue[v].offset \notin ToSet(b)
    BY <1>2, <1>4, <1>6, <1>7
  <2>3. \A v \in DOMAIN t.ue : \A w \in DOMAIN t.ue \ {v} : t.ue[w].offset # t.ue[v].offset
    BY <1>4, <1>7
  <2> QED BY <1>2, <1>3, <2>1, <2>2, <2>3 DEF Partitioned
<1>10. t \in SrsOf(DOMAIN t.ue, t.periodicity)
  BY <1>1, <1>2, <1>3, <1>7 DEF SrsOf
<1>11. SrsOK(t)
  BY <1>1, <1>3, <1>9, <1>10 DEF SrsOK
<1> QED BY <1>11 DEF t

\* A larger periodicity gives every UE an offset of its own and leaves the others free.
LEMMA ReassignedOK ==
  ASSUME NEW users, NEW p \in Nat \ {0}, NEW t \in Reassigned(users, p)
  PROVE  SrsOK(t)
<1> DEFINE Cells(f) == [u \in users |-> [offset |-> f[u], periodicity |-> p]]
<1>0. PICK f \in Injection(users, 0 .. p - 1) :
        t \in {[avail |-> s, periodicity |-> p, ue |-> Cells(f)] :
                s \in SetToSeqs((0 .. p - 1) \ Range(f))}
  BY DEF Reassigned
<1>1. PICK a \in SetToSeqs((0 .. p - 1) \ Range(f)) :
        t = [avail |-> a, periodicity |-> p, ue |-> Cells(f)]
  BY <1>0
<1>2. f \in [users -> 0 .. p - 1] /\ IsInjective(f)
  BY DEF Injection
<1>3. IsFiniteSet((0 .. p - 1) \ Range(f))
  <2>1. IsFiniteSet(0 .. p - 1)
    BY FS_Interval
  <2> QED BY <2>1, FS_Difference
<1>4. a \in Seq(Int) /\ IsInjective(a) /\ ToSet(a) = (0 .. p - 1) \ Range(f)
  BY <1>3, AllElements
<1>5. /\ DOMAIN t.ue = users /\ t.avail = a /\ t.periodicity = p
      /\ \A u \in users : t.ue[u].offset = f[u] /\ t.ue[u].periodicity = p
      /\ t.ue \in [users -> [offset: Int, periodicity: Int]]
      /\ t = [avail |-> t.avail, periodicity |-> t.periodicity, ue |-> t.ue]
  BY <1>1, <1>2
<1>6. {t.ue[u].offset : u \in users} = Range(f) /\ Range(f) \subseteq 0 .. p - 1
  <2>1. {t.ue[u].offset : u \in users} = {f[u] : u \in users}
    BY <1>5
  <2> QED BY <1>2, <2>1 DEF Range
<1>7. \A u \in users : f[u] \in Range(f) /\ \A v \in users \ {u} : f[v] # f[u]
  BY <1>2 DEF Range, IsInjective
<1>8. Partitioned(t)
  BY <1>4, <1>5, <1>6, <1>7 DEF Partitioned
<1> QED BY <1>4, <1>5, <1>8 DEF SrsOK, SrsOf

\* The least of the larger periodicities is a periodicity.
LEMMA LargerOK ==
  ASSUME NEW p \in Nat, Larger(p) # {}
  PROVE  Min(Larger(p)) \in Nat \ {0}
<1>1. Larger(p) \subseteq Nat
  BY SrsAssumption DEF Larger
<1>2. \E q \in Larger(p) : \A r \in Larger(p) : q =< r
  <2> DEFINE R == OpToRel(<, Nat)
  <2>1. IsWellFoundedOn(R, Nat)
    BY NatLessThanWellFounded
  <2>2. \A i, j \in Nat : i < j => <<i, j>> \in R
    BY DEF OpToRel
  <2> HIDE DEF R
  <2>3. PICK q \in Larger(p) : \A r \in Larger(p) : <<r, q>> \notin R
    BY <1>1, <2>1, WFMin
  <2>4. \A r \in Larger(p) : ~(r < q)
    BY <1>1, <2>2, <2>3
  <2> QED BY <1>1, <2>3, <2>4
<1>3. Min(Larger(p)) \in Larger(p)
  BY <1>2 DEF Min
<1> QED BY <1>3, SrsAssumption DEF Larger

\* Starting, adding, removing and reassigning keep the offsets partitioned.
LEMMA OffsetsInvariance == Spec => []SrsOK(srs)
<1>1. Init => SrsOK(srs)
  BY StartedOK DEF Init
<1>2. SrsOK(srs) /\ [Next]_vars => SrsOK(srs)'
  <2> SUFFICES ASSUME SrsOK(srs), [Next]_vars PROVE SrsOK(srs')
    OBVIOUS
  <2>1. ASSUME NEW u \in UEs, Attach(u) PROVE SrsOK(srs')
    <3>1. CASE srs.avail # <<>>
      BY <2>1, <3>1, AddUeOK DEF Attach, Attached
    <3>2. CASE srs.avail = <<>>
      <4>1. Larger(srs.periodicity) # {} /\ srs' \in IncreasePeriodicity(srs, u)
        BY <2>1, <3>2 DEF Attach
      <4>2. Min(Larger(srs.periodicity)) \in Nat \ {0}
        BY <4>1, LargerOK DEF SrsOK
      <4> QED BY <4>1, <4>2, ReassignedOK DEF IncreasePeriodicity
    <3> QED BY <3>1, <3>2
  <2>2. ASSUME NEW u \in UEs, Release(u) PROVE SrsOK(srs')
    BY <2>2, RemoveUeOK DEF Release, Attached
  <2>3. CASE StartSlot \/ DlCtrl \/ EndSlot \/ UNCHANGED vars
    BY <2>3 DEF StartSlot, DlCtrl, EndSlot, vars
  <2> QED BY <2>1, <2>2, <2>3 DEF Next
<1> QED BY <1>1, <1>2, PTL DEF Spec

\* Whatever UEs come and go in whatever order, the offsets of the current periodicity
\* are free or belong to exactly one UE: no two UEs sound in the same symbols.
THEOREM OffsetsTheorem == Spec => []OffsetsPartition
<1>1. SrsOK(srs) => OffsetsPartition
  BY DEF SrsOK, Partitioned, OffsetsPartition, Attached
<1> QED BY <1>1, OffsetsInvariance, PTL

-----------------------------------------------------------------------------
(* Remainders. *)

\* Division with remainder, and the remainder it determines.
LEMMA Division ==
  ASSUME NEW L \in Nat \ {0}, NEW a \in Int
  PROVE  /\ a \div L \in Int /\ a % L \in 0 .. L - 1
         /\ a = L * (a \div L) + (a % L)
  OBVIOUS

LEMMA Remainder ==
  ASSUME NEW L \in Nat \ {0}, NEW a \in Int, NEW q \in Int, NEW r \in 0 .. L - 1, a = L * q + r
  PROVE  a % L = r
  OBVIOUS

\* A remainder may be taken before adding or after it.
LEMMA ModAdd ==
  ASSUME NEW L \in Nat \ {0}, NEW a \in Int, NEW b \in Int
  PROVE  ((a % L) + b) % L = (a + b) % L
<1> DEFINE x == a % L  q == a \div L
<1>1. a = L * q + x /\ q \in Int /\ x \in Int
  BY Division
<1> HIDE DEF q, x
<1> DEFINE c == x + b  y == c % L  s == c \div L
<1>2. c \in Int
  BY <1>1
<1>3. c = L * s + y /\ s \in Int /\ y \in 0 .. L - 1
  BY <1>2, Division
<1> HIDE DEF s, y
<1>4. a + b = (L * q) + (L * s) + y
  BY <1>1, <1>3
<1>5. (L * q) + (L * s) = L * (q + s)
  BY <1>1, <1>3
<1>6. a + b = L * (q + s) + y /\ q + s \in Int /\ a + b \in Int
  BY <1>1, <1>3, <1>4, <1>5
<1>7. \A n, r \in Int : n = L * r + y => n % L = y
  BY <1>3, Remainder
<1>8. (a + b) % L = y
  BY <1>6, <1>7
<1> QED BY <1>8 DEF y, c, x

\* Every remainder is reached within L steps back.
LEMMA ModBack ==
  ASSUME NEW L \in Nat \ {0}, NEW m \in Int, NEW j \in 0 .. L - 1
  PROVE  \E k \in 0 .. L - 1 : (m - k) % L = j
<1> DEFINE c == m - j  q == c \div L  k == c % L
<1>1. c \in Int
  OBVIOUS
<1>2. c = L * q + k /\ q \in Int /\ k \in 0 .. L - 1
  BY <1>1, Division
<1> HIDE DEF q, k
<1>3. m - k \in Int /\ m - k = L * q + j
  BY <1>2
<1>4. (m - k) % L = j
  BY <1>2, <1>3, Remainder
<1> QED BY <1>2, <1>4

\* And within L steps ahead.
LEMMA ModAhead ==
  ASSUME NEW L \in Nat \ {0}, NEW m \in Int, NEW j \in 0 .. L - 1
  PROVE  \E k \in 0 .. L - 1 : (m + k) % L = j
<1> DEFINE c == j - m  q == c \div L  k == c % L
<1>1. c \in Int
  OBVIOUS
<1>2. c = L * q + k /\ q \in Int /\ k \in 0 .. L - 1
  BY <1>1, Division
<1> HIDE DEF q, k
<1>3. -(L * q) = L * (-q) /\ -q \in Int
  BY <1>2
<1>4. m + k \in Int /\ m + k = L * (-q) + j
  BY <1>2, <1>3
<1>5. (m + k) % L = j
  BY <1>3, <1>4, Remainder
<1> QED BY <1>2, <1>5

-----------------------------------------------------------------------------
(* The distances of TddTiming. *)

LEMMA MinOf ==
  ASSUME NEW S \in SUBSET Nat, S # {}
  PROVE  Min(S) \in S /\ \A y \in S : Min(S) =< y
<1>1. \E x \in S : \A y \in S : x =< y
  BY LeastNat
<1> QED BY <1>1 DEF Min

LEMMA MaxOf ==
  ASSUME NEW S \in SUBSET Nat, S # {}, NEW n \in Nat, \A x \in S : x =< n
  PROVE  Max(S) \in S /\ \A y \in S : y =< Max(S)
<1> DEFINE T == {n - x : x \in S}
<1>1. T \in SUBSET Nat /\ T # {}
  OBVIOUS
<1>2. PICK z \in T : \A y \in T : z =< y
  BY <1>1, LeastNat
<1>3. PICK x \in S : z = n - x
  BY <1>2
<1>4. ASSUME NEW y \in S PROVE y =< x
  <2>1. n - y \in T
    OBVIOUS
  <2>2. n - x =< n - y
    BY <1>2, <1>3, <2>1
  <2> QED BY <2>2
<1> QED BY <1>4 DEF Max

\* A finite family of numbers is bounded: the first m numbers of a list are, for every m.
BoundedTo(h, m) == \E n \in Nat : \A i \in 1 .. m : h[i] =< n

LEMMA ListBounded ==
  ASSUME NEW c \in Nat, NEW h \in [1 .. c -> Nat]
  PROVE  BoundedTo(h, c)
<1> DEFINE T == {m \in 0 .. c : ~BoundedTo(h, m)}
<1>1. ASSUME T # {} PROVE FALSE
  <2>0. T \in SUBSET Nat
    OBVIOUS
  <2>1. PICK m \in T : \A y \in T : m =< y
    BY <1>1, <2>0, LeastNat
  <2>2. BoundedTo(h, 0)
    <3>1. 0 \in Nat /\ \A i \in 1 .. 0 : h[i] =< 0
      OBVIOUS
    <3> QED BY <3>1 DEF BoundedTo
  <2>3. m \in 1 .. c /\ m - 1 \in 0 .. c /\ ~BoundedTo(h, m)
    BY <2>1, <2>2
  <2>4. BoundedTo(h, m - 1)
    BY <2>1, <2>3
  <2>5. PICK n \in Nat : \A i \in 1 .. (m - 1) : h[i] =< n
    BY <2>4 DEF BoundedTo
  <2>6. h[m] \in Nat /\ \A i \in 1 .. m : h[i] \in Nat
    BY <2>3
  <2>7. PICK b \in Nat : n =< b /\ h[m] =< b
    <3>1. CASE n =< h[m]
      BY <2>6, <3>1
    <3>2. CASE ~(n =< h[m])
      BY <2>6, <3>2
    <3> QED BY <3>1, <3>2
  <2>8. \A i \in 1 .. m : h[i] =< b
    <3> TAKE i \in 1 .. m
    <3>1. CASE i = m
      BY <2>7, <3>1
    <3>2. CASE i # m
      <4>1. i \in 1 .. (m - 1)
        BY <2>3, <3>2
      <4> QED BY <2>5, <2>6, <2>7, <4>1
    <3> QED BY <3>1, <3>2
  <2> QED BY <2>3, <2>8 DEF BoundedTo
<1> QED BY <1>1

LEMMA FiniteBounded ==
  ASSUME NEW S, IsFiniteSet(S), NEW f \in [S -> Nat]
  PROVE  \E n \in Nat : \A x \in S : f[x] =< n
<1> DEFINE c == Cardinality(S)
<1>1. c \in Nat /\ ExistsBijection(1 .. c, S)
  BY FS_CardinalityType
<1>2. PICK g \in Bijection(1 .. c, S) : TRUE
  BY <1>1 DEF ExistsBijection
<1>3. g \in [1 .. c -> S] /\ \A x \in S : \E i \in 1 .. c : g[i] = x
  BY <1>2 DEF Bijection, Surjection, Injection
<1> HIDE DEF c
<1> DEFINE h == [i \in 1 .. c |-> f[g[i]]]
<1>4. h \in [1 .. c -> Nat]
  BY <1>3
<1>5. PICK n \in Nat : \A i \in 1 .. c : h[i] =< n
  BY <1>1, <1>4, ListBounded DEF BoundedTo
<1>6. \A i \in 1 .. c : f[g[i]] =< n
  BY <1>5
<1> QED BY <1>3, <1>6

\* What a pattern is made of.
Types == {"DL", "S", "F", "UL"}

LEMMA PatternOK ==
  ASSUME NEW p \in Patterns
  PROVE  /\ Len(p) \in Nat \ {0} /\ p \in [1 .. Len(p) -> Types]
         /\ \A n \in Int : SlotType(p, n) \in Types
         /\ N2Delay \in Nat \ {0} /\ N1Delay \in Nat \ {0, 1}
<1>1. p # <<>> /\ p \in Seq(Types) /\ N2Delay \in Nat \ {0} /\ N1Delay \in Nat \ {0, 1}
  BY TddAssumption DEF Types
<1>2. Len(p) \in Nat \ {0} /\ p \in [1 .. Len(p) -> Types]
  BY <1>1
<1>3. ASSUME NEW n \in Int PROVE SlotType(p, n) \in Types
  <2>1. n % Len(p) \in 0 .. Len(p) - 1
    BY <1>2, Division
  <2>2. (n % Len(p)) + 1 \in 1 .. Len(p)
    BY <1>2, <2>1
  <2> QED BY <1>2, <2>2 DEF SlotType
<1> QED BY <1>1, <1>2, <1>3

\* What is k slots after the next slot is k + 1 slots after this one.
LEMMA NextSlotType ==
  ASSUME NEW p \in Patterns, NEW n \in Int, NEW k \in Int
  PROVE  /\ SlotType(p, ((n + 1) % Len(p)) + k) = SlotType(p, n + (k + 1))
         /\ ((n + 1) % Len(p)) \in 0 .. Len(p) - 1
<1>1. Len(p) \in Nat \ {0} /\ n + 1 \in Int
  BY PatternOK
<1>2. (((n + 1) % Len(p)) + k) % Len(p) = ((n + 1) + k) % Len(p)
  BY <1>1, ModAdd
<1>3. (n + 1) + k = n + (k + 1)
  OBVIOUS
<1>4. ((n + 1) % Len(p)) \in 0 .. Len(p) - 1
  BY <1>1, Division
<1> QED BY <1>2, <1>3, <1>4 DEF SlotType

\* A pattern of a TDD cell has a slot that carries DCIs, and one that carries feedback.
LEMMA BothDirections ==
  ASSUME NEW p \in Patterns
  PROVE  (\E i \in 1 .. Len(p) : p[i] # "UL") /\ (\E i \in 1 .. Len(p) : p[i] # "DL")
<1>1. Len(p) \in Nat \ {0} /\ p \in [1 .. Len(p) -> Types] /\ DOMAIN p = 1 .. Len(p)
  BY PatternOK
<1>2. IsTdd(p)
  BY TddAssumption
<1>3. 1 \in 1 .. Len(p)
  BY <1>1
<1>4. ASSUME \A i \in 1 .. Len(p) : p[i] = "UL" PROVE FALSE
  BY <1>1, <1>2, <1>3, <1>4 DEF IsTdd, Has
<1>5. ASSUME \A i \in 1 .. Len(p) : p[i] = "DL" PROVE FALSE
  BY <1>1, <1>2, <1>3, <1>5 DEF IsTdd, Has
<1> QED BY <1>4, <1>5

\* The DCI of a slot is sent at least the given number of slots earlier, one round of
\* the pattern more at most, in a slot with a DL CTRL.
LEMMA DciKOK ==
  ASSUME NEW p \in Patterns, NEW n \in Int, NEW least \in Nat
  PROVE  /\ DciK(p, n, least) \in least .. least + Len(p)
         /\ SlotType(p, n - DciK(p, n, least)) # "UL"
         /\ SlotType(p, n - least) # "UL" => DciK(p, n, least) = least
<1> DEFINE L == Len(p)
           S == {k \in least .. least + L : SlotType(p, n - k) # "UL"}
<1>1. L \in Nat \ {0}
  BY PatternOK
<1> HIDE DEF L
<1>2. PICK i \in 1 .. L : p[i] # "UL"
  BY BothDirections DEF L
<1>3. i - 1 \in 0 .. L - 1 /\ n - least \in Int
  BY <1>1, <1>2
<1>4. PICK k \in 0 .. L - 1 : ((n - least) - k) % L = i - 1
  BY <1>1, <1>3, ModBack
<1>5. (n - (least + k)) % L = i - 1
  <2>1. n - (least + k) = (n - least) - k
    BY <1>1, <1>4
  <2> QED BY <1>4, <2>1
<1>6. SlotType(p, n - (least + k)) # "UL"
  <2>1. (i - 1) + 1 = i
    BY <1>2
  <2> QED BY <1>2, <1>5, <2>1 DEF SlotType, L
<1>7. least + k \in S
  BY <1>1, <1>4, <1>6
<1>8. S \in SUBSET Nat /\ S # {}
  <2>1. \A y \in least .. least + L : y \in Nat
    BY <1>1
  <2>2. S \subseteq least .. least + L
    OBVIOUS
  <2> QED BY <1>7, <2>1, <2>2
<1>9. Min(S) \in S /\ \A y \in S : Min(S) =< y
  BY <1>8, MinOf
<1>10. ASSUME SlotType(p, n - least) # "UL" PROVE Min(S) = least
  <2>1. least \in S
    BY <1>1, <1>10
  <2> QED BY <1>1, <1>9, <2>1
<1> HIDE DEF S
<1>11. DciK(p, n, least) = Min(S)
  BY DEF DciK, S, L
<1> QED BY <1>9, <1>10, <1>11 DEF S, L

\* Only a slot's own DL DCIs are sent in it, and only if it has a DL CTRL.
LEMMA SendDlOK ==
  ASSUME NEW p \in Patterns, NEW n \in Int
  PROVE  ToSendDl(p, n) = IF SlotType(p, n) = "UL" THEN {} ELSE {0}
<1>1. Len(p) \in Nat \ {0}
  BY PatternOK
<1>2. ASSUME NEW k \in ToSendDl(p, n) PROVE k = 0 /\ SlotType(p, n) # "UL"
  <2>1. k \in 0 .. Len(p) /\ SlotType(p, n + k) # "UL" /\ DciK(p, n + k, 0) = k
    BY <1>2 DEF ToSendDl
  <2>2. n + k \in Int /\ (n + k) - 0 = n + k
    BY <1>1, <2>1
  <2>3. DciK(p, n + k, 0) = 0
    BY <2>1, <2>2, DciKOK
  <2>4. k = 0 /\ n + k = n
    BY <2>1, <2>3
  <2> QED BY <2>1, <2>4
<1>3. ASSUME SlotType(p, n) # "UL" PROVE 0 \in ToSendDl(p, n)
  <2>1. n - 0 = n /\ n + 0 = n
    OBVIOUS
  <2>2. DciK(p, n, 0) = 0
    BY <1>3, <2>1, DciKOK
  <2> QED BY <1>1, <1>3, <2>1, <2>2 DEF ToSendDl
<1> QED BY <1>2, <1>3

\* The slots whose UL DCIs are sent in a slot: those with UL data for which it is the
\* slot that ReturnDciSlot finds.
LEMMA SendUlOK ==
  ASSUME NEW p \in Patterns, NEW n \in Int, NEW k \in Int
  PROVE  /\ k \in ToSendUl(p, n) <=>
              SlotType(p, n + k) \in {"F", "UL"} /\ DciK(p, n + k, N2Delay) = k
         /\ k \in ToSendUl(p, n) => k >= N2Delay /\ SlotType(p, n) # "UL"
<1>1. Len(p) \in Nat \ {0} /\ N2Delay \in Nat
  BY PatternOK
<1>2. n + k \in Int
  OBVIOUS
<1>3. /\ DciK(p, n + k, N2Delay) \in N2Delay .. N2Delay + Len(p)
      /\ SlotType(p, (n + k) - DciK(p, n + k, N2Delay)) # "UL"
  BY <1>1, <1>2, DciKOK
<1>4. (n + k) - k = n
  OBVIOUS
<1>5. ASSUME DciK(p, n + k, N2Delay) = k
      PROVE  k \in N2Delay .. N2Delay + Len(p) /\ SlotType(p, n) # "UL"
  BY <1>3, <1>4, <1>5
<1> QED BY <1>1, <1>5 DEF ToSendUl

\* The distances at which slots are scheduled: DL data two slots ahead, UL data as many
\* slots before the slot of its DCIs.
LEMMA GenerateOK ==
  ASSUME NEW p \in Patterns, NEW n \in Int
  PROVE  /\ GenerateDl(p, n) = IF SlotType(p, n + 2) = "UL" THEN {} ELSE {2}
         /\ \A k \in GenerateUl(p, n) :
              /\ k \in Int /\ k > 2 /\ SlotType(p, n + k) \in {"F", "UL"}
              /\ k = 2 + DciK(p, n + k, N2Delay)
              /\ SlotType(p, n + 2) # "UL"
<1>1. n + 2 \in Int /\ N2Delay \in Nat \ {0}
  BY PatternOK
<1>2. GenerateDl(p, n) = {2 + j : j \in ToSendDl(p, n + 2)}
  BY DEF GenerateDl, L1L2CtrlLatency
<1>3. GenerateDl(p, n) = IF SlotType(p, n + 2) = "UL" THEN {} ELSE {2}
  <2>1. CASE SlotType(p, n + 2) = "UL"
    <3>1. ToSendDl(p, n + 2) = {}
      BY <1>1, <2>1, SendDlOK
    <3> QED BY <1>2, <2>1, <3>1
  <2>2. CASE SlotType(p, n + 2) # "UL"
    <3>1. ToSendDl(p, n + 2) = {0}
      BY <1>1, <2>2, SendDlOK
    <3>2. {2 + j : j \in {0}} = {2}
      OBVIOUS
    <3> QED BY <1>2, <2>2, <3>1, <3>2
  <2> QED BY <2>1, <2>2
<1>4. ASSUME NEW k \in GenerateUl(p, n)
      PROVE  /\ k \in Int /\ k > 2 /\ SlotType(p, n + k) \in {"F", "UL"}
             /\ k = 2 + DciK(p, n + k, N2Delay)
             /\ SlotType(p, n + 2) # "UL"
  <2>1. PICK j \in ToSendUl(p, n + 2) : k = 2 + j
    BY DEF GenerateUl, L1L2CtrlLatency
  <2>2. j \in Int
    <3>1. j \in N2Delay .. N2Delay + Len(p) /\ Len(p) \in Nat
      BY PatternOK DEF ToSendUl
    <3> QED BY <1>1, <3>1
  <2>3. /\ SlotType(p, (n + 2) + j) \in {"F", "UL"} /\ DciK(p, (n + 2) + j, N2Delay) = j
        /\ j >= N2Delay /\ SlotType(p, n + 2) # "UL"
    BY <1>1, <2>2, SendUlOK
  <2>4. (n + 2) + j = n + k
    BY <2>1, <2>2
  <2>5. k \in Int /\ k > 2
    BY <1>1, <2>1, <2>2, <2>3
  <2> QED BY <2>1, <2>3, <2>4, <2>5
<1> QED BY <1>3, <1>4

\* The slots that are kept reach as far as any trigger.
LEMMA LeadOK ==
  ASSUME NEW p \in Patterns
  PROVE  /\ Lead \in Nat /\ Lead >= 2
         /\ \A n \in 0 .. Len(p) - 1 : /\ GenerateDl(p, n) \subseteq Ahead
                                       /\ GenerateUl(p, n) \subseteq Ahead
<1> DEFINE Reach(q) == UNION {GenerateDl(q, n) \cup GenerateUl(q, n) : n \in 0 .. Len(q) - 1}
           U == UNION {Reach(q) : q \in Patterns}
           f == [q \in Patterns |-> Len(q)]
<1>1. IsFiniteSet(Patterns) /\ f \in [Patterns -> Nat] /\ N2Delay \in Nat \ {0}
  BY PatternOK, TddAssumption
<1>2. PICK b \in Nat : \A q \in Patterns : f[q] =< b
  BY <1>1, FiniteBounded
<1>3. \A q \in Patterns : Len(q) =< b
  BY <1>2
<1>4. ASSUME NEW q \in Patterns, NEW n \in 0 .. Len(q) - 1, NEW k \in GenerateDl(q, n) \cup GenerateUl(q, n)
      PROVE  k \in Nat /\ k =< 2 + N2Delay + b
  <2>1. n \in Int /\ Len(q) \in Nat
    BY PatternOK
  <2>2. CASE k \in GenerateDl(q, n)
    BY <1>1, <1>2, <2>1, <2>2, GenerateOK
  <2>3. CASE k \in GenerateUl(q, n)
    <3>1. k \in Int /\ k > 2 /\ k = 2 + DciK(q, n + k, N2Delay)
      BY <2>1, <2>3, GenerateOK
    <3>2. n + k \in Int /\ N2Delay \in Nat
      BY <1>1, <2>1, <3>1
    <3>3. DciK(q, n + k, N2Delay) \in N2Delay .. N2Delay + Len(q)
      BY <3>2, DciKOK
    <3> QED BY <1>1, <1>2, <1>3, <2>1, <3>1, <3>3
  <2> QED BY <1>4, <2>2, <2>3
<1>5. U \in SUBSET Nat /\ \A k \in U : k =< 2 + N2Delay + b
  BY <1>4
<1>6. PICK i \in 1 .. Len(p) : p[i] # "UL"
  BY BothDirections
<1>7. 2 \in U
  <2>1. Len(p) \in Nat \ {0} /\ i - 1 \in 0 .. Len(p) - 1 /\ 2 \in Int
    BY <1>6, PatternOK
  <2>2. PICK n \in 0 .. Len(p) - 1 : (2 + n) % Len(p) = i - 1
    BY <2>1, ModAhead
  <2>3. n + 2 = 2 + n /\ (i - 1) + 1 = i /\ n \in Int
    BY <1>6, <2>1, <2>2
  <2>4. SlotType(p, n + 2) # "UL"
    BY <1>6, <2>2, <2>3 DEF SlotType
  <2>5. 2 \in GenerateDl(p, n)
    BY <2>3, <2>4, GenerateOK
  <2>6. 2 \in Reach(p)
    BY <2>2, <2>5
  <2> QED BY <2>6
<1>8. 2 + N2Delay + b \in Nat
  BY <1>1, <1>2
<1>9. Max(U) \in U /\ \A k \in U : k =< Max(U)
  BY <1>5, <1>7, <1>8, MaxOf
<1>10. Lead = Max(U)
  BY DEF Lead
<1>11. \A n \in 0 .. Len(p) - 1 : GenerateDl(p, n) \cup GenerateUl(p, n) \subseteq U
  OBVIOUS
<1> HIDE DEF U
<1>12. Lead \in Nat /\ Lead >= 2 /\ \A k \in U : k \in 0 .. Lead
  <2>1. Lead \in U /\ \A k \in U : k =< Lead
    BY <1>9, <1>10
  <2>2. U \subseteq Nat /\ 2 \in U
    BY <1>5, <1>7
  <2> QED BY <2>1, <2>2
<1> QED BY <1>11, <1>12 DEF Ahead

-----------------------------------------------------------------------------
(* The inductive invariant of the slots. *)

\* Whether the triggers of the current slot are over, and whether its DCIs are sent.
Made == IF phase = "start" THEN 0 ELSE 1
Told == IF phase = "data" THEN 1 ELSE 0

\* How long before slot k its UL DCIs are sent.
SendAt(k) == DciK(pattern, pos + k, N2Delay)

\* A slot with UL data, and whether the triggers of a slot that is k slots ahead are over:
\* its UL trigger was two slots before its DCIs are sent, its DL trigger two slots before it.
WithUl(type) == type \in {"F", "UL"}
UlDone(k, type, send, made) == WithUl(type) /\ k < 2 + send + made
DlDone(k, type, made) == type # "UL" /\ k < 2 + made

Kinds == Ctrl \cup {"DL_DATA", "UL_DATA", "SRS"}
Dcis == [kind : Kinds, ue : UEs \cup {NoUe}, sym : Nat, num : Nat \ {0}]
Covered(dcis) == UNION {Symbols(d) : d \in dcis}
Disjoint(dcis) == \A d, e \in dcis : d # e => Symbols(d) \cap Symbols(e) = {}

\* What a DCI of a slot may be.
Belongs(d, k, type, send, made) ==
  \/ d = DlCtrlDci /\ DlDone(k, type, made)
  \/ d = UlCtrlDci /\ type # "DL"
  \/ d.kind = "DL_DATA" /\ DlDone(k, type, made)
  \/ d.kind \in {"UL_DATA", "SRS"} /\ UlDone(k, type, send, made)

\* A set of DCIs that share no symbols, within the slot.
Fit(dcis) ==
  /\ dcis \subseteq Dcis /\ Disjoint(dcis)
  /\ Covered(dcis) \subseteq 0 .. SymbolsPerSlot - 1

\* Until the DL trigger of a slot, its symbols are the last u ones, and the DL CTRL of a
\* slot F is left free.
UlPartOK(dcis, u, type) ==
  /\ Covered(dcis) \subseteq SymbolsPerSlot - u .. SymbolsPerSlot - 1
  /\ type = "F" => u <= SymbolsPerSlot - DlCtrlSymbols

SlotIs(slot, u, k, type, send, made) ==
  /\ slot = [dcis |-> slot.dcis, numSymAlloc |-> NumSym(slot.dcis)]
  /\ Fit(slot.dcis) /\ \A d \in slot.dcis : Belongs(d, k, type, send, made)
  /\ u \in 0 .. SymbolsPerSlot
  /\ ~DlDone(k, type, made) => UlPartOK(slot.dcis, u, type)
  /\ ~DlDone(k, type, made) /\ ~UlDone(k, type, send, made) => slot = EmptySlot /\ u = 0
  /\ DlDone(k, type, made) /\ slot.dcis # {} => DlCtrlDci \in slot.dcis

SlotsOK == \A k \in Ahead : SlotIs(alloc[k], ulSym[k], k, Type(k), SendAt(k), Made)

UlOf(slot) == {d \in slot.dcis : d.kind \in {"UL_DATA", "SRS"}}
DlOf(slot) == {d \in slot.dcis : d.kind = "DL_DATA"}

\* A slot in which nothing is sent, because the triggers never reached it, has no UL DCI
\* to send.
Silent(slot, k, type, made) == DlDone(k, type, made) /\ slot.dcis = {}
SilentOK ==
  \A k, j \in Ahead :
    Silent(alloc[k], k, Type(k), Made) /\ WithUl(Type(j)) /\ j - SendAt(j) = k
      => UlOf(alloc[j]) = {}

MessagesOK ==
  ctrlMsgs = IF phase = "ctrl" /\ alloc[0].dcis # {} THEN Messages(alloc) ELSE {}

\* The UEs know the UL allocations of a slot once their DCIs are sent, and the DL ones of
\* the current slot.
Known(k) == {p.dci : p \in {q \in plan : q.at = k}}

KnownOK(k) ==
  Known(k) = (IF WithUl(Type(k)) /\ k < SendAt(k) + Told THEN UlOf(alloc[k]) ELSE {})
             \cup (IF phase = "data" /\ k = 0 THEN DlOf(alloc[0]) ELSE {})

PlanOK == /\ \A p \in plan : /\ p = [at |-> p.at, k1 |-> p.k1, dci |-> p.dci] /\ p.at \in Ahead
                             /\ p.at = 0 /\ p.dci.kind = "DL_DATA" => p.k1 = HarqK1(pattern, pos)
          /\ \A k \in Ahead : KnownOK(k)

\* The slots n + 1 and later whose DL triggers are over, seen from the current slot: each of
\* them made the process of slot n one older.
DlTriggers(n, made) == {i \in n + 1 .. made + 1 : Type(i) # "UL"}
Young(n) == \E p \in harq : p.at = n /\ p.age <= Cardinality(DlTriggers(n, Made))

FeedbackOK(f) ==
  /\ f = [at |-> f.at, due |-> f.due] /\ f.at \in Int /\ f.at < 0 /\ f.at \notin dlHarqInfo
  /\ f.due >= 0 /\ f.due = f.at + HarqK1(pattern, pos + f.at)
  /\ Young(f.at)

RoundTripOK ==
  /\ \A k \in Ahead : DlOf(alloc[k]) # {} => Young(k)
  /\ \A f \in feedback : FeedbackOK(f)
  /\ \A n \in dlHarqInfo : n \in Int /\ n < 0 /\ \E p \in harq : p.at = n /\ p.age < NumHarqProcess

\* The timer is longer than a round trip: fewer DL triggers than processes follow that of a
\* slot until its feedback has arrived.
RttFits ==
  \A p \in Patterns : \A n \in 0 .. Len(p) - 1 :
    Cardinality({i \in n + 1 .. n + HarqK1(p, n) + L1L2CtrlLatency : SlotType(p, i) # "UL"})
      < NumHarqProcess

OtherTypes ==
  /\ pattern \in Patterns /\ pos \in 0 .. Len(pattern) - 1 /\ phase \in {"start", "ctrl", "data"}
  /\ srs.periodicity \in StandardPeriodicity /\ Attached(srs) \subseteq UEs
  /\ waited \in [UEs -> Nat] /\ srsSlotCounter \in 0 .. SrsCounterRange - 1
  /\ DOMAIN alloc = Ahead /\ DOMAIN ulSym = Ahead
  /\ \A p \in harq : /\ p = [at |-> p.at, age |-> p.age]
                     /\ p.at \in Int /\ p.at <= Lead /\ p.age \in 0 .. NumHarqProcess

SlotInv == OtherTypes /\ SlotsOK /\ SilentOK /\ MessagesOK /\ PlanOK

-----------------------------------------------------------------------------
(* What the triggers allocate. *)

LEMMA ConstantsOK ==
  /\ SymbolsPerSlot \in Nat \ {0} /\ DlCtrlSymbols \in Nat \ {0} /\ SrsSymbols \in Nat \ {0}
  /\ UlCtrlSymbols = 1 /\ SymbolsPerSlot > DlCtrlSymbols + 1 + SrsSymbols
  /\ NumHarqProcess \in Nat \ {0} /\ SrsCounterRange \in Nat \ {0} /\ NoUe \notin UEs
  /\ L1L2CtrlLatency = 2
  BY SlotsAssumption DEF L1L2CtrlLatency

\* The symbols of DCIs that share none are as many as the symbols they cover.
LEMMA DisjointSum ==
  ASSUME NEW D, Disjoint(D), IsFiniteSet(Covered(D))
  PROVE  NumSym(D) = Cardinality(Covered(D))
<1> DEFINE C == Covered(D)  P == UNION {{d} \X Symbols(d) : d \in D}
           Of(s) == CHOOSE d \in D : s \in Symbols(d)
           f == [s \in C |-> <<Of(s), s>>]
<1>1. ASSUME NEW s \in C PROVE Of(s) \in D /\ s \in Symbols(Of(s))
  <2>1. \E d \in D : s \in Symbols(d)
    BY DEF Covered
  <2> QED BY <2>1
<1>2. ASSUME NEW d \in D, NEW s \in Symbols(d) PROVE s \in C /\ Of(s) = d
  <2>1. s \in C
    BY DEF Covered
  <2> QED BY <1>1, <2>1 DEF Disjoint
<1> HIDE DEF C, Of
<1>3. f \in [C -> P]
  BY <1>1
<1>4. \A s, t \in C : f[s] = f[t] => s = t
  OBVIOUS
<1>5. \A x \in P : \E s \in C : f[s] = x
  <2> TAKE x \in P
  <2>1. PICK d \in D : x \in {d} \X Symbols(d)
    OBVIOUS
  <2>2. PICK s \in Symbols(d) : x = <<d, s>>
    BY <2>1
  <2> QED BY <1>2, <2>2
<1>6. f \in Bijection(C, P)
  BY <1>3, <1>4, <1>5 DEF Bijection, Injection, Surjection, IsInjective
<1>7. Cardinality(P) = Cardinality(C)
  BY <1>6, FS_Bijection DEF ExistsBijection, C
<1> QED BY <1>7 DEF NumSym, C

LEMMA FitSum ==
  ASSUME NEW D, Fit(D)
  PROVE  /\ IsFiniteSet(Covered(D)) /\ NumSym(D) = Cardinality(Covered(D))
         /\ NumSym(D) \in 0 .. SymbolsPerSlot
<1>1. SymbolsPerSlot \in Nat /\ SymbolsPerSlot - 1 \in Int
  BY ConstantsOK
<1>2. IsFiniteSet(0 .. SymbolsPerSlot - 1) /\ Cardinality(0 .. SymbolsPerSlot - 1) =< SymbolsPerSlot
  <2>1. 0 \in Int
    OBVIOUS
  <2>2. /\ IsFiniteSet(0 .. SymbolsPerSlot - 1)
        /\ Cardinality(0 .. SymbolsPerSlot - 1)
             = IF 0 > SymbolsPerSlot - 1 THEN 0 ELSE (SymbolsPerSlot - 1) - 0 + 1
    BY <1>1, <2>1, FS_Interval
  <2> QED BY <1>1, <2>2
<1>3. Covered(D) \in SUBSET (0 .. SymbolsPerSlot - 1)
  BY DEF Fit
<1>4. IsFiniteSet(Covered(D)) /\ Cardinality(Covered(D)) =< Cardinality(0 .. SymbolsPerSlot - 1)
  BY <1>2, <1>3, FS_Subset
<1>5. NumSym(D) = Cardinality(Covered(D))
  BY <1>4, DisjointSum DEF Fit
<1>6. Cardinality(Covered(D)) \in Nat /\ Cardinality(0 .. SymbolsPerSlot - 1) \in Nat
  BY <1>2, <1>4, FS_CardinalityType
<1> QED BY <1>1, <1>2, <1>4, <1>5, <1>6

\* Two parts that fit and cover different symbols fit together, and their counts add up.
LEMMA FitUnion ==
  ASSUME NEW A, NEW D, Fit(A), Fit(D), Covered(A) \cap Covered(D) = {}
  PROVE  /\ Fit(A \cup D) /\ Covered(A \cup D) = Covered(A) \cup Covered(D)
         /\ NumSym(A \cup D) = NumSym(A) + NumSym(D)
<1>1. Covered(A \cup D) = Covered(A) \cup Covered(D)
  BY DEF Covered
<1>2. Disjoint(A \cup D)
  <2>1. \A d \in A, e \in D : Symbols(d) \cap Symbols(e) = {}
    BY DEF Covered
  <2> QED BY <2>1 DEF Fit, Disjoint
<1>3. Fit(A \cup D)
  BY <1>1, <1>2 DEF Fit
<1>4. IsFiniteSet(Covered(A)) /\ NumSym(A) = Cardinality(Covered(A)) /\ NumSym(A) \in Int
  BY FitSum
<1>5. IsFiniteSet(Covered(D)) /\ NumSym(D) = Cardinality(Covered(D)) /\ NumSym(D) \in Int
  BY FitSum
<1>6. NumSym(A \cup D) = Cardinality(Covered(A) \cup Covered(D))
  BY <1>1, <1>3, FitSum
<1>7. Cardinality(Covered(A) \cup Covered(D))
        = Cardinality(Covered(A)) + Cardinality(Covered(D)) - Cardinality(Covered(A) \cap Covered(D))
  BY <1>4, <1>5, FS_Union
<1>8. Cardinality(Covered(A) \cap Covered(D)) = 0
  BY FS_EmptySet
<1>9. NumSym(A \cup D) = NumSym(A) + NumSym(D) - 0
  BY <1>4, <1>5, <1>6, <1>7, <1>8
<1>10. NumSym(A \cup D) = NumSym(A) + NumSym(D)
  BY <1>4, <1>5, <1>9
<1> QED BY <1>1, <1>3, <1>10

\* No DCI.
LEMMA FitEmpty == Fit({}) /\ Covered({}) = {} /\ NumSym({}) = 0
<1>1. Covered({}) = {}
  BY DEF Covered
<1>2. Fit({})
  BY <1>1 DEF Fit, Disjoint
<1> QED BY <1>1, <1>2, FitSum, FS_EmptySet

\* A set of DCIs that takes the symbols from a up to z.
Spans(D, a, z) ==
  /\ a \in Nat /\ z \in Nat /\ a <= z
  /\ Fit(D) /\ Covered(D) = a .. z - 1 /\ NumSym(D) = z - a

LEMMA SpansEmpty == ASSUME NEW a \in Nat PROVE Spans({}, a, a)
<1>1. a .. a - 1 = {} /\ a - a = 0
  OBVIOUS
<1> QED BY <1>1, FitEmpty DEF Spans

LEMMA SpansOne ==
  ASSUME NEW d \in Dcis, d.sym + d.num <= SymbolsPerSlot
  PROVE  Spans({d}, d.sym, d.sym + d.num)
<1> DEFINE s == d.sym  n == d.num
<1>1. s \in Nat /\ n \in Nat \ {0}
  BY DEF Dcis
<1>2. Symbols(d) = s .. s + n - 1
  BY DEF Symbols
<1> HIDE DEF s, n
<1>3. Covered({d}) = s .. s + n - 1
  BY <1>2 DEF Covered
<1>4. s .. s + n - 1 \subseteq 0 .. SymbolsPerSlot - 1
  BY <1>1, ConstantsOK DEF s, n
<1>5. Fit({d})
  BY <1>3, <1>4 DEF Fit, Disjoint
<1>6. s + n - 1 \in Int /\ ~(s > s + n - 1) /\ (s + n - 1) - s + 1 = n
  BY <1>1
<1>7. Cardinality(s .. s + n - 1) = n
  BY <1>1, <1>6, FS_Interval
<1>8. NumSym({d}) = n
  BY <1>3, <1>5, <1>7, FitSum
<1>9. s + n \in Nat /\ s <= s + n /\ (s + n) - s = n
  BY <1>1
<1>10. Spans({d}, s, s + n)
  BY <1>1, <1>3, <1>5, <1>8, <1>9 DEF Spans
<1> QED BY <1>10 DEF s, n

\* A part just below another one.
LEMMA SpansBelow ==
  ASSUME NEW A, NEW D, NEW a, NEW b, NEW z, Spans(A, a, z), Spans(D, b, a)
  PROVE  Spans(A \cup D, b, z)
<1>1. a \in Nat /\ b \in Nat /\ z \in Nat /\ b <= a /\ a <= z
  BY DEF Spans
<1>2. /\ Fit(A) /\ Fit(D) /\ Covered(A) = a .. z - 1 /\ Covered(D) = b .. a - 1
      /\ NumSym(A) = z - a /\ NumSym(D) = a - b
  BY DEF Spans
<1>3. (a .. z - 1) \cap (b .. a - 1) = {} /\ (a .. z - 1) \cup (b .. a - 1) = b .. z - 1
  BY <1>1
<1>4. /\ Fit(A \cup D) /\ Covered(A \cup D) = b .. z - 1
      /\ NumSym(A \cup D) = NumSym(A) + NumSym(D)
  BY <1>2, <1>3, FitUnion
<1>5. (z - a) + (a - b) = z - b /\ b <= z
  BY <1>1
<1> QED BY <1>1, <1>2, <1>4, <1>5 DEF Spans

LEMMA LastUlSymOK ==
  /\ LastUlSym \in Nat /\ LastUlSym = SymbolsPerSlot - 1 /\ SrsSymbols < LastUlSym
  /\ LastUlSym + 1 = SymbolsPerSlot
  BY ConstantsOK DEF LastUlSym

\* The SRS of a UE takes the symbols before the UL CTRL.
LEMMA SrsFits ==
  ASSUME NEW u \in UEs \cup {NoUe}
  PROVE  /\ NumSym(SrsDcis(u)) \in 0 .. SrsSymbols
         /\ Spans(SrsDcis(u), LastUlSym - NumSym(SrsDcis(u)), LastUlSym)
         /\ \A d \in SrsDcis(u) : d.kind = "SRS"
<1>1. CASE u = NoUe
  <2>1. SrsDcis(u) = {}
    BY <1>1 DEF SrsDcis
  <2>2. NumSym(SrsDcis(u)) = 0 /\ Spans(SrsDcis(u), LastUlSym, LastUlSym)
    BY <2>1, FitEmpty, SpansEmpty, LastUlSymOK
  <2>3. 0 \in 0 .. SrsSymbols /\ LastUlSym - 0 = LastUlSym
    BY LastUlSymOK, ConstantsOK
  <2> QED BY <2>1, <2>2, <2>3
<1>2. CASE u # NoUe
  <2> DEFINE D == SrsDcis(u)  One(i) == Dci("SRS", u, LastUlSym - i, 1)
  <2>1. D = {One(i) : i \in 1 .. SrsSymbols}
    BY <1>2 DEF SrsDcis
  <2>2. LastUlSym = SymbolsPerSlot - 1 /\ LastUlSym \in Nat /\ SrsSymbols < LastUlSym
    BY LastUlSymOK
  <2>3. ASSUME NEW i \in 1 .. SrsSymbols
        PROVE  /\ One(i) \in Dcis /\ One(i).kind = "SRS" /\ Symbols(One(i)) = {LastUlSym - i}
               /\ LastUlSym - i \in 0 .. SymbolsPerSlot - 1
    <3>1. /\ LastUlSym - i \in Nat /\ 1 \in Nat \ {0} /\ "SRS" \in Kinds
          /\ LastUlSym - i \in 0 .. SymbolsPerSlot - 1
      BY <2>2, ConstantsOK DEF Kinds
    <3>2. (LastUlSym - i) .. (LastUlSym - i) + 1 - 1 = {LastUlSym - i}
      BY <3>1
    <3> QED BY <3>1, <3>2 DEF Dci, Dcis, Symbols
  <2> HIDE DEF One
  <2>4. D \subseteq Dcis /\ \A d \in D : d.kind = "SRS"
    BY <2>1, <2>3
  <2>5. Disjoint(D)
    <3>1. ASSUME NEW i \in 1 .. SrsSymbols, NEW j \in 1 .. SrsSymbols, One(i) # One(j)
          PROVE  Symbols(One(i)) \cap Symbols(One(j)) = {}
      <4>1. i # j
        BY <3>1
      <4>2. LastUlSym - i # LastUlSym - j
        BY <2>2, <4>1
      <4> QED BY <2>3, <4>2
    <3> QED BY <2>1, <3>1 DEF Disjoint
  <2>6. Covered(D) = {LastUlSym - i : i \in 1 .. SrsSymbols}
    BY <2>1, <2>3 DEF Covered
  <2>7. {LastUlSym - i : i \in 1 .. SrsSymbols} = LastUlSym - SrsSymbols .. LastUlSym - 1
    <3>1. ASSUME NEW s \in LastUlSym - SrsSymbols .. LastUlSym - 1
          PROVE  \E i \in 1 .. SrsSymbols : s = LastUlSym - i
      <4>1. LastUlSym - s \in 1 .. SrsSymbols /\ s = LastUlSym - (LastUlSym - s)
        BY <2>2, ConstantsOK
      <4> QED BY <4>1
    <3>2. \A i \in 1 .. SrsSymbols : LastUlSym - i \in LastUlSym - SrsSymbols .. LastUlSym - 1
      BY <2>2, ConstantsOK
    <3> QED BY <3>1, <3>2
  <2>8. LastUlSym - SrsSymbols .. LastUlSym - 1 \subseteq 0 .. SymbolsPerSlot - 1
    BY <2>2, ConstantsOK
  <2>9. Fit(D)
    BY <2>4, <2>5, <2>6, <2>7, <2>8 DEF Fit
  <2>10. NumSym(D) = SrsSymbols
    <3> DEFINE a == LastUlSym - SrsSymbols  z == LastUlSym - 1
    <3>1. a \in Int /\ z \in Int /\ ~(a > z) /\ z - a + 1 = SrsSymbols
      BY <2>2, ConstantsOK
    <3> HIDE DEF a, z
    <3>2. Cardinality(a .. z) = SrsSymbols
      BY <3>1, FS_Interval
    <3> QED BY <2>6, <2>7, <2>9, <3>2, FitSum DEF a, z
  <2>11. /\ LastUlSym - SrsSymbols \in Nat /\ LastUlSym - SrsSymbols <= LastUlSym
         /\ LastUlSym - (LastUlSym - SrsSymbols) = SrsSymbols
    BY <2>2, ConstantsOK
  <2>12. Spans(D, LastUlSym - SrsSymbols, LastUlSym)
    BY <2>2, <2>6, <2>7, <2>9, <2>10, <2>11 DEF Spans
  <2>13. SrsSymbols \in 0 .. SrsSymbols
    BY ConstantsOK
  <2> HIDE DEF D
  <2>14. NumSym(D) \in 0 .. SrsSymbols /\ Spans(D, LastUlSym - NumSym(D), LastUlSym)
    BY <2>10, <2>12, <2>13
  <2> QED BY <2>4, <2>14 DEF D
<1> QED BY <1>1, <1>2

\* The UE that sounds is attached, if there is one.
LEMMA SrsUeOK ==
  ASSUME NEW n, Attached(srs) \subseteq UEs, NEW u \in SrsUe(n)
  PROVE  u \in UEs \cup {NoUe}
<1>1. \A b \in Attached(srs) : DueUe(n, b) \subseteq UEs \cup {NoUe}
  BY DEF DueUe
<1> QED BY <1>1 DEF SrsUe

\* A share is one UE's and lies within the room.
LEMMA ShareOK ==
  ASSUME NEW users, NEW room \in Nat, NEW s \in Shares(users, room)
  PROVE  s[1] \in users /\ s[2] \in 1 .. room
<1>1. room # 0 /\ s \in users \X {1, room}
  BY DEF Shares
<1> QED BY <1>1

\* The room an UL trigger has for data.
LEMMA UlRoomOK ==
  ASSUME NEW k, NEW S, NumSym(S) \in 0 .. SrsSymbols
  PROVE  /\ UlRoom(k, S) \in Nat /\ LastUlSym - NumSym(S) \in Nat
         /\ UlRoom(k, S) <= LastUlSym - NumSym(S)
         /\ Type(k) = "F" => UlRoom(k, S) <= LastUlSym - NumSym(S) - DlCtrlSymbols
<1> DEFINE m == NumSym(S)
<1>1. m \in Nat /\ m <= SrsSymbols
  BY ConstantsOK
<1>2. UlRoom(k, S) = SymbolsPerSlot - 1 - (IF Type(k) = "F" THEN DlCtrlSymbols ELSE 0) - m
  BY ConstantsOK DEF UlRoom
<1> HIDE DEF m
<1>3. CASE Type(k) = "F"
  <2>1. UlRoom(k, S) = SymbolsPerSlot - 1 - DlCtrlSymbols - m
    BY <1>2, <1>3
  <2>2. /\ UlRoom(k, S) \in Nat /\ LastUlSym - m \in Nat /\ UlRoom(k, S) <= LastUlSym - m
        /\ UlRoom(k, S) <= LastUlSym - m - DlCtrlSymbols
    BY <1>1, <2>1, ConstantsOK, LastUlSymOK
  <2> QED BY <2>2 DEF m
<1>4. CASE Type(k) # "F"
  <2>1. UlRoom(k, S) = SymbolsPerSlot - 1 - 0 - m
    BY <1>2, <1>4
  <2>2. UlRoom(k, S) \in Nat /\ LastUlSym - m \in Nat /\ UlRoom(k, S) <= LastUlSym - m
    BY <1>1, <2>1, ConstantsOK, LastUlSymOK
  <2> QED BY <1>4, <2>2 DEF m
<1> QED BY <1>3, <1>4

\* An UL trigger fills the slot from its end, and leaves the DL CTRL of a slot F free.
LEMMA UlDcisOK ==
  ASSUME NEW k, NEW n, Attached(srs) \subseteq UEs, NEW D \in UlDcis(k, n)
  PROVE  /\ Fit(D) /\ D # {} /\ NumSym(D) \in 0 .. SymbolsPerSlot
         /\ Covered(D) \subseteq SymbolsPerSlot - NumSym(D) .. SymbolsPerSlot - 1
         /\ Type(k) = "F" => NumSym(D) <= SymbolsPerSlot - DlCtrlSymbols
         /\ \A d \in D : d = UlCtrlDci \/ d.kind \in {"UL_DATA", "SRS"}
<1>1. PICK u \in SrsUe(n) : D \in UlDcisWith(k, SrsDcis(u), Attached(srs) \ {u})
  BY DEF UlDcis
<1> DEFINE S == SrsDcis(u)  m == NumSym(S)  last == LastUlSym - m  room == UlRoom(k, S)
           users == Attached(srs) \ {u}  C == {UlCtrlDci} \cup S
           One(s) == Dci("UL_DATA", s[1], last - s[2], s[2])
<1>2. D = C \/ \E s \in Shares(users, room) : D = C \cup {One(s)}
  BY <1>1 DEF UlDcisWith
<1>3. /\ m \in 0 .. SrsSymbols /\ Spans(S, last, LastUlSym)
      /\ \A d \in S : d.kind = "SRS"
  BY SrsUeOK, SrsFits
<1>4. /\ room \in Nat /\ last \in Nat /\ room <= last
      /\ Type(k) = "F" => room <= last - DlCtrlSymbols
  BY <1>3, UlRoomOK
<1>5. Type(k) = "F" => DlCtrlSymbols <= last
  BY <1>4, ConstantsOK
<1> HIDE DEF S, m, last, room
<1>6. Spans({UlCtrlDci}, LastUlSym, SymbolsPerSlot)
  <2>1. UlCtrlDci \in Dcis /\ UlCtrlDci.sym = LastUlSym /\ UlCtrlDci.num = 1
    BY ConstantsOK, LastUlSymOK DEF UlCtrlDci, Dci, Dcis, Kinds, Ctrl
  <2> QED BY <2>1, SpansOne, LastUlSymOK, ConstantsOK
<1>7. Spans(C, last, SymbolsPerSlot)
  BY <1>3, <1>6, SpansBelow
<1>8. \A d \in C : d = UlCtrlDci \/ d.kind \in {"UL_DATA", "SRS"}
  BY <1>3
<1>9. PICK a : /\ Spans(D, a, SymbolsPerSlot) /\ (Type(k) = "F" => DlCtrlSymbols <= a)
               /\ \A d \in D : d = UlCtrlDci \/ d.kind \in {"UL_DATA", "SRS"}
  <2>1. CASE D = C
    BY <1>5, <1>7, <1>8, <2>1
  <2>2. CASE D # C
    <3>1. PICK s \in Shares(users, room) : D = C \cup {One(s)}
      BY <1>2, <2>2
    <3> DEFINE num == s[2]
    <3>2. s[1] \in users /\ num \in 1 .. room
      BY <1>4, ShareOK
    <3> HIDE DEF num
    <3>3. /\ num \in Nat \ {0} /\ last - num \in Nat /\ (last - num) + num = last
          /\ Type(k) = "F" => DlCtrlSymbols <= last - num
      BY <1>4, <3>2, ConstantsOK
    <3>4. last <= SymbolsPerSlot
      BY <1>7 DEF Spans
    <3>5. /\ One(s) \in Dcis /\ One(s).sym = last - num /\ One(s).num = num
          /\ One(s).kind = "UL_DATA"
      BY <3>2, <3>3 DEF Dci, Dcis, Kinds, num
    <3> HIDE DEF One
    <3>6. Spans({One(s)}, last - num, last)
      BY <3>3, <3>4, <3>5, SpansOne
    <3>7. Spans(D, last - num, SymbolsPerSlot)
      BY <1>7, <3>1, <3>6, SpansBelow
    <3> QED BY <1>8, <3>1, <3>3, <3>5, <3>7
  <2> QED BY <2>1, <2>2
<1>10. /\ Fit(D) /\ Covered(D) = a .. SymbolsPerSlot - 1 /\ NumSym(D) = SymbolsPerSlot - a
       /\ a \in Nat
  BY <1>9 DEF Spans
<1>11. SymbolsPerSlot - (SymbolsPerSlot - a) = a
  BY <1>10, ConstantsOK
<1>12. Type(k) = "F" => SymbolsPerSlot - a <= SymbolsPerSlot - DlCtrlSymbols
  BY <1>9, <1>10, ConstantsOK
<1>13. NumSym(D) \in 0 .. SymbolsPerSlot
  BY <1>10, FitSum
<1> QED BY <1>2, <1>9, <1>10, <1>11, <1>12, <1>13


\* A DL trigger fills the slot from its start, up to the UL symbols it knows of.
LEMMA DlDcisOK ==
  ASSUME NEW k, Attached(srs) \subseteq UEs, NEW t \in Nat, t = TotUlSym(k),
         t <= SymbolsPerSlot - DlCtrlSymbols, Type(k) = "S" => t = 1, NEW D \in DlDcis(k)
  PROVE  /\ Fit(D) /\ DlCtrlDci \in D
         /\ Type(k) # "S" => Covered(D) \subseteq 0 .. SymbolsPerSlot - t - 1
         /\ \A d \in D : \/ d = DlCtrlDci \/ d.kind = "DL_DATA"
                         \/ d = UlCtrlDci /\ Type(k) = "S"
<1> DEFINE room == SymbolsPerSlot - DlCtrlSymbols - t
           One(s) == Dci("DL_DATA", s[1], DlCtrlSymbols, s[2])
           users == Attached(srs)  C == DlCtrlDcis(k)
<1>1. D = C \/ \E s \in Shares(users, room) : D = C \cup {One(s)}
  BY DEF DlDcis
<1>2. room \in Nat /\ DlCtrlSymbols + room = SymbolsPerSlot - t /\ DlCtrlSymbols \in Nat \ {0}
  BY ConstantsOK
<1>3. Spans({DlCtrlDci}, 0, DlCtrlSymbols)
  <2>1. DlCtrlDci \in Dcis /\ DlCtrlDci.sym = 0 /\ DlCtrlDci.num = DlCtrlSymbols
    BY ConstantsOK DEF DlCtrlDci, Dci, Dcis, Kinds, Ctrl
  <2>2. 0 + DlCtrlSymbols = DlCtrlSymbols /\ DlCtrlSymbols <= SymbolsPerSlot
    BY ConstantsOK
  <2> QED BY <2>1, <2>2, SpansOne
<1>4. C = IF Type(k) = "S" THEN {DlCtrlDci} \cup {UlCtrlDci} ELSE {DlCtrlDci}
  BY DEF DlCtrlDcis
<1> HIDE DEF C, room
\* The part from the start of the slot.
<1>5. PICK B : /\ D = B \cup (IF Type(k) = "S" THEN {UlCtrlDci} ELSE {})
               /\ DlCtrlDci \in B /\ \A d \in B : d = DlCtrlDci \/ d.kind = "DL_DATA"
               /\ Fit(B) /\ Covered(B) \subseteq 0 .. SymbolsPerSlot - t - 1
  <2>1. CASE D = C
    <3> DEFINE B == {DlCtrlDci}
    <3>1. D = B \cup (IF Type(k) = "S" THEN {UlCtrlDci} ELSE {})
      BY <1>4, <2>1
    <3>2. Fit(B) /\ Covered(B) = 0 .. DlCtrlSymbols - 1
      BY <1>3 DEF Spans
    <3>3. 0 .. DlCtrlSymbols - 1 \subseteq 0 .. SymbolsPerSlot - t - 1
      BY <1>2, ConstantsOK
    <3> QED BY <3>1, <3>2, <3>3
  <2>2. CASE D # C
    <3>1. PICK s \in Shares(users, room) : D = C \cup {One(s)}
      BY <1>1, <2>2
    <3> DEFINE num == s[2]  B == {One(s)} \cup {DlCtrlDci}
    <3>2. s[1] \in users /\ num \in 1 .. room
      BY <1>2, ShareOK
    <3> HIDE DEF num
    <3>3. num \in Nat \ {0} /\ DlCtrlSymbols + num <= SymbolsPerSlot
      BY <1>2, <3>2, ConstantsOK
    <3>4. /\ One(s) \in Dcis /\ One(s).sym = DlCtrlSymbols /\ One(s).num = num
          /\ One(s).kind = "DL_DATA"
      BY <1>2, <3>2, <3>3 DEF Dci, Dcis, Kinds, num
    <3> HIDE DEF One
    <3>5. Spans({One(s)}, DlCtrlSymbols, DlCtrlSymbols + num)
      BY <3>3, <3>4, SpansOne
    <3>6. Spans(B, 0, DlCtrlSymbols + num)
      BY <1>3, <3>5, SpansBelow
    <3>7. Fit(B) /\ Covered(B) = 0 .. (DlCtrlSymbols + num) - 1
      BY <3>6 DEF Spans
    <3>8. 0 .. (DlCtrlSymbols + num) - 1 \subseteq 0 .. SymbolsPerSlot - t - 1
      BY <1>2, <3>2, ConstantsOK
    <3>9. D = B \cup (IF Type(k) = "S" THEN {UlCtrlDci} ELSE {})
      BY <1>4, <3>1
    <3>10. Covered(B) \subseteq 0 .. SymbolsPerSlot - t - 1
      BY <3>7, <3>8
    <3>11. DlCtrlDci \in B /\ \A d \in B : d = DlCtrlDci \/ d.kind = "DL_DATA"
      BY <3>4
    <3> HIDE DEF B
    <3> QED BY <3>7, <3>9, <3>10, <3>11
  <2> QED BY <2>1, <2>2
<1>6. CASE Type(k) # "S"
  <2>1. D = B
    BY <1>5, <1>6
  <2> QED BY <1>5, <1>6, <2>1
<1>7. CASE Type(k) = "S"
  <2>1. D = B \cup {UlCtrlDci}
    BY <1>5, <1>7
  <2>2. UlCtrlDci \in Dcis /\ UlCtrlDci.sym = LastUlSym /\ UlCtrlDci.num = 1
    BY ConstantsOK, LastUlSymOK DEF UlCtrlDci, Dci, Dcis, Kinds, Ctrl
  <2>3. Spans({UlCtrlDci}, LastUlSym, SymbolsPerSlot)
    <3>1. UlCtrlDci.sym + UlCtrlDci.num = SymbolsPerSlot /\ SymbolsPerSlot <= SymbolsPerSlot
      BY <2>2, LastUlSymOK, ConstantsOK
    <3> HIDE DEF UlCtrlDci
    <3> QED BY <2>2, <3>1, SpansOne
  <2>4. Fit({UlCtrlDci}) /\ Covered({UlCtrlDci}) = LastUlSym .. SymbolsPerSlot - 1
    BY <2>3 DEF Spans
  <2>5. (0 .. SymbolsPerSlot - t - 1) \cap (LastUlSym .. SymbolsPerSlot - 1) = {}
    BY <1>7, LastUlSymOK, ConstantsOK
  <2>6. Covered(B) \cap Covered({UlCtrlDci}) = {}
    BY <1>5, <2>4, <2>5
  <2>7. Fit(B \cup {UlCtrlDci})
    BY <1>5, <2>4, <2>6, FitUnion
  <2>8. Fit(D)
    BY <2>1, <2>7
  <2> QED BY <1>5, <1>7, <2>1, <2>8
<1> QED BY <1>6, <1>7

-----------------------------------------------------------------------------
(* The step of the triggers. *)

NewSlot(ul, dl, k) ==
  IF k \in GenerateDl(pattern, pos)
  THEN Merge(IF k \in GenerateUl(pattern, pos) THEN Merge(alloc[k], ul[k]) ELSE alloc[k], dl[k])
  ELSE IF k \in GenerateUl(pattern, pos) THEN Merge(alloc[k], ul[k]) ELSE alloc[k]

NewUlSym(ul, k) ==
  IF k \in GenerateUl(pattern, pos) THEN ulSym[k] + NumSym(ul[k])
  ELSE IF k \in GenerateDl(pattern, pos) /\ TotUlSym(k) <= UlCtrlSymbols THEN 0
  ELSE IF k \in GenerateDl(pattern, pos) THEN TotUlSym(k) ELSE ulSym[k]

Triggers(ul, dl) ==
  /\ \A k \in GenerateUl(pattern, pos) : ul[k] \in UlDcis(k, srsSlotCounter + Rank(k))
  /\ \A k \in GenerateDl(pattern, pos) : dl[k] \in DlDcis(k)
  /\ alloc' = [k \in Ahead |-> NewSlot(ul, dl, k)]
  /\ ulSym' = [k \in Ahead |-> NewUlSym(ul, k)]
  /\ IF GenerateDl(pattern, pos) = {} THEN UNCHANGED <<harq, dlHarqInfo>>
     ELSE /\ harq' = {p \in Aged(harq) : p.at \notin dlHarqInfo}
                     \cup {[at |-> k, age |-> 0] : k \in {j \in GenerateDl(pattern, pos) :
                                                            \E d \in dl[j] : d.kind = "DL_DATA"}}
          /\ dlHarqInfo' = {}

\* StartSlot as two choices of DCIs.
LEMMA StartSlotTriggers ==
  ASSUME StartSlot
  PROVE  /\ phase = "start" /\ phase' = "ctrl" /\ UNCHANGED <<pattern, pos, srs, plan, feedback>>
         /\ \E ul, dl : Triggers(ul, dl)
         /\ ctrlMsgs' = ctrlMsgs \cup IF alloc'[0].dcis = {} THEN {} ELSE Messages(alloc')
  BY DEF StartSlot, Triggers, NewSlot, NewUlSym

-----------------------------------------------------------------------------
(* What becomes of one slot. *)

\* What a trigger adds to a slot.
IsUlPart(D, type) ==
  /\ Fit(D) /\ NumSym(D) \in 0 .. SymbolsPerSlot
  /\ Covered(D) \subseteq SymbolsPerSlot - NumSym(D) .. SymbolsPerSlot - 1
  /\ type = "F" => NumSym(D) <= SymbolsPerSlot - DlCtrlSymbols
  /\ \A d \in D : d = UlCtrlDci \/ d.kind \in {"UL_DATA", "SRS"}

IsDlPart(D, type, t) ==
  /\ Fit(D) /\ DlCtrlDci \in D
  /\ type # "S" => Covered(D) \subseteq 0 .. SymbolsPerSlot - t - 1
  /\ \A d \in D : \/ d = DlCtrlDci \/ d.kind = "DL_DATA"
                  \/ d = UlCtrlDci /\ type = "S"

LEMMA EmptySlotIs ==
  ASSUME NEW k \in Int, NEW type, NEW send
  PROVE  SlotIs(EmptySlot, 0, k, type, send, 0)
<1>1. /\ EmptySlot.dcis = {} /\ EmptySlot.numSymAlloc = NumSym({})
      /\ EmptySlot = [dcis |-> EmptySlot.dcis, numSymAlloc |-> NumSym(EmptySlot.dcis)]
  BY FitEmpty DEF EmptySlot
<1>2. UlPartOK({}, 0, type) /\ 0 \in 0 .. SymbolsPerSlot
  BY FitEmpty, ConstantsOK DEF UlPartOK
<1>3. Fit(EmptySlot.dcis)
  BY <1>1, FitEmpty
<1> QED BY <1>1, <1>2, <1>3 DEF SlotIs

\* A merged slot is counted exactly when its two parts share no symbol.
LEMMA Merged ==
  ASSUME NEW s, NEW D, s = [dcis |-> s.dcis, numSymAlloc |-> NumSym(s.dcis)],
         Fit(s.dcis), Fit(D), Covered(s.dcis) \cap Covered(D) = {}
  PROVE  /\ Merge(s, D).dcis = s.dcis \cup D /\ Fit(Merge(s, D).dcis)
         /\ Merge(s, D) = [dcis |-> Merge(s, D).dcis, numSymAlloc |-> NumSym(Merge(s, D).dcis)]
<1>1. s.numSymAlloc = NumSym(s.dcis)
  OBVIOUS
<1>2. Fit(s.dcis \cup D) /\ NumSym(s.dcis \cup D) = NumSym(s.dcis) + NumSym(D)
  BY FitUnion
<1> QED BY <1>1, <1>2 DEF Merge

\* The UL trigger finds the slot empty.
LEMMA UlTriggered ==
  ASSUME NEW s, NEW u, NEW k \in Int, NEW type, NEW send \in Int, NEW D,
         SlotIs(s, u, k, type, send, 0), WithUl(type), k = 2 + send, k > 2, IsUlPart(D, type)
  PROVE  /\ s = EmptySlot /\ u = 0
         /\ SlotIs(Merge(s, D), u + NumSym(D), k, type, send, 1)
<1>1. ~DlDone(k, type, 0) /\ ~UlDone(k, type, send, 0)
  BY DEF DlDone, UlDone
<1>2. ~DlDone(k, type, 1) /\ UlDone(k, type, send, 1) /\ type # "DL"
  BY DEF DlDone, UlDone, WithUl
<1>3. s = EmptySlot /\ u = 0
  BY <1>1 DEF SlotIs
<1>4. /\ s.dcis = {} /\ s = [dcis |-> s.dcis, numSymAlloc |-> NumSym(s.dcis)]
  BY <1>3, FitEmpty DEF EmptySlot
<1>5. /\ Fit(D) /\ NumSym(D) \in 0 .. SymbolsPerSlot
  BY DEF IsUlPart
<1>6. Fit(s.dcis) /\ Covered(s.dcis) = {}
  BY <1>4, FitEmpty
<1>7. /\ Merge(s, D).dcis = D /\ Fit(D)
      /\ Merge(s, D) = [dcis |-> Merge(s, D).dcis, numSymAlloc |-> NumSym(Merge(s, D).dcis)]
  BY <1>4, <1>5, <1>6, Merged
<1>8. u + NumSym(D) = NumSym(D)
  BY <1>3, <1>5, ConstantsOK
<1>9. UlPartOK(D, NumSym(D), type)
  BY DEF UlPartOK, IsUlPart
<1>10. \A d \in D : Belongs(d, k, type, send, 1)
  BY <1>2 DEF Belongs, IsUlPart
<1> HIDE DEF Merge, Belongs
<1> QED BY <1>2, <1>3, <1>5, <1>7, <1>8, <1>9, <1>10 DEF SlotIs

\* The DL trigger finds the UL part at the end of the slot.
LEMMA DlTriggered ==
  ASSUME NEW s, NEW u, NEW type, NEW send \in Int, NEW D, NEW t, NEW v \in 0 .. SymbolsPerSlot,
         SlotIs(s, u, 2, type, send, 0), type \in Types, type # "UL", send >= 1,
         IsDlPart(D, type, t), t = u \/ type = "S"
  PROVE  /\ SlotIs(Merge(s, D), v, 2, type, send, 1)
         /\ type # "F" => s = EmptySlot /\ u = 0
         /\ Merge(s, D).dcis = s.dcis \cup D /\ u \in 0 .. SymbolsPerSlot
<1>1. ~DlDone(2, type, 0) /\ (type # "F" => ~UlDone(2, type, send, 0))
  BY DEF DlDone, UlDone, WithUl, Types
<1>2. DlDone(2, type, 1)
  BY DEF DlDone
<1>3. type # "F" => s = EmptySlot /\ u = 0
  BY <1>1 DEF SlotIs
<1>4. /\ Fit(s.dcis) /\ s = [dcis |-> s.dcis, numSymAlloc |-> NumSym(s.dcis)]
      /\ Covered(s.dcis) \subseteq SymbolsPerSlot - u .. SymbolsPerSlot - 1
      /\ u \in 0 .. SymbolsPerSlot /\ \A d \in s.dcis : Belongs(d, 2, type, send, 0)
  BY <1>1 DEF SlotIs, UlPartOK
<1>5. Covered(s.dcis) \cap Covered(D) = {}
  <2>1. CASE type = "F"
    <3>1. Covered(D) \subseteq 0 .. SymbolsPerSlot - u - 1
      BY <2>1 DEF IsDlPart
    <3>2. (SymbolsPerSlot - u .. SymbolsPerSlot - 1) \cap (0 .. SymbolsPerSlot - u - 1) = {}
      BY <1>4, ConstantsOK
    <3> QED BY <1>4, <3>1, <3>2
  <2>2. CASE type # "F"
    <3>1. s.dcis = {}
      BY <1>3, <2>2 DEF EmptySlot
    <3> QED BY <3>1, FitEmpty
  <2> QED BY <2>1, <2>2
<1>6. Fit(D)
  BY DEF IsDlPart
<1>7. /\ Merge(s, D).dcis = s.dcis \cup D /\ Fit(Merge(s, D).dcis)
      /\ Merge(s, D) = [dcis |-> Merge(s, D).dcis, numSymAlloc |-> NumSym(Merge(s, D).dcis)]
  BY <1>4, <1>5, <1>6, Merged
<1>8. \A d \in s.dcis \cup D : Belongs(d, 2, type, send, 1)
  <2>1. ASSUME NEW d \in D PROVE Belongs(d, 2, type, send, 1)
    <3>1. d = DlCtrlDci \/ d.kind = "DL_DATA" \/ (d = UlCtrlDci /\ type = "S")
      BY DEF IsDlPart
    <3>2. type = "S" => type # "DL"
      OBVIOUS
    <3> QED BY <1>2, <3>1, <3>2 DEF Belongs
  <2>2. ASSUME NEW d \in s.dcis PROVE Belongs(d, 2, type, send, 1)
    <3>1. Belongs(d, 2, type, send, 0)
      BY <1>4
    <3>2. UlDone(2, type, send, 0) => UlDone(2, type, send, 1)
      BY DEF UlDone
    <3> QED BY <1>1, <1>2, <3>1, <3>2 DEF Belongs
  <2> QED BY <2>1, <2>2
<1>9. DlCtrlDci \in Merge(s, D).dcis
  BY <1>7 DEF IsDlPart
<1>10. SlotIs(Merge(s, D), v, 2, type, send, 1)
  <2> HIDE DEF Merge, Belongs
  <2> QED BY <1>2, <1>7, <1>8, <1>9 DEF SlotIs
<1> QED BY <1>3, <1>4, <1>7, <1>10

\* A slot that no trigger is about.
LEMMA NotTriggered ==
  ASSUME NEW s, NEW u, NEW k \in Int, NEW type, NEW send \in Int,
         SlotIs(s, u, k, type, send, 0), k = 2 => type = "UL"
  PROVE  SlotIs(s, u, k, type, send, 1)
<1>1. DlDone(k, type, 1) <=> DlDone(k, type, 0)
  BY DEF DlDone
<1>2. UlDone(k, type, send, 0) => UlDone(k, type, send, 1)
  BY DEF UlDone
<1>3. \A d : Belongs(d, k, type, send, 0) => Belongs(d, k, type, send, 1)
  BY <1>1, <1>2 DEF Belongs
<1> QED BY <1>1, <1>2, <1>3 DEF SlotIs

\* The next slot: everything is one slot nearer.
LEMMA Nearer ==
  ASSUME NEW s, NEW u, NEW k \in Int, NEW type, NEW send \in Int, SlotIs(s, u, k + 1, type, send, 1)
  PROVE  SlotIs(s, u, k, type, send, 0)
<1>1. DlDone(k + 1, type, 1) <=> DlDone(k, type, 0)
  BY DEF DlDone
<1>2. UlDone(k + 1, type, send, 1) <=> UlDone(k, type, send, 0)
  BY DEF UlDone
<1>3. \A d : Belongs(d, k + 1, type, send, 1) => Belongs(d, k, type, send, 0)
  BY <1>1, <1>2 DEF Belongs
<1> QED BY <1>1, <1>2, <1>3 DEF SlotIs

\* The numbers of the invariant are numbers.
LEMMA Numbers ==
  ASSUME pattern \in Patterns, pos \in 0 .. Len(pattern) - 1
  PROVE  /\ pos \in Int /\ Lead \in Nat /\ Lead >= 2 /\ 0 \in Ahead /\ 2 \in Ahead
         /\ \A k \in Int : /\ Type(k) \in Types /\ SendAt(k) \in Int /\ SendAt(k) >= 1
                           /\ Type(k - SendAt(k)) # "UL"
         /\ \A k \in Ahead : k \in Nat /\ k <= Lead
         /\ \A k \in Ahead : k # Lead => k + 1 \in Ahead
         /\ GenerateDl(pattern, pos) \subseteq Ahead /\ GenerateUl(pattern, pos) \subseteq Ahead
<1>1. Len(pattern) \in Nat \ {0} /\ N2Delay \in Nat \ {0}
  BY PatternOK
<1>2. pos \in Int
  BY <1>1
<1>3. /\ Lead \in Nat /\ Lead >= 2
      /\ GenerateDl(pattern, pos) \subseteq Ahead /\ GenerateUl(pattern, pos) \subseteq Ahead
  BY LeadOK
<1>4. ASSUME NEW k \in Int
      PROVE  /\ Type(k) \in Types /\ SendAt(k) \in Int /\ SendAt(k) >= 1
             /\ Type(k - SendAt(k)) # "UL"
  <2>1. pos + k \in Int
    BY <1>2
  <2>2. Type(k) \in Types
    BY <2>1, PatternOK DEF Type
  <2>3. /\ SendAt(k) \in N2Delay .. N2Delay + Len(pattern)
        /\ SlotType(pattern, (pos + k) - SendAt(k)) # "UL"
    BY <1>1, <2>1, DciKOK DEF SendAt
  <2>4. SendAt(k) \in Int /\ SendAt(k) >= 1
    BY <1>1, <2>3
  <2>5. (pos + k) - SendAt(k) = pos + (k - SendAt(k))
    BY <1>2, <2>4
  <2> QED BY <2>2, <2>3, <2>4, <2>5 DEF Type
<1>5. /\ \A k \in Ahead : k \in Nat /\ k <= Lead
      /\ \A k \in Ahead : k # Lead => k + 1 \in Ahead
      /\ 0 \in Ahead /\ 2 \in Ahead
  BY <1>3 DEF Ahead
<1> QED BY <1>2, <1>3, <1>4, <1>5

\* What a trigger step does to a slot.
UlAdded(k) == /\ k # 2 /\ alloc[k].dcis = {} /\ WithUl(Type(k)) /\ k = 2 + SendAt(k)
              /\ IsUlPart(alloc'[k].dcis, Type(k))
DlAdded(k, D) == /\ k = 2 /\ Type(k) # "UL" /\ D # {}
                 /\ \A d \in D : d.kind \notin {"UL_DATA", "SRS"}
                 /\ alloc'[k].dcis = alloc[k].dcis \cup D
Kept(k) == alloc'[k] = alloc[k] /\ (k = 2 => Type(k) = "UL")

LEMMA SlotTriggered ==
  ASSUME OtherTypes, SlotsOK, phase = "start",
         NEW ul, NEW dl, Triggers(ul, dl), NEW k \in Ahead
  PROVE  /\ SlotIs(alloc'[k], ulSym'[k], k, Type(k), SendAt(k), 1)
         /\ UlAdded(k) \/ Kept(k) \/ (k \in GenerateDl(pattern, pos) /\ DlAdded(k, dl[k]))
<1> DEFINE uls == GenerateUl(pattern, pos)  dls == GenerateDl(pattern, pos)
<1>1. /\ pattern \in Patterns /\ pos \in 0 .. Len(pattern) - 1 /\ Attached(srs) \subseteq UEs
  BY DEF OtherTypes
<1>2. /\ k \in Int /\ 2 \in Int /\ pos \in Int /\ Type(k) \in Types /\ SendAt(k) \in Int /\ SendAt(k) >= 1
  BY <1>1, Numbers
<1>3. SlotIs(alloc[k], ulSym[k], k, Type(k), SendAt(k), 0)
  BY DEF SlotsOK, Made
<1>4. alloc'[k] = NewSlot(ul, dl, k) /\ ulSym'[k] = NewUlSym(ul, k)
  BY DEF Triggers
<1>5. /\ dls = IF Type(2) = "UL" THEN {} ELSE {2}
      /\ \A j \in uls : j > 2 /\ WithUl(Type(j)) /\ j = 2 + SendAt(j)
  BY <1>1, <1>2, GenerateOK DEF Type, SendAt, WithUl
<1>6. CASE k \in uls
  <2>1. k > 2 /\ k # 2 /\ WithUl(Type(k)) /\ k = 2 + SendAt(k) /\ k \notin dls
    BY <1>2, <1>5, <1>6
  <2>2. alloc'[k] = Merge(alloc[k], ul[k]) /\ ulSym'[k] = ulSym[k] + NumSym(ul[k])
    BY <1>4, <1>6, <2>1 DEF NewSlot, NewUlSym
  <2>3. ul[k] \in UlDcis(k, srsSlotCounter + Rank(k))
    BY <1>6 DEF Triggers
  <2>4. IsUlPart(ul[k], Type(k))
    BY <1>1, <2>3, UlDcisOK DEF IsUlPart
  <2>5. /\ alloc[k] = EmptySlot
        /\ SlotIs(alloc'[k], ulSym'[k], k, Type(k), SendAt(k), 1)
    BY <1>2, <1>3, <2>1, <2>2, <2>4, UlTriggered
  <2>6. alloc[k].dcis = {} /\ alloc'[k].dcis = ul[k]
    BY <2>2, <2>5 DEF EmptySlot, Merge
  <2> QED BY <2>1, <2>4, <2>5, <2>6 DEF UlAdded
<1>7. CASE k \in dls
  <2>1. k = 2 /\ Type(k) # "UL" /\ k \notin uls
    BY <1>2, <1>5, <1>7
  <2> DEFINE t == TotUlSym(k)  u == ulSym[k]
  <2>2. /\ u \in 0 .. SymbolsPerSlot /\ (Type(k) = "F" => u <= SymbolsPerSlot - DlCtrlSymbols)
        /\ Type(k) # "F" => u = 0
    <3>1. ~DlDone(k, Type(k), 0) /\ (Type(k) # "F" => ~UlDone(k, Type(k), SendAt(k), 0))
      BY <1>2, <2>1 DEF DlDone, UlDone, WithUl, Types
    <3> QED BY <1>3, <3>1 DEF SlotIs, UlPartOK
  <2>3. t = u + IF Type(k) = "S" THEN 1 ELSE 0
    BY ConstantsOK DEF TotUlSym
  <2> HIDE DEF u
  <2>4. /\ t \in Nat /\ t <= SymbolsPerSlot - DlCtrlSymbols /\ (Type(k) = "S" => t = 1)
        /\ t = u \/ Type(k) = "S"
    <3>1. CASE Type(k) = "S"
      <4>1. t = 1
        BY <2>2, <2>3, <3>1
      <4> QED BY <3>1, <4>1, ConstantsOK
    <3>2. CASE Type(k) = "F"
      <4>1. t = u
        BY <2>2, <2>3, <3>2, ConstantsOK
      <4> QED BY <2>2, <3>2, <4>1, ConstantsOK
    <3>3. CASE Type(k) \notin {"S", "F"}
      <4>1. t = 0 /\ u = 0
        BY <2>2, <2>3, <3>3
      <4> QED BY <3>3, <4>1, ConstantsOK
    <3> QED BY <3>1, <3>2, <3>3
  <2>5. dl[k] \in DlDcis(k)
    BY <1>7 DEF Triggers
  <2>6. IsDlPart(dl[k], Type(k), t)
    <3> HIDE DEF t
    <3>1. t = TotUlSym(k)
      BY DEF t
    <3> QED BY <1>1, <2>4, <2>5, <3>1, DlDcisOK DEF IsDlPart
  <2>7. alloc'[k] = Merge(alloc[k], dl[k]) /\ ulSym'[k] \in {0, t}
    BY <1>4, <1>7, <2>1 DEF NewSlot, NewUlSym
  <2>8. ulSym'[k] \in 0 .. SymbolsPerSlot
    <3> HIDE DEF t
    <3>1. t \in 0 .. SymbolsPerSlot /\ 0 \in 0 .. SymbolsPerSlot
      BY <2>4, ConstantsOK
    <3> QED BY <2>7, <3>1
  <2> HIDE DEF t
  <2>9. /\ SlotIs(alloc'[k], ulSym'[k], k, Type(k), SendAt(k), 1)
        /\ alloc'[k].dcis = alloc[k].dcis \cup dl[k]
    <3> DEFINE s == alloc[k]  type == Type(k)  send == SendAt(k)  D == dl[k]  v == ulSym'[k]
    <3>1. SlotIs(s, u, 2, type, send, 0) /\ type \in Types /\ type # "UL" /\ send \in Int /\ send >= 1
      BY <1>2, <1>3, <2>1 DEF u
    <3>2. IsDlPart(D, type, t) /\ (t = u \/ type = "S") /\ v \in 0 .. SymbolsPerSlot
      BY <2>4, <2>6, <2>8
    <3>3. alloc'[k] = Merge(s, D)
      BY <2>7
    <3> HIDE DEF s, type, send, D, v
    <3>4. SlotIs(Merge(s, D), v, 2, type, send, 1) /\ Merge(s, D).dcis = s.dcis \cup D
      BY <3>1, <3>2, DlTriggered
    <3> QED BY <2>1, <3>3, <3>4 DEF s, type, send, D, v
  <2>10. dl[k] # {} /\ \A d \in dl[k] : d.kind \notin {"UL_DATA", "SRS"}
    BY <2>6 DEF IsDlPart, DlCtrlDci, UlCtrlDci, Dci
  <2> QED BY <1>7, <2>1, <2>9, <2>10 DEF DlAdded
<1>8. CASE k \notin uls /\ k \notin dls
  <2>1. alloc'[k] = alloc[k] /\ ulSym'[k] = ulSym[k] /\ (k = 2 => Type(k) = "UL")
    BY <1>4, <1>5, <1>8 DEF NewSlot, NewUlSym
  <2>2. SlotIs(alloc'[k], ulSym'[k], k, Type(k), SendAt(k), 1)
    BY <1>2, <1>3, <2>1, NotTriggered
  <2> QED BY <2>1, <2>2 DEF Kept
<1> QED BY <1>6, <1>7, <1>8

-----------------------------------------------------------------------------
(* The invariant holds at first. *)

LEMMA Initial == Init => SlotInv
<1> SUFFICES ASSUME Init PROVE SlotInv
  OBVIOUS
<1>1. /\ pattern \in Patterns /\ pos = 0 /\ phase = "start"
      /\ alloc = [k \in Ahead |-> EmptySlot] /\ ulSym = [k \in Ahead |-> 0]
      /\ ctrlMsgs = {} /\ plan = {} /\ harq = {}
      /\ srs \in Started /\ srsSlotCounter = 0 /\ waited = [u \in UEs |-> 0]
  BY DEF Init
<1>2. pos \in 0 .. Len(pattern) - 1
  BY <1>1, PatternOK
<1>3. OtherTypes
  <2>1. 0 \in 0 .. SrsCounterRange - 1
    BY SlotsAssumption
  <2>2. srs.periodicity \in StandardPeriodicity /\ Attached(srs) = {}
    BY <1>1, SrsAssumption DEF Started, Attached
  <2> QED BY <1>1, <1>2, <2>1, <2>2 DEF OtherTypes
<1>4. \A k \in Ahead : k \in Int /\ alloc[k] = EmptySlot /\ ulSym[k] = 0
  BY <1>1, <1>2, Numbers
<1>5. SlotsOK
  BY <1>1, <1>4, EmptySlotIs DEF SlotsOK, Made
<1>6. \A k \in Ahead : UlOf(alloc[k]) = {} /\ DlOf(alloc[k]) = {}
  BY <1>4 DEF EmptySlot, UlOf, DlOf
<1>7. SilentOK
  BY <1>6 DEF SilentOK
<1>8. MessagesOK
  BY <1>1 DEF MessagesOK
<1>9. PlanOK
  <2>1. \A k : Known(k) = {}
    BY <1>1 DEF Known
  <2> QED BY <1>1, <1>6, <2>1 DEF PlanOK, KnownOK
<1> QED BY <1>3, <1>5, <1>7, <1>8, <1>9 DEF SlotInv

-----------------------------------------------------------------------------
(* The triggers keep the invariant. *)

LEMMA StartSlotCounts ==
  ASSUME StartSlot
  PROVE  /\ \E ul : waited' = [u \in UEs |->
               IF u \notin Attached(srs) THEN 0
               ELSE IF Sounded(ul, u) = {} THEN waited[u] + Cardinality(GenerateUl(pattern, pos))
               ELSE Cardinality(GenerateUl(pattern, pos)) - Rank(Max(Sounded(ul, u)))]
         /\ srsSlotCounter' =
              (srsSlotCounter + Cardinality(GenerateUl(pattern, pos))) % SrsCounterRange
         /\ alloc' = [k \in Ahead |-> alloc'[k]] /\ ulSym' = [k \in Ahead |-> ulSym'[k]]
<1>1. PICK ul, dl : Triggers(ul, dl)
  BY StartSlotTriggers
<1>2. alloc' = [k \in Ahead |-> alloc'[k]] /\ ulSym' = [k \in Ahead |-> ulSym'[k]]
  BY <1>1 DEF Triggers
<1>3. srsSlotCounter' =
        (srsSlotCounter + Cardinality(GenerateUl(pattern, pos))) % SrsCounterRange
  BY DEF StartSlot
<1>4. \E f : waited' = [u \in UEs |->
               IF u \notin Attached(srs) THEN 0
               ELSE IF Sounded(f, u) = {} THEN waited[u] + Cardinality(GenerateUl(pattern, pos))
               ELSE Cardinality(GenerateUl(pattern, pos)) - Rank(Max(Sounded(f, u)))]
  BY DEF StartSlot
<1> QED BY <1>2, <1>3, <1>4

LEMMA StartSlotTypes ==
  ASSUME OtherTypes, StartSlot
  PROVE  OtherTypes'
<1> DEFINE uls == GenerateUl(pattern, pos)  C == Cardinality(uls)
<1>1. /\ pattern \in Patterns /\ pos \in 0 .. Len(pattern) - 1 /\ waited \in [UEs -> Nat]
      /\ srsSlotCounter \in 0 .. SrsCounterRange - 1
      /\ \A p \in harq : /\ p = [at |-> p.at, age |-> p.age]
                         /\ p.at \in Int /\ p.at <= Lead /\ p.age \in 0 .. NumHarqProcess
  BY DEF OtherTypes
<1>2. /\ phase' = "ctrl" /\ UNCHANGED <<pattern, pos, srs>>
      /\ \E ul, dl : Triggers(ul, dl)
  BY StartSlotTriggers
<1>3. PICK ul, dl : Triggers(ul, dl)
  BY <1>2
<1>4. /\ srsSlotCounter' = (srsSlotCounter + C) % SrsCounterRange
      /\ DOMAIN alloc' = Ahead /\ DOMAIN ulSym' = Ahead
      /\ \E f : waited' = [u \in UEs |->
               IF u \notin Attached(srs) THEN 0
               ELSE IF Sounded(f, u) = {} THEN waited[u] + C
               ELSE C - Rank(Max(Sounded(f, u)))]
  BY StartSlotCounts
<1>5. IsFiniteSet(uls) /\ uls \subseteq Ahead /\ Lead \in Nat /\ 2 \in Ahead
  <2>1. IsFiniteSet(0 .. Lead) /\ uls \subseteq Ahead /\ Lead \in Nat /\ 2 \in Ahead
    BY <1>1, Numbers, FS_Interval
  <2> QED BY <2>1, FS_Subset DEF Ahead
<1> HIDE DEF uls
<1>6. C \in Nat /\ \A k : Rank(k) \in Nat /\ Rank(k) =< C
  <2>1. ASSUME NEW k PROVE Rank(k) \in Nat /\ Rank(k) =< C
    <3>1. {j \in uls : j <= k} \subseteq uls
      OBVIOUS
    <3> QED BY <1>5, <3>1, FS_Subset, FS_CardinalityType DEF Rank, uls
  <2> QED BY <1>5, <2>1, FS_CardinalityType
<1> HIDE DEF C
<1>7. waited' \in [UEs -> Nat]
  <2>1. PICK f : waited' = [u \in UEs |->
               IF u \notin Attached(srs) THEN 0
               ELSE IF Sounded(f, u) = {} THEN waited[u] + C
               ELSE C - Rank(Max(Sounded(f, u)))]
    BY <1>4
  <2>2. ASSUME NEW u \in UEs PROVE C - Rank(Max(Sounded(f, u))) \in Nat /\ waited[u] + C \in Nat
    BY <1>1, <1>6
  <2> QED BY <2>1, <2>2
<1>8. srsSlotCounter' \in 0 .. SrsCounterRange - 1
  <2>1. srsSlotCounter + C \in Int /\ SrsCounterRange \in Nat \ {0}
    BY <1>1, <1>6, SlotsAssumption
  <2> QED BY <1>4, <2>1, Division
<1>9. \A p \in harq' : /\ p = [at |-> p.at, age |-> p.age]
                       /\ p.at \in Int /\ p.at <= Lead /\ p.age \in 0 .. NumHarqProcess
  <2>1. CASE GenerateDl(pattern, pos) = {}
    BY <1>1, <1>3, <2>1 DEF Triggers
  <2>2. CASE GenerateDl(pattern, pos) # {}
    <3>1. harq' = {p \in Aged(harq) : p.at \notin dlHarqInfo}
                     \cup {[at |-> k, age |-> 0] : k \in {j \in GenerateDl(pattern, pos) :
                                                            \E d \in dl[j] : d.kind = "DL_DATA"}}
      BY <1>3, <2>2 DEF Triggers
    <3>2. GenerateDl(pattern, pos) \subseteq Ahead /\ \A k \in Ahead : k \in Int /\ k <= Lead
      BY <1>1, Numbers
    <3>3. ASSUME NEW p \in Aged(harq)
          PROVE  /\ p = [at |-> p.at, age |-> p.age]
                 /\ p.at \in Int /\ p.at <= Lead /\ p.age \in 0 .. NumHarqProcess
      <4>1. PICK q \in harq : q.age < NumHarqProcess /\ p = [q EXCEPT !.age = @ + 1]
        BY DEF Aged
      <4>2. /\ q = [at |-> q.at, age |-> q.age] /\ q.at \in Int /\ q.at <= Lead
            /\ q.age \in 0 .. NumHarqProcess /\ NumHarqProcess \in Nat
        BY <1>1, SlotsAssumption
      <4>3. p = [at |-> q.at, age |-> q.age + 1]
        BY <4>1, <4>2
      <4> QED BY <4>1, <4>2, <4>3
    <3>4. ASSUME NEW k \in Ahead, NEW p, p = [at |-> k, age |-> 0]
          PROVE  /\ p = [at |-> p.at, age |-> p.age]
                 /\ p.at \in Int /\ p.at <= Lead /\ p.age \in 0 .. NumHarqProcess
      BY <3>2, <3>4, SlotsAssumption
    <3> QED BY <3>1, <3>2, <3>3, <3>4
  <2> QED BY <2>1, <2>2
<1>10. Ahead' = Ahead /\ Attached(srs)' = Attached(srs)
  BY <1>2 DEF Attached, Ahead
<1> QED BY <1>2, <1>4, <1>7, <1>8, <1>9, <1>10 DEF OtherTypes

LEMMA StartSlotKeeps ==
  ASSUME SlotInv, StartSlot
  PROVE  SlotInv'
<1>1. OtherTypes /\ SlotsOK /\ SilentOK /\ MessagesOK /\ PlanOK
  BY DEF SlotInv
<1>2. /\ phase = "start" /\ phase' = "ctrl" /\ UNCHANGED <<pattern, pos, srs, plan, feedback>>
      /\ \E ul, dl : Triggers(ul, dl)
      /\ ctrlMsgs' = ctrlMsgs \cup IF alloc'[0].dcis = {} THEN {} ELSE Messages(alloc')
  BY StartSlotTriggers
<1>3. PICK ul, dl : Triggers(ul, dl)
  BY <1>2
<1>4. /\ \A k : Type(k)' = Type(k) /\ SendAt(k)' = SendAt(k) /\ Known(k)' = Known(k)
      /\ Made' = 1 /\ Made = 0 /\ Told' = 0 /\ Told = 0 /\ Ahead' = Ahead
  BY <1>2 DEF Type, SendAt, Known, Made, Told, Ahead
<1>5. /\ pattern \in Patterns /\ pos \in 0 .. Len(pattern) - 1
  BY <1>1 DEF OtherTypes
<1>6. ASSUME NEW k \in Ahead
      PROVE  /\ k \in Nat /\ SendAt(k) \in Int /\ SendAt(k) >= 1
             /\ SlotIs(alloc'[k], ulSym'[k], k, Type(k), SendAt(k), 1)
             /\ UlAdded(k) \/ Kept(k) \/ (k \in GenerateDl(pattern, pos) /\ DlAdded(k, dl[k]))
  BY <1>1, <1>2, <1>3, <1>5, SlotTriggered, Numbers
<1>7. SlotsOK'
  BY <1>4, <1>6 DEF SlotsOK
<1>8. ASSUME NEW k \in Ahead
      PROVE  UlAdded(k) \/ UlOf(alloc'[k]) = UlOf(alloc[k])
  <2>1. CASE Kept(k)
    BY <2>1 DEF Kept
  <2>2. CASE DlAdded(k, dl[k])
    BY <2>2 DEF DlAdded, UlOf
  <2> QED BY <1>6, <2>1, <2>2
<1>9. SilentOK'
  <2> SUFFICES ASSUME NEW k \in Ahead, NEW j \in Ahead, Silent(alloc'[k], k, Type(k), 1),
                      WithUl(Type(j)), j - SendAt(j) = k
               PROVE  UlOf(alloc'[j]) = {}
    BY <1>4 DEF SilentOK
  <2>1. k # 2 /\ Kept(k) /\ k < 2
    <3>1. alloc'[k].dcis = {} /\ Type(k) # "UL" /\ k < 2 + 1
      BY DEF Silent, DlDone
    <3>2. ~DlAdded(k, dl[k])
      BY <3>1 DEF DlAdded
    <3>3. ~UlAdded(k)
      BY <1>6, <3>1 DEF UlAdded
    <3>4. Kept(k)
      BY <1>6, <3>2, <3>3
    <3> QED BY <1>6, <3>1, <3>4 DEF Kept
  <2>2. Silent(alloc[k], k, Type(k), Made)
    BY <1>4, <1>6, <2>1 DEF Silent, DlDone, Kept
  <2>3. UlOf(alloc[j]) = {}
    BY <1>1, <2>2 DEF SilentOK
  <2>4. ~UlAdded(j)
    BY <1>6, <2>1 DEF UlAdded
  <2> QED BY <1>8, <2>3, <2>4
<1>10. MessagesOK'
  <2>1. ctrlMsgs = {}
    BY <1>1, <1>2 DEF MessagesOK
  <2>2. Messages(alloc)' = Messages(alloc')
    BY <1>2 DEF Messages, Scheduled, Ahead
  <2> QED BY <1>2, <2>1, <2>2 DEF MessagesOK
<1>11. PlanOK'
  <2>1. \A p \in plan' : /\ p = [at |-> p.at, k1 |-> p.k1, dci |-> p.dci] /\ p.at \in Ahead
                         /\ p.at = 0 /\ p.dci.kind = "DL_DATA" => p.k1 = HarqK1(pattern', pos')
    BY <1>1, <1>2 DEF PlanOK
  <2>2. ASSUME NEW k \in Ahead PROVE KnownOK(k)'
    <3>1. Known(k) = IF WithUl(Type(k)) /\ k < SendAt(k) THEN UlOf(alloc[k]) ELSE {}
      BY <1>1, <1>2, <1>4, <1>6 DEF PlanOK, KnownOK
    <3>2. k < SendAt(k) => UlOf(alloc'[k]) = UlOf(alloc[k])
      BY <1>6, <1>8 DEF UlAdded
    <3>3. Known(k)' = IF WithUl(Type(k)') /\ k < SendAt(k)' + Told' THEN UlOf(alloc'[k]) ELSE {}
      BY <1>4, <1>6, <3>1, <3>2
    <3> QED BY <1>2, <3>3 DEF KnownOK
  <2> QED BY <1>4, <2>1, <2>2 DEF PlanOK
<1>12. OtherTypes'
  BY <1>1, StartSlotTypes
<1> QED BY <1>7, <1>9, <1>10, <1>11, <1>12 DEF SlotInv

-----------------------------------------------------------------------------
(* The DCIs of a slot keep the invariant. *)

\* The messages of a slot with DCIs are the UL DCIs whose time has come and its DL DCIs.
LEMMA MessagesAre ==
  ASSUME OtherTypes, SlotsOK, phase = "ctrl", NEW m
  PROVE  m \in Messages(alloc) <=>
           \E k \in Ahead : \E d \in alloc[k].dcis :
             /\ m = [k |-> k, k1 |-> HarqK1(pattern, pos), dci |-> d]
             /\ \/ k = SendAt(k) /\ WithUl(Type(k)) /\ d \in UlOf(alloc[k])
                \/ k = 0 /\ d \in DlOf(alloc[0])
<1> DEFINE Out(k, d) == /\ d.kind \notin Ctrl
                        /\ k \in IF d.kind = "DL_DATA" THEN ToSendDl(pattern, pos)
                                                       ELSE ToSendUl(pattern, pos)
           New(k, d) == \/ k = SendAt(k) /\ WithUl(Type(k)) /\ d \in UlOf(alloc[k])
                        \/ k = 0 /\ d \in DlOf(alloc[0])
<1>1. m \in Messages(alloc) <=>
        \E k \in Ahead : \E d \in alloc[k].dcis :
          m = [k |-> k, k1 |-> HarqK1(pattern, pos), dci |-> d] /\ Out(k, d)
  <2> DEFINE Is(k, d) == m = [k |-> k, k1 |-> HarqK1(pattern, pos), dci |-> d] /\ Out(k, d)
  <2>1. m \in Messages(alloc) <=> \E s \in Scheduled(alloc) : Is(s.k, s.dci)
    BY DEF Messages
  <2>2. \A s : s \in Scheduled(alloc) <=>
               \E k \in Ahead : \E d \in alloc[k].dcis : s = [k |-> k, dci |-> d]
    BY DEF Scheduled
  <2> HIDE DEF Is
  <2>3. ASSUME NEW s \in Scheduled(alloc), Is(s.k, s.dci)
        PROVE  \E k \in Ahead : \E d \in alloc[k].dcis : Is(k, d)
    <3>1. PICK k \in Ahead : \E d \in alloc[k].dcis : s = [k |-> k, dci |-> d]
      BY <2>2
    <3>2. PICK d \in alloc[k].dcis : s = [k |-> k, dci |-> d]
      BY <3>1
    <3>3. s.k = k /\ s.dci = d
      BY <3>2
    <3> QED BY <2>3, <3>3
  <2>4. ASSUME NEW k \in Ahead, NEW d \in alloc[k].dcis, Is(k, d)
        PROVE  \E s \in Scheduled(alloc) : Is(s.k, s.dci)
    <3> DEFINE s == [k |-> k, dci |-> d]
    <3>1. s.k = k /\ s.dci = d
      OBVIOUS
    <3>2. s \in Scheduled(alloc)
      BY <2>2
    <3> HIDE DEF s
    <3> QED BY <2>4, <3>1, <3>2
  <2>5. m \in Messages(alloc) <=> \E k \in Ahead : \E d \in alloc[k].dcis : Is(k, d)
    BY <2>1, <2>3, <2>4
  <2> QED BY <2>5 DEF Is
<1>2. ASSUME NEW k \in Ahead, NEW d \in alloc[k].dcis PROVE Out(k, d) <=> New(k, d)
  <2>1. pattern \in Patterns /\ pos \in 0 .. Len(pattern) - 1
    BY DEF OtherTypes
  <2>2. /\ pos \in Int /\ k \in Int /\ 0 \in Int /\ pos + 0 = pos /\ 0 \in Ahead
        /\ Type(k) \in Types /\ SendAt(k) \in Int
    BY <2>1, Numbers
  <2>3. SlotIs(alloc[k], ulSym[k], k, Type(k), SendAt(k), 1)
    BY DEF SlotsOK, Made
  <2>4. d.kind \in Kinds /\ Belongs(d, k, Type(k), SendAt(k), 1)
    BY <2>3 DEF SlotIs, Fit, Dcis
  <2>5. /\ ToSendDl(pattern, pos) = IF Type(0) = "UL" THEN {} ELSE {0}
        /\ k \in ToSendUl(pattern, pos) <=> WithUl(Type(k)) /\ SendAt(k) = k
    BY <2>1, <2>2, SendDlOK, SendUlOK DEF Type, SendAt, WithUl
  <2>6. CASE d.kind = "DL_DATA"
    <3>1. Type(k) # "UL"
      BY <2>4, <2>6 DEF Belongs, DlDone, DlCtrlDci, UlCtrlDci, Dci
    <3>2. d \notin UlOf(alloc[k]) /\ d \in DlOf(alloc[k])
      BY <2>6 DEF UlOf, DlOf
    <3>3. Out(k, d) <=> k = 0
      BY <2>5, <2>6, <3>1 DEF Ctrl
    <3> HIDE DEF Out
    <3> QED BY <3>2, <3>3
  <2>7. CASE d.kind \in {"UL_DATA", "SRS"}
    <3>1. d \in UlOf(alloc[k]) /\ d \notin DlOf(alloc[k])
      BY <2>7 DEF UlOf, DlOf
    <3>2. Out(k, d) <=> k \in ToSendUl(pattern, pos)
      BY <2>7 DEF Ctrl
    <3> HIDE DEF Out
    <3> QED BY <2>5, <3>1, <3>2
  <2>8. CASE d.kind \in Ctrl
    <3>1. d \notin UlOf(alloc[k]) /\ d \notin DlOf(alloc[k]) /\ ~Out(k, d)
      BY <2>8 DEF UlOf, DlOf, Ctrl
    <3> HIDE DEF Out
    <3> QED BY <3>1
  <2> QED BY <2>4, <2>6, <2>7, <2>8 DEF Kinds
<1> HIDE DEF Out
<1> QED BY <1>1, <1>2

LEMMA DlCtrlKeeps ==
  ASSUME SlotInv, DlCtrl
  PROVE  SlotInv'
<1>1. OtherTypes /\ SlotsOK /\ SilentOK /\ MessagesOK /\ PlanOK
  BY DEF SlotInv
<1>2. /\ phase = "ctrl" /\ phase' = "data"
      /\ IF DlCtrlDci \in alloc[0].dcis \cap UeCtrl
           THEN plan' = plan \cup {Heard(m) : m \in ctrlMsgs} /\ ctrlMsgs' = {}
           ELSE UNCHANGED <<plan, ctrlMsgs>>
      /\ UNCHANGED <<pattern, pos, alloc, ulSym, srs, srsSlotCounter, waited, harq>>
  BY DEF DlCtrl
<1>3. /\ \A k : Type(k)' = Type(k) /\ SendAt(k)' = SendAt(k)
      /\ Made' = 1 /\ Made = 1 /\ Told' = 1 /\ Told = 0 /\ Ahead' = Ahead
  BY <1>2 DEF Type, SendAt, Made, Told, Ahead
<1>4. /\ pattern \in Patterns /\ pos \in 0 .. Len(pattern) - 1
  BY <1>1 DEF OtherTypes
<1>5. /\ 0 \in Ahead /\ pos \in Int
      /\ \A k \in Ahead : /\ k \in Nat /\ SendAt(k) \in Int /\ SendAt(k) >= 1 /\ Type(k - SendAt(k)) # "UL"
  BY <1>4, Numbers
<1>6. OtherTypes'
  BY <1>1, <1>2, <1>3 DEF OtherTypes, Attached
<1>7. SlotsOK' /\ SilentOK'
  BY <1>1, <1>2, <1>3 DEF SlotsOK, SilentOK
<1>8. SlotIs(alloc[0], ulSym[0], 0, Type(0), SendAt(0), 1)
  BY <1>1, <1>3, <1>5 DEF SlotsOK
<1>9. CASE alloc[0].dcis = {}
  <2>1. ctrlMsgs = {} /\ ctrlMsgs' = {} /\ plan' = plan
    BY <1>1, <1>2, <1>9 DEF MessagesOK
  <2>2. MessagesOK'
    BY <1>2, <2>1 DEF MessagesOK
  <2>3. DlOf(alloc[0]) = {}
    BY <1>9 DEF DlOf
  <2>4. ASSUME NEW k \in Ahead PROVE KnownOK(k)'
    <3>1. Known(k)' = Known(k)
      BY <2>1 DEF Known
    <3>2. Known(k) = IF WithUl(Type(k)) /\ k < SendAt(k) THEN UlOf(alloc[k]) ELSE {}
      BY <1>1, <1>2, <1>3, <1>5 DEF PlanOK, KnownOK
    <3>3. ASSUME k = SendAt(k), WithUl(Type(k)) PROVE UlOf(alloc[k]) = {}
      <4>1. k - SendAt(k) = 0 /\ Type(0) # "UL"
        BY <1>5, <3>3
      <4>2. Silent(alloc[0], 0, Type(0), Made)
        BY <1>3, <1>9, <4>1 DEF Silent, DlDone
      <4> QED BY <1>1, <1>5, <3>3, <4>1, <4>2 DEF SilentOK
    <3>4. k < SendAt(k) + 1 <=> k < SendAt(k) \/ k = SendAt(k)
      BY <1>5
    <3>5. Known(k) = IF WithUl(Type(k)) /\ k < SendAt(k) + 1 THEN UlOf(alloc[k]) ELSE {}
      BY <3>2, <3>3, <3>4
    <3> QED BY <1>2, <1>3, <2>3, <3>1, <3>5 DEF KnownOK, UlOf, DlOf
  <2>5. PlanOK'
    BY <1>1, <1>2, <1>3, <2>1, <2>4 DEF PlanOK
  <2> QED BY <1>6, <1>7, <2>2, <2>5 DEF SlotInv
<1>10. CASE alloc[0].dcis # {}
  <2> DEFINE New(k, d) == \/ k = SendAt(k) /\ WithUl(Type(k)) /\ d \in UlOf(alloc[k])
                          \/ k = 0 /\ d \in DlOf(alloc[0])
              Msg(k, d) == [k |-> k, k1 |-> HarqK1(pattern, pos), dci |-> d]
              Rec(k, d) == [at |-> k, k1 |-> HarqK1(pattern, pos), dci |-> d]
  <2>1. ctrlMsgs = Messages(alloc)
    BY <1>1, <1>2, <1>10 DEF MessagesOK
  <2>2. \A m : m \in ctrlMsgs <=>
           \E k \in Ahead : \E d \in alloc[k].dcis :
             m = Msg(k, d) /\ New(k, d)
    BY <1>1, <1>2, <2>1, MessagesAre
  <2> HIDE DEF New
  <2>3. ctrlMsgs' = {} /\ plan' = plan \cup {Heard(m) : m \in ctrlMsgs}
    <3>1. CASE Type(0) = "UL"
      <4>1. ASSUME NEW k \in Ahead, NEW d, New(k, d) PROVE FALSE
        <5>1. CASE k = 0 /\ d \in DlOf(alloc[0])
          <6>1. d.kind = "DL_DATA" /\ Belongs(d, 0, Type(0), SendAt(0), 1)
            BY <1>8, <5>1 DEF DlOf, SlotIs
          <6> QED BY <3>1, <6>1 DEF Belongs, DlDone, DlCtrlDci, UlCtrlDci, Dci
        <5>2. CASE k = SendAt(k)
          <6>1. k - SendAt(k) = 0
            BY <1>5, <5>2
          <6> QED BY <1>5, <3>1, <6>1
        <5> QED BY <4>1, <5>1, <5>2 DEF New
      <4>2. ctrlMsgs = {}
        BY <2>2, <4>1
      <4> QED BY <1>2, <4>2
    <3>2. CASE Type(0) # "UL"
      <4>1. DlCtrlDci \in alloc[0].dcis
        BY <1>8, <1>10, <3>2 DEF SlotIs, DlDone
      <4>2. DlCtrlDci \in UeCtrl
        BY <3>2 DEF UeCtrl
      <4> QED BY <1>2, <4>1, <4>2
    <3> QED BY <3>1, <3>2
  <2>4. MessagesOK'
    BY <1>2, <2>3 DEF MessagesOK
  <2>5. ASSUME NEW k \in Ahead, NEW d, New(k, d)
        PROVE  Heard(Msg(k, d)) = Rec(k, d)
    <3>1. d.kind = "DL_DATA" => k = 0
      BY <2>5 DEF New, UlOf
    <3> QED BY <3>1 DEF Heard
  <2>6. \A k, d : Rec(k, d).at = k /\ Rec(k, d).dci = d /\ Rec(k, d).k1 = HarqK1(pattern, pos)
    OBVIOUS
  <2> HIDE DEF Msg, Rec
  <2>7. \A p : p \in plan' <=>
           \/ p \in plan
           \/ \E k \in Ahead : \E d \in alloc[k].dcis : p = Rec(k, d) /\ New(k, d)
    <3>1. ASSUME NEW p, NEW m \in ctrlMsgs, p = Heard(m)
          PROVE  \E k \in Ahead : \E d \in alloc[k].dcis : p = Rec(k, d) /\ New(k, d)
      BY <2>2, <2>5, <3>1
    <3>2. ASSUME NEW k \in Ahead, NEW d \in alloc[k].dcis, New(k, d)
          PROVE  Rec(k, d) \in plan'
      <4>1. Msg(k, d) \in ctrlMsgs /\ Heard(Msg(k, d)) = Rec(k, d)
        BY <2>2, <2>5, <3>2
      <4> QED BY <2>3, <4>1
    <3>3. \A p : p \in plan' <=> p \in plan \/ \E m \in ctrlMsgs : p = Heard(m)
      BY <2>3
    <3> QED BY <3>1, <3>2, <3>3
  <2>11. ASSUME NEW k \in Ahead
        PROVE  Known(k)' = Known(k) \cup {d \in alloc[k].dcis : New(k, d)}
    <3>1. \A d : d \in Known(k)' <=> \E p \in plan' : p.at = k /\ p.dci = d
      BY DEF Known
    <3>2. \A d : d \in Known(k) <=> \E p \in plan : p.at = k /\ p.dci = d
      BY DEF Known
    <3>3. ASSUME NEW d \in Known(k)' PROVE d \in Known(k) \/ (d \in alloc[k].dcis /\ New(k, d))
      BY <2>6, <2>7, <3>1, <3>2
    <3>4. ASSUME NEW d \in alloc[k].dcis, New(k, d) PROVE d \in Known(k)'
      BY <2>6, <2>7, <3>1, <3>4
    <3>5. Known(k) \subseteq Known(k)'
      BY <2>7, <3>1, <3>2
    <3> QED BY <3>3, <3>4, <3>5
  <2>8. ASSUME NEW k \in Ahead PROVE KnownOK(k)'
    <3>1. Known(k) = IF WithUl(Type(k)) /\ k < SendAt(k) THEN UlOf(alloc[k]) ELSE {}
      BY <1>1, <1>2, <1>3, <1>5 DEF PlanOK, KnownOK
    <3>2. {d \in alloc[k].dcis : New(k, d)} =
            (IF WithUl(Type(k)) /\ k = SendAt(k) THEN UlOf(alloc[k]) ELSE {})
            \cup (IF k = 0 THEN DlOf(alloc[0]) ELSE {})
      BY DEF New, UlOf, DlOf
    <3>3. k < SendAt(k) + 1 <=> k < SendAt(k) \/ k = SendAt(k)
      BY <1>5
    <3>4. Known(k)' = (IF WithUl(Type(k)) /\ k < SendAt(k) + 1 THEN UlOf(alloc[k]) ELSE {})
                      \cup (IF k = 0 THEN DlOf(alloc[0]) ELSE {})
      BY <2>11, <3>1, <3>2, <3>3
    <3>5. UlOf(alloc[k])' = UlOf(alloc[k]) /\ DlOf(alloc[0])' = DlOf(alloc[0])
      BY <1>2 DEF UlOf, DlOf
    <3> QED BY <1>2, <1>3, <3>4, <3>5 DEF KnownOK
  <2>9. \A p \in plan' : /\ p = [at |-> p.at, k1 |-> p.k1, dci |-> p.dci] /\ p.at \in Ahead
                         /\ p.at = 0 /\ p.dci.kind = "DL_DATA" => p.k1 = HarqK1(pattern, pos)
    <3>1. ASSUME NEW k \in Ahead, NEW d
          PROVE  Rec(k, d) = [at |-> Rec(k, d).at, k1 |-> Rec(k, d).k1, dci |-> Rec(k, d).dci]
      BY DEF Rec
    <3> QED BY <1>1, <2>6, <2>7, <3>1 DEF PlanOK
  <2>10. PlanOK'
    BY <1>2, <1>3, <2>8, <2>9 DEF PlanOK
  <2> QED BY <1>6, <1>7, <2>4, <2>10 DEF SlotInv
<1> QED BY <1>9, <1>10

-----------------------------------------------------------------------------
(* The end of a slot keeps the invariant. *)

\* Seen from the next slot, the DCIs of a slot are sent where they were.
LEMMA NextSendAt ==
  ASSUME NEW p \in Patterns, NEW n \in Int, NEW k \in Int, NEW least \in Nat
  PROVE  DciK(p, ((n + 1) % Len(p)) + k, least) = DciK(p, n + (k + 1), least)
<1>1. Len(p) \in Nat \ {0}
  BY PatternOK
<1>2. ASSUME NEW j \in least .. least + Len(p)
      PROVE  SlotType(p, (((n + 1) % Len(p)) + k) - j) = SlotType(p, (n + (k + 1)) - j)
  <2>1. j \in Int /\ k - j \in Int /\ ((n + 1) % Len(p)) \in Int
    BY <1>1, NextSlotType
  <2>2. SlotType(p, ((n + 1) % Len(p)) + (k - j)) = SlotType(p, n + ((k - j) + 1))
    BY <2>1, NextSlotType
  <2>3. /\ ((n + 1) % Len(p)) + (k - j) = (((n + 1) % Len(p)) + k) - j
        /\ n + ((k - j) + 1) = (n + (k + 1)) - j
    BY <2>1
  <2> QED BY <2>2, <2>3
<1>3. {j \in least .. least + Len(p) : SlotType(p, (((n + 1) % Len(p)) + k) - j) # "UL"}
      = {j \in least .. least + Len(p) : SlotType(p, (n + (k + 1)) - j) # "UL"}
  BY <1>2
<1> QED BY <1>3 DEF DciK

\* What a slot of the next one is now.
LEMMA EndSlotShift ==
  ASSUME OtherTypes, EndSlot
  PROVE  /\ phase = "data" /\ phase' = "start" /\ Ahead' = Ahead
         /\ Made = 1 /\ Told = 1 /\ Made' = 0 /\ Told' = 0 /\ pos' \in 0 .. Len(pattern) - 1
         /\ \A k \in Int : Type(k)' = Type(k + 1) /\ SendAt(k)' = SendAt(k + 1)
         /\ \A k \in Ahead : /\ k # Lead => k + 1 \in Ahead /\ alloc'[k] = alloc[k + 1]
                                            /\ ulSym'[k] = ulSym[k + 1]
                             /\ k = Lead => alloc'[k] = EmptySlot /\ ulSym'[k] = 0
         /\ DOMAIN alloc' = Ahead /\ DOMAIN ulSym' = Ahead
<1>1. /\ phase = "data" /\ phase' = "start" /\ pattern' = pattern
      /\ pos' = (pos + 1) % Len(pattern)
      /\ alloc' = Shift(alloc, EmptySlot) /\ ulSym' = Shift(ulSym, 0)
  BY DEF EndSlot
<1>2. pattern \in Patterns /\ pos \in 0 .. Len(pattern) - 1
  BY DEF OtherTypes
<1>3. pos \in Int /\ N2Delay \in Nat /\ \A k \in Ahead : k # Lead => k + 1 \in Ahead
  BY <1>2, Numbers, PatternOK
<1>4. ASSUME NEW k \in Int PROVE Type(k)' = Type(k + 1) /\ SendAt(k)' = SendAt(k + 1)
  BY <1>1, <1>2, <1>3, NextSlotType, NextSendAt DEF Type, SendAt
<1>5. pos' \in 0 .. Len(pattern) - 1
  BY <1>1, <1>2, <1>3, NextSlotType
<1>6. \A k \in Ahead : /\ k # Lead => alloc'[k] = alloc[k + 1] /\ ulSym'[k] = ulSym[k + 1]
                       /\ k = Lead => alloc'[k] = EmptySlot /\ ulSym'[k] = 0
  BY <1>1 DEF Shift
<1>7. DOMAIN alloc' = Ahead /\ DOMAIN ulSym' = Ahead
  BY <1>1 DEF Shift
<1>8. Made = 1 /\ Told = 1 /\ Made' = 0 /\ Told' = 0
  BY <1>1 DEF Made, Told
<1>9. Ahead' = Ahead
  BY DEF Ahead
<1> QED BY <1>1, <1>3, <1>4, <1>5, <1>6, <1>7, <1>8, <1>9

LEMMA EndSlotKeeps ==
  ASSUME SlotInv, EndSlot
  PROVE  SlotInv'
<1>1. OtherTypes /\ SlotsOK /\ SilentOK /\ MessagesOK /\ PlanOK
  BY DEF SlotInv
<1>2. /\ phase = "data" /\ phase' = "start" /\ Ahead' = Ahead
      /\ Made = 1 /\ Told = 1 /\ Made' = 0 /\ Told' = 0 /\ pos' \in 0 .. Len(pattern) - 1
      /\ \A k \in Int : Type(k)' = Type(k + 1) /\ SendAt(k)' = SendAt(k + 1)
      /\ \A k \in Ahead : /\ k # Lead => k + 1 \in Ahead /\ alloc'[k] = alloc[k + 1]
                                         /\ ulSym'[k] = ulSym[k + 1]
                          /\ k = Lead => alloc'[k] = EmptySlot /\ ulSym'[k] = 0
      /\ DOMAIN alloc' = Ahead /\ DOMAIN ulSym' = Ahead
  BY <1>1, EndSlotShift
<1>3. /\ UNCHANGED <<pattern, ctrlMsgs, srs, srsSlotCounter, waited>>
      /\ plan' = {[p EXCEPT !.at = @ - 1] : p \in {q \in plan : q.at > 0}}
      /\ harq' = {[p EXCEPT !.at = @ - 1] : p \in harq}
  BY DEF EndSlot
<1>4. /\ pattern \in Patterns /\ pos \in 0 .. Len(pattern) - 1
  BY <1>1 DEF OtherTypes
<1>5. /\ 0 \in Ahead /\ pos \in Int /\ Lead \in Nat /\ Lead >= 2
      /\ \A k \in Ahead : k \in Nat /\ k <= Lead
      /\ \A k \in Int : SendAt(k) \in Int
  BY <1>4, Numbers
<1>12. ASSUME NEW k \in Ahead
       PROVE  /\ k \in Int /\ k + 1 \in Int /\ SendAt(k + 1) \in Int
              /\ Type(k)' = Type(k + 1) /\ SendAt(k)' = SendAt(k + 1)
  <2>1. k \in Int /\ k + 1 \in Int
    BY <1>5
  <2> QED BY <1>2, <1>5, <2>1
<1>6. OtherTypes'
  <2>1. ASSUME NEW p \in harq
        PROVE  [p EXCEPT !.at = @ - 1] = [at |-> p.at - 1, age |-> p.age]
    BY <1>1 DEF OtherTypes
  <2>2. \A p \in harq' : /\ p = [at |-> p.at, age |-> p.age]
                         /\ p.at \in Int /\ p.at <= Lead /\ p.age \in 0 .. NumHarqProcess
    <3>1. ASSUME NEW p \in harq'
          PROVE  /\ p = [at |-> p.at, age |-> p.age]
                 /\ p.at \in Int /\ p.at <= Lead /\ p.age \in 0 .. NumHarqProcess
      <4>1. PICK q \in harq : p = [at |-> q.at - 1, age |-> q.age]
        BY <1>3, <2>1
      <4>2. q.at \in Int /\ q.at <= Lead /\ q.age \in 0 .. NumHarqProcess
        BY <1>1 DEF OtherTypes
      <4> QED BY <1>5, <4>1, <4>2
    <3> QED BY <3>1
  <2> QED BY <1>1, <1>2, <1>3, <2>2 DEF OtherTypes, Attached
<1>7. SlotsOK'
  <2>1. ASSUME NEW k \in Ahead
        PROVE  SlotIs(alloc'[k], ulSym'[k], k, Type(k)', SendAt(k)', 0)
    <3>1. CASE k # Lead
      <4>1. /\ k \in Int /\ k + 1 \in Ahead /\ SendAt(k + 1) \in Int
            /\ SlotIs(alloc[k + 1], ulSym[k + 1], k + 1, Type(k + 1), SendAt(k + 1), 1)
        BY <1>1, <1>2, <1>12, <3>1 DEF SlotsOK
      <4>2. SlotIs(alloc[k + 1], ulSym[k + 1], k, Type(k + 1), SendAt(k + 1), 0)
        BY <4>1, Nearer
      <4> QED BY <1>2, <1>12, <3>1, <4>2
    <3>2. CASE k = Lead
      <4>1. k \in Int
        BY <1>5
      <4> QED BY <1>2, <3>2, <4>1, EmptySlotIs
    <3> QED BY <3>1, <3>2
  <2> QED BY <1>2, <2>1 DEF SlotsOK
<1>8. UlOf(EmptySlot) = {} /\ DlOf(EmptySlot) = {}
  BY DEF UlOf, DlOf, EmptySlot
<1>9. SilentOK'
  <2> SUFFICES ASSUME NEW k \in Ahead, NEW j \in Ahead, Silent(alloc'[k], k, Type(k)', 0),
                      WithUl(Type(j)'), j - SendAt(j)' = k
               PROVE  UlOf(alloc'[j]) = {}
    BY <1>2 DEF SilentOK
  <2>1. k < 2 /\ k # Lead
    BY <1>5 DEF Silent, DlDone
  <2>2. /\ k \in Int /\ j \in Int /\ Type(k)' = Type(k + 1) /\ Type(j)' = Type(j + 1)
        /\ SendAt(j)' = SendAt(j + 1) /\ SendAt(j + 1) \in Int /\ j - SendAt(j + 1) = k
    BY <1>12
  <2>3. Silent(alloc[k + 1], k + 1, Type(k + 1), 1) /\ k + 1 \in Ahead
    <3>1. DlDone(k, Type(k + 1), 0) => DlDone(k + 1, Type(k + 1), 1)
      BY <2>2 DEF DlDone
    <3> QED BY <1>2, <2>1, <2>2, <3>1 DEF Silent
  <2>4. CASE j # Lead
    <3>1. j + 1 \in Ahead /\ alloc'[j] = alloc[j + 1]
      BY <1>2, <2>4
    <3>2. (j + 1) - SendAt(j + 1) = k + 1
      BY <2>2
    <3> QED BY <3>2,  <1>1, <1>2, <2>2, <2>3, <3>1 DEF SilentOK
  <2>5. CASE j = Lead
    BY <1>2, <1>8, <2>5
  <2> QED BY <2>4, <2>5
<1>10. MessagesOK'
  BY <1>1, <1>2, <1>3 DEF MessagesOK
<1>11. PlanOK'
  <2>1. ASSUME NEW q \in plan
        PROVE  /\ [q EXCEPT !.at = @ - 1] = [at |-> q.at - 1, k1 |-> q.k1, dci |-> q.dci]
               /\ q.at \in Ahead
    BY <1>1 DEF PlanOK
  <2>2. \A p : p \in plan' <=>
           \E q \in plan : q.at > 0 /\ p = [at |-> q.at - 1, k1 |-> q.k1, dci |-> q.dci]
    BY <1>3, <2>1
  <2>3. ASSUME NEW k \in Ahead, k # 0
        PROVE  Known(k) = IF WithUl(Type(k)) /\ k < SendAt(k) + 1 THEN UlOf(alloc[k]) ELSE {}
    BY <1>1, <1>2, <2>3 DEF PlanOK, KnownOK
  <2>4. ASSUME NEW p \in plan'
        PROVE  /\ p = [at |-> p.at, k1 |-> p.k1, dci |-> p.dci] /\ p.at \in Ahead
               /\ p.at = 0 => p.dci.kind # "DL_DATA"
    <3>1. PICK q \in plan : q.at > 0 /\ p = [at |-> q.at - 1, k1 |-> q.k1, dci |-> q.dci]
      BY <2>2
    <3>2. q.at \in Ahead /\ q.at \in Nat /\ q.at <= Lead /\ p.at = q.at - 1 /\ p.dci = q.dci
      BY <1>5, <2>1, <3>1
    <3>3. p.at \in Ahead /\ q.at # 0
      BY <1>5, <3>1, <3>2 DEF Ahead
    <3>4. q.dci \in Known(q.at)
      BY DEF Known
    <3>5. q.dci.kind # "DL_DATA"
      BY <2>3, <3>2, <3>3, <3>4 DEF UlOf
    <3> QED BY <3>1, <3>2, <3>3, <3>5
  <2>5. ASSUME NEW k \in Ahead PROVE KnownOK(k)'
    <3>1. \A d : d \in Known(k)' <=> \E p \in plan' : p.at = k /\ p.dci = d
      BY DEF Known
    <3>2. \A i, c, d : /\ [at |-> i, k1 |-> c, dci |-> d].at = i
                       /\ [at |-> i, k1 |-> c, dci |-> d].dci = d
      OBVIOUS
    <3>3. k \in Nat /\ k <= Lead /\ \A q \in plan : q.at \in Nat /\ q.at <= Lead
      BY <1>5, <2>1
    <3>4. ASSUME NEW d
          PROVE  d \in Known(k)' <=> \E q \in plan : q.at = k + 1 /\ q.dci = d
      <4>1. ASSUME NEW p \in plan', p.at = k, p.dci = d
            PROVE  \E q \in plan : q.at = k + 1 /\ q.dci = d
        <5>1. PICK q \in plan : q.at > 0 /\ p = [at |-> q.at - 1, k1 |-> q.k1, dci |-> q.dci]
          BY <2>2
        <5>2. p.at = q.at - 1 /\ p.dci = q.dci
          BY <5>1
        <5>3. q.at = k + 1
          BY <3>3, <4>1, <5>2
        <5> QED BY <4>1, <5>2, <5>3
      <4>2. ASSUME NEW q \in plan, q.at = k + 1, q.dci = d
            PROVE  \E p \in plan' : p.at = k /\ p.dci = d
        <5> DEFINE p == [at |-> q.at - 1, k1 |-> q.k1, dci |-> q.dci]
        <5>1. q.at > 0 /\ q.at - 1 = k
          BY <3>3, <4>2
        <5>2. p \in plan'
          BY <2>2, <5>1
        <5>3. p.at = k /\ p.dci = d
          BY <4>2, <5>1
        <5> HIDE DEF p
        <5> QED BY <5>2, <5>3
      <4> QED BY <3>1, <4>1, <4>2
    <3>5. /\ Type(k)' = Type(k + 1) /\ SendAt(k)' = SendAt(k + 1) /\ SendAt(k + 1) \in Int
          /\ k + 1 # 0
      BY <1>2, <1>5, <3>3
    <3>6. CASE k # Lead
      <4>1. k + 1 \in Ahead /\ alloc'[k] = alloc[k + 1]
        BY <1>2, <3>6
      <4>2. Known(k)' = Known(k + 1)
        BY <3>4 DEF Known
      <4>3. k < SendAt(k + 1) <=> k + 1 < SendAt(k + 1) + 1
        BY <3>3, <3>5
      <4>4. Known(k)' = IF WithUl(Type(k)') /\ k < SendAt(k)' THEN UlOf(alloc'[k]) ELSE {}
        BY <2>3, <3>5, <4>1, <4>2, <4>3
      <4>5. SendAt(k)' + Told' = SendAt(k)'
        BY <1>2, <3>5
      <4> QED BY <1>2, <4>4, <4>5 DEF KnownOK
    <3>7. CASE k = Lead
      <4>1. Known(k)' = {}
        BY <3>3, <3>4, <3>7
      <4>2. UlOf(alloc'[k]) = {} /\ phase' # "data"
        BY <1>2, <1>8, <3>7
      <4> QED BY <4>1, <4>2 DEF KnownOK
    <3> QED BY <3>6, <3>7
  <2> QED BY <1>2, <2>4, <2>5 DEF PlanOK
<1> QED BY <1>6, <1>7, <1>9, <1>10, <1>11 DEF SlotInv

-----------------------------------------------------------------------------
(* UEs that come and go. *)

LEMMA AttachTypes ==
  ASSUME OtherTypes, NEW u \in UEs, Attach(u) \/ Release(u)
  PROVE  OtherTypes'
<1>1. /\ srs.periodicity \in StandardPeriodicity /\ Attached(srs) \subseteq UEs
      /\ waited \in [UEs -> Nat]
  BY DEF OtherTypes
<1>2. /\ UNCHANGED <<pattern, pos, phase, alloc, ulSym, srsSlotCounter, harq>>
  BY DEF Attach, Release
<1>3. waited' \in [UEs -> Nat]
  <2>1. waited' = [waited EXCEPT ![u] = 0] \/ waited' = [v \in UEs |-> 0]
    BY DEF Attach, Release
  <2> QED BY <1>1, <2>1
<1>4. srs'.periodicity \in StandardPeriodicity /\ Attached(srs') \subseteq UEs
  <2>1. CASE Attach(u) /\ srs.avail # <<>>
    <3>1. srs' = AddUe(srs, u)
      BY <2>1 DEF Attach
    <3> QED BY <1>1, <3>1 DEF AddUe, Attached
  <2>2. CASE Attach(u) /\ srs.avail = <<>>
    <3>1. Larger(srs.periodicity) # {} /\ srs' \in IncreasePeriodicity(srs, u)
      BY <2>2 DEF Attach
    <3>2. Larger(srs.periodicity) \subseteq Nat /\ Larger(srs.periodicity) \subseteq StandardPeriodicity
      BY SrsAssumption DEF Larger
    <3>3. Min(Larger(srs.periodicity)) \in StandardPeriodicity
      BY <3>1, <3>2, MinOf
    <3>4. /\ srs'.periodicity = Min(Larger(srs.periodicity))
          /\ DOMAIN srs'.ue = Attached(srs) \cup {u}
      <4> DEFINE p == Min(Larger(srs.periodicity))  users == Attached(srs) \cup {u}
      <4>1. PICK f, s : srs' = [avail |-> s, periodicity |-> p,
                                ue |-> [v \in users |-> [offset |-> f[v], periodicity |-> p]]]
        BY <3>1 DEF IncreasePeriodicity, Reassigned
      <4> HIDE DEF p, users
      <4>2. srs'.periodicity = p /\ DOMAIN srs'.ue = users
        BY <4>1
      <4> QED BY <4>2 DEF p, users
    <3> QED BY <1>1, <3>3, <3>4 DEF Attached
  <2>3. CASE Release(u)
    <3>1. srs' = RemoveUe(srs, u)
      BY <2>3 DEF Release
    <3>2. srs'.periodicity = srs.periodicity /\ DOMAIN srs'.ue = Attached(srs) \ {u}
      BY <3>1 DEF RemoveUe, Restrict
    <3> QED BY <1>1, <3>2 DEF Attached
  <2> QED BY <2>1, <2>2, <2>3
<1>5. Attached(srs)' = Attached(srs')
  BY DEF Attached
<1> QED BY <1>2, <1>3, <1>4, <1>5 DEF OtherTypes, Ahead

\* What the invariant says of the slots depends on nothing else.
LEMMA SlotsUnchanged ==
  ASSUME UNCHANGED <<pattern, pos, phase, alloc, ulSym, ctrlMsgs, plan>>
  PROVE  /\ SlotsOK => SlotsOK'
         /\ SilentOK => SilentOK'
         /\ MessagesOK => MessagesOK'
         /\ PlanOK => PlanOK'
<1>1. /\ \A k : Type(k)' = Type(k) /\ SendAt(k)' = SendAt(k) /\ KnownOK(k)' = KnownOK(k)
      /\ Made' = Made /\ Told' = Told /\ Ahead' = Ahead /\ Messages(alloc)' = Messages(alloc)
  BY DEF Type, SendAt, KnownOK, Known, Made, Told, Ahead, Messages, Scheduled
<1>2. SlotsOK => SlotsOK'
  BY <1>1 DEF SlotsOK
<1>3. SilentOK => SilentOK'
  BY <1>1 DEF SilentOK
<1>4. MessagesOK => MessagesOK'
  BY <1>1 DEF MessagesOK
<1>5. PlanOK => PlanOK'
  BY <1>1 DEF PlanOK
<1> QED BY <1>2, <1>3, <1>4, <1>5

LEMMA AttachKeeps ==
  ASSUME SlotInv, NEW u \in UEs, Attach(u) \/ Release(u)
  PROVE  SlotInv'
<1>1. OtherTypes'
  BY AttachTypes DEF SlotInv
<1>2. UNCHANGED <<pattern, pos, phase, alloc, ulSym, ctrlMsgs, plan>>
  BY DEF Attach, Release
<1> QED BY <1>1, <1>2, SlotsUnchanged DEF SlotInv

-----------------------------------------------------------------------------
(* The theorems. *)

\* Two slots before its own, a slot holds what its UL trigger allocated at its end; the DL
\* trigger merges the rest before it; the DCIs of the UL part leave later than its trigger,
\* never before a DL CTRL is there to carry them.
THEOREM Invariance == Spec => []SlotInv
<1>1. SlotInv /\ UNCHANGED vars => SlotInv'
  <2> SUFFICES ASSUME SlotInv, UNCHANGED vars PROVE SlotInv'
    OBVIOUS
  <2>1. OtherTypes'
    BY DEF vars, SlotInv, OtherTypes, Ahead, Attached
  <2> QED BY <2>1, SlotsUnchanged DEF vars, SlotInv
<1>2. SlotInv /\ [Next]_vars => SlotInv'
  BY <1>1, StartSlotKeeps, DlCtrlKeeps, EndSlotKeeps, AttachKeeps DEF Next
<1> QED BY <1>2, Initial, PTL DEF Spec

LEMMA SlotFit ==
  ASSUME SlotInv, NEW k \in Ahead
  PROVE  /\ Fit(alloc[k].dcis) /\ alloc[k].numSymAlloc = NumSym(alloc[k].dcis)
         /\ ulSym[k] \in 0 .. SymbolsPerSlot
<1>1. SlotIs(alloc[k], ulSym[k], k, Type(k), SendAt(k), Made)
  BY DEF SlotInv, SlotsOK
<1>2. alloc[k] = [dcis |-> alloc[k].dcis, numSymAlloc |-> NumSym(alloc[k].dcis)]
  BY <1>1 DEF SlotIs
<1>3. [dcis |-> alloc[k].dcis, numSymAlloc |-> NumSym(alloc[k].dcis)].numSymAlloc
        = NumSym(alloc[k].dcis)
  OBVIOUS
<1> QED BY <1>1, <1>2, <1>3 DEF SlotIs

\* Every variable keeps its type in all behaviours.
THEOREM TypeCorrect == Spec => []TypeOK
<1>1. SlotInv => TypeOK
  <2> SUFFICES ASSUME SlotInv PROVE TypeOK
    OBVIOUS
  <2>1. /\ pattern \in Patterns /\ pos \in 0 .. Len(pattern) - 1 /\ phase \in {"start", "ctrl", "data"}
        /\ srs.periodicity \in StandardPeriodicity /\ Attached(srs) \subseteq UEs
        /\ waited \in [UEs -> Nat] /\ srsSlotCounter \in 0 .. SrsCounterRange - 1
        /\ \A p \in harq : p.at <= Lead /\ p.age \in 0 .. NumHarqProcess
    BY DEF SlotInv, OtherTypes
  <2>2. \A k \in Ahead : /\ alloc[k].numSymAlloc \in Nat /\ ulSym[k] \in 0 .. SymbolsPerSlot
                         /\ \A d \in alloc[k].dcis : d.sym \in Nat /\ d.num \in Nat \ {0}
                                                     /\ d.ue \in UEs \cup {NoUe}
    BY SlotFit, FitSum DEF Fit, Dcis
  <2>3. \A m \in ctrlMsgs : m.k \in Ahead /\ m.dci.kind \notin Ctrl
    <3>1. ctrlMsgs \subseteq Messages(alloc)
      BY DEF SlotInv, MessagesOK
    <3>2. \A s \in Scheduled(alloc) : s.k \in Ahead
      BY DEF Scheduled
    <3>3. \A m \in Messages(alloc) : m.k \in Ahead /\ m.dci.kind \notin Ctrl
      BY <3>2 DEF Messages
    <3> QED BY <3>1, <3>3
  <2>4. \A p \in plan : p.at \in Ahead
    BY DEF SlotInv, PlanOK
  <2> QED BY <2>1, <2>2, <2>3, <2>4 DEF TypeOK
<1> QED BY <1>1, Invariance, PTL

\* No two allocations of a slot share a symbol, although an UL and a DL trigger of
\* different slots make them and neither sees what the other allocates.
THEOREM NoSharedSymbol == Spec => []SymbolsDisjoint
<1>1. SlotInv => SymbolsDisjoint
  BY SlotFit DEF SymbolsDisjoint, Fit, Disjoint, Covered
<1> QED BY <1>1, Invariance, PTL

\* m_numSymAlloc of a merged slot counts every covered symbol once: the assertion of
\* GenerateAllocationStatistics never fails.
THEOREM CountExact == Spec => []NumSymAllocIsExact
<1>1. SlotInv => NumSymAllocIsExact
  BY SlotFit, FitSum DEF NumSymAllocIsExact, Covered
<1> QED BY <1>1, Invariance, PTL

\* A UE hears of an allocation before its symbols begin, and of nothing else.
THEOREM UesKnow == Spec => []UeKnowsItsSlot
<1>1. SlotInv => UeKnowsItsSlot
  <2> SUFFICES ASSUME SlotInv, phase = "data" PROVE UeKnowsItsSlot
    BY DEF UeKnowsItsSlot
  <2>1. pattern \in Patterns /\ pos \in 0 .. Len(pattern) - 1
    BY DEF SlotInv, OtherTypes
  <2>2. 0 \in Ahead /\ Type(0) \in Types /\ SendAt(0) \in Int /\ SendAt(0) >= 1
    BY <2>1, Numbers
  <2>3. /\ SlotIs(alloc[0], ulSym[0], 0, Type(0), SendAt(0), 1) /\ KnownOK(0)
    BY <2>2 DEF SlotInv, SlotsOK, PlanOK, Made
  <2>4. \A d \in alloc[0].dcis : d.kind \in Kinds /\ Belongs(d, 0, Type(0), SendAt(0), 1)
    BY <2>3 DEF SlotIs, Fit, Dcis
  <2>5. {d \in alloc[0].dcis : d.kind \notin Ctrl} = UlOf(alloc[0]) \cup DlOf(alloc[0])
    BY <2>4 DEF Kinds, Ctrl, UlOf, DlOf
  <2>6. ~WithUl(Type(0)) => UlOf(alloc[0]) = {}
    BY <2>4 DEF UlOf, Belongs, UlDone, DlCtrlDci, UlCtrlDci, Dci
  <2>7. Known(0) = UlOf(alloc[0]) \cup DlOf(alloc[0])
    <3>1. 0 < SendAt(0) + Told
      BY <2>2 DEF Told
    <3> QED BY <2>3, <2>6, <3>1 DEF KnownOK
  <2>8. {d \in alloc[0].dcis : d.kind \in Ctrl} \subseteq UeCtrl
    <3>1. ASSUME NEW d \in alloc[0].dcis, d.kind \in Ctrl PROVE d \in UeCtrl
      <4>1. \/ d = DlCtrlDci /\ Type(0) # "UL"
            \/ d = UlCtrlDci /\ Type(0) # "DL"
        BY <2>4, <3>1 DEF Belongs, DlDone, Ctrl
      <4> QED BY <4>1, SlotsAssumption DEF UeCtrl, UlCtrlDci
    <3> QED BY <3>1
  <2> QED BY <2>5, <2>7, <2>8 DEF UeKnowsItsSlot, Known
<1> QED BY <1>1, Invariance, PTL

\* No control message is left over when a slot begins: a slot that prepares messages has a
\* DL CTRL that carries them.
THEOREM MessagesLeave == Spec => []CtrlMsgsAreSent
<1>1. SlotInv => CtrlMsgsAreSent
  BY DEF SlotInv, MessagesOK, CtrlMsgsAreSent
<1> QED BY <1>1, Invariance, PTL

-----------------------------------------------------------------------------
(* The round trip of a DL transmission. *)

\* Feedback goes N1Delay slots later at least, one round of the pattern more at most, in a
\* slot with an UL CTRL.
LEMMA HarqK1OK ==
  ASSUME NEW p \in Patterns, NEW n \in Int
  PROVE  /\ HarqK1(p, n) \in N1Delay .. N1Delay + Len(p)
         /\ SlotType(p, n + HarqK1(p, n)) # "DL"
<1> DEFINE L == Len(p)
           S == {k \in N1Delay .. N1Delay + L : SlotType(p, n + k) # "DL"}
<1>1. L \in Nat \ {0} /\ N1Delay \in Nat
  BY PatternOK
<1> HIDE DEF L
<1>2. PICK i \in 1 .. L : p[i] # "DL"
  BY BothDirections DEF L
<1>3. i - 1 \in 0 .. L - 1 /\ n + N1Delay \in Int
  BY <1>1, <1>2
<1>4. PICK k \in 0 .. L - 1 : ((n + N1Delay) + k) % L = i - 1
  BY <1>1, <1>3, ModAhead
<1>5. (n + (N1Delay + k)) % L = i - 1
  <2>1. n + (N1Delay + k) = (n + N1Delay) + k
    BY <1>1, <1>4
  <2> QED BY <1>4, <2>1
<1>6. SlotType(p, n + (N1Delay + k)) # "DL"
  <2>1. (i - 1) + 1 = i
    BY <1>2
  <2> QED BY <1>2, <1>5, <2>1 DEF SlotType, L
<1>7. N1Delay + k \in S
  BY <1>1, <1>4, <1>6
<1>8. S \in SUBSET Nat /\ S # {}
  <2>1. \A y \in N1Delay .. N1Delay + L : y \in Nat
    BY <1>1
  <2>2. S \subseteq N1Delay .. N1Delay + L
    OBVIOUS
  <2> QED BY <1>7, <2>1, <2>2
<1>9. Min(S) \in S
  BY <1>8, MinOf
<1> HIDE DEF S
<1>10. HarqK1(p, n) = Min(S)
  BY DEF HarqK1, S, L
<1> QED BY <1>9, <1>10 DEF S, L

\* It depends on the position in the pattern only.
LEMMA SameHarqK1 ==
  ASSUME NEW p \in Patterns, NEW n \in Int, NEW m \in Int,
         \A k \in Int : SlotType(p, m + k) = SlotType(p, n + k)
  PROVE  HarqK1(p, m) = HarqK1(p, n)
<1>1. Len(p) \in Nat /\ N1Delay \in Nat
  BY PatternOK
<1>2. \A k \in N1Delay .. N1Delay + Len(p) : k \in Int
  BY <1>1
<1>3. {k \in N1Delay .. N1Delay + Len(p) : SlotType(p, m + k) # "DL"}
      = {k \in N1Delay .. N1Delay + Len(p) : SlotType(p, n + k) # "DL"}
  BY <1>2
<1> QED BY <1>3 DEF HarqK1

\* Slots are counted alike from anywhere.
LEMMA ShiftedCount ==
  ASSUME NEW S \in SUBSET Int, IsFiniteSet(S), NEW s \in Int, NEW T,
         T = {i + s : i \in S}
  PROVE  IsFiniteSet(T) /\ Cardinality(T) = Cardinality(S)
<1> DEFINE f == [i \in S |-> i + s]
<1>1. f \in Bijection(S, T)
  <2>1. f \in [S -> T] /\ \A t \in T : \E i \in S : f[i] = t
    OBVIOUS
  <2>2. ASSUME NEW i \in S, NEW j \in S, f[i] = f[j] PROVE i = j
    BY <2>2
  <2> HIDE DEF f
  <2>3. DOMAIN f = S
    BY <2>1
  <2> QED BY <2>1, <2>2, <2>3 DEF Bijection, Injection, Surjection, IsInjective
<1> HIDE DEF f
<1> QED BY <1>1, FS_Bijection DEF ExistsBijection

\* The DL triggers after that of a slot: finite, and one more when the current slot has one.
LEMMA DlTriggersOK ==
  ASSUME OtherTypes, NEW n \in Int
  PROVE  /\ DlTriggers(n, 0) \in SUBSET Int /\ IsFiniteSet(DlTriggers(n, 0))
         /\ DlTriggers(n, 1) \in SUBSET Int /\ IsFiniteSet(DlTriggers(n, 1))
         /\ Cardinality(DlTriggers(n, 0)) \in Nat /\ Cardinality(DlTriggers(n, 1)) \in Nat
         /\ Cardinality(DlTriggers(n, 0)) <= Cardinality(DlTriggers(n, 1))
         /\ Type(2) # "UL" /\ n < 2
              => Cardinality(DlTriggers(n, 1)) = Cardinality(DlTriggers(n, 0)) + 1
<1>1. /\ DlTriggers(n, 0) \subseteq n + 1 .. 1 /\ DlTriggers(n, 1) \subseteq n + 1 .. 2
      /\ n + 1 .. 1 \subseteq Int /\ n + 1 .. 2 \subseteq Int
      /\ IsFiniteSet(n + 1 .. 1) /\ IsFiniteSet(n + 1 .. 2)
  <2>1. n + 1 \in Int /\ 1 \in Int /\ 2 \in Int /\ 0 + 1 = 1 /\ 1 + 1 = 2
    OBVIOUS
  <2>2. IsFiniteSet(n + 1 .. 1) /\ IsFiniteSet(n + 1 .. 2)
    BY <2>1, FS_Interval
  <2>3. n + 1 .. 1 \subseteq Int /\ n + 1 .. 2 \subseteq Int
    BY <2>1
  <2> QED BY <2>1, <2>2, <2>3 DEF DlTriggers
<1>2. IsFiniteSet(DlTriggers(n, 0)) /\ IsFiniteSet(DlTriggers(n, 1))
  BY <1>1, FS_Subset
<1>3. DlTriggers(n, 0) \subseteq DlTriggers(n, 1)
  <2>1. \A i \in n + 1 .. 0 + 1 : i \in n + 1 .. 1 + 1
    OBVIOUS
  <2> QED BY <2>1 DEF DlTriggers
<1>4. Cardinality(DlTriggers(n, 0)) <= Cardinality(DlTriggers(n, 1))
  BY <1>2, <1>3, FS_Subset
<1>5. ASSUME Type(2) # "UL", n < 2
      PROVE  DlTriggers(n, 1) = DlTriggers(n, 0) \cup {2} /\ 2 \notin DlTriggers(n, 0)
  <2>1. \A i \in n + 1 .. 1 + 1 : i \in n + 1 .. 0 + 1 \/ i = 2
    OBVIOUS
  <2>2. 2 \in n + 1 .. 1 + 1 /\ 2 \notin n + 1 .. 0 + 1
    BY <1>5
  <2>3. DlTriggers(n, 1) \subseteq DlTriggers(n, 0) \cup {2}
    BY <2>1 DEF DlTriggers
  <2>4. 2 \in DlTriggers(n, 1) /\ 2 \notin DlTriggers(n, 0)
    BY <1>5, <2>2 DEF DlTriggers
  <2> QED BY <1>3, <2>3, <2>4
<1> QED BY <1>1, <1>2, <1>4, <1>5, FS_AddElement, FS_CardinalityType

\* The hypothesis on the timer, for a slot anywhere, seen from the current slot.
LEMMA InTime ==
  ASSUME RttFits, OtherTypes, NEW n \in Int, n + HarqK1(pattern, pos + n) >= 0
  PROVE  /\ Cardinality(DlTriggers(n, 0)) < NumHarqProcess
         /\ Cardinality(DlTriggers(n, 1)) < NumHarqProcess
<1> DEFINE p == pattern  L == Len(p)  m == pos + n  r == m % L  s == r - pos
           k1 == HarqK1(p, r)
           R == {i \in r + 1 .. r + k1 + L1L2CtrlLatency : SlotType(p, i) # "UL"}
<1>1. /\ p \in Patterns /\ L \in Nat \ {0} /\ pos \in Int /\ m \in Int /\ N1Delay \in Nat
      /\ NumHarqProcess \in Nat
  BY PatternOK, SlotsAssumption DEF OtherTypes
<1>2. r \in 0 .. L - 1 /\ r \in Int
  <2> HIDE DEF L, m
  <2>1. m % L \in 0 .. L - 1
    BY <1>1, Division
  <2> QED BY <1>1, <2>1
<1>3. \A k \in Int : SlotType(p, r + k) = SlotType(p, m + k)
  <2>1. \A k \in Int : (r + k) % L = (m + k) % L
    BY <1>1, ModAdd
  <2> QED BY <2>1 DEF SlotType
<1> HIDE DEF m
<1>4. k1 = HarqK1(p, m) /\ k1 \in Int
  <2>1. k1 = HarqK1(p, m)
    BY <1>1, <1>2, <1>3, SameHarqK1
  <2>2. HarqK1(p, m) \in N1Delay .. N1Delay + L
    BY <1>1, HarqK1OK
  <2> QED BY <1>1, <2>1, <2>2
<1>5. Cardinality(R) < NumHarqProcess
  BY <1>1, <1>2 DEF RttFits
<1>6. R \in SUBSET Int /\ IsFiniteSet(R)
  <2>1. L1L2CtrlLatency = 2
    BY DEF L1L2CtrlLatency
  <2>2. IsFiniteSet(r + 1 .. r + k1 + L1L2CtrlLatency) /\ r + 1 .. r + k1 + L1L2CtrlLatency \subseteq Int
    <3>1. r + 1 \in Int /\ r + k1 + L1L2CtrlLatency \in Int
      BY <1>2, <1>4, <2>1
    <3> HIDE DEF r, k1
    <3>2. IsFiniteSet(r + 1 .. r + k1 + L1L2CtrlLatency)
      BY <3>1, FS_Interval
    <3> QED BY <3>1, <3>2
  <2>3. R \subseteq r + 1 .. r + k1 + L1L2CtrlLatency
    OBVIOUS
  <2> HIDE DEF R, r, k1
  <2> QED BY <2>2, <2>3, FS_Subset
<1> HIDE DEF r, k1
<1>7. n + k1 >= 0 /\ m = pos + n
  BY <1>4 DEF m
<1> DEFINE d == n - r  T == {i + d : i \in R}
<1>8. d \in Int
  BY <1>2
<1>9. IsFiniteSet(T) /\ Cardinality(T) = Cardinality(R)
  <2> HIDE DEF R
  <2> QED BY <1>6, <1>8, ShiftedCount
<1>10. ASSUME NEW i \in DlTriggers(n, 1) PROVE i \in T
  <2>1. i \in n + 1 .. 2 /\ i \in Int /\ Type(i) # "UL"
    BY DEF DlTriggers
  <2>2. i - d \in r + 1 .. r + k1 + 2 /\ i - d \in Int /\ (i - d) + d = i
    BY <1>2, <1>4, <1>7, <2>1
  <2>3. SlotType(p, i - d) = Type(i)
    <3>1. i - n \in Int /\ r + (i - n) = i - d /\ m + (i - n) = pos + i
      BY <1>1, <1>2, <1>7, <2>1
    <3>2. SlotType(p, r + (i - n)) = SlotType(p, m + (i - n))
      BY <1>3, <3>1
    <3> QED BY <3>1, <3>2 DEF Type
  <2>4. i - d \in R
    BY <2>1, <2>2, <2>3 DEF L1L2CtrlLatency
  <2> HIDE DEF R, d
  <2> QED BY <2>2, <2>4
<1> HIDE DEF T, R
<1>11. Cardinality(DlTriggers(n, 1)) <= Cardinality(T) /\ Cardinality(T) \in Nat
  BY <1>9, <1>10, FS_Subset, FS_CardinalityType
<1>12. /\ Cardinality(DlTriggers(n, 0)) <= Cardinality(DlTriggers(n, 1))
       /\ Cardinality(DlTriggers(n, 0)) \in Nat /\ Cardinality(DlTriggers(n, 1)) \in Nat
  BY DlTriggersOK
<1> QED BY <1>1, <1>5, <1>9, <1>11, <1>12

LEMMA StartSlotYoung ==
  ASSUME RttFits, OtherTypes, StartSlot, NEW n \in Int, n < 2, n \notin dlHarqInfo,
         n + HarqK1(pattern, pos + n) >= 0, Young(n)
  PROVE  Young(n)'
<1>1. /\ phase = "start" /\ phase' = "ctrl" /\ UNCHANGED <<pattern, pos>>
      /\ \E ul, dl : Triggers(ul, dl)
  BY StartSlotTriggers
<1>2. PICK ul, dl : Triggers(ul, dl)
  BY <1>1
<1> DEFINE c0 == Cardinality(DlTriggers(n, 0))  c1 == Cardinality(DlTriggers(n, 1))
<1>3. /\ c0 \in Nat /\ c1 \in Nat /\ c0 <= c1 /\ c0 < NumHarqProcess
      /\ Type(2) # "UL" => c1 = c0 + 1
  BY DlTriggersOK, InTime
<1>4. Made = 0 /\ Made' = 1 /\ DlTriggers(n, 1)' = DlTriggers(n, 1)
  BY <1>1 DEF Made, DlTriggers, Type
<1>5. PICK p \in harq : p.at = n /\ p.age <= c0
  BY <1>4 DEF Young
<1>6. Young(n)' <=> \E q \in harq' : q.at = n /\ q.age <= c1
  BY <1>4 DEF Young
<1> HIDE DEF c0, c1
<1>7. p = [at |-> p.at, age |-> p.age] /\ p.age \in Nat
  BY <1>5, SlotsAssumption DEF OtherTypes
<1>8. GenerateDl(pattern, pos) = IF Type(2) = "UL" THEN {} ELSE {2}
  <2>1. pattern \in Patterns /\ pos \in Int
    BY PatternOK DEF OtherTypes
  <2> QED BY <2>1, GenerateOK DEF Type
<1>9. CASE Type(2) = "UL"
  <2>1. harq' = harq
    BY <1>2, <1>8, <1>9 DEF Triggers
  <2>2. p.age <= c1
    BY <1>3, <1>5, <1>7
  <2> QED BY <1>5, <1>6, <2>1, <2>2
<1>10. CASE Type(2) # "UL"
  <2> DEFINE q == [p EXCEPT !.age = @ + 1]
  <2>1. q = [at |-> p.at, age |-> p.age + 1]
    BY <1>7
  <2>2. p.age < NumHarqProcess
    BY <1>3, <1>5, <1>7, SlotsAssumption
  <2>3. q \in Aged(harq)
    BY <1>5, <2>2 DEF Aged
  <2>4. q.at = n /\ q.age <= c1
    BY <1>3, <1>5, <1>7, <1>10, <2>1
  <2> HIDE DEF q
  <2>5. {r \in Aged(harq) : r.at \notin dlHarqInfo} \subseteq harq'
    BY <1>2, <1>8, <1>10 DEF Triggers
  <2> QED BY <1>6, <2>3, <2>4, <2>5
<1> QED BY <1>9, <1>10

LEMMA StartSlotRoundTrip ==
  ASSUME RttFits, SlotInv, RoundTripOK, StartSlot
  PROVE  RoundTripOK'
<1>1. /\ phase = "start" /\ phase' = "ctrl" /\ UNCHANGED <<pattern, pos, srs, plan, feedback>>
      /\ \E ul, dl : Triggers(ul, dl)
  BY StartSlotTriggers
<1>2. PICK ul, dl : Triggers(ul, dl)
  BY <1>1
<1>3. /\ OtherTypes /\ SlotsOK /\ pattern \in Patterns /\ pos \in 0 .. Len(pattern) - 1
      /\ pos \in Int
  BY Numbers DEF SlotInv, OtherTypes
<1>4. GenerateDl(pattern, pos) = IF Type(2) = "UL" THEN {} ELSE {2}
  BY <1>3, GenerateOK DEF Type
<1>5. dlHarqInfo' \subseteq dlHarqInfo /\ (dlHarqInfo' # {} => harq' = harq)
  BY <1>2 DEF Triggers
<1>6. ASSUME NEW k \in Ahead, DlOf(alloc'[k]) # {} PROVE Young(k)'
  <2>1. PICK d \in alloc'[k].dcis : d.kind = "DL_DATA"
    BY <1>6 DEF DlOf
  <2>2. UlAdded(k) \/ Kept(k) \/ (k \in GenerateDl(pattern, pos) /\ DlAdded(k, dl[k]))
    BY <1>1, <1>2, <1>3, SlotTriggered
  <2>3. ~UlAdded(k)
    BY <2>1 DEF UlAdded, IsUlPart, UlCtrlDci, Dci
  <2>4. k \in Int /\ k >= 0 /\ SlotIs(alloc[k], ulSym[k], k, Type(k), SendAt(k), 0)
    BY <1>1, <1>3, Numbers DEF SlotsOK, Made
  <2>5. ASSUME d \in alloc[k].dcis PROVE k < 2
    <3>1. Belongs(d, k, Type(k), SendAt(k), 0)
      BY <2>4, <2>5 DEF SlotIs
    <3>2. DlDone(k, Type(k), 0)
      BY <2>1, <3>1 DEF Belongs, DlCtrlDci, UlCtrlDci, Dci
    <3> QED BY <2>4, <3>2 DEF DlDone
  <2>6. CASE Kept(k)
    <3>1. d \in alloc[k].dcis /\ k < 2
      BY <2>1, <2>5, <2>6 DEF Kept
    <3>2. Young(k) /\ k \notin dlHarqInfo
      BY <2>1, <2>4, <3>1 DEF RoundTripOK, DlOf
    <3>3. k + HarqK1(pattern, pos + k) >= 0
      <4>1. /\ HarqK1(pattern, pos + k) \in N1Delay .. N1Delay + Len(pattern)
            /\ N1Delay \in Nat /\ Len(pattern) \in Nat
        <5>1. pos + k \in Int /\ N1Delay \in Nat /\ Len(pattern) \in Nat
          BY <1>3, <2>4, PatternOK
        <5> QED BY <1>3, <5>1, HarqK1OK
      <4> QED BY <2>4, <4>1
    <3> QED BY <1>3, <2>4, <3>1, <3>2, <3>3, StartSlotYoung
  <2>7. CASE k \in GenerateDl(pattern, pos) /\ DlAdded(k, dl[k])
    <3>1. k = 2 /\ d \in dl[k]
      BY <2>1, <2>5, <2>7 DEF DlAdded
    <3>2. [at |-> k, age |-> 0] \in harq'
      BY <1>2, <2>1, <2>7, <3>1 DEF Triggers
    <3>3. Made' = 1 /\ DlTriggers(k, 1)' = DlTriggers(k, 1)
      BY <1>1 DEF Made, DlTriggers, Type
    <3>4. 0 <= Cardinality(DlTriggers(k, 1))
      BY <1>3, <2>4, DlTriggersOK
    <3>5. [at |-> k, age |-> 0].at = k /\ [at |-> k, age |-> 0].age = 0
      OBVIOUS
    <3> QED BY <3>2, <3>3, <3>4, <3>5 DEF Young
  <2> QED BY <2>2, <2>3, <2>6, <2>7
<1>7. ASSUME NEW f \in feedback' PROVE FeedbackOK(f)'
  <2>1. FeedbackOK(f) /\ f \in feedback
    BY <1>1, <1>7 DEF RoundTripOK
  <2>2. f.at \in Int /\ f.at < 2 /\ f.at \notin dlHarqInfo
        /\ f.at + HarqK1(pattern, pos + f.at) >= 0 /\ Young(f.at)
    BY <2>1 DEF FeedbackOK
  <2>3. Young(f.at)'
    BY <1>3, <2>2, StartSlotYoung
  <2> QED BY <1>1, <1>5, <2>1, <2>3 DEF FeedbackOK, Young
<1>8. \A n \in dlHarqInfo' : n \in Int /\ n < 0 /\ \E p \in harq' : p.at = n /\ p.age < NumHarqProcess
  BY <1>5 DEF RoundTripOK
<1>9. Ahead' = Ahead
  BY DEF Ahead
<1> QED BY <1>6, <1>7, <1>8, <1>9 DEF RoundTripOK, DlOf

\* The other steps of a slot.
LEMMA OtherRoundTrip ==
  ASSUME RoundTripOK, UNCHANGED <<pattern, pos, alloc, harq, feedback, dlHarqInfo>>, Made' = Made
  PROVE  RoundTripOK'
<1>1. \A n : DlTriggers(n, Made)' = DlTriggers(n, Made)
  BY DEF DlTriggers, Type
<1>2. \A n : Young(n)' = Young(n)
  BY <1>1 DEF Young
<1>3. Ahead' = Ahead /\ \A k : DlOf(alloc[k])' = DlOf(alloc[k])
  BY DEF Ahead, DlOf
<1>4. \A f : FeedbackOK(f)' = FeedbackOK(f)
  BY <1>2 DEF FeedbackOK
<1> QED BY <1>2, <1>3, <1>4 DEF RoundTripOK

\* Seen from the next slot, a process is as old and its slot one nearer.
LEMMA EndSlotYoung ==
  ASSUME OtherTypes, EndSlot, NEW n \in Int
  PROVE  /\ Young(n) => Young(n - 1)'
         /\ (\E p \in harq : p.at = n /\ p.age < NumHarqProcess)
              => \E p \in harq' : p.at = n - 1 /\ p.age < NumHarqProcess
         /\ HarqK1(pattern, pos' + (n - 1)) = HarqK1(pattern, pos + n)
<1>1. /\ phase = "data" /\ phase' = "start" /\ Ahead' = Ahead
      /\ Made = 1 /\ Told = 1 /\ Made' = 0 /\ Told' = 0 /\ pos' \in 0 .. Len(pattern) - 1
      /\ \A k \in Int : Type(k)' = Type(k + 1) /\ SendAt(k)' = SendAt(k + 1)
  BY EndSlotShift
<1>2. pattern \in Patterns /\ pos \in Int /\ pos' \in Int
  BY <1>1, PatternOK DEF OtherTypes
<1>3. harq' = {[p EXCEPT !.at = @ - 1] : p \in harq} /\ pos' = (pos + 1) % Len(pattern)
  BY DEF EndSlot
<1>4. ASSUME NEW p \in harq
      PROVE  \E q \in harq' : q.at = p.at - 1 /\ q.age = p.age
  <2>1. p = [at |-> p.at, age |-> p.age]
    BY DEF OtherTypes
  <2>2. [p EXCEPT !.at = @ - 1] = [at |-> p.at - 1, age |-> p.age]
    BY <2>1
  <2>3. [at |-> p.at - 1, age |-> p.age] \in harq'
    BY <1>3, <2>2
  <2> QED BY <2>3
<1>5. Cardinality(DlTriggers(n - 1, 0))' = Cardinality(DlTriggers(n, 1))
  <2> DEFINE S == DlTriggers(n, 1)  T == DlTriggers(n - 1, 0)'
  <2>6. PICK m \in Int : m = -1
    OBVIOUS
  <2>1. S \in SUBSET Int /\ IsFiniteSet(S)
    BY DlTriggersOK
  <2>2. ASSUME NEW i \in S PROVE i + m \in T
    <3>1. i \in n + 1 .. 2 /\ i \in Int /\ Type(i) # "UL"
      BY DEF DlTriggers
    <3>2. i - 1 \in Int /\ i - 1 \in n .. 1 /\ (i - 1) + 1 = i /\ i + m = i - 1
      BY <2>6, <3>1
    <3>3. Type(i - 1)' # "UL"
      BY <1>1, <3>1, <3>2
    <3>4. (n - 1) + 1 .. 0 + 1 = n .. 1
      OBVIOUS
    <3> QED BY <3>2, <3>3, <3>4 DEF DlTriggers
  <2>3. ASSUME NEW i \in T PROVE \E j \in S : i = j + m
    <3>1. i \in (n - 1) + 1 .. 0 + 1 /\ Type(i)' # "UL"
      BY DEF DlTriggers
    <3>2. i \in Int /\ i + 1 \in n + 1 .. 1 + 1 /\ i = (i + 1) + m
      BY <2>6, <3>1
    <3>3. i + 1 \in S
      BY <1>1, <3>1, <3>2 DEF DlTriggers
    <3> QED BY <3>2, <3>3
  <2> HIDE DEF S, T
  <2>4. T = {i + m : i \in S}
    BY <2>2, <2>3
  <2>5. Cardinality(T) = Cardinality(S)
    BY <2>1, <2>4, <2>6, ShiftedCount
  <2> QED BY <2>5 DEF S, T
<1>6. Young(n) => Young(n - 1)'
  <2> SUFFICES ASSUME Young(n) PROVE Young(n - 1)'
    OBVIOUS
  <2>1. PICK p \in harq : p.at = n /\ p.age <= Cardinality(DlTriggers(n, 1))
    BY <1>1 DEF Young
  <2>2. PICK q \in harq' : q.at = p.at - 1 /\ q.age = p.age
    BY <1>4
  <2>3. q.at = n - 1 /\ q.age <= Cardinality(DlTriggers(n - 1, 0))'
    BY <1>5, <2>1, <2>2
  <2> QED BY <1>1, <2>3 DEF Young
<1>7. (\E p \in harq : p.at = n /\ p.age < NumHarqProcess)
        => \E p \in harq' : p.at = n - 1 /\ p.age < NumHarqProcess
  BY <1>4
<1>8. HarqK1(pattern, pos' + (n - 1)) = HarqK1(pattern, pos + n)
  <2>1. ASSUME NEW k \in Int
        PROVE  SlotType(pattern, (pos' + (n - 1)) + k) = SlotType(pattern, (pos + n) + k)
    <3>1. (n - 1) + k \in Int
      OBVIOUS
    <3>2. SlotType(pattern, pos' + ((n - 1) + k)) = SlotType(pattern, pos + (((n - 1) + k) + 1))
      BY <1>2, <1>3, <3>1, NextSlotType
    <3>3. /\ pos' + ((n - 1) + k) = (pos' + (n - 1)) + k
          /\ pos + (((n - 1) + k) + 1) = (pos + n) + k
      BY <1>2
    <3> QED BY <3>2, <3>3
  <2>2. pos' + (n - 1) \in Int /\ pos + n \in Int
    BY <1>2
  <2> QED BY <1>2, <2>1, <2>2, SameHarqK1
<1> QED BY <1>6, <1>7, <1>8

\* What may be in feedback when the slot ends.
Leaving(f) ==
  /\ f = [at |-> f.at, due |-> f.due] /\ f.at \in Int /\ f.at <= 0
  /\ f.at \notin dlHarqInfo \cup {g.at : g \in Sent}
  /\ f.due \in Int /\ f.due >= 1 /\ f.due = f.at + HarqK1(pattern, pos + f.at)
  /\ Young(f.at)

LEMMA EndSlotLeaving ==
  ASSUME SlotInv, RoundTripOK, phase = "data", NEW f \in (feedback \ Sent) \cup Enqueued
  PROVE  Leaving(f)
<1>1. /\ pattern \in Patterns /\ pos \in Int /\ 0 \in Ahead /\ N1Delay \in Nat \ {0, 1}
      /\ Len(pattern) \in Nat /\ pos + 0 = pos
  BY Numbers, PatternOK DEF SlotInv, OtherTypes
<1>2. \A n \in dlHarqInfo : n \in Int /\ n < 0
  BY DEF RoundTripOK
<1>3. \A g \in feedback : FeedbackOK(g)
  BY DEF RoundTripOK
<1>4. Sent \subseteq feedback
  BY DEF Sent
<1>5. CASE f \in feedback \ Sent
  <2>1. FeedbackOK(f)
    BY <1>3, <1>5
  <2> DEFINE k1 == HarqK1(pattern, pos + f.at)
  <2>2. /\ f.at \in Int /\ f.due = f.at + k1 /\ k1 \in N1Delay .. N1Delay + Len(pattern)
        /\ SlotType(pattern, (pos + f.at) + k1) # "DL"
    <3>1. f.at \in Int /\ pos + f.at \in Int
      BY <1>1, <2>1 DEF FeedbackOK
    <3> QED BY <1>1, <2>1, <3>1, HarqK1OK DEF FeedbackOK
  <2> HIDE DEF k1
  <2>3. k1 \in Int /\ f.due \in Int /\ pos + f.due = (pos + f.at) + k1
    BY <1>1, <2>2
  <2>4. f.due # 0
    <3> SUFFICES ASSUME f.due = 0 PROVE FALSE
      OBVIOUS
    <3>1. Type(0) # "DL"
      BY <1>1, <2>2, <2>3 DEF Type
    <3>2. Dci("UL_CTRL", NoUe, SymbolsPerSlot - UlCtrlSymbols, UlCtrlSymbols) \in UeCtrl
      BY <3>1 DEF UeCtrl
    <3>3. \E d \in UeCtrl : d.kind = "UL_CTRL"
      BY <3>2 DEF Dci
    <3> QED BY <1>5, <2>3, <3>3 DEF Sent
  <2>5. f.at \notin {g.at : g \in Sent}
    <3>1. ASSUME NEW g \in Sent, g.at = f.at PROVE g = f
      <4>1. FeedbackOK(g)
        BY <1>3, <1>4
      <4> QED BY <2>1, <3>1, <4>1 DEF FeedbackOK
    <3> QED BY <1>5, <3>1
  <2>6. f.due >= 1
    <3>1. f.due >= 0
      BY <2>1 DEF FeedbackOK
    <3> QED BY <2>3, <2>4, <3>1
  <2> QED BY <2>1, <2>3, <2>5, <2>6 DEF Leaving, FeedbackOK
<1>6. CASE f \in Enqueued
  <2>1. PICK q \in plan : /\ q.at = 0 /\ q.dci.kind = "DL_DATA"
                          /\ f = [at |-> 0, due |-> q.k1]
    BY <1>6 DEF Enqueued
  <2>2. f.at = 0 /\ f.due = HarqK1(pattern, pos) /\ f = [at |-> f.at, due |-> f.due]
    BY <2>1 DEF SlotInv, PlanOK
  <2>3. HarqK1(pattern, pos) \in N1Delay .. N1Delay + Len(pattern)
    BY <1>1, HarqK1OK
  <2>4. q.dci \in DlOf(alloc[0])
    <3>1. q.dci \in Known(0) /\ KnownOK(0)
      BY <1>1, <2>1 DEF Known, SlotInv, PlanOK
    <3> QED BY <2>1, <3>1 DEF KnownOK, UlOf
  <2>5. Young(0)
    BY <1>1, <2>4 DEF RoundTripOK
  <2>6. 0 \notin dlHarqInfo \cup {g.at : g \in Sent}
    BY <1>2, <1>3, <1>4 DEF FeedbackOK
  <2>7. f.due \in Int /\ f.due >= 1 /\ f.due = f.at + HarqK1(pattern, pos + f.at)
    BY <1>1, <2>2, <2>3
  <2> QED BY <2>2, <2>5, <2>6, <2>7 DEF Leaving
<1> QED BY <1>5, <1>6

LEMMA EndSlotRoundTrip ==
  ASSUME RttFits, SlotInv, RoundTripOK, EndSlot
  PROVE  RoundTripOK'
<1>1. OtherTypes /\ pattern \in Patterns /\ pos \in 0 .. Len(pattern) - 1 /\ pattern' = pattern
  BY DEF SlotInv, OtherTypes, EndSlot
<1>2. /\ phase = "data" /\ Ahead' = Ahead /\ Made = 1
      /\ \A k \in Ahead : /\ k # Lead => k + 1 \in Ahead /\ alloc'[k] = alloc[k + 1]
                          /\ k = Lead => alloc'[k] = EmptySlot
  BY <1>1, EndSlotShift
<1>3. /\ feedback' = {[at |-> f.at - 1, due |-> f.due - 1] : f \in (feedback \ Sent) \cup Enqueued}
      /\ dlHarqInfo' = {n - 1 : n \in dlHarqInfo \cup {f.at : f \in Sent}}
  BY DEF EndSlot
<1>4. \A n \in Int : /\ Young(n) => Young(n - 1)'
                     /\ (\E p \in harq : p.at = n /\ p.age < NumHarqProcess)
                          => \E p \in harq' : p.at = n - 1 /\ p.age < NumHarqProcess
                     /\ HarqK1(pattern, pos' + (n - 1)) = HarqK1(pattern, pos + n)
  BY <1>1, EndSlotYoung
<1>5. \A k \in Ahead : k \in Int
  BY <1>1, Numbers
<1>6. ASSUME NEW n \in dlHarqInfo \cup {f.at : f \in Sent}
      PROVE  n \in Int /\ n < 0 /\ \E p \in harq : p.at = n /\ p.age < NumHarqProcess
  <2>1. CASE n \in dlHarqInfo
    BY <2>1 DEF RoundTripOK
  <2>2. CASE n \in {f.at : f \in Sent}
    <3>1. PICK f \in feedback : f.at = n
      BY <2>2 DEF Sent
    <3>2. n \in Int /\ n < 0 /\ n + HarqK1(pattern, pos + n) >= 0 /\ Young(n)
      BY <3>1 DEF RoundTripOK, FeedbackOK
    <3>3. Cardinality(DlTriggers(n, 1)) < NumHarqProcess /\ Cardinality(DlTriggers(n, 1)) \in Nat
      BY <1>1, <3>2, InTime, DlTriggersOK
    <3>4. PICK p \in harq : p.at = n /\ p.age <= Cardinality(DlTriggers(n, 1))
      BY <1>2, <3>2 DEF Young
    <3>5. p.age \in Nat /\ NumHarqProcess \in Nat
      BY <1>1, SlotsAssumption DEF OtherTypes
    <3>6. p.age < NumHarqProcess
      BY <3>3, <3>4, <3>5
    <3> QED BY <3>2, <3>4, <3>6
  <2> QED BY <2>1, <2>2
<1>7. ASSUME NEW n \in dlHarqInfo'
      PROVE  n \in Int /\ n < 0 /\ \E p \in harq' : p.at = n /\ p.age < NumHarqProcess
  <2>1. PICK m \in dlHarqInfo \cup {f.at : f \in Sent} : n = m - 1
    BY <1>3
  <2>2. m \in Int /\ m < 0 /\ \E p \in harq : p.at = m /\ p.age < NumHarqProcess
    BY <1>6
  <2>3. \E p \in harq' : p.at = m - 1 /\ p.age < NumHarqProcess
    BY <1>4, <2>2
  <2>4. n \in Int /\ n < 0
    BY <2>1, <2>2
  <2> QED BY <2>1, <2>3, <2>4
<1>8. ASSUME NEW f \in feedback' PROVE FeedbackOK(f)'
  <2>1. PICK g \in (feedback \ Sent) \cup Enqueued : f = [at |-> g.at - 1, due |-> g.due - 1]
    BY <1>3
  <2>2. Leaving(g)
    BY <1>2, EndSlotLeaving
  <2>3. /\ g.at \in Int /\ g.at <= 0 /\ g.due \in Int /\ g.due >= 1
        /\ g.due = g.at + HarqK1(pattern, pos + g.at) /\ Young(g.at)
        /\ g.at \notin dlHarqInfo \cup {h.at : h \in Sent}
    BY <2>2 DEF Leaving
  <2>4. f.at = g.at - 1 /\ f.due = g.due - 1 /\ f = [at |-> f.at, due |-> f.due]
    BY <2>1
  <2>5. Young(f.at)' /\ HarqK1(pattern, pos' + f.at) = HarqK1(pattern, pos + g.at)
    BY <1>4, <2>3, <2>4
  <2>6. f.at \notin dlHarqInfo'
    <3>1. ASSUME NEW m \in dlHarqInfo \cup {h.at : h \in Sent}, f.at = m - 1 PROVE FALSE
      <4>1. m \in Int
        BY <1>6
      <4>2. m = g.at
        BY <2>3, <2>4, <3>1, <4>1
      <4> QED BY <2>3, <4>2
    <3> QED BY <1>3, <3>1
  <2>7. f.at \in Int /\ f.at < 0 /\ f.due >= 0
    BY <2>3, <2>4
  <2>8. f.due = f.at + HarqK1(pattern, pos' + f.at)
    <3> DEFINE c == HarqK1(pattern, pos + g.at)
    <3>1. c \in Int
      <4>1. pos \in Int /\ N1Delay \in Nat /\ Len(pattern) \in Nat
        BY <1>1, PatternOK
      <4>2. pos + g.at \in Int
        BY <2>3, <4>1
      <4>3. c \in N1Delay .. N1Delay + Len(pattern)
        BY <1>1, <4>2, HarqK1OK
      <4> QED BY <4>1, <4>3
    <3>2. g.due = g.at + c /\ HarqK1(pattern, pos' + f.at) = c
      BY <2>3, <2>5
    <3> HIDE DEF c
    <3>3. f.due = f.at + c
      BY <2>3, <2>4, <3>1, <3>2
    <3> QED BY <3>2, <3>3
  <2> QED BY <1>1, <2>4, <2>5, <2>6, <2>7, <2>8 DEF FeedbackOK
<1>9. ASSUME NEW k \in Ahead, DlOf(alloc'[k]) # {} PROVE Young(k)'
  <2>1. k # Lead
    BY <1>2, <1>9 DEF DlOf, EmptySlot
  <2>2. k + 1 \in Ahead /\ DlOf(alloc[k + 1]) # {}
    BY <1>2, <1>9, <2>1
  <2>3. k \in Int /\ k + 1 \in Int /\ (k + 1) - 1 = k
    BY <1>5
  <2>4. Young(k + 1)
    BY <2>2 DEF RoundTripOK
  <2>5. Young((k + 1) - 1)'
    BY <1>4, <2>3, <2>4
  <2> QED BY <2>3, <2>5
<1> QED BY <1>2, <1>7, <1>8, <1>9 DEF RoundTripOK, DlOf

\* The feedback of a block always finds its process: the timer that counts scheduler calls
\* for DL slots is longer than the way from the trigger of a slot, two slots before it, to
\* the first slot with an UL CTRL after its decoding and back to the scheduler.
THEOREM FeedbackInTime == ASSUME RttFits PROVE Spec => []FeedbackBeatsTimer
<1>1. Init => RoundTripOK
  BY DEF Init, RoundTripOK, DlOf, EmptySlot
<1>2. SlotInv /\ RoundTripOK /\ [Next]_vars => RoundTripOK'
  <2> SUFFICES ASSUME SlotInv, RoundTripOK, [Next]_vars PROVE RoundTripOK'
    OBVIOUS
  <2>1. CASE StartSlot
    BY <2>1, StartSlotRoundTrip
  <2>2. CASE EndSlot
    BY <2>2, EndSlotRoundTrip
  <2>3. CASE DlCtrl
    BY <2>3, OtherRoundTrip DEF DlCtrl, Made
  <2>4. ASSUME NEW u \in UEs, Attach(u) \/ Release(u) PROVE RoundTripOK'
    BY <2>4, OtherRoundTrip DEF Attach, Release, Made
  <2>5. CASE UNCHANGED vars
    BY <2>5, OtherRoundTrip DEF vars, Made
  <2> QED BY <2>1, <2>2, <2>3, <2>4, <2>5 DEF Next
<1>3. SlotInv /\ RoundTripOK => FeedbackBeatsTimer
  <2> SUFFICES ASSUME SlotInv, RoundTripOK, NEW n \in {f.at : f \in feedback} \cup dlHarqInfo
               PROVE  \E p \in harq : p.at = n /\ p.age < NumHarqProcess
    BY DEF FeedbackBeatsTimer
  <2>1. CASE n \in dlHarqInfo
    BY <2>1 DEF RoundTripOK
  <2>2. CASE n \in {f.at : f \in feedback}
    <3>1. n \in Int /\ n + HarqK1(pattern, pos + n) >= 0 /\ Young(n) /\ OtherTypes
      BY <2>2 DEF RoundTripOK, FeedbackOK, SlotInv
    <3>2. Cardinality(DlTriggers(n, Made)) < NumHarqProcess
          /\ Cardinality(DlTriggers(n, Made)) \in Nat
      BY <3>1, InTime, DlTriggersOK DEF Made
    <3>3. PICK p \in harq : p.at = n /\ p.age <= Cardinality(DlTriggers(n, Made))
      BY <3>1 DEF Young
    <3>4. p.age \in Nat /\ NumHarqProcess \in Nat
      BY <3>1, SlotsAssumption DEF OtherTypes
    <3>5. p.age < NumHarqProcess
      BY <3>2, <3>3, <3>4
    <3> QED BY <3>3, <3>5
  <2> QED BY <2>1, <2>2
<1> QED BY <1>1, <1>2, <1>3, Invariance, PTL DEF Spec


-----------------------------------------------------------------------------
(* The SRS. *)

\* Numbers of the same remainder are a multiple of the divisor apart.
LEMMA ModApart ==
  ASSUME NEW P \in Nat \ {0}, NEW a \in Int, NEW b \in Int, a % P = b % P, a < b
  PROVE  b - a >= P
<1> DEFINE q == a \div P  s == b \div P  x == a % P
<1>1. a = P * q + x /\ b = P * s + x /\ q \in Int /\ s \in Int /\ x \in Int
  BY Division
<1> HIDE DEF q, s, x
<1>2. P * s = P * q + P * (s - q) /\ b - a = P * s - P * q
  BY <1>1
<1>3. ASSUME s <= q PROVE FALSE
  <2>1. PICK e \in Nat : q = s + e
    BY <1>1, <1>3
  <2>2. P * q = P * s + P * e /\ P * e >= 0
    BY <1>1, <2>1
  <2> QED BY <1>1, <2>2
<1>4. PICK e \in Nat : s = (q + 1) + e
  BY <1>1, <1>3
<1>5. P * s = P * q + P + P * e /\ P * e >= 0
  BY <1>1, <1>4
<1>6. P * s \in Int /\ P * q \in Int /\ P * e \in Int
  BY <1>1, <1>4
<1> QED BY <1>2, <1>5, <1>6

\* One round later the remainder is the same.
LEMMA ModRound ==
  ASSUME NEW P \in Nat \ {0}, NEW a \in Int
  PROVE  (a + P) % P = a % P
<1>1. a \div P \in Int /\ a % P \in 0 .. P - 1 /\ a = P * (a \div P) + (a % P)
  BY Division
<1> DEFINE q == a \div P  x == a % P
<1> HIDE DEF q, x
<1>2. /\ a + P = P * (q + 1) + x /\ q + 1 \in Int /\ x \in 0 .. P - 1
      /\ a + P \in Int
  BY <1>1 DEF q, x
<1>3. (a + P) % P = x
  BY <1>2, Remainder
<1> QED BY <1>3 DEF x

\* A counter that is kept modulo a multiple of the divisor has the remainders of one that is not.
LEMMA ModMultiple ==
  ASSUME NEW P \in Nat \ {0}, NEW R \in Nat \ {0}, R % P = 0, NEW x \in Int, NEW e \in Int
  PROVE  ((x % R) + e) % P = (x + e) % P
<1> DEFINE m == R \div P  j == x \div R  y == x % R  a == y + e  q == a \div P  z == a % P
<1>1. R = P * m /\ m \in Int
  BY Division
<1>2. x = R * j + y /\ j \in Int /\ y \in Int
  BY Division
<1> HIDE DEF m, j, y
<1>3. a \in Int /\ a = y + e
  BY <1>2
<1> HIDE DEF a
<1>4. a = P * q + z /\ q \in Int /\ z \in 0 .. P - 1
  BY <1>3, Division
<1> HIDE DEF q, z
<1>5. R * j = P * (m * j) /\ m * j \in Int
  BY <1>1, <1>2
<1> DEFINE t == m * j
<1> HIDE DEF t
<1>6. x + e = P * t + (P * q + z) /\ t \in Int
  BY <1>2, <1>3, <1>4, <1>5 DEF t
<1>7. P * t + (P * q + z) = P * (t + q) + z
  BY <1>4, <1>6
<1>8. x + e = P * (t + q) + z /\ t + q \in Int /\ x + e \in Int
  BY <1>4, <1>6, <1>7
<1>9. (x + e) % P = z
  BY <1>4, <1>8, Remainder
<1> QED BY <1>9 DEF z, a, y

\* The SRS slots left until a UE with this offset sounds, when n of them have been counted,
\* and whether it sounds within its period when it has waited for w.
ComesIn(d, n, offset, period) == d \in 1 .. period /\ (n + d) % period = offset
InPeriod(w, n, offset, period) == \E d : ComesIn(d, n, offset, period) /\ w + d <= period

\* The slots S follow: those in which the counter has the offset, and the wait after them.
RankIn(S, k) == Cardinality({j \in S : j <= k})
Met(S, n, offset, period) == {k \in S : (n + RankIn(S, k)) % period = offset}
WaitAfter(S, w, n, offset, period) ==
  IF Met(S, n, offset, period) = {} THEN w + Cardinality(S)
  ELSE Cardinality(S) - RankIn(S, Max(Met(S, n, offset, period)))

\* SRS slots follow, and the UE sounds in those of them at which the counter has its
\* offset: it has to wait again, but never longer than a period.
LEMMA SoundsAgain ==
  ASSUME NEW P \in Nat \ {0}, NEW R \in Nat \ {0}, R % P = 0, NEW o, NEW n \in Nat,
         NEW w \in Nat, InPeriod(w, n, o, P), NEW S \in SUBSET Nat, IsFiniteSet(S)
  PROVE  InPeriod(WaitAfter(S, w, n, o, P), (n + Cardinality(S)) % R, o, P)
<1> DEFINE r == [k \in S |-> RankIn(S, k)]
           M == Met(S, n, o, P)  v == WaitAfter(S, w, n, o, P)
<1>1. PICK c \in Nat :
        /\ c = Cardinality(S) /\ \A k \in S : r[k] \in 1 .. c
        /\ \A k, l \in S : k < l => r[k] < r[l]
        /\ \A i \in 1 .. c : \E k \in S : r[k] = i
  <2>1. S \in SUBSET Int
    OBVIOUS
  <2>2. r = [k \in S |-> Cardinality({j \in S : j <= k})]
    BY DEF RankIn
  <2> HIDE DEF r
  <2> QED BY <2>1, <2>2, Ranks
<1>2. PICK d \in 1 .. P : (n + d) % P = o /\ w + d <= P
  BY DEF InPeriod, ComesIn
<1>3. M \in SUBSET S /\ \A k \in S : k \in M <=> (n + r[k]) % P = o
  BY DEF Met
<1>4. v = IF M = {} THEN w + c ELSE c - RankIn(S, Max(M))
  BY <1>1 DEF WaitAfter
<1>5. \A k \in S : RankIn(S, k) = r[k]
  OBVIOUS
<1> SUFFICES InPeriod(v, (n + c) % R, o, P)
  BY <1>1
<1> HIDE DEF r, M, v
<1>6. ASSUME NEW e \in 1 .. P, ((n + c) + e) % P = o, v + e <= P
      PROVE  InPeriod(v, (n + c) % R, o, P)
  <2>1. (((n + c) % R) + e) % P = o
    <3>1. n + c \in Int /\ e \in Int
      OBVIOUS
    <3>2. (((n + c) % R) + e) % P = ((n + c) + e) % P
      BY <3>1, ModMultiple
    <3> QED BY <1>6, <3>2
  <2> QED BY <1>6, <2>1 DEF InPeriod, ComesIn
<1>7. ASSUME NEW i \in 1 .. c, (n + i) % P = o PROVE \E k \in M : r[k] = i
  BY <1>1, <1>3, <1>7
<1>8. CASE c < d
  <2>1. ASSUME NEW k \in M PROVE FALSE
    <3>1. PICK i \in 1 .. c : i = r[k]
      BY <1>1, <1>3
    <3>2. (n + i) % P = o
      BY <1>3, <3>1
    <3>3. n + i \in Int /\ n + d \in Int /\ n + i < n + d /\ (n + d) - (n + i) = d - i
      BY <1>8
    <3>4. (n + d) - (n + i) >= P
      BY <1>2, <3>2, <3>3, ModApart
    <3>5. d - i < P
      OBVIOUS
    <3> QED BY <3>3, <3>4, <3>5
  <2>2. v = w + c
    BY <1>4, <2>1
  <2>3. d - c \in 1 .. P /\ (n + c) + (d - c) = n + d /\ (w + c) + (d - c) = w + d
    BY <1>8
  <2> QED BY <1>2, <1>6, <2>2, <2>3
<1>9. CASE ~(c < d)
  <2>1. d \in 1 .. c
    BY <1>9
  <2>2. PICK k \in M : r[k] = d
    BY <1>2, <1>7, <2>1
  <2>3. PICK l \in S : r[l] = c
    BY <1>1, <2>1
  <2>4. ASSUME NEW y \in M PROVE y <= l
    <3>1. y \in S /\ r[y] \in 1 .. c
      BY <1>1, <1>3
    <3>2. ~(c < r[y])
      BY <3>1
    <3>3. ~(l < y)
      BY <1>1, <2>3, <3>1, <3>2
    <3> QED BY <3>1, <3>3
  <2>5. PICK m \in M : m = Max(M) /\ \A y \in M : y <= m
    <3>1. M \in SUBSET Nat /\ M # {} /\ l \in Nat
      BY <1>3, <2>2
    <3> QED BY <2>4, <3>1, MaxOf
  <2>6. m \in S /\ (n + r[m]) % P = o /\ v = c - r[m]
    BY <1>3, <1>4, <1>5, <2>5
  <2>7. PICK i \in 1 .. c : i = r[m]
    BY <1>1, <2>6
  <2>8. ((n + i) + P) % P = o
    <3>1. n + i \in Int /\ (n + i) % P = o
      BY <2>6, <2>7
    <3>2. ((n + i) + P) % P = (n + i) % P
      BY <3>1, ModRound
    <3> QED BY <3>1, <3>2
  <2>9. c < i + P
    <3>1. SUFFICES ASSUME i + P \in 1 .. c PROVE FALSE
      OBVIOUS
    <3>2. n + (i + P) = (n + i) + P
      OBVIOUS
    <3>3. PICK x \in M : r[x] = i + P
      BY <1>7, <2>8, <3>1, <3>2
    <3>4. x \in S /\ x <= m /\ i < i + P /\ ~(i + P < i) /\ i # i + P
      BY <1>3, <2>5, <3>3
    <3>5. x # m /\ ~(x < m)
      BY <1>1, <2>6, <2>7, <3>3, <3>4
    <3> QED BY <2>6, <3>4, <3>5
  <2>10. /\ (i + P) - c \in 1 .. P /\ (n + c) + ((i + P) - c) = (n + i) + P
         /\ (c - i) + ((i + P) - c) <= P
    BY <2>9
  <2> QED BY <1>6, <2>6, <2>7, <2>8, <2>10
<1> QED BY <1>8, <1>9

\* An attached UE sounds where the counter has its offset, and nowhere else.
LEMMA SoundsAtOffset ==
  ASSUME OtherTypes, SrsOK(srs), NEW u \in Attached(srs), NEW k, NEW n \in Int, NEW D \in UlDcis(k, n)
  PROVE  (\E e \in D : e.kind = "SRS" /\ e.ue = u) <=> n % srs.periodicity = srs.ue[u].offset
<1> DEFINE due == {v \in Attached(srs) : srs.ue[v].offset = n % srs.periodicity}
<1>1. PICK v \in SrsUe(n) : D \in UlDcisWith(k, SrsDcis(v), Attached(srs) \ {v})
  BY DEF UlDcis
<1>2. v \in IF due = {} THEN {NoUe} ELSE due
  <2>1. PICK b \in Attached(srs) : v \in DueUe(n, b)
    BY <1>1 DEF SrsUe
  <2>2. srs.ue[b].periodicity = srs.periodicity
    BY <2>1 DEF SrsOK, Partitioned, Attached
  <2> QED BY <2>1, <2>2 DEF DueUe
<1>3. NoUe \notin Attached(srs)
  BY ConstantsOK DEF OtherTypes
<1>4. ASSUME NEW e PROVE (e \in D /\ e.kind = "SRS") <=> e \in SrsDcis(v)
  <2>1. \A x \in SrsDcis(v) : x.kind = "SRS"
    BY DEF SrsDcis, Dci
  <2>2. UlCtrlDci.kind = "UL_CTRL" /\ \A s, a, m : Dci("UL_DATA", s, a, m).kind = "UL_DATA"
    BY DEF UlCtrlDci, Dci
  <2>3. UlCtrlDci.kind # "SRS" /\ \A s, a, m : Dci("UL_DATA", s, a, m).kind # "SRS"
    BY <2>2
  <2>4. SrsDcis(v) \subseteq D
    BY <1>1 DEF UlDcisWith
  <2>5. \A x \in D : x = UlCtrlDci \/ x \in SrsDcis(v) \/ \E s, a, m : x = Dci("UL_DATA", s, a, m)
    BY <1>1 DEF UlDcisWith
  <2> QED BY <2>1, <2>3, <2>4, <2>5
<1>5. ASSUME NEW e \in SrsDcis(v), e.ue = u PROVE v = u
  BY <1>5 DEF SrsDcis, Dci
<1>6. CASE n % srs.periodicity = srs.ue[u].offset
  <2>1. u \in due /\ v \in due
    BY <1>2, <1>6
  <2>2. v = u
    BY <2>1 DEF SrsOK, Partitioned, Attached
  <2>3. 1 \in 1 .. SrsSymbols
    BY ConstantsOK
  <2>4. Dci("SRS", u, LastUlSym - 1, 1) \in SrsDcis(v)
    BY <1>3, <2>2, <2>3 DEF SrsDcis
  <2>5. Dci("SRS", u, LastUlSym - 1, 1).ue = u
    BY DEF Dci
  <2> QED BY <1>4, <1>6, <2>4, <2>5
<1>7. CASE n % srs.periodicity # srs.ue[u].offset
  <2>1. v # u
    BY <1>2, <1>3, <1>7
  <2> QED BY <1>4, <1>5, <1>7, <2>1
<1> QED BY <1>6, <1>7

\* Each attached UE sounds again before its period is over.
PeriodOK ==
  \A u \in Attached(srs) : InPeriod(waited[u], srsSlotCounter, srs.ue[u].offset, srs.periodicity)

LEMMA SrsConstants ==
  ASSUME OtherTypes
  PROVE  /\ srs.periodicity \in Nat \ {0} /\ SrsCounterRange \in Nat \ {0}
         /\ SrsCounterRange % srs.periodicity = 0
         /\ srsSlotCounter \in Nat /\ Attached(srs) \subseteq UEs
         /\ \A u \in UEs : waited[u] \in Nat
  BY SrsAssumption, SlotsAssumption DEF OtherTypes

\* An offset comes within a period, whatever the counter.
LEMMA ComesAtLast ==
  ASSUME NEW P \in Nat \ {0}, NEW n \in Nat, NEW o \in 0 .. P - 1
  PROVE  InPeriod(0, n, o, P)
<1>1. PICK k \in 0 .. P - 1 : ((n + 1) + k) % P = o
  <2>1. n + 1 \in Int
    OBVIOUS
  <2> QED BY <2>1, ModAhead
<1>2. k + 1 \in 1 .. P /\ n + (k + 1) = (n + 1) + k /\ 0 + (k + 1) <= P
  OBVIOUS
<1>3. ComesIn(k + 1, n, o, P)
  BY <1>1, <1>2 DEF ComesIn
<1> QED BY <1>2, <1>3 DEF InPeriod

\* The offset of an attached UE is one of the periodicity.
LEMMA OffsetOK ==
  ASSUME NEW s, SrsOK(s), NEW u \in DOMAIN s.ue
  PROVE  s.ue[u].offset \in 0 .. s.periodicity - 1 /\ s.periodicity \in Nat \ {0}
  BY DEF SrsOK, Partitioned

\* The triggers of a slot count their SRS slots, and the UEs due in them sound.
LEMMA StartSlotPeriod ==
  ASSUME OtherTypes, SrsOK(srs), PeriodOK, StartSlot
  PROVE  PeriodOK'
<1> DEFINE uls == GenerateUl(pattern, pos)  n == srsSlotCounter  P == srs.periodicity
<1>1. UNCHANGED <<pattern, pos, srs>> /\ n' = (n + Cardinality(uls)) % SrsCounterRange
  BY StartSlotTriggers, StartSlotCounts
<1>2. PICK ul :
        /\ DOMAIN ul = uls /\ \A k \in uls : ul[k] \in UlDcis(k, n + Rank(k))
        /\ waited' = [u \in UEs |->
             IF u \notin Attached(srs) THEN 0
             ELSE IF Sounded(ul, u) = {} THEN waited[u] + Cardinality(uls)
             ELSE Cardinality(uls) - Rank(Max(Sounded(ul, u)))]
  BY DEF StartSlot
<1>3. \A k : Rank(k) = RankIn(uls, k)
  BY DEF Rank, RankIn
<1>4. uls \in SUBSET Nat /\ IsFiniteSet(uls)
  <2>1. uls \subseteq Ahead /\ Lead \in Nat /\ IsFiniteSet(0 .. Lead)
    BY Numbers, FS_Interval DEF OtherTypes
  <2> QED BY <2>1, FS_Subset DEF Ahead
<1> HIDE DEF uls
<1>5. ASSUME NEW k \in uls PROVE RankIn(uls, k) \in Int
  <2>1. {j \in uls : j <= k} \subseteq uls
    OBVIOUS
  <2> QED BY <1>4, <2>1, FS_Subset, FS_CardinalityType DEF RankIn
<1>6. ASSUME NEW u \in Attached(srs)
      PROVE  InPeriod(waited'[u], n', srs.ue[u].offset, P)
  <2> DEFINE o == srs.ue[u].offset
  <2>1. /\ P \in Nat \ {0} /\ SrsCounterRange \in Nat \ {0} /\ SrsCounterRange % P = 0
        /\ n \in Nat /\ waited[u] \in Nat /\ u \in UEs
    BY SrsConstants
  <2>2. Sounded(ul, u) = Met(uls, n, o, P)
    <3>1. ASSUME NEW k \in uls
          PROVE  (\E e \in ul[k] : e.kind = "SRS" /\ e.ue = u) <=> (n + RankIn(uls, k)) % P = o
      <4>1. n + RankIn(uls, k) \in Int /\ ul[k] \in UlDcis(k, n + RankIn(uls, k))
        BY <1>2, <1>3, <1>5, <2>1
      <4> QED BY <4>1, SoundsAtOffset
    <3>2. Sounded(ul, u) = {k \in uls : \E e \in ul[k] : e.kind = "SRS" /\ e.ue = u}
      BY <1>2 DEF Sounded
    <3> QED BY <3>1, <3>2 DEF Met
  <2>3. waited'[u] = WaitAfter(uls, waited[u], n, o, P)
    BY <1>2, <1>3, <2>1, <2>2 DEF WaitAfter
  <2>4. InPeriod(waited[u], n, o, P)
    BY DEF PeriodOK
  <2> HIDE DEF n, P, o
  <2>5. InPeriod(WaitAfter(uls, waited[u], n, o, P), (n + Cardinality(uls)) % SrsCounterRange, o, P)
    BY <1>4, <2>1, <2>4, SoundsAgain
  <2>6. InPeriod(waited'[u], n', o, P)
    BY <1>1, <2>3, <2>5
  <2> QED BY <2>6 DEF o
<1> QED BY <1>1, <1>6 DEF PeriodOK, Attached

\* A new UE has not waited yet; whoever gets a new offset begins to wait anew.
LEMMA AttachPeriod ==
  ASSUME OtherTypes, SrsOK(srs), SrsOK(srs'), PeriodOK, NEW u \in UEs, Attach(u) \/ Release(u)
  PROVE  PeriodOK'
<1>1. srsSlotCounter' = srsSlotCounter /\ srsSlotCounter \in Nat /\ waited \in [UEs -> Nat]
  BY SrsConstants DEF Attach, Release, OtherTypes
<1>2. ASSUME NEW v \in DOMAIN srs'.ue, waited'[v] = 0
      PROVE  InPeriod(waited'[v], srsSlotCounter', srs'.ue[v].offset, srs'.periodicity)
  BY <1>1, <1>2, OffsetOK, ComesAtLast
<1>3. ASSUME NEW v \in DOMAIN srs'.ue, waited'[v] # 0
      PROVE  InPeriod(waited'[v], srsSlotCounter', srs'.ue[v].offset, srs'.periodicity)
  <2>1. DOMAIN srs'.ue \subseteq UEs
    BY AttachTypes DEF OtherTypes, Attached
  <2>2. waited' = [waited EXCEPT ![u] = 0]
    BY <1>3, <2>1 DEF Attach, Release
  <2>3. v # u /\ waited'[v] = waited[v]
    BY <1>1, <1>3, <2>1, <2>2
  <2>4. srs' = AddUe(srs, u) \/ srs' = RemoveUe(srs, u)
    <3>1. waited' # [w \in UEs |-> 0]
      BY <1>3, <2>1
    <3> QED BY <3>1 DEF Attach, Release
  <2>5. v \in Attached(srs) /\ srs'.ue[v] = srs.ue[v] /\ srs'.periodicity = srs.periodicity
    <3>1. CASE srs' = AddUe(srs, u)
      BY <1>3, <2>3, <3>1 DEF AddUe, Attached
    <3>2. CASE srs' = RemoveUe(srs, u)
      BY <1>3, <2>3, <3>2 DEF RemoveUe, Attached, Restrict
    <3> QED BY <2>4, <3>1, <3>2
  <2> QED BY <1>1, <2>3, <2>5 DEF PeriodOK
<1> QED BY <1>2, <1>3 DEF PeriodOK, Attached

\* No attached UE waits a whole period of SRS slots for its sounding, whichever UEs come and
\* go: its offset stays or it begins to wait anew, and the counter meets each offset in turn,
\* also when it wraps.
THEOREM SoundsEveryPeriod == Spec => []SrsEveryPeriod
<1>1. Init => PeriodOK
  BY DEF Init, Started, PeriodOK, Attached
<1>2. SlotInv /\ SrsOK(srs) /\ SrsOK(srs)' /\ PeriodOK /\ [Next]_vars => PeriodOK'
  <2> SUFFICES ASSUME SlotInv, SrsOK(srs), SrsOK(srs'), PeriodOK, [Next]_vars PROVE PeriodOK'
    OBVIOUS
  <2>0. OtherTypes
    BY DEF SlotInv
  <2>1. CASE StartSlot
    BY <2>0, <2>1, StartSlotPeriod
  <2>2. ASSUME NEW u \in UEs, Attach(u) \/ Release(u) PROVE PeriodOK'
    BY <2>0, <2>2, AttachPeriod
  <2>3. CASE DlCtrl \/ EndSlot \/ UNCHANGED vars
    <3>1. UNCHANGED <<srs, srsSlotCounter, waited>>
      BY <2>3 DEF DlCtrl, EndSlot, vars
    <3> QED BY <3>1 DEF PeriodOK, Attached
  <2> QED BY <2>1, <2>2, <2>3 DEF Next
<1>3. SlotInv /\ PeriodOK => SrsEveryPeriod
  <2> SUFFICES ASSUME SlotInv, PeriodOK, NEW u \in Attached(srs) PROVE waited[u] < srs.periodicity
    BY DEF SrsEveryPeriod
  <2>1. srs.periodicity \in Nat \ {0} /\ waited[u] \in Nat
    BY SrsConstants DEF SlotInv
  <2>2. PICK d : d \in 1 .. srs.periodicity /\ waited[u] + d <= srs.periodicity
    BY DEF PeriodOK, InPeriod, ComesIn
  <2> QED BY <2>1, <2>2
<1> QED BY <1>1, <1>2, <1>3, Invariance, OffsetsInvariance, PTL DEF Spec
=============================================================================
