----------------------- MODULE PdcpDuplication_proofs -----------------------
(***************************************************************************)
(* Theorems about PdcpDuplication, for every number of copies, every size  *)
(* of the table of sequence numbers and every number of SDUs.              *)
(***************************************************************************)
EXTENDS PdcpDuplication, SequenceElements

-----------------------------------------------------------------------------
(* The buffer of LteRlcTm. *)

\* The positions kept when PDUs are dropped: Nth lists them all, in ascending order.
LEMMA NthPositions ==
  ASSUME NEW n \in Nat, NEW K \in SUBSET (1..n), NEW c, c = Cardinality(K)
  PROVE  /\ c \in Nat /\ c <= n
         /\ \A i \in 1..c : Nth(K, i) \in K
         /\ \A i, j \in 1..c : i < j => Nth(K, i) < Nth(K, j)
         /\ \A k \in K : \E i \in 1..c : Nth(K, i) = k
<1> DEFINE r == [k \in K |-> Cardinality({j \in K : j <= k})]
           Rank(k) == r[k]
<1>1. IsFiniteSet(K) /\ c \in Nat /\ c <= n
  <2>1. IsFiniteSet(1..n) /\ Cardinality(1..n) = n
    BY FS_Interval
  <2> QED BY <2>1, FS_Subset, FS_CardinalityType
<1>2. K \in SUBSET Int
  OBVIOUS
<1>3. \A k \in K : Rank(k) = Cardinality({j \in K : j <= k})
  OBVIOUS
<1>4. /\ \A k \in K : r[k] \in 1..c
      /\ \A k, l \in K : k < l => r[k] < r[l]
      /\ \A i \in 1..c : \E k \in K : r[k] = i
  <2> HIDE DEF r
  <2>1. r = [k \in K |-> Cardinality({j \in K : j <= k})]
    BY DEF r
  <2> QED BY <1>1, <1>2, <2>1, Ranks
<1> HIDE DEF r
<1>5. ASSUME NEW i \in 1..c PROVE Nth(K, i) \in K /\ Rank(Nth(K, i)) = i
  <2>1. PICK k \in K : Cardinality({j \in K : j <= k}) = i
    BY <1>3, <1>4
  <2>2. Nth(K, i) \in K /\ Cardinality({j \in K : j <= Nth(K, i)}) = i
    BY <2>1 DEF Nth
  <2> QED BY <1>3, <2>2
<1>6. \A i, j \in 1..c : i < j => Nth(K, i) < Nth(K, j)
  <2> TAKE i, j \in 1..c
  <2> HAVE i < j
  <2>1. PICK k \in K : k = Nth(K, i) /\ Rank(k) = i
    BY <1>5
  <2>2. PICK l \in K : l = Nth(K, j) /\ Rank(l) = j
    BY <1>5
  <2>3. k # l /\ ~(l < k)
    BY <1>4, <2>1, <2>2
  <2> QED BY <2>1, <2>2, <2>3
<1>7. \A k \in K : \E i \in 1..c : Nth(K, i) = k
  <2> TAKE k \in K
  <2>1. PICK i \in 1..c : i = Rank(k)
    BY <1>4
  <2>2. PICK l \in K : l = Nth(K, i) /\ Rank(l) = i
    BY <1>5
  <2>3. ~(k < l) /\ ~(l < k)
    BY <1>4, <2>1, <2>2
  <2> QED BY <2>2, <2>3
<1> QED BY <1>1, <1>5, <1>6, <1>7

RlcType == [buf : Seq(PduType), size : 0..MaxTxBufferSize, timer : BOOLEAN]

Sorted(s) == \A i, j \in DOMAIN s : i < j => s[i].sdu <= s[j].sdu

\* The RLC entity: m_txBufferSize is exact and, with a deadline, the buffer is sorted.
RlcOK(r) ==
  /\ r \in RlcType
  /\ r.size = PduBytes * Len(r.buf)
  /\ DiscardByDeadline => Sorted(r.buf)

HasRoom(r) == r.size + PduBytes <= MaxTxBufferSize

\* An RLC entity has a count of PDUs, all numbered by integers, and the space they take.
LEMMA RlcFields ==
  ASSUME NEW r, RlcOK(r)
  PROVE  /\ r.buf \in Seq(PduType) /\ Len(r.buf) \in Nat /\ DOMAIN r.buf = 1..Len(r.buf)
         /\ \A i \in 1..Len(r.buf) : r.buf[i] \in PduType /\ r.buf[i].sdu \in Nat
         /\ r.size \in Nat /\ r.size <= MaxTxBufferSize /\ r.timer \in BOOLEAN
         /\ Buffered(r) = Elems(r.buf) /\ Buffered(r) \subseteq PduType
         /\ r = [buf |-> r.buf, size |-> r.size, timer |-> r.timer]
         /\ MaxTxBufferSize \in Nat /\ PduBytes \in Nat \ {0} /\ DiscardByDeadline \in BOOLEAN
<1>1. r \in RlcType /\ r.buf \in Seq(PduType) /\ r.size \in 0..MaxTxBufferSize /\ r.timer \in BOOLEAN
  BY DEF RlcOK, RlcType
<1>2. /\ MaxTxBufferSize \in Nat /\ PduBytes \in Nat \ {0} /\ DiscardByDeadline \in BOOLEAN
      /\ MaxSdu \in Nat
  BY RlcAssumption, EnvAssumption
<1>3. Len(r.buf) \in Nat /\ DOMAIN r.buf = 1..Len(r.buf)
  BY <1>1, LenProperties
<1>4. \A i \in 1..Len(r.buf) : r.buf[i] \in PduType /\ r.buf[i].sdu \in Nat
  <2> TAKE i \in 1..Len(r.buf)
  <2>1. r.buf[i] \in PduType
    BY <1>1, ElementOfSeq
  <2>2. \A p \in PduType : p.sdu \in Nat
    BY <1>2 DEF PduType, Sdus
  <2> QED BY <2>1, <2>2
<1>5. Buffered(r) = Elems(r.buf)
  BY DEF Buffered, ToSet, Elems
<1>6. Elems(r.buf) \subseteq PduType
  BY <1>1, ElemsType
<1>7. r = [buf |-> r.buf, size |-> r.size, timer |-> r.timer]
  BY <1>1 DEF RlcType
<1>8. r.size \in Nat /\ r.size <= MaxTxBufferSize
  BY <1>1, <1>2
<1> QED BY <1>1, <1>2, <1>3, <1>4, <1>5, <1>6, <1>7, <1>8

\* A PDU goes behind those with its own time stamp or an earlier one and, in a sorted
\* buffer, before all others.
LEMMA PositionSplits ==
  ASSUME NEW r, RlcOK(r), NEW p \in PduType, NEW k, k = Position(r, p)
  PROVE  /\ k \in 0..Len(r.buf)
         /\ DiscardByDeadline =>
              \A i \in 1..Len(r.buf) : IF i <= k THEN r.buf[i].sdu <= p.sdu ELSE r.buf[i].sdu > p.sdu
<1>1. PICK n \in Nat : n = Len(r.buf)
  BY RlcFields
<1>2. DOMAIN r.buf = 1..n /\ \A i \in 1..n : r.buf[i].sdu \in Nat
  BY <1>1, RlcFields
<1>3. CASE ~DiscardByDeadline
  BY <1>1, <1>3 DEF Position
<1>4. CASE DiscardByDeadline
  <2> DEFINE K == {i \in 1..n : r.buf[i].sdu <= p.sdu}
  <2>1. k = Cardinality(K)
    BY <1>2, <1>4 DEF Position
  <2>2. p.sdu \in Nat
    BY EnvAssumption DEF PduType, Sdus
  <2>3. \A i, j \in 1..n : i < j /\ j \in K => i \in K
    <3> SUFFICES ASSUME NEW i \in 1..n, NEW j \in 1..n, i < j, j \in K PROVE i \in K
      OBVIOUS
    <3>1. r.buf[i].sdu <= r.buf[j].sdu
      BY <1>2, <1>4 DEF RlcOK, Sorted
    <3> QED BY <1>2, <2>2, <3>1
  <2>4. K \in SUBSET (1..n)
    OBVIOUS
  <2>5. k \in 0..n /\ K = 1..k
    <3> HIDE DEF K
    <3> QED BY <2>1, <2>3, <2>4, FirstPositions
  <2>6. \A i \in 1..n : IF i <= k THEN r.buf[i].sdu <= p.sdu ELSE r.buf[i].sdu > p.sdu
    <3> TAKE i \in 1..n
    <3>1. i \in K <=> i <= k
      BY <2>5
    <3> QED BY <1>2, <2>2, <3>1
  <2> QED BY <1>1, <2>5, <2>6
<1> QED BY <1>3, <1>4

\* What the buffer is after a PDU came: it has the PDU if there was room.
IsEnqueued(r, p, t) ==
  /\ RlcOK(t) /\ t.timer = r.timer
  /\ Buffered(t) = IF HasRoom(r) THEN Buffered(r) \cup {p} ELSE Buffered(r)
  /\ IsInjective(r.buf) /\ p \notin Buffered(r) => IsInjective(t.buf)

LEMMA EnqueuedOK ==
  ASSUME NEW r, RlcOK(r), NEW p \in PduType
  PROVE  IsEnqueued(r, p, Enqueued(r, p))
<1>1. CASE ~HasRoom(r)
  <2>1. r.size + PduBytes > MaxTxBufferSize
    BY <1>1, RlcFields DEF HasRoom
  <2>2. Enqueued(r, p) = r
    BY <2>1 DEF Enqueued
  <2> QED BY <1>1, <2>2 DEF IsEnqueued
<1>2. CASE HasRoom(r)
  <2>1. PICK n \in Nat : n = Len(r.buf)
    BY RlcFields
  <2>2. /\ r.buf \in Seq(PduType) /\ DOMAIN r.buf = 1..n
        /\ \A i \in 1..n : r.buf[i] \in PduType /\ r.buf[i].sdu \in Nat
        /\ r.size \in Nat /\ r.size + PduBytes <= MaxTxBufferSize
        /\ r = [buf |-> r.buf, size |-> r.size, timer |-> r.timer]
        /\ r.timer \in BOOLEAN /\ MaxTxBufferSize \in Nat /\ PduBytes \in Nat \ {0}
        /\ Buffered(r) = Elems(r.buf) /\ r.size = PduBytes * n
    BY <1>2, <2>1, RlcFields DEF HasRoom, RlcOK
  <2>3. PICK k : k = Position(r, p)
    OBVIOUS
  <2>4. /\ k \in Nat /\ k <= n
        /\ DiscardByDeadline =>
             \A i \in 1..n : IF i <= k THEN r.buf[i].sdu <= p.sdu ELSE r.buf[i].sdu > p.sdu
    BY <2>1, <2>3, PositionSplits
  <2>5. PICK b : b = Inserted(r.buf, k, p)
    OBVIOUS
  <2>6. InsertAt(r.buf, k + 1, p) = b
    <3>1. (k + 1) - 1 = k
      BY <2>4
    <3> QED BY <2>5, <3>1 DEF InsertAt, Inserted
  <2>7. /\ b \in Seq(PduType) /\ Len(b) = n + 1 /\ DOMAIN b = 1..(n + 1)
        /\ \A i \in 1..k : b[i] = r.buf[i]
        /\ b[k + 1] = p
        /\ \A i \in (k + 2)..(n + 1) : b[i] = r.buf[i - 1]
        /\ Elems(b) = Elems(r.buf) \cup {p}
    <3>1. b \in Seq(PduType) /\ IsInserted(b, r.buf, n, k, p)
      BY <2>1, <2>2, <2>4, <2>5, ElemsInsert
    <3> QED BY <3>1 DEF IsInserted
  <2>8. PICK t : t = Enqueued(r, p)
    OBVIOUS
  <2>9. t.buf = b /\ t.size = r.size + PduBytes /\ t.timer = r.timer /\ t \in RlcType
    <3>1. ~(r.size + PduBytes > MaxTxBufferSize)
      BY <2>2
    <3>2. t = [r EXCEPT !.buf = b, !.size = r.size + PduBytes]
      BY <2>3, <2>6, <2>8, <3>1 DEF Enqueued
    <3>3. t = [buf |-> b, size |-> r.size + PduBytes, timer |-> r.timer]
      BY <2>2, <3>2
    <3>4. r.size + PduBytes \in 0..MaxTxBufferSize
      BY <2>2
    <3> QED BY <2>2, <2>7, <3>3, <3>4 DEF RlcType
  <2>10. t.size = PduBytes * Len(t.buf)
    <3>1. PduBytes * (n + 1) = PduBytes * n + PduBytes
      BY <2>2
    <3> QED BY <2>2, <2>7, <2>9, <3>1
  <2>11. ASSUME NEW i \in 1..(n + 1)
         PROVE  \/ i <= k /\ i \in 1..n /\ b[i] = r.buf[i]
                \/ i = k + 1 /\ b[i] = p
                \/ i > k + 1 /\ i - 1 \in 1..n /\ b[i] = r.buf[i - 1]
    <3>1. i \in 1..k \/ i = k + 1 \/ i \in (k + 2)..(n + 1)
      BY <2>4
    <3> QED BY <2>4, <2>7, <3>1
  <2>12. ASSUME DiscardByDeadline PROVE Sorted(b)
    <3> SUFFICES ASSUME NEW i \in 1..(n + 1), NEW j \in 1..(n + 1), i < j
                 PROVE  b[i].sdu <= b[j].sdu
      BY <2>7 DEF Sorted
    <3>1. \A x, y \in 1..n : x < y => r.buf[x].sdu <= r.buf[y].sdu
      BY <2>2, <2>12 DEF RlcOK, Sorted
    <3>2. p.sdu \in Nat
      BY EnvAssumption DEF PduType, Sdus
    <3>3. CASE i <= k
      <4>1. i \in 1..n /\ b[i] = r.buf[i] /\ r.buf[i].sdu <= p.sdu
        BY <2>4, <2>11, <2>12, <3>3
      <4>2. CASE j <= k
        BY <2>4, <2>11, <3>1, <4>1, <4>2
      <4>3. CASE j = k + 1
        BY <2>4, <2>11, <4>1, <4>3
      <4>4. CASE j > k + 1
        <5>1. j - 1 \in 1..n /\ b[j] = r.buf[j - 1] /\ i < j - 1
          BY <2>4, <2>11, <3>3, <4>4
        <5> QED BY <3>1, <4>1, <5>1
      <4> QED BY <2>4, <4>2, <4>3, <4>4
    <3>4. CASE i = k + 1
      <4>1. b[i] = p /\ j - 1 \in 1..n /\ b[j] = r.buf[j - 1] /\ ~(j - 1 <= k)
        BY <2>4, <2>11, <3>4
      <4>2. r.buf[j - 1].sdu > p.sdu /\ r.buf[j - 1].sdu \in Nat
        BY <2>2, <2>4, <2>12, <4>1
      <4> QED BY <3>2, <4>1, <4>2
    <3>5. CASE i > k + 1
      <4>1. i - 1 \in 1..n /\ b[i] = r.buf[i - 1] /\ j - 1 \in 1..n /\ b[j] = r.buf[j - 1]
        BY <2>4, <2>11, <3>5
      <4>2. i - 1 < j - 1
        OBVIOUS
      <4> QED BY <3>1, <4>1, <4>2
    <3> QED BY <2>4, <3>3, <3>4, <3>5
  <2>13. ASSUME IsInjective(r.buf), p \notin Buffered(r) PROVE IsInjective(b)
    <3> SUFFICES ASSUME NEW i \in 1..(n + 1), NEW j \in 1..(n + 1), b[i] = b[j]
                 PROVE  i = j
      BY <2>7 DEF IsInjective
    <3>1. \A x, y \in 1..n : r.buf[x] = r.buf[y] => x = y
      BY <2>2, <2>13 DEF IsInjective
    <3>2. \A x \in 1..n : r.buf[x] # p
      BY <2>2, <2>13 DEF Elems
    <3>3. CASE i <= k
      <4>1. i \in 1..n /\ b[i] = r.buf[i]
        BY <2>4, <2>11, <3>3
      <4>2. \/ j <= k /\ j \in 1..n /\ b[j] = r.buf[j]
            \/ j > k + 1 /\ j - 1 \in 1..n /\ b[j] = r.buf[j - 1]
        BY <2>11, <3>2, <4>1
      <4> QED BY <2>4, <3>1, <3>3, <4>1, <4>2
    <3>4. CASE i = k + 1
      BY <2>4, <2>11, <3>2, <3>4
    <3>5. CASE i > k + 1
      <4>1. i - 1 \in 1..n /\ b[i] = r.buf[i - 1]
        BY <2>4, <2>11, <3>5
      <4>2. \/ j <= k /\ j \in 1..n /\ b[j] = r.buf[j]
            \/ j > k + 1 /\ j - 1 \in 1..n /\ b[j] = r.buf[j - 1]
        BY <2>11, <3>2, <4>1
      <4> QED BY <2>4, <3>1, <3>5, <4>1, <4>2
    <3> QED BY <2>4, <3>3, <3>4, <3>5
  <2>14. RlcOK(t) /\ Buffered(t) = Buffered(r) \cup {p}
    <3>1. RlcOK(t)
      BY <2>9, <2>10, <2>12 DEF RlcOK
    <3>2. Buffered(t) = Elems(b)
      BY <2>9, <3>1, RlcFields
    <3> QED BY <2>2, <2>7, <3>1, <3>2
  <2> QED BY <1>2, <2>8, <2>9, <2>13, <2>14 DEF IsEnqueued
<1> QED BY <1>1, <1>2

\* What the buffer is after a report: without the overdue PDUs, if there is a deadline.
IsReported(r, o, t) ==
  /\ RlcOK(t) /\ t.timer = r.timer
  /\ Buffered(t) = IF DiscardByDeadline THEN {q \in Buffered(r) : q.sdu >= o} ELSE Buffered(r)
  /\ IsInjective(r.buf) => IsInjective(t.buf)

LEMMA ReportedOK ==
  ASSUME NEW r, RlcOK(r), NEW o \in Int
  PROVE  IsReported(r, o, Reported(r, o))
<1>1. CASE ~DiscardByDeadline
  BY <1>1 DEF Reported, IsReported
<1>2. CASE DiscardByDeadline
  <2>1. PICK n \in Nat : n = Len(r.buf)
    BY RlcFields
  <2>2. /\ r.buf \in Seq(PduType) /\ DOMAIN r.buf = 1..n
        /\ \A i \in 1..n : r.buf[i] \in PduType /\ r.buf[i].sdu \in Nat
        /\ r.size \in Nat /\ r.size <= MaxTxBufferSize
        /\ r = [buf |-> r.buf, size |-> r.size, timer |-> r.timer]
        /\ r.timer \in BOOLEAN /\ MaxTxBufferSize \in Nat /\ PduBytes \in Nat \ {0}
        /\ Buffered(r) = Elems(r.buf) /\ r.size = PduBytes * n
    BY <2>1, RlcFields DEF RlcOK
  <2>3. PICK K : K = {i \in 1..n : r.buf[i].sdu >= o}
    OBVIOUS
  <2>4. PICK c : c = Cardinality(K)
    OBVIOUS
  <2>5. /\ c \in Nat /\ c <= n
        /\ \A i \in 1..c : Nth(K, i) \in K
        /\ \A i, j \in 1..c : i < j => Nth(K, i) < Nth(K, j)
        /\ \A k \in K : \E i \in 1..c : Nth(K, i) = k
    <3>1. K \in SUBSET (1..n)
      BY <2>3
    <3> QED BY <2>4, <3>1, NthPositions
  <2>6. PICK b : b = [i \in 1..c |-> r.buf[Nth(K, i)]]
    OBVIOUS
  <2>7. \A i \in 1..c : Nth(K, i) \in 1..n /\ b[i] = r.buf[Nth(K, i)] /\ b[i] \in PduType
    BY <2>2, <2>3, <2>5, <2>6
  <2>8. b \in Seq(PduType) /\ Len(b) = c /\ DOMAIN b = 1..c
    BY <2>5, <2>6, <2>7
  <2>9. PICK t : t = Reported(r, o)
    OBVIOUS
  <2>10. t = [buf |-> b, size |-> PduBytes * c, timer |-> r.timer]
    <3>1. t = [r EXCEPT !.buf = b, !.size = @ - PduBytes * (n - c)]
      BY <1>2, <2>1, <2>2, <2>3, <2>4, <2>6, <2>9 DEF Reported, DropOverdue
    <3>2. t = [buf |-> b, size |-> r.size - PduBytes * (n - c), timer |-> r.timer]
      BY <2>2, <3>1
    <3>3. PduBytes * n - PduBytes * (n - c) = PduBytes * c
      BY <2>2, <2>5
    <3> QED BY <2>2, <3>2, <3>3
  <2>11. PduBytes * c \in 0..MaxTxBufferSize
    <3>1. PduBytes * c <= PduBytes * n /\ PduBytes * c \in Nat
      BY <2>2, <2>5
    <3> QED BY <2>2, <3>1
  <2>12. Sorted(b)
    <3> SUFFICES ASSUME NEW i \in 1..c, NEW j \in 1..c, i < j PROVE b[i].sdu <= b[j].sdu
      BY <2>8 DEF Sorted
    <3>1. \A x, y \in 1..n : x < y => r.buf[x].sdu <= r.buf[y].sdu
      BY <1>2, <2>2 DEF RlcOK, Sorted
    <3>2. Nth(K, i) < Nth(K, j)
      BY <2>5
    <3> QED BY <2>7, <3>1, <3>2
  <2>13. Elems(b) = {q \in Elems(r.buf) : q.sdu >= o}
    <3>1. \A i \in 1..c : b[i] \in Elems(r.buf) /\ b[i].sdu >= o
      <4> TAKE i \in 1..c
      <4>1. PICK k \in K : k = Nth(K, i)
        BY <2>5
      <4>2. k \in 1..n /\ r.buf[k].sdu >= o /\ b[i] = r.buf[k]
        BY <2>3, <2>7, <4>1
      <4> QED BY <2>2, <4>2 DEF Elems
    <3>2. \A k \in 1..n : r.buf[k].sdu >= o => r.buf[k] \in Elems(b)
      <4> TAKE k \in 1..n
      <4> HAVE r.buf[k].sdu >= o
      <4>1. PICK i \in 1..c : Nth(K, i) = k
        BY <2>3, <2>5
      <4>2. b[i] = r.buf[k]
        BY <2>7, <4>1
      <4> QED BY <2>8, <4>2 DEF Elems
    <3> QED BY <2>2, <2>8, <3>1, <3>2 DEF Elems
  <2>14. ASSUME IsInjective(r.buf) PROVE IsInjective(b)
    <3> SUFFICES ASSUME NEW i \in 1..c, NEW j \in 1..c, b[i] = b[j] PROVE i = j
      BY <2>8 DEF IsInjective
    <3>1. Nth(K, i) = Nth(K, j)
      BY <2>2, <2>7, <2>14 DEF IsInjective
    <3>2. PICK k \in 1..n : k = Nth(K, i) /\ k = Nth(K, j)
      BY <2>7, <3>1
    <3>3. (i < j => k < k) /\ (j < i => k < k)
      BY <2>5, <3>2
    <3> QED BY <2>5, <3>3
  <2>15. RlcOK(t)
    <3>1. t \in RlcType
      BY <2>2, <2>8, <2>10, <2>11 DEF RlcType
    <3> QED BY <2>8, <2>10, <2>12, <3>1 DEF RlcOK
  <2>16. Buffered(t) = Elems(b) /\ t.buf = b /\ t.timer = r.timer
    BY <2>10, <2>15, RlcFields
  <2> QED BY <1>2, <2>2, <2>9, <2>13, <2>14, <2>15, <2>16 DEF IsReported
<1> QED BY <1>1, <1>2

\* What DoTransmitPdcpPdu does to the buffer: only overdue PDUs leave it, and the new one
\* is in it if it is not overdue and there was room.
IsTransmitted(r, p, o, t) ==
  /\ RlcOK(t)
  /\ Buffered(t) \subseteq Buffered(r) \cup {p}
  /\ \A q \in Buffered(r) : q.sdu >= o => q \in Buffered(t)
  /\ HasRoom(r) /\ p.sdu >= o => p \in Buffered(t)
  /\ IsInjective(r.buf) /\ p \notin Buffered(r) => IsInjective(t.buf)

LEMMA TransmittedOK ==
  ASSUME NEW r, RlcOK(r), NEW p \in PduType, NEW o \in Int
  PROVE  IsTransmitted(r, p, o, DoTransmitPdcpPdu(r, p, o))
<1>1. PICK e : e = Enqueued(r, p)
  OBVIOUS
<1>2. RlcOK(e) /\ IsEnqueued(r, p, e)
  BY <1>1, EnqueuedOK DEF IsEnqueued
<1>3. PICK d : d = Reported(e, o)
  OBVIOUS
<1>4. IsReported(e, o, d) /\ RlcOK(d)
  BY <1>2, <1>3, ReportedOK DEF IsReported
<1>5. PICK t : t = DoTransmitPdcpPdu(r, p, o)
  OBVIOUS
<1>6. t = [d EXCEPT !.timer = FALSE]
  BY <1>1, <1>3, <1>5 DEF DoTransmitPdcpPdu
<1>7. t.buf = d.buf /\ t.size = d.size /\ t \in RlcType
  BY <1>4, <1>6 DEF RlcOK, RlcType
<1>8. RlcOK(t) /\ Buffered(t) = Buffered(d)
  BY <1>4, <1>7 DEF RlcOK, Buffered
<1> QED BY <1>2, <1>4, <1>5, <1>7, <1>8 DEF IsTransmitted, IsReported, IsEnqueued

\* What an opportunity does to the buffer: the first PDU leaves it if it fits, and the
\* report timer runs if others are left.
IsServed(r, bytes, t) ==
  /\ RlcOK(t)
  /\ ~CanSend(r, bytes) => t = r
  /\ CanSend(r, bytes) =>
       /\ Head(r.buf) \in Buffered(r) /\ Buffered(t) \cup {Head(r.buf)} = Buffered(r)
       /\ IsInjective(r.buf) => IsInjective(t.buf)
       /\ t.buf # <<>> => t.timer

LEMMA ServedOK ==
  ASSUME NEW r, RlcOK(r), NEW bytes \in Int
  PROVE  IsServed(r, bytes, DoNotifyTxOpportunity(r, bytes))
<1>1. CASE ~CanSend(r, bytes)
  BY <1>1 DEF DoNotifyTxOpportunity, IsServed
<1>2. CASE CanSend(r, bytes)
  <2>1. r.buf # <<>>
    BY <1>2 DEF CanSend
  <2>2. PICK n \in Nat : n = Len(r.buf)
    BY RlcFields
  <2>3. /\ r.buf \in Seq(PduType) /\ DOMAIN r.buf = 1..n
        /\ \A i \in 1..n : r.buf[i] \in PduType /\ r.buf[i].sdu \in Nat
        /\ r.size \in Nat /\ r.size <= MaxTxBufferSize
        /\ r.timer \in BOOLEAN /\ MaxTxBufferSize \in Nat /\ PduBytes \in Nat \ {0}
        /\ Buffered(r) = Elems(r.buf) /\ r.size = PduBytes * n
    BY <2>2, RlcFields DEF RlcOK
  <2>4. PICK b : b = Tail(r.buf)
    OBVIOUS
  <2>5. /\ n # 0 /\ b \in Seq(PduType) /\ Len(b) = n - 1 /\ DOMAIN b = 1..(n - 1)
        /\ \A i \in 1..(n - 1) : b[i] = r.buf[i + 1]
        /\ Head(r.buf) = r.buf[1]
    <3>1. n # 0
      BY <2>1, <2>2, <2>3, EmptySeq
    <3>2. b \in Seq(PduType) /\ Len(b) = n - 1 /\ \A i \in 1..Len(b) : b[i] = r.buf[i + 1]
      BY <2>1, <2>2, <2>3, <2>4, HeadTailProperties
    <3>3. DOMAIN b = 1..Len(b)
      BY <3>2, LenProperties
    <3> QED BY <3>1, <3>2, <3>3
  <2>6. PICK t : t = DoNotifyTxOpportunity(r, bytes)
    OBVIOUS
  <2>7. t = [buf |-> b, size |-> r.size - PduBytes, timer |-> r.timer \/ b # <<>>]
    BY <1>2, <2>4, <2>6 DEF DoNotifyTxOpportunity
  <2>8. r.size - PduBytes = PduBytes * (n - 1) /\ r.size - PduBytes \in 0..MaxTxBufferSize
    <3>1. PduBytes * n - PduBytes = PduBytes * (n - 1) /\ PduBytes * (n - 1) >= 0
      BY <2>3, <2>5
    <3> QED BY <2>3, <2>5, <3>1
  <2>9. DiscardByDeadline => Sorted(b)
    <3> SUFFICES ASSUME DiscardByDeadline, NEW i \in 1..(n - 1), NEW j \in 1..(n - 1), i < j
                 PROVE  b[i].sdu <= b[j].sdu
      BY <2>5 DEF Sorted
    <3>1. \A x, y \in 1..n : x < y => r.buf[x].sdu <= r.buf[y].sdu
      BY <2>3 DEF RlcOK, Sorted
    <3>2. i + 1 \in 1..n /\ j + 1 \in 1..n /\ i + 1 < j + 1
      OBVIOUS
    <3> QED BY <2>5, <3>1, <3>2
  <2>10. Elems(b) \cup {r.buf[1]} = Elems(r.buf) /\ r.buf[1] \in Elems(r.buf)
    <3>1. 1 \in 1..n /\ \A i \in 1..(n - 1) : i + 1 \in 1..n
      BY <2>5
    <3>2. \A i \in 1..n : i = 1 \/ (i - 1 \in 1..(n - 1) /\ (i - 1) + 1 = i)
      OBVIOUS
    <3>3. Elems(b) \subseteq Elems(r.buf)
      BY <2>3, <2>5, <3>1 DEF Elems
    <3>4. \A i \in 1..n : r.buf[i] \in Elems(b) \cup {r.buf[1]}
      <4> TAKE i \in 1..n
      <4>1. i # 1 => b[i - 1] = r.buf[i]
        BY <2>5, <3>2
      <4> QED BY <2>5, <3>2, <4>1 DEF Elems
    <3> QED BY <2>3, <3>1, <3>3, <3>4 DEF Elems
  <2>11. ASSUME IsInjective(r.buf) PROVE IsInjective(b)
    <3> SUFFICES ASSUME NEW i \in 1..(n - 1), NEW j \in 1..(n - 1), b[i] = b[j] PROVE i = j
      BY <2>5 DEF IsInjective
    <3>1. i + 1 \in 1..n /\ j + 1 \in 1..n /\ r.buf[i + 1] = r.buf[j + 1]
      BY <2>5
    <3>2. i + 1 = j + 1
      BY <2>3, <2>11, <3>1 DEF IsInjective
    <3> QED BY <3>2
  <2>12. RlcOK(t)
    <3>1. t \in RlcType
      BY <2>3, <2>5, <2>7, <2>8 DEF RlcType
    <3> QED BY <2>5, <2>7, <2>8, <2>9, <3>1 DEF RlcOK
  <2>13. Buffered(t) = Elems(b) /\ t.buf = b /\ (t.buf # <<>> => t.timer)
    BY <2>7, <2>12, RlcFields
  <2> QED BY <1>2, <2>3, <2>5, <2>6, <2>10, <2>11, <2>12, <2>13 DEF IsServed
<1> QED BY <1>1, <1>2

\* What the report timer does to the buffer: only overdue PDUs leave it, and the timer
\* goes on if others are left.
IsExpired(r, o, t) ==
  /\ RlcOK(t)
  /\ Buffered(t) \subseteq Buffered(r)
  /\ \A q \in Buffered(r) : q.sdu >= o => q \in Buffered(t)
  /\ IsInjective(r.buf) => IsInjective(t.buf)
  /\ r.timer /\ t.buf # <<>> => t.timer

LEMMA ExpiredOK ==
  ASSUME NEW r, RlcOK(r), NEW o \in Int
  PROVE  IsExpired(r, o, ExpireRbsTimer(r, o))
<1>1. CASE r.buf = <<>>
  <2>1. PICK t : t = [r EXCEPT !.timer = FALSE]
    OBVIOUS
  <2>2. t.buf = r.buf /\ t.size = r.size /\ t \in RlcType
    BY <2>1 DEF RlcOK, RlcType
  <2>3. RlcOK(t) /\ Buffered(t) = Buffered(r)
    BY <2>2 DEF RlcOK, Buffered
  <2> QED BY <1>1, <2>1, <2>2, <2>3 DEF IsExpired, ExpireRbsTimer
<1>2. CASE r.buf # <<>>
  <2>1. PICK t : t = Reported(r, o)
    OBVIOUS
  <2>2. IsReported(r, o, t)
    BY <2>1, ReportedOK
  <2> QED BY <1>2, <2>1, <2>2 DEF IsExpired, IsReported, ExpireRbsTimer
<1> QED BY <1>1, <1>2

-----------------------------------------------------------------------------
(* Types, and what they need: the RLC entity, and the numbers of the receiver. *)

Receiver == [sn : Sns, notifier : BOOLEAN]

TypeInv == TypeOK /\ RlcOK(rlc) /\ rx \in Receiver

\* SetSequenceNumber sends the number after the last one as 0.
Wire(sn) == IF sn = MaxPdcpSn THEN 0 ELSE sn

LEMMA Constants ==
  /\ MaxPdcpSn \in Nat /\ MaxPdcpSn > 2 /\ WrapClears \in Nat /\ WrapClears < MaxPdcpSn
  /\ WindowLow \in Nat /\ WindowHigh \in Nat /\ WindowLow + 2 <= WindowHigh
  /\ WindowHigh <= WrapClears
  /\ Lag \in Nat /\ Lag > 0 /\ Lag <= MaxPdcpSn - WrapClears /\ Lag <= WindowLow + 1
  /\ NumDup \in Nat /\ MaxSdu \in Nat
  BY TableAssumption, LagAssumption, EnvAssumption

LEMMA PduOK ==
  ASSUME NEW n \in Sdus, NEW sn \in 0..MaxPdcpSn, NEW copy \in 0..NumDup
  PROVE  /\ Pdu(n, sn, copy) \in PduType
         /\ Pdu(n, sn, copy) = [sdu |-> n, sn |-> Wire(sn), copy |-> copy]
<1>1. sn % MaxPdcpSn = Wire(sn)
  <2>1. CASE sn = MaxPdcpSn
    BY <2>1, Constants DEF Wire
  <2>2. CASE sn # MaxPdcpSn
    BY <2>2, Constants DEF Wire
  <2> QED BY <2>1, <2>2
<1>2. Wire(sn) \in Sns
  BY Constants DEF Wire, Sns
<1> QED BY <1>1, <1>2 DEF Pdu, PduType

\* A grant has a natural number of bytes for the bearer, and the queue stays in its range.
LEMMA GrantQueue ==
  ASSUME NEW tbs \in TbSizes, NEW q \in 0..QueueSize
  PROVE  /\ BytesOfLc(tbs) \in Nat
         /\ AssignedData(q, BytesOfLc(tbs)) \in 0..QueueSize
<1>1. tbs \in Nat /\ NumLc \in Nat \ {0} /\ tbs \div NumLc \notin {1, 2}
  BY EnvAssumption
<1>2. PICK s \in Nat : s = tbs \div NumLc
  BY <1>1
<1>3. s \notin {1, 2}
  BY <1>1, <1>2
<1>4. PICK b \in Nat : b = BytesOfLc(tbs)
  BY <1>2, <1>3 DEF BytesOfLc, Share
<1>5. AssignedData(q, b) \in 0..QueueSize
  BY <1>4 DEF AssignedData, Larger, QueueSize
<1> QED BY <1>4, <1>5

\* What the receiver notes of a first arrival.
LEMMA ReceiverType ==
  ASSUME TypeInv, NEW sn \in Sns
  PROVE  RxAfter(sn) \in Receiver /\ TableAfter(sn) \in [Sns -> {0, 1}]
<1>1. rx \in Receiver /\ table \in [Sns -> {0, 1}]
  BY DEF TypeInv, TypeOK
<1>2. (IF Wrapped(sn) THEN 0 ELSE sn + 1) \in Sns
  BY <1>1, Constants DEF Wrapped, Sns, Receiver
<1>3. RxAfter(sn) \in Receiver
  BY <1>1, <1>2 DEF RxAfter, Receiver
<1> QED BY <1>1, <1>3 DEF TableAfter

LEMMA TypeInit == Init => TypeInv
<1> SUFFICES ASSUME Init PROVE TypeInv
  OBVIOUS
<1> USE DEF Init
<1>1. rlc.buf = <<>> /\ rlc.size = 0 /\ rlc.timer = FALSE /\ rlc = [buf |-> <<>>, size |-> 0, timer |-> FALSE]
  BY DEF NewRlc
<1>2. RlcOK(rlc)
  <2>1. rlc \in RlcType
    BY <1>1, RlcAssumption DEF RlcType
  <2>2. Len(rlc.buf) = 0 /\ PduBytes * 0 = 0
    BY <1>1, RlcAssumption
  <2>3. Sorted(rlc.buf)
    BY <1>1 DEF Sorted
  <2> QED BY <1>1, <2>1, <2>2, <2>3 DEF RlcOK
<1>3. rx \in Receiver
  BY Constants DEF Receiver, Sns
<1>4. TypeOK
  <2>1. /\ sent \in 0..MaxSdu /\ txSn \in 0..MaxPdcpSn /\ queue \in 0..QueueSize
        /\ overdue \in 0..MaxSdu /\ late \in 0..MaxSdu
        /\ rx.sn \in 0..MaxPdcpSn /\ rx.notifier \in BOOLEAN
    BY Constants DEF QueueSize
  <2>2. pend \subseteq PduType /\ air \subseteq PduType /\ inTime \subseteq Sdus
    OBVIOUS
  <2>3. table \in [Sns -> {0, 1}] /\ delivered \in [Sdus -> Nat]
    OBVIOUS
  <2>4. rlc.buf \in Seq(PduType) /\ rlc.size \in 0..MaxTxBufferSize /\ rlc.timer \in BOOLEAN
    BY <1>2 DEF RlcOK, RlcType
  <2> QED BY <2>1, <2>2, <2>3, <2>4 DEF TypeOK
<1> QED BY <1>2, <1>3, <1>4 DEF TypeInv

\* What of TypeOK is about the RLC entity follows from RlcOK.
OthersOK ==
  /\ sent \in 0..MaxSdu /\ txSn \in 0..MaxPdcpSn
  /\ pend \subseteq PduType /\ air \subseteq PduType
  /\ queue \in 0..QueueSize
  /\ overdue \in 0..MaxSdu /\ late \in 0..MaxSdu
  /\ table \in [Sns -> {0, 1}]
  /\ delivered \in [Sdus -> Nat] /\ inTime \subseteq Sdus

LEMMA TypeParts == TypeInv <=> OthersOK /\ RlcOK(rlc) /\ rx \in Receiver
<1>1. TypeInv => OthersOK /\ RlcOK(rlc) /\ rx \in Receiver
  BY DEF TypeInv, TypeOK, OthersOK
<1>2. ASSUME OthersOK, RlcOK(rlc), rx \in Receiver PROVE TypeOK
  <2>1. rlc.buf \in Seq(PduType) /\ rlc.size \in 0..MaxTxBufferSize /\ rlc.timer \in BOOLEAN
    BY <1>2 DEF RlcOK, RlcType
  <2>2. rx.sn \in 0..MaxPdcpSn /\ rx.notifier \in BOOLEAN
    BY <1>2, Constants DEF Receiver, Sns
  <2> QED BY <1>2, <2>1, <2>2 DEF TypeOK, OthersOK
<1> QED BY <1>1, <1>2 DEF TypeInv

LEMMA TypeStep == TypeInv /\ [Next]_vars => TypeInv'
<1> SUFFICES ASSUME TypeInv, [Next]_vars PROVE TypeInv'
  OBVIOUS
<1>1. OthersOK /\ RlcOK(rlc) /\ rx \in Receiver
  BY TypeParts
<1> SUFFICES OthersOK' /\ RlcOK(rlc') /\ rx' \in Receiver
  <2>1. (OthersOK /\ RlcOK(rlc) /\ rx \in Receiver)' => TypeInv'
    BY TypeParts, PTL
  <2> QED BY <2>1
<1> USE DEF OthersOK
<1>2. CASE DoTransmitPdcpSdu
  <2> USE <1>2 DEF DoTransmitPdcpSdu
  <2>1. sent \in Sdus /\ sent' \in 0..MaxSdu
    BY <1>1, Constants DEF Sdus
  <2>2. txSn' \in 0..MaxPdcpSn
    BY <1>1, Constants DEF NextSn
  <2>3. \A i \in 0..NumDup : Pdu(sent, txSn, i) \in PduType
    BY <1>1, <2>1, PduOK
  <2>4. pend' \subseteq PduType
    <3>1. \A i \in 1..NumDup : i \in 0..NumDup
      BY Constants
    <3> QED BY <1>1, <2>3, <3>1
  <2>5. RlcOK(rlc')
    <3>1. Pdu(sent, txSn, 0) \in PduType /\ overdue \in Int
      BY <1>1, <2>3, Constants
    <3> QED BY <1>1, <3>1, TransmittedOK DEF IsTransmitted
  <2>6. overdue' \in 0..MaxSdu /\ late' \in 0..MaxSdu
    BY <1>1, Constants DEF Larger
  <2>7. delivered' \in [Sdus -> Nat] /\ inTime' \subseteq Sdus
    BY <1>1
  <2>8. queue' \in 0..QueueSize
    BY DEF QueueSize
  <2> QED BY <1>1, <2>1, <2>2, <2>4, <2>5, <2>6, <2>7, <2>8
<1>3. ASSUME NEW p \in pend, SendCopy(p) PROVE OthersOK' /\ RlcOK(rlc') /\ rx' \in Receiver
  <2> USE <1>3 DEF SendCopy
  <2>1. p \in PduType /\ overdue \in Int
    BY <1>1, Constants
  <2>2. RlcOK(rlc')
    BY <1>1, <2>1, TransmittedOK DEF IsTransmitted
  <2>3. queue' \in 0..QueueSize
    BY DEF QueueSize
  <2> QED BY <1>1, <2>2, <2>3
<1>4. ASSUME NEW tbs \in TbSizes, Grant(tbs) PROVE OthersOK' /\ RlcOK(rlc') /\ rx' \in Receiver
  <2> USE <1>4 DEF Grant
  <2>1. BytesOfLc(tbs) \in Nat /\ AssignedData(queue, BytesOfLc(tbs)) \in 0..QueueSize
    BY <1>1, GrantQueue
  <2>2. IsServed(rlc, BytesOfLc(tbs), rlc')
    BY <1>1, <2>1, ServedOK
  <2>3. air' \subseteq PduType
    BY <1>1, <2>2, RlcFields DEF IsServed
  <2>4. queue' \in 0..QueueSize
    BY <1>1, <2>1
  <2> QED BY <1>1, <2>2, <2>3, <2>4 DEF IsServed
<1>5. CASE RbsTimer
  <2> USE <1>5 DEF RbsTimer
  <2>1. IsExpired(rlc, overdue, rlc')
    BY <1>1, Constants, ExpiredOK
  <2>2. queue' \in 0..QueueSize
    BY <1>1 DEF QueueSize
  <2> QED BY <1>1, <2>1, <2>2 DEF IsExpired
<1>6. ASSUME NEW p \in air, Receive(p) PROVE OthersOK' /\ RlcOK(rlc') /\ rx' \in Receiver
  <2>1. p \in PduType /\ p.sdu \in Sdus /\ p.sn \in Sns
    BY <1>1 DEF PduType
  <2>2. CASE DiscardDuplicate(p)
    BY <1>1, <2>1, <2>2 DEF DiscardDuplicate
  <2>3. CASE FirstArrival(p)
    <3>1. RxAfter(p.sn) \in Receiver /\ TableAfter(p.sn) \in [Sns -> {0, 1}]
      BY <2>1, ReceiverType
    <3>2. [delivered EXCEPT ![p.sdu] = @ + 1] \in [Sdus -> Nat]
      BY <1>1, <2>1
    <3> QED BY <1>1, <2>1, <2>3, <3>1, <3>2 DEF FirstArrival
  <2>4. CASE LosePdu(p)
    BY <1>1, <2>4 DEF LosePdu
  <2> QED BY <1>6, <2>2, <2>3, <2>4 DEF Receive
<1>7. CASE PassDeadline
  <2>1. overdue' \in 0..MaxSdu
    BY <1>1, <1>7, Constants DEF PassDeadline
  <2> QED BY <1>1, <1>7, <2>1 DEF PassDeadline
<1>8. CASE PassDelayLimit
  <2>1. late' \in 0..MaxSdu
    BY <1>1, <1>8, Constants DEF PassDelayLimit
  <2> QED BY <1>1, <1>8, <2>1 DEF PassDelayLimit
<1>9. CASE UNCHANGED vars
  BY <1>1, <1>9 DEF vars
<1> QED BY <1>2, <1>3, <1>4, <1>5, <1>6, <1>7, <1>8, <1>9 DEF Next

THEOREM TypeInvariance == Spec => []TypeInv
  BY TypeInit, TypeStep, PTL DEF Spec

\* Every variable keeps its type, whatever happens to originals.
THEOREM TypeCorrect == Spec => []TypeOK
  BY TypeInvariance, PTL DEF TypeInv

\* m_txBufferSize is the size of what m_txBuffer holds, after every arrival, every
\* opportunity and every report, whatever they drop.
THEOREM BufferSizeExact == Spec => []TxBufferSizeIsExact
<1>1. TypeInv => TxBufferSizeIsExact
  BY DEF TypeInv, RlcOK, TxBufferSizeIsExact
<1> QED BY <1>1, TypeInvariance, PTL

\* With a deadline LteRlcTm sends in the order of the time stamps, and DoTransmitPdcpPdu
\* keeps it so by counting the PDUs that are not younger.
THEOREM SendsOldestFirst == Spec => []OldestFirst
<1>1. TypeInv => OldestFirst
  BY DEF TypeInv, RlcOK, Sorted, OldestFirst
<1> QED BY <1>1, TypeInvariance, PTL

\* A grant of which the bearer gets a share has room for a PDU: LteRlcTm does not segment.
GrantsFit == \A tbs \in TbSizes : Share(tbs) # 0 => PduBytes <= BytesOfLc(tbs)

\* As long as grants have room for a PDU, no PDU is forgotten in the RLC buffer: the
\* scheduler has a queue size from the last report, or the timer brings the next one.
THEOREM BufferKnown == ASSUME GrantsFit PROVE Spec => []BufferIsKnown
<1>1. Init => BufferIsKnown
  BY DEF Init, NewRlc, BufferIsKnown
<1>2. ASSUME TypeInv, BufferIsKnown, [Next]_vars PROVE BufferIsKnown'
  <2>1. RlcOK(rlc) /\ queue \in 0..QueueSize /\ overdue \in Int
    BY <1>2, Constants DEF TypeInv, TypeOK
  <2>2. CASE DoTransmitPdcpSdu
    BY <2>2 DEF DoTransmitPdcpSdu, BufferIsKnown, QueueSize
  <2>3. ASSUME NEW p \in pend, SendCopy(p) PROVE BufferIsKnown'
    BY <2>3 DEF SendCopy, BufferIsKnown, QueueSize
  <2>4. ASSUME NEW tbs \in TbSizes, Grant(tbs) PROVE BufferIsKnown'
    <3>1. PICK bytes \in Nat : bytes = BytesOfLc(tbs)
      BY <2>1, GrantQueue
    <3>2. IsServed(rlc, bytes, rlc') /\ queue > 0
      BY <2>1, <2>4, <3>1, ServedOK DEF Grant
    <3>3. CASE CanSend(rlc, bytes)
      BY <3>2, <3>3 DEF IsServed, BufferIsKnown
    <3>4. CASE ~CanSend(rlc, bytes) /\ rlc.buf = <<>>
      BY <3>2, <3>4 DEF IsServed, BufferIsKnown
    <3>5. CASE ~CanSend(rlc, bytes) /\ rlc.buf # <<>>
      <4>1. ~(PduBytes <= bytes)
        BY <3>5 DEF CanSend
      <4>2. Share(tbs) = 0
        BY <3>1, <4>1 DEF GrantsFit
      <4>3. queue' = queue
        BY <2>4, <4>2 DEF Grant
      <4> QED BY <3>2, <4>3 DEF BufferIsKnown
    <3> QED BY <3>3, <3>4, <3>5
  <2>5. CASE RbsTimer
    <3>1. IsExpired(rlc, overdue, rlc') /\ rlc.timer
      BY <2>1, <2>5, ExpiredOK DEF RbsTimer
    <3> QED BY <3>1 DEF IsExpired, BufferIsKnown
  <2>6. ASSUME NEW p \in air, Receive(p) PROVE BufferIsKnown'
    BY <1>2, <2>6 DEF Receive, DiscardDuplicate, FirstArrival, LosePdu, BufferIsKnown
  <2>7. CASE PassDeadline \/ PassDelayLimit \/ UNCHANGED vars
    BY <1>2, <2>7 DEF PassDeadline, PassDelayLimit, vars, BufferIsKnown
  <2> QED BY <1>2, <2>2, <2>3, <2>4, <2>5, <2>6, <2>7 DEF Next
<1> QED BY <1>1, <1>2, TypeInvariance, PTL DEF Spec

-----------------------------------------------------------------------------
(***************************************************************************)
(* The duplicate discarding.  When no original is lost or overtaken, the   *)
(* first arrivals come in the order of the SDUs: h is the next SDU that    *)
(* the receiver has not seen, and base is the SDU whose number was 0 in    *)
(* the round of h.  The table is then a function of h: it knows the        *)
(* numbers of this round below that of h and, up to the window, those of   *)
(* the last round that the wrap has not cleared.                           *)
(***************************************************************************)

\* The number of an SDU in the round of base, or in the one before or after it.
SnOf(n, base) == IF n < base THEN n - base + MaxPdcpSn
                 ELSE IF n < base + MaxPdcpSn THEN n - base
                 ELSE n - base - MaxPdcpSn

\* A PDU is in one place, once; what is scheduled are copies.
OnePlace ==
  /\ IsInjective(rlc.buf)
  /\ pend \cap Buffered(rlc) = {}
  /\ \A p \in pend : p.copy > 0

\* What is around is recent, and no original in the buffer is overdue.
RecentOK ==
  /\ \A p \in Around : p.sdu < sent /\ sent - p.sdu <= Lag
  /\ overdue <= sent
  /\ \A p \in Buffered(rlc) : p.copy = 0 => p.sdu >= overdue

\* The originals that the receiver has not seen are on their way.
OriginalsOK(h) ==
  /\ sent - h <= Lag
  /\ \A n \in h..(sent - 1) : \E p \in Buffered(rlc) \cup air : p.sdu = n /\ p.copy = 0

\* Numbers are those of the SDUs.
NumbersOK(base) ==
  /\ \A p \in Around : p.sn = SnOf(p.sdu, base)
  /\ Wire(txSn) = SnOf(sent, base)

TableOK(h, base) ==
  /\ h = base + rx.sn
  /\ rx.notifier <=> base > 0 /\ rx.sn <= WindowLow
  /\ \A i \in Sns : table[i] = IF i < rx.sn \/ (i >= WrapClears /\ rx.notifier) THEN 1 ELSE 0

\* SDUs are delivered when they are first seen, unless that is too late.
CountOK(h) ==
  /\ \A n \in Sdus : n >= h => delivered[n] = 0
  /\ \A n \in Sdus : n < h /\ n >= late => delivered[n] = 1
  /\ \A n \in Sdus : delivered[n] <= 1
  /\ \A n \in inTime : delivered[n] = 1

FrontOK(h, base) == OriginalsOK(h) /\ NumbersOK(base) /\ TableOK(h, base) /\ CountOK(h)

IInv == TypeInv /\ OnePlace /\ RecentOK /\ \E h, base \in 0..sent : FrontOK(h, base)

\* The RLC buffer has room for all that may be around.
RoomForAll == PduBytes * (Lag * (NumDup + 1)) <= MaxTxBufferSize

\* The types of what is around.
LEMMA AroundType ==
  ASSUME TypeInv
  PROVE  /\ Around \subseteq PduType
         /\ \A p \in Around : /\ p.sdu \in Sdus /\ p.sdu \in Nat /\ p.sn \in Sns /\ p.sn \in Nat
                              /\ p.copy \in 0..NumDup /\ p.copy \in Nat
         /\ sent \in Nat /\ sent <= MaxSdu /\ overdue \in Nat /\ late \in Nat /\ txSn \in 0..MaxPdcpSn
         /\ rx.sn \in Nat /\ rx.sn < MaxPdcpSn /\ rx.notifier \in BOOLEAN
<1>1. Around \subseteq PduType
  BY RlcFields DEF Around, TypeInv, TypeOK
<1>2. \A p \in PduType : /\ p.sdu \in Sdus /\ p.sdu \in Nat /\ p.sn \in Sns /\ p.sn \in Nat
                         /\ p.copy \in 0..NumDup /\ p.copy \in Nat
  BY Constants DEF PduType, Sdus, Sns
<1>3. sent \in Nat /\ sent <= MaxSdu /\ overdue \in Nat /\ late \in Nat /\ txSn \in 0..MaxPdcpSn
  BY Constants DEF TypeInv, TypeOK
<1>4. rx.sn \in Nat /\ rx.sn < MaxPdcpSn /\ rx.notifier \in BOOLEAN
  BY Constants DEF TypeInv, Receiver, Sns
<1> QED BY <1>1, <1>2, <1>3, <1>4

\* Before an SDU is sent the buffer holds PDUs of less than Lag SDUs, each of them once,
\* and so has room for its original.
LEMMA RoomForOriginal ==
  ASSUME RoomForAll, TypeInv, OnePlace, NEW base, NumbersOK(base),
         \A p \in Around : p.sdu < sent /\ Recent(p.sdu)
  PROVE  HasRoom(rlc)
<1> DEFINE S == (sent - Lag + 1)..(sent - 1)  C == 0..NumDup  b == rlc.buf
           f == [i \in DOMAIN b |-> <<b[i].sdu, b[i].copy>>]
<1>1. RlcOK(rlc) /\ b \in Seq(PduType)
  BY RlcFields DEF TypeInv
<1>2. PICK n \in Nat : n = Len(b) /\ DOMAIN b = 1..n /\ rlc.size = PduBytes * n
  BY <1>1, RlcFields DEF RlcOK
<1>3. \A i \in 1..n : b[i] \in Around
  BY <1>1, <1>2, RlcFields DEF Around, Elems
<1>4. \A i \in 1..n : b[i].sdu \in S /\ b[i].copy \in C
  <2> TAKE i \in 1..n
  <2>1. b[i].sdu \in Nat /\ b[i].copy \in 0..NumDup /\ sent \in Nat /\ b[i].sdu < sent /\ sent - b[i].sdu < Lag
    BY <1>3, AroundType DEF Recent
  <2> QED BY <2>1, Constants
<1>5. \A i, j \in 1..n : b[i].sdu = b[j].sdu /\ b[i].copy = b[j].copy => i = j
  <2> SUFFICES ASSUME NEW i \in 1..n, NEW j \in 1..n, b[i].sdu = b[j].sdu, b[i].copy = b[j].copy
               PROVE  i = j
    OBVIOUS
  <2>1. b[i].sn = SnOf(b[i].sdu, base) /\ b[j].sn = SnOf(b[j].sdu, base)
    BY <1>3 DEF NumbersOK
  <2>2. b[i] \in PduType /\ b[j] \in PduType
    BY <1>3, AroundType
  <2>3. b[i] = b[j]
    BY <2>1, <2>2 DEF PduType
  <2> QED BY <1>2, <2>3 DEF OnePlace, IsInjective
<1>6. f \in Injection(1..n, S \X C)
  BY <1>2, <1>4, <1>5 DEF Injection, IsInjective
<1>7. IsFiniteSet(S \X C) /\ Cardinality(S \X C) = (Lag - 1) * (NumDup + 1)
  <2>1. sent \in Nat
    BY AroundType
  <2>2. IsFiniteSet(S) /\ Cardinality(S) = Lag - 1
    <3>1. IsFiniteSet(S) /\ Cardinality(S) = IF sent - Lag + 1 > sent - 1 THEN 0
                                             ELSE (sent - 1) - (sent - Lag + 1) + 1
      BY <2>1, Constants, FS_Interval
    <3> QED BY <2>1, <3>1, Constants
  <2>3. IsFiniteSet(C) /\ Cardinality(C) = NumDup + 1
    <3>1. IsFiniteSet(C) /\ Cardinality(C) = IF 0 > NumDup THEN 0 ELSE NumDup - 0 + 1
      BY Constants, FS_Interval
    <3> QED BY <3>1, Constants
  <2> HIDE DEF S, C
  <2> QED BY <2>2, <2>3, FS_Product
<1>8. n <= (Lag - 1) * (NumDup + 1)
  <2>1. Cardinality(1..n) = n
    BY FS_Interval
  <2> HIDE DEF S, C, f
  <2> QED BY <1>6, <1>7, <2>1, FS_Injection
<1>9. n + 1 <= Lag * (NumDup + 1)
  <2>1. PICK m \in Nat : m = NumDup + 1 /\ m > 0
    BY Constants
  <2>2. (Lag - 1) * m = Lag * m - m
    BY Constants
  <2>3. Lag * m \in Int
    BY Constants
  <2> QED BY <1>8, <2>1, <2>2, <2>3
<1>10. PduBytes * (n + 1) <= PduBytes * (Lag * (NumDup + 1))
  <2>1. PICK k \in Nat : k = Lag * (NumDup + 1)
    BY Constants
  <2>2. PduBytes \in Nat /\ n + 1 <= k
    BY <1>9, <2>1, RlcAssumption
  <2>3. PduBytes * (n + 1) <= PduBytes * k
    BY <2>2
  <2> QED BY <2>1, <2>3
<1>11. PduBytes * (n + 1) = PduBytes * n + PduBytes
  BY RlcAssumption
<1>12. PduBytes * n + PduBytes <= MaxTxBufferSize
  <2>1. PICK k \in Nat : k = PduBytes * (Lag * (NumDup + 1))
    BY Constants, RlcAssumption
  <2> QED BY <1>10, <1>11, <2>1, RlcAssumption DEF RoomForAll
<1> QED BY <1>2, <1>12 DEF HasRoom

\* What the table says of a PDU that arrives: of the next SDU it has no entry, of those
\* before it has one, and no PDU arrives of those behind.
LEMMA Arrival ==
  ASSUME Faults = {}, TypeInv, RecentOK, NEW h \in 0..sent, NEW base \in 0..sent,
         FrontOK(h, base), NEW p \in air, InOrder(p)
  PROVE  /\ p.sdu <= h
         /\ IsDuplicate(p) <=> p.sdu < h
<1>1. p \in Around /\ p.sdu \in Nat /\ p.sn \in Sns
  BY AroundType DEF Around
<1>2. p.sdu < sent /\ sent - p.sdu <= Lag /\ sent \in Nat /\ p.sn = SnOf(p.sdu, base)
  BY <1>1, AroundType DEF RecentOK, FrontOK, NumbersOK
<1>3. p.sdu <= h
  <2> SUFFICES ASSUME ~(p.sdu <= h) PROVE FALSE
    OBVIOUS
  <2>1. h \in h..(sent - 1)
    BY <1>1, <1>2
  <2>2. PICK q \in Buffered(rlc) \cup air : q.sdu = h /\ q.copy = 0
    BY <2>1 DEF FrontOK, OriginalsOK
  <2>3. q.sdu >= p.sdu
    BY <2>2 DEF InOrder, Originals
  <2> QED BY <1>1, <2>2, <2>3
<1>4. PICK s \in Nat : s = p.sdu
  BY <1>1
<1>5. PICK r \in Nat : r = rx.sn
  BY AroundType
<1>6. /\ h = base + r /\ r < MaxPdcpSn
      /\ rx.notifier <=> base > 0 /\ r <= WindowLow
      /\ table[p.sn] = IF p.sn < r \/ (p.sn >= WrapClears /\ rx.notifier) THEN 1 ELSE 0
  BY <1>1, <1>5, AroundType DEF FrontOK, TableOK
<1>7. s < sent /\ sent - s <= Lag /\ p.sn = SnOf(s, base) /\ s <= h
  BY <1>2, <1>3, <1>4
<1>8. CASE s = h
  <2>1. p.sn = r
    BY <1>6, <1>7, <1>8, Constants DEF SnOf
  <2>2. ~(r < r) /\ ~(r >= WrapClears /\ rx.notifier)
    BY <1>6, Constants
  <2> QED BY <1>3, <1>4, <1>6, <1>8, <2>1, <2>2 DEF IsDuplicate
<1>9. CASE s # h
  <2>1. s < h /\ h <= s + Lag
    BY <1>2, <1>7, <1>9, Constants
  <2>2. CASE s < base
    <3>1. p.sn = s - base + MaxPdcpSn
      BY <1>7, <2>2 DEF SnOf
    <3>2. base > 0 /\ r <= WindowLow /\ s - base + MaxPdcpSn >= WrapClears
      BY <1>6, <2>1, <2>2, Constants
    <3> QED BY <1>3, <1>4, <1>6, <2>1, <3>1, <3>2 DEF IsDuplicate
  <2>3. CASE ~(s < base)
    <3>1. p.sn = s - base /\ s - base < r
      BY <1>6, <1>7, <2>1, <2>3, Constants DEF SnOf
    <3> QED BY <1>3, <1>4, <1>6, <2>1, <3>1 DEF IsDuplicate
  <2> QED BY <2>2, <2>3
<1> QED BY <1>8, <1>9

\* Every step that leaves the receiver and the transmitter's number alone, and takes
\* nothing but duplicates and copies away.
LEMMA FrontKept ==
  ASSUME TypeInv, NEW h \in 0..sent, NEW base \in 0..sent, FrontOK(h, base),
         Around' \subseteq Around,
         \A p \in Buffered(rlc) \cup air :
           p.copy = 0 /\ p.sdu >= h => p \in Buffered(rlc') \cup air',
         UNCHANGED <<sent, txSn, table, rx>>, CountOK(h)'
  PROVE  FrontOK(h, base)'
<1>1. OriginalsOK(h)'
  <2> SUFFICES ASSUME NEW n \in h..(sent - 1)
               PROVE  \E p \in Buffered(rlc') \cup air' : p.sdu = n /\ p.copy = 0
    BY DEF FrontOK, OriginalsOK
  <2>1. PICK p \in Buffered(rlc) \cup air : p.sdu = n /\ p.copy = 0
    BY DEF FrontOK, OriginalsOK
  <2>2. n >= h
    BY AroundType
  <2> QED BY <2>1, <2>2
<1>2. NumbersOK(base)'
  BY DEF FrontOK, NumbersOK, SnOf, Wire
<1>3. TableOK(h, base)'
  BY DEF FrontOK, TableOK
<1> QED BY <1>1, <1>2, <1>3 DEF FrontOK

\* The number of the next SDU follows the numbering.
LEMMA NextNumber ==
  ASSUME TypeInv, NEW h \in 0..sent, NEW base \in 0..sent, FrontOK(h, base)
  PROVE  Wire(NextSn(txSn)) = SnOf(sent + 1, base)
<1>1. PICK d \in Nat : sent = base + d
  <2>1. sent \in Nat
    BY AroundType
  <2>2. sent - base \in Nat /\ sent = base + (sent - base)
    BY <2>1
  <2> QED BY <2>2
<1>2. PICK r \in Nat : r = rx.sn
  BY AroundType
<1>3. h = base + r /\ r < MaxPdcpSn /\ d < r + MaxPdcpSn
  BY <1>1, <1>2, AroundType, Constants DEF FrontOK, TableOK, OriginalsOK
<1>4. PICK x \in 0..MaxPdcpSn : x = txSn
  BY AroundType
<1>5. Wire(x) = SnOf(sent, base)
  BY <1>4 DEF FrontOK, NumbersOK
<1>6. SnOf(sent, base) = IF d < MaxPdcpSn THEN d ELSE d - MaxPdcpSn
  BY <1>1, <1>3, Constants DEF SnOf
<1>7. SnOf(sent + 1, base) = IF d + 1 < MaxPdcpSn THEN d + 1 ELSE d + 1 - MaxPdcpSn
  BY <1>1, <1>3, Constants DEF SnOf
<1>8. Wire(NextSn(x)) = IF d + 1 < MaxPdcpSn THEN d + 1 ELSE d + 1 - MaxPdcpSn
  <2>1. CASE d < MaxPdcpSn
    BY <1>3, <1>5, <1>6, <2>1, Constants DEF Wire, NextSn
  <2>2. CASE ~(d < MaxPdcpSn)
    <3>1. d - MaxPdcpSn \in Nat /\ d - MaxPdcpSn < MaxPdcpSn - 1
      BY <1>3, <2>2, Constants
    <3> QED BY <1>3, <1>5, <1>6, <2>2, <3>1, Constants DEF Wire, NextSn
  <2> QED BY <2>1, <2>2
<1> QED BY <1>4, <1>7, <1>8

\* A new SDU: its original finds room, and the copies of those that may still be
\* forgotten are not around.
LEMMA TransmitStep ==
  ASSUME RoomForAll, IInv, TypeInv', DoTransmitPdcpSdu
  PROVE  IInv'
<1>1. TypeInv /\ OnePlace /\ RecentOK
  BY DEF IInv
<1>2. PICK h \in 0..sent, base \in 0..sent : FrontOK(h, base)
  BY DEF IInv
<1>3. /\ sent \in Nat /\ sent < MaxSdu /\ sent' = sent + 1 /\ overdue \in Nat /\ late \in Nat
      /\ RlcOK(rlc) /\ RlcOK(rlc') /\ txSn \in 0..MaxPdcpSn
  BY <1>1, AroundType DEF DoTransmitPdcpSdu, TypeInv
<1>4. PICK o : o = Pdu(sent, txSn, 0)
  OBVIOUS
<1>5. /\ o = [sdu |-> sent, sn |-> Wire(txSn), copy |-> 0] /\ o \in PduType
      /\ \A i \in 1..NumDup : Pdu(sent, txSn, i) = [sdu |-> sent, sn |-> Wire(txSn), copy |-> i]
  <2>1. sent \in Sdus /\ 0 \in 0..NumDup /\ \A i \in 1..NumDup : i \in 0..NumDup
    BY <1>3, Constants DEF Sdus
  <2> QED BY <1>3, <1>4, <2>1, PduOK
<1>6. IsTransmitted(rlc, o, overdue, rlc')
  BY <1>3, <1>4, <1>5, TransmittedOK DEF DoTransmitPdcpSdu
<1>7. \A p \in Around : p.sdu \in Nat /\ p.sdu < sent /\ sent - p.sdu < Lag /\ p \in PduType
  BY <1>1, AroundType DEF DoTransmitPdcpSdu, Recent, RecentOK
<1>8. o \notin Around
  BY <1>3, <1>5, <1>7
<1>9. HasRoom(rlc)
  <2>1. NumbersOK(base) /\ \A p \in Around : p.sdu < sent /\ Recent(p.sdu)
    BY <1>2, <1>7 DEF FrontOK, Recent
  <2> QED BY <1>1, <2>1, RoomForOriginal
<1>10. overdue <= sent /\ o.sdu >= overdue /\ o \in Buffered(rlc')
  BY <1>1, <1>3, <1>5, <1>6, <1>9 DEF RecentOK, IsTransmitted
<1>11. air' = air /\ pend' = pend \cup {Pdu(sent, txSn, i) : i \in 1..NumDup}
  BY DEF DoTransmitPdcpSdu
<1>12. \A p \in Around' : \/ p \in Around
                          \/ /\ p \in PduType /\ p.sdu = sent /\ p.sn = Wire(txSn)
                             /\ p \in pend' \/ p = o
  <2>1. pend' \subseteq PduType
    BY DEF TypeInv, TypeOK
  <2> QED BY <1>5, <1>6, <1>11, <2>1 DEF Around, IsTransmitted
<1>13. OnePlace'
  <2>1. IsInjective(rlc'.buf)
    BY <1>1, <1>6, <1>8 DEF OnePlace, IsTransmitted, Around
  <2>2. \A p \in pend' : p.copy > 0
    <3>1. \A i \in 1..NumDup : Pdu(sent, txSn, i).copy > 0
      BY <1>5, Constants
    <3> QED BY <1>1, <1>11, <3>1 DEF OnePlace
  <2>3. pend' \cap Buffered(rlc') = {}
    <3> SUFFICES ASSUME NEW p \in pend', p \in Buffered(rlc') PROVE FALSE
      OBVIOUS
    <3>1. p # o
      BY <1>5, <2>2
    <3>2. p \in Buffered(rlc)
      BY <1>6, <3>1 DEF IsTransmitted
    <3>3. p \notin pend /\ p.sdu < sent
      BY <1>1, <1>7, <3>2 DEF OnePlace, Around
    <3>4. PICK i \in 1..NumDup : p = Pdu(sent, txSn, i)
      BY <1>11, <3>3
    <3> QED BY <1>3, <1>5, <3>3, <3>4
  <2> QED BY <2>1, <2>2, <2>3 DEF OnePlace
<1>14. RecentOK'
  <2>1. \A p \in Around' : p.sdu < sent' /\ sent' - p.sdu <= Lag
    BY <1>3, <1>7, <1>12, Constants
  <2>2. overdue' = (IF overdue >= sent + 1 - Lag THEN overdue ELSE sent + 1 - Lag)
    BY DEF DoTransmitPdcpSdu, Larger
  <2>3. overdue' <= sent'
    BY <1>3, <1>10, <2>2, Constants
  <2>4. ASSUME NEW p \in Buffered(rlc'), p.copy = 0 PROVE p.sdu >= overdue'
    <3>1. CASE p = o
      BY <1>3, <1>5, <1>10, <2>2, <3>1, Constants
    <3>2. CASE p # o
      <4>1. p \in Buffered(rlc) /\ p \in Around
        BY <1>6, <3>2 DEF IsTransmitted, Around
      <4>2. p.sdu >= overdue /\ p.sdu \in Nat /\ sent - p.sdu < Lag
        BY <1>1, <1>7, <2>4, <4>1 DEF RecentOK
      <4> QED BY <1>3, <2>2, <4>2, Constants
    <3> QED BY <3>1, <3>2
  <2> QED BY <2>1, <2>3, <2>4 DEF RecentOK
<1>15. OriginalsOK(h)'
  <2>1. sent - h < Lag
    <3>1. CASE h = sent
      BY <1>3, <3>1, Constants
    <3>2. CASE h # sent
      <4>1. h \in h..(sent - 1)
        BY <1>3, <3>2
      <4>2. PICK p \in Buffered(rlc) \cup air : p.sdu = h
        BY <1>2, <4>1 DEF FrontOK, OriginalsOK
      <4> QED BY <1>7, <4>2 DEF Around
    <3> QED BY <3>1, <3>2
  <2>2. sent' - h <= Lag
    BY <1>3, <2>1, Constants
  <2>3. ASSUME NEW n \in h..(sent' - 1)
        PROVE  \E p \in Buffered(rlc') \cup air' : p.sdu = n /\ p.copy = 0
    <3>1. CASE n = sent
      BY <1>5, <1>10, <3>1
    <3>2. CASE n # sent
      <4>1. n \in h..(sent - 1)
        BY <1>3, <3>2
      <4>2. PICK p \in Buffered(rlc) \cup air : p.sdu = n /\ p.copy = 0
        BY <1>2, <4>1 DEF FrontOK, OriginalsOK
      <4>3. p \in Buffered(rlc) => p \in Buffered(rlc')
        BY <1>1, <1>6, <4>2 DEF RecentOK, IsTransmitted
      <4> QED BY <1>11, <4>2, <4>3
    <3> QED BY <3>1, <3>2
  <2> QED BY <2>2, <2>3 DEF OriginalsOK
<1>16. NumbersOK(base)'
  <2>1. \A p \in Around' : p.sn = SnOf(p.sdu, base)
    BY <1>2, <1>12 DEF FrontOK, NumbersOK
  <2>2. Wire(txSn') = SnOf(sent', base)
    BY <1>1, <1>2, NextNumber DEF DoTransmitPdcpSdu
  <2> QED BY <2>1, <2>2 DEF NumbersOK, SnOf, Wire
<1>17. TableOK(h, base)'
  BY <1>2 DEF FrontOK, TableOK, DoTransmitPdcpSdu
<1>18. CountOK(h)'
  <2>1. delivered' = [n \in Sdus |-> IF Recent(n) THEN delivered[n] ELSE 0]
        /\ inTime' = {n \in inTime : Recent(n)} /\ inTime \subseteq Sdus
        /\ late' = (IF late >= sent + 1 - Lag THEN late ELSE sent + 1 - Lag)
    BY <1>1 DEF DoTransmitPdcpSdu, Larger, TypeInv, TypeOK
  <2>2. \A n \in Sdus : n \in Nat /\ (n >= late' => Recent(n) /\ n >= late)
    <3> TAKE n \in Sdus
    <3>1. n \in Nat
      BY Constants DEF Sdus
    <3>2. n >= late' => sent - n < Lag /\ n >= late
      BY <1>3, <2>1, <3>1, Constants
    <3> QED BY <3>1, <3>2 DEF Recent
  <2>3. CountOK(h)
    BY <1>2 DEF FrontOK
  <2>4. \A n \in Sdus : n >= h => delivered'[n] = 0
    BY <2>1, <2>3 DEF CountOK
  <2>5. \A n \in Sdus : n < h /\ n >= late' => delivered'[n] = 1
    BY <2>1, <2>2, <2>3 DEF CountOK
  <2>6. \A n \in Sdus : delivered'[n] <= 1
    BY <2>1, <2>3 DEF CountOK
  <2>7. \A n \in inTime' : delivered'[n] = 1
    BY <2>1, <2>3 DEF CountOK
  <2> QED BY <2>4, <2>5, <2>6, <2>7 DEF CountOK
<1>19. h \in 0..sent' /\ base \in 0..sent'
  BY <1>3
<1> QED BY <1>13, <1>14, <1>15, <1>16, <1>17, <1>18, <1>19 DEF IInv, FrontOK

\* A first arrival is of the SDU h; the table and the expected number move on with it.
LEMMA ReceiverStep ==
  ASSUME TypeInv, NEW h \in 0..sent, NEW base \in 0..sent, FrontOK(h, base), RecentOK,
         h < sent, NEW sn, sn = SnOf(h, base),
         table' = TableAfter(sn), rx' = RxAfter(sn)
  PROVE  \E next \in 0..sent :
           /\ TableOK(h + 1, next)'
           /\ \A n \in Nat : n <= sent /\ sent - n <= Lag => SnOf(n, next) = SnOf(n, base)
<1>1. PICK r \in Nat : r = rx.sn
  BY AroundType
<1>2. /\ sent \in Nat /\ r < MaxPdcpSn /\ h = base + r /\ sent - h <= Lag
      /\ rx \in Receiver /\ rx.notifier \in BOOLEAN
      /\ rx.notifier <=> base > 0 /\ r <= WindowLow
      /\ \A i \in Sns : table[i] = IF i < r \/ (i >= WrapClears /\ rx.notifier) THEN 1 ELSE 0
  BY <1>1, AroundType DEF FrontOK, TableOK, OriginalsOK, TypeInv
<1>3. sn = r
  BY <1>2, Constants DEF SnOf
<1>4. Wrapped(r) <=> r = MaxPdcpSn - 1
  BY <1>1, <1>2, Constants DEF Wrapped
<1>5. /\ rx'.sn = IF Wrapped(r) THEN 0 ELSE r + 1
      /\ rx'.notifier \in BOOLEAN
      /\ rx'.notifier <=> /\ rx.notifier \/ Wrapped(r)
                          /\ ~(WindowLow < rx'.sn /\ rx'.sn < WindowHigh /\ rx.notifier)
      /\ \A i \in Sns : table'[i] = IF Wrapped(r) /\ i < WrapClears THEN 0
                                    ELSE IF rx.notifier /\ ~rx'.notifier /\ i >= WrapClears THEN 0
                                    ELSE IF i = r THEN 1 ELSE table[i]
  <2>1. rx'.sn = IF Wrapped(r) THEN 0 ELSE r + 1
    BY <1>3 DEF RxAfter
  <2>2. rx'.notifier = ((rx.notifier \/ Wrapped(r))
                        /\ ~(WindowLow < rx'.sn /\ rx'.sn < WindowHigh /\ rx.notifier))
    BY <1>3, <2>1 DEF RxAfter
  <2>3. rx'.notifier \in BOOLEAN
    BY <2>2
  <2>4. \A i \in Sns : table'[i] = IF Wrapped(r) /\ i < WrapClears THEN 0
                                    ELSE IF rx.notifier /\ ~rx'.notifier /\ i >= WrapClears THEN 0
                                    ELSE IF i = r THEN 1 ELSE table[i]
    BY <1>3 DEF TableAfter
  <2> QED BY <2>1, <2>2, <2>3, <2>4
<1>6. CASE r = MaxPdcpSn - 1
  <2>1. rx'.sn = 0 /\ rx'.notifier
    BY <1>4, <1>5, <1>6, Constants
  <2>2. \A i \in Sns : table'[i] = IF i < WrapClears THEN 0 ELSE IF i = r THEN 1 ELSE table[i]
    BY <1>4, <1>5, <1>6, <2>1
  <2>3. \A i \in Sns : table'[i] = IF i >= WrapClears THEN 1 ELSE 0
    <3> TAKE i \in Sns
    <3>1. i \in Nat /\ i < MaxPdcpSn
      BY Constants DEF Sns
    <3> QED BY <1>2, <1>6, <2>2, <3>1, Constants
  <2>4. PICK next \in Nat : next = base + MaxPdcpSn
    BY Constants
  <2>5. next = h + 1 /\ next \in 0..sent
    BY <1>2, <1>6, <2>4, Constants
  <2>6. TableOK(h + 1, next)'
    <3>1. rx'.sn = 0 /\ rx'.notifier
      BY <2>1
    <3>2. h + 1 = next + 0 /\ next > 0 /\ 0 <= WindowLow
      BY <1>2, <2>4, <2>5, Constants
    <3>3. \A i \in Sns : ~(i < 0)
      BY Constants DEF Sns
    <3> QED BY <2>3, <3>1, <3>2, <3>3 DEF TableOK
  <2>7. ASSUME NEW n \in Nat, n <= sent, sent - n <= Lag PROVE SnOf(n, next) = SnOf(n, base)
    <3>1. n >= base /\ n < base + MaxPdcpSn + MaxPdcpSn
      BY <1>2, <1>6, <2>4, <2>5, <2>7, Constants
    <3>2. CASE n < base + MaxPdcpSn
      BY <2>4, <3>1, <3>2, Constants DEF SnOf
    <3>3. CASE ~(n < base + MaxPdcpSn)
      BY <2>4, <3>1, <3>3, Constants DEF SnOf
    <3> QED BY <3>2, <3>3
  <2> QED BY <2>5, <2>6, <2>7
<1>7. CASE r # MaxPdcpSn - 1
  <2>1. rx'.sn = r + 1
    BY <1>4, <1>5, <1>7
  <2>2. rx'.notifier <=> rx.notifier /\ ~(WindowLow < r + 1 /\ r + 1 < WindowHigh)
    BY <1>4, <1>5, <1>7, <2>1
  <2>3. WindowLow < r + 1 <=> ~(r + 1 <= WindowLow)
    BY Constants
  <2>4. r <= WindowLow => r + 1 < WindowHigh /\ r + 1 < WrapClears
    BY Constants
  <2>5. r + 1 <= WindowLow => r <= WindowLow
    BY Constants
  <2>6. rx'.notifier <=> base > 0 /\ r + 1 <= WindowLow
    BY <1>2, <2>2, <2>3, <2>4, <2>5
  <2>7. \A i \in Sns : table'[i] = IF i < r + 1 \/ (i >= WrapClears /\ rx'.notifier) THEN 1 ELSE 0
    <3> TAKE i \in Sns
    <3>1. i \in Nat /\ (i < r + 1 <=> i < r \/ i = r)
      BY Constants DEF Sns
    <3>2. table'[i] = IF rx.notifier /\ ~rx'.notifier /\ i >= WrapClears THEN 0
                      ELSE IF i = r THEN 1 ELSE table[i]
      BY <1>4, <1>5, <1>7
    <3>3. table[i] = IF i < r \/ (i >= WrapClears /\ rx.notifier) THEN 1 ELSE 0
      BY <1>2
    <3>4. rx.notifier /\ ~rx'.notifier /\ i >= WrapClears => ~(i < r + 1)
      <4>1. rx.notifier => r + 1 < WrapClears
        BY <1>2, <2>4
      <4> QED BY <3>1, <4>1, Constants
    <3>5. rx'.notifier => rx.notifier
      BY <2>2
    <3> QED BY <3>1, <3>2, <3>3, <3>4, <3>5
  <2>8. TableOK(h + 1, base)'
    <3>1. h + 1 = base + (r + 1)
      BY <1>2
    <3> QED BY <2>1, <2>6, <2>7, <3>1 DEF TableOK
  <2> QED BY <2>8
<1> QED BY <1>6, <1>7

\* The scheduler, the timers and the air: no original leaves but to the receiver.
LEMMA CarryStep ==
  ASSUME Faults = {}, IInv,
         \/ \E p \in pend : SendCopy(p)
         \/ \E tbs \in TbSizes : Grant(tbs)
         \/ RbsTimer
         \/ \E p \in air : LosePdu(p)
         \/ PassDeadline \/ PassDelayLimit
         \/ UNCHANGED vars
  PROVE  OnePlace' /\ RecentOK' /\ \E h, base \in 0..sent' : FrontOK(h, base)'
<1>1. TypeInv /\ OnePlace /\ RecentOK /\ RlcOK(rlc) /\ overdue \in Nat /\ sent \in Nat /\ late \in Nat
  BY AroundType DEF IInv, TypeInv
<1>2. PICK h \in 0..sent, base \in 0..sent : FrontOK(h, base)
  BY DEF IInv
<1> DEFINE Kept == /\ Around' \subseteq Around
                   /\ \A p \in Buffered(rlc) \cup air : p.copy = 0 => p \in Buffered(rlc') \cup air'
                   /\ UNCHANGED <<sent, txSn, table, rx, delivered, inTime>>
                   /\ late' >= late /\ late' \in Nat
<1>3. ASSUME Kept PROVE FrontOK(h, base)'
  <2>1. \A n \in Sdus : n \in Nat
    BY Constants DEF Sdus
  <2>2. CountOK(h)'
    BY <1>1, <1>2, <1>3, <2>1 DEF FrontOK, CountOK
  <2> QED BY <1>1, <1>2, <1>3, <2>2, FrontKept
<1>4. ASSUME NEW p \in pend, SendCopy(p) PROVE OnePlace' /\ RecentOK' /\ Kept
  <2> USE <1>4 DEF SendCopy
  <2>1. p \in PduType /\ p.copy > 0 /\ p \notin Buffered(rlc)
    BY <1>1 DEF TypeInv, TypeOK, OnePlace
  <2>2. IsTransmitted(rlc, p, overdue, rlc')
    BY <1>1, <2>1, TransmittedOK
  <2>3. Around' \subseteq Around
    BY <2>2 DEF Around, IsTransmitted
  <2>4. \A q \in Buffered(rlc) : q.copy = 0 => q \in Buffered(rlc')
    BY <1>1, <2>2 DEF RecentOK, IsTransmitted
  <2>5. OnePlace'
    BY <1>1, <2>1, <2>2 DEF OnePlace, IsTransmitted
  <2>6. \A q \in Buffered(rlc') : q.copy = 0 => q \in Buffered(rlc)
    BY <2>1, <2>2 DEF IsTransmitted
  <2>7. RecentOK'
    BY <1>1, <2>3, <2>6 DEF RecentOK
  <2> QED BY <1>1, <2>3, <2>4, <2>5, <2>7
<1>5. ASSUME NEW tbs \in TbSizes, Grant(tbs) PROVE OnePlace' /\ RecentOK' /\ Kept
  <2> USE <1>5 DEF Grant
  <2>1. PICK bytes \in Nat : bytes = BytesOfLc(tbs)
    BY GrantQueue, <1>1 DEF TypeInv, TypeOK
  <2>2. IsServed(rlc, bytes, rlc')
    BY <1>1, <2>1, ServedOK
  <2>3. Buffered(rlc') \subseteq Buffered(rlc)
    BY <2>2 DEF IsServed
  <2>4. Buffered(rlc') \cup air' = Buffered(rlc) \cup air
    BY <2>1, <2>2 DEF IsServed
  <2>5. Around' = Around
    BY <2>4 DEF Around
  <2>6. OnePlace'
    BY <1>1, <2>2, <2>3 DEF OnePlace, IsServed
  <2>7. RecentOK'
    BY <1>1, <2>3, <2>5 DEF RecentOK
  <2> QED BY <1>1, <2>4, <2>5, <2>6, <2>7
<1>6. ASSUME RbsTimer PROVE OnePlace' /\ RecentOK' /\ Kept
  <2> USE <1>6 DEF RbsTimer
  <2>1. IsExpired(rlc, overdue, rlc')
    BY <1>1, ExpiredOK
  <2>2. Around' \subseteq Around
    BY <2>1 DEF Around, IsExpired
  <2>3. \A q \in Buffered(rlc) : q.copy = 0 => q \in Buffered(rlc')
    BY <1>1, <2>1 DEF RecentOK, IsExpired
  <2>4. OnePlace'
    BY <1>1, <2>1 DEF OnePlace, IsExpired
  <2>5. RecentOK'
    BY <1>1, <2>1, <2>2 DEF RecentOK, IsExpired
  <2> QED BY <1>1, <2>2, <2>3, <2>4, <2>5
<1>7. ASSUME NEW p \in air, LosePdu(p) PROVE OnePlace' /\ RecentOK' /\ Kept
  <2> USE <1>7 DEF LosePdu
  <2>1. p.copy > 0
    OBVIOUS
  <2>2. p.copy # 0
    BY <2>1
  <2>3. Around' \subseteq Around
    BY DEF Around
  <2>4. OnePlace' /\ RecentOK'
    BY <1>1, <2>3 DEF OnePlace, RecentOK
  <2> QED BY <1>1, <2>2, <2>3, <2>4
<1>8. ASSUME PassDeadline PROVE OnePlace' /\ RecentOK' /\ Kept
  <2> USE <1>8 DEF PassDeadline
  <2>1. Around' = Around
    BY DEF Around
  <2>2. \A p \in Buffered(rlc) : p.copy = 0 => p.sdu > overdue /\ p.sdu \in Nat
    BY <1>1, AroundType DEF Originals, Around
  <2>3. OnePlace' /\ RecentOK'
    BY <1>1, <2>1, <2>2 DEF OnePlace, RecentOK
  <2> QED BY <1>1, <2>1, <2>3
<1>9. ASSUME PassDelayLimit \/ UNCHANGED vars PROVE OnePlace' /\ RecentOK' /\ Kept
  <2> USE <1>9 DEF PassDelayLimit, vars
  <2>1. Around' = Around
    BY DEF Around
  <2>2. OnePlace' /\ RecentOK'
    BY <1>1, <2>1 DEF OnePlace, RecentOK
  <2> QED BY <1>1, <2>1, <2>2
<1>10. OnePlace' /\ RecentOK' /\ Kept
  BY <1>4, <1>5, <1>6, <1>7, <1>8, <1>9
<1> QED BY <1>2, <1>3, <1>10

\* A duplicate is of an SDU that the receiver has seen: nothing it waits for is lost.
LEMMA DuplicateStep ==
  ASSUME Faults = {}, IInv, NEW p \in air, DiscardDuplicate(p)
  PROVE  OnePlace' /\ RecentOK' /\ \E h, base \in 0..sent' : FrontOK(h, base)'
<1> USE DEF DiscardDuplicate
<1>1. TypeInv /\ OnePlace /\ RecentOK /\ sent \in Nat /\ late \in Nat
  BY AroundType DEF IInv
<1>2. PICK h \in 0..sent, base \in 0..sent : FrontOK(h, base)
  BY DEF IInv
<1>3. p.sdu < h /\ p.sdu \in Sdus /\ p.sdu \in Nat
  BY <1>1, <1>2, Arrival, AroundType DEF Around
<1>4. Around' \subseteq Around
  BY DEF Around
<1>5. \A q \in Buffered(rlc) \cup air : q.copy = 0 /\ q.sdu >= h => q \in Buffered(rlc') \cup air'
  <2>1. ~(p.sdu >= h)
    BY <1>3
  <2> QED BY <2>1
<1>6. CountOK(h)'
  <2>1. p.sdu >= late => delivered[p.sdu] = 1
    BY <1>2, <1>3 DEF FrontOK, CountOK
  <2> QED BY <1>2, <2>1 DEF FrontOK, CountOK
<1>7. FrontOK(h, base)'
  BY <1>1, <1>2, <1>4, <1>5, <1>6, FrontKept
<1>8. OnePlace' /\ RecentOK'
  BY <1>1, <1>4 DEF OnePlace, RecentOK
<1> QED BY <1>2, <1>7, <1>8

\* The first arrival is of the next SDU, which is delivered now or never.
LEMMA ArrivalStep ==
  ASSUME Faults = {}, IInv, NEW p \in air, FirstArrival(p)
  PROVE  OnePlace' /\ RecentOK' /\ \E h, base \in 0..sent' : FrontOK(h, base)'
<1> USE DEF FirstArrival
<1>1. TypeInv /\ OnePlace /\ RecentOK /\ sent \in Nat /\ late \in Nat
  BY AroundType DEF IInv
<1>2. PICK h \in 0..sent, base \in 0..sent : FrontOK(h, base)
  BY DEF IInv
<1>3. p.sdu \in Sdus /\ p.sdu \in Nat /\ p.sdu < sent /\ p.sn = SnOf(p.sdu, base)
  BY <1>1, <1>2, AroundType DEF Around, RecentOK, FrontOK, NumbersOK
<1>4. p.sdu = h
  <2>1. p.sdu <= h /\ ~(p.sdu < h)
    BY <1>1, <1>2, Arrival
  <2> QED BY <1>3, <2>1
<1>5. PICK next \in 0..sent :
        /\ TableOK(h + 1, next)'
        /\ \A n \in Nat : n <= sent /\ sent - n <= Lag => SnOf(n, next) = SnOf(n, base)
  BY <1>1, <1>2, <1>3, <1>4, ReceiverStep
<1>6. Around' \subseteq Around
  BY DEF Around
<1>7. OnePlace' /\ RecentOK'
  BY <1>1, <1>6 DEF OnePlace, RecentOK
<1>8. OriginalsOK(h + 1)'
  <2>1. sent' - (h + 1) <= Lag
    BY <1>1, <1>2, Constants DEF FrontOK, OriginalsOK
  <2>2. ASSUME NEW n \in (h + 1)..(sent - 1)
        PROVE  \E q \in Buffered(rlc') \cup air' : q.sdu = n /\ q.copy = 0
    <3>1. n \in h..(sent - 1) /\ n # h
      OBVIOUS
    <3>2. PICK q \in Buffered(rlc) \cup air : q.sdu = n /\ q.copy = 0
      BY <1>2, <3>1 DEF FrontOK, OriginalsOK
    <3>3. q # p
      BY <1>4, <3>1, <3>2
    <3> QED BY <3>2, <3>3
  <2> QED BY <2>1, <2>2 DEF OriginalsOK
<1>9. NumbersOK(next)'
  <2>1. \A q \in Around' : q.sn = SnOf(q.sdu, next)
    <3> TAKE q \in Around'
    <3>1. q \in Around /\ q.sdu \in Nat /\ q.sdu < sent /\ sent - q.sdu <= Lag
      BY <1>1, <1>6, AroundType DEF RecentOK
    <3>2. q.sn = SnOf(q.sdu, base)
      BY <1>2, <3>1 DEF FrontOK, NumbersOK
    <3>3. q.sdu <= sent
      BY <1>1, <3>1
    <3> QED BY <1>5, <3>1, <3>2, <3>3
  <2>2. sent <= sent /\ sent - sent <= Lag
    BY <1>1, Constants
  <2>3. Wire(txSn) = SnOf(sent, next)
    BY <1>1, <1>2, <1>5, <2>2 DEF FrontOK, NumbersOK
  <2> QED BY <2>1, <2>3 DEF NumbersOK, SnOf, Wire
<1>10. CountOK(h + 1)'
  <2>1. delivered' = (IF h >= late THEN [delivered EXCEPT ![h] = @ + 1] ELSE delivered)
        /\ inTime' = (IF h >= late THEN inTime \cup {h} ELSE inTime) /\ late' = late
        /\ delivered \in [Sdus -> Nat] /\ inTime \subseteq Sdus /\ h \in Sdus
    BY <1>1, <1>3, <1>4 DEF TypeInv, TypeOK
  <2>2. CountOK(h) /\ \A n \in Sdus : n \in Nat
    BY <1>2, Constants DEF FrontOK, Sdus
  <2>3. delivered[h] = 0 /\ h \notin inTime
    BY <2>1, <2>2 DEF CountOK
  <2>4. \A n \in Sdus : delivered'[n] = IF n = h /\ h >= late THEN 1 ELSE delivered[n]
    BY <2>1, <2>3
  <2>5. \A n \in Sdus : (n >= h + 1 => n >= h /\ n # h) /\ (n < h + 1 => n < h \/ n = h)
    BY <2>2
  <2>6. \A n \in Sdus : n >= h + 1 => delivered'[n] = 0
    BY <2>2, <2>4, <2>5 DEF CountOK
  <2>7. \A n \in Sdus : n < h + 1 /\ n >= late' => delivered'[n] = 1
    BY <2>1, <2>2, <2>4, <2>5 DEF CountOK
  <2>8. \A n \in Sdus : delivered'[n] <= 1
    BY <2>2, <2>4 DEF CountOK
  <2>9. \A n \in inTime' : delivered'[n] = 1
    BY <2>1, <2>2, <2>4 DEF CountOK
  <2> QED BY <2>6, <2>7, <2>8, <2>9 DEF CountOK
<1>11. h + 1 \in 0..sent' /\ next \in 0..sent'
  BY <1>1, <1>3, <1>4
<1>12. FrontOK(h + 1, next)'
  BY <1>5, <1>8, <1>9, <1>10 DEF FrontOK
<1> QED BY <1>7, <1>11, <1>12

LEMMA InvInit == Init => IInv
<1> SUFFICES ASSUME Init PROVE IInv
  OBVIOUS
<1>1. TypeInv
  BY TypeInit
<1> USE DEF Init
<1>2. Buffered(rlc) = {} /\ Around = {}
  <2>1. rlc.buf = <<>>
    BY DEF NewRlc
  <2> QED BY <2>1 DEF Buffered, ToSet, Around
<1>3. OnePlace /\ RecentOK
  <2>1. IsInjective(rlc.buf)
    BY DEF NewRlc, IsInjective
  <2> QED BY <1>2, <2>1 DEF OnePlace, RecentOK
<1>4. OriginalsOK(0)
  BY Constants DEF OriginalsOK
<1>5. NumbersOK(0)
  BY <1>2, Constants DEF NumbersOK, Wire, SnOf
<1>6. TableOK(0, 0)
  BY Constants DEF TableOK, Sns
<1>7. CountOK(0)
  <2>1. \A n \in Sdus : n \in Nat /\ delivered[n] = 0
    BY Constants DEF Sdus
  <2> QED BY <2>1 DEF CountOK
<1> QED BY <1>1, <1>3, <1>4, <1>5, <1>6, <1>7 DEF IInv, FrontOK

\* The invariant holds whenever originals arrive in order and the RLC buffer has room.
THEOREM Invariance == ASSUME Faults = {}, RoomForAll PROVE Spec => []IInv
<1>1. ASSUME IInv, [Next]_vars PROVE IInv'
  <2>1. TypeInv'
    BY <1>1, TypeStep DEF IInv
  <2>2. CASE DoTransmitPdcpSdu
    BY <1>1, <2>1, <2>2, TransmitStep
  <2>3. ASSUME NEW p \in air, Receive(p) PROVE IInv'
    <3>1. CASE LosePdu(p)
      BY <1>1, <2>1, <3>1, CarryStep DEF IInv
    <3>2. CASE DiscardDuplicate(p)
      BY <1>1, <2>1, <3>2, DuplicateStep DEF IInv
    <3>3. CASE FirstArrival(p)
      BY <1>1, <2>1, <3>3, ArrivalStep DEF IInv
    <3> QED BY <2>3, <3>1, <3>2, <3>3 DEF Receive
  <2>4. CASE \/ \E p \in pend : SendCopy(p)
             \/ \E tbs \in TbSizes : Grant(tbs)
             \/ RbsTimer
             \/ PassDeadline \/ PassDelayLimit
             \/ UNCHANGED vars
    BY <1>1, <2>1, <2>4, CarryStep DEF IInv
  <2> QED BY <1>1, <2>2, <2>3, <2>4 DEF Next
<1> QED BY <1>1, InvInit, PTL DEF Spec

\* The table of DoReceivePdu, cleared in two parts at two moments, never gives an SDU to
\* the upper layer twice, for every size of the table, every number of copies and every
\* loss of copies, as long as originals arrive in order and the RLC buffer has room.
THEOREM DeliveredOnce ==
  ASSUME Faults = {}, RoomForAll PROVE Spec => []NoDuplicateDelivery
<1>1. IInv => NoDuplicateDelivery
  BY DEF IInv, FrontOK, CountOK, NoDuplicateDelivery
<1> QED BY <1>1, Invariance, PTL

\* Nor does an old entry of the table make it discard an SDU of the next round: each of
\* which a PDU arrives in time is delivered.
THEOREM FreshDelivered ==
  ASSUME Faults = {}, RoomForAll PROVE Spec => []NoFreshSduDiscarded
<1>1. IInv => NoFreshSduDiscarded
  BY DEF IInv, FrontOK, CountOK, NoFreshSduDiscarded
<1> QED BY <1>1, Invariance, PTL
=============================================================================
