---------------------------- MODULE RlcUm_proofs ----------------------------
(***************************************************************************)
(* Theorems about RlcUm, for every window, every size of SDUs and of       *)
(* opportunities and any number of SDUs.                                   *)
(***************************************************************************)
EXTENDS RlcUm, SequenceElements

M == SnModulus
W == WindowSize

LEMMA Widths == W \in Nat /\ W >= 2 /\ M = 2 * W /\ M \in Nat \ {0}
  BY UmAssumption DEF W, M

(***************************************************************************)
(* Sequence numbers: a number that counts PDUs, and its remainder.         *)
(***************************************************************************)
LEMMA Division ==
  ASSUME NEW L \in Nat \ {0}, NEW a \in Int
  PROVE  /\ a \div L \in Int /\ a % L \in 0 .. L - 1
         /\ a = L * (a \div L) + (a % L)
  OBVIOUS

LEMMA Remainder ==
  ASSUME NEW L \in Nat \ {0}, NEW a \in Int, NEW q \in Int, NEW r \in 0 .. L - 1, a = L * q + r
  PROVE  a % L = r
  OBVIOUS

\* The distance of two remainders is that of the numbers, if that is less than L.
LEMMA ModDistance ==
  ASSUME NEW L \in Nat \ {0}, NEW a \in Int, NEW b \in Int, a - b \in 0 .. L - 1
  PROVE  ((a % L) - (b % L)) % L = a - b
<1> DEFINE q == a \div L  s == b \div L  x == a % L  y == b % L
<1>1. a = L * q + x /\ b = L * s + y /\ q \in Int /\ s \in Int /\ x \in Int /\ y \in Int
  BY Division
<1> HIDE DEF q, s, x, y
<1>2. L * (s - q) = L * s - L * q /\ s - q \in Int
  BY <1>1
<1>3. x - y = L * (s - q) + (a - b) /\ x - y \in Int
  BY <1>1, <1>2
<1>4. (x - y) % L = a - b
  BY <1>2, <1>3, Remainder
<1> QED BY <1>4 DEF x, y

\* Two numbers less than L apart with one remainder are equal.
LEMMA SameNumber ==
  ASSUME NEW L \in Nat \ {0}, NEW a \in Int, NEW b \in Int, a % L = b % L, a - b < L, b - a < L
  PROVE  a = b
<1> DEFINE q == a \div L  s == b \div L  x == a % L
<1>1. a = L * q + x /\ b = L * s + x /\ q \in Int /\ s \in Int /\ x \in Int
  BY Division
<1> HIDE DEF q, s, x
<1>2. L * (s - q) = L * s - L * q
  BY <1>1
<1>3. s = q
  <2>1. CASE s - q >= 1
    <3>1. L * (s - q) >= L
      BY <1>1, <2>1
    <3> QED BY <1>1, <1>2, <3>1
  <2>2. CASE q - s >= 1
    <3>1. L * (q - s) >= L
      BY <1>1, <2>2
    <3>2. L * (q - s) = L * q - L * s
      BY <1>1
    <3> QED BY <1>1, <3>1, <3>2
  <2> QED BY <1>1, <2>1, <2>2
<1> QED BY <1>1, <1>3

LEMMA ModIdem ==
  ASSUME NEW L \in Nat \ {0}, NEW a \in Int, NEW d \in Int
  PROVE  ((a % L) + d) % L = (a + d) % L
<1> DEFINE q == a \div L  x == a % L  c == x + d  s == c \div L  y == c % L
<1>1. a = L * q + x /\ q \in Int /\ x \in Int
  BY Division
<1> HIDE DEF q, x
<1>2. c = L * s + y /\ s \in Int /\ y \in 0 .. L - 1 /\ c \in Int
  <2>1. c \in Int
    BY <1>1
  <2> HIDE DEF c
  <2> QED BY <2>1, Division
<1> HIDE DEF s, y
<1>3. L * (q + s) = L * q + L * s /\ q + s \in Int
  BY <1>1, <1>2
<1>4. a + d = L * (q + s) + y /\ a + d \in Int
  BY <1>1, <1>2, <1>3
<1>5. (a + d) % L = y
  BY <1>2, <1>3, <1>4, Remainder
<1> QED BY <1>5 DEF y, x

Sn(n) == n % M

LEMMA SnType == ASSUME NEW n \in Int PROVE Sn(n) \in Sns /\ Sn(n) \in Int
  BY Widths DEF Sn, Sns, M

\* Where a number lies, counted from the lower edge of a window with upper edge h.
LEMMA OffsetOf ==
  ASSUME NEW h \in Int, NEW n \in Int, h - W <= n, n < h + W
  PROVE  Offset(Base(Sn(h)), Sn(n)) = n - (h - W)
<1>1. Base(Sn(h)) = Sn(h - W)
  <2>1. -W \in Int /\ M \in Nat \ {0}
    BY Widths
  <2>3. ((h % M) + (-W)) % M = (h + (-W)) % M
    BY <2>1, ModIdem
  <2>2. (h % M) + (-W) = (h % M) - W /\ h + (-W) = h - W
    BY Widths
  <2> QED BY <2>2, <2>3 DEF Base, Sn, W, M
<1>2. n - (h - W) \in 0 .. M - 1 /\ h - W \in Int
  BY Widths
<1>3. ((n % M) - ((h - W) % M)) % M = n - (h - W)
  BY <1>2, Widths, ModDistance
<1> QED BY <1>1, <1>3 DEF Offset, Sn, M

LEMMA Inside ==
  ASSUME NEW h \in Int, NEW n \in Int, h - W <= n, n < h + W
  PROVE  IsInsideReorderingWindow(Sn(h), Sn(n)) <=> n < h
<1>1. Offset(Base(Sn(h)), Sn(n)) = n - (h - W)
  BY OffsetOf
<1> QED BY <1>1, Widths DEF IsInsideReorderingWindow, W

LEMMA SnInjective ==
  ASSUME NEW a \in Int, NEW b \in Int, Sn(a) = Sn(b), a - b < M, b - a < M
  PROVE  a = b
  BY Widths, SameNumber DEF Sn

LEMMA SnNext ==
  ASSUME NEW a \in Int, NEW d \in Int
  PROVE  (Sn(a) + d) % SnModulus = Sn(a + d)
  BY Widths, ModIdem DEF Sn, M

(***************************************************************************)
(* Bytes of the stream of SDUs.  A position is an SDU and a byte of it,    *)
(* and Segs(x, y) are the segments of the bytes from x up to y.            *)
(***************************************************************************)
Pos  == [sdu : Nat, off : 0 .. SduBytes - 1]
SegT == [sdu : Nat, from : Int, to : Int]

Lt(x, y)  == x.sdu < y.sdu \/ (x.sdu = y.sdu /\ x.off < y.off)
Leq(x, y) == x.sdu < y.sdu \/ (x.sdu = y.sdu /\ x.off <= y.off)

At(n) == [sdu |-> n, off |-> 0]

Count(x, y) ==
  IF Lt(x, y) THEN (IF y.off = 0 THEN y.sdu - x.sdu ELSE y.sdu - x.sdu + 1) ELSE 0

SegAt(x, y, i) ==
  [sdu |-> x.sdu + i - 1, from |-> IF i = 1 THEN x.off ELSE 0,
   to |-> IF x.sdu + i - 1 = y.sdu THEN y.off ELSE SduBytes]

Segs(x, y) == [i \in 1 .. Count(x, y) |-> SegAt(x, y, i)]

Dist(x, y) == (y.sdu - x.sdu) * SduBytes + y.off - x.off

LEMMA SduBytesType == SduBytes \in Nat /\ SduBytes >= 1
  BY UmAssumption

LEMMA PosType ==
  /\ \A x \in Pos : x.sdu \in Nat /\ x.off \in Nat /\ x.off < SduBytes
  /\ \A n \in Nat : At(n) \in Pos /\ At(n).sdu = n /\ At(n).off = 0
  /\ \A x, y \in Pos : x.sdu = y.sdu /\ x.off = y.off => x = y
  BY SduBytesType DEF Pos, At

\* The order of positions.
LEMMA PosOrder ==
  ASSUME NEW x \in Pos, NEW y \in Pos, NEW z \in Pos
  PROVE  /\ Leq(x, y) /\ Leq(y, z) => Leq(x, z)
         /\ Lt(x, y) /\ Leq(y, z) => Lt(x, z)
         /\ Leq(x, y) /\ Lt(y, z) => Lt(x, z)
         /\ Lt(x, y) => Leq(x, y)
         /\ Leq(x, y) => Lt(x, y) \/ x = y
         /\ Leq(x, x) /\ ~Lt(x, x)
         /\ Leq(x, y) \/ Lt(y, x)
  BY PosType DEF Leq, Lt

LEMMA SegsType ==
  ASSUME NEW x \in Pos, NEW y \in Pos
  PROVE  /\ Count(x, y) \in Nat
         /\ Segs(x, y) \in Seq(SegT) /\ Len(Segs(x, y)) = Count(x, y)
         /\ DOMAIN Segs(x, y) = 1 .. Count(x, y)
         /\ \A i \in 1 .. Count(x, y) : Segs(x, y)[i] = SegAt(x, y, i)
<1>1. Count(x, y) \in Nat
  BY PosType DEF Count, Lt
<1>2. \A i \in 1 .. Count(x, y) : SegAt(x, y, i) \in SegT
  BY <1>1, PosType, SduBytesType DEF SegAt, SegT
<1>3. Segs(x, y) \in [1 .. Count(x, y) -> SegT]
  BY <1>2 DEF Segs
<1>4. Segs(x, y) \in Seq(SegT)
  BY <1>1, <1>3
<1>5. Len(Segs(x, y)) = Count(x, y)
  <2>1. Len(Segs(x, y)) \in Nat /\ DOMAIN Segs(x, y) = 1 .. Len(Segs(x, y))
    BY <1>4, LenProperties
  <2>2. 1 .. Len(Segs(x, y)) = 1 .. Count(x, y)
    BY <1>3, <2>1
  <2> QED BY <1>1, <2>1, <2>2
<1> QED BY <1>1, <1>3, <1>4, <1>5 DEF Segs

\* What a segment of a run of bytes is.
LEMMA SegFields ==
  ASSUME NEW x \in Pos, NEW y \in Pos, NEW i \in 1 .. Count(x, y)
  PROVE  LET s == Segs(x, y)[i] IN
         /\ s \in SegT /\ s.sdu = x.sdu + i - 1
         /\ s.from = (IF i = 1 THEN x.off ELSE 0)
         /\ s.to = (IF s.sdu = y.sdu THEN y.off ELSE SduBytes)
         /\ s.from < s.to /\ s.to <= SduBytes /\ s.from \in Nat /\ s.to \in Nat
         /\ s.sdu \in Nat /\ s.sdu >= x.sdu /\ s.sdu <= y.sdu /\ (y.off = 0 => s.sdu < y.sdu)
<1> DEFINE s == Segs(x, y)[i]
<1>1. s = SegAt(x, y, i) /\ s \in SegT
  BY SegsType, ElementOfSeq
<1>2. /\ s.sdu = x.sdu + i - 1
      /\ s.from = (IF i = 1 THEN x.off ELSE 0)
      /\ s.to = (IF x.sdu + i - 1 = y.sdu THEN y.off ELSE SduBytes)
  BY <1>1 DEF SegAt
<1> HIDE DEF s
<1>3. Lt(x, y) /\ i \in Nat /\ i >= 1
  BY PosType DEF Count
<1>4. s.sdu <= y.sdu /\ s.sdu >= x.sdu /\ s.sdu \in Nat /\ (y.off = 0 => s.sdu < y.sdu)
  BY <1>2, <1>3, PosType DEF Count
<1>5. s.from < s.to /\ s.to <= SduBytes /\ s.from \in Nat /\ s.to \in Nat
  BY <1>2, <1>3, <1>4, PosType, SduBytesType DEF Lt
<1> QED BY <1>1, <1>2, <1>4, <1>5 DEF s

LEMMA SegsEmpty ==
  ASSUME NEW x \in Pos, NEW y \in Pos
  PROVE  /\ ~Lt(x, y) => Segs(x, y) = <<>>
         /\ Lt(x, y) => Segs(x, y) # <<>> /\ Count(x, y) >= 1
<1>1. ASSUME ~Lt(x, y) PROVE Segs(x, y) = <<>>
  <2>1. Len(Segs(x, y)) = 0 /\ Segs(x, y) \in Seq(SegT)
    BY <1>1, SegsType DEF Count
  <2> QED BY <2>1, EmptySeq
<1>2. ASSUME Lt(x, y) PROVE Segs(x, y) # <<>> /\ Count(x, y) >= 1
  <2>1. Count(x, y) >= 1
    BY <1>2, PosType DEF Count, Lt
  <2>2. Len(Segs(x, y)) >= 1
    BY <2>1, SegsType
  <2> QED BY <2>1, <2>2, EmptySeq
<1> QED BY <1>1, <1>2

\* A run that ends with an SDU, or is empty, and one segment more.
LEMMA SegsAppend ==
  ASSUME NEW x \in Pos, NEW m \in Pos, NEW y \in Pos, Leq(x, m), Lt(m, y),
         m.off = 0 \/ m = x, y.sdu = m.sdu \/ (y.sdu = m.sdu + 1 /\ y.off = 0),
         NEW seg, seg = [sdu |-> m.sdu, from |-> m.off, to |-> IF y.off = 0 THEN SduBytes ELSE y.off]
  PROVE  Append(Segs(x, m), seg) = Segs(x, y)
<1> DEFINE s == Segs(x, m)  t == Append(s, seg)  n == Count(x, m)
<1>1. n \in Nat /\ s \in Seq(SegT) /\ Len(s) = n /\ \A i \in 1..n : s[i] = SegAt(x, m, i)
  BY SegsType
<1>2. seg \in SegT
  BY PosType, SduBytesType DEF SegT
<1>3. Count(x, y) = n + 1 /\ n = m.sdu - x.sdu
  BY PosType DEF Count, Lt, Leq
<1>4. /\ t \in Seq(SegT) /\ Len(t) = n + 1
      /\ \A i \in 1..n : t[i] = s[i]
      /\ t[n + 1] = seg
  BY <1>1, <1>2, AppendProperties
<1>5. \A i \in 1..(n + 1) : t[i] = SegAt(x, y, i)
  <2> TAKE i \in 1..(n + 1)
  <2>1. CASE i \in 1..n
    <3>1. t[i] = SegAt(x, m, i)
      BY <1>1, <1>4, <2>1
    <3>2. x.sdu + i - 1 # m.sdu /\ x.sdu + i - 1 # y.sdu
      BY <1>3, <2>1, PosType
    <3> QED BY <3>1, <3>2 DEF SegAt
  <2>2. CASE i = n + 1
    <3>1. x.sdu + i - 1 = m.sdu
      BY <1>3, <2>2, PosType
    <3>2. m.off = (IF i = 1 THEN x.off ELSE 0)
      BY <1>3, <2>2, PosType DEF Leq
    <3>3. (IF x.sdu + i - 1 = y.sdu THEN y.off ELSE SduBytes) = IF y.off = 0 THEN SduBytes ELSE y.off
      BY <3>1, PosType DEF Lt
    <3> QED BY <1>4, <2>2, <3>1, <3>2, <3>3 DEF SegAt
  <2> QED BY <1>1, <2>1, <2>2
<1>6. /\ Segs(x, y) \in Seq(SegT) /\ Len(Segs(x, y)) = n + 1
      /\ \A i \in 1..(n + 1) : Segs(x, y)[i] = SegAt(x, y, i)
  BY <1>3, SegsType
<1> HIDE DEF t, s, n
<1>7. t = Segs(x, y)
  BY <1>1, <1>4, <1>5, <1>6, SeqEqual
<1> QED BY <1>7 DEF t, s

(***************************************************************************)
(* What the loops of the transmitting side have computed after i segments. *)
(***************************************************************************)
IsSizeRun(run, n, A, segs) ==
  /\ run \in [0..n -> A] /\ run[0] = 0
  /\ \A i \in 1..n : run[i] = run[i - 1] + Bytes(segs[i])
  /\ run[n] = Size(segs)

\* The sum of the bytes.
LEMMA SizeFold ==
  ASSUME NEW n \in Nat, NEW segs, DOMAIN segs = 1..n, NEW A, 0 \in A,
         \A a \in A : \A i \in 1..n : a + Bytes(segs[i]) \in A
  PROVE  \E run : IsSizeRun(run, n, A, segs)
<1> DEFINE op == [x \in (1..n) \X A |-> x[2] + Bytes(segs[x[1]])]
           Eq(f) == f = [s \in SUBSET (1..n) |->
                           IF s = {} THEN 0 ELSE f[s \ {Max(s)}] + Bytes(segs[Max(s)])]
           it == CHOOSE f : Eq(f)
           T == {i \in 0..n : it[1..i] \in A}
           run == [i \in 0..n |-> it[1..i]]
<1>1. op \in [(1..n) \X A -> A]
  OBVIOUS
<1>2. \A i \in 1..n, a \in A : op[<<i, a>>] = a + Bytes(segs[i])
  OBVIOUS
<1> HIDE DEF op
<1>3. PICK g \in [SUBSET (1..n) -> A] : IsFold(g, n, 0, op)
  BY <1>1, FoldExists
<1>4. Eq(g)
  <2>1. \A s \in SUBSET (1..n) : s # {} => Max(s) \in 1..n /\ g[s \ {Max(s)}] \in A
    BY MaxPosition
  <2>2. \A s \in SUBSET (1..n) :
          s # {} => op[<<Max(s), g[s \ {Max(s)}]>>] = g[s \ {Max(s)}] + Bytes(segs[Max(s)])
    BY <1>2, <2>1
  <2> QED BY <1>3, <2>2 DEF IsFold
<1>5. Eq(it)
  BY <1>4
<1>6. Size(segs) = it[1..n]
  BY DEF Size, FoldLeft, MapThenFoldSet
<1> HIDE DEF it
<1>7. 0 \in T /\ it[1..0] = 0
  <2>1. it[{}] = 0 /\ 1..0 = {}
    BY <1>5
  <2> QED BY <2>1
<1>8. \A i \in 1..n : it[1..i] = it[1..(i - 1)] + Bytes(segs[i])
  <2> TAKE i \in 1..n
  <2>1. Max(1..i) = i /\ (1..i) \ {i} = 1..(i - 1) /\ 1..i # {} /\ 1..i \in SUBSET (1..n)
    BY MaxOfFirst
  <2> QED BY <1>5, <2>1
<1>9. \A i \in 0..n : i \in T
  <2>1. \A i \in 1..n : i - 1 \in T => i \in T
    BY <1>8
  <2> HIDE DEF T
  <2> QED BY <1>7, <2>1, UpTo
<1>10. run \in [0..n -> A]
  BY <1>9
<1>11. run[0] = 0 /\ run[n] = it[1..n]
  BY <1>7
<1>12. \A i \in 1..n : run[i] = run[i - 1] + Bytes(segs[i])
  BY <1>8
<1> HIDE DEF run
<1> QED BY <1>6, <1>10, <1>11, <1>12 DEF IsSizeRun

FieldBase(bytes) == [segs |-> <<>>, rest |-> <<>>, room |-> bytes - 2, full |-> FALSE]

IsFieldRun(run, n, A, buf, bytes) ==
  /\ run \in [0..n -> A] /\ run[0] = FieldBase(bytes)
  /\ \A i \in 1..n : run[i] = Put(run[i - 1], buf[i], i, Len(buf))
  /\ run[n] = DataField(buf, bytes)

\* The data field.
LEMMA FieldFold ==
  ASSUME NEW n \in Nat, NEW buf, DOMAIN buf = 1..n, NEW bytes, NEW A, FieldBase(bytes) \in A,
         \A a \in A : \A i \in 1..n : Put(a, buf[i], i, Len(buf)) \in A
  PROVE  \E run : IsFieldRun(run, n, A, buf, bytes)
<1> DEFINE op == [x \in (1..n) \X A |-> Put(x[2], buf[x[1]], x[1], Len(buf))]
           Eq(f) == f = [s \in SUBSET (1..n) |->
                           IF s = {} THEN FieldBase(bytes) ELSE Put(f[s \ {Max(s)}], buf[Max(s)], Max(s), Len(buf))]
           idx == [i \in DOMAIN buf |-> i]
           Eq2(f) == f = [s \in SUBSET DOMAIN idx |->
                            IF s = {} THEN FieldBase(bytes)
                            ELSE Put(f[s \ {Max(s)}], buf[idx[Max(s)]], idx[Max(s)], Len(buf))]
           it == CHOOSE f : Eq2(f)
           T == {i \in 0..n : it[1..i] \in A}
           run == [i \in 0..n |-> it[1..i]]
<1>1. op \in [(1..n) \X A -> A]
  OBVIOUS
<1>2. \A i \in 1..n, a \in A : op[<<i, a>>] = Put(a, buf[i], i, Len(buf))
  OBVIOUS
<1> HIDE DEF op
<1>3. PICK g \in [SUBSET (1..n) -> A] : IsFold(g, n, FieldBase(bytes), op)
  BY <1>1, FoldExists
<1>4. Eq(g)
  <2>1. \A s \in SUBSET (1..n) : s # {} => Max(s) \in 1..n /\ g[s \ {Max(s)}] \in A
    BY MaxPosition
  <2>2. \A s \in SUBSET (1..n) :
          s # {} => op[<<Max(s), g[s \ {Max(s)}]>>] = Put(g[s \ {Max(s)}], buf[Max(s)], Max(s), Len(buf))
    BY <1>2, <2>1
  <2> QED BY <1>3, <2>2 DEF IsFold
<1>5. Eq(it)
  <2>1. DOMAIN idx = 1..n /\ \A i \in 1..n : idx[i] = i
    OBVIOUS
  <2> HIDE DEF idx
  <2>2. \A s \in SUBSET (1..n) : s # {} => idx[Max(s)] = Max(s)
    BY <2>1, MaxPosition
  <2>3. Eq2(g)
    BY <1>4, <2>1, <2>2
  <2>4. Eq2(it)
    BY <2>3
  <2> HIDE DEF it
  <2>5. it = [s \in SUBSET (1..n) |->
                IF s = {} THEN FieldBase(bytes)
                ELSE Put(it[s \ {Max(s)}], buf[idx[Max(s)]], idx[Max(s)], Len(buf))]
    BY <2>1, <2>4
  <2> QED BY <2>2, <2>5
<1>6. DataField(buf, bytes) = it[1..n]
  <2>1. DataField(buf, bytes) = it[DOMAIN idx]
    BY DEF DataField, FieldBase, FoldLeftDomain, FoldLeft, MapThenFoldSet
  <2>2. DOMAIN idx = 1..n
    OBVIOUS
  <2> QED BY <2>1, <2>2
<1> HIDE DEF it
<1>7. 0 \in T /\ it[1..0] = FieldBase(bytes)
  <2>1. it[{}] = FieldBase(bytes) /\ 1..0 = {}
    BY <1>5
  <2> QED BY <2>1
<1>8. \A i \in 1..n : it[1..i] = Put(it[1..(i - 1)], buf[i], i, Len(buf))
  <2> TAKE i \in 1..n
  <2>1. Max(1..i) = i /\ (1..i) \ {i} = 1..(i - 1) /\ 1..i # {} /\ 1..i \in SUBSET (1..n)
    BY MaxOfFirst
  <2> QED BY <1>5, <2>1
<1>9. \A i \in 0..n : i \in T
  <2>1. \A i \in 1..n : i - 1 \in T => i \in T
    BY <1>8
  <2> HIDE DEF T
  <2> QED BY <1>7, <2>1, UpTo
<1>10. run \in [0..n -> A]
  BY <1>9
<1>11. run[0] = FieldBase(bytes) /\ run[n] = it[1..n]
  BY <1>7
<1>12. \A i \in 1..n : run[i] = Put(run[i - 1], buf[i], i, Len(buf))
  BY <1>8
<1> HIDE DEF run
<1> QED BY <1>6, <1>10, <1>11, <1>12 DEF IsFieldRun

Kept(buf, m) == FoldLeft(LAMBDA k, seg : IF seg.sdu < m THEN k ELSE Append(k, seg), <<>>, buf)

IsKeptRun(run, n, A, buf, m) ==
  /\ run \in [0..n -> A] /\ run[0] = <<>>
  /\ \A i \in 1..n : run[i] = (IF buf[i].sdu < m THEN run[i - 1] ELSE Append(run[i - 1], buf[i]))
  /\ run[n] = Kept(buf, m)

\* The segments that are not overdue.
LEMMA KeptFold ==
  ASSUME NEW n \in Nat, NEW buf, DOMAIN buf = 1..n, NEW m, NEW A, <<>> \in A,
         \A a \in A : \A i \in 1..n : (IF buf[i].sdu < m THEN a ELSE Append(a, buf[i])) \in A
  PROVE  \E run : IsKeptRun(run, n, A, buf, m)
<1> DEFINE op == [x \in (1..n) \X A |-> (IF buf[x[1]].sdu < m THEN x[2] ELSE Append(x[2], buf[x[1]]))]
           Eq(f) == f = [s \in SUBSET (1..n) |->
                           IF s = {} THEN <<>> ELSE (IF buf[Max(s)].sdu < m THEN f[s \ {Max(s)}] ELSE Append(f[s \ {Max(s)}], buf[Max(s)]))]
           it == CHOOSE f : Eq(f)
           T == {i \in 0..n : it[1..i] \in A}
           run == [i \in 0..n |-> it[1..i]]
<1>1. op \in [(1..n) \X A -> A]
  OBVIOUS
<1>2. \A i \in 1..n, a \in A : op[<<i, a>>] = (IF buf[i].sdu < m THEN a ELSE Append(a, buf[i]))
  OBVIOUS
<1> HIDE DEF op
<1>3. PICK g \in [SUBSET (1..n) -> A] : IsFold(g, n, <<>>, op)
  BY <1>1, FoldExists
<1>4. Eq(g)
  <2>1. \A s \in SUBSET (1..n) : s # {} => Max(s) \in 1..n /\ g[s \ {Max(s)}] \in A
    BY MaxPosition
  <2>2. \A s \in SUBSET (1..n) :
          s # {} => op[<<Max(s), g[s \ {Max(s)}]>>] = (IF buf[Max(s)].sdu < m THEN g[s \ {Max(s)}] ELSE Append(g[s \ {Max(s)}], buf[Max(s)]))
    BY <1>2, <2>1
  <2> QED BY <1>3, <2>2 DEF IsFold
<1>5. Eq(it)
  BY <1>4
<1>6. Kept(buf, m) = it[1..n]
  BY DEF Kept, FoldLeft, MapThenFoldSet
<1> HIDE DEF it
<1>7. 0 \in T /\ it[1..0] = <<>>
  <2>1. it[{}] = <<>> /\ 1..0 = {}
    BY <1>5
  <2> QED BY <2>1
<1>8. \A i \in 1..n : it[1..i] = (IF buf[i].sdu < m THEN it[1..(i - 1)] ELSE Append(it[1..(i - 1)], buf[i]))
  <2> TAKE i \in 1..n
  <2>1. Max(1..i) = i /\ (1..i) \ {i} = 1..(i - 1) /\ 1..i # {} /\ 1..i \in SUBSET (1..n)
    BY MaxOfFirst
  <2> QED BY <1>5, <2>1
<1>9. \A i \in 0..n : i \in T
  <2>1. \A i \in 1..n : i - 1 \in T => i \in T
    BY <1>8
  <2> HIDE DEF T
  <2> QED BY <1>7, <2>1, UpTo
<1>10. run \in [0..n -> A]
  BY <1>9
<1>11. run[0] = <<>> /\ run[n] = it[1..n]
  BY <1>7
<1>12. \A i \in 1..n : run[i] = (IF buf[i].sdu < m THEN run[i - 1] ELSE Append(run[i - 1], buf[i]))
  BY <1>8
<1> HIDE DEF run
<1> QED BY <1>6, <1>10, <1>11, <1>12 DEF IsKeptRun

(***************************************************************************)
(* The loops on runs of bytes.                                             *)
(***************************************************************************)
Byte(x) == x.sdu * SduBytes + x.off

\* Where the first i segments of a run end.
Mid(x, y, i) == IF i = 0 THEN x ELSE IF i = Count(x, y) THEN y ELSE At(x.sdu + i)

LEMMA ByteType ==
  /\ \A x \in Pos : Byte(x) \in Nat
  /\ \A x, y \in Pos : y.sdu = x.sdu + 1 => Byte(y) - Byte(x) = SduBytes + y.off - x.off
  /\ \A x, y \in Pos : y.sdu = x.sdu => Byte(y) - Byte(x) = y.off - x.off
<1>1. \A k \in Nat : k * SduBytes \in Nat /\ (k + 1) * SduBytes = k * SduBytes + SduBytes
  BY SduBytesType
<1>2. ASSUME NEW x \in Pos, NEW y \in Pos
      PROVE  /\ Byte(x) \in Nat
             /\ y.sdu = x.sdu + 1 => Byte(y) - Byte(x) = SduBytes + y.off - x.off
             /\ y.sdu = x.sdu => Byte(y) - Byte(x) = y.off - x.off
  <2>1. x.sdu \in Nat /\ x.off \in Nat /\ y.off \in Nat /\ SduBytes \in Nat
    BY PosType, SduBytesType
  <2>2. x.sdu * SduBytes \in Nat /\ (x.sdu + 1) * SduBytes = x.sdu * SduBytes + SduBytes
    BY <1>1, <2>1
  <2>3. Byte(x) = x.sdu * SduBytes + x.off /\ Byte(y) = y.sdu * SduBytes + y.off
    BY DEF Byte
  <2>4. ASSUME y.sdu = x.sdu + 1 PROVE Byte(y) - Byte(x) = SduBytes + y.off - x.off
    <3>1. y.sdu * SduBytes = x.sdu * SduBytes + SduBytes
      BY <2>2, <2>4
    <3> QED BY <2>1, <2>2, <2>3, <3>1
  <2>5. ASSUME y.sdu = x.sdu PROVE Byte(y) - Byte(x) = y.off - x.off
    <3>1. y.sdu * SduBytes = x.sdu * SduBytes
      BY <2>5
    <3> QED BY <2>1, <2>2, <2>3, <3>1
  <2> QED BY <2>1, <2>2, <2>3, <2>4, <2>5
<1> QED BY <1>2

LEMMA SegBytes ==
  ASSUME NEW x \in Pos, NEW y \in Pos, NEW i \in 1 .. Count(x, y)
  PROVE  /\ Mid(x, y, i) \in Pos /\ Mid(x, y, i - 1) \in Pos
         /\ Bytes(Segs(x, y)[i]) = Byte(Mid(x, y, i)) - Byte(Mid(x, y, i - 1))
         /\ Bytes(Segs(x, y)[i]) \in Nat \ {0}
<1> DEFINE s == Segs(x, y)[i]  n == Count(x, y)  p == Mid(x, y, i - 1)  q == Mid(x, y, i)
<1>1. /\ s.sdu = x.sdu + i - 1 /\ s.from = (IF i = 1 THEN x.off ELSE 0)
      /\ s.to = (IF s.sdu = y.sdu THEN y.off ELSE SduBytes)
      /\ s.from < s.to /\ s.from \in Nat /\ s.to \in Nat
  BY SegFields
<1>2. n \in Nat /\ i \in 1..n /\ n = (IF y.off = 0 THEN y.sdu - x.sdu ELSE y.sdu - x.sdu + 1)
  <2>1. n \in Nat /\ i \in 1..n
    BY SegsType
  <2> QED BY <2>1 DEF Count
<1>3. p \in Pos /\ p.sdu = s.sdu /\ p.off = s.from
  BY <1>1, <1>2, PosType DEF Mid
<1>4. q \in Pos /\ IF s.to = SduBytes THEN q.sdu = s.sdu + 1 /\ q.off = 0
                                      ELSE q.sdu = s.sdu /\ q.off = s.to
  BY <1>1, <1>2, PosType DEF Mid
<1> HIDE DEF s, p, q
<1>5. s.to - s.from = Byte(q) - Byte(p)
  BY <1>1, <1>3, <1>4, ByteType, PosType, SduBytesType
<1>6. Bytes(s) = Byte(q) - Byte(p) /\ Bytes(s) \in Nat \ {0}
  BY <1>1, <1>5 DEF Bytes
<1> QED BY <1>3, <1>4, <1>6 DEF s, p, q

LEMMA SizeOfSegs ==
  ASSUME NEW x \in Pos, NEW y \in Pos, Leq(x, y)
  PROVE  Size(Segs(x, y)) = Byte(y) - Byte(x) /\ Size(Segs(x, y)) \in Nat
<1> DEFINE n == Count(x, y)  segs == Segs(x, y)
<1>1. n \in Nat /\ DOMAIN segs = 1..n
  BY SegsType
<1>2. \A i \in 1..n : Bytes(segs[i]) \in Nat
  BY SegBytes
<1>3. PICK run : IsSizeRun(run, n, Int, segs)
  <2> HIDE DEF n, segs
  <2>1. 0 \in Int /\ \A a \in Int : \A i \in 1..n : a + Bytes(segs[i]) \in Int
    BY <1>2
  <2> QED BY <1>1, <2>1, SizeFold
<1>4. /\ run \in [0..n -> Int] /\ run[0] = 0 /\ run[n] = Size(segs)
      /\ \A i \in 1..n : run[i] = run[i - 1] + Bytes(segs[i])
  BY <1>3 DEF IsSizeRun
<1> DEFINE T == {i \in 0..n : run[i] = Byte(Mid(x, y, i)) - Byte(x) /\ run[i] \in Nat}
<1>5. 0 \in T
  BY <1>1, <1>4, ByteType DEF Mid
<1>6. \A i \in 1..n : i - 1 \in T => i \in T
  <2> SUFFICES ASSUME NEW i \in 1..n, i - 1 \in T PROVE i \in T
    OBVIOUS
  <2>1. /\ Mid(x, y, i) \in Pos /\ Mid(x, y, i - 1) \in Pos
        /\ Bytes(segs[i]) = Byte(Mid(x, y, i)) - Byte(Mid(x, y, i - 1))
    BY SegBytes
  <2>2. Byte(Mid(x, y, i)) \in Nat /\ Byte(Mid(x, y, i - 1)) \in Nat /\ Byte(x) \in Nat
    BY <2>1, ByteType
  <2> QED BY <1>2, <1>4, <2>1, <2>2
<1>7. n \in T
  <2> HIDE DEF T, n
  <2>1. n \in 0..n
    BY <1>1
  <2> QED BY <1>1, <1>5, <1>6, <2>1, UpTo
<1>8. Mid(x, y, n) = y
  <2>1. CASE Lt(x, y)
    BY <2>1, SegsEmpty DEF Mid
  <2>2. CASE ~Lt(x, y)
    <3>1. x = y
      BY <2>2, PosOrder
    <3> QED BY <2>2, <3>1 DEF Mid, Count
  <2> QED BY <2>1, <2>2
<1> QED BY <1>4, <1>7, <1>8

\* A run of one segment.
LEMMA SegsOne ==
  ASSUME NEW m \in Pos, NEW y \in Pos, Lt(m, y),
         y.sdu = m.sdu \/ (y.sdu = m.sdu + 1 /\ y.off = 0),
         NEW seg, seg = [sdu |-> m.sdu, from |-> m.off, to |-> IF y.off = 0 THEN SduBytes ELSE y.off]
  PROVE  Segs(m, y) = <<seg>>
<1>1. Leq(m, m) /\ Segs(m, m) = <<>>
  BY PosOrder, SegsEmpty
<1>2. Append(Segs(m, m), seg) = Segs(m, y)
  <2>1. m.off = 0 \/ m = m
    OBVIOUS
  <2> QED BY <1>1, <2>1, SegsAppend, ZenonT(30)
<1> QED BY <1>1, <1>2

Fields == [segs : Seq(SegT), rest : Seq(SegT), room : Int, full : BOOLEAN]

LEMMA PutType ==
  ASSUME NEW a \in Fields, NEW seg \in SegT, NEW i \in Int, NEW n \in Int
  PROVE  Put(a, seg, i, n) \in Fields
<1>1. /\ a.segs \in Seq(SegT) /\ a.rest \in Seq(SegT) /\ a.room \in Int /\ a.full \in BOOLEAN
      /\ a = [segs |-> a.segs, rest |-> a.rest, room |-> a.room, full |-> a.full]
  BY DEF Fields
<1>2. seg.from \in Int /\ seg.to \in Int /\ seg.sdu \in Nat /\ Bytes(seg) \in Int
      /\ seg = [sdu |-> seg.sdu, from |-> seg.from, to |-> seg.to]
  BY DEF SegT, Bytes
<1>3. CASE a.full
  <2>1. Append(a.rest, seg) \in Seq(SegT)
    BY <1>1, AppendProperties
  <2>2. Put(a, seg, i, n) = [segs |-> a.segs, rest |-> Append(a.rest, seg), room |-> a.room, full |-> a.full]
    BY <1>1, <1>3 DEF Put
  <2> QED BY <1>1, <2>1, <2>2 DEF Fields
<1>4. CASE ~a.full /\ Bytes(seg) > a.room
  <2> DEFINE h == [seg EXCEPT !.to = seg.from + a.room]  t == [seg EXCEPT !.from = seg.from + a.room]
  <2>1. h \in SegT /\ t \in SegT
    BY <1>1, <1>2 DEF SegT
  <2> HIDE DEF h, t
  <2>2. Append(a.segs, h) \in Seq(SegT) /\ <<t>> \in Seq(SegT)
    BY <1>1, <2>1, AppendProperties
  <2>3. Put(a, seg, i, n) = [segs |-> Append(a.segs, h), room |-> 0, full |-> TRUE, rest |-> <<t>>]
    BY <1>4 DEF Put, Cut, h, t
  <2> QED BY <2>2, <2>3 DEF Fields
<1>5. CASE ~a.full /\ ~(Bytes(seg) > a.room)
  <2>1. Append(a.segs, seg) \in Seq(SegT) /\ <<>> \in Seq(SegT)
    BY <1>1, AppendProperties
  <2>2. LiBytes(a.segs) \in Int
    BY DEF LiBytes
  <2>3. a.room - Bytes(seg) - LiBytes(a.segs) \in Int /\ (a.room - Bytes(seg) <= 2 \/ i = n) \in BOOLEAN
    BY <1>1, <1>2, <2>2
  <2>4. Put(a, seg, i, n) = [segs |-> Append(a.segs, seg), rest |-> <<>>,
                             room |-> a.room - Bytes(seg) - LiBytes(a.segs),
                             full |-> a.room - Bytes(seg) <= 2 \/ i = n]
    BY <1>5 DEF Put
  <2> QED BY <2>1, <2>3, <2>4 DEF Fields
<1> QED BY <1>3, <1>4, <1>5

\* The data field after i SDUs: a whole prefix, or, when it is full, the bytes up to
\* some z, and the rest from there.
FieldOk(a, x, y, i) ==
  IF a.full
    THEN i >= 1 /\ \E z \in Pos : /\ Lt(x, z) /\ Leq(z, Mid(x, y, i))
                                  /\ a.segs = Segs(x, z) /\ a.rest = Segs(z, Mid(x, y, i))
    ELSE /\ i = 0 \/ i < Count(x, y)
         /\ a.segs = Segs(x, Mid(x, y, i)) /\ a.rest = <<>> /\ a.room >= 1

\* Segment i of the transmission buffer goes up to the end of its SDU.
LEMMA BufferSegment ==
  ASSUME NEW x \in Pos, NEW N \in Nat, NEW i \in 1 .. Count(x, At(N))
  PROVE  LET m == Mid(x, At(N), i - 1)  y == Mid(x, At(N), i) IN
         /\ m \in Pos /\ y \in Pos /\ Lt(m, y) /\ Leq(x, m) /\ y = At(m.sdu + 1)
         /\ (i = 1 /\ m = x) \/ m.off = 0
         /\ Segs(x, At(N))[i] = [sdu |-> m.sdu, from |-> m.off, to |-> SduBytes]
         /\ Lt(x, y)
<1> DEFINE y == At(N)  n == Count(x, y)  m == Mid(x, y, i - 1)  s == Segs(x, y)[i]
<1>1. y \in Pos /\ y.off = 0 /\ y.sdu = N
  BY PosType
<1>2. i \in 1..n /\ n \in Nat /\ Lt(x, y) /\ n = y.sdu - x.sdu
  <2>1. n \in Nat /\ i \in 1..n
    BY <1>1, SegsType
  <2> HIDE DEF y
  <2> QED BY <1>1, <2>1 DEF Count
<1>3. m \in Pos /\ m = (IF i = 1 THEN x ELSE At(x.sdu + i - 1)) /\ m.sdu = x.sdu + i - 1
  <2> HIDE DEF y
  <2>1. i - 1 # n /\ (i - 1 = 0 <=> i = 1) /\ x.sdu + (i - 1) = x.sdu + i - 1 /\ x.sdu + i - 1 \in Nat
    BY <1>2, PosType
  <2>2. m = (IF i = 1 THEN x ELSE At(x.sdu + i - 1))
    BY <2>1 DEF Mid
  <2> QED BY <2>1, <2>2, PosType
<1>4. Mid(x, y, i) = At(x.sdu + i) /\ x.sdu + i \in Nat
  <2>1. i = n => N = x.sdu + i
    BY <1>1, <1>2, PosType
  <2>2. i # 0 /\ x.sdu + i \in Nat
    BY <1>2, PosType
  <2> QED BY <2>1, <2>2 DEF Mid
<1>5. s = [sdu |-> m.sdu, from |-> m.off, to |-> SduBytes]
  <2>1. s = SegAt(x, y, i)
    BY <1>1, <1>2, SegsType
  <2>2. x.sdu + i - 1 # y.sdu
    BY <1>1, <1>2, PosType
  <2>3. m.off = IF i = 1 THEN x.off ELSE 0
    BY <1>3, <1>4, PosType
  <2> HIDE DEF y, m, s
  <2> QED BY <1>3, <2>1, <2>2, <2>3 DEF SegAt
<1>6. Leq(x, m) /\ Lt(m, At(x.sdu + i)) /\ Lt(x, At(x.sdu + i)) /\ (i = 1 \/ m.off = 0)
  <2> HIDE DEF m, y
  <2> QED BY <1>2, <1>3, <1>4, PosType DEF Leq, Lt
<1>7. x.sdu + i = m.sdu + 1 /\ At(x.sdu + i) \in Pos
  BY <1>2, <1>3, <1>4, PosType
<1> QED BY <1>3, <1>4, <1>5, <1>6, <1>7

LEMMA PutStep ==
  ASSUME NEW x \in Pos, NEW N \in Nat, NEW n, n = Count(x, At(N)), NEW i \in 1..n,
         NEW a \in Fields, FieldOk(a, x, At(N), i - 1)
  PROVE  FieldOk(Put(a, Segs(x, At(N))[i], i, n), x, At(N), i)
<1> DEFINE y == At(N)  m == Mid(x, y, i - 1)  e == Mid(x, y, i)
           seg == Segs(x, y)[i]  c == Put(a, seg, i, n)
<1>1. /\ m \in Pos /\ e \in Pos /\ Lt(m, e) /\ Leq(x, m) /\ e = At(m.sdu + 1)
      /\ (i = 1 /\ m = x) \/ m.off = 0
      /\ seg = [sdu |-> m.sdu, from |-> m.off, to |-> SduBytes]
      /\ Lt(x, e)
  BY BufferSegment
<1>2. /\ a.segs \in Seq(SegT) /\ a.rest \in Seq(SegT) /\ a.room \in Int /\ a.full \in BOOLEAN
      /\ a = [segs |-> a.segs, rest |-> a.rest, room |-> a.room, full |-> a.full]
  BY DEF Fields
<1>3. n \in Nat /\ i \in 1..n
  BY SegsType, PosType
<1>4. /\ a.full => i - 1 >= 1 /\ \E z \in Pos : /\ Lt(x, z) /\ Leq(z, m)
                                               /\ a.segs = Segs(x, z) /\ a.rest = Segs(z, m)
      /\ ~a.full => a.segs = Segs(x, m) /\ a.rest = <<>> /\ a.room >= 1
  BY DEF FieldOk
<1>5. /\ e.sdu = m.sdu + 1 /\ e.off = 0 /\ m.sdu \in Nat /\ m.off \in Nat /\ m.off < SduBytes
      /\ x.sdu \in Nat /\ x.off \in Nat /\ SduBytes \in Nat
  BY <1>1, PosType, SduBytesType
<1>6. SUFFICES /\ c.full => i >= 1 /\ \E z \in Pos : /\ Lt(x, z) /\ Leq(z, e)
                                                    /\ c.segs = Segs(x, z) /\ c.rest = Segs(z, e)
               /\ ~c.full => /\ i = 0 \/ i < n
                             /\ c.segs = Segs(x, e) /\ c.rest = <<>> /\ c.room >= 1
  BY DEF FieldOk
<1> HIDE DEF m, e, seg, y
<1>7. seg.sdu = m.sdu /\ seg.from = m.off /\ seg.to = SduBytes /\ Bytes(seg) = SduBytes - m.off
  BY <1>1 DEF Bytes
<1>8. CASE a.full
  <2>1. PICK z \in Pos : Lt(x, z) /\ Leq(z, m) /\ a.segs = Segs(x, z) /\ a.rest = Segs(z, m)
    BY <1>4, <1>8
  <2>2. m.off = 0
    BY <1>1, <1>3, <1>4, <1>8
  <2>3. Append(Segs(z, m), seg) = Segs(z, e)
    BY <1>1, <1>5, <2>1, <2>2, SegsAppend
  <2>4. c.full /\ c.segs = Segs(x, z) /\ c.rest = Segs(z, e)
    BY <1>2, <1>8, <2>1, <2>3 DEF Put
  <2>5. Leq(z, e)
    BY <1>1, <2>1, PosOrder
  <2> QED BY <1>3, <2>1, <2>4, <2>5
<1>9. CASE ~a.full /\ Bytes(seg) > a.room
  <2> DEFINE z == [sdu |-> m.sdu, off |-> m.off + a.room]
             h == [sdu |-> m.sdu, from |-> m.off, to |-> m.off + a.room]
             t == [sdu |-> m.sdu, from |-> m.off + a.room, to |-> SduBytes]
  <2>1. /\ z \in Pos /\ z.sdu = m.sdu /\ z.off = m.off + a.room /\ z.off # 0
        /\ Lt(m, z) /\ Lt(z, e)
    <3>a. a.room \in Int /\ a.room >= 1
      BY <1>2, <1>4, <1>9, Zenon
    <3>b. SduBytes - m.off > a.room
      BY <1>7, <1>9, Zenon
    <3>1. a.room \in Nat /\ a.room >= 1 /\ m.off + a.room \in 0 .. SduBytes - 1
      BY <3>a, <3>b, <1>5
    <3>2. z \in Pos /\ z.sdu = m.sdu /\ z.off = m.off + a.room
      BY <1>5, <3>1 DEF Pos
    <3> HIDE DEF z
    <3>3. z.off # 0 /\ Lt(m, z) /\ Lt(z, e)
      BY <1>5, <3>1, <3>2 DEF Lt
    <3> QED BY <3>2, <3>3
  <2>2. Append(Segs(x, m), h) = Segs(x, z)
    <3>1. h = [sdu |-> m.sdu, from |-> m.off, to |-> IF z.off = 0 THEN SduBytes ELSE z.off]
      BY <2>1
    <3>2. m.off = 0 \/ m = x
      BY <1>1
    <3> HIDE DEF z, h
    <3> QED BY <1>1, <2>1, <3>1, <3>2, SegsAppend
  <2>3. Segs(z, e) = <<t>>
    <3>1. t = [sdu |-> z.sdu, from |-> z.off, to |-> IF e.off = 0 THEN SduBytes ELSE e.off]
      BY <1>5, <2>1
    <3>2. Leq(z, z) /\ Segs(z, z) = <<>>
      BY <2>1, PosOrder, SegsEmpty
    <3>3. e.sdu = z.sdu + 1 /\ e.off = 0
      BY <1>5, <2>1
    <3> HIDE DEF z, t
    <3> QED BY <1>1, <2>1, <3>1, <3>3, SegsOne
  <2>4. c = [segs |-> Append(a.segs, h), room |-> 0, full |-> TRUE, rest |-> <<t>>]
    <3>1. [seg EXCEPT !.to = seg.from + a.room] = h
      BY <1>1
    <3>2. [seg EXCEPT !.from = seg.from + a.room] = t
      BY <1>1
    <3> HIDE DEF h, t
    <3> QED BY <1>9, <3>1, <3>2 DEF Put, Cut
  <2>5. c.full /\ c.segs = Segs(x, z) /\ c.rest = Segs(z, e)
    BY <1>4, <1>9, <2>2, <2>3, <2>4
  <2>6. Lt(x, z) /\ Leq(z, e)
    BY <1>1, <2>1, PosOrder
  <2> HIDE DEF z
  <2> QED BY <1>3, <2>1, <2>5, <2>6
<1>10. CASE ~a.full /\ ~(Bytes(seg) > a.room)
  <2>1. Append(a.segs, seg) = Segs(x, e)
    <3>1. seg = [sdu |-> m.sdu, from |-> m.off, to |-> IF e.off = 0 THEN SduBytes ELSE e.off]
      BY <1>1, <1>5
    <3>2. m.off = 0 \/ m = x
      BY <1>1
    <3>3. a.segs = Segs(x, m)
      BY <1>4, <1>10
    <3>4. Append(Segs(x, m), seg) = Segs(x, e)
      BY <1>1, <1>5, <3>1, <3>2, SegsAppend
    <3> QED BY <3>3, <3>4
  <2>2. LiBytes(a.segs) \in 1..2
    BY DEF LiBytes
  <2>3. c = [segs |-> Append(a.segs, seg), rest |-> <<>>,
             room |-> a.room - Bytes(seg) - LiBytes(a.segs),
             full |-> a.room - Bytes(seg) <= 2 \/ i = n]
    BY <1>10 DEF Put
  <2>4. /\ c.segs = Segs(x, e) /\ c.rest = <<>> /\ c.room = a.room - Bytes(seg) - LiBytes(a.segs)
        /\ c.full <=> a.room - Bytes(seg) <= 2 \/ i = n
    <3> DEFINE full == a.room - Bytes(seg) <= 2 \/ i = n
               room == a.room - Bytes(seg) - LiBytes(a.segs)
    <3>1. c = [segs |-> Append(a.segs, seg), rest |-> <<>>, room |-> room, full |-> full]
      BY <2>3
    <3> HIDE DEF c, full, room
    <3>2. c.segs = Append(a.segs, seg) /\ c.rest = <<>> /\ c.room = room /\ c.full = full
      BY <3>1
    <3> QED BY <2>1, <3>2 DEF full, room
  <2>5. ~c.full => i < n /\ c.room >= 1
    <3> DEFINE room == a.room  li == LiBytes(a.segs)  size == Bytes(seg)
    <3>1. room \in Int /\ li \in 1..2 /\ size \in Int /\ n \in Nat /\ i \in 1..n
      BY <1>2, <1>3, <1>5, <1>7, <2>2
    <3>2. c.room = room - size - li /\ (c.full <=> room - size <= 2 \/ i = n)
      BY <2>4
    <3> HIDE DEF c, room, li, size
    <3> QED BY <3>1, <3>2
  <2>6. Segs(e, e) = <<>> /\ Leq(e, e)
    BY <1>1, PosOrder, SegsEmpty
  <2> HIDE DEF c
  <2> QED BY <1>1, <1>3, <2>4, <2>5, <2>6
<1> QED BY <1>2, <1>8, <1>9, <1>10

\* What an opportunity sends and leaves.
LEMMA DataFieldOfSegs ==
  ASSUME NEW x \in Pos, NEW N \in Nat, Lt(x, At(N)), NEW bytes \in Int, bytes > 2
  PROVE  \E z \in Pos : /\ Lt(x, z) /\ Leq(z, At(N))
                        /\ DataField(Segs(x, At(N)), bytes).segs = Segs(x, z)
                        /\ DataField(Segs(x, At(N)), bytes).rest = Segs(z, At(N))
<1> DEFINE y == At(N)  n == Count(x, y)  buf == Segs(x, y)  b == FieldBase(bytes)
<1>1. /\ y \in Pos /\ n \in Nat /\ n >= 1 /\ DOMAIN buf = 1..n /\ Len(buf) = n
      /\ \A i \in 1..n : buf[i] \in SegT
  BY PosType, SegsType, SegsEmpty, SegFields
<1>2. b \in Fields /\ FieldOk(b, x, y, 0)
  <2>1. b = [segs |-> <<>>, rest |-> <<>>, room |-> bytes - 2, full |-> FALSE]
    BY DEF FieldBase
  <2>2. Segs(x, x) = <<>>
    BY PosOrder, SegsEmpty
  <2>3. <<>> \in Seq(SegT)
    OBVIOUS
  <2> HIDE DEF b, y
  <2>4. b \in Fields
    BY <2>1, <2>3 DEF Fields
  <2> QED BY <2>1, <2>2, <2>4 DEF FieldOk, Mid
<1>3. PICK run : IsFieldRun(run, n, Fields, buf, bytes)
  <2> HIDE DEF b, y, n, buf
  <2>1. \A a \in Fields : \A i \in 1..n : Put(a, buf[i], i, Len(buf)) \in Fields
    BY <1>1, PutType
  <2>2. FieldBase(bytes) \in Fields
    BY <1>2 DEF b
  <2> QED BY <1>1, <2>1, <2>2, FieldFold
<1>4. /\ run \in [0..n -> Fields] /\ run[0] = b /\ run[n] = DataField(buf, bytes)
      /\ \A i \in 1..n : run[i] = Put(run[i - 1], buf[i], i, n)
  BY <1>1, <1>3 DEF IsFieldRun
<1> DEFINE T == {i \in 0..n : FieldOk(run[i], x, y, i)}
<1>5. 0 \in T
  BY <1>1, <1>2, <1>4
<1>6. \A i \in 1..n : i - 1 \in T => i \in T
  <2> SUFFICES ASSUME NEW i \in 1..n, FieldOk(run[i - 1], x, y, i - 1) PROVE FieldOk(run[i], x, y, i)
    BY <1>1
  <2>1. run[i - 1] \in Fields
    <3>1. i - 1 \in 0..n
      BY <1>1
    <3>2. run \in [0..n -> Fields]
      BY <1>4
    <3> HIDE DEF n, T
    <3> QED BY <3>1, <3>2
  <2>2. FieldOk(Put(run[i - 1], buf[i], i, n), x, y, i)
    BY <1>1, <2>1, PutStep
  <2> QED BY <1>4, <2>2
<1>7. FieldOk(run[n], x, y, n)
  <2> HIDE DEF T, n
  <2>1. n \in 0..n
    BY <1>1
  <2>2. n \in T
    BY <1>1, <1>5, <1>6, <2>1, UpTo
  <2> QED BY <2>2 DEF T
<1>8. Mid(x, y, n) = y
  BY <1>1 DEF Mid
<1>9. run[n] \in Fields /\ n # 0 /\ ~(n < n)
  BY <1>1, <1>4
<1> HIDE DEF n, y, buf
<1>10. run[n].full
  BY <1>7, <1>9 DEF FieldOk, n
<1>11. \E z \in Pos : /\ Lt(x, z) /\ Leq(z, y)
                      /\ run[n].segs = Segs(x, z) /\ run[n].rest = Segs(z, y)
  BY <1>7, <1>8, <1>10 DEF FieldOk
<1> QED BY <1>4, <1>11 DEF buf, y

\* What PacketDeadlineTimer keeps: the bytes from the first SDU that is not overdue.
LEMMA KeptOfSegs ==
  ASSUME NEW x \in Pos, NEW N \in Nat, Leq(x, At(N)), NEW m \in Nat, m <= N,
         NEW z, z = IF x.sdu < m THEN At(m) ELSE x
  PROVE  z \in Pos /\ Leq(z, At(N)) /\ Kept(Segs(x, At(N)), m) = Segs(z, At(N))
<1> DEFINE y == At(N)  n == Count(x, y)  buf == Segs(x, y)
<1>1. /\ y \in Pos /\ n \in Nat /\ DOMAIN buf = 1..n
      /\ \A i \in 1..n : buf[i] \in SegT
  BY PosType, SegsType, SegFields
<1>2. z \in Pos /\ Leq(z, y) /\ Leq(x, z)
  BY PosType DEF Leq
<1>3. PICK run : IsKeptRun(run, n, Seq(SegT), buf, m)
  <2> HIDE DEF n, buf
  <2>1. \A a \in Seq(SegT) : \A i \in 1..n : (IF buf[i].sdu < m THEN a ELSE Append(a, buf[i])) \in Seq(SegT)
    BY <1>1, AppendProperties
  <2>2. <<>> \in Seq(SegT)
    OBVIOUS
  <2> QED BY <1>1, <2>1, <2>2, KeptFold
<1>4. /\ run \in [0..n -> Seq(SegT)] /\ run[0] = <<>> /\ run[n] = Kept(buf, m)
      /\ \A i \in 1..n : run[i] = (IF buf[i].sdu < m THEN run[i - 1] ELSE Append(run[i - 1], buf[i]))
  BY <1>3 DEF IsKeptRun
<1> DEFINE T == {i \in 0..n : run[i] = Segs(z, Mid(x, y, i))}
<1>5. 0 \in T
  <2>1. Segs(z, x) = <<>>
    <3>1. ~Lt(z, x)
      BY <1>2, PosOrder
    <3> QED BY <1>2, <3>1, SegsEmpty
  <2> HIDE DEF n
  <2> QED BY <1>1, <1>4, <2>1 DEF Mid
<1>6. \A i \in 1..n : i - 1 \in T => i \in T
  <2> SUFFICES ASSUME NEW i \in 1..n, run[i - 1] = Segs(z, Mid(x, y, i - 1))
               PROVE  run[i] = Segs(z, Mid(x, y, i))
    BY <1>1
  <2> DEFINE p == Mid(x, y, i - 1)  q == Mid(x, y, i)  seg == buf[i]
  <2>1. /\ p \in Pos /\ q \in Pos /\ Lt(p, q) /\ Leq(x, p) /\ q = At(p.sdu + 1)
        /\ (i = 1 /\ p = x) \/ p.off = 0
        /\ seg = [sdu |-> p.sdu, from |-> p.off, to |-> SduBytes]
    BY BufferSegment
  <2> HIDE DEF p, q, seg, y, n
  <2>2. seg.sdu = p.sdu /\ q.sdu = p.sdu + 1 /\ q.off = 0 /\ p.sdu \in Nat
    BY <2>1, PosType
  <2>3. CASE p.sdu < m
    <3>1. z = At(m)
      BY <2>1, <2>2, <2>3, PosType DEF Leq
    <3>2. ~Lt(z, p) /\ ~Lt(z, q)
      BY <2>1, <2>2, <2>3, <3>1, PosType DEF Lt
    <3>3. Segs(z, p) = <<>> /\ Segs(z, q) = <<>>
      BY <1>2, <2>1, <3>2, SegsEmpty
    <3>4. run[i] = run[i - 1]
      BY <1>4, <2>2, <2>3 DEF seg
    <3> QED BY <3>3, <3>4 DEF p, q
  <2>4. CASE ~(p.sdu < m)
    <3>1. Leq(z, p) /\ (p.off = 0 \/ p = z)
      BY <2>1, <2>2, <2>4, PosType DEF Leq
    <3>2. seg = [sdu |-> p.sdu, from |-> p.off, to |-> IF q.off = 0 THEN SduBytes ELSE q.off]
      BY <2>1, <2>2
    <3>3. Append(Segs(z, p), seg) = Segs(z, q)
      BY <1>2, <2>1, <2>2, <3>1, <3>2, SegsAppend
    <3>4. run[i] = Append(run[i - 1], seg)
      BY <1>4, <2>2, <2>4 DEF seg
    <3> QED BY <3>3, <3>4 DEF p, q
  <2> QED BY <2>3, <2>4 DEF q
<1>7. run[n] = Segs(z, Mid(x, y, n))
  <2> HIDE DEF T, n
  <2>1. n \in 0..n
    BY <1>1
  <2>2. n \in T
    BY <1>1, <1>5, <1>6, <2>1, UpTo
  <2> QED BY <2>2 DEF T
<1>8. Mid(x, y, n) = y
  <2>1. CASE Lt(x, y)
    BY <1>1, <2>1, SegsEmpty DEF Mid
  <2>2. CASE ~Lt(x, y)
    <3>1. x = y
      BY <1>1, <2>2, PosOrder
    <3> QED BY <2>2, <3>1 DEF Mid, Count
  <2> QED BY <2>1, <2>2
<1> QED BY <1>2, <1>4, <1>7, <1>8

(***************************************************************************)
(* Reassembly.  PDU n of a stream s has the bytes from s.from[n] up to     *)
(* s.to[n]; e is the number of the PDU that the receiver expects.          *)
(***************************************************************************)
PduAt(s, n)  == Pdu(n, Segs(s.from[n], s.to[n]))
PdusOf(s, K) == {PduAt(s, n) : n \in K}

IsRx(r) ==
  r = [ur |-> r.ur, ux |-> r.ux, uh |-> r.uh, base |-> r.base, timer |-> r.timer, buf |-> r.buf,
       expected |-> r.expected, waiting |-> r.waiting, keepS0 |-> r.keepS0, sdus |-> r.sdus,
       delivered |-> r.delivered]

\* Reassembly leaves the window and the timer alone.
SameWindow(r, q) ==
  q.ur = r.ur /\ q.ux = r.ux /\ q.uh = r.uh /\ q.base = r.base /\ q.timer = r.timer

LEMMA PduFields ==
  ASSUME NEW n, NEW segs
  PROVE  LET p == Pdu(n, segs) IN
         /\ p.no = n /\ p.sn = Sn(n) /\ p.segs = segs
         /\ p.first = (segs[1].from = 0) /\ p.last = (segs[Len(segs)].to = SduBytes)
  BY DEF Pdu, Sn, M

\* The packet is the bytes of an SDU from its start up to byte end.
Chain(pkt, sdu, end) ==
  /\ pkt \in Seq(SegT) /\ Len(pkt) >= 1
  /\ pkt[1].from = 0 /\ pkt[Len(pkt)].to = end
  /\ \A i \in 1 .. Len(pkt) : pkt[i].sdu = sdu
  /\ \A i \in 2 .. Len(pkt) : pkt[i].from = pkt[i - 1].to

LEMMA ChainOne ==
  ASSUME NEW seg \in SegT, seg.from = 0
  PROVE  Chain(<<seg>>, seg.sdu, seg.to)
  BY DEF Chain

LEMMA ChainMore ==
  ASSUME NEW pkt, NEW sdu, NEW end, Chain(pkt, sdu, end),
         NEW seg \in SegT, seg.sdu = sdu, seg.from = end
  PROVE  Chain(pkt \o <<seg>>, sdu, seg.to)
<1> DEFINE n == Len(pkt)  t == pkt \o <<seg>>
<1>1. /\ pkt \in Seq(SegT) /\ n \in Nat /\ n >= 1
      /\ pkt[1].from = 0 /\ pkt[n].to = end
      /\ \A i \in 1..n : pkt[i].sdu = sdu
      /\ \A i \in 2..n : pkt[i].from = pkt[i - 1].to
  BY LenProperties DEF Chain
<1>2. <<seg>> \in Seq(SegT) /\ Len(<<seg>>) = 1 /\ <<seg>>[1] = seg
  OBVIOUS
<1>3. /\ t \in Seq(SegT) /\ Len(t) = n + 1
      /\ \A i \in 1..(n + 1) : t[i] = IF i <= n THEN pkt[i] ELSE <<seg>>[i - n]
  BY <1>1, <1>2, ConcatProperties
<1> HIDE DEF t, n
<1>4. t[n + 1] = seg /\ \A i \in 1..n : t[i] = pkt[i]
  <2>1. ~(n + 1 <= n) /\ (n + 1) - n = 1 /\ n + 1 \in 1..(n + 1)
    BY <1>1
  <2>2. t[n + 1] = <<seg>>[(n + 1) - n]
    BY <1>3, <2>1
  <2> QED BY <1>1, <1>2, <1>3, <2>1, <2>2
<1>5. t[1].from = 0 /\ t[n + 1].to = seg.to
  BY <1>1, <1>4
<1>6. \A i \in 1..(n + 1) : t[i].sdu = sdu
  <2> TAKE i \in 1..(n + 1)
  <2>1. i \in 1..n \/ i = n + 1
    BY <1>1
  <2> QED BY <1>1, <1>4, <2>1
<1>7. \A i \in 2..(n + 1) : t[i].from = t[i - 1].to
  <2> TAKE i \in 2..(n + 1)
  <2>1. i - 1 \in 1..n /\ (i \in 2..n \/ (i = n + 1 /\ i - 1 = n))
    BY <1>1
  <2>2. CASE i \in 2..n
    <3>1. i \in 1..n
      BY <2>2
    <3> QED BY <1>1, <1>4, <2>1, <2>2, <3>1
  <2>3. CASE i = n + 1 /\ i - 1 = n
    <3>1. t[i] = seg /\ t[i - 1] = pkt[n]
      BY <1>4, <2>1, <2>3
    <3> QED BY <1>1, <3>1
  <2> QED BY <2>1, <2>2, <2>3
<1>8. Chain(t, sdu, seg.to)
  BY <1>1, <1>3, <1>5, <1>6, <1>7 DEF Chain
<1> QED BY <1>8 DEF t

LEMMA ChainIsWhole ==
  ASSUME NEW pkt, NEW sdu \in Nat, Chain(pkt, sdu, SduBytes)
  PROVE  IsWhole(pkt) /\ pkt[1].sdu = sdu
<1>1. Len(pkt) \in Nat /\ Len(pkt) >= 1
  BY LenProperties DEF Chain
<1>2. \A i \in 2..Len(pkt) : pkt[i].sdu = pkt[1].sdu
  BY <1>1 DEF Chain
<1> QED BY <1>1, <1>2 DEF Chain, IsWhole

\* The packets of the segments of a PDU.
Packed(p) == [i \in DOMAIN p.segs |-> <<p.segs[i]>>]

\* The packets that PDU x..y makes, joined to keep if continued: d of its segments are
\* dropped, and of the k others each is the bytes of an SDU, up to its end or up to y.
Joined(pkts, x, y, d) ==
  /\ pkts \in Seq(Seq(SegT)) /\ Len(pkts) = Count(x, y) - d
  /\ \A i \in 1 .. (Count(x, y) - d) :
       Chain(pkts[i], x.sdu + d + i - 1,
             IF x.sdu + d + i - 1 = y.sdu THEN y.off ELSE SduBytes)

LEMMA PacketsJoined ==
  ASSUME NEW r, NEW n, NEW x \in Pos, NEW y \in Pos, Lt(x, y), NEW p, p = Pdu(n, Segs(x, y)),
         NEW continued \in BOOLEAN, continued => x.off > 0 /\ Chain(r.keepS0, x.sdu, x.off),
         r.sdus = <<>>,
         NEW d, d = IF continued \/ x.off = 0 THEN 0 ELSE 1
  PROVE  /\ p.first = (x.off = 0)
         /\ Joined(Packets(r, p, r.sdus \o Packed(p), continued), x, y, d)
<1> DEFINE c == Count(x, y)  segs == Segs(x, y)  one == [i \in 1..c |-> <<segs[i]>>]
           End(k) == IF k = y.sdu THEN y.off ELSE SduBytes
<1>1. /\ c \in Nat /\ c >= 1 /\ DOMAIN segs = 1..c /\ Len(segs) = c
      /\ \A i \in 1..c : /\ segs[i] \in SegT /\ segs[i].sdu = x.sdu + i - 1
                         /\ segs[i].from = (IF i = 1 THEN x.off ELSE 0)
                         /\ segs[i].to = End(x.sdu + i - 1)
  BY SegsType, SegsEmpty, SegFields
<1>2. p.segs = segs /\ p.first = (x.off = 0)
  <2>1. p.segs = segs /\ p.first = (segs[1].from = 0)
    BY PduFields
  <2>2. segs[1].from = x.off
    <3>1. 1 \in 1..c
      BY <1>1
    <3> QED BY <1>1, <3>1
  <2> QED BY <2>1, <2>2
<1>3. /\ one \in Seq(Seq(SegT)) /\ Len(one) = c
      /\ \A i \in 1..c : one[i] = <<segs[i]>>
  <2> HIDE DEF c, segs
  <2>1. \A i \in 1..c : <<segs[i]>> \in Seq(SegT)
    BY <1>1
  <2>2. one \in [1..c -> Seq(SegT)]
    BY <2>1
  <2>3. one \in Seq(Seq(SegT)) /\ DOMAIN one = 1..c
    BY <1>1, <2>2
  <2> HIDE DEF one
  <2>4. Len(one) \in Nat /\ DOMAIN one = 1..Len(one)
    BY <2>3, LenProperties
  <2>5. Len(one) = c
    BY <1>1, <2>3, <2>4
  <2> QED BY <2>3, <2>5 DEF one
<1>4. r.sdus \o Packed(p) = one
  <2>1. Packed(p) = one
    BY <1>1, <1>2 DEF Packed
  <2>2. <<>> \o one = one
    <3> HIDE DEF one
    <3> QED BY <1>3, ConcatEmptySeq
  <2> QED BY <2>1, <2>2
<1>5. \A i \in 1..c : segs[i].from = 0 => Chain(one[i], x.sdu + i - 1, End(x.sdu + i - 1))
  <2> TAKE i \in 1..c
  <2> HIDE DEF one, segs, c, End
  <2> QED BY <1>1, <1>3, ChainOne
<1> DEFINE tail == Tail(one)  keep == r.keepS0 \o one[1]
<1>6. /\ tail \in Seq(Seq(SegT)) /\ Len(tail) = c - 1
      /\ \A i \in 1..(c - 1) : tail[i] = one[i + 1]
      /\ 1 \in 1..c
  <2> HIDE DEF one, c
  <2>1. one # <<>>
    BY <1>1, <1>3, EmptySeq
  <2> QED BY <1>1, <1>3, <2>1, HeadTailProperties
<1>7. CASE continued
  <2>1. Chain(keep, x.sdu, End(x.sdu))
    <3>1. segs[1] \in SegT /\ segs[1].sdu = x.sdu /\ segs[1].from = x.off /\ segs[1].to = End(x.sdu)
      <4>1. x.sdu + 1 - 1 = x.sdu
        BY PosType
      <4> HIDE DEF End, segs, c
      <4> QED BY <1>1, <1>6, <4>1
    <3>2. one[1] = <<segs[1]>>
      BY <1>3, <1>6
    <3> HIDE DEF one, segs, End
    <3> QED BY <1>7, <3>1, <3>2, ChainMore
  <2>2. keep \in Seq(SegT)
    BY <2>1 DEF Chain
  <2> DEFINE pkts == <<keep>> \o tail
  <2> HIDE DEF keep, tail, one, c
  <2>3. /\ pkts \in Seq(Seq(SegT)) /\ Len(pkts) = 1 + (c - 1)
        /\ \A i \in 1..(1 + (c - 1)) : pkts[i] = IF i <= 1 THEN <<keep>>[i] ELSE tail[i - 1]
    <3>1. <<keep>> \in Seq(Seq(SegT)) /\ Len(<<keep>>) = 1
      BY <2>2
    <3> QED BY <1>1, <1>6, <3>1, ConcatProperties
  <2>4. pkts[1] = keep /\ \A i \in 2..c : pkts[i] = one[i]
    <3>1. pkts[1] = keep
      BY <1>1, <2>3
    <3>2. ASSUME NEW i \in 2..c PROVE pkts[i] = one[i]
      <4>1. i \in 1..(1 + (c - 1)) /\ ~(i <= 1) /\ i - 1 \in 1..(c - 1) /\ (i - 1) + 1 = i
        BY <1>1
      <4>2. pkts[i] = tail[i - 1]
        BY <2>3, <4>1
      <4> QED BY <1>6, <4>1, <4>2
    <3> QED BY <3>1, <3>2
  <2>5. Packets(r, p, one, continued) = pkts
    BY <1>7 DEF Packets, keep, tail
  <2>6. \A i \in 1..c : Chain(pkts[i], x.sdu + 0 + i - 1, End(x.sdu + 0 + i - 1))
    <3> TAKE i \in 1..c
    <3>1. x.sdu + 0 + i - 1 = x.sdu + i - 1 /\ (i = 1 => x.sdu + i - 1 = x.sdu) /\ (i = 1 \/ i \in 2..c)
      BY PosType, <1>1
    <3>2. CASE i = 1
      <4> HIDE DEF pkts, End
      <4> QED BY <2>1, <2>4, <3>1, <3>2
    <3>3. CASE i \in 2..c
      <4>1. segs[i].from = 0
        BY <1>1, <3>3
      <4> HIDE DEF pkts, segs, End
      <4> QED BY <1>5, <2>4, <3>1, <3>3, <4>1
    <3> QED BY <3>1, <3>2, <3>3
  <2>7. d = 0 /\ Len(pkts) = c - 0 /\ 1..(c - 0) = 1..c
    BY <1>1, <1>7, <2>3
  <2> HIDE DEF pkts
  <2>8. Joined(pkts, x, y, 0)
    BY <2>3, <2>6, <2>7 DEF Joined, c
  <2> HIDE DEF segs
  <2> QED BY <1>2, <1>4, <2>5, <2>7, <2>8
<1>8. CASE ~continued /\ x.off = 0
  <2>1. \A i \in 1..c : segs[i].from = 0
    BY <1>1, <1>8
  <2>2. d = 0 /\ Len(one) = c - 0 /\ 1..(c - 0) = 1..c
    BY <1>1, <1>3, <1>8
  <2>3. \A i \in 1..c : x.sdu + 0 + i - 1 = x.sdu + i - 1
    BY PosType
  <2>4. Packets(r, p, one, continued) = one
    BY <1>2, <1>8 DEF Packets
  <2> HIDE DEF one, segs, c
  <2>5. Joined(one, x, y, 0)
    BY <1>3, <1>5, <2>1, <2>2, <2>3 DEF Joined, c
  <2> QED BY <1>2, <1>4, <2>2, <2>4, <2>5
<1>9. CASE ~continued /\ x.off # 0
  <2>1. \A i \in 1..(c - 1) : i + 1 \in 1..c /\ segs[i + 1].from = 0
    BY <1>1
  <2>2. d = 1
    BY <1>9
  <2>3. \A i \in 1..(c - 1) : x.sdu + 1 + i - 1 = x.sdu + (i + 1) - 1
    BY PosType
  <2>4. Packets(r, p, one, continued) = tail
    BY <1>2, <1>9 DEF Packets
  <2>5. \A i \in 1..(c - 1) : Chain(tail[i], x.sdu + 1 + i - 1, End(x.sdu + 1 + i - 1))
    <3> TAKE i \in 1..(c - 1)
    <3> HIDE DEF one, segs, c, tail, End
    <3> QED BY <1>5, <1>6, <2>1, <2>3
  <2> HIDE DEF one, segs, c, tail
  <2>6. Joined(tail, x, y, 1)
    BY <1>6, <2>5 DEF Joined, c
  <2> QED BY <1>2, <1>4, <2>2, <2>4, <2>6
<1>10. x.off # 0 \/ x.off = 0
  OBVIOUS
<1> HIDE DEF one, segs, c, tail, keep, End
<1> QED BY <1>7, <1>8, <1>9

\* What the receiver has delivered and keeps when it expects PDU e.
Ordered(s, r, e) ==
  /\ r.sdus = <<>> /\ r.waiting \in BOOLEAN
  /\ r.waiting => s.from[e].off > 0 /\ Chain(r.keepS0, s.from[e].sdu, s.from[e].off)
  /\ r.delivered \in Seq(Nat)
  /\ \A i \in 1 .. Len(r.delivered) : r.delivered[i] < s.from[e].sdu
  /\ \A i, j \in 1 .. Len(r.delivered) : i < j => r.delivered[i] < r.delivered[j]

\* Nothing has been missed so far.
Whole(s, r, e) ==
  /\ s.from[e].off > 0 => r.waiting
  /\ r.delivered = [i \in 1 .. s.from[e].sdu |-> i - 1]

Content(s, r, e) == /\ r.expected = Sn(e)
                    /\ ~DiscardByDeadline => Ordered(s, r, e)

\* Reassembly changes the fields of reassembly only.
LEMMA DeliverShape ==
  ASSUME NEW r, IsRx(r), NEW p, NEW q, q = ReassembleAndDeliver(r, p)
  PROVE  /\ IsRx(q) /\ SameWindow(r, q) /\ q.buf = r.buf
         /\ q.expected = (p.sn + 1) % SnModulus
<1> DEFINE sdus      == r.sdus \o [i \in DOMAIN p.segs |-> <<p.segs[i]>>]
           continued == r.waiting /\ p.sn = r.expected
           pkts      == Packets(r, p, sdus, continued)
           open      == ~p.last /\ pkts # <<>>
           next      == [r EXCEPT !.expected = (p.sn + 1) % SnModulus]
           keep      == IF open THEN Last(pkts) ELSE <<>>
           new       == r.delivered \o Delivered(IF open THEN Front(pkts) ELSE pkts)
<1>1. q = IF continued /\ p.first THEN [next EXCEPT !.sdus = sdus]
          ELSE [next EXCEPT !.sdus = <<>>, !.waiting = open, !.keepS0 = keep, !.delivered = new]
  BY DEF ReassembleAndDeliver, IsRx
<1> DEFINE x == (p.sn + 1) % SnModulus
<1> HIDE DEF sdus, continued, pkts, open, keep, new, x
<1>2. next = [ur |-> r.ur, ux |-> r.ux, uh |-> r.uh, base |-> r.base, timer |-> r.timer,
              buf |-> r.buf, expected |-> x, waiting |-> r.waiting, keepS0 |-> r.keepS0,
              sdus |-> r.sdus, delivered |-> r.delivered]
  BY DEF IsRx, x
<1> HIDE DEF next
<1>3. \/ q = [ur |-> r.ur, ux |-> r.ux, uh |-> r.uh, base |-> r.base, timer |-> r.timer,
              buf |-> r.buf, expected |-> x, waiting |-> r.waiting, keepS0 |-> r.keepS0,
              sdus |-> sdus, delivered |-> r.delivered]
      \/ q = [ur |-> r.ur, ux |-> r.ux, uh |-> r.uh, base |-> r.base, timer |-> r.timer,
              buf |-> r.buf, expected |-> x, waiting |-> open, keepS0 |-> keep,
              sdus |-> <<>>, delivered |-> new]
  BY <1>1, <1>2
<1>4. IsRx(q) /\ SameWindow(r, q) /\ q.buf = r.buf /\ q.expected = x
  BY <1>3 DEF IsRx, SameWindow
<1> QED BY <1>4 DEF x

\* What becomes of the packets of a PDU x..y.
LEMMA DeliveredOf ==
  ASSUME NEW x \in Pos, NEW y \in Pos, Lt(x, y), NEW d \in 0..1, NEW pkts, Joined(pkts, x, y, d),
         NEW open \in BOOLEAN, open <=> y.off # 0 /\ pkts # <<>>,
         NEW new, new = Delivered(IF open THEN Front(pkts) ELSE pkts)
  PROVE  /\ new \in Seq(Nat) /\ DOMAIN new = 1 .. Len(new)
         /\ Len(new) = IF y.sdu - x.sdu - d >= 0 THEN y.sdu - x.sdu - d ELSE 0
         /\ \A i \in 1 .. Len(new) : new[i] = x.sdu + d + i - 1
         /\ open => Chain(Last(pkts), y.sdu, y.off)
         /\ d = 0 => pkts # <<>>
<1> DEFINE c == Count(x, y)  k == c - d  End(n) == IF n = y.sdu THEN y.off ELSE SduBytes
           full == IF open THEN Front(pkts) ELSE pkts
           f == IF open THEN k - 1 ELSE k
<1>1. /\ c \in Nat /\ c >= 1 /\ k \in Nat
      /\ c = (IF y.off = 0 THEN y.sdu - x.sdu ELSE y.sdu - x.sdu + 1)
      /\ x.sdu \in Nat /\ y.sdu \in Nat /\ y.sdu >= x.sdu /\ y.off \in Nat /\ d \in Nat
  <2>1. c \in Nat /\ c >= 1
    BY SegsType, SegsEmpty
  <2>2. c = (IF y.off = 0 THEN y.sdu - x.sdu ELSE y.sdu - x.sdu + 1)
    BY DEF Count
  <2>3. x.sdu \in Nat /\ y.sdu \in Nat /\ y.sdu >= x.sdu /\ y.off \in Nat
    BY PosType DEF Lt
  <2> HIDE DEF c
  <2> QED BY <2>1, <2>2, <2>3
<1>2. /\ pkts \in Seq(Seq(SegT)) /\ Len(pkts) = k
      /\ \A i \in 1..k : Chain(pkts[i], x.sdu + d + i - 1, End(x.sdu + d + i - 1))
      /\ pkts = <<>> <=> k = 0
  BY EmptySeq DEF Joined
<1> HIDE DEF c
<1>12. open <=> y.off # 0 /\ k # 0
  BY <1>2
<1>3. f \in Nat /\ f = IF y.sdu - x.sdu - d >= 0 THEN y.sdu - x.sdu - d ELSE 0
  <2>1. CASE open
    <3>1. f = c - d - 1 /\ c = y.sdu - x.sdu + 1 /\ c - d # 0
      BY <1>1, <1>12, <2>1
    <3>2. f = y.sdu - x.sdu - d /\ f >= 0
      <4> HIDE DEF f
      <4> QED BY <1>1, <3>1
    <3> HIDE DEF f
    <3> QED BY <1>1, <3>2
  <2>2. CASE ~open
    <3>1. f = c - d
      BY <2>2
    <3>2. y.off = 0 \/ c - d = 0
      BY <1>12, <2>2
    <3> HIDE DEF f
    <3>3. CASE y.off = 0
      <4>1. c = y.sdu - x.sdu
        BY <1>1, <3>3
      <4> QED BY <1>1, <3>1, <4>1
    <3>4. CASE y.off # 0
      <4>1. c = y.sdu - x.sdu + 1 /\ c - d = 0
        BY <1>1, <3>2, <3>4
      <4> QED BY <1>1, <3>1, <4>1
    <3> QED BY <3>3, <3>4
  <2> QED BY <2>1, <2>2
<1>4. full \in Seq(Seq(SegT)) /\ Len(full) = f /\ \A i \in 1..f : full[i] = pkts[i] /\ i \in 1..k
  <2>1. CASE open
    <3>1. full = SubSeq(pkts, 1, k - 1)
      BY <1>2, <2>1 DEF Front
    <3>2. \A i \in 1..k : pkts[i] \in Seq(SegT)
      BY <1>2 DEF Chain
    <3>3. k - 1 \in Nat /\ \A i \in 1..(k - 1) : i \in 1..k
      BY <1>1, <1>12, <2>1
    <3> DEFINE g == SubSeq(pkts, 1, k - 1)
    <3> HIDE DEF k
    <3>4. /\ g \in Seq(Seq(SegT)) /\ Len(g) = (IF 1 <= k - 1 THEN k - 1 - 1 + 1 ELSE 0)
          /\ \A i \in 1..(k - 1 - 1 + 1) : g[i] = pkts[1 + i - 1]
      BY <3>2, <3>3, <1>2, SubSeqProperties
    <3> HIDE DEF g
    <3>5. Len(g) = k - 1 /\ \A i \in 1..(k - 1) : g[i] = pkts[i]
      <4>1. k - 1 - 1 + 1 = k - 1
        BY <3>3
      <4>2. \A i \in 1..(k - 1) : 1 + i - 1 = i
        BY <3>3
      <4> QED BY <3>3, <3>4, <4>1, <4>2
    <3> QED BY <2>1, <3>1, <3>3, <3>4, <3>5 DEF g
  <2>2. CASE ~open
    BY <1>2, <2>2
  <2> QED BY <2>1, <2>2
<1>5. \A i \in 1..f : IsWhole(full[i]) /\ full[i][1].sdu = x.sdu + d + i - 1
  <2> TAKE i \in 1..f
  <2>1. x.sdu + d + i - 1 \in Nat /\ x.sdu + d + i - 1 # y.sdu
    <3> HIDE DEF f
    <3>1. d \in Nat /\ x.sdu \in Nat /\ y.sdu \in Nat /\ y.sdu >= x.sdu /\ i >= 1 /\ i <= f /\ i \in Nat
      BY <1>1, <1>3
    <3>2. i <= y.sdu - x.sdu - d
      <4>1. f = y.sdu - x.sdu - d
        BY <1>3, <3>1
      <4> QED BY <3>1, <4>1
    <3> QED BY <3>1, <3>2
  <2>2. Chain(full[i], x.sdu + d + i - 1, SduBytes)
    BY <1>2, <1>4, <2>1
  <2> HIDE DEF full
  <2> QED BY <2>1, <2>2, ChainIsWhole
<1>6. DOMAIN full = 1..f
  <2> HIDE DEF full, f
  <2> QED BY <1>4, LenProperties
<1>7. new = [i \in 1..f |-> x.sdu + d + i - 1]
  <2>1. new = Delivered(full)
    OBVIOUS
  <2> HIDE DEF full, f
  <2>2. new = [i \in 1..f |-> IF IsWhole(full[i]) THEN full[i][1].sdu ELSE Broken]
    BY <1>6, <2>1 DEF Delivered
  <2> QED BY <1>5, <2>2
<1>8. new \in Seq(Nat) /\ DOMAIN new = 1..f /\ Len(new) = f
  <2> HIDE DEF f
  <2>1. \A i \in 1..f : x.sdu + d + i - 1 \in Nat
    BY <1>1, <1>3
  <2>2. new \in [1..f -> Nat]
    BY <1>7, <2>1
  <2>3. new \in Seq(Nat) /\ DOMAIN new = 1..f
    BY <1>3, <2>2
  <2>4. Len(new) \in Nat /\ DOMAIN new = 1..Len(new)
    BY <2>3, LenProperties
  <2>5. Len(new) = f
    BY <1>3, <2>3, <2>4
  <2> QED BY <2>3, <2>5
<1>9. open => Chain(Last(pkts), y.sdu, y.off)
  <2> SUFFICES ASSUME open PROVE Chain(Last(pkts), y.sdu, y.off)
    OBVIOUS
  <2>0. y.off # 0 /\ k # 0
    BY <1>12
  <2>1. k \in 1..k /\ x.sdu + d + k - 1 = y.sdu
    <3>1. c = y.sdu - x.sdu + 1 /\ k = c - d
      BY <1>1, <2>0
    <3>2. k \in Nat /\ k # 0 /\ c \in Nat /\ d \in Nat /\ x.sdu \in Nat /\ y.sdu \in Nat
      BY <1>1, <2>0
    <3> HIDE DEF k
    <3> QED BY <3>1, <3>2
  <2>2. Last(pkts) = pkts[k]
    BY <1>2 DEF Last
  <2> QED BY <1>2, <2>1, <2>2
<1>10. d = 0 => pkts # <<>>
  BY <1>1, <1>2
<1> HIDE DEF f
<1>11. \A i \in 1..f : new[i] = x.sdu + d + i - 1
  BY <1>7
<1> QED BY <1>3, <1>8, <1>9, <1>10, <1>11

\* Reassembling PDU n, when PDU e with e <= n is expected.
LEMMA DeliverOrdered ==
  ASSUME ~DiscardByDeadline,
         NEW s, NEW n \in Nat, NEW e \in Nat, e <= n, n < e + M,
         NEW x \in Pos, NEW y \in Pos, NEW z \in Pos, z = s.from[e], x = s.from[n], y = s.to[n],
         y = s.from[n + 1], Lt(x, y), Leq(z, x),
         NEW r, IsRx(r), Content(s, r, e),
         NEW q, q = ReassembleAndDeliver(r, PduAt(s, n))
  PROVE  /\ Ordered(s, q, n + 1)
         /\ n = e /\ Whole(s, r, e) => Whole(s, q, n + 1)
<1> DEFINE p         == PduAt(s, n)
           sdus      == r.sdus \o Packed(p)
           continued == r.waiting /\ p.sn = r.expected
           pkts      == Packets(r, p, sdus, continued)
           open      == ~p.last /\ pkts # <<>>
           next      == [r EXCEPT !.expected = (p.sn + 1) % SnModulus]
           keep      == IF open THEN Last(pkts) ELSE <<>>
           new       == Delivered(IF open THEN Front(pkts) ELSE pkts)
           d         == IF continued \/ x.off = 0 THEN 0 ELSE 1
           old       == r.delivered
<1>1. /\ r.expected = Sn(e) /\ r.sdus = <<>> /\ r.waiting \in BOOLEAN
      /\ r.waiting => z.off > 0 /\ Chain(r.keepS0, z.sdu, z.off)
      /\ old \in Seq(Nat)
      /\ \A i \in 1 .. Len(old) : old[i] < z.sdu
      /\ \A i, j \in 1 .. Len(old) : i < j => old[i] < old[j]
  BY DEF Content, Ordered
<1>2. p = Pdu(n, Segs(x, y)) /\ p.sn = Sn(n)
  <2>1. p = Pdu(n, Segs(x, y))
    BY DEF PduAt
  <2> HIDE DEF p
  <2> QED BY <2>1, PduFields
<1>3. p.sn = r.expected <=> n = e
  BY <1>1, <1>2, SnInjective, Widths
<1>4. continued \in BOOLEAN /\ (continued => n = e /\ z = x /\ x.off > 0 /\ Chain(r.keepS0, x.sdu, x.off))
  BY <1>1, <1>3
<1>5. p.first = (x.off = 0) /\ Joined(pkts, x, y, d)
  <2>1. d = IF continued \/ x.off = 0 THEN 0 ELSE 1
    OBVIOUS
  <2> HIDE DEF p, continued, d
  <2>2. /\ p = Pdu(n, Segs(x, y)) /\ continued \in BOOLEAN /\ r.sdus = <<>>
        /\ continued => x.off > 0 /\ Chain(r.keepS0, x.sdu, x.off)
    BY <1>1, <1>2, <1>4
  <2>3. Joined(Packets(r, p, r.sdus \o Packed(p), continued), x, y, d)
    BY <2>1, <2>2, PacketsJoined, ZenonT(30)
  <2>4. p.first = (x.off = 0)
    BY <2>1, <2>2, PacketsJoined
  <2> QED BY <2>3, <2>4
<1>6. ~(continued /\ p.first)
  <2>1. x.off = 0 => ~continued
    BY <1>4, PosType
  <2>2. x.off # 0 => p.first = FALSE
    BY <1>5
  <2> HIDE DEF p, continued
  <2> QED BY <2>1, <2>2, Zenon
<1>7. p.last <=> y.off = 0
  <2> DEFINE c == Count(x, y)
  <2>1. p.last = (Segs(x, y)[Len(Segs(x, y))].to = SduBytes)
    BY <1>2, PduFields
  <2>2. Len(Segs(x, y)) = c /\ c \in Nat /\ c >= 1 /\ c \in 1..c
    BY SegsType, SegsEmpty
  <2>3. /\ Segs(x, y)[c].sdu = x.sdu + c - 1
        /\ Segs(x, y)[c].to = IF Segs(x, y)[c].sdu = y.sdu THEN y.off ELSE SduBytes
    BY <2>2, SegFields
  <2>4. c = IF y.off = 0 THEN y.sdu - x.sdu ELSE y.sdu - x.sdu + 1
    BY DEF Count
  <2> DEFINE g == Segs(x, y)[c]
  <2>5. g = Segs(x, y)[Len(Segs(x, y))]
    BY <2>2
  <2>6. x.sdu \in Nat /\ y.sdu \in Nat /\ y.off \in Nat /\ y.off < SduBytes
    BY PosType
  <2> HIDE DEF c, p, g
  <2>7. g.sdu = x.sdu + c - 1 /\ g.to = IF g.sdu = y.sdu THEN y.off ELSE SduBytes
    BY <2>3 DEF g
  <2>8. g.to = SduBytes <=> y.off = 0
    BY <2>4, <2>6, <2>7, SduBytesType
  <2> QED BY <2>1, <2>5, <2>8, Zenon
<1> HIDE DEF p, sdus, continued, pkts
<1>8. open \in BOOLEAN /\ (open <=> y.off # 0 /\ pkts # <<>>)
  BY <1>7
<1> HIDE DEF open
<1>9. d \in 0..1
  OBVIOUS
<1>10. /\ new \in Seq(Nat)
       /\ Len(new) = IF y.sdu - x.sdu - d >= 0 THEN y.sdu - x.sdu - d ELSE 0
       /\ \A i \in 1 .. Len(new) : new[i] = x.sdu + d + i - 1
       /\ open => Chain(Last(pkts), y.sdu, y.off)
       /\ d = 0 => pkts # <<>>
  <2> HIDE DEF d
  <2>1. Joined(pkts, x, y, d)
    BY <1>5
  <2> QED BY <1>8, <1>9, <2>1, DeliveredOf, SMTT(30)
<1> HIDE DEF new
<1>11. /\ q.sdus = <<>> /\ q.waiting = open /\ q.keepS0 = keep /\ q.delivered = old \o new
  <2>1. q = [next EXCEPT !.sdus = <<>>, !.waiting = open, !.keepS0 = keep, !.delivered = @ \o new]
    <3>1. q = IF continued /\ p.first THEN [next EXCEPT !.sdus = sdus]
              ELSE [next EXCEPT !.sdus = <<>>, !.waiting = open, !.keepS0 = keep, !.delivered = @ \o new]
      BY DEF ReassembleAndDeliver, Packed, p, sdus, continued, pkts, open, new
    <3> HIDE DEF next, keep
    <3> QED BY <1>6, <3>1
  <2> DEFINE v == (p.sn + 1) % SnModulus
  <2> HIDE DEF v, keep
  <2>2. next = [ur |-> r.ur, ux |-> r.ux, uh |-> r.uh, base |-> r.base, timer |-> r.timer,
                buf |-> r.buf, expected |-> v, waiting |-> r.waiting, keepS0 |-> r.keepS0,
                sdus |-> r.sdus, delivered |-> r.delivered]
    BY DEF IsRx, v
  <2> HIDE DEF next
  <2>3. q = [ur |-> r.ur, ux |-> r.ux, uh |-> r.uh, base |-> r.base, timer |-> r.timer,
             buf |-> r.buf, expected |-> v, waiting |-> open, keepS0 |-> keep,
             sdus |-> <<>>, delivered |-> old \o new]
    BY <2>1, <2>2
  <2> QED BY <2>3
<1> HIDE DEF old
<1>12. /\ old \o new \in Seq(Nat) /\ Len(old \o new) = Len(old) + Len(new)
       /\ Len(old) \in Nat /\ Len(new) \in Nat
       /\ \A i \in 1..(Len(old) + Len(new)) :
            (old \o new)[i] = IF i <= Len(old) THEN old[i] ELSE new[i - Len(old)]
  BY <1>1, <1>10, ConcatProperties, LenProperties
<1> DEFINE a == Len(old)  b == Len(new)  t == old \o new
<1>13. /\ x.sdu \in Nat /\ y.sdu \in Nat /\ z.sdu \in Nat /\ z.sdu <= x.sdu /\ x.sdu <= y.sdu
       /\ d \in Nat /\ x.off \in Nat /\ y.off \in Nat
  BY <1>9, PosType DEF Lt, Leq
<1>14. \A i \in 1..(a + b) : \/ i \in 1..a /\ t[i] = old[i] /\ t[i] \in Nat /\ t[i] < x.sdu
                             \/ /\ i - a \in 1..b /\ t[i] = x.sdu + d + (i - a) - 1
                                /\ t[i] < y.sdu
  <2> TAKE i \in 1..(a + b)
  <2>1. CASE i <= a
    <3>1. i \in 1..a
      BY <1>12, <2>1
    <3>2. old[i] \in Nat /\ old[i] < z.sdu
      <4>1. i \in 1..Len(old)
        BY <3>1
      <4> QED BY <1>1, <4>1, ElementOfSeq
    <3>3. t[i] = old[i]
      BY <1>12, <2>1
    <3> QED BY <1>13, <3>1, <3>2, <3>3
  <2>2. CASE ~(i <= a)
    <3>1. i - a \in 1..b
      BY <1>12, <2>2
    <3>2. t[i] = new[i - a] /\ new[i - a] = x.sdu + d + (i - a) - 1
      BY <1>10, <1>12, <2>2, <3>1
    <3> HIDE DEF d
    <3>3. b = y.sdu - x.sdu - d
      BY <1>10, <1>12, <3>1
    <3>5. a \in Nat /\ b \in Nat
      BY <1>12
    <3> HIDE DEF t, a, b
    <3>4. x.sdu + d + (i - a) - 1 < y.sdu
      BY <1>13, <3>1, <3>3, <3>5
    <3> QED BY <3>1, <3>2, <3>4
  <2> QED BY <1>12, <2>1, <2>2
<1> HIDE DEF d, t
<1>15. \A i \in 1..(a + b) : t[i] < y.sdu
  <2> TAKE i \in 1..(a + b)
  <2>1. CASE t[i] \in Nat /\ t[i] < x.sdu
    <3> HIDE DEF a, b
    <3> QED BY <1>13, <2>1
  <2> QED BY <1>14, <2>1
<1>16. \A i, j \in 1..(a + b) : i < j => t[i] < t[j]
  <2> SUFFICES ASSUME NEW i \in 1..(a + b), NEW j \in 1..(a + b), i < j PROVE t[i] < t[j]
    OBVIOUS
  <2>0. a \in Nat /\ b \in Nat
    BY <1>12
  <2>1. CASE i \in 1..a /\ j \in 1..a
    <3>1. t[i] = old[i] /\ t[j] = old[j]
      BY <1>14, <2>0, <2>1
    <3> QED BY <1>1, <2>1, <3>1
  <2>2. CASE i \in 1..a /\ j \notin 1..a
    <3>1. t[i] \in Nat /\ t[i] < x.sdu
      BY <1>14, <2>0, <2>2
    <3>2. t[j] = x.sdu + d + (j - a) - 1 /\ j - a \in 1..b
      BY <1>14, <2>2
    <3>3. t[j] \in Int /\ t[j] >= x.sdu
      <4> HIDE DEF a, b
      <4> QED BY <1>13, <2>0, <3>2
    <3> QED BY <1>13, <3>1, <3>3
  <2>3. CASE i \notin 1..a
    <3>1. j \notin 1..a
      BY <2>0, <2>3
    <3>2. t[i] = x.sdu + d + (i - a) - 1 /\ t[j] = x.sdu + d + (j - a) - 1
      BY <1>14, <2>3, <3>1
    <3> HIDE DEF a, b
    <3>3. i \in Int /\ j \in Int
      BY <2>0
    <3> QED BY <1>13, <2>0, <2>3, <3>2, <3>3
  <2> QED BY <2>1, <2>2, <2>3
<1>17. open \in BOOLEAN
  BY <1>8
<1>18. q.waiting => y.off > 0 /\ Chain(q.keepS0, y.sdu, y.off)
  BY <1>8, <1>10, <1>11, <1>13, <1>17
<1>19. Ordered(s, q, n + 1)
  <2>1. t \in Seq(Nat) /\ Len(t) = a + b /\ q.delivered = t
    BY <1>11, <1>12 DEF t
  <2> HIDE DEF a, b
  <2> QED BY <1>11, <1>15, <1>16, <1>17, <1>18, <2>1 DEF Ordered
<1>20. ASSUME n = e, Whole(s, r, e) PROVE Whole(s, q, n + 1)
  <2>1. z = x /\ (x.off > 0 => r.waiting) /\ old = [i \in 1..x.sdu |-> i - 1]
    BY <1>20 DEF Whole, old
  <2>2. d = 0
    <3>1. x.off # 0 => continued
      BY <1>3, <1>13, <1>20, <2>1 DEF continued
    <3> QED BY <3>1 DEF d
  <2>3. y.off > 0 => q.waiting
    BY <1>8, <1>10, <1>11, <2>2, <1>13
  <2>4. a = x.sdu
    <3>1. old \in Seq(Nat) /\ DOMAIN old = 1..a /\ a \in Nat
      BY <1>1, LenProperties
    <3>2. DOMAIN old = 1..x.sdu
      BY <2>1
    <3> HIDE DEF a
    <3> QED BY <1>13, <3>1, <3>2
  <2>5. b = y.sdu - x.sdu /\ a + b = y.sdu
    BY <1>10, <1>13, <2>2, <2>4
  <2>6. \A i \in 1..y.sdu : t[i] = i - 1
    <3> TAKE i \in 1..y.sdu
    <3>1. i \in 1..(a + b)
      BY <2>5
    <3>2. CASE i \in 1..a
      <4>1. t[i] = old[i]
        BY <1>12, <1>14, <3>1, <3>2
      <4> QED BY <2>1, <2>4, <3>2, <4>1
    <3>3. CASE i \notin 1..a
      <4>1. t[i] = x.sdu + d + (i - a) - 1
        BY <1>14, <3>1, <3>3
      <4> HIDE DEF a
      <4> QED BY <1>13, <2>2, <2>4, <4>1
    <3> QED BY <3>2, <3>3
  <2>7. t = [i \in 1..y.sdu |-> i - 1]
    <3>1. t \in Seq(Nat) /\ Len(t) = y.sdu
      BY <1>12, <2>5 DEF t
    <3>2. t = [i \in 1..Len(t) |-> t[i]]
      BY <3>1, LenProperties
    <3> QED BY <2>6, <3>1, <3>2
  <2> QED BY <1>11, <2>3, <2>7 DEF Whole, t
<1> QED BY <1>19, <1>20

(***************************************************************************)
(* The same for the receiver.  Its states have no type that Reassemble     *)
(* keeps whatever it is given, so the run is built without one.            *)
(***************************************************************************)
IsRxRun(run, n, r, sns) ==
  /\ run[0] = r
  /\ \A i \in 1..n : run[i] = Reassemble(run[i - 1], sns[i])
  /\ run[n] = FoldLeft(Reassemble, r, sns)

\* What is left of a reassembling loop after i numbers.
LEMMA RxFold ==
  ASSUME NEW n \in Nat, NEW sns, DOMAIN sns = 1..n, NEW r
  PROVE  \E run : IsRxRun(run, n, r, sns)
<1> DEFINE Step(f, s) == IF s = {} THEN r ELSE Reassemble(f[s \ {Max(s)}], sns[Max(s)])
           Solves(f, m) == \A s \in SUBSET (1..m) : f[s] = Step(f, s)
           T == {m \in 0..n : \E f : Solves(f, m)}
           Eq(f) == f = [s \in SUBSET (1..n) |->
                           IF s = {} THEN r ELSE Reassemble(f[s \ {Max(s)}], sns[Max(s)])]
           it == CHOOSE f : Eq(f)
           run == [i \in 0..n |-> it[1..i]]
<1>1. 0 \in T
  <2> DEFINE g == [s \in {{}} |-> r]
  <2>1. \A s \in SUBSET (1..0) : s = {} /\ g[s] = r
    OBVIOUS
  <2> HIDE DEF g
  <2>2. Solves(g, 0) /\ 0 \in 0..n
    BY <2>1
  <2> QED BY <2>2
<1>2. ASSUME NEW m \in 1..n, m - 1 \in T PROVE m \in T
  <2>1. PICK g : Solves(g, m - 1)
    BY <1>2
  <2> DEFINE h == [s \in SUBSET (1..m) |->
                     IF m \in s THEN Reassemble(g[s \ {m}], sns[m]) ELSE g[s]]
  <2>2. ASSUME NEW s \in SUBSET (1..m), m \in s
        PROVE  /\ Max(s) = m
               /\ h[s] = Reassemble(g[s \ {m}], sns[m]) /\ h[s \ {m}] = g[s \ {m}]
    <3>1. Max(s) = m
      <4>1. m \in Nat /\ s # {}
        BY <2>2
      <4>2. Max(s) \in s /\ Max(s) >= m
        BY <2>2, <4>1, MaxPosition
      <4>3. Max(s) \in 1..m
        BY <4>2
      <4> QED BY <4>2, <4>3
    <3>2. s \ {m} \in SUBSET (1..m) /\ m \notin s \ {m}
      OBVIOUS
    <3> QED BY <2>2, <3>1, <3>2
  <2>3. ASSUME NEW s \in SUBSET (1..m), m \notin s
        PROVE  s \in SUBSET (1..(m - 1)) /\ h[s] = g[s]
    <3>1. s \in SUBSET (1..(m - 1))
      BY <2>3
    <3> QED BY <2>3, <3>1
  <2> HIDE DEF h
  <2>5. ASSUME NEW s \in SUBSET (1..m) PROVE h[s] = Step(h, s)
    <3>1. CASE m \in s
      BY <2>2, <3>1
    <3>2. CASE m \notin s
      <4>1. h[s] = Step(g, s)
        BY <2>1, <2>3, <3>2
      <4>2. h[s \ {Max(s)}] = g[s \ {Max(s)}]
        BY <2>3, <3>2
      <4> QED BY <4>1, <4>2
    <3> QED BY <3>1, <3>2
  <2>6. Solves(h, m) /\ m \in 0..n
    BY <2>5
  <2> QED BY <2>6
<1>3. PICK f : Solves(f, n)
  <2>1. n \in T
    <3> HIDE DEF T
    <3>1. n \in 0..n
      OBVIOUS
    <3> QED BY <1>1, <1>2, <3>1, UpTo
  <2> QED BY <2>1
<1>4. Eq(it)
  <2> DEFINE g == [s \in SUBSET (1..n) |-> f[s]]
  <2>1. \A s \in SUBSET (1..n) : g[s] = f[s] /\ g[s \ {Max(s)}] = f[s \ {Max(s)}]
    <3> TAKE s \in SUBSET (1..n)
    <3>1. s \ {Max(s)} \in SUBSET (1..n)
      OBVIOUS
    <3> QED BY <3>1
  <2>2. g = [s \in SUBSET (1..n) |-> g[s]]
    OBVIOUS
  <2> HIDE DEF g
  <2>3. \A s \in SUBSET (1..n) : g[s] = Step(g, s)
    BY <1>3, <2>1
  <2>4. Eq(g)
    BY <2>2, <2>3
  <2> QED BY <2>4
<1>5. FoldLeft(Reassemble, r, sns) = it[1..n]
  BY DEF FoldLeft, MapThenFoldSet
<1> HIDE DEF it
<1>6. it[1..0] = r
  <2>1. it[{}] = r /\ 1..0 = {}
    BY <1>4
  <2> QED BY <2>1
<1>7. \A i \in 1..n : it[1..i] = Reassemble(it[1..(i - 1)], sns[i])
  <2> TAKE i \in 1..n
  <2>1. Max(1..i) = i /\ (1..i) \ {i} = 1..(i - 1) /\ 1..i # {} /\ 1..i \in SUBSET (1..n)
    BY MaxOfFirst
  <2> QED BY <1>4, <2>1
<1>8. run[0] = r /\ run[n] = it[1..n]
  BY <1>6
<1>9. \A i \in 1..n : run[i] = Reassemble(run[i - 1], sns[i])
  BY <1>7
<1> HIDE DEF run
<1> QED BY <1>5, <1>8, <1>9 DEF IsRxRun

(***************************************************************************)
(* The loops of the receiver over the PDUs of a stream.                    *)
(***************************************************************************)
\* t PDUs have been sent.  Without discarding, each goes on where the one before ended.
GoodStream(s, t) ==
  /\ s.from \in [Nat -> Pos] /\ s.to \in [Nat -> Pos]
  /\ \A n \in 0 .. t - 1 : Lt(s.from[n], s.to[n])
  /\ ~DiscardByDeadline => s.from[0] = At(0) /\ \A n \in 0 .. t - 1 : s.to[n] = s.from[n + 1]

LEMMA StreamOrder ==
  ASSUME ~DiscardByDeadline, NEW t \in Nat, NEW s, GoodStream(s, t),
         NEW e \in 0..t, NEW n \in 0..t, e <= n
  PROVE  Leq(s.from[e], s.from[n])
<1> DEFINE K == {k \in 0..(n - e) : Leq(s.from[e], s.from[e + k])}
<1>1. \A i \in Nat : s.from[i] \in Pos
  BY DEF GoodStream
<1>2. 0 \in K
  <2>1. e + 0 = e /\ 0 \in 0..(n - e) /\ e \in Nat
    OBVIOUS
  <2> QED BY <1>1, <2>1, PosOrder
<1>3. \A k \in 1..(n - e) : k - 1 \in K => k \in K
  <2> SUFFICES ASSUME NEW k \in 1..(n - e), Leq(s.from[e], s.from[e + (k - 1)])
               PROVE  Leq(s.from[e], s.from[e + k])
    OBVIOUS
  <2> DEFINE m == e + (k - 1)
  <2>1. m \in 0..(t - 1) /\ m + 1 = e + k /\ m \in Nat /\ e \in Nat /\ m + 1 \in Nat
    OBVIOUS
  <2> HIDE DEF m
  <2>2. Lt(s.from[m], s.from[m + 1])
    BY <2>1 DEF GoodStream
  <2>3. Leq(s.from[e], s.from[m + 1])
    BY <1>1, <2>1, <2>2, PosOrder DEF m
  <2> QED BY <2>1, <2>3
<1>4. n - e \in K
  <2>1. n - e \in Nat /\ n - e \in 0..(n - e)
    OBVIOUS
  <2> HIDE DEF K
  <2> QED BY <1>2, <1>3, <2>1, UpTo
<1>5. e + (n - e) = n
  OBVIOUS
<1> QED BY <1>4, <1>5

\* A number of the buffer stands for one PDU, if the buffer spans less than a round.
LEMMA ReceivedIff ==
  ASSUME NEW s, NEW K \in SUBSET Int, NEW r, r.buf = PdusOf(s, K),
         NEW n \in Int, \A k \in K : k - n < M /\ n - k < M
  PROVE  /\ Received(r, Sn(n)) <=> n \in K
         /\ n \in K => PduOf(r, Sn(n)) = PduAt(s, n)
<1>1. \A k : PduAt(s, k).sn = Sn(k)
  BY PduFields DEF PduAt
<1>2. \A k \in K : Sn(k) = Sn(n) => k = n
  BY SnInjective, Widths
<1>3. \A p \in r.buf : p.sn = Sn(n) => n \in K /\ p = PduAt(s, n)
  BY <1>1, <1>2 DEF PdusOf
<1>4. n \in K => PduAt(s, n) \in r.buf
  BY DEF PdusOf
<1>5. Received(r, Sn(n)) <=> n \in K
  BY <1>1, <1>3, <1>4 DEF Received
<1>6. ASSUME n \in K PROVE PduOf(r, Sn(n)) = PduAt(s, n)
  BY <1>1, <1>3, <1>4, <1>6 DEF PduOf
<1> QED BY <1>5, <1>6

LEMMA PdusOfRemove ==
  ASSUME NEW s, NEW K \in SUBSET Int, NEW n \in Int
  PROVE  PdusOf(s, K) \ {PduAt(s, n)} = PdusOf(s, K \ {n})
<1>1. \A k : PduAt(s, k).no = k
  BY PduFields DEF PduAt
<1>2. \A k, m : PduAt(s, k) = PduAt(s, m) => k = m
  BY <1>1
<1> QED BY <1>2 DEF PdusOf

\* The receiver q when it has gone from number l up to number j, starting as r: f is the
\* PDU it expects, the first one after the last that was there.
AfterRx(s, r, q, held, e, l, j) ==
  /\ IsRx(q) /\ SameWindow(r, q) /\ q.buf = PdusOf(s, held \ (l .. j - 1))
  /\ \E f \in Nat : /\ Content(s, q, f) /\ e <= f /\ f <= j
                    /\ \/ f = e /\ \A k \in held : k >= j
                       \/ f - 1 \in held /\ f - 1 >= l
                    /\ \A k \in held : k < j => k < f
                    /\ ~DiscardByDeadline /\ e = l /\ Whole(s, r, l) /\ l .. j - 1 \subseteq held
                         => f = j /\ Whole(s, q, j)

LEMMA RxStep ==
  ASSUME NEW t \in Nat, NEW s, GoodStream(s, t), NEW held \in SUBSET (0 .. t - 1),
         NEW l \in Nat, NEW e \in Nat, e <= l, \A k \in held : l <= k /\ k < l + M,
         e = l \/ \E k \in held : k < e + M,
         NEW r, NEW j \in Nat, l <= j, j < l + M, j < t,
         NEW q, AfterRx(s, r, q, held, e, l, j)
  PROVE  AfterRx(s, r, Reassemble(q, Sn(j)), held, e, l, j + 1)
<1> DEFINE rest == held \ (l .. j - 1)
<1>1. IsRx(q) /\ SameWindow(r, q) /\ q.buf = PdusOf(s, rest)
  BY DEF AfterRx
<1>2. PICK f \in Nat : /\ Content(s, q, f) /\ e <= f /\ f <= j
                       /\ \/ f = e /\ \A k \in held : k >= j
                          \/ f - 1 \in held /\ f - 1 >= l
                       /\ \A k \in held : k < j => k < f
                       /\ ~DiscardByDeadline /\ e = l /\ Whole(s, r, l) /\ l .. j - 1 \subseteq held
                            => f = j /\ Whole(s, q, j)
  BY DEF AfterRx
<1>3. M \in Nat /\ M >= 1
  BY Widths
<1>4. rest \in SUBSET Int /\ \A k \in rest : k - j < M /\ j - k < M
  BY <1>3
<1>5. rest \ {j} = held \ (l .. (j + 1) - 1) /\ (j \in rest <=> j \in held)
  OBVIOUS
<1>6. /\ Received(q, Sn(j)) <=> j \in held
      /\ j \in held => PduOf(q, Sn(j)) = PduAt(s, j)
  <2> HIDE DEF rest
  <2> QED BY <1>1, <1>4, <1>5, ReceivedIff
<1>7. CASE j \notin held
  <2>1. Reassemble(q, Sn(j)) = q
    BY <1>6, <1>7 DEF Reassemble
  <2>2. rest = held \ (l .. (j + 1) - 1)
    BY <1>5, <1>7
  <2>3. q.buf = PdusOf(s, held \ (l .. (j + 1) - 1))
    <3> HIDE DEF rest
    <3> QED BY <1>1, <2>2
  <2>4. /\ f <= j + 1
        /\ f = e /\ (\A k \in held : k >= j) => \A k \in held : k >= j + 1
        /\ \A k \in held : k < j + 1 => k < f
        /\ ~(l .. (j + 1) - 1 \subseteq held)
    <3>1. \A k \in held : k # j
      BY <1>7
    <3>2. j \in l .. (j + 1) - 1
      OBVIOUS
    <3>3. \A k \in held : k \in Int
      OBVIOUS
    <3> QED BY <1>2, <1>7, <3>1, <3>2, <3>3
  <2> HIDE DEF rest
  <2> QED BY <1>1, <1>2, <2>1, <2>3, <2>4 DEF AfterRx
<1>8. CASE j \in held
  <2> DEFINE p == PduAt(s, j)  d == ReassembleAndDeliver(q, p)
             g == [d EXCEPT !.buf = @ \ {p}]
  <2>1. Reassemble(q, Sn(j)) = g
    BY <1>6, <1>8 DEF Reassemble
  <2>2. p.sn = Sn(j)
    BY PduFields DEF PduAt
  <2>3. IsRx(d) /\ SameWindow(q, d) /\ d.buf = q.buf /\ d.expected = Sn(j + 1)
    <3> HIDE DEF p
    <3>1. IsRx(d) /\ SameWindow(q, d) /\ d.buf = q.buf /\ d.expected = (p.sn + 1) % SnModulus
      BY <1>1, DeliverShape
    <3> QED BY <2>2, <3>1, SnNext
  <2>4. j < f + M
    <3>1. \A k \in held : k \in Int
      OBVIOUS
    <3> QED BY <1>2, <1>3, <1>8, <3>1
  <2>5. /\ ~DiscardByDeadline => Ordered(s, d, j + 1)
        /\ ~DiscardByDeadline /\ j = f /\ Whole(s, q, f) => Whole(s, d, j + 1)
    <3> SUFFICES ASSUME ~DiscardByDeadline
                 PROVE  Ordered(s, d, j + 1) /\ (j = f /\ Whole(s, q, f) => Whole(s, d, j + 1))
      OBVIOUS
    <3>1. j \in 0 .. t - 1 /\ f \in 0..t /\ j \in 0..t
      BY <1>2
    <3>2. /\ s.from[j] \in Pos /\ s.to[j] \in Pos /\ s.from[f] \in Pos
          /\ Lt(s.from[j], s.to[j]) /\ s.to[j] = s.from[j + 1]
      BY <3>1 DEF GoodStream
    <3>3. Leq(s.from[f], s.from[j])
      BY <1>2, <3>1, StreamOrder
    <3> HIDE DEF d
    <3> QED BY <1>1, <1>2, <2>4, <3>2, <3>3, DeliverOrdered DEF d, p
  <2> HIDE DEF d
  <2>6. g = [ur |-> d.ur, ux |-> d.ux, uh |-> d.uh, base |-> d.base, timer |-> d.timer,
             buf |-> d.buf \ {p}, expected |-> d.expected, waiting |-> d.waiting,
             keepS0 |-> d.keepS0, sdus |-> d.sdus, delivered |-> d.delivered]
    BY <2>3 DEF IsRx
  <2> HIDE DEF g
  <2>7. /\ IsRx(g) /\ SameWindow(r, g) /\ g.buf = q.buf \ {p} /\ g.expected = Sn(j + 1)
        /\ g.waiting = d.waiting /\ g.keepS0 = d.keepS0 /\ g.sdus = d.sdus /\ g.delivered = d.delivered
    BY <1>1, <2>3, <2>6 DEF IsRx, SameWindow
  <2>8. g.buf = PdusOf(s, held \ (l .. (j + 1) - 1))
    <3>1. q.buf \ {p} = PdusOf(s, rest \ {j})
      <4> HIDE DEF rest
      <4> QED BY <1>1, <1>4, PdusOfRemove
    <3> QED BY <1>5, <2>7, <3>1
  <2>9. /\ ~DiscardByDeadline => Ordered(s, g, j + 1)
        /\ ~DiscardByDeadline /\ j = f /\ Whole(s, q, f) => Whole(s, g, j + 1)
    BY <2>5, <2>7 DEF Ordered, Whole
  <2>10. Content(s, g, j + 1)
    BY <2>7, <2>9 DEF Content
  <2>11. /\ j + 1 \in Nat /\ e <= j + 1 /\ j + 1 <= j + 1 /\ (j + 1) - 1 \in held /\ (j + 1) - 1 >= l
         /\ \A k \in held : k < j + 1 => k < j + 1
         /\ (l .. (j + 1) - 1 \subseteq held => l .. j - 1 \subseteq held)
    BY <1>8
  <2> HIDE DEF p, rest
  <2>12. ~DiscardByDeadline /\ e = l /\ Whole(s, r, l) /\ l .. (j + 1) - 1 \subseteq held
           => j + 1 = j + 1 /\ Whole(s, g, j + 1)
    BY <1>2, <2>9, <2>11
  <2> QED BY <2>1, <2>7, <2>8, <2>10, <2>11, <2>12 DEF AfterRx
<1> QED BY <1>7, <1>8

\* What ReassembleSnInterval makes of the receiver.
LEMMA RxInterval ==
  ASSUME NEW t \in Nat, NEW s, GoodStream(s, t), NEW held \in SUBSET (0 .. t - 1),
         NEW l \in Nat, NEW e \in Nat, e <= l, \A k \in held : l <= k /\ k < l + M,
         e = l \/ \E k \in held : k < e + M,
         NEW h \in Nat, l <= h, h <= t, h < l + M,
         NEW r, IsRx(r), r.buf = PdusOf(s, held), Content(s, r, e),
         NEW base, Offset(base, Sn(h)) - Offset(base, Sn(l)) = h - l
  PROVE  AfterRx(s, r, ReassembleSnInterval(r, base, Sn(l), Sn(h)), held, e, l, h)
<1> DEFINE n == h - l  sns == [i \in 1..n |-> (Sn(l) + i - 1) % SnModulus]
<1>1. n \in Nat /\ DOMAIN sns = 1..n /\ \A i \in 1..n : sns[i] = Sn(l + (i - 1))
  <2>1. \A i \in 1..n : (Sn(l) + (i - 1)) % SnModulus = Sn(l + (i - 1)) /\ Sn(l) + (i - 1) = Sn(l) + i - 1
    BY SnNext, SnType
  <2> QED BY <2>1
<1>2. ReassembleSnInterval(r, base, Sn(l), Sn(h)) = FoldLeft(Reassemble, r, sns)
  BY DEF ReassembleSnInterval
<1> HIDE DEF sns
<1>3. PICK run : IsRxRun(run, n, r, sns)
  <2> HIDE DEF n
  <2> QED BY <1>1, RxFold
<1>4. /\ run[0] = r /\ run[n] = FoldLeft(Reassemble, r, sns)
      /\ \A i \in 1..n : run[i] = Reassemble(run[i - 1], sns[i])
  BY <1>3 DEF IsRxRun
<1> DEFINE K == {i \in 0..n : AfterRx(s, r, run[i], held, e, l, l + i)}
<1>5. 0 \in K
  <2>1. l + 0 = l /\ l .. l - 1 = {} /\ held \ {} = held /\ 0 \in 0..n
    OBVIOUS
  <2>2. AfterRx(s, r, r, held, e, l, l)
    <3>1. e <= e /\ (\A k \in held : k >= l /\ ~(k < l))
      OBVIOUS
    <3> QED BY <2>1, <3>1 DEF AfterRx, SameWindow
  <2> QED BY <1>4, <2>1, <2>2
<1>6. \A i \in 1..n : i - 1 \in K => i \in K
  <2> SUFFICES ASSUME NEW i \in 1..n, AfterRx(s, r, run[i - 1], held, e, l, l + (i - 1))
               PROVE  AfterRx(s, r, run[i], held, e, l, l + i)
    OBVIOUS
  <2> DEFINE j == l + (i - 1)
  <2>1. j \in Nat /\ l <= j /\ j < l + M /\ j < t /\ j + 1 = l + i
    BY Widths
  <2>2. run[i] = Reassemble(run[i - 1], Sn(j))
    BY <1>1, <1>4
  <2> HIDE DEF j, n
  <2>3. AfterRx(s, r, run[i - 1], held, e, l, j)
    BY DEF j
  <2>4. AfterRx(s, r, Reassemble(run[i - 1], Sn(j)), held, e, l, j + 1)
    BY <2>1, <2>3, RxStep
  <2> QED BY <2>1, <2>2, <2>4
<1>7. n \in K
  <2> HIDE DEF K, n
  <2>1. n \in 0..n
    BY <1>1
  <2> QED BY <1>1, <1>5, <1>6, <2>1, UpTo
<1>8. l + n = h
  OBVIOUS
<1> QED BY <1>2, <1>4, <1>7, <1>8

(***************************************************************************)
(* The window.  The receiver has the numbers ur, uh and e of PDUs for its  *)
(* VR(UR), VR(UH) and the expected one, and holds PDUs held, of t sent.    *)
(***************************************************************************)
WinOk(s, r, t, ur, uh, e, held) ==
  /\ IsRx(r) /\ r.ur = Sn(ur) /\ r.uh = Sn(uh) /\ r.base \in Sns /\ r.buf = PdusOf(s, held)
  /\ ur \in Nat /\ uh \in Nat /\ e \in Nat /\ e <= ur /\ ur <= uh /\ uh <= t /\ uh - W <= ur
  /\ held \in SUBSET (0 .. t - 1)
  /\ \A k \in held : ur <= k /\ k < uh /\ t - k <= W
  /\ ur < uh => uh - 1 \in held
  /\ e = ur \/ \E k \in held : k < e + M
  /\ Content(s, r, e)

\* t-Reordering runs for the gaps below ux, if there are any.
TimerOk(r, ur, ux, uh, held) ==
  /\ r.ux = Sn(ux) /\ ux \in Nat /\ r.timer \in BOOLEAN
  /\ r.timer => ur < ux /\ ux <= uh /\ ux - 1 \in held
  /\ ~r.timer => ur = uh

SameRx(r, q) ==
  /\ q.ur = r.ur /\ q.uh = r.uh /\ q.buf = r.buf /\ q.expected = r.expected
  /\ q.waiting = r.waiting /\ q.keepS0 = r.keepS0 /\ q.sdus = r.sdus /\ q.delivered = r.delivered

LEMMA ContentSame ==
  ASSUME NEW r, NEW q, q.expected = r.expected, q.waiting = r.waiting, q.keepS0 = r.keepS0,
         q.sdus = r.sdus, q.delivered = r.delivered
  PROVE  \A s, e : /\ Content(s, r, e) => Content(s, q, e)
                   /\ Whole(s, r, e) => Whole(s, q, e)
  BY DEF Content, Ordered, Whole

LEMMA WinSame ==
  ASSUME NEW s, NEW r, NEW t, NEW ur, NEW uh, NEW e, NEW held, WinOk(s, r, t, ur, uh, e, held),
         NEW q, IsRx(q), SameRx(r, q), q.base \in Sns
  PROVE  WinOk(s, q, t, ur, uh, e, held)
<1>1. Content(s, q, e)
  <2>1. Content(s, r, e)
    BY DEF WinOk
  <2> QED BY <2>1, ContentSame DEF SameRx
<1> QED BY <1>1 DEF WinOk, SameRx

LEMMA BaseOf == ASSUME NEW h \in Int PROVE Base(Sn(h)) = Sn(h - W)
<1>1. -W \in Int /\ M \in Nat \ {0}
  BY Widths
<1>2. ((h % M) + (-W)) % M = (h + (-W)) % M
  BY <1>1, ModIdem
<1>3. (h % M) + (-W) = (h % M) - W /\ h + (-W) = h - W
  BY Widths
<1> QED BY <1>2, <1>3 DEF Base, Sn, W, M

LEMMA StartTimerOk ==
  ASSUME NEW s, NEW r, NEW t \in Nat, NEW ur, NEW uh, NEW e, NEW held,
         WinOk(s, r, t, ur, uh, e, held), NEW ux \in Nat, r.ux = Sn(ux)
  PROVE  /\ WinOk(s, StartTimer(r), t, ur, uh, e, held) /\ SameRx(r, StartTimer(r))
         /\ \E x \in Nat : TimerOk(StartTimer(r), ur, x, uh, held)
<1> DEFINE q == StartTimer(r)  x == IF ur < uh THEN uh ELSE ux
           on == Offset(Base(r.uh), r.ur) < WindowSize
<1>1. /\ IsRx(r) /\ r.ur = Sn(ur) /\ r.uh = Sn(uh) /\ r.base \in Sns
      /\ ur \in Nat /\ uh \in Nat /\ ur <= uh /\ uh - W <= ur
      /\ ur < uh => uh - 1 \in held
  BY DEF WinOk
<1>2. on <=> ur < uh
  <2>1. Offset(Base(Sn(uh)), Sn(ur)) = ur - (uh - W)
    BY <1>1, OffsetOf, Widths
  <2> QED BY <1>1, <2>1, Widths DEF W
<1>3. /\ on => q = [r EXCEPT !.timer = TRUE, !.ux = r.uh]
      /\ ~on => q = [r EXCEPT !.timer = FALSE]
  BY DEF StartTimer
<1> HIDE DEF q, on
<1>4. /\ IsRx(q) /\ SameRx(r, q) /\ q.base = r.base /\ q.timer \in BOOLEAN
      /\ on => q.timer = TRUE /\ q.ux = r.uh
      /\ ~on => q.timer = FALSE /\ q.ux = r.ux
  <2>1. CASE on
    <3>1. q = [ur |-> r.ur, ux |-> r.uh, uh |-> r.uh, base |-> r.base, timer |-> TRUE,
               buf |-> r.buf, expected |-> r.expected, waiting |-> r.waiting, keepS0 |-> r.keepS0,
               sdus |-> r.sdus, delivered |-> r.delivered]
      BY <1>1, <1>3, <2>1 DEF IsRx
    <3> QED BY <2>1, <3>1 DEF IsRx, SameRx
  <2>2. CASE ~on
    <3>1. q = [ur |-> r.ur, ux |-> r.ux, uh |-> r.uh, base |-> r.base, timer |-> FALSE,
               buf |-> r.buf, expected |-> r.expected, waiting |-> r.waiting, keepS0 |-> r.keepS0,
               sdus |-> r.sdus, delivered |-> r.delivered]
      BY <1>1, <1>3, <2>2 DEF IsRx
    <3> QED BY <2>2, <3>1 DEF IsRx, SameRx
  <2> QED BY <2>1, <2>2
<1>5. WinOk(s, q, t, ur, uh, e, held)
  BY <1>1, <1>4, WinSame
<1>7. x \in Nat /\ TimerOk(q, ur, x, uh, held)
  <2>1. q.timer \in BOOLEAN /\ (q.timer <=> ur < uh)
    BY <1>2, <1>4
  <2>2. q.ux = Sn(x)
    BY <1>1, <1>2, <1>4
  <2> QED BY <1>1, <2>1, <2>2 DEF TimerOk
<1> HIDE DEF x
<1>8. WinOk(s, q, t, ur, uh, e, held) /\ SameRx(r, q) /\ \E z \in Nat : TimerOk(q, ur, z, uh, held)
  BY <1>4, <1>5, <1>7
<1> QED BY <1>8 DEF q

\* What remains of TimerOk while the window moves on.
TimerLoose(r, ur, ux, uh, held) ==
  /\ r.ux = Sn(ux) /\ ux \in Nat /\ r.timer \in BOOLEAN
  /\ r.timer => ux <= uh /\ uh - W <= ux /\ (ux <= ur \/ ux - 1 \in held)

LEMMA UpdateTimerOk ==
  ASSUME NEW s, NEW r, NEW t \in Nat, NEW ur, NEW uh, NEW e, NEW held,
         WinOk(s, r, t, ur, uh, e, held), NEW ux \in Nat, TimerLoose(r, ur, ux, uh, held)
  PROVE  /\ WinOk(s, UpdateTimer(r), t, ur, uh, e, held) /\ SameRx(r, UpdateTimer(r))
         /\ \E x \in Nat : TimerOk(UpdateTimer(r), ur, x, uh, held)
<1>1. /\ r.ur = Sn(ur) /\ r.uh = Sn(uh)
      /\ ur \in Nat /\ uh \in Nat /\ ur <= uh /\ uh - W <= ur
  BY DEF WinOk
<1>2. r.ux = Sn(ux) /\ r.timer \in BOOLEAN
  BY DEF TimerLoose
<1>3. CASE r.timer /\ ~StopsTimer(r)
  <2>1. UpdateTimer(r) = r
    BY <1>3 DEF UpdateTimer
  <2>2. ux <= uh /\ uh - W <= ux /\ (ux <= ur \/ ux - 1 \in held)
    BY <1>3 DEF TimerLoose
  <2>3. Offset(Base(Sn(uh)), Sn(ur)) = ur - (uh - W) /\ Offset(Base(Sn(uh)), Sn(ux)) = ux - (uh - W)
    BY <1>1, <2>2, OffsetOf, Widths
  <2>4. ~(Offset(Base(r.uh), r.ux) <= Offset(Base(r.uh), r.ur))
    BY <1>3 DEF StopsTimer
  <2>5. ur < ux
    BY <1>1, <1>2, <2>2, <2>3, <2>4, Widths
  <2>6. TimerOk(r, ur, ux, uh, held)
    BY <1>1, <1>2, <1>3, <2>2, <2>5 DEF TimerOk
  <2> QED BY <2>1, <2>6 DEF SameRx
<1>4. CASE ~(r.timer /\ ~StopsTimer(r))
  <2>1. UpdateTimer(r) = StartTimer(r)
    BY <1>4 DEF UpdateTimer
  <2> QED BY <1>2, <2>1, StartTimerOk
<1> QED BY <1>3, <1>4

\* A PDU is discarded exactly when the window is past it.
LEMMA DiscardedIff ==
  ASSUME NEW s, NEW r, NEW t \in Nat, NEW ur, NEW uh, NEW e, NEW held,
         WinOk(s, r, t, ur, uh, e, held),
         NEW n \in Nat, n < t, t - n <= W, t <= uh + W, n \notin held
  PROVE  IsDiscarded(r, Sn(n)) <=> n < ur
<1>1. /\ r.ur = Sn(ur) /\ r.uh = Sn(uh) /\ r.buf = PdusOf(s, held)
      /\ ur \in Nat /\ uh \in Nat /\ ur <= uh /\ uh <= t /\ uh - W <= ur
      /\ held \in SUBSET Int /\ \A k \in held : k < uh /\ t - k <= W
  BY DEF WinOk
<1>2. ~Received(r, Sn(n))
  <2>1. \A k \in held : k - n < M /\ n - k < M
    BY <1>1, Widths
  <2> QED BY <1>1, <2>1, ReceivedIff
<1>3. Offset(Base(Sn(uh)), Sn(ur)) = ur - (uh - W) /\ Offset(Base(Sn(uh)), Sn(n)) = n - (uh - W)
  BY <1>1, OffsetOf, Widths
<1>4. IsDiscarded(r, Sn(n)) <=> Offset(Base(Sn(uh)), Sn(n)) < Offset(Base(Sn(uh)), Sn(ur))
  BY <1>1, <1>2 DEF IsDiscarded
<1> QED BY <1>1, <1>3, <1>4, Widths

\* When every PDU held is inside the window, none is taken out by force.
LEMMA NothingOutside ==
  ASSUME NEW s, NEW K \in SUBSET Nat, NEW r, r.buf = PdusOf(s, K), K # {},
         \A k \in K : IsInsideReorderingWindow(r.uh, Sn(k))
  PROVE  ReassembleOutsideWindow(r) = r
<1> DEFINE inside == {p.sn : p \in {q \in r.buf : IsInsideReorderingWindow(r.uh, q.sn)}}
           stop == CHOOSE n \in inside : \A m \in inside : n <= m
           sns == [i \in 1..stop |-> i - 1]
<1>1. \A k : PduAt(s, k).sn = Sn(k)
  BY PduFields DEF PduAt
<1>2. /\ \A p \in r.buf : p.sn \in inside /\ p.sn \in Nat
      /\ \A n \in inside : n \in Nat
  <2>1. \A p \in r.buf : p.sn \in Nat /\ IsInsideReorderingWindow(r.uh, p.sn)
    <3> SUFFICES ASSUME NEW p \in r.buf PROVE p.sn \in Nat /\ IsInsideReorderingWindow(r.uh, p.sn)
      OBVIOUS
    <3>1. PICK k \in K : p = PduAt(s, k)
      BY DEF PdusOf
    <3>2. Sn(k) \in Nat
      BY SnType DEF Sns
    <3> QED BY <1>1, <3>1, <3>2
  <2> QED BY <2>1
<1>3. inside # {} /\ inside \in SUBSET Nat
  <2>1. PICK k \in K : TRUE
    OBVIOUS
  <2>2. PduAt(s, k) \in r.buf
    BY DEF PdusOf
  <2> HIDE DEF inside
  <2> QED BY <1>2, <2>2
<1>4. stop \in inside /\ \A m \in inside : stop <= m
  <2>1. \E n \in inside : \A m \in inside : n <= m
    <3> HIDE DEF inside
    <3> QED BY <1>3, LeastNat
  <2> HIDE DEF inside
  <2> QED BY <2>1
<1>5. ReassembleOutsideWindow(r) = FoldLeft(Reassemble, r, sns)
  BY DEF ReassembleOutsideWindow
<1> HIDE DEF stop, inside
<1>6. stop \in Nat /\ DOMAIN sns = 1..stop /\ \A i \in 1..stop : sns[i] = i - 1
  BY <1>3, <1>4
<1>7. \A i \in 1..stop : Reassemble(r, sns[i]) = r
  <2> SUFFICES ASSUME NEW i \in 1..stop PROVE ~Received(r, sns[i])
    BY DEF Reassemble
  <2>1. \A p \in r.buf : stop <= p.sn /\ p.sn \in Nat
    BY <1>2, <1>4
  <2>2. sns[i] < stop /\ sns[i] \in Nat
    BY <1>6
  <2> HIDE DEF sns
  <2> QED BY <1>6, <2>1, <2>2 DEF Received
<1> HIDE DEF sns
<1>8. PICK run : IsRxRun(run, stop, r, sns)
  BY <1>6, RxFold
<1>9. /\ run[0] = r /\ run[stop] = FoldLeft(Reassemble, r, sns)
      /\ \A i \in 1..stop : run[i] = Reassemble(run[i - 1], sns[i])
  BY <1>8 DEF IsRxRun
<1> DEFINE T == {i \in 0..stop : run[i] = r}
<1>10. 0 \in T /\ \A i \in 1..stop : i - 1 \in T => i \in T
  <2>1. 0 \in 0..stop
    BY <1>6
  <2>2. ASSUME NEW i \in 1..stop, run[i - 1] = r PROVE run[i] = r
    BY <1>7, <1>9, <2>2
  <2> QED BY <1>9, <2>1, <2>2
<1>11. stop \in T
  <2> HIDE DEF T
  <2>1. stop \in 0..stop
    BY <1>6
  <2> QED BY <1>6, <1>10, <2>1, UpTo
<1> QED BY <1>5, <1>9, <1>11

LEMMA SnRound == ASSUME NEW n \in Int PROVE Sn(n + M) = Sn(n)
<1> DEFINE q == n \div M  x == n % M
<1>1. n = M * q + x /\ q \in Int /\ x \in 0 .. M - 1 /\ M \in Nat \ {0}
  BY Division, Widths
<1> HIDE DEF q, x
<1>2. M * (q + 1) = M * q + M /\ q + 1 \in Int
  BY <1>1
<1>3. n + M = M * (q + 1) + x /\ n + M \in Int
  BY <1>1, <1>2
<1>4. (n + M) % M = x
  BY <1>1, <1>2, <1>3, Remainder
<1> QED BY <1>4 DEF Sn, x

LEMMA OffsetFrom ==
  ASSUME NEW b \in Int, NEW n \in Int, b <= n, n < b + M
  PROVE  Offset(Sn(b), Sn(n)) = n - b
<1>1. n - b \in 0 .. M - 1
  BY Widths
<1>2. ((n % M) - (b % M)) % M = n - b
  BY <1>1, Widths, ModDistance
<1> QED BY <1>2 DEF Offset, Sn, M

\* The numbers of the modulus base fit what AdvanceUr reassembles.
BaseOk(r, ur, uh, held) ==
  \E b \in Int : /\ r.base = Sn(b) /\ b <= ur
                 /\ \A n \in Int : ur < n /\ n <= uh /\ ur .. n - 1 \subseteq held => n < b + M

\* PDU n is among those held, and the window has moved up to it.
AfterMove(s, r, q, t, ur, uh, e, K, n, u, h) ==
  /\ WinOk(s, q, t, u, h, e, K) /\ BaseOk(q, u, h, K)
  /\ q.timer = r.timer /\ q.ux = r.ux
  /\ \A k \in Nat : Whole(s, r, k) => Whole(s, q, k)
  /\ uh <= h /\ n < h /\ ur <= u /\ (u = ur \/ t - ur > W)

\* A new PDU n is placed, and the window moves up to it.
LEMMA PlacedOk ==
  ASSUME NEW s, NEW r, NEW t \in Nat, NEW ur, NEW uh, NEW e, NEW held,
         WinOk(s, r, t, ur, uh, e, held),
         NEW n \in Nat, ur <= n, n < t, t - n <= W, t <= uh + W, n \notin held,
         NEW q, q = Placed(r, PduAt(s, n))
  PROVE  \E u, h \in Nat : AfterMove(s, r, q, t, ur, uh, e, held \cup {n}, n, u, h)
<1>0. W \in Nat /\ W >= 2 /\ M = 2 * W /\ M \in Nat \ {0}
  BY Widths
<1>1. /\ IsRx(r) /\ r.ur = Sn(ur) /\ r.uh = Sn(uh) /\ r.base \in Sns /\ r.buf = PdusOf(s, held)
      /\ ur \in Nat /\ uh \in Nat /\ e \in Nat /\ e <= ur /\ ur <= uh /\ uh <= t /\ uh - W <= ur
      /\ held \in SUBSET (0 .. t - 1)
      /\ \A k \in held : ur <= k /\ k < uh /\ t - k <= W
      /\ ur < uh => uh - 1 \in held
      /\ e = ur \/ \E k \in held : k < e + M
      /\ Content(s, r, e)
  BY DEF WinOk
<1> DEFINE K == held \cup {n}  p == PduAt(s, n)
           r1 == [r EXCEPT !.buf = {g \in @ : g.sn # p.sn} \cup {p}, !.base = Base(r.uh)]
<1>2. p.sn = Sn(n)
  BY PduFields DEF PduAt
<1>3. {g \in r.buf : g.sn # p.sn} \cup {p} = PdusOf(s, K)
  <2>1. ~Received(r, Sn(n))
    <3>1. held \in SUBSET Int /\ \A k \in held : k - n < M /\ n - k < M
      BY <1>0, <1>1
    <3> QED BY <1>1, <3>1, ReceivedIff
  <2>2. \A g \in r.buf : g.sn # p.sn
    BY <1>2, <2>1 DEF Received
  <2>3. PdusOf(s, K) = PdusOf(s, held) \cup {p}
    BY DEF PdusOf
  <2> QED BY <1>1, <2>2, <2>3
<1> DEFINE b == uh - W
<1>4. r1 = [ur |-> r.ur, ux |-> r.ux, uh |-> r.uh, base |-> Sn(b), timer |-> r.timer,
            buf |-> PdusOf(s, K), expected |-> r.expected, waiting |-> r.waiting,
            keepS0 |-> r.keepS0, sdus |-> r.sdus, delivered |-> r.delivered]
  <2>1. Base(r.uh) = Sn(b)
    BY <1>1, BaseOf
  <2>2. r1 = [r EXCEPT !.buf = PdusOf(s, K), !.base = Sn(b)]
    BY <1>3, <2>1
  <2> HIDE DEF r1, K
  <2> QED BY <1>1, <2>2 DEF IsRx
<1>5. q = MoveWindow(r1, Sn(n))
  BY <1>2 DEF Placed
<1>6. b \in Int /\ Sn(b) \in Sns
  BY <1>0, <1>1, SnType
<1> HIDE DEF r1, p
<1>7. /\ K \in SUBSET (0 .. t - 1) /\ n \in K /\ K \in SUBSET Nat
      /\ \A k \in K : ur <= k /\ t - k <= W /\ (k < uh \/ k = n)
  <2>1. n \in 0 .. t - 1
    OBVIOUS
  <2>2. K \in SUBSET (0 .. t - 1)
    BY <1>1, <2>1
  <2>3. K \in SUBSET Nat
    BY <2>2
  <2>4. \A k \in K : k \in held \/ k = n
    OBVIOUS
  <2> HIDE DEF K
  <2>5. \A k \in K : ur <= k /\ t - k <= W /\ (k < uh \/ k = n)
    BY <1>1, <2>4
  <2> QED BY <2>2, <2>3, <2>5 DEF K
<1>8. IsInsideReorderingWindow(Sn(uh), Sn(n)) <=> n < uh
  BY <1>0, <1>1, Inside
<1>9. CASE n < uh
  <2>1. q = r1
    BY <1>1, <1>4, <1>5, <1>8, <1>9 DEF MoveWindow
  <2>2. /\ IsRx(q) /\ q.ur = r.ur /\ q.ux = r.ux /\ q.uh = r.uh /\ q.base = Sn(b)
        /\ q.timer = r.timer /\ q.buf = PdusOf(s, K)
        /\ q.expected = r.expected /\ q.waiting = r.waiting /\ q.keepS0 = r.keepS0
        /\ q.sdus = r.sdus /\ q.delivered = r.delivered
    BY <1>4, <2>1 DEF IsRx
  <2> HIDE DEF b
  <2>3. WinOk(s, q, t, ur, uh, e, K)
    <3>1. Content(s, q, e)
      BY <1>1, <2>2, ContentSame
    <3>2. /\ \A k \in K : ur <= k /\ k < uh /\ t - k <= W
          /\ ur < uh => uh - 1 \in K
          /\ e = ur \/ \E k \in K : k < e + M
      BY <1>1, <1>7, <1>9
    <3> HIDE DEF K
    <3> QED BY <1>1, <1>6, <1>7, <2>2, <3>1, <3>2 DEF WinOk
  <2>4. BaseOk(q, ur, uh, K)
    <3>1. b <= ur /\ \A m \in Int : m <= uh => m < b + M
      BY <1>0, <1>1 DEF b
    <3> QED BY <1>6, <2>2, <3>1 DEF BaseOk
  <2>5. \A k \in Nat : Whole(s, r, k) => Whole(s, q, k)
    BY <2>2, ContentSame
  <2> HIDE DEF K
  <2>6. uh <= uh /\ ur <= ur /\ (ur = ur \/ t - ur > W)
    BY <1>1
  <2> QED BY <1>1, <1>9, <2>2, <2>3, <2>4, <2>5, <2>6 DEF K, AfterMove
<1>10. CASE ~(n < uh)
  <2> DEFINE h == n + 1  r2 == [r1 EXCEPT !.uh = (Sn(n) + 1) % SnModulus]
             in == IsInsideReorderingWindow(r2.uh, r1.ur)
  <2>1. r2 = [ur |-> r.ur, ux |-> r.ux, uh |-> Sn(h), base |-> Sn(b), timer |-> r.timer,
              buf |-> PdusOf(s, K), expected |-> r.expected, waiting |-> r.waiting,
              keepS0 |-> r.keepS0, sdus |-> r.sdus, delivered |-> r.delivered]
    <3>1. (Sn(n) + 1) % SnModulus = Sn(h)
      BY SnNext
    <3> HIDE DEF K, b, h
    <3> QED BY <1>4, <3>1
  <2> HIDE DEF r2, b
  <2>2. h \in Nat /\ h <= t /\ h - W <= n /\ uh < h /\ n < h /\ h - W \in Int
    BY <1>0, <1>1, <1>10
  <2>3. ReassembleOutsideWindow(r2) = r2
    <3>1. \A k \in K : h - W <= k /\ k < h /\ k \in Int
      BY <1>0, <1>1, <1>7, <2>2
    <3>2. \A k \in K : IsInsideReorderingWindow(r2.uh, Sn(k))
      <4> TAKE k \in K
      <4>1. h \in Int /\ k \in Int /\ h - W <= k /\ k < h /\ k < h + W
        BY <1>0, <2>2, <3>1
      <4> HIDE DEF h, K
      <4>2. IsInsideReorderingWindow(Sn(h), Sn(k))
        BY <4>1, Inside
      <4> QED BY <2>1, <4>2
    <3>3. r2.buf = PdusOf(s, K) /\ K # {}
      BY <1>7, <2>1
    <3> HIDE DEF K, h
    <3> QED BY <1>7, <3>2, <3>3, NothingOutside
  <2>4. q = IF in THEN r2 ELSE [r2 EXCEPT !.ur = Base(r2.uh), !.base = Base(r2.uh)]
    <3>1. r1.uh = r.uh
      BY <1>4
    <3>2. ~IsInsideReorderingWindow(r1.uh, Sn(n))
      BY <1>1, <1>8, <1>10, <3>1
    <3> QED BY <1>5, <2>3, <3>2 DEF MoveWindow, r2
  <2>5. in <=> h - W <= ur
    <3>1. in <=> IsInsideReorderingWindow(Sn(h), Sn(ur))
      BY <1>1, <1>4, <2>1
    <3> HIDE DEF in
    <3>2. CASE h - W <= ur
      <4>1. ur < h /\ ur < h + W /\ h \in Int /\ ur \in Int
        BY <1>0, <1>1, <2>2
      <4> HIDE DEF h
      <4> QED BY <3>1, <3>2, <4>1, Inside
    <3>3. CASE ~(h - W <= ur)
      <4> DEFINE m == ur + M
      <4>1. h - W <= m /\ m < h + W /\ ~(m < h) /\ h \in Int /\ m \in Int
        BY <1>0, <1>1, <2>2, <3>3
      <4>2. Sn(m) = Sn(ur)
        BY <1>1, SnRound
      <4> HIDE DEF h, m
      <4>3. ~IsInsideReorderingWindow(Sn(h), Sn(m))
        BY <4>1, Inside
      <4> QED BY <3>1, <3>3, <4>2, <4>3
    <3> QED BY <3>2, <3>3
  <2> HIDE DEF in
  <2> DEFINE u == IF in THEN ur ELSE h - W  c == IF in THEN b ELSE h - W
  <2>6. /\ IsRx(q) /\ q.ur = Sn(u) /\ q.ux = r.ux /\ q.uh = Sn(h) /\ q.base = Sn(c)
        /\ q.timer = r.timer /\ q.buf = PdusOf(s, K)
        /\ q.expected = r.expected /\ q.waiting = r.waiting /\ q.keepS0 = r.keepS0
        /\ q.sdus = r.sdus /\ q.delivered = r.delivered
    <3> HIDE DEF K
    <3>1. CASE in
      <4>1. q = r2
        BY <2>4, <3>1
      <4> HIDE DEF h
      <4> QED BY <1>1, <2>1, <3>1, <4>1 DEF IsRx
    <3>2. CASE ~in
      <4>1. Base(r2.uh) = Sn(h - W)
        <5>1. r2.uh = Sn(h) /\ h \in Int
          BY <2>1, <2>2
        <5> HIDE DEF h
        <5> QED BY <5>1, BaseOf
      <4> DEFINE v == Sn(h - W)
      <4>2. q = [r2 EXCEPT !.ur = v, !.base = v]
        BY <2>4, <3>2, <4>1
      <4>3. Sn(u) = v /\ Sn(c) = v
        BY <3>2
      <4> HIDE DEF v, u, c, h
      <4>4. q = [ur |-> v, ux |-> r.ux, uh |-> Sn(h), base |-> v, timer |-> r.timer,
                 buf |-> PdusOf(s, K), expected |-> r.expected, waiting |-> r.waiting,
                 keepS0 |-> r.keepS0, sdus |-> r.sdus, delivered |-> r.delivered]
        BY <2>1, <4>2
      <4> QED BY <4>3, <4>4 DEF IsRx
    <3> QED BY <3>1, <3>2
  <2>7. /\ u \in Nat /\ ur <= u /\ u <= h /\ h - W <= u /\ c \in Int /\ c <= u
        /\ u = ur \/ t - ur > W
        /\ \A k \in K : u <= k /\ k < h
    <3>1. CASE in
      BY <1>0, <1>1, <1>6, <1>7, <2>2, <2>5, <3>1 DEF b
    <3>2. CASE ~in
      BY <1>0, <1>1, <1>7, <2>2, <2>5, <3>2
    <3> QED BY <3>1, <3>2
  <2>8. Sn(c) \in Sns
    <3> HIDE DEF c
    <3> QED BY <2>7, SnType
  <2>9. e = u \/ \E k \in K : k < e + M
    <3>1. CASE e = ur
      <4>1. CASE held = {}
        <5>1. uh = ur
          BY <1>1, <4>1
        <5>2. n \in K /\ n < e + M
          BY <1>0, <1>1, <1>7, <3>1, <5>1
        <5> QED BY <5>2
      <4>2. CASE held # {}
        <5>1. PICK k \in held : TRUE
          BY <4>2
        <5>2. k \in K /\ k < e + M
          BY <1>0, <1>1, <3>1
        <5> QED BY <5>2
      <4> QED BY <4>1, <4>2
    <3>2. CASE \E k \in held : k < e + M
      BY <3>2
    <3> QED BY <1>1, <3>1, <3>2
  <2>10. WinOk(s, q, t, u, h, e, K)
    <3>1. Content(s, q, e)
      BY <1>1, <2>6, ContentSame
    <3>2. h - 1 \in K /\ (\A k \in K : u <= k /\ k < h /\ t - k <= W) /\ e <= u
      BY <1>1, <1>7, <2>7
    <3> HIDE DEF K, h, u, c
    <3> QED BY <1>1, <1>7, <2>2, <2>6, <2>7, <2>8, <2>9, <3>1, <3>2 DEF WinOk
  <2>11. BaseOk(q, u, h, K)
    <3>1. ASSUME NEW m \in Int, u < m, m <= h, u .. m - 1 \subseteq K PROVE m < c + M
      <4>1. CASE in
        <5>1. CASE m <= uh
          BY <1>0, <1>1, <4>1, <5>1 DEF b
        <5>2. CASE ~(m <= uh)
          <6>1. uh \in u .. m - 1
            BY <1>1, <3>1, <4>1, <5>2
          <6>2. uh = n
            BY <1>1, <3>1, <6>1
          <6> QED BY <1>0, <1>1, <3>1, <4>1, <6>2 DEF b
        <5> QED BY <5>1, <5>2
      <4>2. CASE ~in
        BY <1>0, <2>2, <3>1, <4>2
      <4> QED BY <4>1, <4>2
    <3> HIDE DEF K, h, u, c
    <3> QED BY <2>6, <2>7, <3>1 DEF BaseOk
  <2>12. \A k \in Nat : Whole(s, r, k) => Whole(s, q, k)
    BY <2>6, ContentSame
  <2>13. uh <= h
    BY <1>1, <2>2
  <2> HIDE DEF K, h, u
  <2> QED BY <2>2, <2>6, <2>7, <2>10, <2>11, <2>12, <2>13 DEF K, AfterMove
<1> QED BY <1>9, <1>10

\* Reassembling from VR(UR) up to h, the number after a PDU that is held.
LEMMA IntervalOk ==
  ASSUME NEW s, NEW r, NEW t \in Nat, NEW ur, NEW uh, NEW e, NEW held,
         GoodStream(s, t), WinOk(s, r, t, ur, uh, e, held),
         NEW h \in Nat, ur < h, h <= uh, h - 1 \in held,
         NEW base, Offset(base, Sn(h)) - Offset(base, Sn(ur)) = h - ur,
         NEW q, q = ReassembleSnInterval([r EXCEPT !.ur = Sn(h)], base, Sn(ur), Sn(h))
  PROVE  /\ WinOk(s, q, t, h, uh, h, held \ (ur .. h - 1))
         /\ q.timer = r.timer /\ q.ux = r.ux
         /\ ~DiscardByDeadline /\ e = ur /\ Whole(s, r, ur) /\ ur .. h - 1 \subseteq held
              => Whole(s, q, h)
<1> DEFINE r1 == [r EXCEPT !.ur = Sn(h)]  K == held \ (ur .. h - 1)
<1>0. W \in Nat /\ W >= 2 /\ M = 2 * W
  BY Widths
<1>1. /\ IsRx(r) /\ r.ur = Sn(ur) /\ r.uh = Sn(uh) /\ r.base \in Sns /\ r.buf = PdusOf(s, held)
      /\ ur \in Nat /\ uh \in Nat /\ e \in Nat /\ e <= ur /\ ur <= uh /\ uh <= t /\ uh - W <= ur
      /\ held \in SUBSET (0 .. t - 1)
      /\ \A k \in held : ur <= k /\ k < uh /\ t - k <= W
      /\ ur < uh => uh - 1 \in held
      /\ e = ur \/ \E k \in held : k < e + M
      /\ Content(s, r, e)
  BY DEF WinOk
<1>2. r1 = [ur |-> Sn(h), ux |-> r.ux, uh |-> r.uh, base |-> r.base, timer |-> r.timer,
            buf |-> r.buf, expected |-> r.expected, waiting |-> r.waiting, keepS0 |-> r.keepS0,
            sdus |-> r.sdus, delivered |-> r.delivered]
  BY <1>1 DEF IsRx
<1> HIDE DEF r1
<1>3. /\ IsRx(r1) /\ r1.ur = Sn(h) /\ r1.ux = r.ux /\ r1.uh = r.uh /\ r1.base = r.base
      /\ r1.timer = r.timer /\ r1.buf = r.buf
      /\ Content(s, r1, e) /\ (\A k : Whole(s, r, k) => Whole(s, r1, k))
  <2>1. /\ IsRx(r1) /\ r1.ur = Sn(h) /\ r1.ux = r.ux /\ r1.uh = r.uh /\ r1.base = r.base
        /\ r1.timer = r.timer /\ r1.buf = r.buf /\ r1.expected = r.expected
        /\ r1.waiting = r.waiting /\ r1.keepS0 = r.keepS0 /\ r1.sdus = r.sdus
        /\ r1.delivered = r.delivered
    BY <1>2 DEF IsRx
  <2> QED BY <1>1, <2>1, ContentSame
<1>4. AfterRx(s, r1, q, held, e, ur, h)
  <2>1. q = ReassembleSnInterval(r1, base, Sn(ur), Sn(h))
    BY DEF r1
  <2>2. \A k \in held : ur <= k /\ k < ur + M
    BY <1>0, <1>1
  <2>3. h < ur + M /\ ur <= h /\ h <= t
    BY <1>0, <1>1
  <2>4. r1.buf = PdusOf(s, held)
    BY <1>1, <1>3
  <2> QED BY <1>1, <1>3, <2>1, <2>2, <2>3, <2>4, RxInterval
<1>5. PICK f \in Nat : /\ Content(s, q, f) /\ e <= f /\ f <= h
                       /\ \A k \in held : k < h => k < f
                       /\ ~DiscardByDeadline /\ e = ur /\ Whole(s, r1, ur) /\ ur .. h - 1 \subseteq held
                            => f = h /\ Whole(s, q, h)
  BY <1>4 DEF AfterRx
<1>6. f = h
  BY <1>5
<1>7. /\ IsRx(q) /\ q.ur = Sn(h) /\ q.uh = Sn(uh) /\ q.base \in Sns /\ q.buf = PdusOf(s, K)
      /\ q.timer = r.timer /\ q.ux = r.ux
  BY <1>1, <1>3, <1>4 DEF AfterRx, SameWindow
<1>8. /\ K \in SUBSET (0 .. t - 1)
      /\ \A k \in K : h <= k /\ k < uh /\ t - k <= W
      /\ h < uh => uh - 1 \in K
      /\ h <= h /\ uh - W <= h
  BY <1>0, <1>1
<1> HIDE DEF K
<1>9. WinOk(s, q, t, h, uh, h, K)
  BY <1>1, <1>5, <1>6, <1>7, <1>8 DEF WinOk
<1> QED BY <1>3, <1>5, <1>7, <1>9 DEF K

\* VR(UR) has advanced to u over PDUs that were held, and what they complete is delivered.
AfterAdvance(s, r, q, t, ur, uh, e, held, u, f) ==
  /\ WinOk(s, q, t, u, uh, f, held \ (ur .. u - 1))
  /\ q.timer = r.timer /\ q.ux = r.ux
  /\ ur <= u /\ ur .. u - 1 \subseteq held /\ (e = ur => f = u)
  /\ ~DiscardByDeadline /\ e = ur /\ Whole(s, r, ur) => Whole(s, q, u)

\* The window after a PDU was placed, when VR(UR) has advanced.
LEMMA AdvanceOk ==
  ASSUME NEW s, NEW r, NEW t \in Nat, NEW ur, NEW uh, NEW e, NEW held,
         GoodStream(s, t), WinOk(s, r, t, ur, uh, e, held), BaseOk(r, ur, uh, held),
         NEW q, q = AdvanceUr(r)
  PROVE  \E u, f \in Nat : AfterAdvance(s, r, q, t, ur, uh, e, held, u, f)
<1>0. W \in Nat /\ W >= 2 /\ M = 2 * W
  BY Widths
<1>1. /\ r.ur = Sn(ur) /\ r.buf = PdusOf(s, held)
      /\ ur \in Nat /\ uh \in Nat /\ e \in Nat /\ ur <= uh /\ uh <= t /\ uh - W <= ur
      /\ held \in SUBSET (0 .. t - 1) /\ held \in SUBSET Int
      /\ \A k \in held : ur <= k /\ k < uh
  BY DEF WinOk
<1>2. \A n \in Int : ur <= n /\ n < ur + M => (Received(r, Sn(n)) <=> n \in held)
  <2> TAKE n \in Int
  <2> SUFFICES ASSUME ur <= n, n < ur + M PROVE Received(r, Sn(n)) <=> n \in held
    OBVIOUS
  <2>1. \A k \in held : k - n < M /\ n - k < M
    BY <1>0, <1>1
  <2> QED BY <1>1, <2>1, ReceivedIff
<1>3. CASE ur \notin held
  <2>1. q = r
    <3>1. ~Received(r, r.ur)
      BY <1>0, <1>1, <1>2, <1>3
    <3> QED BY <3>1 DEF AdvanceUr
  <2>2. ur .. ur - 1 = {} /\ held \ {} = held /\ ur <= ur
    BY <1>1
  <2>3. AfterAdvance(s, r, q, t, ur, uh, e, held, ur, e)
    BY <1>1, <2>1, <2>2 DEF AfterAdvance
  <2> QED BY <1>1, <2>3
<1>4. CASE ur \in held
  <2> DEFINE a == Sn(ur)
             First(n) == ~Received(r, n) /\ \A m \in a + 1 .. n - 1 : Received(r, m)
             c == CHOOSE n \in a + 1 .. SnModulus : First(n)
             h == ur + (c - a)
  <2>1. a \in 0 .. M - 1 /\ M = SnModulus /\ M \in Nat
    BY <1>0, <1>1, SnType DEF Sns, M
  <2>2. \A m \in a .. M - 1 : m = Sn(ur + (m - a))
    <3> TAKE m \in a .. M - 1
    <3>0. ur \in Int /\ m - a \in Int
      BY <1>1, <2>1
    <3>1. (a + (m - a)) % SnModulus = Sn(ur + (m - a))
      BY <3>0, SnNext
    <3>2. a + (m - a) = m /\ m % SnModulus = m
      BY <2>1
    <3> QED BY <3>1, <3>2
  <2>3. c \in a + 1 .. M /\ First(c)
    <3> DEFINE D == {n \in a + 1 .. M : ~Received(r, n)}
    <3>1. M \in D
      <4>1. \A p \in r.buf : p.sn \in 0 .. M - 1
        <5> SUFFICES ASSUME NEW k \in held PROVE PduAt(s, k).sn \in 0 .. M - 1
          BY <1>1 DEF PdusOf
        <5>1. PduAt(s, k).sn = Sn(k)
          BY PduFields DEF PduAt
        <5> QED BY <1>1, <2>1, <5>1, SnType DEF Sns
      <4>2. ~Received(r, M)
        <5>1. \A p \in r.buf : p.sn # M
          BY <2>1, <4>1
        <5> QED BY <5>1 DEF Received
      <4> HIDE DEF a
      <4> QED BY <2>1, <4>2
    <3>2. PICK n \in D : \A m \in D : n <= m
      <4>1. D \in SUBSET Nat
        BY <2>1
      <4> HIDE DEF D
      <4> QED BY <3>1, <4>1, LeastNat
    <3>3. First(n)
      <4>1. \A m \in a + 1 .. n - 1 : m \in a + 1 .. M /\ ~(n <= m)
        BY <2>1
      <4> HIDE DEF a
      <4> QED BY <3>2, <4>1
    <3>4. n \in a + 1 .. SnModulus
      BY <2>1
    <3>5. \E x \in a + 1 .. SnModulus : First(x)
      BY <3>3, <3>4
    <3> HIDE DEF First, a, D
    <3> QED BY <2>1, <3>5
  <2> HIDE DEF c, a
  <2>4. h \in Nat /\ ur < h
    BY <1>1, <2>1, <2>3
  <2>5. FirstMissingAfter(r, r.ur) = Sn(h)
    <3>1. FirstMissingAfter(r, r.ur) = c % SnModulus
      BY <1>1 DEF FirstMissingAfter, c, a
    <3>2. (a + (c - a)) % SnModulus = Sn(h)
      <4> DEFINE d == c - a
      <4>1. d \in Int /\ ur \in Int
        BY <1>1, <2>1, <2>3
      <4> HIDE DEF d
      <4>2. (Sn(ur) + d) % SnModulus = Sn(ur + d)
        BY <4>1, SnNext
      <4> QED BY <4>2 DEF a, d
    <3>3. a + (c - a) = c
      BY <2>1, <2>3
    <3> QED BY <3>1, <3>2, <3>3
  <2>6. ur .. h - 1 \subseteq held
    <3> SUFFICES ASSUME NEW n \in ur .. h - 1 PROVE n \in held
      OBVIOUS
    <3> DEFINE m == a + (n - ur)
    <3>1. m \in a .. c - 1 /\ m - a = n - ur
      BY <1>1, <2>1, <2>3
    <3>2. n = ur \/ m \in a + 1 .. c - 1
      BY <1>1, <2>1, <3>1
    <3>3. m = Sn(n)
      <4>1. m \in a .. M - 1 /\ ur + (m - a) = n
        BY <1>1, <2>1, <2>3, <3>1
      <4> HIDE DEF m
      <4> QED BY <2>2, <4>1
    <3>4. ur <= n /\ n < ur + M /\ n \in Int
      BY <1>1, <2>1, <2>3
    <3> HIDE DEF m, h
    <3> QED BY <1>2, <1>4, <2>3, <3>2, <3>3, <3>4
  <2> HIDE DEF h
  <2>7. h - 1 \in held /\ h <= uh
    <3>1. h - 1 \in ur .. h - 1 /\ h - 1 \in held
      BY <1>1, <2>4, <2>6
    <3> QED BY <1>1, <2>4, <3>1
  <2>8. Offset(r.base, Sn(h)) - Offset(r.base, Sn(ur)) = h - ur
    <3>1. PICK b \in Int : /\ r.base = Sn(b) /\ b <= ur
                           /\ \A n \in Int : ur < n /\ n <= uh /\ ur .. n - 1 \subseteq held => n < b + M
      BY DEF BaseOk
    <3>2. h < b + M /\ h \in Int
      BY <2>4, <2>6, <2>7, <3>1
    <3>3. Offset(Sn(b), Sn(h)) = h - b /\ Offset(Sn(b), Sn(ur)) = ur - b
      BY <1>0, <1>1, <2>4, <3>1, <3>2, OffsetFrom
    <3> QED BY <1>1, <2>4, <3>1, <3>3
  <2>9. q = ReassembleSnInterval([r EXCEPT !.ur = Sn(h)], r.base, Sn(ur), Sn(h))
    <3>1. Received(r, r.ur)
      BY <1>0, <1>1, <1>2, <1>4
    <3> QED BY <1>1, <2>5, <3>1 DEF AdvanceUr
  <2>10. /\ WinOk(s, q, t, h, uh, h, held \ (ur .. h - 1))
         /\ q.timer = r.timer /\ q.ux = r.ux
         /\ ~DiscardByDeadline /\ e = ur /\ Whole(s, r, ur) /\ ur .. h - 1 \subseteq held
              => Whole(s, q, h)
    BY <2>4, <2>7, <2>8, <2>9, IntervalOk
  <2>11. ur <= h
    BY <1>1, <2>4
  <2>12. AfterAdvance(s, r, q, t, ur, uh, e, held, h, h)
    BY <2>6, <2>10, <2>11 DEF AfterAdvance
  <2> QED BY <2>4, <2>12
<1> QED BY <1>3, <1>4

\* VR(UR) has gone from ur past the gaps below ux, up to u.
AfterExpiry(s, r, q, t, ur, ux, uh, e, held, u) ==
  /\ WinOk(s, q, t, u, uh, u, held \ (ur .. u - 1))
  /\ q.ux = r.ux /\ ur <= u /\ ux <= u /\ ux .. u - 1 \subseteq held
  /\ ~DiscardByDeadline /\ e = ur /\ Whole(s, r, ur) /\ ur .. u - 1 \subseteq held
       => Whole(s, q, u)

\* The window after t-Reordering has expired.
LEMMA ExpiredOk ==
  ASSUME NEW s, NEW r, NEW t \in Nat, NEW ur, NEW uh, NEW e, NEW held, NEW ux,
         GoodStream(s, t), WinOk(s, r, t, ur, uh, e, held), TimerOk(r, ur, ux, uh, held), r.timer = TRUE,
         NEW q, q = Expired(r)
  PROVE  \E u \in Nat : AfterExpiry(s, r, q, t, ur, ux, uh, e, held, u)
<1>0. W \in Nat /\ W >= 2 /\ M = 2 * W /\ M = SnModulus
  BY Widths DEF M
<1>1. /\ r.ur = Sn(ur) /\ r.uh = Sn(uh) /\ r.buf = PdusOf(s, held)
      /\ ur \in Nat /\ uh \in Nat /\ e \in Nat /\ ur <= uh /\ uh <= t /\ uh - W <= ur
      /\ held \in SUBSET (0 .. t - 1) /\ held \in SUBSET Int
      /\ \A k \in held : ur <= k /\ k < uh
  BY DEF WinOk
<1>2. r.ux = Sn(ux) /\ ux \in Nat /\ ur < ux /\ ux <= uh /\ ux - 1 \in held
  BY DEF TimerOk
<1> DEFINE First(d) == /\ ~Received(r, (Sn(ux) + d) % SnModulus)
                       /\ \A i \in 0 .. d - 1 : Received(r, (Sn(ux) + i) % SnModulus)
           c == CHOOSE d \in 0 .. SnModulus : First(d)
           u == ux + c
<1>3. \A d \in 0 .. M - 1 : ux + d < ur + M => (Received(r, (Sn(ux) + d) % SnModulus) <=> ux + d \in held)
  <2> TAKE d \in 0 .. M - 1
  <2> SUFFICES ASSUME ux + d < ur + M
               PROVE  Received(r, (Sn(ux) + d) % SnModulus) <=> ux + d \in held
    OBVIOUS
  <2>0. d \in Int /\ ux + d \in Int
    BY <1>0, <1>2
  <2>1. (Sn(ux) + d) % SnModulus = Sn(ux + d)
    BY <1>2, <2>0, SnNext
  <2>2. \A k \in held : k - (ux + d) < M /\ (ux + d) - k < M
    BY <1>0, <1>1, <1>2
  <2>3. Received(r, Sn(ux + d)) <=> ux + d \in held
    BY <1>1, <2>0, <2>2, ReceivedIff
  <2> QED BY <2>1, <2>3
<1>4. uh - ux \in 0 .. M - 1 /\ ux + (uh - ux) = uh /\ uh < ur + M /\ uh \notin held
  BY <1>0, <1>1, <1>2
<1>5. ~Received(r, (Sn(ux) + (uh - ux)) % SnModulus)
  BY <1>3, <1>4
<1>6. c \in 0 .. M /\ First(c)
  <2> DEFINE D == {d \in 0 .. M : ~Received(r, (Sn(ux) + d) % SnModulus)}
  <2>1. uh - ux \in D
    BY <1>0, <1>4, <1>5
  <2>2. PICK d \in D : \A m \in D : d <= m
    <3>1. D \in SUBSET Nat
      BY <1>0
    <3> HIDE DEF D
    <3> QED BY <2>1, <3>1, LeastNat
  <2>3. \A i \in 0 .. d - 1 : i \in 0 .. M /\ ~(d <= i)
    BY <1>0
  <2>4. First(d)
    BY <2>2, <2>3
  <2>5. \E x \in 0 .. SnModulus : First(x)
    BY <1>0, <2>4
  <2> HIDE DEF First, D
  <2> QED BY <1>0, <2>5
<1> HIDE DEF c
<1>7. c <= uh - ux
  <2> SUFFICES ASSUME ~(c <= uh - ux) PROVE FALSE
    OBVIOUS
  <2>1. uh - ux \in 0 .. c - 1
    BY <1>0, <1>4, <1>6
  <2> QED BY <1>5, <1>6, <2>1
<1>8. u \in Nat /\ ux <= u /\ u <= uh /\ ur < u /\ ur <= u
  BY <1>0, <1>1, <1>2, <1>6, <1>7
<1>9. ux .. u - 1 \subseteq held
  <2> SUFFICES ASSUME NEW n \in ux .. u - 1 PROVE n \in held
    OBVIOUS
  <2>1. /\ n - ux \in 0 .. c - 1 /\ n - ux \in 0 .. M - 1 /\ ux + (n - ux) = n
        /\ ux + (n - ux) < ur + M
    BY <1>0, <1>1, <1>2, <1>4, <1>6, <1>7
  <2>2. Received(r, (Sn(ux) + (n - ux)) % SnModulus)
    BY <1>6, <2>1
  <2> QED BY <1>3, <2>1, <2>2
<1>10. FirstMissingFrom(r, r.ux) = Sn(u)
  <2>1. FirstMissingFrom(r, r.ux) = (Sn(ux) + c) % SnModulus
    BY <1>2 DEF FirstMissingFrom, c
  <2>2. c \in Int
    BY <1>0, <1>6
  <2> QED BY <1>2, <2>1, <2>2, SnNext
<1> HIDE DEF u
<1>11. u - 1 \in held
  <2>1. CASE u = ux
    BY <1>2, <2>1
  <2>2. CASE u # ux
    <3>1. u - 1 \in ux .. u - 1
      BY <1>2, <1>8, <2>2
    <3> QED BY <1>9, <3>1
  <2> QED BY <2>1, <2>2
<1>12. Offset(Base(r.uh), Sn(u)) - Offset(Base(r.uh), Sn(ur)) = u - ur
  <2>1. Offset(Base(Sn(uh)), Sn(u)) = u - (uh - W) /\ Offset(Base(Sn(uh)), Sn(ur)) = ur - (uh - W)
    BY <1>0, <1>1, <1>8, OffsetOf
  <2> QED BY <1>0, <1>1, <1>8, <2>1
<1>13. q = ReassembleSnInterval([r EXCEPT !.ur = Sn(u)], Base(r.uh), Sn(ur), Sn(u))
  BY <1>1, <1>10 DEF Expired
<1> DEFINE bs == Base(r.uh)
<1> HIDE DEF bs, First
<1>14. /\ Offset(bs, Sn(u)) - Offset(bs, Sn(ur)) = u - ur
       /\ q = ReassembleSnInterval([r EXCEPT !.ur = Sn(u)], bs, Sn(ur), Sn(u))
  BY <1>12, <1>13 DEF bs
<1>15. u \in Nat /\ ur < u /\ u <= uh /\ u - 1 \in held
  BY <1>8, <1>11
<1> HIDE DEF c
<1>16. WinOk(s, q, t, u, uh, u, held \ (ur .. u - 1))
  BY <1>14, <1>15, IntervalOk
<1>17. q.timer = r.timer /\ q.ux = r.ux
  BY <1>14, <1>15, <1>16, IntervalOk
<1>18. ~DiscardByDeadline /\ e = ur /\ Whole(s, r, ur) /\ ur .. u - 1 \subseteq held
         => Whole(s, q, u)
  BY <1>14, <1>15, <1>16, IntervalOk
<1>19. AfterExpiry(s, r, q, t, ur, ux, uh, e, held, u)
  BY <1>8, <1>9, <1>16, <1>17, <1>18 DEF AfterExpiry
<1> QED BY <1>8, <1>19

(***************************************************************************)
(* The inductive invariant.  fly and held are the numbers of the PDUs      *)
(* under way and in the reception buffer; of the PDUs from tt on, those    *)
(* not under way have been lost, in a row.                                 *)
(***************************************************************************)
IsTx == tx = [buf |-> tx.buf, size |-> tx.size, pdus |-> tx.pdus, rbsTimer |-> tx.rbsTimer]

\* The transmission buffer has the bytes that no PDU has yet.
Sends(s) ==
  /\ IsTx /\ tx.pdus \in Nat /\ sent \in 0..MaxSdu /\ checks \in 0..sent
  /\ GoodStream(s, tx.pdus) /\ \A n \in 0 .. tx.pdus - 1 : Leq(s.to[n], At(sent))
  /\ Leq(s.from[tx.pdus], At(sent)) /\ tx.buf = Segs(s.from[tx.pdus], At(sent))
  /\ tx.size = Size(tx.buf) /\ tx.size \in 0..MaxTxBufferSize

\* What HARQ has, and has lost.
Flies(s, fly, held, uh, tt) ==
  /\ air = PdusOf(s, fly) /\ fly \cap held = {} /\ fly \in SUBSET (0 .. tx.pdus - 1)
  /\ \A n \in fly : tx.pdus - n <= HarqLag
  /\ lost \in 0..MaxLost
  /\ tt \in Nat /\ tt <= tx.pdus /\ tt < uh + HarqLag
  /\ Cardinality({n \in tt .. tx.pdus - 1 : n \notin fly}) <= lost

Receives(s, ur, ux, uh, e, held) ==
  WinOk(s, rx, tx.pdus, ur, uh, e, held) /\ TimerOk(rx, ur, ux, uh, held)

\* On a timely channel nothing is lost, and the timer gives up on nothing.
Timely(s, fly, held, ur, e) ==
  channel = "timely" =>
    /\ e = ur /\ ur .. tx.pdus - 1 \subseteq fly \cup held
    /\ \A n \in fly : n >= ur
    /\ ~DiscardByDeadline => Whole(s, rx, ur)

IInv == channel \in Channels /\ \E s, fly, held, ur, ux, uh, e, tt :
          /\ Sends(s) /\ Flies(s, fly, held, uh, tt)
          /\ Receives(s, ur, ux, uh, e, held) /\ Timely(s, fly, held, ur, e)

\* Streams that agree on t PDUs, and on where the next one starts.
Agree(s, z, t) ==
  /\ \A n \in 0 .. t - 1 : s.from[n] = z.from[n] /\ s.to[n] = z.to[n]
  /\ ~DiscardByDeadline => s.from[t] = z.from[t]

LEMMA PdusAgree ==
  ASSUME NEW s, NEW z, NEW t \in Nat, Agree(s, z, t), NEW K \in SUBSET (0 .. t - 1)
  PROVE  PdusOf(s, K) = PdusOf(z, K)
<1>1. \A n \in K : PduAt(s, n) = PduAt(z, n)
  BY DEF Agree, PduAt
<1> QED BY <1>1 DEF PdusOf

LEMMA ContentAgree ==
  ASSUME NEW s, NEW z, NEW t \in Nat, Agree(s, z, t), NEW e \in 0..t, NEW r
  PROVE  /\ Content(s, r, e) => Content(z, r, e)
         /\ ~DiscardByDeadline /\ Whole(s, r, e) => Whole(z, r, e)
<1>1. ~DiscardByDeadline => s.from[e] = z.from[e]
  <2>1. e = t \/ e \in 0 .. t - 1
    OBVIOUS
  <2> QED BY <2>1 DEF Agree
<1>2. ~DiscardByDeadline /\ Ordered(s, r, e) => Ordered(z, r, e)
  BY <1>1 DEF Ordered
<1>3. ~DiscardByDeadline /\ Whole(s, r, e) => Whole(z, r, e)
  BY <1>1 DEF Whole
<1> QED BY <1>2, <1>3 DEF Content

\* The window when the sender goes on.
LEMMA WinAgree ==
  ASSUME NEW s, NEW z, NEW t \in Nat, Agree(s, z, t), NEW r, NEW ur, NEW uh, NEW e, NEW held,
         WinOk(s, r, t, ur, uh, e, held), NEW y \in Nat, t <= y, \A k \in held : y - k <= W
  PROVE  WinOk(z, r, y, ur, uh, e, held)
<1>1. /\ IsRx(r) /\ r.ur = Sn(ur) /\ r.uh = Sn(uh) /\ r.base \in Sns /\ r.buf = PdusOf(s, held)
      /\ ur \in Nat /\ uh \in Nat /\ e \in Nat /\ e <= ur /\ ur <= uh /\ uh <= t /\ uh - W <= ur
      /\ held \in SUBSET (0 .. t - 1)
      /\ \A k \in held : ur <= k /\ k < uh
      /\ ur < uh => uh - 1 \in held
      /\ e = ur \/ \E k \in held : k < e + M
      /\ Content(s, r, e)
  BY DEF WinOk
<1>2. r.buf = PdusOf(z, held)
  BY <1>1, PdusAgree
<1>3. Content(z, r, e)
  <2>1. e \in 0..t
    BY <1>1
  <2> QED BY <1>1, <2>1, ContentAgree
<1>4. uh <= y /\ held \in SUBSET (0 .. y - 1)
  BY <1>1
<1> QED BY <1>1, <1>2, <1>3, <1>4 DEF WinOk

\* The receiver has seen a PDU of the window's last round.
LEMMA NotTooLate ==
  ASSUME NEW s, NEW fly, NEW held, NEW uh \in Nat, NEW tt, Flies(s, fly, held, uh, tt),
         tx.pdus \in Nat
  PROVE  tx.pdus <= uh + W
<1> DEFINE t == tx.pdus  gone == {n \in tt .. t - 1 : n \notin fly}
           old == tt .. t - HarqLag - 1
<1>1. /\ HarqLag \in Nat /\ HarqLag >= 1 /\ MaxLost \in Nat /\ 2 * HarqLag + MaxLost <= W + 1
      /\ W \in Nat
  BY UmAssumption, Widths DEF W
<1>2. /\ \A n \in fly : t - n <= HarqLag
      /\ lost \in 0..MaxLost /\ tt \in Nat /\ tt <= t /\ tt < uh + HarqLag
      /\ Cardinality(gone) <= lost
  BY DEF Flies
<1> HIDE DEF t
<1>0. t \in Nat
  BY DEF t
<1>3. CASE t - HarqLag <= tt
  BY <1>0, <1>1, <1>2, <1>3 DEF t
<1>4. CASE t - HarqLag > tt
  <2>1. old \subseteq gone
    BY <1>0, <1>1, <1>2
  <2>2. IsFiniteSet(gone)
    <3>1. tt \in Int /\ t - 1 \in Int
      BY <1>0, <1>2
    <3>2. IsFiniteSet(tt .. t - 1)
      BY <3>1, FS_Interval
    <3>3. gone \in SUBSET (tt .. t - 1)
      OBVIOUS
    <3> HIDE DEF gone
    <3> QED BY <3>2, <3>3, FS_Subset
  <2>3. Cardinality(old) = t - HarqLag - tt
    <3>1. t - HarqLag - 1 \in Int /\ tt \in Int /\ tt <= t - HarqLag - 1
      BY <1>0, <1>1, <1>2, <1>4
    <3>2. Cardinality(old) = (t - HarqLag - 1) - tt + 1
      BY <3>1, FS_Interval
    <3> QED BY <1>0, <1>1, <1>2, <3>2
  <2>4. Cardinality(old) <= Cardinality(gone) /\ Cardinality(gone) \in Nat
    <3> HIDE DEF old, gone
    <3> QED BY <2>1, <2>2, FS_Subset, FS_CardinalityType
  <2> HIDE DEF old, gone
  <2> QED BY <1>0, <1>1, <1>2, <2>3, <2>4 DEF t
<1> QED BY <1>0, <1>1, <1>2, <1>3, <1>4

(***************************************************************************)
(* What the invariant says of the properties.                              *)
(***************************************************************************)
LEMMA SegmentOk ==
  ASSUME NEW s, Sends(s), NEW k \in 0 .. tx.pdus - 1
  PROVE  LET p == PduAt(s, k) IN
         p.sn \in Sns /\ p.segs # <<>> /\ \A i \in DOMAIN p.segs : IsSegment(p.segs[i])
<1> DEFINE p == PduAt(s, k)  x == s.from[k]  y == s.to[k]
<1>1. tx.pdus \in Nat /\ sent \in Nat /\ k \in Nat
  BY UmAssumption DEF Sends
<1>2. x \in Pos /\ y \in Pos /\ Lt(x, y) /\ Leq(y, At(sent))
  BY <1>1 DEF Sends, GoodStream
<1>3. p.sn = Sn(k) /\ p.segs = Segs(x, y)
  BY PduFields DEF PduAt
<1> HIDE DEF p, x, y
<1>4. Sn(k) \in Sns
  BY <1>1, SnType
<1>5. Segs(x, y) # <<>> /\ DOMAIN Segs(x, y) = 1 .. Count(x, y)
  BY <1>2, SegsEmpty, SegsType
<1>6. \A i \in 1 .. Count(x, y) : IsSegment(Segs(x, y)[i])
  <2> TAKE i \in 1 .. Count(x, y)
  <2> DEFINE g == Segs(x, y)[i]
  <2>1. /\ g.from < g.to /\ g.to <= SduBytes /\ g.from \in Nat /\ g.to \in Nat
        /\ g.sdu \in Nat /\ g.sdu <= y.sdu /\ (y.off = 0 => g.sdu < y.sdu)
    BY <1>2, SegFields
  <2>2. y.sdu < sent \/ (y.sdu = sent /\ y.off = 0)
    BY <1>1, <1>2, PosType DEF Leq
  <2>3. y.sdu \in Nat
    BY <1>2, PosType
  <2> HIDE DEF g
  <2>4. IsSegment(g)
    BY <1>1, <2>1, <2>2, <2>3 DEF IsSegment
  <2> QED BY <2>4 DEF g
<1>7. p.sn \in Sns /\ p.segs # <<>> /\ \A i \in DOMAIN p.segs : IsSegment(p.segs[i])
  BY <1>3, <1>4, <1>5, <1>6
<1> QED BY <1>7 DEF p

LEMMA TypeFromInv == IInv => TypeOK
<1> SUFFICES ASSUME channel \in Channels, NEW s, NEW fly, NEW held, NEW ur, NEW ux, NEW uh, NEW e, NEW tt,
                    Sends(s), Flies(s, fly, held, uh, tt), Receives(s, ur, ux, uh, e, held)
             PROVE  TypeOK
  BY DEF IInv
<1>1. /\ tx.pdus \in Nat /\ sent \in 0..MaxSdu /\ checks \in 0..sent /\ sent \in Nat
      /\ Leq(s.from[tx.pdus], At(sent)) /\ tx.buf = Segs(s.from[tx.pdus], At(sent))
      /\ s.from[tx.pdus] \in Pos
      /\ tx.size = Size(tx.buf) /\ tx.size \in 0..MaxTxBufferSize
  BY UmAssumption DEF Sends, GoodStream
<1>2. \A i \in DOMAIN tx.buf : IsSegment(tx.buf[i])
  <2> DEFINE x == s.from[tx.pdus]  y == At(sent)
  <2>1. x \in Pos /\ y \in Pos /\ y.sdu = sent /\ y.off = 0
    BY <1>1, PosType
  <2> HIDE DEF x, y
  <2> SUFFICES ASSUME NEW i \in DOMAIN Segs(x, y) PROVE IsSegment(Segs(x, y)[i])
    BY <1>1 DEF x, y
  <2>2. i \in 1 .. Count(x, y)
    BY <2>1, SegsType
  <2> DEFINE g == Segs(x, y)[i]
  <2>3. /\ g.from < g.to /\ g.to <= SduBytes /\ g.from \in Nat /\ g.to \in Nat
        /\ g.sdu \in Nat /\ g.sdu <= y.sdu /\ (y.off = 0 => g.sdu < y.sdu)
    BY <2>1, <2>2, SegFields
  <2> HIDE DEF g
  <2>4. IsSegment(g)
    BY <1>1, <2>1, <2>3 DEF IsSegment
  <2> QED BY <2>4 DEF g
<1>3. /\ air = PdusOf(s, fly) /\ fly \in SUBSET (0 .. tx.pdus - 1) /\ lost \in 0..MaxLost
      /\ rx.buf = PdusOf(s, held) /\ held \in SUBSET (0 .. tx.pdus - 1)
      /\ rx.ur = Sn(ur) /\ rx.uh = Sn(uh) /\ rx.base \in Sns
      /\ ur \in Nat /\ uh \in Nat /\ e \in Nat /\ Content(s, rx, e)
      /\ rx.ux = Sn(ux) /\ ux \in Nat
  BY DEF Flies, Receives, WinOk, TimerOk
<1>4. \A p \in air \cup rx.buf :
        p.sn \in Sns /\ p.segs # <<>> /\ \A i \in DOMAIN p.segs : IsSegment(p.segs[i])
  <2> SUFFICES ASSUME NEW k \in fly \cup held
               PROVE  LET p == PduAt(s, k) IN
                      p.sn \in Sns /\ p.segs # <<>> /\ \A i \in DOMAIN p.segs : IsSegment(p.segs[i])
    BY <1>3 DEF PdusOf
  <2>1. k \in 0 .. tx.pdus - 1
    BY <1>3
  <2> QED BY <2>1, SegmentOk
<1>5. {rx.ur, rx.ux, rx.uh, rx.base, rx.expected} \subseteq Sns
  <2>1. rx.expected = Sn(e)
    BY <1>3 DEF Content
  <2>2. Sn(ur) \in Sns /\ Sn(ux) \in Sns /\ Sn(uh) \in Sns /\ Sn(e) \in Sns
    BY <1>3, SnType
  <2> QED BY <1>3, <2>1, <2>2
<1> QED BY <1>1, <1>2, <1>3, <1>4, <1>5 DEF TypeOK

LEMMA OrderFromInv == DiscardByDeadline = FALSE /\ IInv => DeliveredInOrder
<1> SUFFICES ASSUME DiscardByDeadline = FALSE,
                    NEW s, NEW ur, NEW ux, NEW uh, NEW e, NEW held, Receives(s, ur, ux, uh, e, held)
             PROVE  DeliveredInOrder
  BY DEF IInv
<1>1. Ordered(s, rx, e)
  BY DEF Receives, WinOk, Content
<1> DEFINE d == rx.delivered
<1>2. /\ rx.sdus = <<>> /\ d \in Seq(Nat)
      /\ \A i, j \in 1 .. Len(d) : i < j => d[i] < d[j]
  BY <1>1 DEF Ordered
<1>3. DOMAIN d = 1 .. Len(d) /\ \A i \in 1 .. Len(d) : d[i] \in Nat
  BY <1>2, LenProperties, ElementOfSeq
<1>4. \A i \in DOMAIN d : d[i] # Broken
  <2>1. \A i \in DOMAIN d : d[i] \in Nat
    BY <1>3
  <2> QED BY <2>1 DEF Broken
<1> QED BY <1>2, <1>3, <1>4 DEF DeliveredInOrder

LEMMA WindowFromInv == IInv => BufferIsInWindow
<1> SUFFICES ASSUME NEW s, NEW ur, NEW ux, NEW uh, NEW e, NEW held, Receives(s, ur, ux, uh, e, held),
                    NEW p \in rx.buf
             PROVE  IsInsideReorderingWindow(rx.uh, p.sn) /\ Offset(rx.ur, p.sn) < WindowSize
  BY DEF IInv, BufferIsInWindow
<1>1. /\ rx.ur = Sn(ur) /\ rx.uh = Sn(uh) /\ rx.buf = PdusOf(s, held)
      /\ ur \in Nat /\ uh \in Nat /\ uh - W <= ur
      /\ held \in SUBSET (0 .. tx.pdus - 1)
      /\ \A k \in held : ur <= k /\ k < uh
  BY DEF Receives, WinOk
<1>2. PICK k \in held : p = PduAt(s, k)
  BY <1>1 DEF PdusOf
<1>3. p.sn = Sn(k)
  BY <1>2, PduFields DEF PduAt
<1>4. k \in Int /\ uh \in Int /\ ur \in Int /\ ur <= k /\ k < uh /\ W = WindowSize
      /\ uh - W <= k /\ k < uh + W /\ k < ur + M
  BY <1>1, Widths DEF W
<1>5. IsInsideReorderingWindow(Sn(uh), Sn(k))
  BY <1>4, Inside
<1>6. Offset(Sn(ur), Sn(k)) = k - ur
  BY <1>4, OffsetFrom
<1>7. k - ur < WindowSize
  BY <1>1, <1>4, Widths
<1> QED BY <1>1, <1>3, <1>5, <1>6, <1>7

LEMMA EmptyFromInv == IInv => NothingStaysBehind
<1> SUFFICES ASSUME NEW s, NEW fly, NEW held, NEW ur, NEW ux, NEW uh, NEW e, NEW tt,
                    Sends(s), Flies(s, fly, held, uh, tt), Receives(s, ur, ux, uh, e, held),
                    Timely(s, fly, held, ur, e),
                    tx.buf = <<>>, air = {}, ~rx.timer
             PROVE  /\ rx.buf = {}
                    /\ channel = "timely" /\ ~DiscardByDeadline => rx.delivered = [i \in 1..sent |-> i - 1]
  BY DEF IInv, NothingStaysBehind
<1>1. /\ rx.buf = PdusOf(s, held) /\ ur \in Nat /\ uh \in Nat /\ uh <= tx.pdus /\ ur = uh
      /\ held \in SUBSET (0 .. tx.pdus - 1) /\ \A k \in held : ur <= k /\ k < uh
  BY DEF Receives, WinOk, TimerOk
<1>2. held = {}
  <2>1. \A k \in held : k \in Int /\ ur <= k /\ k < ur
    BY <1>1
  <2> QED BY <1>1, <2>1
<1>3. rx.buf = {}
  BY <1>1, <1>2 DEF PdusOf
<1>4. ASSUME channel = "timely", ~DiscardByDeadline
      PROVE  rx.delivered = [i \in 1..sent |-> i - 1]
  <2>1. fly = {}
    BY DEF Flies, PdusOf
  <2>2. ur = tx.pdus
    <3>1. ur .. tx.pdus - 1 \subseteq {} /\ tx.pdus \in Nat
      BY <1>2, <1>4, <2>1 DEF Timely, Sends
    <3>2. ~(ur <= tx.pdus - 1)
      BY <1>1, <3>1
    <3> QED BY <1>1, <3>1, <3>2
  <2> DEFINE x == s.from[tx.pdus]
  <2>3. /\ x \in Pos /\ At(sent) \in Pos /\ At(sent).sdu = sent /\ Leq(x, At(sent))
        /\ Segs(x, At(sent)) = <<>>
    <3>1. sent \in Nat
      BY UmAssumption DEF Sends
    <3> QED BY <3>1, PosType DEF Sends, GoodStream
  <2> HIDE DEF x
  <2>4. x = At(sent)
    BY <2>3, SegsEmpty, PosOrder
  <2>5. rx.delivered = [i \in 1 .. s.from[ur].sdu |-> i - 1]
    BY <1>4 DEF Timely, Whole
  <2> QED BY <2>2, <2>3, <2>4, <2>5 DEF x
<1> QED BY <1>3, <1>4

(***************************************************************************)
(* The steps of the sender.                                                *)
(***************************************************************************)
LEMMA StreamSame == \A s, t : Agree(s, s, t)
  BY DEF Agree

\* A step that sends no PDU.
LEMMA NoPduSent ==
  ASSUME NEW s, NEW fly, NEW held, NEW ur, NEW ux, NEW uh, NEW e, NEW tt,
         Flies(s, fly, held, uh, tt), Receives(s, ur, ux, uh, e, held), Timely(s, fly, held, ur, e),
         channel \in Channels, tx.pdus \in Nat,
         NEW z, Agree(s, z, tx.pdus), Sends(z)', tx'.pdus = tx.pdus,
         UNCHANGED <<channel, air, lost, rx>>
  PROVE  IInv'
<1>1. Flies(z, fly, held, uh, tt)'
  <2>1. fly \in SUBSET (0 .. tx.pdus - 1) /\ air = PdusOf(s, fly)
    BY DEF Flies
  <2>2. air = PdusOf(z, fly)
    BY <2>1, PdusAgree
  <2> QED BY <2>2 DEF Flies
<1>2. WinOk(s, rx, tx.pdus, ur, uh, e, held) /\ TimerOk(rx, ur, ux, uh, held)
  BY DEF Receives
<1>3. ur \in Nat /\ ur \in 0 .. tx.pdus /\ \A k \in held : tx.pdus - k <= W
  BY <1>2 DEF WinOk
<1>4. Receives(z, ur, ux, uh, e, held)'
  <2>1. tx.pdus <= tx.pdus
    OBVIOUS
  <2>2. WinOk(z, rx, tx.pdus, ur, uh, e, held)
    BY <1>2, <1>3, <2>1, WinAgree
  <2> QED BY <1>2, <2>2 DEF Receives
<1>5. Timely(z, fly, held, ur, e)'
  <2>1. ~DiscardByDeadline /\ Whole(s, rx, ur) => Whole(z, rx, ur)
    BY <1>3, ContentAgree
  <2> QED BY <2>1 DEF Timely
<1> QED BY <1>1, <1>4, <1>5 DEF IInv

\* An SDU is stored: the bytes go on up to the next SDU.
LEMMA StoreStep ==
  ASSUME NEW s, Sends(s), DoTransmitPdcpPdu
  PROVE  Sends(s)' /\ tx'.pdus = tx.pdus
<1> DEFINE x == s.from[tx.pdus]  y == At(sent)  y1 == At(sent + 1)
<1>1. /\ IsTx /\ tx.pdus \in Nat /\ sent \in 0..MaxSdu /\ checks \in 0..sent /\ sent \in Nat
      /\ GoodStream(s, tx.pdus) /\ \A n \in 0 .. tx.pdus - 1 : Leq(s.to[n], At(sent))
      /\ Leq(x, y) /\ tx.buf = Segs(x, y) /\ x \in Pos
      /\ tx.size = Size(tx.buf) /\ tx.size \in 0..MaxTxBufferSize
  BY UmAssumption DEF Sends, GoodStream
<1>2. sent < MaxSdu /\ MaxSdu \in Nat /\ MaxTxBufferSize \in Nat
  BY UmAssumption DEF DoTransmitPdcpPdu
<1>3. CASE HasRoom
  <2> DEFINE seg == [sdu |-> sent, from |-> 0, to |-> SduBytes]
  <2>1. /\ sent' = sent + 1 /\ checks' = checks + 1
        /\ tx' = [Enqueued(sent) EXCEPT !.rbsTimer = FALSE]
    BY <1>3 DEF DoTransmitPdcpPdu
  <2>2. tx' = [buf |-> Append(tx.buf, seg), size |-> tx.size + SduBytes, pdus |-> tx.pdus,
               rbsTimer |-> FALSE]
    BY <1>1, <2>1 DEF Enqueued, IsTx
  <2>3. /\ y \in Pos /\ y1 \in Pos /\ y.sdu = sent /\ y.off = 0 /\ y1.sdu = sent + 1 /\ y1.off = 0
        /\ Lt(y, y1) /\ Leq(y, y1) /\ sent + 1 \in Nat
    BY <1>1, PosType DEF Lt, Leq
  <2> HIDE DEF x, y, y1
  <2>4. Append(Segs(x, y), seg) = Segs(x, y1)
    BY <1>1, <2>3, SegsAppend
  <2>5. Leq(x, y1)
    BY <1>1, <2>3, PosOrder
  <2>6. Size(Segs(x, y1)) = Size(Segs(x, y)) + SduBytes
    <3>1. Byte(x) \in Nat /\ Byte(y) \in Nat /\ Byte(y1) \in Nat /\ Byte(y1) - Byte(y) = SduBytes
      BY <1>1, <2>3, ByteType, SduBytesType
    <3>2. Size(Segs(x, y)) = Byte(y) - Byte(x) /\ Size(Segs(x, y1)) = Byte(y1) - Byte(x)
      BY <1>1, <2>3, <2>5, SizeOfSegs
    <3> QED BY <3>1, <3>2, SduBytesType
  <2>7. /\ IsTx' /\ tx'.pdus = tx.pdus /\ tx'.buf = Segs(x, y1) /\ tx'.size = Size(tx'.buf)
        /\ tx'.size = tx.size + SduBytes
    BY <1>1, <2>2, <2>4, <2>6 DEF IsTx
  <2>8. tx'.size \in 0..MaxTxBufferSize
    BY <1>1, <1>2, <1>3, <2>7, SduBytesType DEF HasRoom
  <2>9. \A n \in 0 .. tx.pdus - 1 : Leq(s.to[n], y1)
    <3> TAKE n \in 0 .. tx.pdus - 1
    <3>1. s.to[n] \in Pos /\ Leq(s.to[n], y)
      BY <1>1 DEF GoodStream, y
    <3> QED BY <2>3, <3>1, PosOrder
  <2>10. sent' \in 0..MaxSdu /\ checks' \in 0..sent' /\ At(sent') = y1
    BY <1>1, <1>2, <2>1 DEF y1
  <2> QED BY <1>1, <2>5, <2>7, <2>8, <2>9, <2>10 DEF Sends, x
<1>4. CASE ~HasRoom
  <2>1. sent' = sent /\ checks' = checks /\ tx' = [tx EXCEPT !.rbsTimer = FALSE]
    BY <1>4 DEF DoTransmitPdcpPdu
  <2>2. tx' = [buf |-> tx.buf, size |-> tx.size, pdus |-> tx.pdus, rbsTimer |-> FALSE]
    BY <1>1, <2>1 DEF IsTx
  <2>3. IsTx' /\ tx'.pdus = tx.pdus /\ tx'.buf = tx.buf /\ tx'.size = tx.size
    BY <2>2 DEF IsTx
  <2> QED BY <1>1, <2>1, <2>3 DEF Sends
<1> QED BY <1>3, <1>4

LEMMA RbsStep ==
  ASSUME NEW s, Sends(s), ExpireRbsTimer
  PROVE  Sends(s)' /\ tx'.pdus = tx.pdus
<1>1. IsTx /\ tx' = [tx EXCEPT !.rbsTimer = FALSE] /\ sent' = sent /\ checks' = checks
  BY DEF Sends, ExpireRbsTimer
<1>2. tx' = [buf |-> tx.buf, size |-> tx.size, pdus |-> tx.pdus, rbsTimer |-> FALSE]
  BY <1>1 DEF IsTx
<1>3. IsTx' /\ tx'.pdus = tx.pdus /\ tx'.buf = tx.buf /\ tx'.size = tx.size
  BY <1>2 DEF IsTx
<1> QED BY <1>1, <1>3 DEF Sends

\* Overdue SDUs are dropped: the next PDU starts later.
LEMMA DeadlineStep ==
  ASSUME NEW s, Sends(s), PacketDeadlineTimer
  PROVE  \E z : Agree(s, z, tx.pdus) /\ Sends(z)' /\ tx'.pdus = tx.pdus
<1> DEFINE t == tx.pdus  x == s.from[t]  y == At(sent)
<1>1. /\ IsTx /\ t \in Nat /\ sent \in 0..MaxSdu /\ checks \in 0..sent /\ sent \in Nat
      /\ GoodStream(s, t) /\ \A n \in 0 .. t - 1 : Leq(s.to[n], y)
      /\ Leq(x, y) /\ tx.buf = Segs(x, y) /\ x \in Pos /\ y \in Pos
      /\ tx.size = Size(tx.buf) /\ tx.size \in 0..MaxTxBufferSize
  BY UmAssumption, PosType DEF Sends, GoodStream
<1>2. checks > 0 /\ checks' = checks - 1 /\ sent' = sent
  BY DEF PacketDeadlineTimer
<1>3. checks' \in 0..sent
  BY <1>1, <1>2
<1>4. CASE ~DiscardByDeadline
  <2>1. tx' = tx
    BY <1>4 DEF PacketDeadlineTimer
  <2>2. Sends(s)'
    BY <1>1, <1>2, <1>3, <2>1 DEF Sends, IsTx
  <2> QED BY <2>1, <2>2, StreamSame
<1>5. CASE DiscardByDeadline
  <2>1. PICK m \in 0 .. sent - checks : DropOverdue(m)
    BY <1>5 DEF PacketDeadlineTimer
  <2>2. m \in Nat /\ m <= sent
    BY <1>1, <2>1
  <2> DEFINE kept == Kept(tx.buf, m)  w == IF x.sdu < m THEN At(m) ELSE x
  <2>3. tx' = [tx EXCEPT !.buf = kept, !.size = Size(kept)]
    BY <2>1 DEF DropOverdue, Kept
  <2>4. w \in Pos /\ Leq(w, y) /\ kept = Segs(w, y)
    <3> HIDE DEF x, w
    <3>1. w = IF x.sdu < m THEN At(m) ELSE x
      BY DEF w
    <3> QED BY <1>1, <2>2, <3>1, KeptOfSegs
  <2>5. Leq(x, w)
    BY <1>1, <2>2, PosType DEF Leq
  <2> HIDE DEF x, y, w, kept
  <2>6. tx' = [buf |-> kept, size |-> Size(kept), pdus |-> t, rbsTimer |-> tx.rbsTimer]
    BY <1>1, <2>3 DEF IsTx
  <2>7. Size(kept) \in 0..MaxTxBufferSize
    <3>1. Byte(x) \in Nat /\ Byte(y) \in Nat /\ Byte(w) \in Nat
      BY <1>1, <2>4, ByteType
    <3>2. Size(Segs(x, y)) = Byte(y) - Byte(x)
      BY <1>1, SizeOfSegs
    <3>3. Size(Segs(w, y)) = Byte(y) - Byte(w) /\ Size(Segs(w, y)) \in Nat
      BY <1>1, <2>4, SizeOfSegs
    <3>4. Size(Segs(x, w)) = Byte(w) - Byte(x) /\ Size(Segs(x, w)) \in Nat
      BY <1>1, <2>4, <2>5, SizeOfSegs
    <3>5. MaxTxBufferSize \in Nat
      BY UmAssumption
    <3> QED BY <1>1, <2>4, <3>1, <3>2, <3>3, <3>4, <3>5
  <2>8. IsTx' /\ tx'.pdus = t /\ tx'.buf = kept /\ tx'.size = Size(kept)
    BY <2>6 DEF IsTx
  <2> PICK z : z = [from |-> [s.from EXCEPT ![t] = w], to |-> s.to]
    OBVIOUS
  <2>9. /\ z.from \in [Nat -> Pos] /\ z.from[t] = w /\ z.to = s.to
        /\ \A n \in Nat : n # t => z.from[n] = s.from[n]
    <3>1. s.from \in [Nat -> Pos]
      BY <1>1 DEF GoodStream
    <3> QED BY <1>1, <2>4, <3>1
  <2> HIDE DEF t
  <2>10. GoodStream(z, t)
    <3>1. \A n \in 0 .. t - 1 : n \in Nat /\ n # t
      BY <1>1
    <3> QED BY <1>1, <1>5, <2>9, <3>1 DEF GoodStream
  <2>11. Agree(s, z, t)
    <3>1. \A n \in 0 .. t - 1 : n \in Nat /\ n # t
      BY <1>1
    <3> QED BY <1>5, <2>9, <3>1 DEF Agree
  <2>12. Sends(z)'
    <3>1. sent' = sent /\ tx'.pdus = tx.pdus /\ tx'.buf = kept /\ tx'.size = Size(kept)
      BY <1>2, <2>8 DEF t
    <3>2. /\ GoodStream(z, tx.pdus) /\ \A n \in 0 .. tx.pdus - 1 : Leq(z.to[n], At(sent))
          /\ Leq(z.from[tx.pdus], At(sent)) /\ kept = Segs(z.from[tx.pdus], At(sent))
          /\ tx.pdus \in Nat
      BY <1>1, <2>4, <2>9, <2>10 DEF t, y
    <3> QED BY <1>1, <1>3, <2>7, <2>8, <3>1, <3>2 DEF Sends
  <2> QED BY <2>8, <2>11, <2>12 DEF t
<1> QED BY <1>4, <1>5

\* What an opportunity takes from the buffer becomes PDU tx.pdus of the stream.
LEMMA OpportunitySends ==
  ASSUME NEW s, Sends(s), NEW bytes \in TxBytes, DoNotifyTxOpportunity(bytes)
  PROVE  \E z : /\ Agree(s, z, tx.pdus) /\ Sends(z)' /\ tx'.pdus = tx.pdus + 1
                /\ z.from[tx.pdus] = s.from[tx.pdus]
                /\ air' = air \cup {PduAt(z, tx.pdus)}
<1> DEFINE t == tx.pdus  x == s.from[t]  y == At(sent)  field == DataField(tx.buf, bytes)
<1>1. /\ IsTx /\ t \in Nat /\ sent \in 0..MaxSdu /\ checks \in 0..sent /\ sent \in Nat
      /\ GoodStream(s, t) /\ \A n \in 0 .. t - 1 : Leq(s.to[n], y)
      /\ Leq(x, y) /\ tx.buf = Segs(x, y) /\ x \in Pos /\ y \in Pos
      /\ tx.size = Size(tx.buf) /\ tx.size \in 0..MaxTxBufferSize
  BY UmAssumption, PosType DEF Sends, GoodStream
<1>2. /\ bytes \in Nat /\ bytes > 2 /\ tx.buf # <<>> /\ sent' = sent /\ checks' = checks
      /\ air' = air \cup {Pdu(t, field.segs)}
      /\ tx' = [buf |-> field.rest, size |-> tx.size - Size(field.segs), pdus |-> t + 1,
                rbsTimer |-> tx.rbsTimer \/ field.rest # <<>>]
  BY UmAssumption DEF DoNotifyTxOpportunity
<1>3. Lt(x, y)
  <2> HIDE DEF x, y
  <2> QED BY <1>1, <1>2, SegsEmpty
<1>4. PICK w \in Pos : /\ Lt(x, w) /\ Leq(w, y)
                       /\ field.segs = Segs(x, w) /\ field.rest = Segs(w, y)
  <2>1. bytes \in Int
    BY <1>2
  <2>2. DataField(Segs(x, At(sent)), bytes) = field
    BY <1>1
  <2>3. \E w \in Pos : /\ Lt(x, w) /\ Leq(w, At(sent))
                       /\ DataField(Segs(x, At(sent)), bytes).segs = Segs(x, w)
                       /\ DataField(Segs(x, At(sent)), bytes).rest = Segs(w, At(sent))
    <3> HIDE DEF x
    <3> QED BY <1>1, <1>2, <1>3, <2>1, DataFieldOfSegs
  <2> HIDE DEF field, x
  <2> QED BY <2>2, <2>3
<1> PICK z : z = [from |-> [s.from EXCEPT ![t + 1] = w], to |-> [s.to EXCEPT ![t] = w]]
  OBVIOUS
<1>5. /\ z.from \in [Nat -> Pos] /\ z.to \in [Nat -> Pos] /\ z.from[t + 1] = w /\ z.to[t] = w
      /\ \A n \in Nat : (n # t => z.to[n] = s.to[n]) /\ (n # t + 1 => z.from[n] = s.from[n])
  <2>1. s.from \in [Nat -> Pos] /\ s.to \in [Nat -> Pos] /\ t + 1 \in Nat
    BY <1>1 DEF GoodStream
  <2> HIDE DEF t
  <2> QED BY <1>1, <2>1
<1> HIDE DEF t, x, y, field
<1>6. /\ \A n \in 0 .. t - 1 : n \in Nat /\ n # t /\ n # t + 1
      /\ \A n \in 0 .. (t + 1) - 1 : n = t \/ n \in 0 .. t - 1
      /\ t # t + 1 /\ t + 1 \in Nat
  BY <1>1
<1>7. z.from[t] = x
  BY <1>1, <1>5, <1>6 DEF x
<1>8. Agree(s, z, t)
  BY <1>5, <1>6, <1>7 DEF Agree, x
<1>9. GoodStream(z, t + 1)
  <2>1. \A n \in 0 .. t : Lt(z.from[n], z.to[n])
    <3> TAKE n \in 0 .. t
    <3>1. CASE n = t
      BY <1>4, <1>5, <1>7, <3>1
    <3>2. CASE n \in 0 .. t - 1
      BY <1>1, <1>5, <1>6, <3>2 DEF GoodStream
    <3> QED BY <1>1, <3>1, <3>2
  <2>2. ASSUME ~DiscardByDeadline
        PROVE  z.from[0] = At(0) /\ \A n \in 0 .. t : z.to[n] = z.from[n + 1]
    <3>1. s.from[0] = At(0) /\ \A n \in 0 .. t - 1 : s.to[n] = s.from[n + 1]
      BY <1>1, <2>2 DEF GoodStream
    <3>2. 0 # t + 1 /\ 0 \in Nat
      BY <1>1
    <3>3. \A n \in 0 .. t : z.to[n] = z.from[n + 1]
      <4> TAKE n \in 0 .. t
      <4>1. CASE n = t
        BY <1>5, <4>1
      <4>2. CASE n \in 0 .. t - 1
        <5>1. n + 1 \in Nat /\ n + 1 # t + 1 /\ n \in Nat /\ n # t
          BY <1>1, <4>2
        <5> QED BY <1>5, <3>1, <4>2, <5>1
      <4> QED BY <1>1, <4>1, <4>2
    <3> QED BY <1>5, <3>1, <3>2, <3>3
  <2>3. (t + 1) - 1 = t
    BY <1>1
  <2> QED BY <1>5, <2>1, <2>2, <2>3 DEF GoodStream
<1>10. \A n \in 0 .. (t + 1) - 1 : Leq(z.to[n], y)
  BY <1>1, <1>4, <1>5, <1>6
<1>11. tx'.size = Size(tx'.buf) /\ tx'.size \in 0..MaxTxBufferSize
  <2>1. Byte(x) \in Nat /\ Byte(y) \in Nat /\ Byte(w) \in Nat
    BY <1>1, ByteType
  <2>2. Size(Segs(x, y)) = Byte(y) - Byte(x)
    BY <1>1, SizeOfSegs
  <2>3. Size(Segs(w, y)) = Byte(y) - Byte(w) /\ Size(Segs(w, y)) \in Nat
    BY <1>1, <1>4, SizeOfSegs
  <2>4. Size(Segs(x, w)) = Byte(w) - Byte(x) /\ Size(Segs(x, w)) \in Nat
    <3>1. Leq(x, w)
      BY <1>1, <1>4, PosOrder
    <3> QED BY <1>1, <3>1, SizeOfSegs
  <2>5. tx'.buf = Segs(w, y) /\ tx'.size = tx.size - Size(Segs(x, w))
    BY <1>2, <1>4
  <2>6. MaxTxBufferSize \in Nat
    BY UmAssumption
  <2> QED BY <1>1, <2>1, <2>2, <2>3, <2>4, <2>5, <2>6
<1>12. IsTx' /\ tx'.pdus = t + 1 /\ tx'.buf = Segs(w, y)
  BY <1>2, <1>4 DEF IsTx
<1>13. Sends(z)'
  <2>1. sent' = sent /\ checks' = checks /\ At(sent') = y
    BY <1>2 DEF y
  <2> QED BY <1>1, <1>4, <1>5, <1>6, <1>9, <1>10, <1>11, <1>12, <2>1 DEF Sends
<1>14. air' = air \cup {PduAt(z, t)}
  BY <1>2, <1>4, <1>5, <1>7 DEF PduAt
<1> QED BY <1>7, <1>8, <1>12, <1>13, <1>14 DEF t, x

\* A PDU is sent while those under way and held are not too far behind.
LEMMA OpportunityStep ==
  ASSUME TimerLag <= WindowSize, IInv, NEW bytes \in TxBytes, DoNotifyTxOpportunity(bytes)
  PROVE  IInv'
<1>1. PICK s, fly, held, ur, ux, uh, e, tt :
        /\ Sends(s) /\ Flies(s, fly, held, uh, tt)
        /\ Receives(s, ur, ux, uh, e, held) /\ Timely(s, fly, held, ur, e)
  BY DEF IInv
<1>2. PICK z : /\ Agree(s, z, tx.pdus) /\ Sends(z)' /\ tx'.pdus = tx.pdus + 1
               /\ z.from[tx.pdus] = s.from[tx.pdus]
               /\ air' = air \cup {PduAt(z, tx.pdus)}
  BY <1>1, OpportunitySends
<1> PICK more : more = fly \cup {tx.pdus}
  OBVIOUS
<1> DEFINE t == tx.pdus
<1>3. /\ UNCHANGED <<channel, lost, rx>>
      /\ \A p \in air : t - p.no < HarqLag
      /\ \A p \in rx.buf : t - p.no < TimerLag
  BY DEF DoNotifyTxOpportunity, InTime
<1>4. /\ t \in Nat /\ HarqLag \in Nat /\ HarqLag >= 1 /\ TimerLag \in Nat /\ W \in Nat /\ TimerLag <= W
      /\ channel \in Channels
  BY <1>1, UmAssumption, Widths DEF Sends, W, IInv
<1>5. /\ air = PdusOf(s, fly) /\ fly \cap held = {} /\ fly \in SUBSET (0 .. t - 1)
      /\ lost \in 0..MaxLost /\ tt \in Nat /\ tt <= t /\ tt < uh + HarqLag
      /\ Cardinality({n \in tt .. t - 1 : n \notin fly}) <= lost
  BY <1>1 DEF Flies
<1>6. /\ WinOk(s, rx, t, ur, uh, e, held) /\ TimerOk(rx, ur, ux, uh, held)
      /\ rx.buf = PdusOf(s, held) /\ held \in SUBSET (0 .. t - 1)
      /\ ur \in Nat /\ ur <= t /\ uh \in Nat
  <2>1. WinOk(s, rx, t, ur, uh, e, held) /\ TimerOk(rx, ur, ux, uh, held)
    BY <1>1 DEF Receives
  <2>2. /\ rx.buf = PdusOf(s, held) /\ held \in SUBSET (0 .. t - 1)
        /\ ur \in Nat /\ uh \in Nat /\ ur <= uh /\ uh <= t
    BY <2>1 DEF WinOk
  <2> QED BY <1>4, <2>1, <2>2
<1>7. \A k : PduAt(s, k).no = k
  BY PduFields DEF PduAt
<1>8. \A n \in fly : t - n < HarqLag
  BY <1>3, <1>5, <1>7 DEF PdusOf
<1>9. \A k \in held : t - k < TimerLag
  BY <1>3, <1>6, <1>7 DEF PdusOf
<1>10. WinOk(z, rx, t + 1, ur, uh, e, held)
  <2>1. \A k \in held : k \in Int /\ (t + 1) - k <= W
    BY <1>4, <1>6, <1>9
  <2>2. t + 1 \in Nat /\ t <= t + 1
    BY <1>4
  <2>3. Agree(s, z, t) /\ WinOk(s, rx, t, ur, uh, e, held) /\ t \in Nat
    BY <1>2, <1>4, <1>6
  <2> HIDE DEF t
  <2> DEFINE y == t + 1
  <2>4. y \in Nat /\ t <= y /\ \A k \in held : y - k <= W
    BY <2>1, <2>2
  <2> HIDE DEF y
  <2>5. WinOk(z, rx, y, ur, uh, e, held)
    BY <2>3, <2>4, WinAgree
  <2> QED BY <2>5 DEF y
<1>11. Receives(z, ur, ux, uh, e, held)'
  BY <1>2, <1>3, <1>6, <1>10 DEF Receives
<1>12. Flies(z, more, held, uh, tt)'
  <2>1. air' = PdusOf(z, more)
    <3>1. PdusOf(s, fly) = PdusOf(z, fly)
      BY <1>2, <1>4, <1>5, PdusAgree
    <3>2. PdusOf(z, more) = PdusOf(z, fly) \cup {PduAt(z, tx.pdus)}
      BY DEF PdusOf
    <3> QED BY <1>2, <1>5, <3>1, <3>2
  <2>2. more \cap held = {} /\ more \in SUBSET (0 .. (t + 1) - 1)
    <3>1. t \notin held /\ t \in 0 .. (t + 1) - 1 /\ 0 .. t - 1 \subseteq 0 .. (t + 1) - 1
      BY <1>4, <1>6
    <3> QED BY <1>5, <3>1
  <2>3. \A n \in more : (t + 1) - n <= HarqLag
    BY <1>4, <1>5, <1>8
  <2>4. {n \in tt .. (t + 1) - 1 : n \notin more} = {n \in tt .. t - 1 : n \notin fly}
    BY <1>4, <1>5
  <2>5. tt <= t + 1
    BY <1>4, <1>5
  <2> HIDE DEF t
  <2>6. tx'.pdus = t + 1 /\ lost' = lost
    BY <1>2, <1>3 DEF t
  <2> QED BY <1>5, <2>1, <2>2, <2>3, <2>4, <2>5, <2>6 DEF Flies
<1>13. Timely(z, more, held, ur, e)'
  <2> SUFFICES ASSUME channel = "timely"
               PROVE  /\ e = ur /\ ur .. t \subseteq more \cup held
                      /\ \A n \in more : n >= ur
                      /\ ~DiscardByDeadline => Whole(z, rx, ur)
    <3>1. (t + 1) - 1 = t
      BY <1>4
    <3> QED BY <1>2, <1>3, <3>1 DEF Timely
  <2>1. /\ e = ur /\ ur .. t - 1 \subseteq fly \cup held
        /\ \A n \in fly : n >= ur
        /\ ~DiscardByDeadline => Whole(s, rx, ur)
    BY <1>1 DEF Timely
  <2>2. ur .. t \subseteq more \cup held
    BY <1>4, <1>6, <2>1
  <2>3. \A n \in more : n >= ur
    BY <1>4, <1>6, <2>1
  <2>4. ~DiscardByDeadline => Whole(z, rx, ur)
    <3>1. ur \in 0 .. t
      BY <1>4, <1>6
    <3> QED BY <1>2, <1>4, <2>1, <3>1, ContentAgree
  <2> QED BY <2>1, <2>2, <2>3, <2>4
<1> QED BY <1>2, <1>3, <1>4, <1>11, <1>12, <1>13 DEF IInv

(***************************************************************************)
(* The steps of the receiver.                                              *)
(***************************************************************************)
\* What a new PDU makes of the window: it moves to c, then VR(UR) advances to u.
AfterPlaced(s, r, q, t, ur, uh, e, K, n, c, u, x, h, f) ==
  /\ WinOk(s, q, t, u, h, f, K \ (c .. u - 1)) /\ TimerOk(q, u, x, h, K \ (c .. u - 1))
  /\ uh <= h /\ n < h /\ (c = ur \/ t - ur > W) /\ c <= u
  /\ c .. u - 1 \subseteq K /\ (e = c => f = u)
  /\ ~DiscardByDeadline /\ e = c /\ Whole(s, r, c) => Whole(s, q, u)

LEMMA NewPduOk ==
  ASSUME NEW s, NEW r, NEW t \in Nat, NEW ur, NEW ux, NEW uh, NEW e, NEW held,
         GoodStream(s, t), WinOk(s, r, t, ur, uh, e, held), TimerOk(r, ur, ux, uh, held),
         NEW n \in Nat, ur <= n, n < t, t - n <= W, t <= uh + W, n \notin held,
         NEW q, q = UpdateTimer(AdvanceUr(Placed(r, PduAt(s, n)))),
         NEW K, K = held \cup {n}
  PROVE  \E c, u, x, h, f \in Nat : AfterPlaced(s, r, q, t, ur, uh, e, K, n, c, u, x, h, f)
<1> PICK r1 : r1 = Placed(r, PduAt(s, n))
  OBVIOUS
<1> PICK r2 : r2 = AdvanceUr(r1)
  OBVIOUS
<1>1. PICK c, h \in Nat : AfterMove(s, r, r1, t, ur, uh, e, K, n, c, h)
  BY PlacedOk
<1>2. /\ WinOk(s, r1, t, c, h, e, K) /\ BaseOk(r1, c, h, K)
      /\ r1.timer = r.timer /\ r1.ux = r.ux
      /\ \A k \in Nat : Whole(s, r, k) => Whole(s, r1, k)
      /\ uh <= h /\ n < h /\ ur <= c /\ (c = ur \/ t - ur > W)
  BY <1>1 DEF AfterMove
<1>11. PICK u, f \in Nat : AfterAdvance(s, r1, r2, t, c, h, e, K, u, f)
  BY <1>2, AdvanceOk
<1>12. /\ WinOk(s, r2, t, u, h, f, K \ (c .. u - 1))
       /\ r2.timer = r1.timer /\ r2.ux = r1.ux
       /\ c <= u /\ c .. u - 1 \subseteq K /\ (e = c => f = u)
       /\ ~DiscardByDeadline /\ e = c /\ Whole(s, r1, c) => Whole(s, r2, u)
  BY <1>11 DEF AfterAdvance
<1> DEFINE L == K \ (c .. u - 1)
<1>3. TimerLoose(r2, u, ux, h, L)
  <2>1. /\ r2.ux = Sn(ux) /\ ux \in Nat /\ r2.timer = r.timer /\ r.timer \in BOOLEAN
        /\ r.timer => ur < ux /\ ux <= uh /\ ux - 1 \in K
    <3>1. r.ux = Sn(ux) /\ ux \in Nat /\ r.timer \in BOOLEAN
      BY DEF TimerOk
    <3>2. r.timer => ur < ux /\ ux <= uh /\ ux - 1 \in held
      BY DEF TimerOk
    <3>3. r2.ux = Sn(ux) /\ r2.timer = r.timer
      BY <1>2, <1>12, <3>1
    <3> QED BY <3>1, <3>2, <3>3
  <2>2. uh \in Nat /\ h - W <= c /\ K \in SUBSET (0 .. t - 1) /\ \A k \in K : c <= k
    <3>1. uh \in Nat
      BY DEF WinOk
    <3>2. h - W <= c /\ K \in SUBSET (0 .. t - 1) /\ \A k \in K : c <= k
      BY <1>2 DEF WinOk
    <3> QED BY <3>1, <3>2
  <2>3. r.timer => ux <= h /\ h - W <= ux /\ (ux <= u \/ ux - 1 \in L)
    <3> SUFFICES ASSUME r.timer PROVE ux <= h /\ h - W <= ux /\ (ux <= u \/ ux - 1 \in L)
      OBVIOUS
    <3>1. ux - 1 \in K /\ c <= ux - 1 /\ ux <= uh
      BY <2>1, <2>2
    <3>2. ux <= u \/ ux - 1 \in L
      BY <2>1, <3>1
    <3> HIDE DEF L
    <3> QED BY <1>2, <2>1, <2>2, <3>1, <3>2, Widths
  <2> HIDE DEF L
  <2> QED BY <2>1, <2>3 DEF TimerLoose
<1> HIDE DEF L
<1>4. q = UpdateTimer(r2) /\ WinOk(s, r2, t, u, h, f, L)
  <2>1. q = UpdateTimer(r2)
    OBVIOUS
  <2>2. WinOk(s, r2, t, u, h, f, L)
    BY <1>12 DEF L
  <2> QED BY <2>1, <2>2
<1>5. ux \in Nat
  BY DEF TimerOk
<1>6. WinOk(s, UpdateTimer(r2), t, u, h, f, L) /\ SameRx(r2, UpdateTimer(r2))
  BY <1>3, <1>4, <1>5, UpdateTimerOk
<1>7. \E x \in Nat : TimerOk(UpdateTimer(r2), u, x, h, L)
  BY <1>3, <1>4, <1>5, UpdateTimerOk
<1>8. PICK x \in Nat : TimerOk(q, u, x, h, L)
  BY <1>4, <1>7
<1>9. \A k : Whole(s, r2, k) => Whole(s, q, k)
  BY <1>4, <1>6, ContentSame DEF SameRx
<1>10. AfterPlaced(s, r, q, t, ur, uh, e, K, n, c, u, x, h, f)
  <2>1. WinOk(s, q, t, u, h, f, L) /\ TimerOk(q, u, x, h, L)
    BY <1>4, <1>6, <1>8
  <2>2. ~DiscardByDeadline /\ e = c /\ Whole(s, r, c) => Whole(s, q, u)
    BY <1>2, <1>12, <1>9
  <2>3. /\ uh <= h /\ n < h /\ (c = ur \/ t - ur > W) /\ c <= u
        /\ c .. u - 1 \subseteq K /\ (e = c => f = u)
    BY <1>2, <1>12
  <2> QED BY <2>1, <2>2, <2>3 DEF AfterPlaced, L
<1> QED BY <1>10

LEMMA ReceiveStep ==
  ASSUME IInv, NEW p \in air, DoReceivePdu(p)
  PROVE  IInv'
<1> DEFINE t == tx.pdus
<1>1. PICK s, fly, held, ur, ux, uh, e, tt :
        /\ Sends(s) /\ Flies(s, fly, held, uh, tt)
        /\ Receives(s, ur, ux, uh, e, held) /\ Timely(s, fly, held, ur, e)
  BY DEF IInv
<1>2. /\ t \in Nat /\ GoodStream(s, t) /\ W \in Nat /\ W >= 2 /\ M = 2 * W
      /\ HarqLag \in Nat /\ HarqLag >= 1 /\ HarqLag <= W /\ channel \in Channels
  BY <1>1, UmAssumption, Widths DEF Sends, W, IInv
<1>3. /\ air = PdusOf(s, fly) /\ fly \cap held = {} /\ fly \in SUBSET (0 .. t - 1)
      /\ \A k \in fly : t - k <= HarqLag
  BY <1>1 DEF Flies
<1>4. WinOk(s, rx, t, ur, uh, e, held) /\ TimerOk(rx, ur, ux, uh, held)
  BY <1>1 DEF Receives
<1>5. /\ ur \in Nat /\ uh \in Nat /\ ur <= uh /\ uh <= t /\ held \in SUBSET (0 .. t - 1)
      /\ \A k \in held : t - k <= W
  BY <1>4 DEF WinOk
<1>6. t <= uh + W
  BY <1>1, <1>2, <1>5, NotTooLate
<1>7. PICK n \in fly : p = PduAt(s, n)
  BY <1>3 DEF PdusOf
<1>8. n \in Nat /\ n < t /\ t - n <= HarqLag /\ t - n <= W /\ n \notin held
  BY <1>2, <1>3, <1>7
<1>9. p.sn = Sn(n)
  BY <1>7, PduFields DEF PduAt
<1> PICK rest : rest = fly \ {n}
  OBVIOUS
<1>10. /\ air' = PdusOf(s, rest) /\ lost' = 0
       /\ UNCHANGED <<channel, sent, tx, checks>>
       /\ rx' = IF IsDiscarded(rx, p.sn) THEN rx ELSE UpdateTimer(AdvanceUr(Placed(rx, p)))
  <2>1. \A k : PduAt(s, k).no = k
    BY PduFields DEF PduAt
  <2>2. PdusOf(s, fly) \ {PduAt(s, n)} = PdusOf(s, rest)
    <3>1. \A k, m : PduAt(s, k) = PduAt(s, m) => k = m
      BY <2>1
    <3> QED BY <3>1 DEF PdusOf
  <2>3. air' = air \ {p}
    BY DEF DoReceivePdu
  <2> QED BY <1>3, <1>7, <2>2, <2>3 DEF DoReceivePdu
<1>11. Sends(s)'
  BY <1>1, <1>10 DEF Sends, IsTx
<1>12. ASSUME NEW h \in Nat, NEW L \in SUBSET (held \cup {n}), n < h
       PROVE  Flies(s, rest, L, h, t)'
  <2>1. rest \cap L = {} /\ rest \in SUBSET (0 .. t - 1) /\ \A k \in rest : t - k <= HarqLag
    BY <1>3
  <2>2. t < h + HarqLag /\ t <= t
    BY <1>2, <1>8, <1>12
  <2>3. Cardinality({k \in t .. t - 1 : k \notin rest}) <= 0
    <3>1. {k \in t .. t - 1 : k \notin rest} = {}
      BY <1>2
    <3>2. Cardinality({}) = 0
      BY FS_EmptySet
    <3> QED BY <3>1, <3>2
  <2>4. t' = t /\ 0 \in 0..MaxLost
    BY <1>10, UmAssumption
  <2> QED BY <1>2, <1>10, <2>1, <2>2, <2>3, <2>4 DEF Flies
<1>15. IsDiscarded(rx, Sn(n)) <=> n < ur
  <2> HIDE DEF t
  <2> QED BY <1>2, <1>4, <1>6, <1>8, DiscardedIff
<1>13. CASE IsDiscarded(rx, p.sn)
  <2>1. rx' = rx
    BY <1>10, <1>13
  <2>2. n < ur
    BY <1>9, <1>13, <1>15
  <2>3. Flies(s, rest, held, uh, t)'
    <3>1. n < uh /\ held \in SUBSET (held \cup {n})
      BY <1>5, <1>8, <2>2
    <3> QED BY <1>5, <1>12, <3>1
  <2>4. Receives(s, ur, ux, uh, e, held)'
    BY <1>4, <1>10, <2>1 DEF Receives
  <2>5. Timely(s, rest, held, ur, e)'
    <3>1. channel # "timely"
      BY <1>1, <1>5, <1>7, <1>8, <2>2 DEF Timely
    <3> QED BY <1>10, <3>1 DEF Timely
  <2>6. t' \in Nat
    BY <1>2, <1>10
  <2> QED BY <1>2, <1>10, <1>11, <2>3, <2>4, <2>5 DEF IInv
<1>14. CASE ~IsDiscarded(rx, p.sn)
  <2> PICK K : K = held \cup {n}
    OBVIOUS
  <2>1. rx' = UpdateTimer(AdvanceUr(Placed(rx, PduAt(s, n))))
    BY <1>7, <1>10, <1>14
  <2>2. ur <= n
    <3>1. ~(n < ur)
      BY <1>9, <1>14, <1>15
    <3> QED BY <1>5, <1>8, <3>1
  <2>3. PICK c, u, x, h, f \in Nat : AfterPlaced(s, rx, rx', t, ur, uh, e, K, n, c, u, x, h, f)
    <3> DEFINE q == UpdateTimer(AdvanceUr(Placed(rx, PduAt(s, n))))
    <3>1. \E c, u, x, h, f \in Nat : AfterPlaced(s, rx, q, t, ur, uh, e, K, n, c, u, x, h, f)
      <4> HIDE DEF q, t
      <4>1. q = UpdateTimer(AdvanceUr(Placed(rx, PduAt(s, n))))
        BY DEF q
      <4> QED BY <1>2, <1>4, <1>6, <1>8, <2>2, <4>1, NewPduOk
    <3> QED BY <2>1, <3>1
  <2> PICK L : L = K \ (c .. u - 1)
    OBVIOUS
  <2>4. /\ WinOk(s, rx', t, u, h, f, L) /\ TimerOk(rx', u, x, h, L)
        /\ uh <= h /\ n < h /\ (c = ur \/ t - ur > W) /\ c <= u
        /\ c .. u - 1 \subseteq K /\ (e = c => f = u)
        /\ ~DiscardByDeadline /\ e = c /\ Whole(s, rx, c) => Whole(s, rx', u)
    BY <2>3 DEF AfterPlaced
  <2>5. Receives(s, u, x, h, f, L)'
    <3>1. t' = t
      BY <1>10
    <3> HIDE DEF t
    <3>2. WinOk(s, rx', t', u, h, f, L) /\ TimerOk(rx', u, x, h, L)
      BY <2>4, <3>1
    <3> QED BY <3>2 DEF Receives, t
  <2>6. Flies(s, rest, L, h, t)'
    <3>1. L \in SUBSET (held \cup {n})
      OBVIOUS
    <3> QED BY <1>12, <2>4, <3>1
  <2>7. Timely(s, rest, L, u, f)'
    <3> SUFFICES ASSUME channel = "timely"
                 PROVE  /\ f = u /\ u .. t - 1 \subseteq rest \cup L
                        /\ \A k \in rest : k >= u
                        /\ ~DiscardByDeadline => Whole(s, rx', u)
      BY <1>10 DEF Timely
    <3>1. /\ e = ur /\ ur .. t - 1 \subseteq fly \cup held
          /\ \A k \in fly : k >= ur
          /\ ~DiscardByDeadline => Whole(s, rx, ur)
      BY <1>1 DEF Timely
    <3>2. c = ur
      <4>1. ur \in ur .. t - 1
        BY <1>2, <1>5, <1>8, <2>2
      <4>2. t - ur <= W
        BY <1>2, <1>3, <1>5, <3>1, <4>1
      <4> QED BY <1>2, <1>5, <2>4, <4>2
    <3>3. f = u /\ (~DiscardByDeadline => Whole(s, rx', u))
      BY <2>4, <3>1, <3>2
    <3>4. u .. t - 1 \subseteq rest \cup L
      <4> SUFFICES ASSUME NEW k \in u .. t - 1 PROVE k \in rest \cup L
        OBVIOUS
      <4>1. k \in ur .. t - 1 /\ k \notin c .. u - 1
        BY <1>5, <2>4, <3>2
      <4> QED BY <3>1, <4>1
    <3>5. \A k \in rest : k >= u
      <4> SUFFICES ASSUME NEW k \in rest PROVE k >= u
        OBVIOUS
      <4>1. k \in Int /\ k >= ur /\ k \notin K
        BY <1>3, <3>1
      <4>2. k \notin c .. u - 1
        BY <2>4, <4>1
      <4> QED BY <1>5, <3>2, <4>1, <4>2
    <3> QED BY <3>3, <3>4, <3>5
  <2> QED BY <1>2, <1>10, <1>11, <2>5, <2>6, <2>7 DEF IInv
<1> QED BY <1>13, <1>14

LEMMA LoseStep ==
  ASSUME IInv, NEW p \in air, LosePdu(p)
  PROVE  IInv'
<1> DEFINE t == tx.pdus
<1>1. PICK s, fly, held, ur, ux, uh, e, tt :
        /\ Sends(s) /\ Flies(s, fly, held, uh, tt)
        /\ Receives(s, ur, ux, uh, e, held) /\ Timely(s, fly, held, ur, e)
  BY DEF IInv
<1>2. /\ channel # "timely" /\ lost < MaxLost /\ MaxLost \in Nat
      /\ air' = air \ {p} /\ lost' = lost + 1 /\ UNCHANGED <<channel, sent, tx, checks, rx>>
      /\ channel \in Channels /\ t \in Nat
  BY <1>1, UmAssumption DEF LosePdu, IInv, Sends
<1>3. /\ air = PdusOf(s, fly) /\ fly \cap held = {} /\ fly \in SUBSET (0 .. t - 1)
      /\ \A k \in fly : t - k <= HarqLag
      /\ lost \in 0..MaxLost
      /\ tt \in Nat /\ tt <= t /\ tt < uh + HarqLag
      /\ Cardinality({k \in tt .. t - 1 : k \notin fly}) <= lost
  BY <1>1 DEF Flies
<1>4. PICK n \in fly : p = PduAt(s, n)
  BY <1>3 DEF PdusOf
<1> PICK rest : rest = fly \ {n}
  OBVIOUS
<1>5. air' = PdusOf(s, rest)
  <2>1. \A k : PduAt(s, k).no = k
    BY PduFields DEF PduAt
  <2>2. \A k, m : PduAt(s, k) = PduAt(s, m) => k = m
    BY <2>1
  <2> QED BY <1>2, <1>3, <1>4, <2>2 DEF PdusOf
<1>6. Cardinality({k \in tt .. t - 1 : k \notin rest}) <= lost + 1
  <2> DEFINE gone == {k \in tt .. t - 1 : k \notin fly}  more == {k \in tt .. t - 1 : k \notin rest}
  <2>1. IsFiniteSet(gone) /\ Cardinality(gone) \in Nat
    <3>1. tt \in Int /\ t - 1 \in Int
      BY <1>2, <1>3
    <3>2. IsFiniteSet(tt .. t - 1)
      BY <3>1, FS_Interval
    <3>3. gone \in SUBSET (tt .. t - 1)
      OBVIOUS
    <3> HIDE DEF gone
    <3>4. IsFiniteSet(gone)
      BY <3>2, <3>3, FS_Subset
    <3> QED BY <3>4, FS_CardinalityType
  <2>2. more \subseteq gone \cup {n}
    OBVIOUS
  <2> HIDE DEF gone, more
  <2>3. IsFiniteSet(gone \cup {n}) /\ Cardinality(gone \cup {n}) <= Cardinality(gone) + 1
    <3>1. /\ IsFiniteSet(gone \cup {n})
          /\ Cardinality(gone \cup {n}) = (IF n \in gone THEN Cardinality(gone) ELSE Cardinality(gone) + 1)
      BY <2>1, FS_AddElement
    <3> QED BY <2>1, <3>1
  <2>4. Cardinality(more) <= Cardinality(gone \cup {n}) /\ IsFiniteSet(more)
    BY <2>2, <2>3, FS_Subset
  <2>5. Cardinality(more) \in Nat /\ Cardinality(gone \cup {n}) \in Nat
    BY <2>3, <2>4, FS_CardinalityType
  <2>6. Cardinality(gone) <= lost /\ lost \in Int
    BY <1>3 DEF gone
  <2> QED BY <2>1, <2>3, <2>4, <2>5, <2>6 DEF more
<1>7. Flies(s, rest, held, uh, tt)'
  <2>1. rest \cap held = {} /\ rest \in SUBSET (0 .. t - 1) /\ \A k \in rest : t - k <= HarqLag
    BY <1>3
  <2>2. lost + 1 \in 0..MaxLost
    BY <1>2, <1>3
  <2> QED BY <1>2, <1>3, <1>5, <1>6, <2>1, <2>2 DEF Flies
<1>8. Sends(s)' /\ Receives(s, ur, ux, uh, e, held)'
  BY <1>1, <1>2 DEF Sends, IsTx, Receives
<1>9. Timely(s, rest, held, ur, e)'
  BY <1>2 DEF Timely
<1> QED BY <1>2, <1>7, <1>8, <1>9 DEF IInv

LEMMA ExpireStep ==
  ASSUME IInv, ExpireReorderingTimer
  PROVE  IInv'
<1> DEFINE t == tx.pdus
<1>1. PICK s, fly, held, ur, ux, uh, e, tt :
        /\ Sends(s) /\ Flies(s, fly, held, uh, tt)
        /\ Receives(s, ur, ux, uh, e, held) /\ Timely(s, fly, held, ur, e)
  BY DEF IInv
<1>2. /\ t \in Nat /\ GoodStream(s, t) /\ channel \in Channels /\ W \in Nat /\ W >= 2
  BY <1>1, Widths DEF Sends, IInv
<1>3. /\ rx.timer /\ rx' = StartTimer(Expired(rx)) /\ UNCHANGED <<channel, sent, tx, checks, air, lost>>
      /\ channel = "timely" =>
           \A p \in air : Offset(Base(rx.uh), p.sn) >= Offset(Base(rx.uh), rx.ux)
  BY DEF ExpireReorderingTimer
<1>4. WinOk(s, rx, t, ur, uh, e, held) /\ TimerOk(rx, ur, ux, uh, held)
  BY <1>1 DEF Receives
<1>5. /\ ur \in Nat /\ uh \in Nat /\ ur <= uh /\ uh <= t /\ uh - W <= ur /\ rx.uh = Sn(uh)
      /\ held \in SUBSET (0 .. t - 1)
  BY <1>4 DEF WinOk
<1>6. /\ rx.ux = Sn(ux) /\ ux \in Nat /\ rx.timer = TRUE /\ ur < ux /\ ux <= uh
  BY <1>3, <1>4 DEF TimerOk
<1>7. t <= uh + W
  BY <1>1, <1>2, <1>5, NotTooLate
<1> PICK r : r = rx
  OBVIOUS
<1> PICK q : q = Expired(r)
  OBVIOUS
<1>8. PICK u \in Nat : AfterExpiry(s, r, q, t, ur, ux, uh, e, held, u)
  <2>1. TimerOk(r, ur, ux, uh, held) /\ r.timer = TRUE /\ WinOk(s, r, t, ur, uh, e, held)
    BY <1>4, <1>6
  <2> HIDE DEF t
  <2> QED BY <1>2, <2>1, ExpiredOk
<1> PICK L : L = held \ (ur .. u - 1)
  OBVIOUS
<1>9. /\ WinOk(s, q, t, u, uh, u, L)
      /\ q.ux = r.ux /\ ur <= u /\ ux <= u /\ ux .. u - 1 \subseteq held
      /\ ~DiscardByDeadline /\ e = ur /\ Whole(s, r, ur) /\ ur .. u - 1 \subseteq held
           => Whole(s, q, u)
  BY <1>8 DEF AfterExpiry
<1> PICK n : n = StartTimer(q)
  OBVIOUS
<1>10. WinOk(s, n, t, u, uh, u, L) /\ SameRx(q, n)
  <2> HIDE DEF t
  <2>1. q.ux = Sn(ux)
    BY <1>6, <1>9
  <2>2. WinOk(s, StartTimer(q), t, u, uh, u, L) /\ SameRx(q, StartTimer(q))
    BY <1>2, <1>6, <1>9, <2>1, StartTimerOk
  <2> QED BY <2>2
<1>11. PICK x \in Nat : TimerOk(n, u, x, uh, L)
  <2> HIDE DEF t
  <2>1. q.ux = Sn(ux)
    BY <1>6, <1>9
  <2>2. \E x \in Nat : TimerOk(StartTimer(q), u, x, uh, L)
    BY <1>2, <1>6, <1>9, <2>1, StartTimerOk
  <2> QED BY <2>2
<1>12. rx' = n
  BY <1>3
<1>13. Sends(s)'
  BY <1>1, <1>3 DEF Sends, IsTx
<1>14. Flies(s, fly, L, uh, tt)'
  <2>1. Flies(s, fly, held, uh, tt)
    BY <1>1
  <2>2. fly \cap held = {} => fly \cap L = {}
    OBVIOUS
  <2> QED BY <1>3, <2>1, <2>2 DEF Flies
<1>15. Receives(s, u, x, uh, u, L)'
  BY <1>3, <1>10, <1>11, <1>12 DEF Receives
<1>16. Timely(s, fly, L, u, u)'
  <2> SUFFICES ASSUME channel = "timely"
               PROVE  /\ u = u /\ u .. t - 1 \subseteq fly \cup L
                      /\ \A k \in fly : k >= u
                      /\ ~DiscardByDeadline => Whole(s, n, u)
    BY <1>3, <1>12 DEF Timely
  <2>1. /\ e = ur /\ ur .. t - 1 \subseteq fly \cup held
        /\ \A k \in fly : k >= ur
        /\ ~DiscardByDeadline => Whole(s, rx, ur)
    BY <1>1 DEF Timely
  <2>2. fly \in SUBSET (0 .. t - 1) /\ fly \cap held = {} /\ air = PdusOf(s, fly)
    BY <1>1 DEF Flies
  <2>3. \A k \in fly : k >= ux
    <3> SUFFICES ASSUME NEW k \in fly PROVE k >= ux
      OBVIOUS
    <3>1. k \in Int /\ uh - W <= k /\ k < uh + W /\ uh \in Int /\ ux \in Int
          /\ uh - W <= ux /\ ux < uh + W
      BY <1>2, <1>5, <1>6, <1>7, <2>1, <2>2
    <3>2. PduAt(s, k) \in air /\ PduAt(s, k).sn = Sn(k)
      BY <2>2, PduFields DEF PdusOf, PduAt
    <3>3. Offset(Base(Sn(uh)), Sn(k)) >= Offset(Base(Sn(uh)), Sn(ux))
      BY <1>3, <1>5, <1>6, <2>1, <3>2
    <3>4. Offset(Base(Sn(uh)), Sn(k)) = k - (uh - W)
      BY <3>1, OffsetOf
    <3>5. Offset(Base(Sn(uh)), Sn(ux)) = ux - (uh - W)
      BY <3>1, OffsetOf
    <3> QED BY <1>2, <1>5, <1>6, <3>1, <3>3, <3>4, <3>5
  <2>4. ur .. u - 1 \subseteq held
    <3> SUFFICES ASSUME NEW k \in ur .. u - 1 PROVE k \in held
      OBVIOUS
    <3>1. CASE k >= ux
      <4>1. k \in ux .. u - 1
        BY <1>5, <1>6, <3>1
      <4> QED BY <1>9, <4>1
    <3>2. CASE k < ux
      <4>1. k \in ur .. t - 1 /\ ~(k >= ux)
        BY <1>2, <1>5, <1>6, <3>2
      <4> QED BY <2>1, <2>3, <4>1
    <3> QED BY <1>5, <1>6, <3>1, <3>2
  <2>5. u .. t - 1 \subseteq fly \cup L
    <3> SUFFICES ASSUME NEW k \in u .. t - 1 PROVE k \in fly \cup L
      OBVIOUS
    <3>1. k \in ur .. t - 1 /\ k \notin ur .. u - 1
      BY <1>2, <1>5, <1>9
    <3> QED BY <2>1, <3>1
  <2>6. \A k \in fly : k >= u
    <3> SUFFICES ASSUME NEW k \in fly PROVE k >= u
      OBVIOUS
    <3>1. k \in Int /\ k >= ur /\ k \notin held
      BY <2>1, <2>2
    <3>2. k \notin ur .. u - 1
      BY <2>4, <3>1
    <3> QED BY <1>5, <3>1, <3>2
  <2>7. ~DiscardByDeadline => Whole(s, n, u)
    <3>1. ~DiscardByDeadline => Whole(s, q, u)
      BY <1>9, <2>1, <2>4
    <3> QED BY <1>10, <3>1, ContentSame DEF SameRx
  <2> QED BY <2>5, <2>6, <2>7
<1> QED BY <1>2, <1>3, <1>13, <1>14, <1>15, <1>16 DEF IInv

LEMMA InitInv == Init => IInv
<1> SUFFICES ASSUME Init PROVE IInv
  OBVIOUS
<1> PICK s : s = [from |-> [n \in Nat |-> At(0)], to |-> [n \in Nat |-> At(0)]]
  OBVIOUS
<1>1. /\ channel \in Channels /\ sent = 0 /\ checks = 0 /\ air = {} /\ lost = 0
      /\ tx = [buf |-> <<>>, size |-> 0, pdus |-> 0, rbsTimer |-> FALSE]
      /\ rx = [ur |-> 0, ux |-> 0, uh |-> 0, base |-> 0, timer |-> FALSE, buf |-> {},
               expected |-> 0, waiting |-> FALSE, keepS0 |-> <<>>, sdus |-> <<>>, delivered |-> <<>>]
  BY DEF Init, NewTx, NewRx
<1>2. /\ s.from \in [Nat -> Pos] /\ s.to \in [Nat -> Pos] /\ s.from[0] = At(0)
      /\ At(0) \in Pos /\ At(0).sdu = 0 /\ At(0).off = 0
  BY PosType
<1>3. MaxSdu \in Nat /\ MaxTxBufferSize \in Nat /\ MaxLost \in Nat /\ HarqLag \in 1..WindowSize
      /\ WindowSize \in Nat
  BY UmAssumption
<1>4. Sends(s)
  <2>1. Leq(At(0), At(0)) /\ Segs(At(0), At(0)) = <<>>
    BY <1>2, PosOrder, SegsEmpty
  <2>2. Size(<<>>) = 0
    <3>1. Size(Segs(At(0), At(0))) = Byte(At(0)) - Byte(At(0)) /\ Byte(At(0)) \in Nat
      BY <1>2, <2>1, SizeOfSegs, ByteType
    <3> QED BY <2>1, <3>1
  <2>3. GoodStream(s, 0)
    BY <1>2 DEF GoodStream
  <2>4. /\ IsTx /\ tx.pdus = 0 /\ tx.buf = <<>> /\ tx.size = 0
    BY <1>1 DEF IsTx
  <2> QED BY <1>1, <1>2, <1>3, <2>1, <2>2, <2>3, <2>4 DEF Sends
<1>5. Flies(s, {}, {}, 0, 0)
  <2>1. Cardinality({n \in 0 .. 0 - 1 : n \notin {}}) = 0
    <3>1. {n \in 0 .. 0 - 1 : n \notin {}} = {}
      OBVIOUS
    <3>2. Cardinality({}) = 0
      BY FS_EmptySet
    <3> QED BY <3>1, <3>2
  <2>2. tx.pdus = 0 /\ PdusOf(s, {}) = {}
    BY <1>1 DEF PdusOf
  <2> QED BY <1>1, <1>3, <2>1, <2>2 DEF Flies
<1>6. Sn(0) = 0 /\ 0 \in Sns
  <2>1. 0 % M = 0 /\ 0 \in 0 .. SnModulus - 1
    BY <1>3, UmAssumption DEF M
  <2> QED BY <2>1 DEF Sn, Sns
<1>7. Ordered(s, rx, 0) /\ Whole(s, rx, 0)
  BY <1>1, <1>2 DEF Ordered, Whole
<1>8. IsRx(rx) /\ Content(s, rx, 0)
  BY <1>1, <1>6, <1>7 DEF IsRx, Content
<1>9. Receives(s, 0, 0, 0, 0, {})
  <2>1. /\ rx.ur = 0 /\ rx.ux = 0 /\ rx.uh = 0 /\ rx.base = 0 /\ rx.timer = FALSE /\ rx.buf = {}
        /\ tx.pdus = 0
    BY <1>1
  <2>2. PdusOf(s, {}) = {}
    BY DEF PdusOf
  <2>3. WinOk(s, rx, tx.pdus, 0, 0, 0, {})
    BY <1>6, <1>8, <2>1, <2>2, Widths DEF WinOk
  <2>4. TimerOk(rx, 0, 0, 0, {})
    BY <1>6, <2>1 DEF TimerOk
  <2> QED BY <2>3, <2>4 DEF Receives
<1>10. Timely(s, {}, {}, 0, 0)
  <2>1. tx.pdus = 0 /\ 0 .. 0 - 1 = {}
    BY <1>1
  <2> QED BY <1>7, <2>1 DEF Timely
<1> QED BY <1>1, <1>4, <1>5, <1>9, <1>10 DEF IInv

LEMMA NextInv == TimerLag <= WindowSize /\ IInv /\ [Next]_vars => IInv'
<1> SUFFICES ASSUME TimerLag <= WindowSize, IInv, [Next]_vars PROVE IInv'
  OBVIOUS
<1>1. PICK s, fly, held, ur, ux, uh, e, tt :
        /\ Sends(s) /\ Flies(s, fly, held, uh, tt)
        /\ Receives(s, ur, ux, uh, e, held) /\ Timely(s, fly, held, ur, e)
  BY DEF IInv
<1>2. channel \in Channels /\ tx.pdus \in Nat /\ Agree(s, s, tx.pdus)
  BY <1>1, StreamSame DEF IInv, Sends
<1>3. CASE DoTransmitPdcpPdu
  <2>1. UNCHANGED <<channel, air, lost, rx>>
    BY <1>3 DEF DoTransmitPdcpPdu
  <2>2. Sends(s)' /\ tx'.pdus = tx.pdus
    BY <1>1, <1>3, StoreStep
  <2> QED BY <1>1, <1>2, <2>1, <2>2, NoPduSent
<1>4. ASSUME NEW bytes \in TxBytes, DoNotifyTxOpportunity(bytes) PROVE IInv'
  BY <1>4, OpportunityStep
<1>5. CASE ExpireRbsTimer
  <2>1. UNCHANGED <<channel, air, lost, rx>>
    BY <1>5 DEF ExpireRbsTimer
  <2>2. Sends(s)' /\ tx'.pdus = tx.pdus
    BY <1>1, <1>5, RbsStep
  <2> QED BY <1>1, <1>2, <2>1, <2>2, NoPduSent
<1>6. CASE PacketDeadlineTimer
  <2>1. UNCHANGED <<channel, air, lost, rx>>
    BY <1>6 DEF PacketDeadlineTimer
  <2>2. PICK z : Agree(s, z, tx.pdus) /\ Sends(z)' /\ tx'.pdus = tx.pdus
    BY <1>1, <1>6, DeadlineStep
  <2> QED BY <1>1, <1>2, <2>1, <2>2, NoPduSent
<1>7. ASSUME NEW p \in air, DoReceivePdu(p) PROVE IInv'
  BY <1>7, ReceiveStep
<1>8. ASSUME NEW p \in air, LosePdu(p) PROVE IInv'
  BY <1>8, LoseStep
<1>9. CASE ExpireReorderingTimer
  BY <1>9, ExpireStep
<1>10. CASE UNCHANGED vars
  <2>1. UNCHANGED <<channel, sent, tx, checks, air, lost, rx>>
    BY <1>10 DEF vars
  <2>2. Sends(s)' /\ tx'.pdus = tx.pdus
    BY <1>1, <2>1 DEF Sends, IsTx
  <2> QED BY <1>1, <1>2, <2>1, <2>2, NoPduSent
<1> QED BY <1>3, <1>4, <1>5, <1>6, <1>7, <1>8, <1>9, <1>10 DEF Next

(***************************************************************************)
(* Theorems.  TimerLag <= WindowSize: a PDU does not wait for              *)
(* t-Reordering while more PDUs are sent than the window has numbers.      *)
(***************************************************************************)
\* The numbers of PDUs behind VR(UR), VR(UX), VR(UH) and the SDU bytes behind each PDU
\* that DoNotifyTxOpportunity sent: every handler keeps them.
THEOREM Inductive == TimerLag <= WindowSize /\ Spec => []IInv
<1> SUFFICES ASSUME TimerLag <= WindowSize PROVE Spec => []IInv
  OBVIOUS
<1>1. Init => IInv
  BY InitInv
<1>2. IInv /\ [Next]_vars => IInv'
  BY NextInv
<1> QED BY <1>1, <1>2, PTL DEF Spec

\* The transmission buffer of DoTransmitPdcpPdu is what m_txBufferSize says, within
\* MaxTxBufferSize, no segment that DoNotifyTxOpportunity cuts is empty, and every
\* state variable of the receiver is a sequence number.
THEOREM TypeCorrect == TimerLag <= WindowSize /\ Spec => []TypeOK
<1>1. IInv => TypeOK
  BY TypeFromInv
<1> QED BY <1>1, Inductive, PTL

\* ReassembleAndDeliver gives PDCP the SDUs in order, at most once, and never other bytes
\* than those of one SDU, whatever HARQ loses and reorders, as long as PacketDeadlineTimer
\* does not drop the rest of an SDU whose start was sent.
THEOREM InOrder == TimerLag <= WindowSize /\ DiscardByDeadline = FALSE /\ Spec => []DeliveredInOrder
<1> SUFFICES ASSUME DiscardByDeadline = FALSE
             PROVE  TimerLag <= WindowSize /\ Spec => []DeliveredInOrder
  OBVIOUS
<1>1. IInv => DeliveredInOrder
  BY OrderFromInv
<1> QED BY <1>1, Inductive, PTL

\* DoReceivePdu takes out of m_rxBuffer what has left the window, so that a number there
\* is never one of an earlier round.
THEOREM WindowKept == TimerLag <= WindowSize /\ Spec => []BufferIsInWindow
<1>1. IInv => BufferIsInWindow
  BY WindowFromInv
<1> QED BY <1>1, Inductive, PTL

\* t-Reordering runs as long as there is a gap: with no PDU under way, an empty
\* transmission buffer and a stopped timer, nothing waits in m_rxBuffer, and on a timely
\* channel where no SDU is discarded every one has been delivered.
THEOREM NoneBehind == TimerLag <= WindowSize /\ Spec => []NothingStaysBehind
<1>1. IInv => NothingStaysBehind
  BY EmptyFromInv
<1> QED BY <1>1, Inductive, PTL
=============================================================================
