----------------------- MODULE DlRetxPlacement_proofs -----------------------
(***************************************************************************)
(* Theorems about DlRetxPlacement, for every number of UEs, processes and  *)
(* beams, every bandwidth and every TDD pattern: the retransmissions of a  *)
(* slot do not overlap, and each has room for its transport block.         *)
(*                                                                         *)
(* The two loops of ScheduleDlHarq are folds.  Good says what holds of the *)
(* plane between two steps of the inner loop, Done between two beams.      *)
(***************************************************************************)
EXTENDS DlRetxPlacement, SequenceElements

(***************************************************************************)
(* Arithmetic of the shares                                                *)
(***************************************************************************)
\* The block of width (a + k - 1) / k over k symbols holds a, and is no wider than need be.
LEMMA DivUp ==
  ASSUME NEW a \in Nat, NEW k \in Nat \ {0}, NEW w \in Nat, a <= w * k
  PROVE  /\ (a + k - 1) \div k \in Nat
         /\ k * ((a + k - 1) \div k) >= a
         /\ (a + k - 1) \div k <= w
<1> DEFINE f == (a + k - 1) \div k  r == (a + k - 1) % k
<1>1. f \in Nat /\ r \in 0..(k - 1) /\ a + k - 1 = f * k + r
  BY Z3
<1>2. f * k >= a
  BY <1>1
<1>3. ASSUME f > w PROVE FALSE
  <2>1. f >= w + 1
    BY <1>1, <1>3
  <2>2. f * k >= (w + 1) * k
    BY <1>1, <2>1
  <2> QED BY <1>1, <2>2
<1> QED BY <1>1, <1>2, <1>3

\* The shares of the beams fit together in the slot.
LEMMA Share ==
  ASSUME NEW n \in Nat, NEW b \in Nat \ {0}
  PROVE  n \div b \in Nat /\ b * (n \div b) <= n /\ n \div b <= n
<1>1. n \div b \in Nat /\ b * (n \div b) <= n
  BY Z3
<1> QED BY <1>1, Z3

\* The most symbols a slot may have.
LEMMA SymsType == Syms \in SlotSyms /\ Syms \in 1..13 /\ \A k \in SlotSyms : k <= Syms
<1> DEFINE T == {13 - k : k \in SlotSyms}
<1>1. \A k \in SlotSyms : k \in 1..13
  BY PlaneAssumption
<1>2. T \in SUBSET Nat /\ T # {}
  <2>1. \A k \in SlotSyms : 13 - k \in Nat
    BY <1>1
  <2>2. \A t \in T : t \in Nat
    BY <2>1
  <2>3. PICK k \in SlotSyms : TRUE
    BY PlaneAssumption
  <2>4. 13 - k \in T
    OBVIOUS
  <2> QED BY <2>2, <2>4
<1>3. PICK t \in T : \A v \in T : t <= v
  <2> HIDE DEF T
  <2> QED BY <1>2, LeastNat
<1>4. PICK n \in SlotSyms : t = 13 - n
  BY <1>3
<1>5. \A k \in SlotSyms : k <= n
  <2> TAKE k \in SlotSyms
  <2>1. t <= 13 - k
    BY <1>3
  <2> QED BY <1>1, <1>4, <2>1
<1>6. Syms \in SlotSyms /\ \A k \in SlotSyms : k <= Syms
  BY <1>5 DEF Syms
<1> QED BY <1>1, <1>6

(***************************************************************************)
(* The invariant                                                           *)
(***************************************************************************)
\* A process whose NACK is pending has a redundancy version left.
VersionLeft == \A p \in Procs : harq[p].st = "nacked" => harq[p].rv < MaxRv

IInv == TypeOK /\ RoomForTb /\ RetxDoNotOverlap /\ VersionLeft

Dcis == [proc : Procs, sym : Nat, num : Nat, rbg : Nat, len : Nat]
Accs == [sym : Nat, rbg : Nat, ues : SUBSET UEs, dcis : SUBSET Dcis]

\* A DCI of the slot: a NACKed process, a share of k symbols, room for its TB.
IsRetx(d, k) ==
  /\ d.proc \in Nacked /\ d.num = k
  /\ d.rbg + d.len <= W /\ k * d.len >= harq[d.proc].area

Apart(S) == \A d, e \in S : d = e \/ (Disjoint(d, e) /\ d.proc[1] # e.proc[1])

\* Between two processes of beam b, when the beams of past are done: a DCI is of one of
\* them and before the point in the symbols, or of this beam and before it in the RBGs.
Good(a, past, b, s, k) ==
  /\ a \in Accs /\ a.sym = s /\ a.rbg <= W
  /\ a.ues = {} => a.rbg = 0
  /\ \A u \in a.ues : beamOf[u] = b
  /\ \A d \in a.dcis :
       /\ IsRetx(d, k)
       /\ \/ d.sym + k <= s /\ beamOf[d.proc[1]] \in past
          \/ d.sym = s /\ d.rbg + d.len <= a.rbg /\ d.proc[1] \in a.ues
  /\ Apart(a.dcis)

\* Between two beams.
Done(a, past, k) ==
  /\ a \in Accs /\ a.rbg = 0 /\ a.ues = {}
  /\ \A d \in a.dcis : IsRetx(d, k) /\ d.sym + k <= a.sym /\ beamOf[d.proc[1]] \in past
  /\ Apart(a.dcis)

(***************************************************************************)
(* The loops                                                               *)
(***************************************************************************)
\* One process: it finds no room, or its DCI begins where the RBGs of the others end.
LEMMA TryRetxGood ==
  ASSUME IInv, NEW past, NEW b, b \notin past, NEW s \in Nat, NEW k \in Nat, NEW a,
         Good(a, past, b, s, k), NEW p \in ActiveHarq(b)
  PROVE  Good(TryRetx(a, p, k), past, b, s, k)
<1>1. /\ p \in Procs /\ p \in Nacked /\ beamOf[p[1]] = b /\ p[1] \in UEs
      /\ Area(p) \in Nat /\ harq[p].area \in Nat \ {0} /\ Area(p) >= harq[p].area
  <2>1. p \in Procs /\ p \in Nacked /\ beamOf[p[1]] = b /\ p[1] \in UEs
    BY DEF ActiveHarq, Nacked, UEs
  <2>2. harq[p].sym \in 0..Syms /\ harq[p].rbg \in Nat /\ harq[p].area \in 1..(Syms * W)
    BY <2>1 DEF IInv, TypeOK
  <2>3. Area(p) \in Nat
    BY <2>2, SymsType DEF Area
  <2>4. Area(p) >= harq[p].area
    BY <2>1 DEF IInv, RoomForTb, Nacked
  <2>5. harq[p].area \in Nat \ {0}
    BY <2>2
  <2> QED BY <2>1, <2>3, <2>4, <2>5
<1>2. a \in Accs /\ a.sym = s /\ a.rbg \in 0..W /\ W \in Nat
  BY PlaneAssumption DEF Good, Accs
<1>3. CASE HasDci(a, p) \/ ~Fits(a, p, k)
  BY <1>3 DEF TryRetx
<1>4. CASE ~(HasDci(a, p) \/ ~Fits(a, p, k))
  <2> DEFINE len == FittingRbg(p, k)
             d0 == [proc |-> p, sym |-> a.sym, num |-> k, rbg |-> a.rbg, len |-> len]
             c == TryRetx(a, p, k)
  <2>1. p[1] \notin a.ues /\ (W - a.rbg) * k >= Area(p)
    BY <1>4 DEF HasDci, Fits
  <2>2. k # 0
    BY <1>1, <1>2, <2>1
  <2>3. len \in Nat /\ k * len >= Area(p) /\ len <= W - a.rbg
    <3>1. W - a.rbg \in Nat /\ Area(p) <= (W - a.rbg) * k /\ k \in Nat \ {0}
      BY <1>2, <2>1, <2>2
    <3> QED BY <1>1, <3>1, DivUp DEF FittingRbg
  <2>4. /\ c = [a EXCEPT !.rbg = @ + len, !.ues = @ \cup {p[1]}, !.dcis = @ \cup {d0}]
        /\ d0 \in Dcis
    BY <1>1, <1>2, <1>4, <2>3 DEF TryRetx, Dcis
  <2> HIDE DEF len, c
  <2>5. /\ c \in Accs /\ c.sym = s /\ c.rbg = a.rbg + len
        /\ c.ues = a.ues \cup {p[1]} /\ c.dcis = a.dcis \cup {d0}
    <3>1. a.sym \in Nat /\ a.rbg \in Nat /\ a.ues \in SUBSET UEs /\ a.dcis \in SUBSET Dcis
      BY <1>2 DEF Accs
    <3>2. /\ a.rbg + len \in Nat /\ a.ues \cup {p[1]} \in SUBSET UEs
          /\ a.dcis \cup {d0} \in SUBSET Dcis
      BY <1>1, <2>3, <2>4, <3>1
    <3>3. c = [sym |-> a.sym, rbg |-> a.rbg + len, ues |-> a.ues \cup {p[1]},
               dcis |-> a.dcis \cup {d0}]
      BY <1>2, <2>4 DEF Accs
    <3> QED BY <1>2, <3>1, <3>2, <3>3 DEF Accs
  <2>6. /\ d0.proc = p /\ d0.sym = s /\ d0.num = k /\ d0.rbg = a.rbg /\ d0.len = len
    BY <1>2
  <2> HIDE DEF d0
  <2>7. IsRetx(d0, k)
    <3>1. k * len >= harq[p].area
      BY <1>1, <2>3
    <3> QED BY <1>1, <1>2, <2>3, <2>6, <3>1 DEF IsRetx
  <2>8. ASSUME NEW e \in a.dcis
        PROVE  /\ e \in Dcis /\ e.proc[1] # p[1]
               /\ Disjoint(e, d0) /\ Disjoint(d0, e)
               /\ IsRetx(e, k)
               /\ \/ e.sym + k <= s /\ beamOf[e.proc[1]] \in past
                  \/ e.sym = s /\ e.rbg + e.len <= c.rbg /\ e.proc[1] \in c.ues
    <3>1. e \in Dcis /\ e.sym \in Nat /\ e.num \in Nat /\ e.rbg \in Nat /\ e.len \in Nat
      BY <1>2 DEF Accs, Dcis
    <3>2. IsRetx(e, k) /\ e.num = k
      BY DEF Good, IsRetx
    <3>3. CASE e.sym + k <= s /\ beamOf[e.proc[1]] \in past
      <4>1. e.proc[1] # p[1]
        BY <1>1, <3>3
      <4>2. Disjoint(e, d0) /\ Disjoint(d0, e)
        BY <2>6, <3>1, <3>2, <3>3 DEF Disjoint
      <4> QED BY <3>1, <3>2, <3>3, <4>1, <4>2
    <3>4. CASE e.sym = s /\ e.rbg + e.len <= a.rbg /\ e.proc[1] \in a.ues
      <4>1. e.proc[1] # p[1]
        BY <2>1, <3>4
      <4>2. Disjoint(e, d0) /\ Disjoint(d0, e)
        BY <2>6, <3>1, <3>4 DEF Disjoint
      <4>3. e.rbg + e.len <= c.rbg /\ e.proc[1] \in c.ues
        BY <1>2, <2>3, <2>5, <3>1, <3>4
      <4> QED BY <3>1, <3>2, <3>4, <4>1, <4>2, <4>3
    <3> QED BY <3>3, <3>4 DEF Good
  <2>9. Apart(c.dcis)
    <3>1. Apart(a.dcis)
      BY DEF Good
    <3> QED BY <2>5, <2>6, <2>8, <3>1 DEF Apart
  <2>10. d0.sym = s /\ d0.rbg + d0.len <= c.rbg /\ d0.proc[1] \in c.ues
    BY <1>2, <2>3, <2>5, <2>6
  <2>11. c.rbg <= W /\ (c.ues = {} => c.rbg = 0) /\ \A u \in c.ues : beamOf[u] = b
    BY <1>1, <1>2, <2>3, <2>5 DEF Good
  <2>12. \A d \in c.dcis :
           /\ IsRetx(d, k)
           /\ \/ d.sym + k <= s /\ beamOf[d.proc[1]] \in past
              \/ d.sym = s /\ d.rbg + d.len <= c.rbg /\ d.proc[1] \in c.ues
    BY <2>5, <2>7, <2>8, <2>10
  <2> QED BY <2>5, <2>9, <2>11, <2>12 DEF Good, c
<1> QED BY <1>3, <1>4

\* The inner loop, whatever its operation keeps.
Tried(acc, order, k) == FoldLeft(LAMBDA a, p : TryRetx(a, p, k), acc, order)

LEMMA RetxFold ==
  ASSUME NEW n \in Nat, NEW order, DOMAIN order = 1..n, NEW k, NEW A, NEW acc \in A,
         \A a \in A : \A i \in 1..n : TryRetx(a, order[i], k) \in A
  PROVE  Tried(acc, order, k) \in A
<1> DEFINE op == [x \in (1..n) \X A |-> TryRetx(x[2], order[x[1]], k)]
           Eq(f) == f = [s \in SUBSET (1..n) |->
                           IF s = {} THEN acc ELSE TryRetx(f[s \ {Max(s)}], order[Max(s)], k)]
           it == CHOOSE f : Eq(f)
           T == {i \in 0..n : it[1..i] \in A}
<1>1. op \in [(1..n) \X A -> A]
  OBVIOUS
<1>2. \A i \in 1..n, a \in A : op[<<i, a>>] = TryRetx(a, order[i], k)
  OBVIOUS
<1> HIDE DEF op
<1>3. PICK g \in [SUBSET (1..n) -> A] : IsFold(g, n, acc, op)
  BY <1>1, FoldExists
<1>4. Eq(g)
  <2>1. \A s \in SUBSET (1..n) : s # {} => Max(s) \in 1..n /\ g[s \ {Max(s)}] \in A
    BY MaxPosition
  <2>2. \A s \in SUBSET (1..n) :
          s # {} => op[<<Max(s), g[s \ {Max(s)}]>>] = TryRetx(g[s \ {Max(s)}], order[Max(s)], k)
    BY <1>2, <2>1
  <2> QED BY <1>3, <2>2 DEF IsFold
<1>5. Eq(it)
  BY <1>4
<1>6. Tried(acc, order, k) = it[1..n]
  BY DEF Tried, FoldLeft, MapThenFoldSet
<1> HIDE DEF it
<1>7. 0 \in T
  <2>1. it[{}] = acc /\ 1..0 = {}
    BY <1>5
  <2> QED BY <2>1
<1>8. \A i \in 1..n : i - 1 \in T => i \in T
  <2> SUFFICES ASSUME NEW i \in 1..n, it[1..(i - 1)] \in A PROVE it[1..i] \in A
    OBVIOUS
  <2>1. Max(1..i) = i /\ (1..i) \ {i} = 1..(i - 1) /\ 1..i # {} /\ 1..i \in SUBSET (1..n)
    BY MaxOfFirst
  <2>2. it[1..i] = TryRetx(it[1..(i - 1)], order[i], k)
    BY <1>5, <2>1
  <2> QED BY <2>2
<1>9. n \in T
  <2> HIDE DEF T
  <2>1. n \in 0..n
    OBVIOUS
  <2> QED BY <1>7, <1>8, <2>1, UpTo
<1> QED BY <1>6, <1>9

\* The processes of a beam, in the order of SortDlHarq.
LEMMA OrderType ==
  ASSUME NEW S, IsFiniteSet(S), NEW order \in SortedDlHarq(S)
  PROVE  /\ Cardinality(S) \in Nat /\ DOMAIN order = 1..Cardinality(S)
         /\ \A i \in 1..Cardinality(S) : order[i] \in S
<1>1. Cardinality(S) \in Nat
  BY FS_CardinalityType
<1> QED BY <1>1 DEF SortedDlHarq, SetToSeqs

\* One beam.
LEMMA BeamDone ==
  ASSUME IInv, NEW past, NEW b, b \notin past, NEW k \in Nat, NEW a, Done(a, past, k),
         NEW order \in SortedDlHarq(ActiveHarq(b))
  PROVE  /\ Done(ScheduleBeam(a, order, k), past \cup {b}, k)
         /\ ScheduleBeam(a, order, k).sym <= a.sym + k
<1> DEFINE s == a.sym
           A == {c \in Accs : Good(c, past, b, s, k)}
           e == Tried(a, order, k)
           n == Cardinality(ActiveHarq(b))
<1>1. n \in Nat /\ DOMAIN order = 1..n /\ \A i \in 1..n : order[i] \in ActiveHarq(b)
  <2>1. ActiveHarq(b) \subseteq Procs
    BY DEF ActiveHarq, Nacked
  <2>2. IsFiniteSet(ActiveHarq(b))
    BY <2>1, ProcsAssumption, FS_Subset
  <2> QED BY <2>2, OrderType
<1>2. s \in Nat /\ a \in A
  <2>1. a \in Accs /\ s \in Nat /\ W \in Nat
    BY PlaneAssumption DEF Done, Accs
  <2>2. Good(a, past, b, s, k)
    BY <2>1 DEF Done, Good
  <2> QED BY <2>1, <2>2
<1>3. \A c \in A : \A i \in 1..n : TryRetx(c, order[i], k) \in A
  <2> SUFFICES ASSUME NEW c \in A, NEW i \in 1..n PROVE TryRetx(c, order[i], k) \in A
    OBVIOUS
  <2>1. Good(TryRetx(c, order[i], k), past, b, s, k)
    BY <1>1, <1>2, TryRetxGood
  <2> QED BY <2>1 DEF Good
<1>4. e \in A
  <2> HIDE DEF A, n
  <2> QED BY <1>1, <1>2, <1>3, RetxFold
<1>5. ScheduleBeam(a, order, k) = NextBeam(e, k) /\ Good(e, past, b, s, k)
  BY <1>4 DEF ScheduleBeam, Tried
<1> HIDE DEF e
<1>6. CASE e.ues = {}
  <2>1. NextBeam(e, k) = e /\ e.sym = s /\ e.sym <= s + k
    BY <1>2, <1>5, <1>6 DEF NextBeam, Good
  <2>2. Done(e, past \cup {b}, k)
    <3>1. \A d \in e.dcis : IsRetx(d, k) /\ d.sym + k <= e.sym /\ beamOf[d.proc[1]] \in past \cup {b}
      BY <1>5, <1>6 DEF Good
    <3> QED BY <1>5, <1>6, <3>1 DEF Good, Done
  <2> QED BY <1>5, <2>1, <2>2
<1>7. CASE e.ues # {}
  <2> DEFINE c == NextBeam(e, k)
  <2>1. /\ c \in Accs /\ c.sym = s + k /\ c.rbg = 0 /\ c.ues = {} /\ c.dcis = e.dcis
    <3>1. e \in Accs /\ e.sym = s
      BY <1>5 DEF Good
    <3>2. c = [sym |-> s + k, rbg |-> 0, ues |-> {}, dcis |-> e.dcis]
      BY <1>7, <3>1 DEF NextBeam, Accs
    <3>3. s + k \in Nat /\ {} \in SUBSET UEs /\ e.dcis \in SUBSET Dcis
      BY <1>2, <3>1 DEF Accs
    <3> QED BY <3>2, <3>3 DEF Accs
  <2> HIDE DEF c
  <2>2. ASSUME NEW d \in e.dcis
        PROVE  IsRetx(d, k) /\ d.sym + k <= s + k /\ beamOf[d.proc[1]] \in past \cup {b}
    <3>1. d.sym \in Nat
      BY <1>5 DEF Good, Accs, Dcis
    <3>2. CASE d.sym + k <= s /\ beamOf[d.proc[1]] \in past
      BY <1>2, <1>5, <3>1, <3>2 DEF Good
    <3>3. CASE d.sym = s /\ d.proc[1] \in e.ues
      BY <1>2, <1>5, <3>1, <3>3 DEF Good
    <3> QED BY <1>5, <3>2, <3>3 DEF Good
  <2>3. Done(c, past \cup {b}, k)
    BY <1>5, <2>1, <2>2 DEF Done, Good
  <2> QED BY <1>2, <1>5, <2>1, <2>3 DEF c
<1> QED BY <1>6, <1>7

\* The outer loop, and what it has computed after each beam.
ScheduledBeams(acc, orders, k) ==
  FoldLeft(LAMBDA a, order : ScheduleBeam(a, order, k), acc, orders)

IsRun(run, n, A, acc, orders, k) ==
  /\ run \in [0..n -> A] /\ run[0] = acc
  /\ \A i \in 1..n : run[i] = ScheduleBeam(run[i - 1], orders[i], k)
  /\ run[n] = ScheduledBeams(acc, orders, k)

LEMMA BeamFold ==
  ASSUME NEW n \in Nat, NEW orders, DOMAIN orders = 1..n, NEW k,
         NEW A, NEW acc \in A, \A a \in A : \A i \in 1..n : ScheduleBeam(a, orders[i], k) \in A
  PROVE  \E run : IsRun(run, n, A, acc, orders, k)
<1> DEFINE op == [x \in (1..n) \X A |-> ScheduleBeam(x[2], orders[x[1]], k)]
           Eq(f) == f = [s \in SUBSET (1..n) |->
                      IF s = {} THEN acc ELSE ScheduleBeam(f[s \ {Max(s)}], orders[Max(s)], k)]
           it == CHOOSE f : Eq(f)
           T == {i \in 0..n : it[1..i] \in A}
           run == [i \in 0..n |-> it[1..i]]
<1>1. op \in [(1..n) \X A -> A]
  OBVIOUS
<1>2. \A i \in 1..n, a \in A : op[<<i, a>>] = ScheduleBeam(a, orders[i], k)
  OBVIOUS
<1> HIDE DEF op
<1>3. PICK g \in [SUBSET (1..n) -> A] : IsFold(g, n, acc, op)
  BY <1>1, FoldExists
<1>4. Eq(g)
  <2>1. \A s \in SUBSET (1..n) : s # {} => Max(s) \in 1..n /\ g[s \ {Max(s)}] \in A
    BY MaxPosition
  <2>2. \A s \in SUBSET (1..n) :
          s # {} => op[<<Max(s), g[s \ {Max(s)}]>>] = ScheduleBeam(g[s \ {Max(s)}], orders[Max(s)], k)
    BY <1>2, <2>1
  <2> QED BY <1>3, <2>2 DEF IsFold
<1>5. Eq(it)
  BY <1>4
<1>6. ScheduledBeams(acc, orders, k) = it[1..n]
  BY DEF ScheduledBeams, FoldLeft, MapThenFoldSet
<1> HIDE DEF it
<1>7. 0 \in T /\ it[1..0] = acc
  <2>1. it[{}] = acc /\ 1..0 = {}
    BY <1>5
  <2> QED BY <2>1
<1>8. \A i \in 1..n : it[1..i] = ScheduleBeam(it[1..(i - 1)], orders[i], k)
  <2> TAKE i \in 1..n
  <2>1. Max(1..i) = i /\ (1..i) \ {i} = 1..(i - 1) /\ 1..i # {} /\ 1..i \in SUBSET (1..n)
    BY MaxOfFirst
  <2> QED BY <1>5, <2>1
<1>9. \A i \in 0..n : i \in T
  <2>1. \A i \in 1..n : i - 1 \in T => i \in T
    BY <1>8
  <2> HIDE DEF T
  <2> QED BY <1>7, <2>1, UpTo
<1>10. run \in [0..n -> A]
  BY <1>9
<1>11. run[0] = acc /\ run[n] = it[1..n]
  BY <1>7
<1>12. \A i \in 1..n : run[i] = ScheduleBeam(run[i - 1], orders[i], k)
  BY <1>8
<1> HIDE DEF run
<1> QED BY <1>6, <1>10, <1>11, <1>12 DEF IsRun

\* The type alone is kept from any point of the plane.
LEMMA TryRetxType ==
  ASSUME IInv, NEW k \in Nat, NEW a \in Accs, NEW p \in Nacked
  PROVE  TryRetx(a, p, k) \in Accs
<1>1. CASE HasDci(a, p) \/ ~Fits(a, p, k)
  BY <1>1 DEF TryRetx
<1>2. CASE ~(HasDci(a, p) \/ ~Fits(a, p, k))
  <2> DEFINE len == FittingRbg(p, k)
             d0 == [proc |-> p, sym |-> a.sym, num |-> k, rbg |-> a.rbg, len |-> len]
  <2>1. /\ a.sym \in Nat /\ a.rbg \in Nat /\ a.ues \in SUBSET UEs /\ a.dcis \in SUBSET Dcis
        /\ W \in Nat
    BY PlaneAssumption DEF Accs
  <2>2. p \in Procs /\ p[1] \in UEs /\ Area(p) \in Nat \ {0}
    <3>1. p \in Procs /\ harq[p].st = "nacked" /\ p[1] \in UEs
      BY DEF Nacked, UEs
    <3>2. /\ harq[p].sym \in 0..Syms /\ harq[p].rbg \in Nat /\ harq[p].area \in 1..(Syms * W)
          /\ Area(p) >= harq[p].area
      BY <3>1 DEF IInv, TypeOK, RoomForTb
    <3> QED BY <3>1, <3>2, SymsType DEF Area
  <2>3. k # 0
    BY <1>2, <2>1, <2>2 DEF Fits
  <2>4. len \in Nat
    <3>1. k \in Nat \ {0} /\ Area(p) <= Area(p) * k
      BY <2>2, <2>3
    <3> QED BY <2>2, <3>1, DivUp DEF FittingRbg
  <2>5. TryRetx(a, p, k) = [sym |-> a.sym, rbg |-> a.rbg + len, ues |-> a.ues \cup {p[1]},
                            dcis |-> a.dcis \cup {d0}]
    BY <1>2 DEF TryRetx, Accs
  <2>6. d0 \in Dcis
    BY <2>1, <2>2, <2>4 DEF Dcis
  <2>7. /\ a.rbg + len \in Nat /\ a.ues \cup {p[1]} \in SUBSET UEs
        /\ a.dcis \cup {d0} \in SUBSET Dcis
    BY <2>1, <2>2, <2>4, <2>6
  <2> HIDE DEF len, d0
  <2> QED BY <2>1, <2>5, <2>7 DEF Accs
<1> QED BY <1>1, <1>2

LEMMA ScheduleBeamType ==
  ASSUME IInv, NEW k \in Nat, NEW a \in Accs, NEW n \in Nat, NEW order, DOMAIN order = 1..n,
         \A i \in 1..n : order[i] \in Nacked
  PROVE  ScheduleBeam(a, order, k) \in Accs
<1> DEFINE e == Tried(a, order, k)
<1>1. \A c \in Accs : \A i \in 1..n : TryRetx(c, order[i], k) \in Accs
  BY TryRetxType
<1>2. e \in Accs
  BY <1>1, RetxFold
<1>3. ScheduleBeam(a, order, k) = NextBeam(e, k)
  BY DEF ScheduleBeam, Tried
<1> HIDE DEF e
<1>4. e.sym \in Nat /\ e.sym + k \in Nat /\ e.dcis \in SUBSET Dcis /\ {} \in SUBSET UEs
  BY <1>2 DEF Accs
<1>5. CASE e.ues # {}
  <2>1. NextBeam(e, k) = [sym |-> e.sym + k, rbg |-> 0, ues |-> {}, dcis |-> e.dcis]
    BY <1>2, <1>5 DEF NextBeam, Accs
  <2> QED BY <1>3, <1>4, <2>1 DEF Accs
<1>6. CASE e.ues = {}
  BY <1>2, <1>3, <1>6 DEF NextBeam
<1> QED BY <1>5, <1>6

\* What a slot is given: k symbols of it for each of the n beams.
LEMMA Placed ==
  ASSUME IInv, NEW symAvail \in SlotSyms, NEW placed \in Placements(symAvail)
  PROVE  /\ placed \in Accs /\ placed.sym <= symAvail
         /\ \E k \in 0..symAvail : \A d \in placed.dcis : IsRetx(d, k) /\ d.sym + k <= placed.sym
         /\ Apart(placed.dcis)
<1>1. symAvail \in 1..13
  BY PlaneAssumption
<1>2. CASE Nacked = {}
  <2>1. placed = StartPoint
    BY <1>2 DEF Placements
  <2>2. /\ placed.dcis = {} /\ placed.sym = 0 /\ placed.rbg = 0 /\ placed.ues = {}
        /\ placed = [sym |-> 0, rbg |-> 0, ues |-> {}, dcis |-> {}]
    BY <2>1 DEF StartPoint
  <2>3. placed \in Accs
    BY <2>2 DEF Accs
  <2>4. 0 \in 0..symAvail /\ 0 <= symAvail
    BY <1>1
  <2> QED BY <2>2, <2>3, <2>4 DEF Apart
<1>3. CASE Nacked # {}
  <2>1. PICK beams \in SetToSeqs(ActiveBeams) :
          \E orders \in [DOMAIN beams -> SetToAllKPermutations(Nacked)] :
            /\ \A i \in DOMAIN beams : orders[i] \in SortedDlHarq(ActiveHarq(beams[i]))
            /\ placed = ScheduleDlHarq(symAvail, orders)
    BY <1>3 DEF Placements
  <2>2. PICK orders \in [DOMAIN beams -> SetToAllKPermutations(Nacked)] :
            /\ \A i \in DOMAIN beams : orders[i] \in SortedDlHarq(ActiveHarq(beams[i]))
            /\ placed = ScheduleDlHarq(symAvail, orders)
    BY <2>1
  <2> DEFINE n == Cardinality(ActiveBeams)  k == symAvail \div Len(orders)
             Past(i) == {beams[j] : j \in 1..i}
  <2>3. n \in Nat \ {0} /\ DOMAIN beams = 1..n
        /\ \A i, j \in 1..n : i # j => beams[i] # beams[j]
    <3>1. IsFiniteSet(Nacked)
      BY ProcsAssumption, FS_Subset DEF Nacked
    <3>2. IsFiniteSet(ActiveBeams)
      <4> DEFINE f == [p \in Nacked |-> beamOf[p[1]]]
      <4>1. f \in Surjection(Nacked, ActiveBeams)
        BY DEF Surjection, ActiveBeams
      <4> QED BY <3>1, <4>1, FS_Surjection
    <3>3. ActiveBeams # {}
      BY <1>3 DEF ActiveBeams
    <3>4. n \in Nat /\ n # 0
      BY <3>2, <3>3, FS_CardinalityType, FS_EmptySet
    <3> QED BY <3>4 DEF SetToSeqs
  <2> HIDE DEF n
  <2>4. DOMAIN orders = 1..n /\ Len(orders) = n
    <3>1. DOMAIN orders = 1..n
      BY <2>3
    <3>2. orders \in Seq(SetToAllKPermutations(Nacked))
      BY <2>3
    <3>3. Len(orders) \in Nat /\ DOMAIN orders = 1..Len(orders)
      BY <3>2, LenProperties
    <3>4. 1..n = 1..Len(orders)
      BY <3>1, <3>3
    <3> QED BY <2>3, <3>1, <3>3, <3>4
  <2>5. k \in Nat /\ n * k <= symAvail /\ k <= symAvail
    <3>1. symAvail \in Nat
      BY <1>1
    <3>2. symAvail \div n \in Nat /\ n * (symAvail \div n) <= symAvail /\ symAvail \div n <= symAvail
      BY <2>3, <3>1, Share
    <3> QED BY <2>4, <3>2
  <2>6. placed = ScheduledBeams(StartPoint, orders, k)
    BY <2>2 DEF ScheduleDlHarq, ScheduledBeams
  <2> HIDE DEF k
  <2>7. \A a \in Accs : \A i \in 1..n : ScheduleBeam(a, orders[i], k) \in Accs
    <3> TAKE a \in Accs
    <3> TAKE i \in 1..n
    <3> DEFINE S == ActiveHarq(beams[i])
    <3>1. S \subseteq Nacked /\ IsFiniteSet(S)
      <4>1. S \subseteq Nacked /\ S \subseteq Procs
        BY DEF ActiveHarq, Nacked
      <4> QED BY <4>1, ProcsAssumption, FS_Subset
    <3>2. orders[i] \in SortedDlHarq(S)
      BY <2>2, <2>3
    <3> HIDE DEF S
    <3>3. /\ Cardinality(S) \in Nat /\ DOMAIN orders[i] = 1..Cardinality(S)
          /\ \A j \in 1..Cardinality(S) : orders[i][j] \in Nacked
      BY <3>1, <3>2, OrderType
    <3> QED BY <2>5, <3>3, ScheduleBeamType
  <2>8. Done(StartPoint, Past(0), k) /\ StartPoint.sym = 0
    <3>1. StartPoint.dcis = {} /\ StartPoint.rbg = 0 /\ StartPoint.ues = {} /\ StartPoint.sym = 0
      BY DEF StartPoint
    <3>2. StartPoint \in Accs
      BY DEF StartPoint, Accs
    <3> QED BY <3>1, <3>2 DEF Done, Apart
  <2>9. PICK run \in [0..n -> Accs] :
          /\ run[0] = StartPoint /\ \A i \in 1..n : run[i] = ScheduleBeam(run[i - 1], orders[i], k)
          /\ run[n] = placed
    <3>1. StartPoint \in Accs
      BY <2>8 DEF Done
    <3>2. n \in Nat /\ DOMAIN orders = 1..n
      BY <2>3, <2>4
    <3>3. PICK run : IsRun(run, n, Accs, StartPoint, orders, k)
      BY <2>7, <3>1, <3>2, BeamFold
    <3> QED BY <2>6, <3>3 DEF IsRun
  <2> DEFINE T == {i \in 0..n : Done(run[i], Past(i), k) /\ run[i].sym <= i * k}
  <2>10. 0 \in T
    <3>1. 0 \in 0..n /\ 0 * k = 0
      BY <2>3, <2>5
    <3>2. run[0] = StartPoint
      BY <2>9
    <3> QED BY <2>8, <3>1, <3>2
  <2>11. ASSUME NEW i \in 1..n, i - 1 \in T PROVE i \in T
    <3>1. Done(run[i - 1], Past(i - 1), k) /\ run[i - 1].sym <= (i - 1) * k
      BY <2>11
    <3>2. beams[i] \notin Past(i - 1)
      BY <2>3
    <3>3. orders[i] \in SortedDlHarq(ActiveHarq(beams[i]))
      BY <2>2, <2>3
    <3>4. /\ Done(run[i], Past(i - 1) \cup {beams[i]}, k)
          /\ run[i].sym <= run[i - 1].sym + k
      <4> DEFINE past == Past(i - 1)  b == beams[i]  a == run[i - 1]  order == orders[i]
      <4>1. Done(a, past, k) /\ b \notin past /\ order \in SortedDlHarq(ActiveHarq(b))
        BY <3>1, <3>2, <3>3
      <4>2. run[i] = ScheduleBeam(a, order, k)
        BY <2>9
      <4> HIDE DEF past, b, a, order
      <4>3. /\ Done(ScheduleBeam(a, order, k), past \cup {b}, k)
            /\ ScheduleBeam(a, order, k).sym <= a.sym + k
        BY <2>5, <4>1, BeamDone
      <4>4. Done(run[i], past \cup {b}, k) /\ run[i].sym <= a.sym + k
        BY <4>2, <4>3
      <4> QED BY <4>4 DEF past, b, a
    <3>5. Past(i) = Past(i - 1) \cup {beams[i]}
      <4>1. 1..i = (1..(i - 1)) \cup {i}
        OBVIOUS
      <4> QED BY <4>1
    <3>6. run[i].sym <= i * k
      <4>1. run[i].sym \in Nat /\ run[i - 1].sym \in Nat /\ i - 1 \in Nat /\ i \in Nat
        <5>1. i - 1 \in 0..n /\ i \in 0..n /\ i - 1 \in Nat /\ i \in Nat
          BY <2>3
        <5> QED BY <2>9, <5>1 DEF Accs
      <4>2. (i - 1) * k + k = i * k
        BY <2>5, <4>1
      <4>3. (i - 1) * k \in Nat /\ i * k \in Nat
        BY <2>5, <4>1
      <4> QED BY <2>5, <3>1, <3>4, <4>1, <4>2, <4>3
    <3>7. i \in 0..n
      OBVIOUS
    <3> QED BY <3>4, <3>5, <3>6, <3>7
  <2>12. Done(placed, Past(n), k) /\ placed.sym <= n * k
    <3>1. n \in T
      <4>1. n \in Nat /\ n \in 0..n
        BY <2>3
      <4> HIDE DEF T
      <4> QED BY <2>10, <2>11, <4>1, UpTo
    <3> QED BY <2>9, <3>1
  <2>13. placed.sym <= symAvail
    <3>1. placed.sym \in Nat /\ n * k \in Nat
      BY <2>3, <2>5, <2>12 DEF Done, Accs
    <3> QED BY <1>1, <2>5, <2>12, <3>1
  <2>14. k \in 0..symAvail
    BY <1>1, <2>5
  <2> QED BY <2>12, <2>13, <2>14 DEF Done
<1> QED BY <1>2, <1>3

(***************************************************************************)
(* The invariant is inductive                                              *)
(***************************************************************************)
LEMMA InitInv == Init => IInv
<1> SUFFICES ASSUME Init PROVE IInv
  OBVIOUS
<1>1. Syms \in SlotSyms /\ Syms \in 1..13 /\ W \in Nat \ {0} /\ MaxRv \in Nat /\ MaxTb \in Nat
  BY SymsType, PlaneAssumption, BoundAssumption
<1>2. 1 \in 1..(Syms * W) /\ 1 \in 0..Syms /\ 0 \in 0..MaxRv /\ 0 \in 0..MaxTb
  <2>1. Syms * W >= 1
    BY <1>1
  <2> QED BY <1>1, <2>1
<1>3. \A p \in Procs : harq[p] = [st |-> "free", sym |-> 1, rbg |-> 1, rv |-> 0, area |-> 1, tb |-> 0]
  BY DEF Init, Freed
<1>4. TypeOK
  <2>1. [st |-> "free", sym |-> 1, rbg |-> 1, rv |-> 0, area |-> 1, tb |-> 0] \in
           [st : States, sym : 0..Syms, rbg : Nat, rv : 0..MaxRv, area : 1..(Syms * W), tb : 0..MaxTb]
    BY <1>2 DEF States
  <2>2. harq = [p \in Procs |-> Freed(0)]
    BY DEF Init
  <2> QED BY <1>1, <2>1, <2>2 DEF Init, TypeOK, Freed
<1> QED BY <1>3, <1>4 DEF Init, IInv, RoomForTb, RetxDoNotOverlap, VersionLeft

\* One slot: retransmissions keep the room of their TB, new ones begin with theirs.
LEMMA TriggerInv == ASSUME IInv, NEW symAvail \in SlotSyms, DlTrigger(symAvail) PROVE IInv'
<1> DEFINE symLeft(placed) == symAvail - placed.sym
           Sent(placed, fresh, shape) ==
          /\ harq' = [p \in Procs |->
               IF p \in fresh
                 THEN [st |-> "sent", sym |-> shape[p].sym, rbg |-> shape[p].rbg, rv |-> 0,
                       area |-> shape[p].sym * shape[p].rbg, tb |-> harq[p].tb + 1]
               ELSE IF Resent(placed, p)
                 THEN [harq[p] EXCEPT !.st = "sent", !.rv = @ + 1,
                                !.sym = DciOf(placed, p).num, !.rbg = DciOf(placed, p).len]
               ELSE harq[p]]
          /\ slot' = [sym |-> symAvail, dcis |-> placed.dcis]
          /\ UNCHANGED <<scheduler, beamOf>>
<1>1. PICK placed \in Placements(symAvail) :
        \E fresh \in Insertable(placed, symLeft(placed)) :
        \E shape \in Shapes(fresh, symLeft(placed)) : Sent(placed, fresh, shape)
  BY DEF DlTrigger
<1>11. PICK fresh \in Insertable(placed, symLeft(placed)) :
        \E shape \in Shapes(fresh, symLeft(placed)) : Sent(placed, fresh, shape)
  BY <1>1
<1>2. PICK shape \in [fresh -> [sym : 1..symLeft(placed), rbg : 1..W]] : Sent(placed, fresh, shape)
  BY <1>11 DEF Shapes
<1>3. /\ Syms \in 1..13 /\ symAvail \in 1..13 /\ symAvail <= Syms
      /\ W \in Nat \ {0} /\ MaxRv \in Nat /\ MaxTb \in Nat
  BY SymsType, PlaneAssumption, BoundAssumption
<1>4. PICK k \in 0..symAvail :
        /\ placed \in Accs /\ placed.sym <= symAvail
        /\ \A d \in placed.dcis : IsRetx(d, k) /\ d.sym + k <= placed.sym
        /\ Apart(placed.dcis)
  BY Placed
<1>5. /\ placed.sym \in Nat /\ placed.dcis \in SUBSET Dcis /\ symLeft(placed) \in Int /\ symLeft(placed) <= Syms
  BY <1>3, <1>4 DEF Accs
<1> DEFINE H == [st : States, sym : 0..Syms, rbg : Nat, rv : 0..MaxRv,
                 area : 1..(Syms * W), tb : 0..MaxTb]
<1>6. ASSUME NEW p \in Procs
      PROVE  /\ harq'[p] \in H
             /\ harq'[p].st # "free" => harq'[p].sym * harq'[p].rbg >= harq'[p].area
             /\ harq'[p].st = "nacked" => harq'[p].rv < MaxRv
  <2>0. harq[p] \in H
    BY DEF IInv, TypeOK
  <2>1. CASE p \in fresh
    <3> DEFINE x == shape[p].sym  y == shape[p].rbg
    <3>1. x \in 1..symLeft(placed) /\ y \in 1..W
      BY <2>1
    <3>2. harq'[p] = [st |-> "sent", sym |-> x, rbg |-> y, rv |-> 0, area |-> x * y,
                      tb |-> harq[p].tb + 1]
      BY <1>2, <2>1
    <3> HIDE DEF x, y
    <3>3. harq[p].tb + 1 \in 0..MaxTb
      BY <1>3, <2>0, <2>1 DEF Insertable
    <3>4. x * y \in 1..(Syms * W) /\ x \in 0..Syms /\ y \in Nat /\ x * y \in Nat
      <4>1. x \in Nat /\ 1 <= x /\ x <= Syms /\ y \in Nat /\ 1 <= y /\ y <= W
        BY <1>3, <1>5, <3>1
      <4>2. x * y >= 1 /\ x * y \in Nat
        BY <4>1
      <4>3. x * y <= Syms * y /\ Syms * y <= Syms * W /\ Syms * y \in Nat /\ Syms * W \in Nat
        BY <1>3, <4>1
      <4> QED BY <1>3, <4>1, <4>2, <4>3
    <3> QED BY <1>3, <3>2, <3>3, <3>4 DEF States
  <2>2. CASE p \notin fresh /\ Resent(placed, p)
    <3> DEFINE d == DciOf(placed, p)
    <3>1. d \in placed.dcis /\ d.proc = p
      BY <2>2 DEF Resent, DciOf
    <3>2. harq'[p] = [harq[p] EXCEPT !.st = "sent", !.rv = @ + 1, !.sym = d.num, !.rbg = d.len]
      BY <1>2, <2>2
    <3> HIDE DEF d
    <3>3. d \in Dcis /\ IsRetx(d, k)
      BY <1>4, <1>5, <3>1
    <3>4. /\ d.num = k /\ d.len \in Nat /\ k * d.len >= harq[p].area /\ harq[p].st = "nacked"
      BY <3>1, <3>3 DEF IsRetx, Dcis, Nacked
    <3>5. harq[p].rv < MaxRv
      BY <3>4 DEF IInv, VersionLeft
    <3>6. harq'[p] = [st |-> "sent", sym |-> k, rbg |-> d.len, rv |-> harq[p].rv + 1,
                      area |-> harq[p].area, tb |-> harq[p].tb]
      BY <2>0, <3>2, <3>4
    <3>7. k \in 0..Syms /\ harq[p].rv + 1 \in 0..MaxRv
      BY <1>3, <2>0, <3>5
    <3> QED BY <2>0, <3>4, <3>6, <3>7 DEF States
  <2>3. CASE p \notin fresh /\ ~Resent(placed, p)
    <3>1. harq'[p] = harq[p]
      BY <1>2, <2>3
    <3> QED BY <2>0, <3>1 DEF IInv, RoomForTb, Area, VersionLeft
  <2> QED BY <2>1, <2>2, <2>3
<1>7. slot'.sym = symAvail /\ slot'.dcis = placed.dcis
  BY <1>2
<1>8. TypeOK'
  <2>1. harq' \in [Procs -> H]
    <3>1. DOMAIN harq' = Procs /\ harq' = [p \in Procs |-> harq'[p]]
      BY <1>2
    <3> QED BY <1>6, <3>1
  <2>2. placed.dcis \subseteq [proc : Procs, sym : Nat, num : 0..Syms, rbg : Nat, len : Nat]
    <3> SUFFICES ASSUME NEW d \in placed.dcis
                 PROVE  d \in [proc : Procs, sym : Nat, num : 0..Syms, rbg : Nat, len : Nat]
      OBVIOUS
    <3>1. d \in Dcis /\ d.num = k /\ k \in 0..Syms
      BY <1>3, <1>4, <1>5 DEF IsRetx
    <3> QED BY <3>1 DEF Dcis
  <2> QED BY <1>2, <1>7, <2>1, <2>2 DEF IInv, TypeOK
<1>9. RetxDoNotOverlap'
  <2> SUFFICES ASSUME NEW d \in placed.dcis
               PROVE  /\ d.sym + d.num <= symAvail /\ d.rbg + d.len <= W
                      /\ \A e \in placed.dcis : d = e \/ (Disjoint(d, e) /\ d.proc[1] # e.proc[1])
    BY <1>7 DEF RetxDoNotOverlap, Disjoint
  <2>1. d.sym \in Nat /\ d.num = k /\ d.rbg + d.len <= W /\ d.sym + k <= placed.sym
    BY <1>4, <1>5 DEF IsRetx, Dcis
  <2> QED BY <1>3, <1>4, <1>5, <2>1 DEF Apart
<1>10. RoomForTb' /\ VersionLeft'
  BY <1>6 DEF RoomForTb, Area, VersionLeft
<1> QED BY <1>8, <1>9, <1>10 DEF IInv

LEMMA FeedbackInv ==
  ASSUME IInv, NEW p \in Procs, NEW ack \in BOOLEAN, Feedback(p, ack) PROVE IInv'
<1> DEFINE H == [st : States, sym : 0..Syms, rbg : Nat, rv : 0..MaxRv,
                 area : 1..(Syms * W), tb : 0..MaxTb]
           new == IF ack \/ harq[p].rv = MaxRv THEN Freed(harq[p].tb)
                                               ELSE [harq[p] EXCEPT !.st = "nacked"]
<1>1. harq[p].st = "sent" /\ harq' = [harq EXCEPT ![p] = new] /\ UNCHANGED <<scheduler, beamOf, slot>>
  BY DEF Feedback
<1>2. harq \in [Procs -> H]
  BY DEF IInv, TypeOK
<1>3. MaxRv \in Nat /\ Syms \in 1..13 /\ W \in Nat \ {0}
  BY SymsType, PlaneAssumption, BoundAssumption
<1>4. /\ new \in H
      /\ new.st # "free" => new.sym * new.rbg >= new.area
      /\ new.st = "nacked" => new.rv < MaxRv
  <2>1. CASE ack \/ harq[p].rv = MaxRv
    <3>1. new = [st |-> "free", sym |-> 1, rbg |-> 1, rv |-> 0, area |-> 1, tb |-> harq[p].tb]
      BY <2>1 DEF Freed
    <3>2. Syms * W >= 1 /\ Syms * W \in Nat
      BY <1>3
    <3> QED BY <1>2, <1>3, <3>1, <3>2 DEF States
  <2>2. CASE ~(ack \/ harq[p].rv = MaxRv)
    <3>1. new = [st |-> "nacked", sym |-> harq[p].sym, rbg |-> harq[p].rbg, rv |-> harq[p].rv,
                 area |-> harq[p].area, tb |-> harq[p].tb]
      BY <1>2, <2>2
    <3>2. harq[p].sym * harq[p].rbg >= harq[p].area
      BY <1>1 DEF IInv, RoomForTb, Area
    <3> QED BY <1>2, <1>3, <2>2, <3>1, <3>2 DEF States
  <2> QED BY <2>1, <2>2
<1> HIDE DEF new
<1>5. harq' \in [Procs -> H]
  BY <1>1, <1>2, <1>4
<1>6. ASSUME NEW q \in Procs
      PROVE  /\ harq'[q].st # "free" => harq'[q].sym * harq'[q].rbg >= harq'[q].area
             /\ harq'[q].st = "nacked" => harq'[q].rv < MaxRv
  <2>1. CASE q = p
    BY <1>1, <1>2, <1>4, <2>1
  <2>2. CASE q # p
    <3>1. harq'[q] = harq[q]
      BY <1>1, <1>2, <2>2
    <3> QED BY <3>1 DEF IInv, RoomForTb, Area, VersionLeft
  <2> QED BY <2>1, <2>2
<1>7. TypeOK'
  BY <1>1, <1>5 DEF IInv, TypeOK
<1>8. RoomForTb' /\ VersionLeft'
  BY <1>6 DEF RoomForTb, Area, VersionLeft
<1>9. RetxDoNotOverlap'
  BY <1>1 DEF IInv, RetxDoNotOverlap, Disjoint
<1> QED BY <1>7, <1>8, <1>9 DEF IInv

\* The beam of a UE may change while its NACK is buffered: no part of the invariant
\* names a beam, only what Good says within one slot.
LEMMA ChangeBeamInv ==
  ASSUME IInv, NEW u \in UEs, NEW b \in Beams, ChangeBeam(u, b) PROVE IInv'
BY DEF ChangeBeam, IInv, TypeOK, RoomForTb, Area, RetxDoNotOverlap, Disjoint, VersionLeft

\* In every slot the module can reach the invariant holds.
LEMMA Invariance == Spec => []IInv
<1>1. IInv /\ [Next]_vars => IInv'
  <2> SUFFICES ASSUME IInv, [Next]_vars PROVE IInv'
    OBVIOUS
  <2>1. CASE \E symAvail \in SlotSyms : DlTrigger(symAvail)
    BY <2>1, TriggerInv
  <2>2. CASE \E u \in UEs : \E b \in Beams : ChangeBeam(u, b)
    BY <2>2, ChangeBeamInv
  <2>3. CASE \E p \in Procs : \E ack \in BOOLEAN : Feedback(p, ack)
    BY <2>3, FeedbackInv
  <2>4. CASE UNCHANGED vars
    BY <2>4 DEF vars, IInv, TypeOK, RoomForTb, Area, RetxDoNotOverlap, Disjoint, VersionLeft
  <2> QED BY <2>1, <2>2, <2>3, <2>4 DEF Next
<1> QED BY <1>1, InitInv, PTL DEF Spec

(***************************************************************************)
(* The theorems                                                            *)
(***************************************************************************)
\* Every variable keeps its type; in particular no redundancy version beyond the last
\* one is sent (ProcessHARQFeedbacks frees the process before).
THEOREM TypeCorrect == Spec => []TypeOK
<1>1. IInv => TypeOK
  BY DEF IInv
<1> QED BY <1>1, Invariance, PTL

\* The DCIs that ScheduleDlHarq makes for a slot lie in the symbols and the bandwidth of
\* the slot, are disjoint, and go to different UEs, whatever was sent before and however
\* the UEs are spread over the beams.
THEOREM NoOverlap == Spec => []RetxDoNotOverlap
<1>1. IInv => RetxDoNotOverlap
  BY DEF IInv
<1> QED BY <1>1, Invariance, PTL

\* A transport block that is reshaped to the symbols of its beam (rbg rounded up) never
\* has less room than it was first given.
THEOREM RoomKept == Spec => []RoomForTb
<1>1. IInv => RoomForTb
  BY DEF IInv
<1> QED BY <1>1, Invariance, PTL
============================================================================
