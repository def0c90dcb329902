--------------------------- MODULE UlHarq_proofs ---------------------------
(***************************************************************************)
(* Theorems about UlHarq, for every number of UEs, of HARQ processes, of   *)
(* transport blocks and of symbols in a slot, as long as a feedback is     *)
(* processed at most NumHarqProcess + 1 triggers after its grant.          *)
(***************************************************************************)
EXTENDS UlHarq, SequenceElements

(***************************************************************************)
(* The invariant that carries the proof.                                   *)
(***************************************************************************)
Fbs(s) == {s[k] : k \in DOMAIN s}

\* No two elements of a sequence of feedback are about the same process.
Distinct(s) == \A j, k \in DOMAIN s : s[j].proc = s[k].proc => j = k

StatusOK == \A p \in Proc :
  /\ harq[p].active <=> harq[p].status # "INACTIVE"
  /\ harq[p].active => harq[p].tb > 0
  /\ harq[p].rv <= MaxHarqReTx(p[1])

\* What is in the air was sent by the last grant of its process, whose timer
\* has counted the triggers since.
AirOK == \A m \in air :
  /\ harq[m.proc].active
  /\ harq[m.proc].tb = m.tb
  /\ harq[m.proc].rv = m.rv
  /\ harq[m.proc].timer = m.age

FeedbackOK == \A f \in Fbs(toRetx) \cup Fbs(ulInfo) :
  /\ harq[f.proc].active
  /\ harq[f.proc].tb = f.tb

\* A process has one thing under way at most, wherever it is.
OneFeedback ==
  /\ \A m, n \in air : m.proc = n.proc => m = n
  /\ Distinct(ulInfo) /\ Distinct(toRetx)
  /\ \A m \in air, f \in Fbs(toRetx) \cup Fbs(ulInfo) : m.proc # f.proc
  /\ \A f \in Fbs(toRetx), g \in Fbs(ulInfo) : f.proc # g.proc

DecodedOK ==
  /\ \A p \in Proc : \A t \in 1..MaxTb : <<p, t>> \in decoded => t <= harq[p].tb
  /\ \A m \in air : <<m.proc, m.tb>> \notin decoded
  /\ \A f \in Fbs(toRetx) \cup Fbs(ulInfo) : ~f.ack => <<f.proc, f.tb>> \notin decoded

\* What the UE sends for the TB in its buffer: a PDU, or a BSR when there is none.
Kind(p) == IF ueBuf[p] = 0 THEN "bsr" ELSE "pdu"

\* The gNB keeps receptions of this and of earlier TBs; those of this one are of
\* the kind that the UE's buffer makes it send again.
HistOK == \A p \in Proc : \A k \in DOMAIN hist[p] :
  /\ hist[p][k].tb <= harq[p].tb
  /\ hist[p][k].tb = harq[p].tb => hist[p][k].st = Kind(p)

\* From the answer to its first DCI on, the UE's buffer is about the TB of its process.
BufOK ==
  /\ \A m \in air : IF m.st = "dci" /\ m.rv = 0
                    THEN \A k \in DOMAIN hist[m.proc] : hist[m.proc][k].tb # m.tb
                    ELSE ueBuf[m.proc] \in {0, m.tb}
  /\ \A m \in air : m.st # "dci" => m.st = Kind(m.proc)
  /\ \A f \in Fbs(toRetx) \cup Fbs(ulInfo) : ueBuf[f.proc] \in {0, f.tb}

TypeInv == TypeOK /\ StatusOK

IInv == TypeInv /\ AirOK /\ FeedbackOK /\ OneFeedback /\ DecodedOK /\ HistOK /\ BufOK

(***************************************************************************)
(* The operators of the scheduler.                                         *)
(***************************************************************************)
LEMMA MaxHarqReTxValue == ASSUME NEW u PROVE MaxHarqReTx(u) \in {0, 3}
  BY DEF MaxHarqReTx

\* ResetExpiredHARQ keeps the type of a process, its TB, and what survives.
LEMMA AgedType ==
  ASSUME TypeOK, StatusOK, NEW p \in Proc
  PROVE  /\ Aged[p] \in Process
         /\ Aged[p].tb = harq[p].tb
         /\ Aged[p].rv <= MaxHarqReTx(p[1])
         /\ Aged[p].active <=> Aged[p].status # "INACTIVE"
         /\ Aged[p].active => harq[p].active /\ p \notin Expired /\ Aged[p].rv = harq[p].rv
         /\ harq[p].active /\ p \notin Expired =>
              Aged[p] = [harq[p] EXCEPT !.timer = @ + 1] /\ Aged[p].active
<1>1. harq[p] \in Process
  BY DEF TypeOK
<1>2. CASE harq[p].status = "INACTIVE"
  <2>1. Aged[p] = harq[p]
    BY <1>2 DEF Aged
  <2> QED BY <1>1, <1>2, <2>1 DEF StatusOK
<1>3. CASE harq[p].status # "INACTIVE" /\ p \in Expired
  <2>1. Aged[p] = InactiveProcess(harq[p].tb)
    BY <1>3 DEF Aged
  <2>2. InactiveProcess(harq[p].tb) \in Process
    BY <1>1, NumAssumption DEF InactiveProcess, Process, Status
  <2> QED BY <1>1, <1>3, <2>1, <2>2, MaxHarqReTxValue DEF InactiveProcess, StatusOK
<1>4. CASE harq[p].status # "INACTIVE" /\ p \notin Expired
  <2>1. Aged[p] = [harq[p] EXCEPT !.timer = @ + 1]
    BY <1>4 DEF Aged
  <2>2. harq[p].timer < NumHarqProcess
    BY <1>1, <1>4, NumAssumption DEF Expired, Process
  <2> QED BY <1>1, <1>4, <2>1, <2>2, NumAssumption DEF StatusOK, Process
<1> QED BY <1>2, <1>3, <1>4

\* MergeHARQ: the buffered feedback and the received one, one of each process.
LEMMA MergedElements ==
  ASSUME IInv
  PROVE  /\ Merged \in Seq(Feedback) /\ Len(Merged) \in Nat /\ DOMAIN Merged = 1..Len(Merged)
         /\ Fbs(Merged) = Fbs(toRetx) \cup Fbs(ulInfo)
         /\ Distinct(Merged)
<1> DEFINE a == Len(toRetx)  b == Len(ulInfo)
<1>1. /\ toRetx \in Seq(Feedback) /\ ulInfo \in Seq(Feedback) /\ a \in Nat /\ b \in Nat
      /\ DOMAIN toRetx = 1..a /\ DOMAIN ulInfo = 1..b
  BY LenProperties DEF IInv, TypeInv, TypeOK
<1>2. /\ Merged \in Seq(Feedback) /\ Len(Merged) = a + b
      /\ \A i \in 1..(a + b) : Merged[i] = IF i <= a THEN toRetx[i] ELSE ulInfo[i - a]
  BY <1>1, ConcatProperties DEF Merged
<1> HIDE DEF a, b
<1>3. DOMAIN Merged = 1..(a + b)
  BY <1>2, LenProperties
<1>4. Fbs(Merged) = Fbs(toRetx) \cup Fbs(ulInfo)
  <2>1. ASSUME NEW i \in 1..(a + b)
        PROVE  Merged[i] \in Fbs(toRetx) \cup Fbs(ulInfo)
    <3>1. CASE i <= a
      <4>1. i \in DOMAIN toRetx /\ Merged[i] = toRetx[i]
        BY <1>1, <1>2, <3>1
      <4> QED BY <4>1 DEF Fbs
    <3>2. CASE ~(i <= a)
      <4>1. i - a \in DOMAIN ulInfo /\ Merged[i] = ulInfo[i - a]
        BY <1>1, <1>2, <3>2
      <4> QED BY <4>1 DEF Fbs
    <3> QED BY <3>1, <3>2
  <2>2. ASSUME NEW i \in 1..a
        PROVE  toRetx[i] \in Fbs(Merged)
    <3>1. i \in 1..(a + b) /\ Merged[i] = toRetx[i]
      BY <1>1, <1>2
    <3> QED BY <1>3, <3>1 DEF Fbs
  <2>3. ASSUME NEW i \in 1..b
        PROVE  ulInfo[i] \in Fbs(Merged)
    <3>1. a + i \in 1..(a + b) /\ ~(a + i <= a) /\ (a + i) - a = i
      BY <1>1
    <3>2. Merged[a + i] = ulInfo[i]
      BY <1>2, <3>1
    <3> QED BY <1>3, <3>1, <3>2 DEF Fbs
  <2> QED BY <1>1, <1>3, <2>1, <2>2, <2>3 DEF Fbs
<1>5. Distinct(Merged)
  <2> SUFFICES ASSUME NEW i \in 1..(a + b), NEW j \in 1..(a + b),
                      Merged[i].proc = Merged[j].proc
               PROVE  i = j
    BY <1>3 DEF Distinct
  <2>1. CASE i <= a /\ j <= a
    BY <1>1, <1>2, <2>1 DEF IInv, OneFeedback, Distinct
  <2>2. CASE i > a /\ j > a
    <3>1. i - a \in 1..b /\ j - a \in 1..b
      BY <1>1, <2>2
    <3>2. Merged[i] = ulInfo[i - a] /\ Merged[j] = ulInfo[j - a]
      BY <1>1, <1>2, <2>2
    <3>3. i - a = j - a
      BY <1>1, <3>1, <3>2 DEF IInv, OneFeedback, Distinct
    <3> QED BY <1>1, <3>3
  <2>3. ASSUME NEW k \in 1..(a + b), NEW l \in 1..(a + b), k <= a, l > a
        PROVE  Merged[k].proc # Merged[l].proc
    <3>1. k \in 1..a /\ l - a \in 1..b /\ Merged[k] = toRetx[k] /\ Merged[l] = ulInfo[l - a]
      BY <1>1, <1>2, <2>3
    <3>2. toRetx[k] \in Fbs(toRetx) /\ ulInfo[l - a] \in Fbs(ulInfo)
      BY <1>1, <3>1 DEF Fbs
    <3> QED BY <3>1, <3>2 DEF IInv, OneFeedback
  <2> QED BY <1>1, <2>1, <2>2, <2>3
<1> QED BY <1>1, <1>2, <1>3, <1>4, <1>5

\* ScheduleUlHarq never has more symbols than the slot, nor fewer than none.
LEMMA SymAvailRange ==
  ASSUME IInv, NEW sym \in SlotSyms, NEW n \in 1..(Len(Merged) + 1)
  PROVE  SymAvail(sym)[n] \in 0..14
<1> DEFINE N == Len(Merged) + 1
           Need(k) == IF k \in Nacks THEN harq[Merged[k].proc].sym ELSE 0
           After(left, k) == IF left >= Need(k) THEN left - Need(k) ELSE left
           Val(f, k) == IF k = 1 THEN sym ELSE After(f[k - 1], k - 1)
           Solves(f, m) == f = [k \in 1..m |-> Val(f, k)]
<1>1. N \in Nat \ {0} /\ sym \in 0..14 /\ \A k : Need(k) \in 0..14
  <2>1. N \in Nat \ {0} /\ sym \in 0..14
    BY MergedElements, SymsAssumption
  <2>2. ASSUME NEW k \in Nacks PROVE harq[Merged[k].proc].sym \in 0..14
    <3>1. k \in 1..Len(Merged)
      BY MergedElements DEF Nacks, Heard
    <3>2. Merged[k] \in Feedback
      BY <3>1, MergedElements, ElementOfSeq
    <3> QED BY <3>2 DEF Feedback, IInv, TypeInv, TypeOK, Process
  <2> QED BY <2>1, <2>2
<1> HIDE DEF Need, N
<1>2. ASSUME NEW m \in Nat PROVE \E f : Solves(f, m)
  <2> DEFINE B == {i \in Nat : ~\E f : Solves(f, i)}
  <2> SUFFICES ASSUME B # {} PROVE FALSE
    OBVIOUS
  <2>1. PICK i \in B : \A j \in B : i <= j
    BY LeastNat
  <2>2. CASE i = 0
    <3> DEFINE f == [k \in 1..0 |-> sym]
    <3>1. Solves(f, 0)
      OBVIOUS
    <3> QED BY <2>1, <2>2, <3>1
  <2>3. CASE i # 0
    <3>0. i \in Nat /\ i - 1 \in Nat
      BY <2>1, <2>3
    <3>1. i - 1 \in Nat /\ i - 1 \notin B
      <4> HIDE DEF B
      <4> QED BY <2>1, <3>0
    <3>2. PICK g : Solves(g, i - 1)
      BY <3>1
    <3> DEFINE f == [k \in 1..i |-> Val(g, k)]
    <3>3. ASSUME NEW k \in 1..i PROVE Val(f, k) = Val(g, k)
      <4>1. CASE k = 1
        BY <4>1
      <4>2. CASE k # 1
        <5>1. k - 1 \in 1..(i - 1) /\ k - 1 \in 1..i
          BY <2>1, <4>2
        <5>2. f[k - 1] = Val(g, k - 1)
          BY <5>1
        <5>3. g[k - 1] = Val(g, k - 1)
          <6> HIDE DEF Val
          <6> QED BY <3>2, <5>1
        <5> HIDE DEF f, After
        <5> QED BY <4>2, <5>2, <5>3
      <4> QED BY <4>1, <4>2
    <3>4. Solves(f, i)
      <4> HIDE DEF Val
      <4> QED BY <3>3
    <3> HIDE DEF f, Solves
    <3> QED BY <2>1, <3>4
  <2> QED BY <2>2, <2>3
<1>3. Solves(SymAvail(sym), N)
  <2> DEFINE s == CHOOSE f : Solves(f, N)
  <2>1. Solves(s, N)
    <3> HIDE DEF Solves
    <3> QED BY <1>1, <1>2
  <2>2. SymAvail(sym) = s
    BY DEF SymAvail, N, Need
  <2> HIDE DEF s, Solves
  <2> QED BY <2>1, <2>2
<1> DEFINE left == SymAvail(sym)
           C == {k \in 1..N : left[k] \notin 0..14}
<1> SUFFICES ASSUME C # {} PROVE FALSE
  BY DEF N
<1>4. C \in SUBSET Nat
  BY <1>1
<1>5. PICK i \in C : \A j \in C : i <= j
  BY <1>4, LeastNat
<1>6. i \in 1..N /\ left[i] = Val(left, i)
  <2>1. i \in 1..N
    BY <1>5
  <2> HIDE DEF left, Val
  <2> QED BY <1>3, <2>1 DEF left
<1>7. i # 1
  BY <1>1, <1>5, <1>6
<1>8. i - 1 \in 1..N /\ i - 1 \notin C
  BY <1>1, <1>5, <1>6, <1>7
<1>9. left[i - 1] \in 0..14
  BY <1>8
<1>10. After(left[i - 1], i - 1) \in 0..14
  <2>1. Need(i - 1) \in 0..14
    BY <1>1
  <2> HIDE DEF left
  <2> QED BY <1>9, <2>1
<1> QED BY <1>5, <1>6, <1>7, <1>10

\* A position is one of K exactly when its process is one of K's.
LEMMA OnePosition ==
  ASSUME IInv, NEW K \in SUBSET DOMAIN Merged, NEW k \in DOMAIN Merged
  PROVE  Merged[k].proc \in ProcsAt(K) <=> k \in K
<1>1. \A j \in DOMAIN Merged : Merged[j].proc = Merged[k].proc => j = k
  BY MergedElements DEF Distinct
<1> QED BY <1>1 DEF ProcsAt

\* What the scheduler knows of a process whose feedback it reads.
LEMMA HeardFeedback ==
  ASSUME IInv, NEW k \in Heard
  PROVE  /\ k \in DOMAIN Merged /\ k \in 1..Len(Merged)
         /\ Merged[k] \in Feedback /\ Merged[k] \in Fbs(toRetx) \cup Fbs(ulInfo)
         /\ Merged[k].proc \in Proc
         /\ Merged[k].tb = harq[Merged[k].proc].tb
         /\ harq[Merged[k].proc].active /\ Aged[Merged[k].proc].active
<1>1. k \in DOMAIN Merged /\ k \in 1..Len(Merged) /\ Aged[Merged[k].proc].active
  BY MergedElements DEF Heard
<1>2. Merged[k] \in Feedback
  BY <1>1, MergedElements, ElementOfSeq
<1>3. Merged[k] \in Fbs(toRetx) \cup Fbs(ulInfo)
  <2>1. Merged[k] \in Fbs(Merged)
    BY <1>1 DEF Fbs
  <2> QED BY <2>1, MergedElements
<1> QED BY <1>1, <1>2, <1>3 DEF IInv, FeedbackOK, Feedback

\* A NACKed process can be tried again, and the UE may still have its TB.
LEMMA NackedProcess ==
  ASSUME IInv, NEW k \in Nacks, NEW p, p = Merged[k].proc
  PROVE  /\ k \in Heard /\ p \in Proc /\ ~Merged[k].ack
         /\ p \notin Released /\ p \in Occupied
         /\ Aged[p].rv = harq[p].rv /\ harq[p].rv \in 0..2 /\ harq[p].rv < MaxHarqReTx(p[1])
         /\ <<p, harq[p].tb>> \notin decoded
         /\ ueBuf[p] \in {0, harq[p].tb}
<1>1. k \in Heard /\ ~Ends(Merged[k])
  BY DEF Nacks
<1>2. p \in Proc /\ Aged[p].active /\ harq[p].active /\ Merged[k].tb = harq[p].tb
        /\ Merged[k] \in Fbs(toRetx) \cup Fbs(ulInfo) /\ k \in DOMAIN Merged
  BY <1>1, HeardFeedback
<1>3. ~Merged[k].ack /\ Aged[p].rv # MaxHarqReTx(p[1])
  BY <1>1 DEF Ends
<1>4. p \notin Released
  <2>1. Heard \ Nacks \in SUBSET DOMAIN Merged
    BY DEF Heard
  <2> QED BY <1>2, <2>1, OnePosition DEF Released
<1>5. Aged[p] \in Process /\ Aged[p].rv = harq[p].rv /\ Aged[p].rv <= MaxHarqReTx(p[1])
  BY <1>2, AgedType DEF IInv, TypeInv
<1>6. harq[p].rv \in 0..2 /\ harq[p].rv < MaxHarqReTx(p[1])
  <2>1. MaxHarqReTx(p[1]) \in {0, 3} /\ Aged[p].rv \in 0..3
    BY <1>5, MaxHarqReTxValue DEF Process
  <2> QED BY <1>3, <1>5, <2>1
<1>7. <<p, harq[p].tb>> \notin decoded /\ ueBuf[p] \in {0, harq[p].tb}
  BY <1>2, <1>3 DEF IInv, DecodedOK, BufOK
<1> QED BY <1>1, <1>2, <1>3, <1>4, <1>5, <1>6, <1>7 DEF Occupied

\* What is in the air outlives the ageing of the timers, and its process has
\* neither feedback to read nor room for a new TB.
LEMMA AirSurvives ==
  ASSUME MaxRtt <= NumHarqProcess + 1, IInv, NEW m \in air, m.age + 1 < MaxRtt
  PROVE  /\ m \in AirMsg /\ m.proc \in Proc
         /\ Aged[m.proc] = [harq[m.proc] EXCEPT !.timer = @ + 1] /\ Aged[m.proc].active
         /\ m.proc \notin ProcsAt(Heard)
         /\ m.proc \in Occupied
<1>1. m \in AirMsg /\ m.proc \in Proc /\ m.age \in Nat
  BY DEF IInv, TypeInv, TypeOK, AirMsg
<1>2. harq[m.proc].timer = m.age /\ harq[m.proc].active
  BY DEF IInv, AirOK
<1>3. m.proc \notin Expired
  BY <1>1, <1>2, RttAssumption, NumAssumption DEF Expired
<1>4. Aged[m.proc] = [harq[m.proc] EXCEPT !.timer = @ + 1] /\ Aged[m.proc].active
  BY <1>1, <1>2, <1>3, AgedType DEF IInv, TypeInv
<1>5. m.proc \notin ProcsAt(Heard)
  BY HeardFeedback DEF ProcsAt, IInv, OneFeedback
<1>6. m.proc \in Occupied
  BY <1>1, <1>4, <1>5 DEF Occupied, Released, ProcsAt
<1> QED BY <1>1, <1>4, <1>5, <1>6

\* ScheduleUlHarq gives a NACKed process its next version or leaves it as it is,
\* and restarts its timer if it reaches it.
IsTried(h, p, sym) ==
  /\ h \in Process /\ h.active /\ h.status # "INACTIVE"
  /\ h.tb = harq[p].tb
  /\ h.rv = IF p \in ProcsAt(Retransmit(sym)) THEN harq[p].rv + 1 ELSE harq[p].rv
  /\ h.rv <= MaxHarqReTx(p[1])
  /\ p \in ProcsAt(Reached(sym)) => h.timer = 0

LEMMA TriedProcess ==
  ASSUME IInv, NEW sym, NEW k \in Nacks, NEW p, p = Merged[k].proc,
         NEW fresh, p \notin fresh, NEW numSym,
         NEW h, h = ScheduledHarq(sym, fresh, numSym)[p]
  PROVE  IsTried(h, p, sym)
<1>1. /\ p \in Proc /\ p \notin Released /\ p \in ProcsAt(Nacks)
      /\ Aged[p].rv = harq[p].rv /\ harq[p].rv \in 0..2 /\ harq[p].rv < MaxHarqReTx(p[1])
      /\ Aged[p].active
  BY NackedProcess DEF ProcsAt, Occupied
<1>2. /\ Aged[p] \in Process /\ Aged[p].tb = harq[p].tb
      /\ Aged[p].active <=> Aged[p].status # "INACTIVE"
  BY <1>1, AgedType DEF IInv, TypeInv
<1>3. ProcsAt(Retransmit(sym)) \subseteq ProcsAt(Reached(sym))
  BY DEF Retransmit, ProcsAt
<1> DEFINE a == Aged[p]
           rv == IF p \in ProcsAt(Retransmit(sym)) THEN a.rv + 1 ELSE a.rv
<1>4. rv \in 0..3 /\ rv <= MaxHarqReTx(p[1])
  <2>1. MaxHarqReTx(p[1]) \in {0, 3}
    BY MaxHarqReTxValue
  <2> QED BY <1>1, <2>1
<1>5. a = [active |-> a.active, status |-> a.status, timer |-> a.timer,
           rv |-> a.rv, tb |-> a.tb, sym |-> a.sym]
  BY <1>2 DEF Process
<1>6. CASE p \in ProcsAt(Reached(sym))
  <2>1. h = [a EXCEPT !.status = "WAITING_FEEDBACK", !.timer = 0, !.rv = rv]
    BY <1>1, <1>6 DEF ScheduledHarq
  <2> HIDE DEF a, rv
  <2>2. h = [active |-> a.active, status |-> "WAITING_FEEDBACK", timer |-> 0,
             rv |-> rv, tb |-> a.tb, sym |-> a.sym]
    BY <1>5, <2>1
  <2>3. h.active = a.active /\ h.status = "WAITING_FEEDBACK" /\ h.timer = 0
          /\ h.rv = rv /\ h.tb = a.tb
    BY <2>2
  <2>4. h \in Process
    BY <1>2, <1>4, <2>2, NumAssumption DEF Process, Status, a
  <2>5. rv = IF p \in ProcsAt(Retransmit(sym)) THEN harq[p].rv + 1 ELSE harq[p].rv
    BY <1>1 DEF rv, a
  <2>6. a.active /\ a.tb = harq[p].tb
    BY <1>1, <1>2 DEF a
  <2> QED BY <1>4, <2>3, <2>4, <2>5, <2>6 DEF IsTried
<1>7. CASE p \notin ProcsAt(Reached(sym))
  <2>1. h = [a EXCEPT !.status = "RECEIVED_FEEDBACK"]
    BY <1>1, <1>7 DEF ScheduledHarq
  <2>2. p \notin ProcsAt(Retransmit(sym))
    BY <1>3, <1>7
  <2>3. rv = a.rv
    BY <2>2
  <2> HIDE DEF a, rv
  <2>4. h = [active |-> a.active, status |-> "RECEIVED_FEEDBACK", timer |-> a.timer,
             rv |-> a.rv, tb |-> a.tb, sym |-> a.sym]
    BY <1>5, <2>1
  <2>5. h.active = a.active /\ h.status = "RECEIVED_FEEDBACK" /\ h.rv = a.rv /\ h.tb = a.tb
    BY <2>4
  <2>6. h \in Process
    BY <1>2, <2>4 DEF Process, Status, a
  <2>7. a.active /\ a.tb = harq[p].tb /\ a.rv = harq[p].rv
    BY <1>1, <1>2 DEF a
  <2> QED BY <1>4, <1>7, <2>2, <2>3, <2>5, <2>6, <2>7 DEF IsTried
<1> QED BY <1>6, <1>7

\* What a slot of the scheduler leaves in a process.
LEMMA ScheduledProcess ==
  ASSUME IInv, NEW sym \in SlotSyms, NEW fresh \in Insertable(sym), NEW numSym,
         NEW p \in Proc, harq' = ScheduledHarq(sym, fresh, numSym)
  PROVE  /\ p \in fresh => harq'[p] = NewProcess(harq[p].tb + 1, numSym[p])
         /\ p \notin fresh /\ p \in Released => harq'[p] = InactiveProcess(harq[p].tb)
         /\ p \notin fresh /\ p \notin ProcsAt(Heard) => harq'[p] = Aged[p]
         /\ p \in ProcsAt(Nacks) => p \notin fresh
<1>1. p \in ProcsAt(Nacks) => p \notin fresh
  <2>1. p \in ProcsAt(Nacks) => p \in Occupied
    BY NackedProcess DEF ProcsAt
  <2> QED BY <2>1 DEF Insertable
<1>2. harq'[p] = ScheduledHarq(sym, fresh, numSym)[p]
  OBVIOUS
<1>3. /\ ProcsAt(Nacks) \subseteq ProcsAt(Heard) /\ Released \subseteq ProcsAt(Heard)
      /\ ProcsAt(Reached(sym)) \subseteq ProcsAt(Nacks)
  BY DEF ProcsAt, Released, Reached, Nacks
<1> QED BY <1>1, <1>2, <1>3 DEF ScheduledHarq

\* The type of the process vector after a slot, and what StatusOK says of it.
LEMMA ScheduledType ==
  ASSUME IInv, NEW sym \in SlotSyms, NEW fresh \in Insertable(sym),
         NEW numSym \in [fresh -> 1..SymAfterHarq(sym)],
         NEW p \in Proc, harq' = ScheduledHarq(sym, fresh, numSym)
  PROVE  /\ harq'[p] \in Process
         /\ harq'[p].active <=> harq'[p].status # "INACTIVE"
         /\ harq'[p].active => harq'[p].tb > 0
         /\ harq'[p].rv <= MaxHarqReTx(p[1])
         /\ harq'[p].tb = IF p \in fresh THEN harq[p].tb + 1 ELSE harq[p].tb
<1>1. harq[p] \in Process /\ (harq[p].active => harq[p].tb > 0)
  BY DEF IInv, TypeInv, TypeOK, StatusOK
<1>2. MaxHarqReTx(p[1]) \in {0, 3}
  BY MaxHarqReTxValue
<1>3. CASE p \in fresh
  <2>1. harq'[p] = NewProcess(harq[p].tb + 1, numSym[p])
    BY <1>3, ScheduledProcess
  <2>2. harq[p].tb < MaxTb
    <3>1. harq[p].tb < TbBound(p[1])
      BY <1>3 DEF Insertable
    <3> QED BY <1>1, <3>1, MaxTbAssumption DEF TbBound, Process
  <2>3. numSym[p] \in 0..14
    <3>1. SymAfterHarq(sym) \in 0..14
      <4>1. Len(Merged) + 1 \in 1..(Len(Merged) + 1)
        BY MergedElements
      <4> QED BY <4>1, SymAvailRange DEF SymAfterHarq
    <3>2. numSym[p] \in 1..SymAfterHarq(sym)
      BY <1>3
    <3> QED BY <3>1, <3>2
  <2> QED BY <1>1, <1>2, <1>3, <2>1, <2>2, <2>3, NumAssumption, MaxTbAssumption
          DEF NewProcess, Process, Status
<1>4. CASE p \notin fresh /\ p \in Released
  <2>1. harq'[p] = InactiveProcess(harq[p].tb)
    BY <1>4, ScheduledProcess
  <2> QED BY <1>1, <1>2, <1>4, <2>1, NumAssumption DEF InactiveProcess, Process, Status
<1>5. CASE p \in ProcsAt(Nacks)
  <2>1. PICK k \in Nacks : p = Merged[k].proc
    BY <1>5 DEF ProcsAt
  <2>2. p \notin fresh /\ harq'[p] = ScheduledHarq(sym, fresh, numSym)[p]
    BY <1>5, ScheduledProcess
  <2>3. PICK h : h = ScheduledHarq(sym, fresh, numSym)[p]
    OBVIOUS
  <2>4. IsTried(h, p, sym)
    BY <2>1, <2>2, <2>3, TriedProcess
  <2>5. harq[p].active /\ harq'[p] = h
    BY <2>1, <2>2, <2>3, NackedProcess, HeardFeedback
  <2> QED BY <1>1, <2>2, <2>4, <2>5 DEF IsTried
<1>6. CASE p \notin fresh /\ p \notin ProcsAt(Heard)
  <2>1. harq'[p] = Aged[p]
    BY <1>6, ScheduledProcess
  <2>2. Aged[p] \in Process /\ Aged[p].tb = harq[p].tb /\ Aged[p].rv <= MaxHarqReTx(p[1])
          /\ (Aged[p].active <=> Aged[p].status # "INACTIVE")
          /\ (Aged[p].active => harq[p].active)
    BY AgedType DEF IInv, TypeInv
  <2> QED BY <1>1, <1>6, <2>1, <2>2
<1>7. ProcsAt(Heard) = Released \cup ProcsAt(Nacks)
  BY DEF Released, ProcsAt, Nacks
<1> QED BY <1>3, <1>4, <1>5, <1>6, <1>7

\* What ScheduleUlHarq puts back: NACKs it reached, one of each process.
LEMMA ToRetransmitElements ==
  ASSUME IInv, NEW sym \in SlotSyms, NEW s \in ToRetransmit(sym)
  PROVE  /\ s \in Seq(Feedback)
         /\ Fbs(s) \subseteq {Merged[k] : k \in BufferedNow(sym)}
         /\ Distinct(s)
<1> DEFINE B == BufferedNow(sym)  n == Cardinality(B)
<1>1. B \subseteq 1..Len(Merged) /\ B \subseteq Nacks
  <2>1. B \subseteq Nacks
    BY DEF BufferedNow, Reached
  <2> QED BY <2>1, NackedProcess, HeardFeedback
<1>2. n \in Nat
  <2>1. IsFiniteSet(1..Len(Merged))
    BY MergedElements, FS_Interval
  <2>2. IsFiniteSet(B)
    BY <1>1, <2>1, FS_Subset
  <2> QED BY <2>2, FS_CardinalityType
<1>3. PICK e \in InOrder(B) : s = [i \in DOMAIN e |-> Merged[e[i]]]
  BY DEF ToRetransmit
<1> HIDE DEF B, n
<1>4. e \in [1..n -> B] /\ \A i, j \in 1..n : i < j => e[i] < e[j]
  BY <1>3 DEF InOrder, n
<1>5. DOMAIN s = 1..n /\ \A i \in 1..n : s[i] = Merged[e[i]] /\ e[i] \in B
  BY <1>3, <1>4
<1>6. s \in Seq(Feedback)
  <2>1. \A i \in 1..n : Merged[e[i]] \in Feedback
    BY <1>1, <1>5, MergedElements, ElementOfSeq
  <2>2. s \in [1..n -> Feedback]
    BY <1>3, <1>4, <2>1
  <2> QED BY <1>2, <2>2, SeqDef
<1>7. Distinct(s)
  <2> SUFFICES ASSUME NEW i \in 1..n, NEW j \in 1..n, s[i].proc = s[j].proc PROVE i = j
    BY <1>5 DEF Distinct
  <2>1. e[i] \in DOMAIN Merged /\ e[j] \in DOMAIN Merged
    BY <1>1, <1>5, MergedElements
  <2>2. e[i] = e[j]
    BY <1>5, <2>1, MergedElements DEF Distinct
  <2>3. e[i] \in Int /\ i \in Int /\ j \in Int
    <3>1. e[i] \in 1..Len(Merged)
      BY <1>1, <1>5
    <3>2. Len(Merged) \in Nat
      BY MergedElements
    <3>3. \A k \in 1..Len(Merged) : k \in Int
      BY <3>2
    <3> QED BY <1>2, <3>1, <3>3
  <2>4. ~(i < j) /\ ~(j < i)
    BY <1>4, <2>2, <2>3
  <2> QED BY <2>3, <2>4
<1>8. Fbs(s) \subseteq {Merged[k] : k \in B}
  BY <1>5 DEF Fbs
<1> QED BY <1>6, <1>7, <1>8 DEF B

\* What the gNB keeps to be combined is of the TB the process holds or of an
\* earlier one.
LEMMA HistElement ==
  ASSUME IInv, NEW p \in Proc, NEW k \in DOMAIN hist[p]
  PROVE  /\ hist[p][k].tb \in Nat /\ harq[p].tb \in Nat
         /\ hist[p][k].tb <= harq[p].tb
<1>1. hist[p] \in Seq([tb : 1..MaxTb, st : {"pdu", "bsr"}]) /\ harq[p] \in Process
  BY DEF IInv, TypeInv, TypeOK
<1>2. hist[p][k] \in [tb : 1..MaxTb, st : {"pdu", "bsr"}]
  <2>1. PICK h \in Seq([tb : 1..MaxTb, st : {"pdu", "bsr"}]) : h = hist[p]
    BY <1>1
  <2>2. k \in 1..Len(h)
    BY <2>1, LenProperties
  <2> QED BY <2>1, <2>2, ElementOfSeq
<1>3. hist[p][k].tb <= harq[p].tb
  BY DEF IInv, HistOK
<1> QED BY <1>1, <1>2, <1>3 DEF Process

(***************************************************************************)
(* Every step of the system keeps the invariant.                           *)
(***************************************************************************)
\* One run of DoSchedUlTriggerReq and of the slot it decides.
LEMMA TriggerStep ==
  ASSUME MaxRtt <= NumHarqProcess + 1, IInv, UlTrigger
  PROVE  IInv'
<1> DEFINE Step(sym, fresh, numSym) ==
          /\ harq' = ScheduledHarq(sym, fresh, numSym)
          /\ toRetx' \in ToRetransmit(sym)
          /\ air' = {[m EXCEPT !.age = @ + 1] : m \in air} \cup UlDcis(sym, fresh)
<1>0. PICK sym \in SlotSyms : \E fresh \in Insertable(sym) :
        \E numSym \in [fresh -> 1..SymAfterHarq(sym)] : Step(sym, fresh, numSym)
  BY DEF UlTrigger
<1>1. PICK fresh \in Insertable(sym) :
        \E numSym \in [fresh -> 1..SymAfterHarq(sym)] : Step(sym, fresh, numSym)
  BY <1>0
<1>2. PICK numSym \in [fresh -> 1..SymAfterHarq(sym)] : Step(sym, fresh, numSym)
  BY <1>1
<1>3. /\ ulInfo' = <<>> /\ Fbs(ulInfo') = {} /\ DOMAIN ulInfo' = {}
      /\ ueBuf' = ueBuf /\ hist' = hist /\ decoded' = decoded /\ reported' = reported
      /\ \A m \in air : m.age + 1 < MaxRtt
  BY DEF UlTrigger, Fbs
<1> DEFINE retx == ProcsAt(Retransmit(sym))
<1>4. /\ fresh \subseteq Proc /\ fresh \cap Occupied = {}
      /\ \A p \in fresh : harq[p].tb \in Nat /\ harq[p].tb < MaxTb
  <2>1. /\ fresh \subseteq Proc /\ fresh \cap Occupied = {}
        /\ \A p \in fresh : harq[p].tb < TbBound(p[1])
    BY DEF Insertable
  <2>2. \A p \in Proc : harq[p].tb \in Nat
    BY DEF IInv, TypeInv, TypeOK, Process
  <2> QED BY <2>1, <2>2, MaxTbAssumption DEF TbBound
<1>5. /\ Retransmit(sym) \subseteq Reached(sym) /\ Reached(sym) \subseteq Nacks
      /\ Nacks \subseteq Heard /\ retx \subseteq ProcsAt(Nacks)
      /\ ProcsAt(Nacks) \subseteq ProcsAt(Heard) /\ Released \subseteq ProcsAt(Heard)
  BY DEF Retransmit, Reached, Nacks, ProcsAt, Released
<1>6. ASSUME NEW p \in ProcsAt(Nacks)
      PROVE  /\ p \in Proc /\ p \notin fresh /\ harq[p].active
             /\ harq[p].rv \in 0..2 /\ harq[p].rv + 1 \in 0..3
             /\ harq[p].tb \in 1..MaxTb
             /\ <<p, harq[p].tb>> \notin decoded /\ ueBuf[p] \in {0, harq[p].tb}
             /\ IsTried(harq'[p], p, sym)
  <2>1. PICK k \in Nacks : p = Merged[k].proc
    BY DEF ProcsAt
  <2>2. /\ p \in Proc /\ p \in Occupied /\ harq[p].rv \in 0..2
        /\ <<p, harq[p].tb>> \notin decoded /\ ueBuf[p] \in {0, harq[p].tb}
    BY <2>1, NackedProcess
  <2>3. harq[p].active
    BY <2>1, NackedProcess, HeardFeedback
  <2>4. harq[p].tb \in 1..MaxTb
    BY <2>2, <2>3 DEF IInv, TypeInv, TypeOK, StatusOK, Process
  <2>5. p \notin fresh
    BY <1>4, <2>2
  <2>6. harq'[p] = ScheduledHarq(sym, fresh, numSym)[p]
    BY <1>2
  <2>7. PICK h : h = ScheduledHarq(sym, fresh, numSym)[p]
    OBVIOUS
  <2>8. IsTried(h, p, sym)
    BY <2>1, <2>5, <2>7, TriedProcess
  <2>9. harq'[p] = h
    BY <2>6, <2>7
  <2> QED BY <2>2, <2>3, <2>4, <2>5, <2>8, <2>9
\* What the air holds now: what outlived the slot, and the grants of the slot.
<1>7. ASSUME NEW m \in air
      PROVE  /\ m.proc \in Proc /\ m.proc \notin ProcsAt(Heard) /\ m.proc \notin fresh
             /\ harq'[m.proc] = [harq[m.proc] EXCEPT !.timer = @ + 1]
             /\ [m EXCEPT !.age = @ + 1] \in AirMsg
             /\ [m EXCEPT !.age = @ + 1].proc = m.proc
             /\ [m EXCEPT !.age = @ + 1].st = m.st
             /\ [m EXCEPT !.age = @ + 1].tb = m.tb
             /\ [m EXCEPT !.age = @ + 1].rv = m.rv
             /\ [m EXCEPT !.age = @ + 1].age = m.age + 1
  <2>1. /\ m \in AirMsg /\ m.proc \in Proc
        /\ Aged[m.proc] = [harq[m.proc] EXCEPT !.timer = @ + 1]
        /\ m.proc \notin ProcsAt(Heard) /\ m.proc \in Occupied
    BY <1>3, AirSurvives
  <2>2. m.proc \notin fresh
    BY <1>4, <2>1
  <2>3. harq'[m.proc] = Aged[m.proc]
    BY <1>2, <2>1, <2>2, ScheduledProcess
  <2>4. m.age + 1 \in 0..(MaxRtt - 1)
    BY <1>3, <2>1, RttAssumption DEF AirMsg
  <2> QED BY <2>1, <2>2, <2>3, <2>4 DEF AirMsg
<1>8. ASSUME NEW n \in air'
      PROVE  \/ /\ n.proc \notin ProcsAt(Heard) \cup fresh
                /\ \E m \in air : n = [m EXCEPT !.age = @ + 1] /\ n.proc = m.proc
             \/ n.proc \in fresh /\ n = Dci(n.proc, harq[n.proc].tb + 1, 0)
             \/ n.proc \in retx /\ n = Dci(n.proc, harq[n.proc].tb, harq[n.proc].rv + 1)
  <2>1. CASE \E m \in air : n = [m EXCEPT !.age = @ + 1]
    BY <1>7, <2>1
  <2>2. CASE \E p \in fresh : n = Dci(p, harq[p].tb + 1, 0)
    BY <2>2 DEF Dci
  <2>3. CASE \E p \in retx : n = Dci(p, harq[p].tb, harq[p].rv + 1)
    BY <2>3 DEF Dci
  <2> QED BY <1>2, <2>1, <2>2, <2>3 DEF UlDcis
\* What is kept for the next slot: NACKs of this one.
<1>9. /\ toRetx' \in Seq(Feedback) /\ Distinct(toRetx')
      /\ \A f \in Fbs(toRetx') : \E k \in Nacks : f = Merged[k] /\ k \notin Retransmit(sym)
  <2>1. toRetx' \in ToRetransmit(sym)
    BY <1>2
  <2>2. PICK s \in ToRetransmit(sym) : s = toRetx'
    BY <2>1
  <2>3. s \in Seq(Feedback) /\ Distinct(s) /\ Fbs(s) \subseteq {Merged[k] : k \in BufferedNow(sym)}
    BY ToRetransmitElements
  <2> QED BY <1>5, <2>2, <2>3 DEF BufferedNow
<1>10. ASSUME NEW f \in Fbs(toRetx')
       PROVE  /\ f.proc \in ProcsAt(Nacks) /\ f.proc \notin retx
              /\ f.tb = harq[f.proc].tb
  <2>1. PICK k \in Nacks : f = Merged[k] /\ k \notin Retransmit(sym)
    BY <1>9
  <2>2. k \in Heard /\ k \in DOMAIN Merged /\ f.tb = harq[f.proc].tb
    BY <1>5, <2>1, HeardFeedback
  <2>3. Retransmit(sym) \in SUBSET DOMAIN Merged
    BY <1>5, HeardFeedback
  <2>4. f.proc \notin retx
    BY <2>1, <2>2, <2>3, OnePosition
  <2> QED BY <2>1, <2>2, <2>4 DEF ProcsAt
<1> HIDE DEF retx
<1>11. TypeOK'
  <2>1. harq' \in [Proc -> Process]
    <3>1. \A p \in Proc : harq'[p] \in Process
      BY <1>2, ScheduledType
    <3> QED BY <1>2, <3>1 DEF ScheduledHarq
  <2>2. air' \subseteq AirMsg
    <3> SUFFICES ASSUME NEW n \in air' PROVE n \in AirMsg
      OBVIOUS
    <3>1. CASE \E m \in air : n = [m EXCEPT !.age = @ + 1]
      BY <1>7, <3>1
    <3>2. CASE n.proc \in fresh /\ n = Dci(n.proc, harq[n.proc].tb + 1, 0)
      <4>1. PICK p : p = n.proc
        OBVIOUS
      <4>2. p \in Proc /\ harq[p].tb + 1 \in 1..MaxTb
        BY <1>4, <3>2, <4>1, MaxTbAssumption
      <4> QED BY <3>2, <4>1, <4>2, RttAssumption DEF AirMsg, Dci
    <3>3. CASE n.proc \in retx /\ n = Dci(n.proc, harq[n.proc].tb, harq[n.proc].rv + 1)
      <4>1. PICK p : p = n.proc
        OBVIOUS
      <4>2. p \in Proc /\ harq[p].tb \in 1..MaxTb /\ harq[p].rv + 1 \in 0..3
        BY <1>5, <1>6, <3>3, <4>1
      <4> QED BY <3>3, <4>1, <4>2, RttAssumption DEF AirMsg, Dci
    <3> QED BY <1>8, <3>1, <3>2, <3>3
  <2>3. ulInfo' \in Seq(Feedback)
    BY <1>3
  <2> QED BY <1>3, <1>9, <2>1, <2>2, <2>3 DEF TypeOK, IInv, TypeInv
<1>12. StatusOK'
  BY <1>2, ScheduledType DEF StatusOK
<1>13. AirOK'
  <2> SUFFICES ASSUME NEW n \in air'
               PROVE  /\ harq'[n.proc].active
                      /\ harq'[n.proc].tb = n.tb
                      /\ harq'[n.proc].rv = n.rv
                      /\ harq'[n.proc].timer = n.age
    BY DEF AirOK
  <2>1. CASE \E m \in air : n = [m EXCEPT !.age = @ + 1]
    <3>1. PICK m \in air : n = [m EXCEPT !.age = @ + 1]
      BY <2>1
    <3>2. /\ m.proc \in Proc /\ harq'[m.proc] = [harq[m.proc] EXCEPT !.timer = @ + 1]
          /\ n.proc = m.proc /\ n.tb = m.tb /\ n.rv = m.rv /\ n.age = m.age + 1
      BY <1>7, <3>1
    <3>3. harq[m.proc] \in Process
      BY <3>2 DEF IInv, TypeInv, TypeOK
    <3> QED BY <3>2, <3>3 DEF IInv, AirOK, Process
  <2>2. CASE n.proc \in fresh /\ n = Dci(n.proc, harq[n.proc].tb + 1, 0)
    <3>1. PICK p \in fresh : p = n.proc
      BY <2>2
    <3>2. harq'[p] = NewProcess(harq[p].tb + 1, numSym[p])
      BY <1>2, <1>4, ScheduledProcess
    <3> QED BY <2>2, <3>1, <3>2 DEF Dci, NewProcess
  <2>3. CASE n.proc \in retx /\ n = Dci(n.proc, harq[n.proc].tb, harq[n.proc].rv + 1)
    <3>1. PICK p \in retx : p = n.proc
      BY <2>3
    <3>2. IsTried(harq'[p], p, sym) /\ p \in retx
      BY <1>5, <1>6, <3>1
    <3>3. p \in ProcsAt(Reached(sym))
      BY <1>5, <3>2 DEF retx, ProcsAt
    <3>4. n.tb = harq[p].tb /\ n.rv = harq[p].rv + 1 /\ n.age = 0
      BY <2>3, <3>1 DEF Dci
    <3>5. harq'[p].active /\ harq'[p].tb = harq[p].tb /\ harq'[p].timer = 0
            /\ harq'[p].rv = harq[p].rv + 1
      BY <3>2, <3>3 DEF IsTried, retx
    <3> QED BY <3>1, <3>4, <3>5
  <2> QED BY <1>8, <2>1, <2>2, <2>3
<1>14. FeedbackOK'
  <2> SUFFICES ASSUME NEW f \in Fbs(toRetx')
               PROVE  harq'[f.proc].active /\ harq'[f.proc].tb = f.tb
    BY <1>3 DEF FeedbackOK
  <2>1. IsTried(harq'[f.proc], f.proc, sym) /\ f.tb = harq[f.proc].tb
    BY <1>6, <1>10
  <2> QED BY <2>1 DEF IsTried
<1>15. OneFeedback'
  <2>1. ASSUME NEW m \in air', NEW n \in air', m.proc = n.proc
        PROVE  m = n
    <3>1. CASE m.proc \notin ProcsAt(Heard) \cup fresh
      <4>1. PICK k \in air : m = [k EXCEPT !.age = @ + 1] /\ m.proc = k.proc
        BY <1>5, <1>8, <3>1
      <4>2. PICK l \in air : n = [l EXCEPT !.age = @ + 1] /\ n.proc = l.proc
        BY <1>5, <1>8, <2>1, <3>1
      <4>3. k = l
        BY <2>1, <4>1, <4>2 DEF IInv, OneFeedback
      <4> QED BY <4>1, <4>2, <4>3
    <3>2. CASE m.proc \in fresh
      <4>1. m.proc \notin retx /\ n.proc \notin retx
        BY <1>5, <1>6, <2>1, <3>2
      <4> QED BY <1>8, <2>1, <3>2, <4>1
    <3>3. CASE m.proc \in ProcsAt(Heard) /\ m.proc \notin fresh
      BY <1>8, <2>1, <3>3
    <3> QED BY <3>1, <3>2, <3>3
  <2>2. ASSUME NEW m \in air', NEW f \in Fbs(toRetx')
        PROVE  m.proc # f.proc
    <3>1. f.proc \in ProcsAt(Heard) /\ f.proc \notin retx /\ f.proc \notin fresh
      BY <1>5, <1>6, <1>10
    <3> QED BY <1>8, <3>1
  <2> QED BY <1>3, <1>9, <2>1, <2>2 DEF OneFeedback, Distinct
<1>16. \A p \in Proc : /\ harq[p].tb \in Nat
                       /\ p \in fresh => harq'[p].tb = harq[p].tb + 1
                       /\ p \notin fresh => harq'[p].tb = harq[p].tb
  <2> SUFFICES ASSUME NEW p \in Proc
               PROVE  /\ harq[p].tb \in Nat
                      /\ p \in fresh => harq'[p].tb = harq[p].tb + 1
                      /\ p \notin fresh => harq'[p].tb = harq[p].tb
    OBVIOUS
  <2>1. harq[p].tb \in Nat
    BY DEF IInv, TypeInv, TypeOK, Process
  <2>2. harq'[p].tb = IF p \in fresh THEN harq[p].tb + 1 ELSE harq[p].tb
    BY <1>2, ScheduledType
  <2> QED BY <2>1, <2>2
<1>17. DecodedOK'
  <2>1. ASSUME NEW p \in Proc, NEW t \in 1..MaxTb, <<p, t>> \in decoded'
        PROVE  t <= harq'[p].tb
    <3>1. t <= harq[p].tb
      BY <1>3, <2>1 DEF IInv, DecodedOK
    <3> QED BY <1>16, <3>1
  <2>2. ASSUME NEW n \in air'
        PROVE  <<n.proc, n.tb>> \notin decoded'
    <3>1. CASE \E m \in air : n = [m EXCEPT !.age = @ + 1]
      BY <1>3, <1>7, <3>1 DEF IInv, DecodedOK
    <3>2. CASE n.proc \in fresh /\ n = Dci(n.proc, harq[n.proc].tb + 1, 0)
      <4>1. PICK p \in fresh : p = n.proc
        BY <3>2
      <4>2. p \in Proc /\ harq[p].tb + 1 \in 1..MaxTb /\ harq[p].tb \in Nat
        BY <1>4, MaxTbAssumption
      <4>3. <<p, harq[p].tb + 1>> \notin decoded
        BY <4>2 DEF IInv, DecodedOK
      <4> QED BY <1>3, <3>2, <4>1, <4>3 DEF Dci
    <3>3. CASE n.proc \in retx /\ n = Dci(n.proc, harq[n.proc].tb, harq[n.proc].rv + 1)
      BY <1>3, <1>5, <1>6, <3>3 DEF Dci
    <3> QED BY <1>8, <3>1, <3>2, <3>3
  <2>3. ASSUME NEW f \in Fbs(toRetx')
        PROVE  <<f.proc, f.tb>> \notin decoded'
    BY <1>3, <1>6, <1>10
  <2> QED BY <1>3, <2>1, <2>2, <2>3 DEF DecodedOK
<1>18. HistOK'
  <2> SUFFICES ASSUME NEW p \in Proc, NEW k \in DOMAIN hist[p]
               PROVE  /\ hist[p][k].tb <= harq'[p].tb
                      /\ hist[p][k].tb = harq'[p].tb => hist[p][k].st = Kind(p)
    BY <1>3 DEF HistOK, Kind
  <2>1. /\ hist[p][k].tb \in Nat /\ harq[p].tb \in Nat /\ hist[p][k].tb <= harq[p].tb
        /\ hist[p][k].tb = harq[p].tb => hist[p][k].st = Kind(p)
    BY HistElement DEF IInv, HistOK
  <2> QED BY <1>16, <2>1
<1>19. BufOK'
  <2>1. ASSUME NEW n \in air'
        PROVE  /\ IF n.st = "dci" /\ n.rv = 0
                  THEN \A k \in DOMAIN hist[n.proc] : hist[n.proc][k].tb # n.tb
                  ELSE ueBuf[n.proc] \in {0, n.tb}
               /\ n.st # "dci" => n.st = Kind(n.proc)
    <3>1. CASE \E m \in air : n = [m EXCEPT !.age = @ + 1]
      <4>1. PICK m \in air : n = [m EXCEPT !.age = @ + 1]
        BY <3>1
      <4>2. n.proc = m.proc /\ n.st = m.st /\ n.tb = m.tb /\ n.rv = m.rv
        BY <1>7, <4>1
      <4> QED BY <4>2 DEF IInv, BufOK
    <3>2. CASE n.proc \in fresh /\ n = Dci(n.proc, harq[n.proc].tb + 1, 0)
      <4>1. PICK p \in fresh : p = n.proc
        BY <3>2
      <4>2. n.st = "dci" /\ n.rv = 0 /\ n.tb = harq[p].tb + 1
        BY <3>2, <4>1 DEF Dci
      <4>3. \A k \in DOMAIN hist[p] : hist[p][k].tb # harq[p].tb + 1
        BY <1>4, HistElement
      <4> QED BY <4>1, <4>2, <4>3
    <3>3. CASE n.proc \in retx /\ n = Dci(n.proc, harq[n.proc].tb, harq[n.proc].rv + 1)
      <4>1. PICK p \in retx : p = n.proc
        BY <3>3
      <4>2. n.st = "dci" /\ n.rv = harq[p].rv + 1 /\ n.tb = harq[p].tb
        BY <3>3, <4>1 DEF Dci
      <4>3. harq[p].rv \in 0..2 /\ ueBuf[p] \in {0, harq[p].tb}
        BY <1>5, <1>6
      <4> QED BY <4>1, <4>2, <4>3
    <3> QED BY <1>8, <3>1, <3>2, <3>3
  <2>2. ASSUME NEW f \in Fbs(toRetx')
        PROVE  ueBuf[f.proc] \in {0, f.tb}
    BY <1>6, <1>10
  <2> QED BY <1>3, <2>1, <2>2 DEF BufOK, Kind
<1> QED BY <1>11, <1>12, <1>13, <1>14, <1>15, <1>17, <1>18, <1>19 DEF IInv, TypeInv

\* Appending to a sequence adds one element and leaves the others.
LEMMA AppendElements ==
  ASSUME NEW S, NEW s \in Seq(S), NEW x \in S
  PROVE  /\ Append(s, x) \in Seq(S)
         /\ \A k \in DOMAIN Append(s, x) :
              \/ k \in DOMAIN s /\ Append(s, x)[k] = s[k]
              \/ k = Len(s) + 1 /\ Append(s, x)[k] = x
         /\ Fbs(Append(s, x)) = Fbs(s) \cup {x}
<1> DEFINE t == Append(s, x)
<1>1. /\ t \in Seq(S) /\ Len(t) = Len(s) + 1 /\ Len(s) \in Nat
      /\ DOMAIN t = 1..(Len(s) + 1) /\ DOMAIN s = 1..Len(s)
      /\ \A i \in 1..Len(s) : t[i] = s[i]
      /\ t[Len(s) + 1] = x
  BY AppendProperties, LenProperties
<1> HIDE DEF t
<1>2. \A k \in DOMAIN t : \/ k \in DOMAIN s /\ t[k] = s[k]
                          \/ k = Len(s) + 1 /\ t[k] = x
  BY <1>1
<1>3. \A k \in DOMAIN s : k \in DOMAIN t /\ t[k] = s[k]
  BY <1>1
<1>4. Len(s) + 1 \in DOMAIN t /\ t[Len(s) + 1] = x
  BY <1>1
<1>5. Fbs(t) = Fbs(s) \cup {x}
  BY <1>2, <1>3, <1>4 DEF Fbs
<1> QED BY <1>1, <1>2, <1>5 DEF t

\* What a handler puts in the place of a message keeps what is known of it.
LEMMA Answered ==
  ASSUME IInv, NEW m \in air, NEW A,
         \A x \in A : x \in AirMsg /\ x.proc = m.proc /\ x.tb = m.tb
                      /\ x.rv = m.rv /\ x.age = m.age,
         \A x, y \in A : x = y,
         air' = (air \ {m}) \cup A,
         UNCHANGED <<harq, toRetx, ulInfo, decoded>>
  PROVE  /\ air' \subseteq AirMsg
         /\ AirOK' /\ FeedbackOK' /\ OneFeedback' /\ DecodedOK'
<1>1. air' \subseteq AirMsg
  BY DEF IInv, TypeInv, TypeOK
<1>2. AirOK'
  BY DEF IInv, AirOK
<1>3. FeedbackOK'
  BY DEF IInv, FeedbackOK
<1>4. OneFeedback'
  BY DEF IInv, OneFeedback
<1>5. DecodedOK'
  BY DEF IInv, DecodedOK
<1> QED BY <1>1, <1>2, <1>3, <1>4, <1>5

\* A TB that is received leaves the air for the list of feedback.
LEMMA Received ==
  ASSUME IInv, NEW m \in air, NEW ack \in BOOLEAN,
         air' = air \ {m}, ulInfo' = UlHarqFeedback(m, ack),
         UNCHANGED <<harq, toRetx>>
  PROVE  /\ air' \subseteq AirMsg /\ ulInfo' \in Seq(Feedback)
         /\ Fbs(ulInfo') = Fbs(ulInfo) \cup {[proc |-> m.proc, tb |-> m.tb, ack |-> ack]}
         /\ AirOK' /\ FeedbackOK' /\ OneFeedback'
<1> DEFINE f == [proc |-> m.proc, tb |-> m.tb, ack |-> ack]
<1>1. m \in AirMsg /\ ulInfo \in Seq(Feedback) /\ air \subseteq AirMsg
  BY DEF IInv, TypeInv, TypeOK
<1>2. f \in Feedback /\ f.proc = m.proc /\ f.tb = m.tb /\ ulInfo' = Append(ulInfo, f)
  BY <1>1 DEF AirMsg, Feedback, UlHarqFeedback
<1> HIDE DEF f
<1>3. /\ ulInfo' \in Seq(Feedback)
      /\ Fbs(ulInfo') = Fbs(ulInfo) \cup {f}
      /\ \A k \in DOMAIN ulInfo' : \/ k \in DOMAIN ulInfo /\ ulInfo'[k] = ulInfo[k]
                                   \/ k = Len(ulInfo) + 1 /\ ulInfo'[k] = f
  BY <1>1, <1>2, AppendElements
<1>4. AirOK'
  BY DEF IInv, AirOK
<1>5. FeedbackOK'
  BY <1>2, <1>3 DEF IInv, FeedbackOK, AirOK
<1>6. Distinct(ulInfo')
  <2>1. \A k \in DOMAIN ulInfo : ulInfo[k] \in Fbs(ulInfo)
    BY DEF Fbs
  <2>2. \A k \in DOMAIN ulInfo : ulInfo[k].proc # f.proc
    BY <1>2, <2>1 DEF IInv, OneFeedback
  <2> QED BY <1>3, <2>2 DEF IInv, OneFeedback, Distinct
<1>7. OneFeedback'
  BY <1>2, <1>3, <1>6 DEF IInv, OneFeedback, Distinct
<1> QED BY <1>1, <1>3, <1>4, <1>5, <1>7 DEF f

\* What a UE sends in answer to a grant.
LEMMA OnAirType ==
  ASSUME IInv, NEW m \in air, NEW pdu \in BOOLEAN
  PROVE  LET x == OnAir(m, pdu)
         IN  /\ x \in AirMsg /\ x.proc = m.proc /\ x.tb = m.tb /\ x.rv = m.rv /\ x.age = m.age
             /\ x.st = IF pdu THEN "pdu" ELSE "bsr"
  BY DEF IInv, TypeInv, TypeOK, AirMsg, OnAir

\* The handlers of a DCI at the UE and of a TB at the gNB.
LEMMA DeliverStep ==
  ASSUME IInv, NEW m \in air, Deliver(m)
  PROVE  IInv'
<1>1. /\ m \in AirMsg /\ m.proc \in Proc /\ m.tb \in 1..MaxTb /\ m.tb # 0 /\ m.rv \in 0..3
      /\ m.tb = harq[m.proc].tb /\ harq[m.proc].active
      /\ TypeOK /\ StatusOK
  <2>1. m \in AirMsg /\ TypeOK /\ StatusOK
    BY DEF IInv, TypeInv, TypeOK
  <2>2. m.tb = harq[m.proc].tb /\ harq[m.proc].active
    BY DEF IInv, AirOK
  <2>3. m.tb \in 1..MaxTb /\ m.tb # 0
    BY <2>1, MaxTbAssumption DEF AirMsg
  <2> QED BY <2>1, <2>2, <2>3 DEF AirMsg
<1>2. UNCHANGED <<harq, toRetx, reported>>
  BY DEF Deliver, SendNewData, TransmitRetx, EndRxDataOk, EndRxDataCorrupted, TbUnreceived
<1>3. StatusOK'
  BY <1>1, <1>2 DEF StatusOK
<1>4. \A n \in air : n # m => n.proc # m.proc
  BY DEF IInv, OneFeedback
<1>5. \A f \in Fbs(toRetx) \cup Fbs(ulInfo) : f.proc # m.proc
  BY DEF IInv, OneFeedback
<1>6. CASE SendNewData(m)
  <2>1. /\ m.st = "dci" /\ m.rv = 0
        /\ UNCHANGED <<ulInfo, hist, decoded>>
        /\ \E pdu \in BOOLEAN :
             /\ pdu => m.proc[1] \in reported
             /\ ueBuf' = [ueBuf EXCEPT ![m.proc] = IF pdu THEN m.tb ELSE 0]
             /\ air' = (air \ {m}) \cup
                       (IF m.proc[1] \in reported THEN {OnAir(m, pdu)} ELSE {})
    BY <1>6 DEF SendNewData
  <2>2. PICK pdu \in BOOLEAN :
             /\ ueBuf' = [ueBuf EXCEPT ![m.proc] = IF pdu THEN m.tb ELSE 0]
             /\ air' = (air \ {m}) \cup
                       (IF m.proc[1] \in reported THEN {OnAir(m, pdu)} ELSE {})
    BY <2>1
  <2>3. PICK A : /\ A \subseteq {OnAir(m, pdu)}
                 /\ air' = (air \ {m}) \cup A
    BY <2>2
  <2>4. /\ OnAir(m, pdu) \in AirMsg /\ OnAir(m, pdu).proc = m.proc /\ OnAir(m, pdu).tb = m.tb
        /\ OnAir(m, pdu).rv = m.rv /\ OnAir(m, pdu).age = m.age
        /\ OnAir(m, pdu).st = IF pdu THEN "pdu" ELSE "bsr"
    BY OnAirType
  <2>5. /\ air' \subseteq AirMsg
        /\ AirOK' /\ FeedbackOK' /\ OneFeedback' /\ DecodedOK'
    BY <1>2, <2>1, <2>3, <2>4, Answered
  <2>6. /\ ueBuf' \in [Proc -> 0..MaxTb]
        /\ ueBuf'[m.proc] = IF pdu THEN m.tb ELSE 0
        /\ \A p \in Proc : p # m.proc => ueBuf'[p] = ueBuf[p] /\ Kind(p)' = Kind(p)
    <3>1. m.tb \in 0..MaxTb /\ 0 \in 0..MaxTb
      BY <1>1, MaxTbAssumption
    <3>2. PICK b \in 0..MaxTb : b = IF pdu THEN m.tb ELSE 0
      BY <3>1
    <3>3. ueBuf' = [ueBuf EXCEPT ![m.proc] = b] /\ ueBuf \in [Proc -> 0..MaxTb]
      BY <1>1, <2>2, <3>2 DEF TypeOK
    <3> QED BY <1>1, <3>2, <3>3 DEF Kind
  <2>7. TypeOK'
    BY <1>1, <1>2, <2>1, <2>5, <2>6 DEF TypeOK
  <2>8. HistOK'
    <3> SUFFICES ASSUME NEW p \in Proc, NEW k \in DOMAIN hist[p]
                 PROVE  /\ hist[p][k].tb <= harq[p].tb
                        /\ hist[p][k].tb = harq[p].tb => hist[p][k].st = Kind(p)'
      BY <1>2, <2>1 DEF HistOK
    <3>1. /\ hist[p][k].tb <= harq[p].tb
          /\ hist[p][k].tb = harq[p].tb => hist[p][k].st = Kind(p)
      BY DEF IInv, HistOK
    <3>2. p = m.proc => hist[p][k].tb # harq[p].tb
      BY <1>1, <2>1 DEF IInv, BufOK
    <3> QED BY <2>6, <3>1, <3>2
  <2>9. BufOK'
    <3>1. ASSUME NEW n \in air'
          PROVE  /\ IF n.st = "dci" /\ n.rv = 0
                    THEN \A k \in DOMAIN hist'[n.proc] : hist'[n.proc][k].tb # n.tb
                    ELSE ueBuf'[n.proc] \in {0, n.tb}
                 /\ n.st # "dci" => n.st = Kind(n.proc)'
      <4>1. CASE n \in air /\ n # m
        <5>1. n.proc \in Proc /\ ueBuf'[n.proc] = ueBuf[n.proc] /\ Kind(n.proc)' = Kind(n.proc)
          BY <1>1, <1>4, <2>6, <4>1 DEF TypeOK, AirMsg
        <5> QED BY <2>1, <4>1, <5>1 DEF IInv, BufOK
      <4>2. CASE n = OnAir(m, pdu)
        BY <1>1, <2>4, <2>6, <4>2 DEF Kind
      <4> QED BY <2>3, <4>1, <4>2
    <3>2. ASSUME NEW f \in Fbs(toRetx) \cup Fbs(ulInfo)
          PROVE  ueBuf'[f.proc] \in {0, f.tb}
      <4>1. f.proc # m.proc
        BY <1>5
      <4>2. ueBuf'[f.proc] = ueBuf[f.proc]
        BY <1>1, <2>2, <4>1 DEF TypeOK
      <4> QED BY <4>2 DEF IInv, BufOK
    <3> QED BY <1>2, <2>1, <3>1, <3>2 DEF BufOK
  <2> QED BY <1>3, <2>5, <2>7, <2>8, <2>9 DEF IInv, TypeInv
<1>7. CASE TransmitRetx(m)
  <2> DEFINE pdu == ueBuf[m.proc] # 0
  <2>1. /\ m.st = "dci" /\ m.rv > 0
        /\ UNCHANGED <<ulInfo, hist, decoded, ueBuf>>
        /\ air' = (air \ {m}) \cup
                  (IF m.proc[1] \in reported THEN {OnAir(m, pdu)} ELSE {})
    BY <1>7 DEF TransmitRetx
  <2>2. pdu \in BOOLEAN
    OBVIOUS
  <2>3. PICK x : x = OnAir(m, pdu)
    OBVIOUS
  <2>4. /\ x \in AirMsg /\ x.proc = m.proc /\ x.tb = m.tb /\ x.rv = m.rv /\ x.age = m.age
        /\ x.st = IF pdu THEN "pdu" ELSE "bsr"
    BY <2>2, <2>3, OnAirType
  <2>5. PICK A : A \subseteq {x} /\ air' = (air \ {m}) \cup A
    BY <2>1, <2>3
  <2>6. /\ air' \subseteq AirMsg
        /\ AirOK' /\ FeedbackOK' /\ OneFeedback' /\ DecodedOK'
    BY <1>2, <2>1, <2>4, <2>5, Answered
  <2>7. TypeOK'
    BY <1>1, <1>2, <2>1, <2>6 DEF TypeOK
  <2>8. HistOK'
    BY <1>2, <2>1 DEF IInv, HistOK, Kind
  <2>9. BufOK'
    <3>1. ueBuf[m.proc] \in {0, m.tb}
      BY <1>1, <2>1 DEF IInv, BufOK
    <3>2. x.st = Kind(m.proc) /\ x.st # "dci"
      BY <2>4 DEF Kind
    <3>3. \A n \in air' : n \in air \/ n = x
      BY <2>5
    <3> QED BY <1>2, <2>1, <2>4, <3>1, <3>2, <3>3 DEF IInv, BufOK, Kind
  <2> QED BY <1>3, <2>6, <2>7, <2>8, <2>9 DEF IInv, TypeInv
<1>8. CASE EndRxDataOk(m)
  <2> DEFINE f == [proc |-> m.proc, tb |-> m.tb, ack |-> TRUE]
  <2>1. /\ m.st # "dci"
        /\ air' = air \ {m} /\ ulInfo' = UlHarqFeedback(m, TRUE)
        /\ hist' = [hist EXCEPT ![m.proc] = <<>>]
        /\ decoded' = decoded \cup {<<m.proc, m.tb>>}
        /\ ueBuf' = ueBuf
    BY <1>8 DEF EndRxDataOk, OnChannel
  <2>2. f.proc = m.proc /\ f.tb = m.tb /\ f.ack
    OBVIOUS
  <2>3. /\ air' \subseteq AirMsg /\ ulInfo' \in Seq(Feedback)
        /\ Fbs(ulInfo') = Fbs(ulInfo) \cup {f}
        /\ AirOK' /\ FeedbackOK' /\ OneFeedback'
    BY <1>2, <2>1, Received
  <2> HIDE DEF f
  <2>4. /\ hist' \in [Proc -> Seq([tb : 1..MaxTb, st : {"pdu", "bsr"}])]
        /\ DOMAIN hist'[m.proc] = {}
        /\ \A p \in Proc : p # m.proc => hist'[p] = hist[p]
    <3>1. <<>> \in Seq([tb : 1..MaxTb, st : {"pdu", "bsr"}]) /\ DOMAIN <<>> = {}
      OBVIOUS
    <3>2. hist \in [Proc -> Seq([tb : 1..MaxTb, st : {"pdu", "bsr"}])]
      BY <1>1 DEF TypeOK
    <3> QED BY <1>1, <2>1, <3>1, <3>2
  <2>5. TypeOK'
    <3>1. decoded' \subseteq Proc \X (1..MaxTb)
      BY <1>1, <2>1 DEF TypeOK
    <3> QED BY <1>1, <1>2, <2>1, <2>3, <2>4, <3>1 DEF TypeOK
  <2>6. DecodedOK'
    <3>1. ASSUME NEW p \in Proc, NEW t \in 1..MaxTb, <<p, t>> \in decoded'
          PROVE  t <= harq'[p].tb
      BY <1>1, <1>2, <2>1, <3>1 DEF IInv, DecodedOK
    <3>2. ASSUME NEW n \in air'
          PROVE  <<n.proc, n.tb>> \notin decoded'
      BY <1>4, <2>1 DEF IInv, DecodedOK
    <3>3. ASSUME NEW g \in Fbs(toRetx) \cup Fbs(ulInfo'), ~g.ack
          PROVE  <<g.proc, g.tb>> \notin decoded'
      BY <1>5, <2>1, <2>2, <2>3, <3>3 DEF IInv, DecodedOK
    <3> QED BY <1>2, <3>1, <3>2, <3>3 DEF DecodedOK
  <2>7. HistOK'
    BY <1>2, <2>1, <2>4 DEF IInv, HistOK, Kind
  <2>8. BufOK'
    <3>1. ASSUME NEW n \in air'
          PROVE  /\ IF n.st = "dci" /\ n.rv = 0
                    THEN \A k \in DOMAIN hist'[n.proc] : hist'[n.proc][k].tb # n.tb
                    ELSE ueBuf[n.proc] \in {0, n.tb}
                 /\ n.st # "dci" => n.st = Kind(n.proc)
      <4>1. n \in air /\ n.proc # m.proc /\ n.proc \in Proc
        BY <1>1, <1>4, <2>1 DEF TypeOK, AirMsg
      <4>2. hist'[n.proc] = hist[n.proc]
        BY <2>4, <4>1
      <4> QED BY <4>1, <4>2 DEF IInv, BufOK
    <3>2. ASSUME NEW g \in Fbs(toRetx) \cup Fbs(ulInfo')
          PROVE  ueBuf[g.proc] \in {0, g.tb}
      BY <2>1, <2>2, <2>3 DEF IInv, BufOK
    <3> QED BY <1>2, <2>1, <3>1, <3>2 DEF BufOK, Kind
  <2> QED BY <1>3, <2>3, <2>5, <2>6, <2>7, <2>8 DEF IInv, TypeInv
<1>9. CASE EndRxDataCorrupted(m)
  <2> DEFINE f == [proc |-> m.proc, tb |-> m.tb, ack |-> FALSE]
             r == [tb |-> m.tb, st |-> m.st]
             Recs == [tb : 1..MaxTb, st : {"pdu", "bsr"}]
  <2>1. /\ m.st \in {"pdu", "bsr"}
        /\ air' = air \ {m} /\ ulInfo' = UlHarqFeedback(m, FALSE)
        /\ hist' = [hist EXCEPT ![m.proc] = IF m.rv = 3 THEN <<>> ELSE Append(@, r)]
        /\ decoded' = decoded /\ ueBuf' = ueBuf
    BY <1>9 DEF EndRxDataCorrupted, OnChannel
  <2>2. f.proc = m.proc /\ f.tb = m.tb /\ f.ack = FALSE
        /\ r \in Recs /\ r.tb = m.tb /\ r.st = m.st
    BY <1>1, <2>1
  <2>3. /\ air' \subseteq AirMsg /\ ulInfo' \in Seq(Feedback)
        /\ Fbs(ulInfo') = Fbs(ulInfo) \cup {f}
        /\ AirOK' /\ FeedbackOK' /\ OneFeedback'
    BY <1>2, <2>1, Received
  <2> HIDE DEF f, r
  <2>4. PICK h \in Seq(Recs) :
          /\ hist' = [hist EXCEPT ![m.proc] = h]
          /\ \A k \in DOMAIN h : \/ h[k] = r
                                 \/ k \in DOMAIN hist[m.proc] /\ h[k] = hist[m.proc][k]
    <3>1. PICK s \in Seq(Recs) : s = hist[m.proc]
      BY <1>1 DEF TypeOK
    <3>2. /\ Append(s, r) \in Seq(Recs)
          /\ \A k \in DOMAIN Append(s, r) : \/ Append(s, r)[k] = r
                                            \/ k \in DOMAIN s /\ Append(s, r)[k] = s[k]
      BY <2>2, AppendElements
    <3>3. <<>> \in Seq(Recs) /\ DOMAIN <<>> = {}
      OBVIOUS
    <3>4. CASE m.rv = 3
      BY <2>1, <3>3, <3>4
    <3>5. CASE m.rv # 3
      <4>1. hist' = [hist EXCEPT ![m.proc] = Append(s, r)]
        BY <2>1, <3>1, <3>5
      <4> QED BY <3>1, <3>2, <4>1
    <3> QED BY <3>4, <3>5
  <2>5. /\ hist \in [Proc -> Seq(Recs)] /\ hist' \in [Proc -> Seq(Recs)]
        /\ hist'[m.proc] = h
        /\ \A p \in Proc : p # m.proc => hist'[p] = hist[p]
    BY <1>1, <2>4 DEF TypeOK
  <2>6. TypeOK'
    BY <1>1, <1>2, <2>1, <2>3, <2>5 DEF TypeOK
  <2>7. DecodedOK'
    BY <1>2, <2>1, <2>2, <2>3 DEF IInv, DecodedOK
  <2>8. HistOK'
    <3> SUFFICES ASSUME NEW p \in Proc, NEW k \in DOMAIN hist'[p]
                 PROVE  /\ hist'[p][k].tb <= harq[p].tb
                        /\ hist'[p][k].tb = harq[p].tb => hist'[p][k].st = Kind(p)
      BY <1>2, <2>1, SMTT(30) DEF HistOK, Kind
    <3>1. m.st = Kind(m.proc)
      BY <2>1 DEF IInv, BufOK
    <3>2. CASE p = m.proc
      <4>1. k \in DOMAIN h /\ hist'[p][k] = h[k]
        BY <2>5, <3>2
      <4>2. CASE h[k] = r
        BY <1>1, <2>2, <3>1, <3>2, <4>1, <4>2
      <4>3. CASE k \in DOMAIN hist[p] /\ h[k] = hist[p][k]
        BY <4>1, <4>3 DEF IInv, HistOK
      <4> QED BY <2>4, <3>2, <4>1, <4>2, <4>3
    <3>3. CASE p # m.proc
      BY <2>5, <3>3 DEF IInv, HistOK
    <3> QED BY <3>2, <3>3
  <2>9. BufOK'
    <3>1. ASSUME NEW n \in air'
          PROVE  /\ IF n.st = "dci" /\ n.rv = 0
                    THEN \A k \in DOMAIN hist'[n.proc] : hist'[n.proc][k].tb # n.tb
                    ELSE ueBuf[n.proc] \in {0, n.tb}
                 /\ n.st # "dci" => n.st = Kind(n.proc)
      <4>1. n \in air /\ n.proc # m.proc /\ n.proc \in Proc
        BY <1>1, <1>4, <2>1 DEF TypeOK, AirMsg
      <4>2. hist'[n.proc] = hist[n.proc]
        BY <2>5, <4>1
      <4> QED BY <4>1, <4>2 DEF IInv, BufOK
    <3>2. ASSUME NEW g \in Fbs(toRetx) \cup Fbs(ulInfo')
          PROVE  ueBuf[g.proc] \in {0, g.tb}
      BY <2>1, <2>2, <2>3 DEF IInv, BufOK
    <3> QED BY <1>2, <2>1, <3>1, <3>2 DEF BufOK, Kind
  <2> QED BY <1>3, <2>3, <2>6, <2>7, <2>8, <2>9 DEF IInv, TypeInv
<1>10. CASE TbUnreceived(m)
  <2>1. air' = (air \ {m}) \cup {} /\ UNCHANGED <<ulInfo, ueBuf, hist, decoded>>
    BY <1>10 DEF TbUnreceived
  <2>2. air' \subseteq AirMsg /\ AirOK' /\ FeedbackOK' /\ OneFeedback' /\ DecodedOK'
    <3>1. PICK A : A = {}
      OBVIOUS
    <3> QED BY <1>2, <2>1, <3>1, Answered
  <2>3. TypeOK'
    BY <1>1, <1>2, <2>1, <2>2 DEF TypeOK
  <2>4. HistOK' /\ BufOK'
    BY <1>2, <2>1 DEF IInv, HistOK, BufOK, Kind
  <2> QED BY <1>3, <2>2, <2>3, <2>4 DEF IInv, TypeInv
<1> QED BY <1>6, <1>7, <1>8, <1>9, <1>10 DEF Deliver

(***************************************************************************)
(* The theorems.                                                           *)
(***************************************************************************)
\* An empty cell: every process inactive, nothing in flight.
LEMMA InitIInv == Init => IInv
<1> SUFFICES ASSUME Init PROVE IInv
  OBVIOUS
<1>1. Fbs(toRetx) = {} /\ Fbs(ulInfo) = {} /\ DOMAIN toRetx = {} /\ DOMAIN ulInfo = {}
  BY DEF Init, Fbs
<1>2. TypeInv
  <2>1. \A p \in Proc : harq[p] = InactiveProcess(0)
    BY DEF Init
  <2>2. InactiveProcess(0) \in Process
    BY NumAssumption, MaxTbAssumption DEF InactiveProcess, Process, Status
  <2>3. TypeOK
    BY <2>2, MaxTbAssumption DEF Init, TypeOK
  <2>4. StatusOK
    BY <2>1, MaxHarqReTxValue DEF StatusOK, InactiveProcess
  <2> QED BY <2>3, <2>4 DEF TypeInv
<1>3. AirOK /\ FeedbackOK /\ OneFeedback /\ DecodedOK
  BY <1>1 DEF Init, AirOK, FeedbackOK, OneFeedback, DecodedOK, Distinct
<1>4. HistOK /\ BufOK
  BY <1>1 DEF Init, HistOK, BufOK
<1> QED BY <1>2, <1>3, <1>4 DEF IInv

\* No handler of the loop breaks the invariant.
LEMMA NextIInv ==
  ASSUME MaxRtt <= NumHarqProcess + 1, IInv, [Next]_vars
  PROVE  IInv'
<1>1. CASE UlTrigger
  BY <1>1, TriggerStep
<1>2. CASE \E m \in air : Deliver(m)
  BY <1>2, DeliverStep
<1>3. CASE \E u \in UEs : ReportBufferStatus(u)
  <2>1. /\ UNCHANGED <<harq, toRetx, ulInfo, ueBuf, air, hist, decoded>>
        /\ \E u \in UEs : reported' = reported \cup {u}
    BY <1>3 DEF ReportBufferStatus
  <2>2. TypeOK'
    BY <2>1 DEF IInv, TypeInv, TypeOK
  <2>3. StatusOK' /\ AirOK' /\ FeedbackOK' /\ OneFeedback' /\ DecodedOK' /\ HistOK' /\ BufOK'
    BY <2>1 DEF IInv, TypeInv, StatusOK, AirOK, FeedbackOK, OneFeedback, DecodedOK, HistOK,
                BufOK, Kind
  <2> QED BY <2>2, <2>3 DEF IInv, TypeInv
<1>4. CASE UNCHANGED vars
  <2>1. TypeOK' /\ StatusOK'
    BY <1>4 DEF vars, IInv, TypeInv, TypeOK, StatusOK
  <2>2. AirOK' /\ FeedbackOK' /\ OneFeedback' /\ DecodedOK'
    BY <1>4 DEF vars, IInv, AirOK, FeedbackOK, OneFeedback, DecodedOK
  <2>3. HistOK' /\ BufOK'
    BY <1>4 DEF vars, IInv, HistOK, BufOK, Kind
  <2> QED BY <2>1, <2>2, <2>3 DEF IInv, TypeInv
<1> QED BY <1>1, <1>2, <1>3, <1>4 DEF Next

\* Every reachable state satisfies the strengthened invariant.
THEOREM Invariance == ASSUME MaxRtt <= NumHarqProcess + 1
                      PROVE  Spec => []IInv
<1>1. Init => IInv
  BY InitIInv
<1>2. IInv /\ [Next]_vars => IInv'
  BY NextIInv
<1> QED BY <1>1, <1>2, PTL DEF Spec

\* The variables of the loop keep their types: MergeHARQ, the symbols that
\* ScheduleUlHarq has left, the timer and the redundancy version in their bounds.
THEOREM TypeCorrect == ASSUME MaxRtt <= NumHarqProcess + 1
                       PROVE  Spec => []TypeOK
<1>1. IInv => TypeOK
  BY DEF IInv, TypeInv
<1> QED BY <1>1, Invariance, PTL

\* A set without two different elements has one at most.
LEMMA AtMostOne == ASSUME NEW S, \A x, y \in S : x = y
                   PROVE  Cardinality(S) \in {0, 1} /\ (S = {} => Cardinality(S) = 0)
<1>1. CASE S = {}
  BY <1>1, FS_EmptySet
<1>2. CASE S # {}
  <2>1. PICK x \in S : TRUE
    BY <1>2
  <2>2. S = {x}
    BY <2>1
  <2> QED BY <1>2, <2>2, FS_Singleton
<1> QED BY <1>1, <1>2

\* MergeHARQ never meets two feedbacks of a process, nor one of a process that
\* was given to another TB or to none.
THEOREM FeedbackSafe == ASSUME MaxRtt <= NumHarqProcess + 1
                        PROVE  Spec => []OneFeedbackOfItsTb
<1>1. IInv => OneFeedbackOfItsTb
  <2> SUFFICES ASSUME IInv PROVE OneFeedbackOfItsTb
    OBVIOUS
  <2>1. \A k \in DOMAIN Merged : Merged[k] \in Fbs(toRetx) \cup Fbs(ulInfo)
    BY MergedElements DEF Fbs
  <2>2. \A k \in DOMAIN Merged :
          harq[Merged[k].proc].active /\ harq[Merged[k].proc].tb = Merged[k].tb
    BY <2>1 DEF IInv, FeedbackOK
  <2>3. \A m \in air : harq[m.proc].active /\ harq[m.proc].tb = m.tb
    BY DEF IInv, AirOK
  <2>4. ASSUME NEW p \in Proc
        PROVE  Underway(p) <= 1
    <3> DEFINE A == {m \in air : m.proc = p}
               B == {k \in DOMAIN Merged : Merged[k].proc = p}
    <3>1. \A x, y \in A : x = y
      BY DEF IInv, OneFeedback
    <3>2. \A x, y \in B : x = y
      BY MergedElements DEF Distinct
    <3>3. A = {} \/ B = {}
      BY <2>1 DEF IInv, OneFeedback
    <3>4. Underway(p) = Cardinality(A) + Cardinality(B)
      BY DEF Underway
    <3> HIDE DEF A, B
    <3>5. Cardinality(A) \in {0, 1} /\ (A = {} => Cardinality(A) = 0)
      BY <3>1, AtMostOne
    <3>6. Cardinality(B) \in {0, 1} /\ (B = {} => Cardinality(B) = 0)
      BY <3>2, AtMostOne
    <3> QED BY <3>3, <3>4, <3>5, <3>6
  <2> QED BY <2>2, <2>3, <2>4 DEF OneFeedbackOfItsTb
<1> QED BY <1>1, Invariance, PTL

\* TransmitRetx sends the TB that was granted first, and the gNB combines
\* receptions of one kind.
THEOREM BufferSafe == ASSUME MaxRtt <= NumHarqProcess + 1
                      PROVE  Spec => []UeBufferHoldsTb
<1>1. IInv => UeBufferHoldsTb
  <2> SUFFICES ASSUME IInv PROVE UeBufferHoldsTb
    OBVIOUS
  <2>1. ASSUME NEW m \in air, m.st = "dci", m.rv > 0
        PROVE  ueBuf[m.proc] \in {0, m.tb}
    <3>1. m.rv # 0
      BY <2>1 DEF IInv, TypeInv, TypeOK, AirMsg
    <3> QED BY <3>1 DEF IInv, BufOK
  <2>2. ASSUME NEW m \in air, OnChannel(m), NEW k \in DOMAIN hist[m.proc],
               hist[m.proc][k].tb = m.tb
        PROVE  hist[m.proc][k].st = m.st
    <3>1. m.proc \in Proc /\ harq[m.proc].tb = m.tb /\ m.st = Kind(m.proc)
      BY <2>2 DEF IInv, TypeInv, TypeOK, AirMsg, AirOK, BufOK, OnChannel
    <3> QED BY <2>2, <3>1 DEF IInv, HistOK
  <2> QED BY <2>1, <2>2 DEF UeBufferHoldsTb
<1> QED BY <1>1, Invariance, PTL

(***************************************************************************)
(* The loop implements the abstract service.                               *)
(***************************************************************************)
\* DoSchedUlTriggerReq starts, retries, stops or keeps each process.
LEMMA TriggerRefines ==
  ASSUME MaxRtt <= NumHarqProcess + 1, IInv, UlTrigger
  PROVE  Service!Schedule
<1> DEFINE Step(sym, fresh, numSym) == harq' = ScheduledHarq(sym, fresh, numSym)
           Granted(h) == [tb |-> h.tb, sent |-> IF h.active THEN h.rv + 1 ELSE 0]
           Retried(p) == /\ harq[p].active /\ harq'[p].active
                         /\ harq[p].rv + 1 \in 1..(MaxHarqReTx(p[1]) + 1 - 1)
                         /\ <<p, harq[p].tb>> \notin decoded
                         /\ harq'[p].tb = harq[p].tb /\ harq'[p].rv = harq[p].rv + 1
           Acts(p) == \/ Granted(harq'[p]) = [tb |-> harq[p].tb + 1, sent |-> 1]
                      \/ Retried(p)
                      \/ Granted(harq'[p]) = [tb |-> harq[p].tb, sent |-> 0]
                      \/ Granted(harq'[p]) = Granted(harq[p])
<1>1. PICK sym \in SlotSyms : \E fresh \in Insertable(sym) :
        \E numSym \in [fresh -> 1..SymAfterHarq(sym)] : Step(sym, fresh, numSym)
  BY DEF UlTrigger
<1>2. PICK fresh \in Insertable(sym) :
        \E numSym \in [fresh -> 1..SymAfterHarq(sym)] : Step(sym, fresh, numSym)
  BY <1>1
<1>3. PICK numSym \in [fresh -> 1..SymAfterHarq(sym)] : Step(sym, fresh, numSym)
  BY <1>2
<1>4. ASSUME NEW p \in Proc
      PROVE  Acts(p)
  <2>1. CASE p \in fresh
    <3>1. harq'[p] = NewProcess(harq[p].tb + 1, numSym[p])
      BY <1>3, <2>1, ScheduledProcess
    <3> QED BY <3>1 DEF NewProcess
  <2>2. CASE p \notin fresh /\ p \in Released
    <3>1. harq'[p] = InactiveProcess(harq[p].tb)
      BY <1>3, <2>2, ScheduledProcess
    <3> QED BY <3>1 DEF InactiveProcess
  <2>3. CASE p \in ProcsAt(Nacks)
    <3>1. PICK k \in Nacks : p = Merged[k].proc
      BY <2>3 DEF ProcsAt
    <3>2. /\ harq[p].rv \in 0..2 /\ harq[p].rv < MaxHarqReTx(p[1])
          /\ <<p, harq[p].tb>> \notin decoded
      BY <3>1, NackedProcess
    <3>3. harq[p].active
      BY <3>1, NackedProcess, HeardFeedback
    <3>4. p \notin fresh /\ harq'[p] = ScheduledHarq(sym, fresh, numSym)[p]
      BY <1>3, <2>3, ScheduledProcess
    <3>5. PICK h : h = ScheduledHarq(sym, fresh, numSym)[p]
      OBVIOUS
    <3>6. IsTried(h, p, sym)
      BY <3>1, <3>4, <3>5, TriedProcess
    <3>7. harq'[p] = h
      BY <3>4, <3>5
    <3>8. CASE p \in ProcsAt(Retransmit(sym))
      <4>1. harq'[p].active /\ harq'[p].tb = harq[p].tb /\ harq'[p].rv = harq[p].rv + 1
        BY <3>6, <3>7, <3>8 DEF IsTried
      <4>2. MaxHarqReTx(p[1]) \in {0, 3}
        BY MaxHarqReTxValue
      <4>3. harq[p].rv + 1 \in 1..(MaxHarqReTx(p[1]) + 1 - 1)
        BY <3>2, <4>2
      <4> QED BY <3>2, <3>3, <4>1, <4>3
    <3>9. CASE p \notin ProcsAt(Retransmit(sym))
      <4>1. harq'[p].active /\ harq'[p].tb = harq[p].tb /\ harq'[p].rv = harq[p].rv
        BY <3>6, <3>7, <3>9 DEF IsTried
      <4> QED BY <3>3, <4>1
    <3> QED BY <3>8, <3>9
  <2>4. CASE p \notin fresh /\ p \notin ProcsAt(Heard)
    <3>1. harq'[p] = Aged[p]
      BY <1>3, <2>4, ScheduledProcess
    <3>2. Aged[p].tb = harq[p].tb
            /\ (Aged[p].active => harq[p].active /\ Aged[p].rv = harq[p].rv)
            /\ Aged[p].active \in BOOLEAN
      BY AgedType DEF IInv, TypeInv, Process
    <3> QED BY <3>1, <3>2
  <2>5. ProcsAt(Heard) = Released \cup ProcsAt(Nacks)
    BY DEF Released, ProcsAt, Nacks
  <2> QED BY <2>1, <2>2, <2>3, <2>4, <2>5
<1>5. decoded' = decoded
  BY DEF UlTrigger
<1>6. ASSUME NEW p \in Proc
      PROVE  Service!Start(p) \/ Service!Retry(p) \/ Service!Stop(p) \/ Service!Keep(p)
  <2>1. CASE Granted(harq'[p]) = [tb |-> harq[p].tb + 1, sent |-> 1]
    BY <2>1 DEF Service!Start
  <2>2. CASE Retried(p)
    <3>1. harq[p].rv \in Int /\ MaxHarqReTx(p[1]) \in Int
      <4>1. harq[p] \in Process
        BY DEF IInv, TypeInv, TypeOK
      <4>2. MaxHarqReTx(p[1]) \in {0, 3}
        BY MaxHarqReTxValue
      <4> QED BY <4>1, <4>2 DEF Process
    <3> SUFFICES Service!Retry(p)
      OBVIOUS
    <3> QED BY <2>2, <3>1, SMTT(60) DEF Service!Retry
  <2>3. CASE Granted(harq'[p]) = [tb |-> harq[p].tb, sent |-> 0]
    BY <2>3 DEF Service!Stop
  <2>4. CASE Granted(harq'[p]) = Granted(harq[p])
    BY <2>4 DEF Service!Keep
  <2> QED BY <1>4, <2>1, <2>2, <2>3, <2>4
<1> QED BY <1>5, <1>6 DEF Service!Schedule

\* Of the other handlers only a decoding shows: the TB is received once.
LEMMA DeliverRefines ==
  ASSUME IInv, NEW m \in air, Deliver(m)
  PROVE  Service!Receive \/ UNCHANGED Service!avars
<1>1. m.proc \in Proc /\ harq' = harq
  BY DEF IInv, TypeInv, TypeOK, AirMsg, Deliver, SendNewData, TransmitRetx, EndRxDataOk,
         EndRxDataCorrupted, TbUnreceived
<1>2. CASE EndRxDataOk(m)
  <2>1. decoded' = decoded \cup {<<m.proc, m.tb>>}
    BY <1>2 DEF EndRxDataOk
  <2>2. harq[m.proc].active /\ harq[m.proc].tb = m.tb /\ <<m.proc, m.tb>> \notin decoded
    BY DEF IInv, AirOK, DecodedOK
  <2>3. harq[m.proc] \in Process
    BY <1>1 DEF IInv, TypeInv, TypeOK
  <2>4. harq[m.proc].rv + 1 > 0
    BY <2>3 DEF Process
  <2> QED BY <1>1, <2>1, <2>2, <2>4 DEF Service!Receive
<1>3. CASE ~EndRxDataOk(m)
  <2>1. decoded' = decoded
    BY <1>3 DEF Deliver, SendNewData, TransmitRetx, EndRxDataCorrupted, TbUnreceived
  <2> QED BY <1>1, <2>1 DEF Service!avars
<1> QED BY <1>2, <1>3

\* Every run of the uplink loop is a run of the stop-and-wait service: the NACK
\* the scheduler may lose and the timer that may take a process do not show in it.
THEOREM Refinement == ASSUME MaxRtt <= NumHarqProcess + 1
                      PROVE  Spec => ImplementsService
<1>1. Init => Service!Init
  BY DEF Init, Service!Init, InactiveProcess
<1>2. IInv /\ [Next]_vars => [Service!Next]_(Service!avars)
  <2> SUFFICES ASSUME IInv, [Next]_vars PROVE [Service!Next]_(Service!avars)
    OBVIOUS
  <2>1. CASE UlTrigger
    BY <2>1, TriggerRefines DEF Service!Next
  <2>2. CASE \E m \in air : Deliver(m)
    BY <2>2, DeliverRefines DEF Service!Next
  <2>3. CASE \E u \in UEs : ReportBufferStatus(u)
    BY <2>3 DEF ReportBufferStatus, Service!avars
  <2>4. CASE UNCHANGED vars
    BY <2>4 DEF vars, Service!avars
  <2> QED BY <2>1, <2>2, <2>3, <2>4 DEF Next
<1> QED BY <1>1, <1>2, Invariance, PTL DEF Spec, ImplementsService, Service!Spec
=============================================================================
