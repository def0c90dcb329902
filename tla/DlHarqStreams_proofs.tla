------------------------ MODULE DlHarqStreams_proofs ------------------------
(***************************************************************************)
(* Theorems about DlHarqStreams, for every number of HARQ processes and of *)
(* insertions, with one or two streams.                                    *)
(***************************************************************************)
EXTENDS DlHarqStreams, SequenceElements, FiniteSetTheorems, TLAPS

(***************************************************************************)
(* The invariant that carries the proof.                                   *)
(***************************************************************************)
Known == Elems(toRetx) \cup Elems(dlInfo)

\* What is under way is about the block its process holds now.
OfItsTb(x) == harq[x.id].active /\ harq[x.id].tb = x.tb /\ x.tb > 0

HarqOK == \A i \in HarqIds : \A s \in Streams : harq[i].rv[s] <= MaxHarqReTx

DcisOK == \A d \in Elems(dcis) :
  /\ OfItsTb(d)
  /\ \A s \in d.live : <<d.id, d.tb, s>> \notin decoded /\ buf[d.id][s] = d.tb

\* The UE reports after each stream, so that no outcome waits for another one.
RxOK ==
  /\ \A i \in HarqIds : partial[i] = NoOutcome
  /\ rx.expected # {} =>
       /\ OfItsTb(rx) /\ rx.count = 1
       /\ \A s \in rx.expected : <<rx.id, rx.tb, s>> \notin decoded /\ buf[rx.id][s] = rx.tb

ReportsOK == \A r \in Known \cup Elems(reports) :
  /\ OfItsTb(r)
  /\ \A s \in NackStreams(r) : <<r.id, r.tb, s>> \notin decoded /\ buf[r.id][s] = r.tb

\* Only what the gNB MAC has not seen yet may report a decoding.
AcksOK == \A r \in Elems(reports) : \A s \in Streams :
  r.status[s] = "ACK" => <<r.id, r.tb, s>> \in decoded

\* A process is in one place at a time: on the way to the UE, being received, on
\* the way back, or known to the scheduler.
OnePlace ==
  /\ \A j, k \in DOMAIN dcis : dcis[j].id = dcis[k].id => j = k
  /\ \A d \in Elems(dcis), r \in Known \cup Elems(reports) : d.id # r.id
  /\ \A r \in Known, q \in Elems(reports) : r.id # q.id
  /\ rx.expected # {} =>
       /\ \A x \in Elems(dcis) \cup Known : x.id # rx.id
       /\ \A r \in Elems(reports) : r.id = rx.id => NackStreams(r) \cap rx.expected = {}

\* No block beyond the one the process holds was ever decoded.
DecodedOK == \A x \in decoded : x[2] <= harq[x[1]].tb

IInv == TypeOK /\ HarqOK /\ DcisOK /\ RxOK /\ ReportsOK /\ AcksOK /\ OnePlace /\ DecodedOK

(***************************************************************************)
(* The operators of the scheduler.                                         *)
(***************************************************************************)
\* ProcessHARQFeedbacks finds the largest redundancy version of the streams.
LEMMA MaxRvValue ==
  ASSUME TypeOK, NEW i \in HarqIds
  PROVE  /\ MaxRv(i) \in 0..3
         /\ \A s \in Streams : harq[i].rv[s] \in 0..3 /\ harq[i].rv[s] <= MaxRv(i)
         /\ \E s \in Streams : MaxRv(i) = harq[i].rv[s]
<1> DEFINE r(s) == harq[i].rv[s]
           V == {r(s) : s \in Streams}
           IsMax(v) == \A s \in Streams : r(s) <= v
<1>1. \A s \in Streams : r(s) \in 0..3
  BY DEF TypeOK
<1>2. Streams = {0} \/ Streams = {0, 1}
  BY NumAssumption DEF Streams
<1> HIDE DEF r
<1>3. \E v \in V : IsMax(v)
  <2>1. CASE Streams = {0}
    BY <1>1, <2>1
  <2>2. CASE Streams = {0, 1}
    <3>1. CASE r(0) <= r(1)
      BY <1>1, <2>2, <3>1
    <3>2. CASE r(1) <= r(0)
      BY <1>1, <2>2, <3>2
    <3> QED BY <1>1, <2>2, <3>1, <3>2
  <2> QED BY <1>2, <2>1, <2>2
<1>4. MaxRv(i) = CHOOSE v \in V : IsMax(v)
  BY DEF MaxRv, r
<1> HIDE DEF V, IsMax
<1>5. MaxRv(i) \in V /\ IsMax(MaxRv(i))
  BY <1>3, <1>4
<1> QED BY <1>1, <1>5 DEF V, IsMax, r

\* MergeHARQ: what was kept and what came in.
LEMMA MergedElements ==
  ASSUME IInv
  PROVE  Merged \in Seq(Report) /\ Elems(Merged) = Known
  BY ElemsConcat DEF IInv, TypeOK, Merged, Known

\* The types of what is under way.
LEMMA UnderwayType ==
  ASSUME TypeOK
  PROVE  Elems(dcis) \subseteq DciType /\ Elems(reports) \subseteq Report /\ Known \subseteq Report
<1>1. /\ dcis \in Seq(DciType) /\ reports \in Seq(Report)
      /\ toRetx \in Seq(Report) /\ dlInfo \in Seq(Report)
  BY DEF TypeOK
<1>2. Elems(dcis) \subseteq DciType
  BY <1>1, ElemsType
<1>3. Elems(reports) \subseteq Report /\ Elems(toRetx) \subseteq Report /\ Elems(dlInfo) \subseteq Report
  BY <1>1, ElemsType
<1> QED BY <1>2, <1>3 DEF Known

\* What the scheduler knows of a process whose report it reads.
LEMMA FirstReport ==
  ASSUME IInv, NEW k \in Firsts
  PROVE  /\ k \in DOMAIN Merged /\ Merged[k] \in Known /\ Merged[k] \in Report
         /\ Merged[k].id \in HarqIds
         /\ OfItsTb(Merged[k])
         /\ \A j \in Firsts : Merged[j].id = Merged[k].id => j = k
<1>1. k \in DOMAIN Merged
  BY DEF Firsts
<1>2. DOMAIN Merged = 1..Len(Merged) /\ Len(Merged) \in Nat /\ Elems(Merged) \subseteq Report
  BY MergedElements, ElemsType
<1>3. Merged[k] \in Known /\ Merged[k] \in Report
  BY <1>1, <1>2, MergedElements DEF Elems
<1>4. OfItsTb(Merged[k])
  BY <1>3 DEF IInv, ReportsOK
<1>5. ASSUME NEW j \in Firsts, Merged[j].id = Merged[k].id PROVE j = k
  <2>1. j \in 1..Len(Merged) /\ k \in 1..Len(Merged)
    BY <1>1, <1>2 DEF Firsts
  <2>2. j \notin 1..(k - 1) /\ k \notin 1..(j - 1)
    BY <1>5 DEF Firsts
  <2> QED BY <1>2, <2>1, <2>2
<1> QED BY <1>1, <1>3, <1>4, <1>5 DEF Report

\* A process that is released was reported, one that is NACKed may be tried again.
LEMMA ReleasedProcess ==
  ASSUME IInv, NEW i \in Released
  PROVE  i \in HarqIds /\ harq[i].active /\ \E r \in Known : r.id = i
  BY FirstReport DEF Released, OfItsTb

LEMMA NackedProcess ==
  ASSUME IInv, NEW k \in Nacks
  PROVE  /\ k \in Firsts /\ Merged[k].id \notin Released
         /\ \A s \in Streams : harq[Merged[k].id].rv[s] + 1 \in 0..3
                               /\ harq[Merged[k].id].rv[s] + 1 <= MaxHarqReTx
<1>1. k \in Firsts /\ Merged[k].id \notin Released
  BY DEF Nacks
<1> DEFINE i == Merged[k].id
<1>2. MaxRv(i) # MaxHarqReTx
  BY <1>1 DEF Released
<1>3. i \in HarqIds
  BY <1>1, FirstReport
<1> HIDE DEF i
<1>4. MaxRv(i) \in 0..3 /\ \A s \in Streams : harq[i].rv[s] \in 0..3 /\ harq[i].rv[s] <= MaxRv(i)
  BY <1>3, MaxRvValue DEF IInv
<1>5. MaxRv(i) < MaxHarqReTx
  <2>1. PICK s \in Streams : MaxRv(i) = harq[i].rv[s]
    BY <1>3, MaxRvValue DEF IInv
  <2> QED BY <1>2, <1>3, <1>4, <2>1, MaxAssumption DEF IInv, HarqOK
<1>6. \A s \in Streams : harq[i].rv[s] + 1 \in 0..3 /\ harq[i].rv[s] + 1 <= MaxHarqReTx
  BY <1>4, <1>5, MaxAssumption
<1> QED BY <1>1, <1>6 DEF i

\* What the scheduler keeps for the next slot: some of the NACKs, or all of them.
LEMMA BufferedReports ==
  ASSUME IInv, NEW K \in SUBSET Nacks, NEW q \in Buffered(K)
  PROVE  q \in Seq(Report) /\ Elems(q) \subseteq {Merged[k] : k \in K}
<1>1. K \subseteq DOMAIN Merged
  BY DEF Nacks, Firsts
<1>2. Cardinality(K) \in Nat
  <2>1. DOMAIN Merged = 1..Len(Merged) /\ Len(Merged) \in Nat
    BY MergedElements, ElemsType
  <2>2. IsFiniteSet(DOMAIN Merged)
    BY <2>1, FS_Interval
  <2> QED BY <1>1, <2>2, FS_Subset, FS_CardinalityType
<1>3. PICK e \in InOrder(K) : q = [i \in DOMAIN e |-> Merged[e[i]]]
  BY DEF Buffered
<1>4. e \in [1..Cardinality(K) -> K]
  BY <1>3 DEF InOrder
<1>5. PICK M \in Seq(Report) : M = Merged
  BY MergedElements
<1>6. PICK n \in Nat : n = Cardinality(K)
  BY <1>2
<1>7. DOMAIN M = 1..Len(M) /\ \A k \in 1..Len(M) : M[k] \in Report
  BY LenProperties, ElementOfSeq
<1>8. DOMAIN q = 1..n /\ \A i \in 1..n : e[i] \in K /\ q[i] = M[e[i]]
  BY <1>3, <1>4, <1>5, <1>6
<1>9. q \in Seq(Report)
  <2>1. q \in [1..n -> Report]
    BY <1>1, <1>3, <1>4, <1>5, <1>6, <1>7, <1>8
  <2> QED BY <2>1, SeqDef
<1> QED BY <1>5, <1>8, <1>9 DEF Elems

(***************************************************************************)
(* Every step keeps the invariant.                                         *)
(***************************************************************************)
HarqType == [active : BOOLEAN, tb : 0..MaxTb, rv : [Streams -> 0..3], live : SUBSET Streams]

\* A process about which nothing is under way, but for what the scheduler reads.
Free(i) == /\ \A x \in Elems(dcis) \cup Elems(reports) : x.id # i
           /\ rx.expected # {} => rx.id # i

\* A DCI may be sent of it.
Grantable(d) ==
  /\ d \in DciType /\ Free(d.id)
  /\ d.tb >= harq[d.id].tb
  /\ \A s \in Streams : d.rv[s] <= MaxHarqReTx
  /\ \A s \in d.live : <<d.id, d.tb, s>> \notin decoded /\ buf'[d.id][s] = d.tb

\* One slot: the processes that are not released or granted keep what they hold,
\* the NACKs at K are kept, and the DCIs in C, of which there is one at most, are sent.
Slot(K, C) ==
  /\ \A d, e \in C : d = e
  /\ \A d \in C : Grantable(d) /\ \A k \in K : Merged[k].id # d.id
  /\ harq' \in [HarqIds -> HarqType]
  /\ \A d \in C : harq'[d.id] = Carries(d)
  /\ \A i \in HarqIds : (\A d \in C : d.id # i) =>
       /\ harq'[i].tb = harq[i].tb /\ harq'[i].rv = harq[i].rv
       /\ i \notin Released => harq'[i].active = harq[i].active
       /\ buf'[i] = buf[i]
  /\ buf' \in [HarqIds -> [Streams -> 0..MaxTb]]
  /\ dcis' \in Seq(DciType) /\ Elems(dcis') = Elems(dcis) \cup C
  /\ \A j, k \in DOMAIN dcis' : dcis'[j].id = dcis'[k].id => j = k
  /\ toRetx' \in Buffered(K) /\ dlInfo' = <<>>
  /\ UNCHANGED <<rx, partial, reports, decoded>>

LEMMA SlotStep ==
  ASSUME IInv, NEW K \in SUBSET Nacks, NEW C, Slot(K, C)
  PROVE  IInv'
<1> USE DEF Slot
<1>1. toRetx' \in Seq(Report) /\ Elems(toRetx') \subseteq {Merged[k] : k \in K}
  <2>1. PICK q \in Buffered(K) : q = toRetx'
    OBVIOUS
  <2>2. q \in Seq(Report) /\ Elems(q) \subseteq {Merged[k] : k \in K}
    BY BufferedReports
  <2> QED BY <2>1, <2>2
<1>2. Known' = Elems(toRetx')
  BY ElemsEmpty DEF Known
<1>3. \A r \in Known' : r \in Known /\ r.id \notin Released /\ \A d \in C : r.id # d.id
  <2> SUFFICES ASSUME NEW r \in Known'
               PROVE  r \in Known /\ r.id \notin Released /\ \A d \in C : r.id # d.id
    OBVIOUS
  <2>1. PICK k \in K : r = Merged[k]
    BY <1>1, <1>2
  <2>2. k \in Firsts /\ r.id \notin Released
    BY <2>1, NackedProcess
  <2>3. r \in Known
    BY <2>1, <2>2, FirstReport
  <2> QED BY <2>1, <2>2, <2>3
<1>4. TypeOK'
  <2>1. dlInfo' \in Seq(Report)
    BY ElemsEmpty
  <2> QED BY <1>1, <2>1 DEF IInv, TypeOK, HarqType
\* A process that is under way elsewhere is neither released nor granted.
<1>5. ASSUME NEW i \in HarqIds, i \notin Released, \A d \in C : i # d.id
      PROVE  /\ harq'[i].active = harq[i].active /\ harq'[i].tb = harq[i].tb
             /\ buf'[i] = buf[i]
  BY <1>5
<1>6. ASSUME NEW x \in Elems(dcis) \cup Elems(reports)
      PROVE  x.id \in HarqIds /\ x.id \notin Released /\ \A d \in C : x.id # d.id
  <2>1. x.id \in HarqIds
    BY UnderwayType DEF IInv, DciType, Report
  <2>2. x.id \notin Released
    <3>1. \A r \in Known : r.id # x.id
      BY DEF IInv, OnePlace
    <3> QED BY <3>1, ReleasedProcess
  <2>3. \A d \in C : x.id # d.id
    BY DEF Grantable, Free
  <2> QED BY <2>1, <2>2, <2>3
<1>7. ASSUME rx.expected # {}
      PROVE  rx.id \in HarqIds /\ rx.id \notin Released /\ \A d \in C : rx.id # d.id
  <2>1. \A r \in Known : r.id # rx.id
    BY <1>7 DEF IInv, OnePlace
  <2> QED BY <1>7, <2>1, ReleasedProcess, ZenonT(30) DEF IInv, TypeOK, Grantable, Free
<1>8. \A r \in Known' : r.id \in HarqIds
  BY <1>3, UnderwayType DEF IInv, Report
<1>9. HarqOK'
  <2> SUFFICES ASSUME NEW i \in HarqIds, NEW s \in Streams
               PROVE  harq'[i].rv[s] <= MaxHarqReTx
    BY DEF HarqOK
  <2>1. CASE \E d \in C : i = d.id
    <3>1. PICK d \in C : i = d.id
      BY <2>1
    <3>2. harq'[i].rv = d.rv /\ Grantable(d)
      <4>1. harq'[i] = Carries(d) /\ Grantable(d)
        BY <3>1
      <4> QED BY <4>1 DEF Carries
    <3> QED BY <3>2 DEF Grantable
  <2>2. CASE \A d \in C : d.id # i
    BY <2>2 DEF IInv, HarqOK
  <2> QED BY <2>1, <2>2
<1>10. DcisOK'
  <2> SUFFICES ASSUME NEW d \in Elems(dcis) \cup C
               PROVE  /\ harq'[d.id].active /\ harq'[d.id].tb = d.tb /\ d.tb > 0
                      /\ \A s \in d.live : <<d.id, d.tb, s>> \notin decoded /\ buf'[d.id][s] = d.tb
    BY DEF DcisOK, OfItsTb
  <2>1. CASE d \in Elems(dcis)
    BY <1>5, <1>6, <2>1 DEF IInv, DcisOK, OfItsTb
  <2>2. CASE d \in C
    <3>1. Grantable(d) /\ harq'[d.id] = Carries(d)
      BY <2>2
    <3>2. d.tb > 0
      BY <3>1, MaxAssumption DEF Grantable, DciType
    <3> QED BY <3>1, <3>2 DEF Grantable, Carries
  <2> QED BY <2>1, <2>2
<1>11. RxOK'
  BY <1>5, <1>7 DEF IInv, RxOK, OfItsTb
<1>12. ReportsOK'
  <2> SUFFICES ASSUME NEW r \in Known' \cup Elems(reports)
               PROVE  /\ harq'[r.id].active /\ harq'[r.id].tb = r.tb /\ r.tb > 0
                      /\ \A s \in NackStreams(r) : <<r.id, r.tb, s>> \notin decoded /\ buf'[r.id][s] = r.tb
    BY DEF ReportsOK, OfItsTb
  <2>1. r \in Known \cup Elems(reports) /\ r.id \in HarqIds /\ r.id \notin Released
          /\ \A d \in C : r.id # d.id
    BY <1>3, <1>6, <1>8
  <2> QED BY <1>5, <2>1, SMTT(30) DEF IInv, ReportsOK, OfItsTb
<1>13. AcksOK'
  BY DEF IInv, AcksOK
<1>14. OnePlace'
  <2>1. \A d \in Elems(dcis'), r \in Known' \cup Elems(reports) : d.id # r.id
    BY <1>3, <1>6 DEF IInv, OnePlace
  <2>2. \A r \in Known', q \in Elems(reports) : r.id # q.id
    BY <1>3 DEF IInv, OnePlace
  <2>3. rx.expected # {} => \A x \in Elems(dcis') \cup Known' : x.id # rx.id
    BY <1>3, <1>7 DEF IInv, OnePlace
  <2>4. rx.expected # {} =>
          \A r \in Elems(reports) : r.id = rx.id => NackStreams(r) \cap rx.expected = {}
    BY DEF IInv, OnePlace
  <2> QED BY <2>1, <2>2, <2>3, <2>4 DEF OnePlace
<1>15. DecodedOK'
  <2> SUFFICES ASSUME NEW x \in decoded
               PROVE  x[2] <= harq'[x[1]].tb
    BY DEF DecodedOK
  <2>1. x[1] \in HarqIds /\ x[2] \in Nat /\ x[2] <= harq[x[1]].tb
    BY DEF IInv, TypeOK, DecodedOK
  <2>2. CASE \E d \in C : x[1] = d.id
    <3>1. PICK d \in C : x[1] = d.id
      BY <2>2
    <3>2. harq'[d.id].tb = d.tb /\ d.tb >= harq[d.id].tb /\ d.tb \in Nat /\ harq[d.id].tb \in Nat
      <4>1. Grantable(d) /\ harq'[d.id] = Carries(d)
        BY <3>1
      <4>2. d \in DciType /\ d.tb >= harq[d.id].tb /\ harq'[d.id].tb = d.tb
        BY <4>1 DEF Grantable, Carries
      <4>3. harq[d.id] \in HarqType
        BY <4>2 DEF IInv, TypeOK, HarqType, DciType
      <4> QED BY <4>2, <4>3 DEF DciType, HarqType
    <3> QED BY <2>1, <3>1, <3>2
  <2>3. CASE \A d \in C : d.id # x[1]
    BY <2>1, <2>3
  <2> QED BY <2>2, <2>3
<1> QED BY <1>4, <1>9, <1>10, <1>11, <1>12, <1>13, <1>14, <1>15 DEF IInv

\* One run of DoSchedDlTriggerReq: no DCI, a retransmission, or new data.
LEMMA TriggerStep == ASSUME IInv, DlTrigger PROVE IInv'
<1>1. dlInfo' = <<>> /\ UNCHANGED <<rx, partial, reports, decoded>>
  BY DEF DlTrigger
<1>2. /\ harq \in [HarqIds -> HarqType] /\ dcis \in Seq(DciType)
      /\ buf \in [HarqIds -> [Streams -> 0..MaxTb]]
  BY DEF IInv, TypeOK, HarqType
<1>3. \A i \in HarqIds : Freed(harq[i]) \in HarqType
        /\ Freed(harq[i]).tb = harq[i].tb /\ Freed(harq[i]).rv = harq[i].rv
  BY <1>2 DEF Freed, HarqType
<1>4. \A d \in DciType : Carries(d) \in HarqType
  BY MaxAssumption DEF Carries, HarqType, DciType
<1>5. \A j, k \in DOMAIN dcis : dcis[j].id = dcis[k].id => j = k
  BY DEF IInv, OnePlace
\* Nothing else is under way for a process whose report the scheduler has.
<1>6. \A r \in Known : Free(r.id)
  BY DEF IInv, OnePlace, Free
\* The queue of DCIs after one more.
<1>7. ASSUME NEW d \in DciType, Free(d.id), dcis' = Append(dcis, d)
      PROVE  /\ dcis' \in Seq(DciType) /\ Elems(dcis') = Elems(dcis) \cup {d}
             /\ \A j, k \in DOMAIN dcis' : dcis'[j].id = dcis'[k].id => j = k
  <2>1. /\ dcis' \in Seq(DciType) /\ Elems(dcis') = Elems(dcis) \cup {d}
        /\ \A k \in DOMAIN dcis' : \/ k \in DOMAIN dcis /\ dcis'[k] = dcis[k]
                                   \/ k = Len(dcis) + 1 /\ dcis'[k] = d
    BY <1>2, <1>7, ElemsAppend
  <2>2. \A k \in DOMAIN dcis : dcis[k].id # d.id
    BY <1>7 DEF Free, Elems
  <2> QED BY <1>5, <2>1, <2>2
<1>8. CASE NoDci
  <2>1. /\ harq' = [i \in HarqIds |-> IF i \in Released THEN Freed(harq[i]) ELSE harq[i]]
        /\ toRetx' \in Buffered(Nacks) /\ buf' = buf /\ dcis' = dcis
    BY <1>8 DEF NoDci
  <2>2. PICK C : C = {}
    OBVIOUS
  <2>3. harq' \in [HarqIds -> HarqType]
    BY <1>2, <1>3, <2>1
  <2>4. \A i \in HarqIds : /\ harq'[i].tb = harq[i].tb /\ harq'[i].rv = harq[i].rv
                           /\ i \notin Released => harq'[i].active = harq[i].active
    BY <1>3, <2>1
  <2>5. /\ buf' \in [HarqIds -> [Streams -> 0..MaxTb]]
        /\ dcis' \in Seq(DciType) /\ Elems(dcis') = Elems(dcis) \cup C
        /\ \A j, k \in DOMAIN dcis' : dcis'[j].id = dcis'[k].id => j = k
    BY <1>2, <1>5, <2>1, <2>2
  <2>6. PICK K \in SUBSET Nacks : K = Nacks
    OBVIOUS
  <2>7. Slot(K, C)
    BY <1>1, <2>1, <2>2, <2>3, <2>4, <2>5, <2>6 DEF Slot
  <2> QED BY <2>7, SlotStep
<1>9. CASE \E k \in Nacks : Retransmit(k)
  <2>1. PICK k \in Nacks : Retransmit(k)
    BY <1>9
  <2>2. PICK d : d = RetxDci(Merged[k])
    OBVIOUS
  <2>3. /\ harq' = [i \in HarqIds |-> IF i = d.id THEN Carries(d)
                                      ELSE IF i \in Released THEN Freed(harq[i]) ELSE harq[i]]
        /\ toRetx' \in Buffered(Nacks \ {k}) /\ dcis' = Append(dcis, d) /\ buf' = buf
    BY <2>1, <2>2 DEF Retransmit
  <2>4. PICK r : r = Merged[k]
    OBVIOUS
  <2>5. /\ r \in Known /\ r \in Report /\ r.id \in HarqIds /\ OfItsTb(r)
        /\ \A j \in Nacks \ {k} : Merged[j].id # r.id
    BY <2>1, <2>4, FirstReport, NackedProcess
  <2>6. \A s \in Streams : harq[r.id].rv[s] + 1 \in 0..3 /\ harq[r.id].rv[s] + 1 <= MaxHarqReTx
    BY <2>1, <2>4, NackedProcess
  <2>7. /\ d.id = r.id /\ d.tb = harq[r.id].tb /\ d.live = NackStreams(r)
        /\ d.rv = [s \in Streams |-> IF s \in NackStreams(r) THEN harq[r.id].rv[s] + 1 ELSE 0]
        /\ d = [id |-> d.id, tb |-> d.tb, live |-> d.live, rv |-> d.rv]
    BY <2>2, <2>4 DEF RetxDci
  <2>8. d \in DciType /\ \A s \in Streams : d.rv[s] <= MaxHarqReTx
    <3>1. d.tb \in 1..MaxTb /\ d.tb = r.tb
      BY <2>5, <2>7 DEF OfItsTb, Report
    <3>2. d.rv \in [Streams -> 0..3] /\ \A s \in Streams : d.rv[s] <= MaxHarqReTx
      BY <2>6, <2>7, MaxAssumption
    <3>3. d.live \in SUBSET Streams
      BY <2>7 DEF NackStreams
    <3> QED BY <2>5, <2>7, <3>1, <3>2, <3>3 DEF DciType
  <2>9. Grantable(d)
    <3>1. Free(d.id)
      BY <1>6, <2>5, <2>7
    <3>2. d.tb >= harq[d.id].tb
      BY <1>2, <2>5, <2>7 DEF HarqType
    <3>3. \A s \in d.live : <<d.id, d.tb, s>> \notin decoded /\ buf'[d.id][s] = d.tb
      BY <2>3, <2>5, <2>7 DEF IInv, ReportsOK, OfItsTb
    <3> QED BY <2>8, <3>1, <3>2, <3>3 DEF Grantable
  <2>10. PICK C : C = {d}
    OBVIOUS
  <2>11. harq' \in [HarqIds -> HarqType]
    BY <1>2, <1>3, <1>4, <2>3, <2>8
  <2>12. \A e \in C : harq'[e.id] = Carries(e) /\ \A j \in Nacks \ {k} : Merged[j].id # e.id
    BY <2>3, <2>5, <2>7, <2>10
  <2>13. \A i \in HarqIds : (\A e \in C : e.id # i) =>
            /\ harq'[i].tb = harq[i].tb /\ harq'[i].rv = harq[i].rv
            /\ i \notin Released => harq'[i].active = harq[i].active
            /\ buf'[i] = buf[i]
    BY <1>3, <2>3, <2>10
  <2>14. /\ buf' \in [HarqIds -> [Streams -> 0..MaxTb]]
         /\ dcis' \in Seq(DciType) /\ Elems(dcis') = Elems(dcis) \cup C
         /\ \A j, l \in DOMAIN dcis' : dcis'[j].id = dcis'[l].id => j = l
    BY <1>2, <1>7, <2>3, <2>8, <2>9, <2>10 DEF Grantable
  <2>15. PICK K \in SUBSET Nacks : K = Nacks \ {k}
    OBVIOUS
  <2>16. (\A e, f \in C : e = f) /\ \A e \in C : Grantable(e)
    BY <2>9, <2>10
  <2>17. Slot(K, C)
    BY <1>1, <2>3, <2>11, <2>12, <2>13, <2>14, <2>15, <2>16 DEF Slot
  <2> QED BY <2>17, SlotStep
<1>10. CASE \E i \in HarqIds : \E live \in SUBSET Streams \ {{}} : Insert(i, live)
  <2>1. PICK i \in HarqIds : \E live \in SUBSET Streams \ {{}} : Insert(i, live)
    BY <1>10
  <2>2. PICK live \in SUBSET Streams : Insert(i, live)
    BY <2>1
  <2>3. PICK d : d = NewDci(i, live)
    OBVIOUS
  <2>4. /\ ~harq[i].active \/ i \in Released
        /\ harq[i].tb < MaxTb
        /\ harq' = [j \in HarqIds |-> IF j = i THEN Carries(d)
                                      ELSE IF j \in Released THEN Freed(harq[j]) ELSE harq[j]]
        /\ toRetx' \in Buffered(Nacks)
        /\ buf' = [buf EXCEPT ![i] = [s \in Streams |-> IF s \in live THEN d.tb ELSE 0]]
        /\ dcis' = Append(dcis, d)
    BY <2>2, <2>3 DEF Insert
  <2>5. /\ d.id = i /\ d.tb = harq[i].tb + 1 /\ d.live = live
        /\ d.rv = [s \in Streams |-> 0]
        /\ d = [id |-> d.id, tb |-> d.tb, live |-> d.live, rv |-> d.rv]
    BY <2>3 DEF NewDci
  <2>6. harq[i].tb \in 0..MaxTb /\ d.tb \in 1..MaxTb /\ d.tb > harq[i].tb
    <3>1. harq[i].tb \in 0..MaxTb
      BY <1>2 DEF HarqType
    <3> QED BY <2>4, <2>5, <3>1, MaxAssumption
  <2>7. d \in DciType /\ \A s \in Streams : d.rv[s] <= MaxHarqReTx
    BY <2>5, <2>6, MaxAssumption DEF DciType
  <2>8. Free(i) /\ \A k \in Nacks : Merged[k].id # i
    <3>1. CASE i \in Released
      <4>1. PICK r \in Known : r.id = i
        BY <3>1, ReleasedProcess
      <4> QED BY <1>6, <3>1, <4>1, NackedProcess
    <3>2. CASE ~harq[i].active
      <4>1. Free(i)
        BY <3>2 DEF IInv, DcisOK, RxOK, ReportsOK, OfItsTb, Free
      <4>2. \A k \in Nacks : harq[Merged[k].id].active
        BY NackedProcess, FirstReport DEF OfItsTb
      <4> QED BY <3>2, <4>1, <4>2
    <3> QED BY <2>4, <3>1, <3>2
  <2>9. /\ buf' \in [HarqIds -> [Streams -> 0..MaxTb]]
        /\ \A s \in live : buf'[i][s] = d.tb
        /\ \A j \in HarqIds : j # i => buf'[j] = buf[j]
    <3>1. PICK b : b = [s \in Streams |-> IF s \in live THEN d.tb ELSE 0]
      OBVIOUS
    <3>2. d.tb \in 0..MaxTb /\ 0 \in 0..MaxTb
      BY <2>6, MaxAssumption
    <3>3. b \in [Streams -> 0..MaxTb] /\ \A s \in live : b[s] = d.tb
      BY <3>1, <3>2
    <3> QED BY <1>2, <2>4, <3>1, <3>3
  <2>10. Grantable(d)
    <3>1. \A s \in live : <<i, d.tb, s>> \notin decoded
      BY <2>6 DEF IInv, DecodedOK
    <3>2. d.tb >= harq[i].tb
      BY <2>6
    <3> QED BY <2>5, <2>7, <2>8, <2>9, <3>1, <3>2 DEF Grantable
  <2>11. PICK C : C = {d}
    OBVIOUS
  <2>12. harq' \in [HarqIds -> HarqType]
    BY <1>2, <1>3, <1>4, <2>4, <2>7
  <2>13. \A e \in C : harq'[e.id] = Carries(e) /\ \A k \in Nacks : Merged[k].id # e.id
    BY <2>4, <2>5, <2>8, <2>11
  <2>14. \A j \in HarqIds : (\A e \in C : e.id # j) =>
            /\ harq'[j].tb = harq[j].tb /\ harq'[j].rv = harq[j].rv
            /\ j \notin Released => harq'[j].active = harq[j].active
            /\ buf'[j] = buf[j]
    BY <1>3, <2>4, <2>5, <2>9, <2>11
  <2>15. /\ dcis' \in Seq(DciType) /\ Elems(dcis') = Elems(dcis) \cup C
         /\ \A j, k \in DOMAIN dcis' : dcis'[j].id = dcis'[k].id => j = k
    BY <1>7, <2>4, <2>5, <2>7, <2>8, <2>11
  <2>16. PICK K \in SUBSET Nacks : K = Nacks
    OBVIOUS
  <2>17. (\A e, f \in C : e = f) /\ \A e \in C : Grantable(e)
    BY <2>10, <2>11
  <2>18. Slot(K, C)
    BY <1>1, <2>4, <2>9, <2>12, <2>13, <2>14, <2>15, <2>16, <2>17 DEF Slot
  <2> QED BY <2>18, SlotStep
<1> QED BY <1>8, <1>9, <1>10 DEF DlTrigger

\* The UE takes the next DCI, and counts one stream whatever their number.
LEMMA DlDataStep == ASSUME IInv, DlData PROVE IInv'
<1> DEFINE d == Head(dcis)
<1>1. /\ dcis # <<>> /\ rx.expected = {} /\ dcis' = Tail(dcis)
      /\ rx' = [id |-> d.id, tb |-> d.tb, rv |-> d.rv,
                expected |-> d.live, count |-> StreamCount(d.live)]
      /\ UNCHANGED <<harq, toRetx, dlInfo, buf, partial, reports, decoded>>
  BY DEF DlData
<1>2. dcis \in Seq(DciType) /\ TypeOK
  BY DEF IInv, TypeOK
<1>3. /\ d \in DciType /\ d = dcis[1] /\ 1 \in DOMAIN dcis /\ d \in Elems(dcis)
      /\ dcis' \in Seq(DciType)
      /\ \A k \in DOMAIN dcis' : k \in Nat \ {0} /\ k + 1 \in DOMAIN dcis
                                 /\ dcis'[k] = dcis[k + 1]
      /\ Elems(dcis') \subseteq Elems(dcis)
  BY <1>1, <1>2, ElemsTail
<1> HIDE DEF d
<1>4. StreamCount(d.live) \in 0..NumStreams /\ (d.live # {} => StreamCount(d.live) = 1)
  BY NumAssumption DEF StreamCount
<1>5. /\ rx'.id = d.id /\ rx'.tb = d.tb /\ rx'.expected = d.live /\ rx'.count = StreamCount(d.live)
      /\ rx' \in [id : HarqIds, tb : 0..MaxTb, rv : [Streams -> 0..3],
                  expected : SUBSET Streams, count : 0..NumStreams]
  BY <1>1, <1>3, <1>4, MaxAssumption DEF DciType
<1>6. TypeOK'
  BY <1>1, <1>2, <1>3, <1>5 DEF TypeOK
<1>7. HarqOK' /\ AcksOK' /\ DecodedOK' /\ ReportsOK'
  BY <1>1 DEF IInv, HarqOK, AcksOK, DecodedOK, ReportsOK, OfItsTb, Known
<1>8. DcisOK'
  BY <1>1, <1>3 DEF IInv, DcisOK, OfItsTb
<1>9. RxOK'
  BY <1>1, <1>3, <1>4, <1>5 DEF IInv, DcisOK, RxOK, OfItsTb
<1>10. OnePlace'
  <2>1. \A j, k \in DOMAIN dcis' : dcis'[j].id = dcis'[k].id => j = k
    <3> SUFFICES ASSUME NEW j \in DOMAIN dcis', NEW k \in DOMAIN dcis', dcis'[j].id = dcis'[k].id
                 PROVE  j = k
      OBVIOUS
    <3>1. j + 1 = k + 1
      BY <1>3 DEF IInv, OnePlace
    <3> QED BY <1>3, <3>1
  <2>2. ASSUME NEW x \in Elems(dcis') PROVE x.id # d.id
    <3>1. PICK k \in DOMAIN dcis' : x = dcis'[k]
      BY DEF Elems
    <3>2. k + 1 # 1 /\ k + 1 \in DOMAIN dcis /\ x = dcis[k + 1]
      BY <1>3, <3>1
    <3> QED BY <1>3, <3>2 DEF IInv, OnePlace
  <2>3. \A r \in Known \cup Elems(reports) : r.id # d.id
    BY <1>3 DEF IInv, OnePlace
  <2> QED BY <1>1, <1>3, <1>5, <2>1, <2>2, <2>3 DEF IInv, OnePlace, Known
<1> QED BY <1>6, <1>7, <1>8, <1>9, <1>10 DEF IInv

\* The outcome of one stream is reported at once.
LEMMA EndRxDataStep ==
  ASSUME IInv, NEW s \in Streams, NEW outcome \in {"ACK", "NACK"}, EndRxData(s, outcome)
  PROVE  IInv'
<1> DEFINE status == [partial[rx.id] EXCEPT ![s] = outcome]
           r == [id |-> rx.id, tb |-> rx.tb, status |-> status]
<1>1. /\ s \in rx.expected
      /\ rx' = [rx EXCEPT !.expected = @ \ {s}]
      /\ decoded' = IF outcome = "ACK" THEN decoded \cup {<<rx.id, rx.tb, s>>} ELSE decoded
      /\ UNCHANGED <<harq, toRetx, dlInfo, buf, dcis>>
  BY DEF EndRxData
<1>2. /\ TypeOK /\ rx.id \in HarqIds /\ partial[rx.id] = NoOutcome /\ rx.count = 1
      /\ OfItsTb(rx) /\ rx.tb \in 1..MaxTb
  BY <1>1, SMTT(30) DEF IInv, TypeOK, RxOK, OfItsTb
<1>3. /\ status \in Statuses /\ status[s] = outcome
      /\ \A t \in Streams : t # s => status[t] = "NONE"
  BY <1>2 DEF NoOutcome, Statuses
<1>4. Cardinality({t \in Streams : status[t] # "NONE"}) = 1
  <2>1. {t \in Streams : status[t] # "NONE"} = {s}
    BY <1>3
  <2> QED BY <2>1, FS_Singleton
<1>5. /\ reports' = Append(reports, r)
      /\ partial' = [partial EXCEPT ![rx.id] = NoOutcome]
  <2>1. Cardinality({t \in Streams : status[t] # "NONE"}) = rx.count
    BY <1>2, <1>4
  <2> QED BY <2>1 DEF EndRxData
<1>6. r \in Report /\ r.id = rx.id /\ r.tb = rx.tb /\ r.status = status
  BY <1>2, <1>3 DEF Report
<1> HIDE DEF r, status
<1>7. reports' \in Seq(Report) /\ Elems(reports') = Elems(reports) \cup {r}
  <2>1. reports \in Seq(Report)
    BY <1>2 DEF TypeOK
  <2> QED BY <1>5, <1>6, <2>1, ElemsAppend
<1>8. /\ NackStreams(r) \subseteq {s} /\ (outcome = "ACK" => NackStreams(r) = {})
      /\ \A t \in Streams : r.status[t] = "ACK" => t = s /\ outcome = "ACK"
  BY <1>3, <1>6 DEF NackStreams
<1>9. /\ rx'.id = rx.id /\ rx'.tb = rx.tb /\ rx'.count = rx.count
      /\ rx'.expected = rx.expected \ {s}
      /\ rx' \in [id : HarqIds, tb : 0..MaxTb, rv : [Streams -> 0..3],
                  expected : SUBSET Streams, count : 0..NumStreams]
  BY <1>1, <1>2 DEF TypeOK
<1>10. partial' \in [HarqIds -> Statuses] /\ \A i \in HarqIds : partial'[i] = NoOutcome
  <2>1. NoOutcome \in Statuses
    BY DEF NoOutcome, Statuses
  <2> QED BY <1>2, <1>5, <2>1 DEF TypeOK, IInv, RxOK
<1>11. /\ decoded \subseteq decoded' /\ decoded' \subseteq HarqIds \X (1..MaxTb) \X Streams
       /\ \A x \in decoded' : x \in decoded \/ (x = <<rx.id, rx.tb, s>> /\ outcome = "ACK")
  <2>1. <<rx.id, rx.tb, s>> \in HarqIds \X (1..MaxTb) \X Streams
    BY <1>2
  <2> QED BY <1>1, <1>2, <2>1 DEF TypeOK
<1>12. TypeOK'
  BY <1>1, <1>2, <1>7, <1>9, <1>10, <1>11 DEF TypeOK
<1>13. HarqOK'
  BY <1>1 DEF IInv, HarqOK
<1>14. DcisOK'
  <2>1. \A d \in Elems(dcis) : d.id # rx.id
    BY <1>1 DEF IInv, OnePlace
  <2> QED BY <1>1, <1>11, <2>1 DEF IInv, DcisOK, OfItsTb
<1>15. RxOK'
  BY <1>1, <1>9, <1>10, <1>11 DEF IInv, RxOK, OfItsTb
<1>16. \A q \in Known \cup Elems(reports) : q.id = rx.id => s \notin NackStreams(q)
  BY <1>1 DEF IInv, OnePlace
<1>17. ReportsOK'
  <2> SUFFICES ASSUME NEW q \in Known \cup Elems(reports)'
               PROVE  /\ OfItsTb(q)
                      /\ \A t \in NackStreams(q) : <<q.id, q.tb, t>> \notin decoded' /\ buf[q.id][t] = q.tb
    BY <1>1 DEF ReportsOK, OfItsTb, Known
  <2>1. CASE q \in Known \cup Elems(reports)
    BY <1>11, <1>16, <2>1 DEF IInv, ReportsOK
  <2>2. CASE q = r
    <3>1. <<rx.id, rx.tb, s>> \notin decoded /\ buf[rx.id][s] = rx.tb
      BY <1>1 DEF IInv, RxOK
    <3> QED BY <1>2, <1>6, <1>8, <1>11, <2>2, <3>1 DEF OfItsTb
  <2> QED BY <1>7, <2>1, <2>2
<1>18. AcksOK'
  <2> SUFFICES ASSUME NEW q \in Elems(reports)', NEW t \in Streams, q.status[t] = "ACK"
               PROVE  <<q.id, q.tb, t>> \in decoded'
    BY DEF AcksOK
  <2>1. CASE q \in Elems(reports)
    BY <1>11, <2>1 DEF IInv, AcksOK
  <2>2. CASE q = r
    BY <1>1, <1>6, <1>8, <2>2
  <2> QED BY <1>7, <2>1, <2>2
<1>19. OnePlace'
  BY <1>1, <1>6, <1>7, <1>8, <1>9 DEF IInv, OnePlace, Known
<1>20. DecodedOK'
  <2>1. rx.tb <= harq[rx.id].tb
    BY <1>2 DEF OfItsTb
  <2> QED BY <1>1, <1>11, <2>1 DEF IInv, DecodedOK
<1> QED BY <1>12, <1>13, <1>14, <1>15, <1>17, <1>18, <1>19, <1>20 DEF IInv

\* The gNB MAC empties the buffers of the streams that were acknowledged.
LEMMA FeedbackStep == ASSUME IInv, DlHarqFeedback PROVE IInv'
<1>1. /\ rx.expected = {} /\ reports' = <<>> /\ dlInfo' = dlInfo \o reports
      /\ buf' = [i \in HarqIds |-> [s \in Streams |-> IF Acked(i, s) THEN 0 ELSE buf[i][s]]]
      /\ UNCHANGED <<harq, toRetx, dcis, rx, partial, decoded>>
  BY DEF DlHarqFeedback
<1>2. TypeOK
  BY DEF IInv
<1>3. /\ dlInfo' \in Seq(Report) /\ Elems(dlInfo') = Elems(dlInfo) \cup Elems(reports)
  <2>1. dlInfo \in Seq(Report) /\ reports \in Seq(Report)
    BY <1>2 DEF TypeOK
  <2> QED BY <1>1, <2>1, ElemsConcat
<1>4. Elems(reports') = {} /\ reports' \in Seq(Report)
  BY <1>1, ElemsEmpty
<1>5. Known' = Known \cup Elems(reports)
  BY <1>1, <1>3 DEF Known
<1>6. buf' \in [HarqIds -> [Streams -> 0..MaxTb]]
  <2>1. \A i \in HarqIds, s \in Streams : buf[i][s] \in 0..MaxTb
    BY <1>2 DEF TypeOK
  <2>2. 0 \in 0..MaxTb
    BY MaxAssumption
  <2> QED BY <1>1, <2>1, <2>2
<1>7. ASSUME NEW i \in HarqIds, NEW s \in Streams,
             \A q \in Elems(reports) : ~(q.id = i /\ q.status[s] = "ACK")
      PROVE  buf'[i][s] = buf[i][s]
  <2>1. ~Acked(i, s)
    BY <1>7 DEF Acked, Elems
  <2> QED BY <1>1, <2>1
<1>8. TypeOK'
  BY <1>1, <1>2, <1>3, <1>4, <1>6 DEF TypeOK
<1>9. HarqOK' /\ AcksOK' /\ DecodedOK'
  BY <1>1, <1>4 DEF IInv, HarqOK, AcksOK, DecodedOK
<1>10. DcisOK'
  <2> SUFFICES ASSUME NEW d \in Elems(dcis)
               PROVE  /\ OfItsTb(d)
                      /\ \A s \in d.live : <<d.id, d.tb, s>> \notin decoded /\ buf'[d.id][s] = d.tb
    BY <1>1 DEF DcisOK, OfItsTb
  <2>1. d.id \in HarqIds /\ d.live \subseteq Streams
    BY <1>2, UnderwayType DEF DciType
  <2>2. \A q \in Elems(reports) : q.id # d.id
    BY DEF IInv, OnePlace
  <2>3. \A s \in d.live : buf'[d.id][s] = buf[d.id][s]
    BY <1>7, <2>1, <2>2
  <2> QED BY <2>3 DEF IInv, DcisOK
<1>11. RxOK'
  BY <1>1 DEF IInv, RxOK
<1>12. ReportsOK'
  <2> SUFFICES ASSUME NEW r \in Known \cup Elems(reports)
               PROVE  /\ OfItsTb(r)
                      /\ \A s \in NackStreams(r) : <<r.id, r.tb, s>> \notin decoded /\ buf'[r.id][s] = r.tb
    BY <1>1, <1>4, <1>5 DEF ReportsOK, OfItsTb
  <2>1. r.id \in HarqIds /\ NackStreams(r) \subseteq Streams
    BY <1>2, UnderwayType DEF Report, NackStreams
  <2>2. /\ OfItsTb(r)
        /\ \A s \in NackStreams(r) : <<r.id, r.tb, s>> \notin decoded /\ buf[r.id][s] = r.tb
    BY DEF IInv, ReportsOK
  <2>3. ASSUME NEW s \in NackStreams(r), NEW q \in Elems(reports)
        PROVE  ~(q.id = r.id /\ q.status[s] = "ACK")
    <3> SUFFICES ASSUME q.id = r.id, q.status[s] = "ACK" PROVE FALSE
      OBVIOUS
    <3>1. q.tb = r.tb
      BY <2>2 DEF IInv, ReportsOK, OfItsTb
    <3>2. <<q.id, q.tb, s>> \in decoded
      BY <2>1 DEF IInv, AcksOK
    <3> QED BY <2>2, <3>1, <3>2
  <2>4. \A s \in NackStreams(r) : buf'[r.id][s] = buf[r.id][s]
    BY <1>7, <2>1, <2>3
  <2> QED BY <2>2, <2>4
<1>13. OnePlace'
  BY <1>1, <1>4, <1>5 DEF IInv, OnePlace
<1> QED BY <1>8, <1>9, <1>10, <1>11, <1>12, <1>13 DEF IInv

(***************************************************************************)
(* The theorems.                                                           *)
(***************************************************************************)
\* No process active, nothing under way.
LEMMA InitIInv == Init => IInv
<1> SUFFICES ASSUME Init PROVE IInv
  OBVIOUS
<1>1. /\ Elems(dcis) = {} /\ DOMAIN dcis = {} /\ Elems(reports) = {} /\ Known = {}
      /\ rx.expected = {}
      /\ toRetx \in Seq(Report) /\ dlInfo \in Seq(Report) /\ reports \in Seq(Report)
      /\ dcis \in Seq(DciType)
  BY ElemsEmpty DEF Init, Known, NoRx
<1>2. 0 \in HarqIds /\ 0 \in 0..MaxTb /\ 0 \in 0..3 /\ 0 <= MaxHarqReTx
  BY NumAssumption, MaxAssumption DEF HarqIds
<1>3. \A i \in HarqIds : /\ harq[i] \in HarqType
                         /\ \A s \in Streams : harq[i].rv[s] = 0
  <2>1. [active |-> FALSE, tb |-> 0, rv |-> [s \in Streams |-> 0], live |-> {}] \in HarqType
    BY <1>2 DEF HarqType
  <2> QED BY <2>1 DEF Init
<1>4. TypeOK
  <2>1. harq \in [HarqIds -> HarqType]
    BY <1>3 DEF Init
  <2>2. buf \in [HarqIds -> [Streams -> 0..MaxTb]] /\ partial \in [HarqIds -> Statuses]
          /\ decoded \subseteq HarqIds \X (1..MaxTb) \X Streams
    BY <1>2 DEF Init, NoOutcome, Statuses
  <2>3. rx \in [id : HarqIds, tb : 0..MaxTb, rv : [Streams -> 0..3],
                expected : SUBSET Streams, count : 0..NumStreams]
    BY <1>2, NumAssumption DEF Init, NoRx
  <2> QED BY <1>1, <2>1, <2>2, <2>3 DEF TypeOK, HarqType
<1>5. HarqOK
  BY <1>2, <1>3 DEF HarqOK
<1>6. DcisOK /\ RxOK /\ ReportsOK /\ AcksOK /\ OnePlace /\ DecodedOK
  BY <1>1 DEF Init, DcisOK, RxOK, ReportsOK, AcksOK, OnePlace, DecodedOK
<1> QED BY <1>4, <1>5, <1>6 DEF IInv

\* No step of the scheduler, of the UE or of the gNB MAC breaks the invariant.
LEMMA NextIInv == ASSUME IInv, [Next]_vars PROVE IInv'
<1>1. CASE DlTrigger
  BY <1>1, TriggerStep
<1>2. CASE DlData
  BY <1>2, DlDataStep
<1>3. CASE \E s \in Streams, outcome \in {"ACK", "NACK"} : EndRxData(s, outcome)
  BY <1>3, EndRxDataStep
<1>4. CASE DlHarqFeedback
  BY <1>4, FeedbackStep
<1>5. CASE UNCHANGED vars
  <2>1. TypeOK' /\ HarqOK' /\ DcisOK' /\ RxOK'
    BY <1>5 DEF vars, IInv, TypeOK, HarqOK, DcisOK, RxOK, OfItsTb
  <2>2. ReportsOK' /\ AcksOK' /\ OnePlace' /\ DecodedOK'
    BY <1>5 DEF vars, IInv, ReportsOK, AcksOK, OnePlace, DecodedOK, OfItsTb, Known
  <2> QED BY <2>1, <2>2 DEF IInv
<1> QED BY <1>1, <1>2, <1>3, <1>4, <1>5 DEF Next

\* Every reachable state satisfies the strengthened invariant.
THEOREM Invariance == Spec => []IInv
<1>1. Init => IInv
  BY InitIInv
<1>2. IInv /\ [Next]_vars => IInv'
  BY NextIInv
<1> QED BY <1>1, <1>2, PTL DEF Spec

\* The queues and the process vector keep their types: no stream is granted a
\* redundancy version beyond 3, whichever of the streams are sent again.
THEOREM TypeCorrect == Spec => []TypeOK
<1>1. IInv => TypeOK
  BY DEF IInv
<1> QED BY <1>1, Invariance, PTL

\* ScheduleDlHarq never sends a stream again that the UE has decoded.
THEOREM NoUselessRetx == Spec => []NoRetxOfDecodedStream
<1>1. IInv => NoRetxOfDecodedStream
  BY DEF IInv, DcisOK, NoRetxOfDecodedStream, Elems
<1> QED BY <1>1, Invariance, PTL

\* DoDlHarqFeedback discards no TB that a NACK may still ask for.
THEOREM BufferSafe == Spec => []NackedStreamIsBuffered
<1>1. IInv => NackedStreamIsBuffered
  <2> SUFFICES ASSUME IInv, NEW k \in Firsts, NEW s \in NackStreams(Merged[k])
               PROVE  buf[Merged[k].id][s] = harq[Merged[k].id].tb
    BY DEF NackedStreamIsBuffered
  <2>1. Merged[k] \in Known
    BY FirstReport
  <2> QED BY <2>1 DEF IInv, ReportsOK, OfItsTb
<1> QED BY <1>1, Invariance, PTL
=============================================================================
