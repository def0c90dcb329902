--------------------------- MODULE DlHarq_proofs ---------------------------
(***************************************************************************)
(* Theorems about DlHarq, for every number of UEs, of HARQ processes and   *)
(* of transport blocks, as long as a feedback is processed at most         *)
(* NumHarqProcess + 1 triggers after its grant.  The second part adds that *)
(* a UE gets one DCI per slot, and that its history is of one block.       *)
(***************************************************************************)
EXTENDS DlHarq, FiniteSetTheorems, SequenceTheorems, TLAPS

(***************************************************************************)
(* The invariant that carries the proof.                                   *)
(***************************************************************************)
StatusOK == \A p \in Proc :
  /\ harq[p].active <=> harq[p].status # "INACTIVE"
  /\ harq[p].active => harq[p].tb > 0
  /\ harq[p].rv <= MaxHarqReTx(p[1])

\* What is in the air was sent by the last grant of its process, whose timer
\* has counted the triggers since.
AirOK == \A m \in air :
  /\ harq[m.proc].active
  /\ harq[m.proc].status = "WAITING_FEEDBACK"
  /\ harq[m.proc].tb = m.tb
  /\ harq[m.proc].rv = m.rv
  /\ harq[m.proc].timer = m.age

InfoOK == \A f \in dlInfo :
  /\ harq[f.proc].active
  /\ harq[f.proc].status = "WAITING_FEEDBACK"
  /\ harq[f.proc].tb = f.tb

RetxOK == \A f \in toRetx :
  /\ harq[f.proc].active
  /\ harq[f.proc].tb = f.tb
  /\ harq[f.proc].rv < MaxHarqReTx(f.proc[1])

\* A process has one feedback at most, wherever it is.
OneFeedback ==
  /\ \A m, n \in air : m.proc = n.proc => m = n
  /\ \A f, g \in dlInfo : f.proc = g.proc => f = g
  /\ \A f, g \in toRetx : f.proc = g.proc => f = g
  /\ \A m \in air, f \in dlInfo : m.proc # f.proc
  /\ \A m \in air \cup dlInfo, f \in toRetx : m.proc # f.proc

DecodedOK ==
  /\ \A p \in Proc : \A t \in 1..MaxTb : <<p, t>> \in decoded => t <= harq[p].tb
  /\ \A m \in air : m.st # "ack" => <<m.proc, m.tb>> \notin decoded
  /\ \A f \in dlInfo : ~f.ack => <<f.proc, f.tb>> \notin decoded
  /\ \A f \in toRetx : <<f.proc, f.tb>> \notin decoded

TypeInv == TypeOK /\ StatusOK

IInv == TypeInv /\ AirOK /\ InfoOK /\ RetxOK /\ OneFeedback /\ DecodedOK
          /\ RetxBufferHoldsTb /\ UsedSizeIsExact

(***************************************************************************)
(* Facts about the operators of the scheduler.                             *)
(***************************************************************************)
\* The scheduler retransmits three times or not at all.
LEMMA MaxHarqReTxValue == ASSUME NEW u PROVE MaxHarqReTx(u) \in {0, 3}
  BY DEF MaxHarqReTx

\* ResetExpiredHARQ keeps the type of a process, its TB, and what survives.
LEMMA AgedType ==
  ASSUME TypeOK, StatusOK, NEW p \in Proc
  PROVE  /\ Aged[p] \in Process
         /\ Aged[p].tb = harq[p].tb
         /\ Aged[p].rv <= MaxHarqReTx(p[1])
         /\ Aged[p].active <=> Aged[p].status # "INACTIVE"
         /\ Aged[p].active => harq[p].active /\ p \notin Expired /\ Aged[p].rv = harq[p].rv
         /\ harq[p].active /\ p \notin Expired =>
              Aged[p] = [harq[p] EXCEPT !.timer = @ + 1] /\ Aged[p].active
<1>1. harq[p] \in Process
  BY DEF TypeOK
<1>2. CASE harq[p].status = "INACTIVE"
  <2>1. Aged[p] = harq[p]
    BY <1>2 DEF Aged
  <2> QED BY <1>1, <1>2, <2>1 DEF StatusOK
<1>3. CASE harq[p].status # "INACTIVE" /\ p \in Expired
  <2>1. Aged[p] = InactiveProcess(harq[p].tb)
    BY <1>3 DEF Aged
  <2>2. InactiveProcess(harq[p].tb) \in Process
    BY <1>1, NumAssumption DEF InactiveProcess, Process, Status
  <2> QED BY <1>1, <1>3, <2>1, <2>2, MaxHarqReTxValue DEF InactiveProcess, StatusOK
<1>4. CASE harq[p].status # "INACTIVE" /\ p \notin Expired
  <2>1. Aged[p] = [harq[p] EXCEPT !.timer = @ + 1]
    BY <1>4 DEF Aged
  <2>2. harq[p].timer < NumHarqProcess
    BY <1>1, <1>4, NumAssumption DEF Expired, Process
  <2> QED BY <1>1, <1>4, <2>1, <2>2, NumAssumption DEF StatusOK, Process
<1> QED BY <1>2, <1>3, <1>4

\* What is in the air outlives the ageing of the timers, and its process has
\* neither feedback to read nor room for a new TB.
LEMMA AirSurvives ==
  ASSUME MaxRtt <= NumHarqProcess + 1, IInv, NEW m \in air, m.age + 1 < MaxRtt
  PROVE  /\ m.proc \in Proc
         /\ m.proc \notin Expired
         /\ m.proc \notin Heard
         /\ Aged[m.proc].active
<1>1. m \in AirMsg /\ m.proc \in Proc /\ m.age \in Nat
  BY DEF IInv, TypeInv, TypeOK, AirMsg
<1>2. harq[m.proc].timer = m.age /\ harq[m.proc].active
  BY DEF IInv, AirOK
<1>3. m.proc \notin Expired
  BY <1>1, <1>2, RttAssumption, NumAssumption DEF Expired
<1>4. m.proc \notin Heard
  BY DEF Heard, Known, IInv, OneFeedback
<1> QED BY <1>1, <1>2, <1>3, <1>4, AgedType DEF IInv, TypeInv

\* The feedback of a process that is looked at first is the only one.
LEMMA OnlyFeedback ==
  ASSUME IInv
  PROVE  \A fb \in FirstFeedbacks : \A p \in Heard :
           \A f \in Known : f.proc = p => f = fb[p]
<1> SUFFICES ASSUME NEW fb \in FirstFeedbacks, NEW p \in Heard,
                    NEW f \in Known, f.proc = p
             PROVE  f = fb[p]
  OBVIOUS
<1>1. fb[p] \in Known /\ fb[p].proc = p
  BY DEF FirstFeedbacks
<1> QED BY <1>1 DEF Known, IInv, OneFeedback

\* It speaks of the TB its process holds.
LEMMA FeedbackTb ==
  ASSUME IInv PROVE \A fb \in FirstFeedbacks : \A p \in Heard : fb[p].tb = harq[p].tb
<1> SUFFICES ASSUME NEW fb \in FirstFeedbacks, NEW p \in Heard PROVE fb[p].tb = harq[p].tb
  OBVIOUS
<1>1. fb[p] \in Known /\ fb[p].proc = p
  BY DEF FirstFeedbacks
<1> QED BY <1>1 DEF Known, IInv, InfoOK, RetxOK

\* What the scheduler knows of a process whose feedback it reads.
LEMMA HeardFeedback ==
  ASSUME IInv, NEW fb \in FirstFeedbacks, NEW p \in Heard
  PROVE  /\ p \in Proc
         /\ fb[p] \in Known
         /\ fb[p].proc = p
         /\ fb[p].tb = harq[p].tb
         /\ harq[p].active
         /\ Aged[p].active
         /\ ~fb[p].ack => <<p, harq[p].tb>> \notin decoded
         /\ ~fb[p].ack => fb[p] \in [proc : Proc, tb : 1..MaxTb, ack : {FALSE}]
<1>1. p \in Proc /\ fb[p] \in Known /\ fb[p].proc = p
  BY DEF FirstFeedbacks, Heard
<1>2. fb[p].tb = harq[p].tb /\ harq[p].active
  BY <1>1, FeedbackTb DEF Known, IInv, InfoOK, RetxOK
<1>3. ~fb[p].ack => <<p, harq[p].tb>> \notin decoded
  BY <1>1, <1>2 DEF Known, IInv, DecodedOK
<1>4. ~fb[p].ack => fb[p] \in [proc : Proc, tb : 1..MaxTb, ack : {FALSE}]
  BY <1>1 DEF Known, IInv, TypeInv, TypeOK, DlInfo
<1> QED BY <1>1, <1>2, <1>3, <1>4 DEF Heard

\* A NACKed process can be tried again, and its TB is still buffered.
LEMMA NackedProcess ==
  ASSUME IInv, NEW fb \in FirstFeedbacks, NEW p \in Nacked(fb)
  PROVE  /\ p \in Heard
         /\ p \in Occupied(fb)
         /\ ~fb[p].ack
         /\ Aged[p].rv = harq[p].rv
         /\ harq[p].rv \in Nat
         /\ harq[p].rv < MaxHarqReTx(p[1])
         /\ buf[p] = harq[p].tb
<1>1. p \in Heard /\ p \notin Released(fb) /\ p \in Proc
  BY DEF Nacked, Heard
<1>2. ~fb[p].ack /\ Aged[p].rv # MaxHarqReTx(p[1])
  BY <1>1 DEF Released
<1>3. Aged[p] \in Process /\ Aged[p].rv = harq[p].rv /\ Aged[p].rv <= MaxHarqReTx(p[1])
  BY <1>1, HeardFeedback, AgedType DEF IInv, TypeInv
<1>4. Aged[p].rv \in Nat
  BY <1>3 DEF Process
<1>5. buf[p] = harq[p].tb
  <2>1. p \in Active
    BY <1>1, HeardFeedback DEF Active
  <2>2. \A f \in Known : f.proc = p => f = fb[p]
    <3> QED BY <1>1, OnlyFeedback
  <2>3. \A f \in dlInfo : f.proc = p => ~f.ack
    BY <1>2, <2>2 DEF Known
  <2> QED BY <2>1, <2>3 DEF IInv, RetxBufferHoldsTb
<1>6. p \in Occupied(fb)
  BY <1>1, HeardFeedback DEF Occupied
<1>7. harq[p].rv < MaxHarqReTx(p[1])
  <2>1. MaxHarqReTx(p[1]) \in Nat
    BY MaxHarqReTxValue
  <2> QED BY <1>2, <1>3, <1>4, <2>1
<1> QED BY <1>1, <1>2, <1>3, <1>4, <1>5, <1>6, <1>7

\* What a slot of the scheduler leaves in a process.
LEMMA ScheduledProcess ==
  ASSUME IInv, NEW fb \in FirstFeedbacks, NEW retx \in Retransmittable(fb),
         NEW fresh \in Insertable(fb, retx), NEW p \in Proc,
         harq' = ScheduledHarq(fb, retx, fresh)
  PROVE  /\ p \in fresh => harq'[p] = NewProcess(harq[p].tb + 1) /\ p \notin Nacked(fb)
         /\ p \notin fresh /\ p \in Released(fb) => harq'[p] = InactiveProcess(harq[p].tb)
         /\ p \in Nacked(fb) => harq'[p] = Tried(p, p \in retx)
         /\ p \notin fresh /\ p \notin Heard => harq'[p] = Aged[p]
<1>1. harq'[p] = ScheduledHarq(fb, retx, fresh)[p]
  OBVIOUS
<1>2. p \in fresh => p \notin Nacked(fb)
  BY NackedProcess DEF Insertable
<1> QED BY <1>1, <1>2 DEF ScheduledHarq, Nacked, Released

\* What a NACKed process becomes.
LEMMA TriedProcess ==
  ASSUME IInv, NEW fb \in FirstFeedbacks, NEW p \in Nacked(fb), NEW sent \in BOOLEAN
  PROVE  /\ Tried(p, sent) \in Process
         /\ Tried(p, sent).active
         /\ Tried(p, sent).status = "WAITING_FEEDBACK"
         /\ Tried(p, sent).timer = 0
         /\ Tried(p, sent).tb = harq[p].tb
         /\ Tried(p, sent).rv = IF sent THEN harq[p].rv + 1 ELSE harq[p].rv
         /\ Tried(p, sent).rv <= MaxHarqReTx(p[1])
<1>1. p \in Heard /\ p \in Proc
  BY DEF Nacked, Heard
<1>2. Aged[p] \in Process /\ Aged[p].tb = harq[p].tb /\ Aged[p].active
  BY <1>1, AgedType DEF IInv, TypeInv, Heard
<1>3. Aged[p].rv = harq[p].rv /\ harq[p].rv \in Nat /\ harq[p].rv < MaxHarqReTx(p[1])
  BY NackedProcess
<1>4. MaxHarqReTx(p[1]) \in {0, 3}
  BY MaxHarqReTxValue
<1> DEFINE rv == IF sent THEN Aged[p].rv + 1 ELSE Aged[p].rv
<1>5. rv \in 0..3 /\ rv <= MaxHarqReTx(p[1])
  BY <1>3, <1>4
<1>6. Tried(p, sent) = [active |-> Aged[p].active, status |-> "WAITING_FEEDBACK",
                        timer |-> 0, rv |-> rv, tb |-> Aged[p].tb]
  <2> DEFINE a == Aged[p]
  <2>1. a = [active |-> a.active, status |-> a.status, timer |-> a.timer,
             rv |-> a.rv, tb |-> a.tb]
    BY <1>2 DEF Process
  <2>2. Tried(p, sent) = [a EXCEPT !.status = "WAITING_FEEDBACK", !.timer = 0, !.rv = rv]
    BY DEF Tried
  <2> HIDE DEF a, rv
  <2>3. Tried(p, sent) = [active |-> a.active, status |-> "WAITING_FEEDBACK",
                          timer |-> 0, rv |-> rv, tb |-> a.tb]
    BY <2>1, <2>2
  <2> QED BY <2>3 DEF a
<1>7. rv = IF sent THEN harq[p].rv + 1 ELSE harq[p].rv
  BY <1>3
<1> HIDE DEF rv
<1>8. Tried(p, sent) \in Process
  BY <1>2, <1>5, <1>6, NumAssumption DEF Process, Status
<1> QED BY <1>2, <1>5, <1>6, <1>7, <1>8

\* The type of the process vector after a slot, and what StatusOK says of it.
LEMMA ScheduledType ==
  ASSUME IInv, NEW fb \in FirstFeedbacks, NEW retx \in Retransmittable(fb),
         NEW fresh \in Insertable(fb, retx), NEW p \in Proc,
         harq' = ScheduledHarq(fb, retx, fresh)
  PROVE  /\ harq'[p] \in Process
         /\ harq'[p].active <=> harq'[p].status # "INACTIVE"
         /\ harq'[p].active => harq'[p].tb > 0
         /\ harq'[p].rv <= MaxHarqReTx(p[1])
         /\ harq'[p].tb \in {harq[p].tb, harq[p].tb + 1}
         /\ harq'[p].active <=> (p \in Occupied(fb) \cup fresh)
<1>1. harq[p] \in Process /\ (harq[p].active => harq[p].tb > 0)
  BY DEF IInv, TypeInv, TypeOK, StatusOK
<1>2. MaxHarqReTx(p[1]) \in {0, 3}
  BY MaxHarqReTxValue
<1>3. CASE p \in fresh
  <2>1. harq'[p] = NewProcess(harq[p].tb + 1)
    BY <1>3, ScheduledProcess
  <2>2. harq[p].tb < MaxTb
    BY <1>3 DEF Insertable
  <2> QED BY <1>1, <1>2, <1>3, <2>1, <2>2, NumAssumption, MaxTbAssumption
          DEF NewProcess, Process, Status
<1>4. CASE p \notin fresh /\ p \in Released(fb)
  <2>1. harq'[p] = InactiveProcess(harq[p].tb)
    BY <1>4, ScheduledProcess
  <2> QED BY <1>1, <1>2, <1>4, <2>1, NumAssumption
          DEF InactiveProcess, Process, Status, Occupied
<1>5. CASE p \in Nacked(fb)
  <2>1. harq'[p] = Tried(p, p \in retx)
    BY <1>5, ScheduledProcess
  <2>2. p \in Occupied(fb) /\ harq[p].active
    BY <1>5, NackedProcess, HeardFeedback
  <2>3. (p \in retx) \in BOOLEAN
    OBVIOUS
  <2>4. harq'[p] \in Process /\ harq'[p].active /\ harq'[p].status = "WAITING_FEEDBACK"
          /\ harq'[p].tb = harq[p].tb /\ harq'[p].rv <= MaxHarqReTx(p[1])
    BY <1>5, <2>1, <2>3, TriedProcess
  <2> QED BY <1>1, <2>2, <2>4
<1>6. CASE p \notin fresh /\ p \notin Heard
  <2>1. harq'[p] = Aged[p]
    BY <1>6, ScheduledProcess
  <2>2. p \notin Released(fb)
    BY <1>6 DEF Released
  <2>3. Aged[p] \in Process /\ Aged[p].tb = harq[p].tb /\ Aged[p].rv <= MaxHarqReTx(p[1])
          /\ (Aged[p].active <=> Aged[p].status # "INACTIVE")
          /\ (Aged[p].active => harq[p].active)
    BY AgedType DEF IInv, TypeInv
  <2> QED BY <1>1, <1>6, <2>1, <2>2, <2>3 DEF Occupied
<1> QED BY <1>3, <1>4, <1>5, <1>6 DEF Nacked

(***************************************************************************)
(* Counting processes.                                                     *)
(***************************************************************************)
\* A UE has a finite number of processes, NumHarqProcess at most.
LEMMA CountIds == ASSUME NEW S, NEW u
                  PROVE  /\ IsFiniteSet({i \in HarqIds : <<u, i>> \in S})
                         /\ Count(S, u) \in Nat
                         /\ Count(S, u) <= NumHarqProcess
<1>1. IsFiniteSet(HarqIds) /\ Cardinality(HarqIds) = NumHarqProcess
  BY FS_Interval, NumAssumption DEF HarqIds
<1> DEFINE T == {i \in HarqIds : <<u, i>> \in S}
<1>2. T \in SUBSET HarqIds
  OBVIOUS
<1>3. IsFiniteSet(T) /\ Cardinality(T) <= Cardinality(HarqIds)
  BY <1>1, <1>2, FS_Subset
<1>4. Cardinality(T) \in Nat
  BY <1>3, FS_CardinalityType
<1> QED BY <1>1, <1>3, <1>4 DEF Count

\* Taking processes out of a set lowers its count by theirs.
LEMMA CountMinus == ASSUME NEW S, NEW T \in SUBSET S, NEW u
                    PROVE  Count(S \ T, u) = Count(S, u) - Count(T, u)
<1> DEFINE A == {i \in HarqIds : <<u, i>> \in S}
           B == {i \in HarqIds : <<u, i>> \in T}
<1>1. IsFiniteSet(A)
  BY CountIds
<1>2. {i \in HarqIds : <<u, i>> \in S \ T} = A \ B /\ A \cap B = B
  OBVIOUS
<1>3. Cardinality(A \ B) = Cardinality(A) - Cardinality(A \cap B)
  BY <1>1, FS_Difference
<1> QED BY <1>2, <1>3 DEF Count

\* Counts of disjoint sets of processes add up.
LEMMA CountPlus == ASSUME NEW S, NEW T, S \cap T = {}, NEW u
                   PROVE  Count(S \cup T, u) = Count(S, u) + Count(T, u)
<1> DEFINE A == {i \in HarqIds : <<u, i>> \in S}
           B == {i \in HarqIds : <<u, i>> \in T}
<1>1. IsFiniteSet(A) /\ IsFiniteSet(B)
  BY CountIds
<1>2. {i \in HarqIds : <<u, i>> \in S \cup T} = A \cup B /\ A \cap B = {}
  OBVIOUS
<1> HIDE DEF A, B
<1>3. Cardinality(A \cup B) = Cardinality(A) + Cardinality(B) - Cardinality({})
  BY <1>1, <1>2, FS_Union
<1>4. Cardinality(A) \in Nat /\ Cardinality(B) \in Nat /\ Cardinality({}) = 0
  BY <1>1, FS_CardinalityType, FS_EmptySet
<1>5. Cardinality(A \cup B) = Cardinality(A) + Cardinality(B)
  BY <1>3, <1>4
<1> QED BY <1>2, <1>5 DEF Count, A, B

\* NrMacHarqVector counts its active processes through expiry, release and
\* insertion.
LEMMA UsedSizeStep ==
  ASSUME IInv, NEW fb \in FirstFeedbacks, NEW retx \in Retransmittable(fb),
         NEW fresh \in Insertable(fb, retx), NEW u \in UEs,
         harq' = ScheduledHarq(fb, retx, fresh)
  PROVE  UsedAfterFeedback(u, fb) + Count(fresh, u) = Count(Active', u)
<1>1. Expired \in SUBSET Active
  BY DEF Expired, Active, IInv, TypeInv, StatusOK
<1>2. {p \in Proc : Aged[p].active} = Active \ Expired
  BY AgedType DEF Active, IInv, TypeInv
<1>3. Released(fb) \in SUBSET (Active \ Expired)
  BY <1>2 DEF Released, Heard
<1>4. Occupied(fb) = (Active \ Expired) \ Released(fb)
  BY <1>2 DEF Occupied
<1>5. Count(Occupied(fb), u) = Count(Active, u) - Count(Expired, u) - Count(Released(fb), u)
  <2>1. Count(Active \ Expired, u) = Count(Active, u) - Count(Expired, u)
    BY <1>1, CountMinus
  <2>2. Count(Occupied(fb), u) = Count(Active \ Expired, u) - Count(Released(fb), u)
    BY <1>3, <1>4, CountMinus
  <2>3. Count(Active, u) \in Nat /\ Count(Expired, u) \in Nat
    BY CountIds
  <2> QED BY <2>1, <2>2, <2>3
<1>6. UsedAfterFeedback(u, fb) = Count(Occupied(fb), u)
  BY <1>5 DEF UsedAfterFeedback, IInv, UsedSizeIsExact
<1>7. Active' = Occupied(fb) \cup fresh
  BY ScheduledType DEF Active, Occupied, Insertable
<1>8. Occupied(fb) \cap fresh = {}
  BY DEF Insertable
<1> QED BY <1>6, <1>7, <1>8, CountPlus

(***************************************************************************)
(* Every step of the system keeps the invariant.                           *)
(***************************************************************************)
\* One run of DoSchedDlTriggerReq and of the slot it decides.
LEMMA TriggerStep ==
  ASSUME MaxRtt <= NumHarqProcess + 1, IInv, DlTrigger
  PROVE  IInv'
<1> DEFINE Step(fb, retx, fresh) ==
          /\ harq' = ScheduledHarq(fb, retx, fresh)
          /\ usedSize' = [u \in UEs |-> UsedAfterFeedback(u, fb) + Count(fresh, u)]
          /\ toRetx' = {fb[p] : p \in Nacked(fb) \ retx}
          /\ buf' = [p \in Proc |-> IF p \in fresh THEN harq[p].tb + 1 ELSE buf[p]]
          /\ air' = {[m EXCEPT !.age = @ + 1] : m \in air} \cup SentTbs(retx, fresh)
<1>0. PICK fb \in FirstFeedbacks :
        \E retx \in Retransmittable(fb) : \E fresh \in Insertable(fb, retx) : Step(fb, retx, fresh)
  BY DEF DlTrigger
<1>1. PICK retx \in Retransmittable(fb) :
        \E fresh \in Insertable(fb, retx) : Step(fb, retx, fresh)
  BY <1>0
<1>2. PICK fresh \in Insertable(fb, retx) : Step(fb, retx, fresh)
  BY <1>1
<1>3. dlInfo' = {} /\ hist' = hist /\ decoded' = decoded
        /\ \A m \in air : m.age + 1 < MaxRtt
  BY DEF DlTrigger
<1>4. fresh \subseteq Proc /\ retx \subseteq Nacked(fb) /\ Nacked(fb) \subseteq Heard
        /\ Heard \subseteq Proc /\ fresh \cap Occupied(fb) = {}
        /\ \A p \in fresh : harq[p].tb < MaxTb
  BY DEF Insertable, Retransmittable, Nacked, Heard
<1>5. \A p \in Nacked(fb) : p \notin fresh
  BY <1>4, NackedProcess
\* What the air holds now: what outlived the slot, and what it sent.
<1>6. \A m \in air : m.proc \in Proc /\ m.proc \notin Heard /\ m.proc \notin fresh
  <2> SUFFICES ASSUME NEW m \in air
               PROVE  m.proc \in Proc /\ m.proc \notin Heard /\ m.proc \notin fresh
    OBVIOUS
  <2>1. m.proc \in Proc /\ m.proc \notin Heard /\ Aged[m.proc].active
    BY <1>3, AirSurvives
  <2> QED BY <1>4, <2>1 DEF Occupied, Released
<1>7. \A n \in air' :
        \/ \E m \in air : n = [m EXCEPT !.age = @ + 1]
        \/ \E p \in fresh : n = Transmission(p, harq[p].tb + 1, 0)
        \/ \E p \in retx : n = Transmission(p, harq[p].tb, harq[p].rv + 1)
  <2>1. \A p \in retx : buf[p] = harq[p].tb
    BY <1>4, NackedProcess
  <2> QED BY <1>2, <2>1 DEF SentTbs
<1>8. \A m \in air : [m EXCEPT !.age = @ + 1].proc = m.proc
                    /\ [m EXCEPT !.age = @ + 1].tb = m.tb
                    /\ [m EXCEPT !.age = @ + 1].st = m.st
  BY DEF IInv, TypeInv, TypeOK, AirMsg
<1>9. \A n \in air' :
        \/ n.proc \notin Heard \cup fresh /\ \E m \in air : n = [m EXCEPT !.age = @ + 1] /\ n.proc = m.proc
        \/ n.proc \in fresh /\ n = Transmission(n.proc, harq[n.proc].tb + 1, 0)
        \/ n.proc \in retx /\ n = Transmission(n.proc, harq[n.proc].tb, harq[n.proc].rv + 1)
  <2> SUFFICES ASSUME NEW n \in air'
               PROVE  \/ n.proc \notin Heard \cup fresh /\ \E m \in air : n = [m EXCEPT !.age = @ + 1] /\ n.proc = m.proc
                      \/ n.proc \in fresh /\ n = Transmission(n.proc, harq[n.proc].tb + 1, 0)
                      \/ n.proc \in retx /\ n = Transmission(n.proc, harq[n.proc].tb, harq[n.proc].rv + 1)
    OBVIOUS
  <2>1. CASE \E m \in air : n = [m EXCEPT !.age = @ + 1]
    BY <1>6, <1>8, <2>1
  <2>2. CASE \E p \in fresh : n = Transmission(p, harq[p].tb + 1, 0)
    BY <2>2 DEF Transmission
  <2>3. CASE \E p \in retx : n = Transmission(p, harq[p].tb, harq[p].rv + 1)
    BY <2>3 DEF Transmission
  <2> QED BY <1>7, <2>1, <2>2, <2>3
<1>10. TypeOK'
  <2>1. harq' \in [Proc -> Process]
    <3>1. \A p \in Proc : harq'[p] \in Process
      BY <1>2, ScheduledType
    <3> QED BY <1>2, <3>1 DEF ScheduledHarq
  <2>2. usedSize' \in [UEs -> 0..NumHarqProcess]
    <3>1. \A u \in UEs : usedSize'[u] = Count(Active', u)
      BY <1>2, UsedSizeStep
    <3>2. ASSUME NEW u \in UEs
          PROVE  usedSize'[u] \in 0..NumHarqProcess
      <4>1. Count(Active', u) \in Nat /\ Count(Active', u) <= NumHarqProcess
        BY CountIds
      <4> QED BY <3>1, <4>1, NumAssumption
    <3> QED BY <1>2, <3>2
  <2>3. toRetx' \subseteq [proc : Proc, tb : 1..MaxTb, ack : {FALSE}]
    <3> SUFFICES ASSUME NEW p \in Nacked(fb)
                 PROVE  fb[p] \in [proc : Proc, tb : 1..MaxTb, ack : {FALSE}]
      BY <1>2
    <3>1. p \in Heard /\ ~fb[p].ack
      BY NackedProcess
    <3> QED BY <3>1, HeardFeedback
  <2>4. buf' \in [Proc -> 0..MaxTb]
    <3>1. \A p \in Proc : harq[p].tb \in 0..MaxTb
      BY DEF IInv, TypeInv, TypeOK, Process
    <3>2. \A p \in fresh : harq[p].tb + 1 \in 0..MaxTb
      BY <1>4, <3>1, MaxTbAssumption
    <3> QED BY <1>2, <3>2 DEF IInv, TypeInv, TypeOK
  <2>5. air' \subseteq AirMsg
    <3> SUFFICES ASSUME NEW n \in air' PROVE n \in AirMsg
      OBVIOUS
    <3>1. CASE \E m \in air : n = [m EXCEPT !.age = @ + 1]
      <4>1. PICK m \in air : n = [m EXCEPT !.age = @ + 1]
        BY <3>1
      <4>2. m \in AirMsg /\ m.age + 1 < MaxRtt
        BY <1>3 DEF IInv, TypeInv, TypeOK
      <4> QED BY <4>1, <4>2, RttAssumption DEF AirMsg
    <3>2. CASE \E p \in fresh : n = Transmission(p, harq[p].tb + 1, 0)
      <4>1. PICK p \in fresh : n = Transmission(p, harq[p].tb + 1, 0)
        BY <3>2
      <4>2. p \in Proc /\ harq[p].tb + 1 \in 1..MaxTb
        BY <1>4, MaxTbAssumption DEF IInv, TypeInv, TypeOK, Process
      <4> QED BY <4>1, <4>2, RttAssumption DEF AirMsg, Transmission
    <3>3. CASE \E p \in retx : n = Transmission(p, harq[p].tb, harq[p].rv + 1)
      <4>1. PICK p \in retx : n = Transmission(p, harq[p].tb, harq[p].rv + 1)
        BY <3>3
      <4>2. p \in Proc /\ harq[p].active /\ harq[p].rv \in Nat /\ harq[p].rv < MaxHarqReTx(p[1])
        BY <1>4, NackedProcess, HeardFeedback
      <4>3. harq[p].tb \in 1..MaxTb
        BY <4>2, MaxTbAssumption DEF IInv, TypeInv, TypeOK, StatusOK, Process
      <4>4. MaxHarqReTx(p[1]) \in {0, 3}
        BY MaxHarqReTxValue
      <4>5. harq[p].rv + 1 \in 0..3
        BY <4>2, <4>4
      <4> QED BY <4>1, <4>2, <4>3, <4>5, RttAssumption DEF AirMsg, Transmission
    <3> QED BY <1>7, <3>1, <3>2, <3>3
  <2>6. hist' \in [Proc -> Seq(1..MaxTb)] /\ decoded' \subseteq Proc \X (1..MaxTb)
    BY <1>3 DEF IInv, TypeInv, TypeOK
  <2>7. dlInfo' \subseteq DlInfo
    BY <1>3
  <2> QED BY <2>1, <2>2, <2>3, <2>4, <2>5, <2>6, <2>7 DEF TypeOK
<1>11. StatusOK'
  BY <1>2, ScheduledType DEF StatusOK
<1>12. AirOK'
  <2> SUFFICES ASSUME NEW n \in air'
               PROVE  /\ harq'[n.proc].active
                      /\ harq'[n.proc].status = "WAITING_FEEDBACK"
                      /\ harq'[n.proc].tb = n.tb
                      /\ harq'[n.proc].rv = n.rv
                      /\ harq'[n.proc].timer = n.age
    BY DEF AirOK
  <2>1. CASE \E m \in air : n = [m EXCEPT !.age = @ + 1]
    <3>1. PICK m \in air : n = [m EXCEPT !.age = @ + 1]
      BY <2>1
    <3>2. m \in AirMsg /\ n.proc = m.proc /\ n.tb = m.tb /\ n.rv = m.rv /\ n.age = m.age + 1
      BY <3>1 DEF IInv, TypeInv, TypeOK, AirMsg
    <3>3. m.proc \in Proc /\ m.proc \notin Expired /\ harq[m.proc].active
      BY <1>3, AirSurvives DEF IInv, AirOK
    <3>4. harq'[m.proc] = [harq[m.proc] EXCEPT !.timer = @ + 1]
      <4>1. harq'[m.proc] = Aged[m.proc]
        BY <1>2, <1>6, <3>3, ScheduledProcess
      <4>2. Aged[m.proc] = [harq[m.proc] EXCEPT !.timer = @ + 1]
        BY <3>3, AgedType DEF IInv, TypeInv
      <4> QED BY <4>1, <4>2
    <3>5. harq[m.proc] \in Process
      BY <3>3 DEF IInv, TypeInv, TypeOK
    <3> QED BY <3>2, <3>3, <3>4, <3>5 DEF IInv, AirOK, Process
  <2>2. CASE \E p \in fresh : n = Transmission(p, harq[p].tb + 1, 0)
    <3>1. PICK p \in fresh : n = Transmission(p, harq[p].tb + 1, 0)
      BY <2>2
    <3>2. harq'[p] = NewProcess(harq[p].tb + 1)
      BY <1>2, <1>4, ScheduledProcess
    <3> QED BY <3>1, <3>2 DEF Transmission, NewProcess
  <2>3. CASE \E p \in retx : n = Transmission(p, harq[p].tb, harq[p].rv + 1)
    <3>1. PICK p \in retx : n = Transmission(p, harq[p].tb, harq[p].rv + 1)
      BY <2>3
    <3>2. harq'[p] = Tried(p, TRUE)
      BY <1>2, <1>4, ScheduledProcess
    <3>3. /\ Tried(p, TRUE).active
          /\ Tried(p, TRUE).status = "WAITING_FEEDBACK"
          /\ Tried(p, TRUE).timer = 0
          /\ Tried(p, TRUE).tb = harq[p].tb
          /\ Tried(p, TRUE).rv = harq[p].rv + 1
      BY <1>4, TriedProcess
    <3> QED BY <3>1, <3>2, <3>3 DEF Transmission
  <2> QED BY <1>7, <2>1, <2>2, <2>3
<1>13. InfoOK'
  BY <1>3 DEF InfoOK
<1>14. RetxOK'
  <2> SUFFICES ASSUME NEW f \in toRetx'
               PROVE  /\ harq'[f.proc].active
                      /\ harq'[f.proc].tb = f.tb
                      /\ harq'[f.proc].rv < MaxHarqReTx(f.proc[1])
    BY DEF RetxOK
  <2>1. PICK p \in Nacked(fb) \ retx : f = fb[p]
    BY <1>2
  <2>2. p \in Proc /\ p \in Heard /\ f.proc = p /\ f.tb = harq[p].tb
    <3>1. p \in Heard
      BY <1>4
    <3>2. p \in Proc
      BY <3>1 DEF Heard
    <3>3. fb[p].proc = p
      BY <3>1, HeardFeedback
    <3>4. fb[p].tb = harq[p].tb
      BY <3>1, FeedbackTb
    <3> QED BY <2>1, <3>1, <3>2, <3>3, <3>4
  <2>3. harq'[p] = Tried(p, FALSE)
    <3>1. harq'[p] = Tried(p, p \in retx)
      BY <1>2, <2>2, ScheduledProcess
    <3>2. (p \in retx) = FALSE
      OBVIOUS
    <3> QED BY <3>1, <3>2
  <2>4. Tried(p, FALSE).active /\ Tried(p, FALSE).tb = harq[p].tb
          /\ Tried(p, FALSE).rv = harq[p].rv
    BY <2>1, TriedProcess
  <2>5. harq[p].rv < MaxHarqReTx(p[1])
    BY <2>1, NackedProcess
  <2> QED BY <2>2, <2>3, <2>4, <2>5
<1>15. OneFeedback'
  <2>1. ASSUME NEW m \in air', NEW n \in air', m.proc = n.proc
        PROVE  m = n
    <3>1. CASE m.proc \notin Heard \cup fresh
      <4>1. PICK k \in air : m = [k EXCEPT !.age = @ + 1] /\ m.proc = k.proc
        BY <1>4, <1>9, <3>1
      <4>2. PICK l \in air : n = [l EXCEPT !.age = @ + 1] /\ n.proc = l.proc
        BY <1>4, <1>9, <2>1, <3>1
      <4>3. k = l
        BY <2>1, <4>1, <4>2 DEF IInv, OneFeedback
      <4> QED BY <4>1, <4>2, <4>3
    <3>2. CASE m.proc \in fresh
      <4>1. m.proc \notin retx /\ n.proc \notin retx
        BY <1>4, <1>5, <2>1, <3>2
      <4> QED BY <1>9, <2>1, <3>2, <4>1
    <3>3. CASE m.proc \in Heard /\ m.proc \notin fresh
      BY <1>9, <2>1, <3>3
    <3> QED BY <3>1, <3>2, <3>3
  <2>2. ASSUME NEW f \in toRetx', NEW g \in toRetx', f.proc = g.proc
        PROVE  f = g
    <3>1. PICK p \in Nacked(fb) \ retx : f = fb[p]
      BY <1>2
    <3>2. PICK q \in Nacked(fb) \ retx : g = fb[q]
      BY <1>2
    <3>3. p \in Heard /\ q \in Heard
      BY <1>4
    <3>4. f.proc = p
      BY <3>1, <3>3, HeardFeedback
    <3>5. g.proc = q
      BY <3>2, <3>3, HeardFeedback
    <3> QED BY <2>2, <3>1, <3>2, <3>4, <3>5
  <2>3. ASSUME NEW m \in air', NEW f \in toRetx'
        PROVE  m.proc # f.proc
    <3>1. PICK p \in Nacked(fb) \ retx : f = fb[p]
      BY <1>2
    <3>2. f.proc = p /\ p \in Heard
      BY <1>4, <3>1, HeardFeedback
    <3> QED BY <1>5, <1>9, <3>1, <3>2
  <2> QED BY <1>3, <2>1, <2>2, <2>3 DEF OneFeedback
<1>16. DecodedOK'
  <2>1. ASSUME NEW p \in Proc, NEW t \in 1..MaxTb, <<p, t>> \in decoded'
        PROVE  t <= harq'[p].tb
    <3>1. t <= harq[p].tb /\ harq[p].tb \in Nat
      BY <1>3, <2>1 DEF IInv, DecodedOK, TypeInv, TypeOK, Process
    <3>2. harq'[p].tb \in {harq[p].tb, harq[p].tb + 1}
      BY <1>2, ScheduledType
    <3> QED BY <3>1, <3>2
  <2>2. ASSUME NEW n \in air', n.st # "ack"
        PROVE  <<n.proc, n.tb>> \notin decoded'
    <3>1. CASE \E m \in air : n = [m EXCEPT !.age = @ + 1]
      BY <1>3, <1>8, <2>2, <3>1 DEF IInv, DecodedOK
    <3>2. CASE \E p \in fresh : n = Transmission(p, harq[p].tb + 1, 0)
      <4>1. PICK p \in fresh : n = Transmission(p, harq[p].tb + 1, 0)
        BY <3>2
      <4>2. p \in Proc /\ harq[p].tb + 1 \in 1..MaxTb /\ harq[p].tb \in Nat
        BY <1>4, MaxTbAssumption DEF IInv, TypeInv, TypeOK, Process
      <4>3. <<p, harq[p].tb + 1>> \notin decoded
        BY <4>2 DEF IInv, DecodedOK
      <4> QED BY <1>3, <4>1, <4>3 DEF Transmission
    <3>3. CASE \E p \in retx : n = Transmission(p, harq[p].tb, harq[p].rv + 1)
      <4>1. PICK p \in retx : n = Transmission(p, harq[p].tb, harq[p].rv + 1)
        BY <3>3
      <4>2. p \in Heard /\ ~fb[p].ack
        BY <1>4, NackedProcess
      <4>3. <<p, harq[p].tb>> \notin decoded
        BY <4>2, HeardFeedback
      <4> QED BY <1>3, <4>1, <4>3 DEF Transmission
    <3> QED BY <1>7, <3>1, <3>2, <3>3
  <2>3. ASSUME NEW f \in toRetx'
        PROVE  <<f.proc, f.tb>> \notin decoded'
    <3>1. PICK p \in Nacked(fb) : f = fb[p] /\ p \in Heard
      BY <1>2, <1>4
    <3>2. ~fb[p].ack
      BY NackedProcess
    <3> QED BY <1>3, <3>1, <3>2, HeardFeedback
  <2> QED BY <1>3, <2>1, <2>2, <2>3 DEF DecodedOK
<1>17. RetxBufferHoldsTb'
  <2> SUFFICES ASSUME NEW p \in Proc, harq'[p].active
               PROVE  buf'[p] = harq'[p].tb
    BY DEF RetxBufferHoldsTb, Active
  <2>1. CASE p \in fresh
    <3>1. harq'[p] = NewProcess(harq[p].tb + 1)
      BY <1>2, <2>1, ScheduledProcess
    <3>2. buf'[p] = harq[p].tb + 1
      BY <1>2, <2>1
    <3> QED BY <3>1, <3>2 DEF NewProcess
  <2>2. CASE p \in Nacked(fb)
    <3>1. harq'[p] = Tried(p, p \in retx) /\ (p \in retx) \in BOOLEAN
      BY <1>2, <2>2, ScheduledProcess
    <3>2. harq'[p].tb = harq[p].tb
      BY <2>2, <3>1, TriedProcess
    <3>3. buf[p] = harq[p].tb
      BY <2>2, NackedProcess
    <3>4. buf'[p] = buf[p]
      BY <1>2, <1>5, <2>2
    <3> QED BY <3>2, <3>3, <3>4
  <2>3. CASE p \notin fresh /\ p \notin Nacked(fb)
    <3>1. p \in Occupied(fb)
      BY <1>2, <2>3, ScheduledType
    <3>2. p \notin Heard /\ Aged[p].active
      BY <2>3, <3>1 DEF Occupied, Nacked
    <3>3. harq'[p].tb = harq[p].tb /\ p \in Active
      <4>1. harq'[p] = Aged[p]
        BY <1>2, <2>3, <3>2, ScheduledProcess
      <4>2. Aged[p].tb = harq[p].tb /\ harq[p].active
        BY <3>2, AgedType DEF IInv, TypeInv
      <4> QED BY <4>1, <4>2 DEF Active
    <3>4. \A f \in dlInfo : f.proc # p
      BY <3>2 DEF Heard, Known
    <3> QED BY <1>2, <2>3, <3>3, <3>4 DEF IInv, RetxBufferHoldsTb
  <2> QED BY <2>1, <2>2, <2>3
<1>18. UsedSizeIsExact'
  BY <1>2, UsedSizeStep DEF UsedSizeIsExact
<1> QED BY <1>10, <1>11, <1>12, <1>13, <1>14, <1>15, <1>16, <1>17, <1>18 DEF IInv, TypeInv

\* What the UE's PHY and DoDlHarqFeedback do between two runs of the scheduler.
LEMMA DeliverStep ==
  ASSUME IInv, NEW m \in air, Deliver(m)
  PROVE  IInv'
<1>1. m \in AirMsg /\ m.proc \in Proc /\ m.tb \in 1..MaxTb
  BY DEF IInv, TypeInv, TypeOK, AirMsg
<1>2. harq' = harq /\ usedSize' = usedSize /\ toRetx' = toRetx
  BY DEF Deliver, EndRxDataOk, EndRxDataCorrupted, TbUnreceived, DlHarqFeedback
<1>3. StatusOK' /\ RetxOK' /\ UsedSizeIsExact'
  BY <1>2 DEF IInv, TypeInv, StatusOK, RetxOK, UsedSizeIsExact, Active
<1>4. ASSUME NEW o \in {"ack", "nack"}, air' = (air \ {m}) \cup {Feedback(m, o)},
             UNCHANGED <<dlInfo, buf>>
      PROVE  /\ Feedback(m, o) \in AirMsg
             /\ Feedback(m, o).proc = m.proc /\ Feedback(m, o).tb = m.tb
             /\ Feedback(m, o).st = o
             /\ AirOK' /\ InfoOK' /\ OneFeedback' /\ RetxBufferHoldsTb'
  <2>1. /\ Feedback(m, o) \in AirMsg
        /\ Feedback(m, o).proc = m.proc /\ Feedback(m, o).tb = m.tb
        /\ Feedback(m, o).rv = m.rv /\ Feedback(m, o).age = m.age
        /\ Feedback(m, o).st = o
    BY <1>1 DEF Feedback, AirMsg
  <2> DEFINE k == Feedback(m, o)
  <2> HIDE DEF k
  <2>2. k.proc = m.proc /\ k.tb = m.tb /\ k.rv = m.rv /\ k.age = m.age
          /\ air' = (air \ {m}) \cup {k}
    BY <1>4, <2>1 DEF k
  <2>3. AirOK'
    BY <1>2, <2>2 DEF IInv, AirOK
  <2>4. InfoOK'
    BY <1>2, <1>4 DEF IInv, InfoOK
  <2>5. OneFeedback'
    BY <1>2, <1>4, <2>2 DEF IInv, OneFeedback
  <2>6. RetxBufferHoldsTb'
    BY <1>2, <1>4 DEF IInv, RetxBufferHoldsTb, Active
  <2> QED BY <2>1, <2>3, <2>4, <2>5, <2>6
<1>5. CASE EndRxDataOk(m)
  <2>1. air' = (air \ {m}) \cup {Feedback(m, "ack")} /\ UNCHANGED <<dlInfo, buf>>
    BY <1>5 DEF EndRxDataOk
  <2>2. /\ Feedback(m, "ack") \in AirMsg
        /\ Feedback(m, "ack").proc = m.proc /\ Feedback(m, "ack").st = "ack"
        /\ AirOK' /\ InfoOK' /\ OneFeedback' /\ RetxBufferHoldsTb'
    BY <1>4, <2>1
  <2>3. TypeOK'
    <3>1. hist' \in [Proc -> Seq(1..MaxTb)]
      <4>1. hist' = [hist EXCEPT ![m.proc] = <<>>] /\ <<>> \in Seq(1..MaxTb)
        BY <1>5 DEF EndRxDataOk
      <4> QED BY <4>1 DEF IInv, TypeInv, TypeOK
    <3>2. decoded' \subseteq Proc \X (1..MaxTb)
      BY <1>1, <1>5 DEF EndRxDataOk, IInv, TypeInv, TypeOK
    <3> QED BY <1>2, <2>1, <2>2, <3>1, <3>2 DEF IInv, TypeInv, TypeOK
  <2>4. DecodedOK'
    <3>1. decoded' = decoded \cup {<<m.proc, m.tb>>} /\ m.tb = harq[m.proc].tb
            /\ harq[m.proc].tb \in Nat
      BY <1>1, <1>5 DEF EndRxDataOk, IInv, AirOK, TypeInv, TypeOK, Process
    <3>2. ASSUME NEW p \in Proc, NEW t \in 1..MaxTb, <<p, t>> \in decoded'
          PROVE  t <= harq'[p].tb
      BY <1>2, <3>1, <3>2 DEF IInv, DecodedOK
    <3>3. ASSUME NEW n \in air', n.st # "ack"
          PROVE  <<n.proc, n.tb>> \notin decoded'
      <4>1. n \in air /\ n # m
        BY <2>1, <2>2, <3>3
      <4>2. n.proc # m.proc /\ <<n.proc, n.tb>> \notin decoded
        BY <3>3, <4>1 DEF IInv, DecodedOK, OneFeedback
      <4> QED BY <3>1, <4>2
    <3>4. ASSUME NEW f \in dlInfo', ~f.ack
          PROVE  <<f.proc, f.tb>> \notin decoded'
      BY <2>1, <3>1, <3>4 DEF IInv, DecodedOK, OneFeedback
    <3>5. ASSUME NEW f \in toRetx'
          PROVE  <<f.proc, f.tb>> \notin decoded'
      BY <1>2, <3>1, <3>5 DEF IInv, DecodedOK, OneFeedback
    <3> QED BY <3>2, <3>3, <3>4, <3>5 DEF DecodedOK
  <2> QED BY <1>3, <2>2, <2>3, <2>4 DEF IInv, TypeInv
<1>6. CASE EndRxDataCorrupted(m)
  <2>1. /\ m.st = "data"
        /\ air' = (air \ {m}) \cup {Feedback(m, "nack")}
        /\ UNCHANGED <<dlInfo, buf, decoded>>
    BY <1>6 DEF EndRxDataCorrupted
  <2>2. /\ Feedback(m, "nack") \in AirMsg
        /\ Feedback(m, "nack").proc = m.proc /\ Feedback(m, "nack").tb = m.tb
        /\ AirOK' /\ InfoOK' /\ OneFeedback' /\ RetxBufferHoldsTb'
    BY <1>4, <2>1
  <2>3. TypeOK'
    <3>1. hist' \in [Proc -> Seq(1..MaxTb)]
      <4>1. hist[m.proc] \in Seq(1..MaxTb)
        BY <1>1 DEF IInv, TypeInv, TypeOK
      <4>2. Append(hist[m.proc], m.tb) \in Seq(1..MaxTb) /\ <<>> \in Seq(1..MaxTb)
        BY <1>1, <4>1
      <4>3. PICK h \in Seq(1..MaxTb) : hist' = [hist EXCEPT ![m.proc] = h]
        <5>1. CASE m.rv = 3
          BY <1>6, <4>2, <5>1 DEF EndRxDataCorrupted
        <5>2. CASE m.rv # 3
          BY <1>6, <4>2, <5>2 DEF EndRxDataCorrupted
        <5> QED BY <5>1, <5>2
      <4> QED BY <4>3 DEF IInv, TypeInv, TypeOK
    <3> QED BY <1>2, <2>1, <2>2, <3>1 DEF IInv, TypeInv, TypeOK
  <2>4. DecodedOK'
    BY <1>2, <2>1, <2>2 DEF IInv, DecodedOK
  <2> QED BY <1>3, <2>2, <2>3, <2>4 DEF IInv, TypeInv
<1>7. CASE TbUnreceived(m)
  <2>1. air' = air \ {m} /\ UNCHANGED <<dlInfo, buf, hist, decoded>>
    BY <1>7 DEF TbUnreceived
  <2>2. TypeOK'
    BY <1>2, <2>1 DEF IInv, TypeInv, TypeOK
  <2>3. AirOK' /\ InfoOK' /\ OneFeedback'
    BY <1>2, <2>1 DEF IInv, AirOK, InfoOK, OneFeedback
  <2>4. DecodedOK' /\ RetxBufferHoldsTb'
    BY <1>2, <2>1 DEF IInv, DecodedOK, RetxBufferHoldsTb, Active
  <2> QED BY <1>3, <2>2, <2>3, <2>4 DEF IInv, TypeInv
<1>8. CASE DlHarqFeedback(m)
  <2> DEFINE g == [proc |-> m.proc, tb |-> m.tb, ack |-> m.st = "ack"]
  <2>1. /\ m.st \in {"ack", "nack"}
        /\ air' = air \ {m}
        /\ dlInfo' = dlInfo \cup {g}
        /\ buf' = [buf EXCEPT ![m.proc] = IF m.st = "ack" THEN 0 ELSE @]
        /\ UNCHANGED <<hist, decoded>>
    BY <1>8 DEF DlHarqFeedback
  <2>2. g \in DlInfo /\ g.proc = m.proc /\ g.tb = m.tb /\ g.ack = (m.st = "ack")
    BY <1>1 DEF DlInfo
  <2> HIDE DEF g
  <2>3. TypeOK'
    <3>1. buf' \in [Proc -> 0..MaxTb]
      <4>1. PICK b \in 0..MaxTb : buf' = [buf EXCEPT ![m.proc] = b]
        <5>1. buf[m.proc] \in 0..MaxTb /\ 0 \in 0..MaxTb
          BY <1>1, MaxTbAssumption DEF IInv, TypeInv, TypeOK
        <5>2. CASE m.st = "ack"
          BY <2>1, <5>1, <5>2
        <5>3. CASE m.st # "ack"
          BY <2>1, <5>1, <5>3
        <5> QED BY <5>2, <5>3
      <4> QED BY <4>1 DEF IInv, TypeInv, TypeOK
    <3> QED BY <1>2, <2>1, <2>2, <3>1 DEF IInv, TypeInv, TypeOK
  <2>4. AirOK'
    BY <1>2, <2>1 DEF IInv, AirOK
  <2>5. InfoOK'
    BY <1>2, <2>1, <2>2 DEF IInv, InfoOK, AirOK
  <2>6. OneFeedback'
    BY <1>2, <2>1, <2>2 DEF IInv, OneFeedback
  <2>7. DecodedOK'
    BY <1>2, <2>1, <2>2 DEF IInv, DecodedOK
  <2>8. RetxBufferHoldsTb'
    <3> SUFFICES ASSUME NEW p \in Proc, harq[p].active
                 PROVE  (\E f \in dlInfo' : f.proc = p /\ f.ack) \/ buf'[p] = harq[p].tb
      BY <1>2 DEF RetxBufferHoldsTb, Active
    <3>1. (\E f \in dlInfo : f.proc = p /\ f.ack) \/ buf[p] = harq[p].tb
      BY DEF IInv, RetxBufferHoldsTb, Active
    <3>2. CASE p = m.proc /\ m.st = "ack"
      BY <2>1, <2>2, <3>2
    <3>3. CASE ~(p = m.proc /\ m.st = "ack")
      <4>1. buf'[p] = buf[p]
        BY <2>1, <3>3 DEF IInv, TypeInv, TypeOK
      <4> QED BY <2>1, <3>1, <4>1
    <3> QED BY <3>2, <3>3
  <2> QED BY <1>3, <2>3, <2>4, <2>5, <2>6, <2>7, <2>8 DEF IInv, TypeInv
<1> QED BY <1>5, <1>6, <1>7, <1>8 DEF Deliver

(***************************************************************************)
(* The theorems.                                                           *)
(***************************************************************************)
\* An empty cell: every process inactive, nothing in flight.
LEMMA InitIInv == Init => IInv
<1> SUFFICES ASSUME Init PROVE IInv
  OBVIOUS
<1>1. TypeInv
  BY NumAssumption, MaxTbAssumption, MaxHarqReTxValue
     DEF Init, TypeInv, TypeOK, StatusOK, InactiveProcess, Process, Status
<1>2. AirOK /\ InfoOK /\ RetxOK /\ OneFeedback /\ DecodedOK /\ RetxBufferHoldsTb
  BY DEF Init, AirOK, InfoOK, RetxOK, OneFeedback, DecodedOK, RetxBufferHoldsTb,
         Active, InactiveProcess
<1>3. UsedSizeIsExact
  <2>1. Active = {}
    BY DEF Init, Active, InactiveProcess
  <2>2. \A u \in UEs : {i \in HarqIds : <<u, i>> \in Active} = {}
    BY <2>1
  <2> QED BY <2>2, FS_EmptySet DEF Init, UsedSizeIsExact, Count
<1> QED BY <1>1, <1>2, <1>3 DEF IInv

\* No handler of the loop breaks the invariant.
LEMMA NextIInv ==
  ASSUME MaxRtt <= NumHarqProcess + 1, IInv, [Next]_vars
  PROVE  IInv'
<1>1. CASE DlTrigger
  BY <1>1, TriggerStep
<1>2. CASE \E m \in air : Deliver(m)
  BY <1>2, DeliverStep
<1>3. CASE UNCHANGED vars
  BY <1>3 DEF vars, IInv, TypeInv, TypeOK, StatusOK, AirOK, InfoOK, RetxOK, OneFeedback,
              DecodedOK, RetxBufferHoldsTb, UsedSizeIsExact, Active
<1> QED BY <1>1, <1>2, <1>3 DEF Next

\* Every reachable state satisfies the strengthened invariant.
THEOREM Invariance == ASSUME MaxRtt <= NumHarqProcess + 1
                      PROVE  Spec => []IInv
<1>1. Init => IInv
  BY InitIInv
<1>2. IInv /\ [Next]_vars => IInv'
  BY NextIInv
<1> QED BY <1>1, <1>2, PTL DEF Spec

\* The variables of the loop keep their types; the redundancy version, the
\* timer and m_usedSize stay within their bounds.
THEOREM TypeCorrect == ASSUME MaxRtt <= NumHarqProcess + 1
                       PROVE  Spec => []TypeOK
<1>1. IInv => TypeOK
  BY DEF IInv, TypeInv
<1> QED BY <1>1, Invariance, PTL

\* No DCI ever meets the feedback of another one on the same HARQ process.
THEOREM FeedbackSafe == ASSUME MaxRtt <= NumHarqProcess + 1
                        PROVE  Spec => []FeedbackMatchesProcess
<1>1. IInv => FeedbackMatchesProcess
  BY DEF IInv, AirOK, InfoOK, RetxOK, FeedbackMatchesProcess
<1> QED BY <1>1, Invariance, PTL

\* What the scheduler may ask to retransmit is what the MAC has buffered.
THEOREM BufferSafe == ASSUME MaxRtt <= NumHarqProcess + 1
                      PROVE  Spec => []RetxBufferHoldsTb
<1>1. IInv => RetxBufferHoldsTb
  BY DEF IInv
<1> QED BY <1>1, Invariance, PTL

\* A TB the UE has decoded is not on the air again.
THEOREM NoUselessRetx == ASSUME MaxRtt <= NumHarqProcess + 1
                         PROVE  Spec => []NoRetxOfDecodedTb
<1>1. IInv => NoRetxOfDecodedTb
  BY DEF IInv, DecodedOK, NoRetxOfDecodedTb
<1> QED BY <1>1, Invariance, PTL

\* m_usedSize counts the active processes: Insert and Erase never abort.
THEOREM UsedSizeCorrect == ASSUME MaxRtt <= NumHarqProcess + 1
                           PROVE  Spec => []UsedSizeIsExact
<1>1. IInv => UsedSizeIsExact
  BY DEF IInv
<1> QED BY <1>1, Invariance, PTL

(***************************************************************************)
(* The loop implements the abstract service.                               *)
(***************************************************************************)
\* DoSchedDlTriggerReq starts, retries, stops or keeps each process.
LEMMA TriggerRefines ==
  ASSUME MaxRtt <= NumHarqProcess + 1, IInv, DlTrigger
  PROVE  Service!Schedule
<1> DEFINE Step(fb, retx, fresh) == harq' = ScheduledHarq(fb, retx, fresh)
           Granted(h) == [tb |-> h.tb, sent |-> IF h.active THEN h.rv + 1 ELSE 0]
           Acts(p) == \/ Granted(harq'[p]) = [tb |-> harq[p].tb + 1, sent |-> 1]
                      \/ /\ harq[p].active /\ harq'[p].active
                         /\ harq[p].rv + 1 \in 1..(MaxHarqReTx(p[1]) + 1 - 1)
                         /\ <<p, harq[p].tb>> \notin decoded
                         /\ harq'[p].tb = harq[p].tb /\ harq'[p].rv = harq[p].rv + 1
                      \/ Granted(harq'[p]) = [tb |-> harq[p].tb, sent |-> 0]
                      \/ Granted(harq'[p]) = Granted(harq[p])
<1>1. PICK fb \in FirstFeedbacks :
        \E retx \in Retransmittable(fb) : \E fresh \in Insertable(fb, retx) : Step(fb, retx, fresh)
  BY DEF DlTrigger
<1>2. PICK retx \in Retransmittable(fb) : \E fresh \in Insertable(fb, retx) : Step(fb, retx, fresh)
  BY <1>1
<1>3. PICK fresh \in Insertable(fb, retx) : Step(fb, retx, fresh)
  BY <1>2
<1>4. ASSUME NEW p \in Proc
      PROVE  Acts(p)
  <2>1. CASE p \in fresh
    <3>1. harq'[p] = NewProcess(harq[p].tb + 1)
      BY <1>3, <2>1, ScheduledProcess
    <3> QED BY <3>1 DEF NewProcess
  <2>2. CASE p \notin fresh /\ p \in Released(fb)
    <3>1. harq'[p] = InactiveProcess(harq[p].tb)
      BY <1>3, <2>2, ScheduledProcess
    <3> QED BY <3>1 DEF InactiveProcess
  <2>3. CASE p \in Nacked(fb)
    <3>1. harq'[p] = Tried(p, p \in retx)
      BY <1>3, ScheduledProcess, <2>3
    <3>2. p \in Heard /\ ~fb[p].ack /\ harq[p].rv \in Nat /\ harq[p].rv < MaxHarqReTx(p[1])
      BY <2>3, NackedProcess
    <3>3. harq[p].active /\ <<p, harq[p].tb>> \notin decoded
      BY <3>2, HeardFeedback
    <3>4. CASE p \in retx
      <4>1. harq'[p].active /\ harq'[p].tb = harq[p].tb /\ harq'[p].rv = harq[p].rv + 1
        BY <2>3, <3>1, <3>4, TriedProcess
      <4>2. MaxHarqReTx(p[1]) \in {0, 3}
        BY MaxHarqReTxValue
      <4>3. harq[p].rv + 1 \in 1..(MaxHarqReTx(p[1]) + 1 - 1)
        BY <3>2, <4>2
      <4> QED BY <3>3, <4>1, <4>3
    <3>5. CASE p \notin retx
      <4>1. (p \in retx) = FALSE
        BY <3>5
      <4>2. harq'[p].active /\ harq'[p].tb = harq[p].tb /\ harq'[p].rv = harq[p].rv
        BY <2>3, <3>1, <4>1, TriedProcess, ZenonT(30)
      <4> QED BY <3>3, <4>2
    <3> QED BY <3>4, <3>5
  <2>4. CASE p \notin fresh /\ p \notin Heard
    <3>1. harq'[p] = Aged[p]
      BY <1>3, <2>4, ScheduledProcess
    <3>2. Aged[p].tb = harq[p].tb
            /\ (Aged[p].active => harq[p].active /\ Aged[p].rv = harq[p].rv)
            /\ Aged[p].active \in BOOLEAN
      BY AgedType DEF IInv, TypeInv, Process
    <3> QED BY <3>1, <3>2
  <2> QED BY <2>1, <2>2, <2>3, <2>4 DEF Nacked
<1>5. decoded' = decoded
  BY DEF DlTrigger
<1>6. ASSUME NEW p \in Proc
      PROVE  Service!Start(p) \/ Service!Retry(p) \/ Service!Stop(p) \/ Service!Keep(p)
  <2>1. CASE Granted(harq'[p]) = [tb |-> harq[p].tb + 1, sent |-> 1]
    BY <2>1 DEF Service!Start
  <2>2. CASE /\ harq[p].active /\ harq'[p].active
             /\ harq[p].rv + 1 \in 1..(MaxHarqReTx(p[1]) + 1 - 1)
             /\ <<p, harq[p].tb>> \notin decoded
             /\ harq'[p].tb = harq[p].tb /\ harq'[p].rv = harq[p].rv + 1
    <3>1. harq[p].rv \in Int /\ MaxHarqReTx(p[1]) \in Int
      <4>1. harq[p] \in Process
        BY DEF IInv, TypeInv, TypeOK
      <4>2. MaxHarqReTx(p[1]) \in {0, 3}
        BY MaxHarqReTxValue
      <4> QED BY <4>1, <4>2 DEF Process
    <3> SUFFICES Service!Retry(p)
      OBVIOUS
    <3> QED BY <2>2, <3>1, SMTT(60) DEF Service!Retry
  <2>3. CASE Granted(harq'[p]) = [tb |-> harq[p].tb, sent |-> 0]
    BY <2>3 DEF Service!Stop
  <2>4. CASE Granted(harq'[p]) = Granted(harq[p])
    BY <2>4 DEF Service!Keep
  <2> QED BY <1>4, <2>1, <2>2, <2>3, <2>4
<1> QED BY <1>5, <1>6 DEF Service!Schedule

\* Of the other handlers only a decoding shows: the TB is received once.
LEMMA DeliverRefines ==
  ASSUME IInv, NEW m \in air, Deliver(m)
  PROVE  Service!Receive \/ UNCHANGED Service!avars
<1>1. m.proc \in Proc /\ harq' = harq
  BY DEF IInv, TypeInv, TypeOK, AirMsg, Deliver, EndRxDataOk, EndRxDataCorrupted,
         TbUnreceived, DlHarqFeedback
<1>2. CASE EndRxDataOk(m)
  <2>1. decoded' = decoded \cup {<<m.proc, m.tb>>} /\ m.st = "data"
    BY <1>2 DEF EndRxDataOk
  <2>2. harq[m.proc].active /\ harq[m.proc].tb = m.tb /\ <<m.proc, m.tb>> \notin decoded
    BY <2>1 DEF IInv, AirOK, DecodedOK
  <2>3. harq[m.proc] \in Process
    BY <1>1 DEF IInv, TypeInv, TypeOK
  <2>4. harq[m.proc].rv + 1 > 0
    BY <2>3 DEF Process
  <2> QED BY <1>1, <2>1, <2>2, <2>4 DEF Service!Receive
<1>3. CASE ~EndRxDataOk(m)
  <2>1. decoded' = decoded
    BY <1>3 DEF Deliver, EndRxDataCorrupted, TbUnreceived, DlHarqFeedback
  <2> QED BY <1>1, <2>1 DEF Service!avars
<1> QED BY <1>2, <1>3

\* Every run of the loop is a run of the stop-and-wait service.
THEOREM Refinement == ASSUME MaxRtt <= NumHarqProcess + 1
                      PROVE  Spec => ImplementsService
<1>1. Init => Service!Init
  BY DEF Init, Service!Init, InactiveProcess
<1>2. IInv /\ [Next]_vars => [Service!Next]_(Service!avars)
  <2> SUFFICES ASSUME IInv, [Next]_vars PROVE [Service!Next]_(Service!avars)
    OBVIOUS
  <2>1. CASE DlTrigger
    BY <2>1, TriggerRefines DEF Service!Next
  <2>2. CASE \E m \in air : Deliver(m)
    BY <2>2, DeliverRefines DEF Service!Next
  <2>3. CASE UNCHANGED vars
    BY <2>3 DEF vars, Service!avars
  <2> QED BY <2>1, <2>2, <2>3 DEF Next
<1> QED BY <1>1, <1>2, Invariance, PTL DEF Spec, ImplementsService, Service!Spec

(***************************************************************************)
(* One DCI per UE and slot                                                 *)
(***************************************************************************)
\* What a trigger grants has age 0, and goes to different UEs; what was in
\* the air before is older.
LEMMA TriggerOneDci ==
  ASSUME MaxRtt <= NumHarqProcess + 1, IInv, OneDciPerUeAndSlot, DlTrigger
  PROVE  OneDciPerUeAndSlot'
<1>0. PICK fb \in FirstFeedbacks :
        \E retx \in Retransmittable(fb) : \E fresh \in Insertable(fb, retx) :
           air' = {[m EXCEPT !.age = @ + 1] : m \in air} \cup SentTbs(retx, fresh)
  BY DEF DlTrigger
<1>1. PICK retx \in Retransmittable(fb) : \E fresh \in Insertable(fb, retx) :
           air' = {[m EXCEPT !.age = @ + 1] : m \in air} \cup SentTbs(retx, fresh)
  BY <1>0
<1>2. PICK fresh \in Insertable(fb, retx) :
           air' = {[m EXCEPT !.age = @ + 1] : m \in air} \cup SentTbs(retx, fresh)
  BY <1>1
<1>3. \A p, q \in fresh \cup retx : p[1] = q[1] => p = q
  BY DEF Insertable, OnePerUe
<1>4. ASSUME NEW n \in air'
      PROVE  \/ \E m \in air : n = [m EXCEPT !.age = @ + 1] /\ n.proc = m.proc
                                 /\ n.age = m.age + 1 /\ n.age # 0
             \/ n.proc \in fresh \cup retx /\ n.age = 0
  <2>1. CASE n \in {[m EXCEPT !.age = @ + 1] : m \in air}
    <3>1. PICK m \in air : n = [m EXCEPT !.age = @ + 1]
      BY <2>1
    <3>2. m \in AirMsg /\ m.age \in Nat
      BY RttAssumption DEF IInv, TypeInv, TypeOK, AirMsg
    <3>3. n.proc = m.proc /\ n.age = m.age + 1
      BY <3>1, <3>2 DEF AirMsg
    <3> QED BY <3>1, <3>2, <3>3
  <2>2. CASE n \in SentTbs(retx, fresh)
    BY <2>2 DEF SentTbs, Transmission
  <2> QED BY <1>2, <2>1, <2>2
<1>5. (OneFeedback)'
  BY TriggerStep DEF IInv
<1> SUFFICES ASSUME NEW m \in air', NEW n \in air', m.proc[1] = n.proc[1], m.age = n.age
             PROVE  m = n
  BY DEF OneDciPerUeAndSlot
<1>6. CASE m.age = 0
  <2>1. m.proc \in fresh \cup retx /\ n.proc \in fresh \cup retx
    BY <1>4, <1>6
  <2>2. m.proc = n.proc
    BY <1>3, <2>1
  <2> QED BY <1>5, <2>2 DEF OneFeedback
<1>7. CASE m.age # 0
  <2>1. PICK k \in air : m = [k EXCEPT !.age = @ + 1] /\ m.proc = k.proc /\ m.age = k.age + 1
    BY <1>4, <1>7
  <2>2. PICK l \in air : n = [l EXCEPT !.age = @ + 1] /\ n.proc = l.proc /\ n.age = l.age + 1
    BY <1>4, <1>7
  <2>3. k.age \in Int /\ l.age \in Int
    BY DEF IInv, TypeInv, TypeOK, AirMsg
  <2>4. k = l
    BY <2>1, <2>2, <2>3 DEF OneDciPerUeAndSlot
  <2> QED BY <2>1, <2>2, <2>4
<1> QED BY <1>6, <1>7

\* A decoding or a report changes neither process nor age of what is in the air.
LEMMA DeliverOneDci ==
  ASSUME IInv, OneDciPerUeAndSlot, NEW m \in air, Deliver(m)
  PROVE  OneDciPerUeAndSlot'
<1>1. m \in AirMsg
  BY DEF IInv, TypeInv, TypeOK
<1>2. ASSUME NEW o, air' = (air \ {m}) \cup {Feedback(m, o)}
      PROVE  OneDciPerUeAndSlot'
  <2> DEFINE k == Feedback(m, o)
  <2>1. k.proc = m.proc /\ k.age = m.age
    BY <1>1 DEF Feedback, AirMsg
  <2> HIDE DEF k
  <2>2. air' = (air \ {m}) \cup {k}
    BY <1>2 DEF k
  <2> QED BY <2>1, <2>2 DEF OneDciPerUeAndSlot
<1>3. CASE air' = air \ {m}
  BY <1>3 DEF OneDciPerUeAndSlot
<1> QED BY <1>2, <1>3 DEF Deliver, EndRxDataOk, EndRxDataCorrupted, TbUnreceived, DlHarqFeedback

\* A UE never gets two DCIs in one slot, whatever was buffered, NACKed or new.
THEOREM OneDci == ASSUME MaxRtt <= NumHarqProcess + 1
                  PROVE  Spec => []OneDciPerUeAndSlot
<1>1. Init => OneDciPerUeAndSlot
  BY DEF Init, OneDciPerUeAndSlot
<1>2. IInv /\ OneDciPerUeAndSlot /\ [Next]_vars => OneDciPerUeAndSlot'
  BY TriggerOneDci, DeliverOneDci DEF Next, vars, OneDciPerUeAndSlot
<1> QED BY <1>1, <1>2, Invariance, PTL DEF Spec

(***************************************************************************)
(* Soft combining, with retransmissions enabled for every UE.              *)
(***************************************************************************)
Clean == {p \in Proc : p[2] \in CleanIds}

\* The history of n receptions of TB tb.
Versions(tb, n) == [k \in 1..n |-> tb]

\* The history once the version sent last was corrupted: EndRxData empties it
\* after the last version.
AfterNack(p) == IF harq[p].rv = 3 THEN <<>> ELSE Versions(harq[p].tb, harq[p].rv + 1)

CleanAir == \A m \in air : m.proc \in Clean =>
  /\ m.age + 1 < MaxRtt
  /\ m.st = "data" => hist[m.proc] = Versions(m.tb, m.rv)
  /\ m.st = "ack"  => hist[m.proc] = <<>>
  /\ m.st = "nack" => hist[m.proc] = AfterNack(m.proc)

CleanInfo == \A f \in dlInfo : f.proc \in Clean =>
  /\ harq[f.proc].timer + 1 < MaxRtt
  /\ hist[f.proc] = IF f.ack THEN <<>> ELSE AfterNack(f.proc)

CleanRetx == \A f \in toRetx : f.proc \in Clean =>
  /\ harq[f.proc].timer = 0
  /\ hist[f.proc] = AfterNack(f.proc)

\* A clean process that is busy waits for something that will come; a free one
\* has left no history.
CleanIdle == \A p \in Clean :
  IF harq[p].active THEN \E x \in air \cup dlInfo \cup toRetx : x.proc = p
                    ELSE hist[p] = <<>>

Combining == CleanAir /\ CleanInfo /\ CleanRetx /\ CleanIdle

\* No version leaves no history, and each reception adds one.
LEMMA VersionsGrow ==
  ASSUME NEW tb, NEW n \in Nat
  PROVE  /\ Versions(tb, 0) = <<>>
         /\ Append(Versions(tb, n), tb) = Versions(tb, n + 1)
<1> DEFINE v(k) == [i \in 1..k |-> tb]
<1>1. ASSUME NEW k \in Nat
      PROVE  v(k) \in Seq({tb}) /\ Len(v(k)) = k
  OBVIOUS
<1>2. v(0) = <<>>
  <2>1. v(0) \in Seq({tb}) /\ Len(v(0)) = 0
    BY <1>1
  <2> HIDE DEF v
  <2> QED BY <2>1, EmptySeq
<1>3. Append(v(n), tb) = v(n + 1)
  <2>1. v(n) \in Seq({tb}) /\ Len(v(n)) = n /\ v(n + 1) \in Seq({tb})
          /\ Len(v(n + 1)) = n + 1
    BY <1>1
  <2>2. \A i \in 1..n : v(n)[i] = tb
    OBVIOUS
  <2>3. \A i \in 1..(n + 1) : v(n + 1)[i] = tb
    OBVIOUS
  <2> HIDE DEF v
  <2>4. /\ Append(v(n), tb) \in Seq({tb})
        /\ Len(Append(v(n), tb)) = n + 1
        /\ \A i \in 1..(n + 1) : Append(v(n), tb)[i] = tb
    BY <2>1, <2>2, AppendProperties
  <2> QED BY <2>1, <2>3, <2>4, SeqEqual
<1> QED BY <1>2, <1>3 DEF Versions

\* The timer never takes a clean process away: it is heard first, or its answer
\* is still in the air.
LEMMA CleanSurvives ==
  ASSUME MaxRtt <= NumHarqProcess + 1, IInv, Combining, DlTrigger,
         NEW p \in Clean, harq[p].active
  PROVE  /\ Aged[p].active
         /\ p \in Heard \/ \E m \in air : m.proc = p
<1>1. PICK x \in air \cup dlInfo \cup toRetx : x.proc = p
  BY DEF Combining, CleanIdle
<1>2. p \in Proc /\ harq[p] \in Process /\ \A m \in air : m.age + 1 < MaxRtt
  BY DEF Clean, DlTrigger, IInv, TypeInv, TypeOK
<1>3. CASE x \in air
  BY <1>1, <1>2, <1>3, AirSurvives
<1>4. CASE x \in dlInfo \cup toRetx
  <2>1. harq[p].timer < NumHarqProcess /\ harq[p].timer \in Int
    BY <1>1, <1>2, <1>4, NumAssumption, RttAssumption
       DEF Combining, CleanInfo, CleanRetx, Process
  <2>2. p \notin Expired
    BY <2>1, NumAssumption DEF Expired
  <2>3. Aged[p].active
    BY <1>2, <2>2, AgedType DEF IInv, TypeInv
  <2> QED BY <1>1, <1>2, <1>4, <2>3 DEF Heard, Known
<1> QED BY <1>3, <1>4

\* What the history holds when the scheduler reads a feedback.
LEMMA HeardHistory ==
  ASSUME IInv, Combining, NEW fb \in FirstFeedbacks, NEW p \in Clean, p \in Heard
  PROVE  hist[p] = IF fb[p].ack THEN <<>> ELSE AfterNack(p)
<1>1. fb[p] \in Known /\ fb[p].proc = p
  BY HeardFeedback
<1>2. fb[p] \in toRetx => fb[p].ack = FALSE
  BY DEF IInv, TypeInv, TypeOK
<1> QED BY <1>1, <1>2 DEF Known, Combining, CleanInfo, CleanRetx

\* A clean process with room for new data has no history.
LEMMA FreedHistory ==
  ASSUME MaxRtt <= NumHarqProcess + 1, \A u \in UEs : MaxHarqReTx(u) = 3,
         IInv, Combining, DlTrigger,
         NEW fb \in FirstFeedbacks, NEW p \in Clean, p \notin Occupied(fb)
  PROVE  hist[p] = <<>>
<1>1. p \in Proc /\ MaxHarqReTx(p[1]) = 3
  BY DEF Clean, Proc
<1>2. CASE ~harq[p].active
  BY <1>2 DEF Combining, CleanIdle
<1>3. CASE harq[p].active
  <2>1. Aged[p].active
    BY <1>3, CleanSurvives
  <2>2. p \in Released(fb) /\ p \in Heard
    BY <1>1, <2>1 DEF Occupied, Released
  <2>3. Aged[p].rv = harq[p].rv
    BY <1>1, <2>1, AgedType DEF IInv, TypeInv
  <2>4. fb[p].ack \/ harq[p].rv = 3
    BY <1>1, <2>2, <2>3 DEF Released
  <2> QED BY <2>2, <2>4, HeardHistory DEF AfterNack
<1> QED BY <1>2, <1>3

\* One run of the scheduler: what it grants meets the history it needs.
LEMMA TriggerCombining ==
  ASSUME MaxRtt <= NumHarqProcess + 1, \A u \in UEs : MaxHarqReTx(u) = 3,
         IInv, Combining, DlTrigger
  PROVE  Combining'
<1> DEFINE Step(fb, retx, fresh) ==
          /\ harq' = ScheduledHarq(fb, retx, fresh)
          /\ toRetx' = {fb[p] : p \in Nacked(fb) \ retx}
          /\ air' = {[m EXCEPT !.age = @ + 1] : m \in air} \cup SentTbs(retx, fresh)
<1>0. PICK fb \in FirstFeedbacks :
        \E retx \in Retransmittable(fb) : \E fresh \in Insertable(fb, retx) : Step(fb, retx, fresh)
  BY DEF DlTrigger
<1>1. PICK retx \in Retransmittable(fb) :
        \E fresh \in Insertable(fb, retx) : Step(fb, retx, fresh)
  BY <1>0
<1>2. PICK fresh \in Insertable(fb, retx) : Step(fb, retx, fresh)
  BY <1>1
<1>3. /\ dlInfo' = {} /\ hist' = hist
      /\ \A m \in air : m.age + 1 < MaxRtt
      /\ \A m \in air : m.proc \in Clean => m.age + 2 < MaxRtt
  BY DEF DlTrigger, Clean
<1>4. /\ fresh \subseteq Proc /\ fresh \cap Occupied(fb) = {}
      /\ retx \subseteq Nacked(fb) /\ Nacked(fb) \subseteq Heard /\ Heard \subseteq Proc
  BY DEF Insertable, Retransmittable, Nacked, Heard
<1>5. \A p \in retx : buf[p] = harq[p].tb /\ buf[p] # 0
  <2> SUFFICES ASSUME NEW p \in retx PROVE buf[p] = harq[p].tb /\ buf[p] # 0
    OBVIOUS
  <2>1. p \in Heard /\ p \in Proc /\ buf[p] = harq[p].tb
    BY <1>4, NackedProcess
  <2>2. harq[p].active
    BY <2>1, HeardFeedback
  <2> QED BY <2>1, <2>2 DEF IInv, TypeInv, StatusOK
<1>6. \A n \in air' :
        \/ \E m \in air : n = [m EXCEPT !.age = @ + 1]
        \/ \E p \in fresh : n = Transmission(p, harq[p].tb + 1, 0)
        \/ \E p \in retx : n = Transmission(p, harq[p].tb, harq[p].rv + 1)
  BY <1>2, <1>5 DEF SentTbs
\* A NACKed process keeps its TB; it keeps its history with it.
<1>7. ASSUME NEW p \in Nacked(fb)
      PROVE  /\ p \in Heard /\ p \in Proc /\ ~fb[p].ack /\ fb[p].proc = p
             /\ harq[p].rv \in 0..2
             /\ harq'[p].tb = harq[p].tb
             /\ harq'[p].timer = 0
             /\ p \notin retx => harq'[p].rv = harq[p].rv
             /\ p \in Clean => hist[p] = Versions(harq[p].tb, harq[p].rv + 1)
  <2>1. p \in Heard /\ p \in Proc /\ ~fb[p].ack /\ harq[p].rv \in Nat
          /\ harq[p].rv < MaxHarqReTx(p[1])
    BY <1>4, NackedProcess
  <2>2. fb[p].proc = p
    BY <2>1, HeardFeedback
  <2>3. harq[p].rv \in 0..2
    <3>1. MaxHarqReTx(p[1]) = 3
      BY <2>1 DEF Proc
    <3> QED BY <2>1, <3>1
  <2>4. harq'[p] = Tried(p, p \in retx) /\ (p \in retx) \in BOOLEAN
    BY <1>2, <2>1, ScheduledProcess
  <2>5. harq'[p].tb = harq[p].tb /\ harq'[p].timer = 0
          /\ (p \notin retx => harq'[p].rv = harq[p].rv)
    BY <2>4, TriedProcess, ZenonT(30)
  <2>6. p \in Clean => hist[p] = Versions(harq[p].tb, harq[p].rv + 1)
    BY <2>1, <2>3, HeardHistory DEF AfterNack
  <2> QED BY <2>1, <2>2, <2>3, <2>5, <2>6
\* A process in the air only ages.
<1>8. ASSUME NEW m \in air
      PROVE  /\ m \in AirMsg /\ harq[m.proc].rv = m.rv /\ harq[m.proc].tb = m.tb
             /\ harq'[m.proc].tb = harq[m.proc].tb /\ harq'[m.proc].rv = harq[m.proc].rv
  <2>1. m \in AirMsg /\ harq[m.proc].rv = m.rv /\ harq[m.proc].tb = m.tb
    BY DEF IInv, TypeInv, TypeOK, AirOK
  <2>2. m.proc \in Proc /\ m.proc \notin Heard /\ Aged[m.proc].active
    BY <1>3, AirSurvives
  <2>3. m.proc \notin fresh
    BY <1>4, <2>2 DEF Occupied, Released
  <2>4. harq'[m.proc] = Aged[m.proc]
    BY <1>2, <2>2, <2>3, ScheduledProcess
  <2>5. Aged[m.proc].tb = harq[m.proc].tb /\ Aged[m.proc].rv = harq[m.proc].rv
    BY <2>2, AgedType DEF IInv, TypeInv
  <2> QED BY <2>1, <2>4, <2>5
<1>9. CleanAir'
  <2> SUFFICES ASSUME NEW n \in air', n.proc \in Clean
               PROVE  /\ n.age + 1 < MaxRtt
                      /\ n.st = "data" => hist[n.proc] = Versions(n.tb, n.rv)
                      /\ n.st = "ack"  => hist[n.proc] = <<>>
                      /\ n.st = "nack" => hist[n.proc] = AfterNack(n.proc)'
    BY <1>3 DEF CleanAir, Clean
  <2>0. MaxRtt > 1 /\ MaxRtt \in Nat
    BY CleanAssumption, RttAssumption DEF Clean
  <2>1. CASE \E m \in air : n = [m EXCEPT !.age = @ + 1]
    <3>1. PICK m \in air : n = [m EXCEPT !.age = @ + 1]
      BY <2>1
    <3>2. m \in AirMsg
      BY <1>8
    <3>3. n.proc = m.proc /\ n.tb = m.tb /\ n.rv = m.rv /\ n.st = m.st
            /\ n.age = m.age + 1 /\ m.age \in Int
      BY <3>1, <3>2 DEF AirMsg
    <3>4. AfterNack(m.proc)' = AfterNack(m.proc)
      BY <1>8 DEF AfterNack
    <3>5. m.age + 2 < MaxRtt
      BY <1>3, <3>3
    <3>6. n.age + 1 < MaxRtt
      BY <2>0, <3>3, <3>5
    <3> QED BY <3>3, <3>4, <3>6 DEF Combining, CleanAir
  <2>2. CASE \E p \in fresh : n = Transmission(p, harq[p].tb + 1, 0)
    <3>1. PICK p \in fresh : n = Transmission(p, harq[p].tb + 1, 0)
      BY <2>2
    <3>2. n.proc = p /\ n.st = "data" /\ n.tb = harq[p].tb + 1 /\ n.rv = 0 /\ n.age = 0
      BY <3>1 DEF Transmission
    <3>3. hist[p] = <<>>
      BY <1>4, <3>2, FreedHistory
    <3>4. Versions(n.tb, 0) = <<>>
      BY VersionsGrow
    <3> QED BY <2>0, <3>2, <3>3, <3>4
  <2>3. CASE \E p \in retx : n = Transmission(p, harq[p].tb, harq[p].rv + 1)
    <3>1. PICK p \in retx : n = Transmission(p, harq[p].tb, harq[p].rv + 1)
      BY <2>3
    <3>2. n.proc = p /\ n.st = "data" /\ n.tb = harq[p].tb /\ n.rv = harq[p].rv + 1 /\ n.age = 0
      BY <3>1 DEF Transmission
    <3>3. hist[p] = Versions(harq[p].tb, harq[p].rv + 1)
      BY <1>4, <1>7, <3>2
    <3> QED BY <2>0, <3>2, <3>3
  <2> QED BY <1>6, <2>1, <2>2, <2>3
<1>10. CleanInfo'
  BY <1>3 DEF CleanInfo
<1>11. CleanRetx'
  <2> SUFFICES ASSUME NEW f \in toRetx', f.proc \in Clean
               PROVE  harq'[f.proc].timer = 0 /\ hist[f.proc] = AfterNack(f.proc)'
    BY <1>3 DEF CleanRetx, Clean
  <2>1. PICK p \in Nacked(fb) \ retx : f = fb[p]
    BY <1>2
  <2>2. f.proc = p /\ harq'[p].timer = 0 /\ harq'[p].tb = harq[p].tb
          /\ harq'[p].rv = harq[p].rv /\ harq[p].rv \in 0..2
          /\ hist[p] = Versions(harq[p].tb, harq[p].rv + 1)
    BY <1>7, <2>1
  <2> QED BY <2>2 DEF AfterNack
<1>12. CleanIdle'
  <2> SUFFICES ASSUME NEW p \in Clean
               PROVE  IF harq'[p].active
                      THEN \E x \in air' \cup toRetx' : x.proc = p
                      ELSE hist[p] = <<>>
    BY <1>3 DEF CleanIdle, Clean
  <2>0. p \in Proc
    BY DEF Clean
  <2>1. harq'[p].active <=> (p \in Occupied(fb) \cup fresh)
    BY <1>2, <2>0, ScheduledType
  <2>2. CASE ~harq'[p].active
    BY <2>1, <2>2, FreedHistory
  <2>3. CASE p \in fresh
    <3>1. Transmission(p, harq[p].tb + 1, 0) \in air'
      BY <1>2, <2>3 DEF SentTbs
    <3>2. harq'[p].active
      BY <2>1, <2>3
    <3> QED BY <3>1, <3>2 DEF Transmission
  <2>4. CASE p \in Nacked(fb)
    <3>1. CASE p \in retx
      <4>1. Transmission(p, buf[p], harq[p].rv + 1) \in air'
        BY <1>2, <1>5, <3>1 DEF SentTbs
      <4> QED BY <2>2, <4>1 DEF Transmission
    <3>2. CASE p \notin retx
      <4>1. fb[p] \in toRetx' /\ fb[p].proc = p
        BY <1>2, <1>7, <2>4, <3>2
      <4> QED BY <2>2, <4>1
    <3> QED BY <3>1, <3>2
  <2>5. CASE p \in Occupied(fb) /\ p \notin Nacked(fb)
    <3>1. p \notin Heard /\ Aged[p].active
      BY <2>5 DEF Occupied, Nacked
    <3>2. harq[p].active
      BY <2>0, <3>1, AgedType DEF IInv, TypeInv
    <3>3. PICK m \in air : m.proc = p
      BY <3>1, <3>2, CleanSurvives
    <3>4. [m EXCEPT !.age = @ + 1] \in air' /\ [m EXCEPT !.age = @ + 1].proc = p
      BY <1>2, <1>8, <3>3 DEF AirMsg
    <3> QED BY <2>2, <3>4
  <2> QED BY <2>1, <2>2, <2>3, <2>4, <2>5
<1> QED BY <1>9, <1>10, <1>11, <1>12 DEF Combining

\* The UE's reception and the report: each keeps the history in step with what
\* its outcome will make the scheduler do.
LEMMA DeliverCombining ==
  ASSUME IInv, Combining, NEW m \in air, Deliver(m)
  PROVE  Combining'
<1>1. /\ m \in AirMsg /\ m.proc \in Proc /\ harq[m.proc].active
      /\ harq[m.proc].tb = m.tb /\ harq[m.proc].rv = m.rv /\ harq[m.proc].timer = m.age
  BY DEF IInv, TypeInv, TypeOK, AirMsg, AirOK
<1>2. harq' = harq /\ toRetx' = toRetx
  BY DEF Deliver, EndRxDataOk, EndRxDataCorrupted, TbUnreceived, DlHarqFeedback
<1>3. /\ \A n \in air : n # m => n.proc # m.proc
      /\ \A f \in dlInfo \cup toRetx : f.proc # m.proc
  BY DEF IInv, OneFeedback
<1>4. \A p : AfterNack(p)' = AfterNack(p)
  BY <1>2 DEF AfterNack
\* A decoding: feedback o of the same message, and history h of its process.
<1>5. ASSUME NEW o \in {"ack", "nack"}, NEW h,
             air' = (air \ {m}) \cup {Feedback(m, o)}, dlInfo' = dlInfo,
             hist' = [hist EXCEPT ![m.proc] = h],
             m.proc \in Clean => h = IF o = "ack" THEN <<>> ELSE AfterNack(m.proc)
      PROVE  Combining'
  <2> DEFINE k == Feedback(m, o)
  <2>1. k.proc = m.proc /\ k.st = o /\ k.age = m.age
    BY <1>1 DEF Feedback, AirMsg
  <2> HIDE DEF k
  <2>2. air' = (air \ {m}) \cup {k}
    BY <1>5 DEF k
  <2>3. /\ hist'[m.proc] = h
        /\ \A p \in Proc : p # m.proc => hist'[p] = hist[p]
    BY <1>1, <1>5 DEF IInv, TypeInv, TypeOK
  <2>4. CleanAir'
    <3> SUFFICES ASSUME NEW n \in air', n.proc \in Clean
                 PROVE  /\ n.age + 1 < MaxRtt
                        /\ n.st = "data" => hist'[n.proc] = Versions(n.tb, n.rv)
                        /\ n.st = "ack"  => hist'[n.proc] = <<>>
                        /\ n.st = "nack" => hist'[n.proc] = AfterNack(n.proc)
      BY <1>4 DEF CleanAir, Clean
    <3>1. CASE n = k
      BY <1>5, <2>1, <2>3, <3>1 DEF Combining, CleanAir
    <3>2. CASE n # k
      BY <1>3, <2>2, <2>3, <3>2 DEF Combining, CleanAir, Clean
    <3> QED BY <3>1, <3>2
  <2>5. CleanInfo' /\ CleanRetx'
    BY <1>2, <1>3, <1>4, <1>5, <2>3 DEF Combining, CleanInfo, CleanRetx, Clean
  <2>6. CleanIdle'
    <3> SUFFICES ASSUME NEW p \in Clean
                 PROVE  IF harq[p].active
                        THEN \E x \in air' \cup dlInfo \cup toRetx : x.proc = p
                        ELSE hist'[p] = <<>>
      BY <1>2, <1>5 DEF CleanIdle, Clean
    <3>1. CASE p = m.proc
      BY <1>1, <2>1, <2>2, <3>1
    <3>2. CASE p # m.proc
      BY <2>2, <2>3, <3>2 DEF Combining, CleanIdle, Clean
    <3> QED BY <3>1, <3>2
  <2> QED BY <2>4, <2>5, <2>6 DEF Combining
<1>6. CASE EndRxDataOk(m)
  <2>1. /\ air' = (air \ {m}) \cup {Feedback(m, "ack")} /\ dlInfo' = dlInfo
        /\ hist' = [hist EXCEPT ![m.proc] = <<>>]
    BY <1>6 DEF EndRxDataOk
  <2> QED BY <1>5, <2>1
<1>7. CASE EndRxDataCorrupted(m)
  <2> DEFINE h == IF m.rv = 3 THEN <<>> ELSE Append(hist[m.proc], m.tb)
  <2>1. /\ m.st = "data"
        /\ air' = (air \ {m}) \cup {Feedback(m, "nack")} /\ dlInfo' = dlInfo
        /\ hist' = [hist EXCEPT ![m.proc] = h]
    BY <1>7 DEF EndRxDataCorrupted
  <2>2. m.proc \in Clean => h = AfterNack(m.proc)
    <3> SUFFICES ASSUME m.proc \in Clean PROVE h = AfterNack(m.proc)
      OBVIOUS
    <3>1. hist[m.proc] = Versions(m.tb, m.rv) /\ m.rv \in Nat
      BY <1>1, <2>1 DEF Combining, CleanAir, AirMsg
    <3>2. Append(Versions(m.tb, m.rv), m.tb) = Versions(m.tb, m.rv + 1)
      BY <3>1, VersionsGrow
    <3> QED BY <1>1, <3>1, <3>2 DEF AfterNack
  <2> HIDE DEF h
  <2> QED BY <1>5, <2>1, <2>2
<1>8. CASE TbUnreceived(m)
  <2>1. air' = air \ {m} /\ dlInfo' = dlInfo /\ hist' = hist /\ m.proc \notin Clean
    BY <1>8 DEF TbUnreceived, Clean
  <2>2. CleanAir' /\ CleanInfo' /\ CleanRetx'
    BY <1>2, <1>4, <2>1 DEF Combining, CleanAir, CleanInfo, CleanRetx, Clean
  <2>3. CleanIdle'
    BY <1>2, <2>1 DEF Combining, CleanIdle, Clean
  <2> QED BY <2>2, <2>3 DEF Combining
<1>9. CASE DlHarqFeedback(m)
  <2> DEFINE g == [proc |-> m.proc, tb |-> m.tb, ack |-> m.st = "ack"]
  <2>1. /\ m.st \in {"ack", "nack"}
        /\ air' = air \ {m} /\ dlInfo' = dlInfo \cup {g} /\ hist' = hist
    BY <1>9 DEF DlHarqFeedback
  <2>2. g.proc = m.proc /\ (g.ack <=> m.st = "ack")
    OBVIOUS
  <2> HIDE DEF g
  <2>3. CleanAir' /\ CleanRetx'
    BY <1>2, <1>4, <2>1 DEF Combining, CleanAir, CleanRetx, Clean
  <2>4. CleanInfo'
    <3> SUFFICES ASSUME NEW f \in dlInfo', f.proc \in Clean
                 PROVE  /\ harq[f.proc].timer + 1 < MaxRtt
                        /\ hist[f.proc] = IF f.ack THEN <<>> ELSE AfterNack(f.proc)
      BY <1>2, <1>4, <2>1 DEF CleanInfo, Clean
    <3>1. CASE f = g
      BY <1>1, <2>1, <2>2, <3>1 DEF Combining, CleanAir
    <3>2. CASE f # g
      BY <2>1, <3>2 DEF Combining, CleanInfo
    <3> QED BY <3>1, <3>2
  <2>5. CleanIdle'
    BY <1>2, <2>1, <2>2 DEF Combining, CleanIdle, Clean
  <2> QED BY <2>3, <2>4, <2>5 DEF Combining
<1> QED BY <1>6, <1>7, <1>8, <1>9 DEF Deliver

\* A TB of a process that loses nothing and answers in time is combined with its
\* own earlier versions only, one per version sent, for every UE whose
\* retransmissions are enabled.  With them disabled it is not so (README).
THEOREM CombiningSafe ==
  ASSUME MaxRtt <= NumHarqProcess + 1, \A u \in UEs : MaxHarqReTx(u) = 3
  PROVE  Spec => []SoftCombiningOfOneTb
<1>1. Init => Combining
  BY DEF Init, Combining, CleanAir, CleanInfo, CleanRetx, CleanIdle, Clean, InactiveProcess
<1>2. IInv /\ Combining /\ [Next]_vars => Combining'
  <2> SUFFICES ASSUME IInv, Combining, [Next]_vars PROVE Combining'
    OBVIOUS
  <2>1. CASE DlTrigger
    BY <2>1, TriggerCombining
  <2>2. CASE \E m \in air : Deliver(m)
    BY <2>2, DeliverCombining
  <2>3. CASE UNCHANGED vars
    BY <2>3 DEF vars, Combining, CleanAir, CleanInfo, CleanRetx, CleanIdle, Clean, AfterNack
  <2> QED BY <2>1, <2>2, <2>3 DEF Next
<1>3. IInv /\ Combining => SoftCombiningOfOneTb
  BY DEF IInv, TypeInv, TypeOK, AirMsg, Combining, CleanAir, Clean, Versions, SoftCombiningOfOneTb
<1> QED BY <1>1, <1>2, <1>3, Invariance, PTL DEF Spec
=============================================================================
