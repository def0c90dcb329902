------------------------------ MODULE UlHarq ------------------------------
(***************************************************************************)
(* The uplink HARQ loop of the NR module: the gNB scheduler's HARQ vectors *)
(* and its list of NACKs to retransmit, the DCIs on their way to the UEs,  *)
(* the UE MAC's packet buffers, and the decoding at the gNB, whose outcome *)
(* reaches the scheduler at its next UL trigger.                           *)
(*                                                                         *)
(* Time advances by UlTrigger, one run of DoSchedUlTriggerReq: the HARQ    *)
(* timers of the uplink vectors count these runs.  As in DlHarq, a         *)
(* transport block (TB) is named by its process and by the number tb of    *)
(* insertions the process has seen.                                        *)
(***************************************************************************)
EXTENDS Integers, Sequences, FiniteSets

CONSTANTS
  UEs,                  \* the UEs attached to the cell (their RNTIs)
  UrllcUes,             \* those whose IMSI is at most m_urllcUes
  EnableHarqReTx,       \* attribute EnableHarqReTx
  EnableUrllcHarqReTx,  \* attribute EnableUrllcHarqReTx
  NumHarqProcess,       \* attribute NumHarqProcess: the length of a HARQ vector
  SlotSyms,             \* the UL data symbols a slot may have (F and UL slots, SRS)
  MaxRtt,               \* a TB is decoded and read at most MaxRtt triggers after its grant
  TbLoss,               \* TRUE: a TB may also reach the gNB not at all
  MaxTb,                \* bound of the model: TBs inserted per process,
  SingleTbUEs           \* but only one per process of these UEs

ASSUME UesAssumption   == UrllcUes \subseteq UEs /\ IsFiniteSet(UEs)
ASSUME FlagsAssumption == {EnableHarqReTx, EnableUrllcHarqReTx, TbLoss} \subseteq BOOLEAN
ASSUME NumAssumption   == NumHarqProcess \in 1..255
ASSUME SymsAssumption  == SlotSyms \subseteq 0..14
ASSUME RttAssumption   == MaxRtt \in Nat \ {0}
ASSUME MaxTbAssumption == MaxTb \in Nat \ {0} /\ SingleTbUEs \subseteq UEs

TbBound(u) == IF u \in SingleTbUEs THEN 1 ELSE MaxTb

HarqIds == 0..(NumHarqProcess - 1)
Proc    == UEs \X HarqIds        \* a process: <<UE, HARQ process id>>

Status == {"INACTIVE", "WAITING_FEEDBACK", "RECEIVED_FEEDBACK"}

VARIABLES
  harq,      \* m_ueMap[u]->m_ulHarq: the HarqProcess of every process
  toRetx,    \* m_ulHarqToRetransmit: NACKs kept for the next trigger, in order
  ulInfo,    \* m_ulHarqInfoReceived: feedback the gNB MAC has collected, in order
  reported,  \* the UEs whose m_ulBsrReceived is not empty
  ueBuf,     \* m_miUlHarqProcessesPacket at the UE: a TB (0: nullptr or an empty burst)
  air,       \* UL DCIs on their way to the UEs, then the TBs on their way to the gNB
  hist,      \* NrHarqPhy::m_ulHistory of the gNB: the receptions kept to be combined
  decoded    \* the TBs the gNB has decoded

vars == <<harq, toRetx, ulInfo, reported, ueBuf, air, hist, decoded>>

InactiveProcess(tb) == [active |-> FALSE, status |-> "INACTIVE",
                        timer |-> 0, rv |-> 0, tb |-> tb, sym |-> 0]

NewProcess(tb, sym) == [active |-> TRUE, status |-> "WAITING_FEEDBACK",
                        timer |-> 0, rv |-> 0, tb |-> tb, sym |-> sym]

\* ProcessHARQFeedbacks: the last redundancy version the scheduler tries.
MaxHarqReTx(u) ==
  IF u \in UrllcUes THEN (IF EnableUrllcHarqReTx THEN 3 ELSE 0)
                    ELSE (IF EnableHarqReTx      THEN 3 ELSE 0)

(***************************************************************************)
(* ResetExpiredHARQ                                                        *)
(***************************************************************************)
\* Mutant: the timer fires one trigger early.
ExpiredEarly ==
  {p \in Proc : harq[p].status # "INACTIVE" /\ harq[p].timer + 1 >= NumHarqProcess}

Expired == {p \in Proc : harq[p].status # "INACTIVE" /\ harq[p].timer >= NumHarqProcess}

\* Mutant: a process whose feedback was received is not counted.
AgedWhileWaiting == [p \in Proc |->
          IF harq[p].status # "WAITING_FEEDBACK" THEN harq[p]
          ELSE IF p \in Expired THEN InactiveProcess(harq[p].tb)
          ELSE [harq[p] EXCEPT !.timer = @ + 1]]

Aged == [p \in Proc |->
          IF harq[p].status = "INACTIVE" THEN harq[p]
          ELSE IF p \in Expired THEN InactiveProcess(harq[p].tb)
          ELSE [harq[p] EXCEPT !.timer = @ + 1]]

(***************************************************************************)
(* MergeHARQ, the filter of DoSchedUlTriggerReq, ProcessHARQFeedbacks.     *)
(* Duplicates are not looked for in the uplink.                            *)
(***************************************************************************)
Merged == toRetx \o ulInfo

Heard == {k \in DOMAIN Merged : Aged[Merged[k].proc].active}

\* Mutant: the retransmission limit is not looked at.
EndsOnAckOnly(f) == f.ack

\* Mutant: the limit never applies once a retransmission was granted.
EndsIfFirstTx(f) == f.ack \/ (Aged[f.proc].rv = 0 /\ MaxHarqReTx(f.proc[1]) = 0)

Ends(f) == f.ack \/ Aged[f.proc].rv = MaxHarqReTx(f.proc[1])

Nacks == {k \in Heard : ~Ends(Merged[k])}

ProcsAt(K) == {Merged[k].proc : k \in K}

Released == ProcsAt(Heard \ Nacks)

(***************************************************************************)
(* ScheduleUlHarq: one NACK after the other while symbols are left.        *)
(***************************************************************************)
\* The symbols left when the loop comes to the k-th feedback.
SymAvail(sym) ==
  LET Left[k \in 1..(Len(Merged) + 1)] ==
        IF k = 1 THEN sym
        ELSE LET need == IF k - 1 \in Nacks THEN harq[Merged[k - 1].proc].sym ELSE 0
             IN  IF Left[k - 1] >= need THEN Left[k - 1] - need ELSE Left[k - 1]
  IN Left

Reached(sym)      == {k \in Nacks : SymAvail(sym)[k] > 0}
Retransmit(sym)   == {k \in Reached(sym) : SymAvail(sym)[k] >= harq[Merged[k].proc].sym}

\* Mutant: a NACK that was retransmitted is buffered as well.
BufferedAll(sym)  == Reached(sym)

BufferedNow(sym)  == Reached(sym) \ Retransmit(sym)

SymAfterHarq(sym) == SymAvail(sym)[Len(Merged) + 1]

\* The positions K of a sequence, from the first to the last.
InOrder(K) == {e \in [1..Cardinality(K) -> K] : \A i, j \in DOMAIN e : i < j => e[i] < e[j]}

\* m_ulHarqToRetransmit: the NACKs that ScheduleUlHarq puts back, in their order.
ToRetransmit(sym) ==
  {[i \in DOMAIN e |-> Merged[e[i]]] : e \in InOrder(BufferedNow(sym))}

\* DoScheduleUlData: new data for UEs without a DCI in this slot, on free ids.
Occupied == {p \in Proc : Aged[p].active} \ Released

OnePerUe(S) == \A p, q \in S : p[1] = q[1] => p = q

Insertable(sym) ==
  {fresh \in SUBSET (Proc \ Occupied) :
     /\ OnePerUe(fresh)
     /\ \A p \in fresh : /\ SymAfterHarq(sym) > 0
                         /\ harq[p].tb < TbBound(p[1])
                         /\ \A q \in ProcsAt(Retransmit(sym)) : q[1] # p[1]}

ScheduledHarq(sym, fresh, numSym) ==
  [p \in Proc |->
     IF p \in fresh         THEN NewProcess(harq[p].tb + 1, numSym[p])
     ELSE IF p \in Released THEN InactiveProcess(harq[p].tb)
     ELSE IF p \in ProcsAt(Reached(sym))
       THEN [Aged[p] EXCEPT !.status = "WAITING_FEEDBACK", !.timer = 0,
                            !.rv = IF p \in ProcsAt(Retransmit(sym)) THEN @ + 1 ELSE @]
     ELSE IF p \in ProcsAt(Nacks)
       THEN [Aged[p] EXCEPT !.status = "RECEIVED_FEEDBACK"]
     ELSE Aged[p]]

Dci(p, tb, rv) == [proc |-> p, st |-> "dci", tb |-> tb, rv |-> rv, age |-> 0]

UlDcis(sym, fresh) ==
  {Dci(p, harq[p].tb + 1, 0) : p \in fresh} \cup
  {Dci(p, harq[p].tb, harq[p].rv + 1) : p \in ProcsAt(Retransmit(sym))}

UlTrigger ==
  /\ \A m \in air : m.age + 1 < MaxRtt
  /\ \E sym \in SlotSyms : \E fresh \in Insertable(sym) :
     \E numSym \in [fresh -> 1..SymAfterHarq(sym)] :
       /\ harq' = ScheduledHarq(sym, fresh, numSym)
       /\ toRetx' \in ToRetransmit(sym)
       /\ air' = {[m EXCEPT !.age = @ + 1] : m \in air} \cup UlDcis(sym, fresh)
  /\ ulInfo' = <<>>
  /\ UNCHANGED <<reported, ueBuf, hist, decoded>>

(***************************************************************************)
(* The UE MAC                                                              *)
(***************************************************************************)
\* DoReportBufferStatus: the RLC of a UE reports its queues.
ReportBufferStatus(u) ==
  /\ u \notin reported
  /\ reported' = reported \cup {u}
  /\ UNCHANGED <<harq, toRetx, ulInfo, ueBuf, air, hist, decoded>>

OnAir(m, pdu) == [proc |-> m.proc, st |-> IF pdu THEN "pdu" ELSE "bsr",
                  tb |-> m.tb, rv |-> m.rv, age |-> m.age]

\* Mutant: the buffer of the process is not emptied when there is nothing to send.
SendNewDataKeepsBuffer(m) ==
  /\ m.st = "dci" /\ m.rv = 0
  /\ \E pdu \in BOOLEAN :
       /\ pdu => m.proc[1] \in reported
       /\ ueBuf' = [ueBuf EXCEPT ![m.proc] = IF pdu THEN m.tb ELSE @]
       /\ air' = (air \ {m}) \cup
                 (IF m.proc[1] \in reported THEN {OnAir(m, pdu)} ELSE {})
  /\ UNCHANGED <<harq, toRetx, ulInfo, reported, hist, decoded>>

\* ProcessUlDci, new data: SendNewData empties the buffer and fills it with what
\* the RLCs have to send (pdu), and SendReportBufferStatus adds a BSR.  Without
\* any report nothing is sent, not even an empty PDU.
SendNewData(m) ==
  /\ m.st = "dci" /\ m.rv = 0
  /\ \E pdu \in BOOLEAN :
       /\ pdu => m.proc[1] \in reported
       /\ ueBuf' = [ueBuf EXCEPT ![m.proc] = IF pdu THEN m.tb ELSE 0]
       /\ air' = (air \ {m}) \cup
                 (IF m.proc[1] \in reported THEN {OnAir(m, pdu)} ELSE {})
  /\ UNCHANGED <<harq, toRetx, ulInfo, reported, hist, decoded>>

\* ProcessUlDci, retransmission: TransmitRetx copies the buffer, if there is
\* one, and SendReportBufferStatus adds a new BSR.
TransmitRetx(m) ==
  /\ m.st = "dci" /\ m.rv > 0
  /\ air' = (air \ {m}) \cup
            (IF m.proc[1] \in reported THEN {OnAir(m, ueBuf[m.proc] # 0)} ELSE {})
  /\ UNCHANGED <<harq, toRetx, ulInfo, reported, ueBuf, hist, decoded>>

(***************************************************************************)
(* The gNB PHY: EndRxData, ReportUlHarqFeedback, DoUlHarqFeedback          *)
(***************************************************************************)
OnChannel(m) == m.st \in {"pdu", "bsr"}

UlHarqFeedback(m, ack) == Append(ulInfo, [proc |-> m.proc, tb |-> m.tb, ack |-> ack])

EndRxDataOk(m) ==
  /\ OnChannel(m)
  /\ air' = air \ {m}
  /\ ulInfo' = UlHarqFeedback(m, TRUE)
  /\ hist' = [hist EXCEPT ![m.proc] = <<>>]
  /\ decoded' = decoded \cup {<<m.proc, m.tb>>}
  /\ UNCHANGED <<harq, toRetx, reported, ueBuf>>

EndRxDataCorrupted(m) ==
  /\ OnChannel(m)
  /\ air' = air \ {m}
  /\ ulInfo' = UlHarqFeedback(m, FALSE)
  /\ hist' = [hist EXCEPT ![m.proc] = IF m.rv = 3 THEN <<>> ELSE Append(@, [tb |-> m.tb, st |-> m.st])]
  /\ UNCHANGED <<harq, toRetx, reported, ueBuf, decoded>>

TbUnreceived(m) ==
  /\ TbLoss
  /\ OnChannel(m)
  /\ air' = air \ {m}
  /\ UNCHANGED <<harq, toRetx, ulInfo, reported, ueBuf, hist, decoded>>

Deliver(m) == \/ SendNewData(m) \/ TransmitRetx(m)
              \/ EndRxDataOk(m) \/ EndRxDataCorrupted(m) \/ TbUnreceived(m)

Init ==
  /\ harq = [p \in Proc |-> InactiveProcess(0)]
  /\ toRetx = <<>>
  /\ ulInfo = <<>>
  /\ reported = {}
  /\ ueBuf = [p \in Proc |-> 0]
  /\ air = {}
  /\ hist = [p \in Proc |-> <<>>]
  /\ decoded = {}

Next == UlTrigger \/ (\E u \in UEs : ReportBufferStatus(u)) \/ (\E m \in air : Deliver(m))

Spec == Init /\ [][Next]_vars

\* The simulator runs every scheduled event: slots recur and what is in the air
\* arrives.  No RLC is bound to report anything.
FairSpec == Spec /\ WF_vars(UlTrigger) /\ WF_vars(\E m \in air : Deliver(m))

(***************************************************************************)
(* Properties                                                              *)
(***************************************************************************)
Process  == [active : BOOLEAN, status : Status, timer : 0..NumHarqProcess,
             rv : 0..3, tb : 0..MaxTb, sym : 0..14]
Feedback == [proc : Proc, tb : 1..MaxTb, ack : BOOLEAN]
AirMsg   == [proc : Proc, st : {"dci", "pdu", "bsr"}, tb : 1..MaxTb,
             rv : 0..3, age : 0..(MaxRtt - 1)]

\* Every variable has its type.
TypeOK ==
  /\ harq \in [Proc -> Process]
  /\ toRetx \in Seq(Feedback)
  /\ ulInfo \in Seq(Feedback)
  /\ reported \subseteq UEs
  /\ ueBuf \in [Proc -> 0..MaxTb]
  /\ air \subseteq AirMsg
  /\ hist \in [Proc -> Seq([tb : 1..MaxTb, st : {"pdu", "bsr"}])]
  /\ decoded \subseteq Proc \X (1..MaxTb)

Underway(p) ==
  Cardinality({m \in air : m.proc = p})
  + Cardinality({k \in DOMAIN Merged : Merged[k].proc = p})

\* A grant, a TB, a collected or a buffered feedback belongs to the TB its
\* process holds now, and a process has at most one of them under way.  Without
\* it ProcessHARQFeedbacks, which does not drop duplicates in the uplink, aborts
\* on the second feedback of a process that the first one erased.
OneFeedbackOfItsTb ==
  /\ \A p \in Proc : Underway(p) <= 1
  /\ \A m \in air : harq[m.proc].active /\ harq[m.proc].tb = m.tb
  /\ \A k \in DOMAIN Merged :
       harq[Merged[k].proc].active /\ harq[Merged[k].proc].tb = Merged[k].tb

\* When a DCI asks for a retransmission, the UE MAC still holds the TB it sent
\* first, or had sent no more than a BSR: versions of different TBs never mix on
\* one process, and the receptions of one TB that the gNB combines are all of its PDU
\* or all of a BSR alone.
UeBufferHoldsTb ==
  /\ \A m \in air : (m.st = "dci" /\ m.rv > 0) => ueBuf[m.proc] \in {0, m.tb}
  /\ \A m \in air : OnChannel(m) =>
       \A k \in DOMAIN hist[m.proc] :
         hist[m.proc][k].tb = m.tb => hist[m.proc][k].st = m.st

\* What the documentation of ScheduleUlHarq says: a NACK that finds no symbols is
\* buffered for the next slot, so no process keeps a NACK nobody will look at.
NackIsKept ==
  \A p \in Proc : harq[p].status = "RECEIVED_FEEDBACK" =>
    \E k \in DOMAIN toRetx : toRetx[k].proc = p

\* Every TB leaves its process in the end, even the NACK the scheduler lost.
Holds(p, tb) == harq[p].active /\ harq[p].tb = tb
ProcessIsReleased == \A p \in Proc : \A tb \in 1..MaxTb : Holds(p, tb) ~> ~Holds(p, tb)

\* The loop implements the abstract HARQ service.
Service == INSTANCE HarqService WITH
  Procs     <- Proc,
  MaxTries  <- [p \in Proc |-> MaxHarqReTx(p[1]) + 1],
  cur       <- [p \in Proc |-> [tb   |-> harq[p].tb,
                                sent |-> IF harq[p].active THEN harq[p].rv + 1 ELSE 0]],
  delivered <- decoded

ImplementsService == Service!Spec
===========================================================================
