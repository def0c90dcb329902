-------------------------- MODULE PdcpDuplication --------------------------
(***************************************************************************)
(* PDCP duplication on one downlink bearer, from the gNB's LtePdcp to the  *)
(* UE's: the transmitter sends every SDU and NumDup copies of it, the RLC  *)
(* entity (module RlcTm) queues the PDUs and reports to the scheduler,     *)
(* grants take them to the air, where HARQ may delay or lose them, and the *)
(* receiver discards duplicates with a table of sequence numbers.          *)
(*                                                                         *)
(* SDUs are numbered in the order of their transmission.  The table, the   *)
(* halves it is cleared by and the window are scaled down together: the    *)
(* code has MaxPdcpSn = 4096, WrapClears = 4000, Window = (2000, 3000).    *)
(***************************************************************************)
EXTENDS RlcTm, FiniteSets

CONSTANTS
  MaxPdcpSn,    \* m_maxPdcpSn
  WrapClears,   \* a wrap clears the numbers below this one
  WindowLow,    \* the others are cleared when the number expected next is
  WindowHigh,   \* between these two
  NumDup,       \* m_maxDup, with FixedDuplication
  Lag,          \* the PDUs of an SDU are gone before Lag more SDUs are sent
  NumLc,        \* logical channels of the UE; the bearer's is the first one
  TbSizes,      \* the sizes of transport blocks
  Faults,       \* what may happen to originals: "overtaken", "lost"
  MaxSdu        \* bound of the model: SDUs sent

ASSUME TableAssumption ==
  /\ MaxPdcpSn \in Nat \ {0} /\ WrapClears \in 1..MaxPdcpSn
  /\ WindowLow \in Nat /\ WindowHigh \in (WindowLow + 2)..WrapClears
ASSUME LagAssumption ==
  Lag \in 1..(MaxPdcpSn - WrapClears) /\ Lag <= WindowLow + 1
ASSUME EnvAssumption ==
  /\ NumDup \in Nat /\ NumLc \in Nat \ {0} /\ TbSizes \subseteq Nat
  /\ \A tbs \in TbSizes : tbs \div NumLc \notin {1, 2}
  /\ Faults \subseteq {"overtaken", "lost"} /\ MaxSdu \in Nat

Sns  == 0..(MaxPdcpSn - 1)
Sdus == 0..(MaxSdu - 1)

VARIABLES
  sent,      \* SDUs sent so far
  txSn,      \* m_txSequenceNumber
  pend,      \* copies whose Simulator::Schedule is still to come
  rlc,       \* the RLC entity of the bearer
  queue,     \* m_rlcTransmissionQueueSize of the bearer at the scheduler
  air,       \* PDUs given to the MAC and not yet received
  overdue,   \* SDUs below it are older than SchedulingDiscardTimerMs
  late,      \* SDUs below it are older than 100 ms
  table,     \* pdcpSequenceNumbers[m_rnti]
  rx,        \* m_rxSequenceNumber and m_maxSeqNotifier
  delivered, \* how often each recent SDU was given to the upper layer
  inTime     \* recent SDUs of which a PDU was received within 100 ms

vars == <<sent, txSn, pend, rlc, queue, air, overdue, late, table, rx, delivered, inTime>>

\* SetSequenceNumber keeps 12 of the 16 bits: 4096 is sent as 0.
Pdu(n, sn, copy) == [sdu |-> n, sn |-> sn % MaxPdcpSn, copy |-> copy]

Originals(S) == {p \in S : p.copy = 0}

Around == pend \cup Buffered(rlc) \cup air

\* An original is not overtaken by the SDUs behind it, nor lost, unless Faults says so.
InOrder(p) ==
  "overtaken" \in Faults \/ \A q \in Originals(Buffered(rlc) \cup air) : q.sdu >= p.sdu

(***************************************************************************)
(* LtePdcp at the gNB                                                      *)
(***************************************************************************)
Larger(a, b) == IF a >= b THEN a ELSE b

\* Mutant: the number does not start again.
NextSnOnly(sn) == sn + 1

\* The number runs from 0 to 4096 and then from 1.
NextSn(sn) == IF sn + 1 > MaxPdcpSn THEN 1 ELSE sn + 1

\* What was delivered is remembered for as long as a PDU may be around.
Recent(n) == sent - n < Lag

DoTransmitPdcpSdu ==
  /\ sent < MaxSdu
  /\ \A p \in Around : Recent(p.sdu)
  /\ pend' = pend \cup {Pdu(sent, txSn, i) : i \in 1..NumDup}
  /\ rlc' = DoTransmitPdcpPdu(rlc, Pdu(sent, txSn, 0), overdue)
  /\ queue' = QueueSize
  /\ txSn' = NextSn(txSn)
  /\ sent' = sent + 1
  /\ overdue' = Larger(overdue, sent + 1 - Lag)
  /\ late' = Larger(late, sent + 1 - Lag)
  /\ delivered' = [n \in Sdus |-> IF Recent(n) THEN delivered[n] ELSE 0]
  /\ inTime' = {n \in inTime : Recent(n)}
  /\ UNCHANGED <<air, table, rx>>

\* Copy i leaves m_dupDelay * i after its SDU.
SendCopy(p) ==
  /\ \A q \in pend : (q.copy = p.copy => q.sdu >= p.sdu) /\ (q.sdu = p.sdu => q.copy >= p.copy)
  /\ pend' = pend \ {p}
  /\ rlc' = DoTransmitPdcpPdu(rlc, p, overdue)
  /\ queue' = QueueSize
  /\ UNCHANGED <<sent, txSn, air, overdue, late, table, rx, delivered, inTime>>

(***************************************************************************)
(* The scheduler and the MAC                                               *)
(***************************************************************************)
\* NrMacSchedulerLcRR: the first logical channel alone gets bytes, its share of
\* all; DoScheduleDlData takes the subheader of 3 bytes off.
Share(tbs)     == tbs \div NumLc
BytesOfLc(tbs) == IF Share(tbs) = 0 THEN 0 ELSE Share(tbs) - 3

\* NrMacSchedulerLCG::AssignedData: 2 bytes of overhead (the subtraction wraps
\* below 0), and at least 10 bytes for a queue that is not empty.
AssignedData(q, bytes) ==
  IF bytes < 2 \/ bytes - 2 >= q THEN 0 ELSE Larger(q - (bytes - 2), 10)

Grant(tbs) ==
  LET bytes == BytesOfLc(tbs) IN
  /\ queue > 0
  /\ queue' = IF Share(tbs) = 0 THEN queue ELSE AssignedData(queue, bytes)
  /\ rlc' = DoNotifyTxOpportunity(rlc, bytes)
  /\ air' = IF CanSend(rlc, bytes) THEN air \cup {Head(rlc.buf)} ELSE air
  /\ UNCHANGED <<sent, txSn, pend, overdue, late, table, rx, delivered, inTime>>

\* Mutant: the periodic report does not reach the scheduler.
RbsTimerUnheard ==
  /\ rlc.timer
  /\ rlc' = ExpireRbsTimer(rlc, overdue)
  /\ UNCHANGED <<sent, txSn, pend, queue, air, overdue, late, table, rx, delivered, inTime>>

RbsTimer ==
  /\ rlc.timer
  /\ rlc' = ExpireRbsTimer(rlc, overdue)
  /\ queue' = IF rlc.buf # <<>> THEN QueueSize ELSE queue
  /\ UNCHANGED <<sent, txSn, pend, air, overdue, late, table, rx, delivered, inTime>>

\* The decoder gives a TB up after its last version.
LosePdu(p) ==
  /\ p.copy > 0 \/ "lost" \in Faults
  /\ air' = air \ {p}
  /\ UNCHANGED <<sent, txSn, pend, rlc, queue, overdue, late, table, rx, delivered, inTime>>

(***************************************************************************)
(* LtePdcp at the UE: DoReceivePdu                                         *)
(***************************************************************************)
IsDuplicate(p) == table[p.sn] = 1

DiscardDuplicate(p) ==
  /\ InOrder(p) /\ IsDuplicate(p)
  /\ air' = air \ {p}
  /\ inTime' = IF p.sdu >= late THEN inTime \cup {p.sdu} ELSE inTime
  /\ UNCHANGED <<sent, txSn, pend, rlc, queue, overdue, late, table, rx, delivered>>

Wrapped(sn) == sn + 1 >= MaxPdcpSn \/ sn + 1 < rx.sn

RxAfter(sn) ==
  LET next   == IF Wrapped(sn) THEN 0 ELSE sn + 1
      passed == WindowLow < next /\ next < WindowHigh /\ rx.notifier
  IN [sn |-> next, notifier |-> (rx.notifier \/ Wrapped(sn)) /\ ~passed]

\* Mutant: the numbers from WrapClears on are never cleared.
TableAfterLowOnly(sn) ==
  [i \in Sns |-> IF Wrapped(sn) /\ i < WrapClears THEN 0 ELSE IF i = sn THEN 1 ELSE table[i]]

\* Mutant: a wrap clears the whole table.
TableAfterAll(sn) ==
  [i \in Sns |-> IF Wrapped(sn) THEN 0 ELSE IF i = sn THEN 1 ELSE table[i]]

TableAfter(sn) ==
  LET passed == rx.notifier /\ ~RxAfter(sn).notifier IN
  [i \in Sns |-> IF Wrapped(sn) /\ i < WrapClears THEN 0
                 ELSE IF passed /\ i >= WrapClears THEN 0
                 ELSE IF i = sn THEN 1
                 ELSE table[i]]

FirstArrival(p) ==
  /\ InOrder(p) /\ ~IsDuplicate(p)
  /\ air' = air \ {p}
  /\ table' = TableAfter(p.sn)
  /\ rx' = RxAfter(p.sn)
  /\ delivered' = IF p.sdu >= late THEN [delivered EXCEPT ![p.sdu] = @ + 1] ELSE delivered
  /\ inTime' = IF p.sdu >= late THEN inTime \cup {p.sdu} ELSE inTime
  /\ UNCHANGED <<sent, txSn, pend, rlc, queue, overdue, late>>

(***************************************************************************)
(* Time: SDUs pass the deadline of the RLC buffer and the 100 ms of PDCP.  *)
(* An original that is not lost leaves the buffer before the deadline.     *)
(***************************************************************************)
PassDeadline ==
  /\ overdue < sent
  /\ "lost" \in Faults \/ \A p \in Originals(Buffered(rlc)) : p.sdu > overdue
  /\ overdue' = overdue + 1
  /\ UNCHANGED <<sent, txSn, pend, rlc, queue, air, late, table, rx, delivered, inTime>>

PassDelayLimit ==
  /\ late < sent
  /\ late' = late + 1
  /\ UNCHANGED <<sent, txSn, pend, rlc, queue, air, overdue, table, rx, delivered, inTime>>

Init ==
  /\ sent = 0 /\ txSn = 0 /\ pend = {} /\ rlc = NewRlc /\ queue = 0 /\ air = {}
  /\ overdue = 0 /\ late = 0
  /\ table = [i \in Sns |-> 0]
  /\ rx = [sn |-> 0, notifier |-> FALSE]
  /\ delivered = [n \in Sdus |-> 0]
  /\ inTime = {}

Receive(p) == DiscardDuplicate(p) \/ FirstArrival(p) \/ LosePdu(p)

Next == \/ DoTransmitPdcpSdu
        \/ \E p \in pend : SendCopy(p)
        \/ \E tbs \in TbSizes : Grant(tbs)
        \/ RbsTimer
        \/ \E p \in air : Receive(p)
        \/ PassDeadline \/ PassDelayLimit

Spec == Init /\ [][Next]_vars

\* Scheduled events happen, a UE with reported data is served, PDUs arrive.
FairSpec ==
  /\ Spec
  /\ WF_vars(\E p \in pend : SendCopy(p))
  /\ WF_vars(\E tbs \in TbSizes : Grant(tbs))
  /\ WF_vars(RbsTimer)
  /\ WF_vars(\E p \in air : Receive(p))

(***************************************************************************)
(* Properties                                                              *)
(***************************************************************************)
PduType == [sdu : Sdus, sn : Sns, copy : 0..NumDup]

\* Every variable has its type.
TypeOK ==
  /\ sent \in 0..MaxSdu /\ txSn \in 0..MaxPdcpSn
  /\ pend \subseteq PduType /\ air \subseteq PduType
  /\ rlc.buf \in Seq(PduType) /\ rlc.size \in 0..MaxTxBufferSize /\ rlc.timer \in BOOLEAN
  /\ queue \in 0..QueueSize
  /\ overdue \in 0..MaxSdu /\ late \in 0..MaxSdu
  /\ table \in [Sns -> {0, 1}]
  /\ rx.sn \in 0..MaxPdcpSn /\ rx.notifier \in BOOLEAN
  /\ delivered \in [Sdus -> Nat] /\ inTime \subseteq Sdus

\* The duplicate discarding of DoReceivePdu: no SDU is given to the upper layer
\* twice, however its copies arrive and wherever the table was cleared last.
NoDuplicateDelivery == \A n \in Sdus : delivered[n] <= 1

\* No SDU is taken for the duplicate of one that had its number a round before:
\* each one of which a PDU arrives within 100 ms is delivered.
NoFreshSduDiscarded == \A n \in inTime : delivered[n] > 0

\* m_txBufferSize, kept beside m_txBuffer and changed in three places, is the
\* size of what the buffer holds.
TxBufferSizeIsExact == rlc.size = PduBytes * Len(rlc.buf)

\* With a deadline LteRlcTm sends in the order of the time stamps: a copy goes
\* before the SDUs that were sent after its own.
OldestFirst ==
  DiscardByDeadline =>
    \A i, j \in DOMAIN rlc.buf : i < j => rlc.buf[i].sdu <= rlc.buf[j].sdu

\* A PDU that waits in RLC is never forgotten: the scheduler knows of it, or
\* the timer is going to report it.
BufferIsKnown == rlc.buf # <<>> => (queue > 0 \/ rlc.timer)

\* Once no more SDUs come (they are MaxSdu here), no PDU stays in the RLC buffer
\* or behind it: each is delivered, discarded or lost.
PdusLeave == <>[](Around = {})
=============================================================================
