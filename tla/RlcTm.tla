------------------------------- MODULE RlcTm -------------------------------
(***************************************************************************)
(* The transmitting side of LteRlcTm, the RLC entity in transparent mode   *)
(* that the URLLC scenarios use for every bearer, as functions of its      *)
(* state: buf is m_txBuffer, size is m_txBufferSize, timer says whether    *)
(* m_rbsTimer runs.                                                        *)
(*                                                                         *)
(* A PDU is [sdu, sn, copy]: PDUs of one PDCP SDU carry one time stamp, so *)
(* sdu orders them by m_waitingSince.  All PDUs have PduBytes bytes.       *)
(***************************************************************************)
EXTENDS Integers, Sequences, FiniteSets, SequencesExt

CONSTANTS
  PduBytes,           \* bytes of a PDCP PDU
  MaxTxBufferSize,    \* attribute MaxTxBufferSize
  DiscardByDeadline   \* TRUE: attribute SchedulingDiscardTimerMs is not 0

ASSUME RlcAssumption == /\ PduBytes \in Nat \ {0} /\ MaxTxBufferSize \in Nat
                        /\ DiscardByDeadline \in BOOLEAN

\* DoReportBufferStatus reports this queue size whatever the buffer holds.
QueueSize == 100

NewRlc == [buf |-> <<>>, size |-> 0, timer |-> FALSE]

Buffered(rlc) == ToSet(rlc.buf)

\* The position of a set of them that i - 1 others precede.
Nth(positions, i) == CHOOSE k \in positions : Cardinality({j \in positions : j <= k}) = i

\* DoReportBufferStatus first drops the PDUs past the deadline: those of the
\* SDUs below overdue.
DropOverdue(rlc, overdue) ==
  LET kept == {i \in DOMAIN rlc.buf : rlc.buf[i].sdu >= overdue} IN
  [rlc EXCEPT !.buf = [i \in 1..Cardinality(kept) |-> rlc.buf[Nth(kept, i)]],
              !.size = @ - PduBytes * (Len(rlc.buf) - Cardinality(kept))]

\* Mutant: the bytes of the dropped PDUs stay in the count.
ReportedSizeKept(rlc, overdue) ==
  IF DiscardByDeadline THEN [DropOverdue(rlc, overdue) EXCEPT !.size = rlc.size] ELSE rlc

Reported(rlc, overdue) ==
  IF DiscardByDeadline THEN DropOverdue(rlc, overdue) ELSE rlc

\* With a deadline the buffer is kept in the order of the time stamps.
Position(rlc, pdu) ==
  IF DiscardByDeadline THEN Cardinality({i \in DOMAIN rlc.buf : rlc.buf[i].sdu <= pdu.sdu})
                       ELSE Len(rlc.buf)

\* Mutant: a PDU is put before those with its own time stamp or an earlier one.
EnqueuedInFront(rlc, pdu) ==
  IF rlc.size + PduBytes > MaxTxBufferSize THEN rlc
  ELSE [rlc EXCEPT !.buf = <<pdu>> \o @, !.size = @ + PduBytes]

Enqueued(rlc, pdu) ==
  IF rlc.size + PduBytes > MaxTxBufferSize THEN rlc
  ELSE [rlc EXCEPT !.buf = InsertAt(@, Position(rlc, pdu) + 1, pdu), !.size = @ + PduBytes]

\* A new PDU is reported at once, and the periodic report is cancelled.
DoTransmitPdcpPdu(rlc, pdu, overdue) ==
  [Reported(Enqueued(rlc, pdu), overdue) EXCEPT !.timer = FALSE]

CanSend(rlc, bytes) == rlc.buf # <<>> /\ PduBytes <= bytes

\* Mutant: the periodic report is not started for what is left.
DoNotifyTxOpportunityNoTimer(rlc, bytes) ==
  IF ~CanSend(rlc, bytes) THEN rlc
  ELSE [rlc EXCEPT !.buf = Tail(@), !.size = @ - PduBytes]

\* One PDU per opportunity, never a part of one.
DoNotifyTxOpportunity(rlc, bytes) ==
  IF ~CanSend(rlc, bytes) THEN rlc
  ELSE [buf |-> Tail(rlc.buf), size |-> rlc.size - PduBytes,
        timer |-> rlc.timer \/ Tail(rlc.buf) # <<>>]

\* The periodic report goes on for as long as the buffer holds a PDU.
ExpireRbsTimer(rlc, overdue) ==
  IF rlc.buf = <<>> THEN [rlc EXCEPT !.timer = FALSE] ELSE Reported(rlc, overdue)
=============================================================================
