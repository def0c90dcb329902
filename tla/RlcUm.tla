-------------------------------- MODULE RlcUm --------------------------------
(***************************************************************************)
(* LteRlcUm, the RLC entity in unacknowledged mode that NrHelper gives to  *)
(* every bearer by default, from one end to the other: the transmitter     *)
(* cuts SDUs to the size of its opportunities, HARQ loses and reorders the *)
(* PDUs, and the receiver puts them in order again, with a window on the   *)
(* sequence numbers and a timer that gives up on gaps.                     *)
(*                                                                         *)
(* A segment is [sdu, from, to): bytes of an SDU.  The code's SnModulus is *)
(* 1024 and its WindowSize 512.                                            *)
(***************************************************************************)
EXTENDS Integers, Sequences, FiniteSets, SequencesExt

CONSTANTS
  SnModulus, WindowSize,
  SduBytes,          \* bytes of an SDU
  TxBytes,           \* bytes of the transmission opportunities
  MaxTxBufferSize,
  DiscardByDeadline, \* TRUE: attribute SchedulingDiscardTimerMs is not 0
  HarqLag,           \* a PDU has arrived, or is lost, before HarqLag more are sent
  TimerLag,          \* a PDU waits in the reception buffer for less than TimerLag more
  MaxLost,           \* PDUs lost in a row
  Channels,          \* "timely", "lossy"
  MaxSdu             \* bound of the model: SDUs stored in the transmission buffer

ASSUME UmAssumption ==
  /\ WindowSize \in Nat \ {0, 1} /\ SnModulus = 2 * WindowSize
  /\ SduBytes \in 1..2047 /\ TxBytes \subseteq Nat /\ MaxTxBufferSize \in Nat
  /\ DiscardByDeadline \in BOOLEAN /\ Channels \subseteq {"timely", "lossy"}
  /\ HarqLag \in 1..WindowSize /\ TimerLag \in Nat /\ MaxSdu \in Nat
  /\ MaxLost \in Nat /\ 2 * HarqLag + MaxLost <= WindowSize + 1

VARIABLES
  channel, \* "lossy": PDUs are lost, and t-Reordering may expire before HARQ has ended
  sent,    \* SDUs of PDCP that were stored
  tx,      \* the transmitting side: m_txBuffer, m_txBufferSize, PDUs sent, m_rbsTimer
  checks,  \* PacketDeadlineTimer events to come
  air,     \* PDUs under way
  lost,    \* observation: PDUs lost since one was received
  rx       \* the receiving side; delivered is what PDCP got

vars == <<channel, sent, tx, checks, air, lost, rx>>

Sns == 0 .. SnModulus - 1
Broken == -1   \* what is delivered of bytes that are not those of one SDU

(***************************************************************************)
(* The transmitting side                                                   *)
(***************************************************************************)
NewTx == [buf |-> <<>>, size |-> 0, pdus |-> 0, rbsTimer |-> FALSE]

Bytes(seg) == seg.to - seg.from

HasRoom == tx.size + SduBytes <= MaxTxBufferSize

Enqueued(n) ==
  [tx EXCEPT !.buf = Append(@, [sdu |-> n, from |-> 0, to |-> SduBytes]), !.size = @ + SduBytes]

\* The SDU is stored even when the head of the queue is older than the discard
\* timer: EnablePdcpDiscarding only fires a trace.
DoTransmitPdcpPdu ==
  /\ sent < MaxSdu
  /\ sent' = IF HasRoom THEN sent + 1 ELSE sent
  /\ tx' = [(IF HasRoom THEN Enqueued(sent) ELSE tx) EXCEPT !.rbsTimer = FALSE]
  /\ checks' = IF HasRoom THEN checks + 1 ELSE checks
  /\ UNCHANGED <<channel, air, lost, rx>>

\* The length indicator of every second segment shares a byte.
LiBytes(segs) == IF Len(segs) % 2 = 0 THEN 2 ELSE 1

\* Mutant: the rest of a segmented SDU starts one byte too early.
CutOverlapping(a, seg) ==
  [segs |-> Append(a.segs, [seg EXCEPT !.to = seg.from + a.room]), room |-> 0, full |-> TRUE,
   rest |-> <<[seg EXCEPT !.from = seg.from + a.room - 1]>>]

\* The SDU does not fit: its end goes back to the front of the buffer.
Cut(a, seg) ==
  [segs |-> Append(a.segs, [seg EXCEPT !.to = seg.from + a.room]), room |-> 0, full |-> TRUE,
   rest |-> <<[seg EXCEPT !.from = seg.from + a.room]>>]

\* One SDU of the buffer, at position i of n: a is the data field so far.
Put(a, seg, i, n) ==
  IF a.full THEN [a EXCEPT !.rest = Append(@, seg)]
  ELSE IF Bytes(seg) > a.room THEN Cut(a, seg)
  ELSE [segs |-> Append(a.segs, seg), rest |-> <<>>,
        room |-> a.room - Bytes(seg) - LiBytes(a.segs),
        full |-> a.room - Bytes(seg) <= 2 \/ i = n]

DataField(buf, bytes) ==
  FoldLeftDomain(LAMBDA a, i : Put(a, buf[i], i, Len(buf)),
                 [segs |-> <<>>, rest |-> <<>>, room |-> bytes - 2, full |-> FALSE], buf)

Size(segs) == FoldLeft(LAMBDA n, seg : n + Bytes(seg), 0, segs)

Pdu(no, segs) ==
  [no |-> no, sn |-> no % SnModulus, segs |-> segs,
   first |-> segs[1].from = 0, last |-> segs[Len(segs)].to = SduBytes]

\* Bound: what HARQ and the timer of the receiver take is over in time.
InTime == /\ \A p \in air : tx.pdus - p.no < HarqLag
          /\ \A p \in rx.buf : tx.pdus - p.no < TimerLag

DoNotifyTxOpportunity(bytes) ==
  /\ bytes > 2 /\ tx.buf # <<>> /\ InTime
  /\ LET field == DataField(tx.buf, bytes) IN
     /\ air' = air \cup {Pdu(tx.pdus, field.segs)}
     /\ tx' = [buf |-> field.rest, size |-> tx.size - Size(field.segs), pdus |-> tx.pdus + 1,
               rbsTimer |-> tx.rbsTimer \/ field.rest # <<>>]
  /\ UNCHANGED <<channel, sent, checks, lost, rx>>

ExpireRbsTimer ==
  /\ tx.rbsTimer /\ tx.buf = <<>>
  /\ tx' = [tx EXCEPT !.rbsTimer = FALSE]
  /\ UNCHANGED <<channel, sent, checks, air, lost, rx>>

\* SDUs with a number below n are overdue; the rest of one that is half sent goes too.
DropOverdue(n) ==
  LET kept == FoldLeft(LAMBDA k, seg : IF seg.sdu < n THEN k ELSE Append(k, seg), <<>>, tx.buf) IN
  tx' = [tx EXCEPT !.buf = kept, !.size = Size(kept)]

\* The check that every stored SDU schedules, 1 ms later.  What is overdue then was
\* stored before the SDU whose check it is.
PacketDeadlineTimer ==
  /\ checks > 0 /\ checks' = checks - 1
  /\ IF DiscardByDeadline THEN \E n \in 0 .. sent - checks : DropOverdue(n) ELSE tx' = tx
  /\ UNCHANGED <<channel, sent, air, lost, rx>>

(***************************************************************************)
(* Reassembly                                                              *)
(***************************************************************************)
\* A packet is a sequence of segments.
IsWhole(pkt) ==
  /\ pkt[1].from = 0 /\ pkt[Len(pkt)].to = SduBytes
  /\ \A i \in 2..Len(pkt) : pkt[i].sdu = pkt[1].sdu /\ pkt[i].from = pkt[i - 1].to

Delivered(pkts) == [i \in DOMAIN pkts |-> IF IsWhole(pkts[i]) THEN pkts[i][1].sdu ELSE Broken]

\* Mutant: the rest of an SDU whose start was lost is not discarded.
PacketsKept(r, p, pkts, continued) ==
  IF continued THEN <<r.keepS0 \o pkts[1]>> \o Tail(pkts) ELSE pkts

\* The packets a PDU makes: its first segment goes on with keepS0, or, if
\* what was before it is lost, is dropped.
Packets(r, p, pkts, continued) ==
  IF continued THEN <<r.keepS0 \o pkts[1]>> \o Tail(pkts)
  ELSE IF p.first THEN pkts
  ELSE Tail(pkts)

\* waiting is m_reassemblingState = WAITING_SI_SF.  A PDU that should go on with
\* keepS0 but starts an SDU is left in m_sdusBuffer ("Transition not possible").
ReassembleAndDeliver(r, p) ==
  LET sdus      == r.sdus \o [i \in DOMAIN p.segs |-> <<p.segs[i]>>]
      continued == r.waiting /\ p.sn = r.expected
      pkts      == Packets(r, p, sdus, continued)
      open      == ~p.last /\ pkts # <<>>
      next      == [r EXCEPT !.expected = (p.sn + 1) % SnModulus]
  IN IF continued /\ p.first THEN [next EXCEPT !.sdus = sdus]
     ELSE [next EXCEPT !.sdus = <<>>, !.waiting = open,
                       !.keepS0 = IF open THEN Last(pkts) ELSE <<>>,
                       !.delivered = @ \o Delivered(IF open THEN Front(pkts) ELSE pkts)]

Received(r, sn) == \E p \in r.buf : p.sn = sn
PduOf(r, sn)    == CHOOSE p \in r.buf : p.sn = sn

Reassemble(r, sn) ==
  IF Received(r, sn)
    THEN [ReassembleAndDeliver(r, PduOf(r, sn)) EXCEPT !.buf = @ \ {PduOf(r, sn)}]
    ELSE r

(***************************************************************************)
(* The reordering window.  SequenceNumber10 compares numbers by their      *)
(* distance from a modulus base, the lower edge of the window.             *)
(***************************************************************************)
Base(uh)         == (uh - WindowSize) % SnModulus
Offset(base, sn) == (sn - base) % SnModulus
IsInsideReorderingWindow(uh, sn) == Offset(Base(uh), sn) < WindowSize

ReassembleSnInterval(r, base, low, high) ==
  FoldLeft(Reassemble, r, [i \in 1 .. (Offset(base, high) - Offset(base, low)) |->
                             (low + i - 1) % SnModulus])

\* From the smallest number on, in the order of the std::map, until one is inside.
ReassembleOutsideWindow(r) ==
  LET inside == {p.sn : p \in {q \in r.buf : IsInsideReorderingWindow(r.uh, q.sn)}}
      stop   == CHOOSE n \in inside : \A m \in inside : n <= m
  IN FoldLeft(Reassemble, r, [i \in 1..stop |-> i - 1])

\* Mutant: a number that was skipped may still arrive.
IsDiscardedIfHeld(r, sn) == Received(r, sn)

IsDiscarded(r, sn) ==
  LET b == Base(r.uh) IN
  \/ /\ Offset(b, r.ur) < Offset(b, sn) /\ IsInsideReorderingWindow(r.uh, sn)
     /\ Received(r, sn)
  \/ Offset(b, sn) < Offset(b, r.ur)

MoveWindow(r, sn) ==
  IF IsInsideReorderingWindow(r.uh, sn) THEN r
  ELSE LET moved == ReassembleOutsideWindow([r EXCEPT !.uh = (sn + 1) % SnModulus]) IN
       IF IsInsideReorderingWindow(moved.uh, r.ur) THEN moved
       ELSE [moved EXCEPT !.ur = Base(moved.uh), !.base = Base(moved.uh)]

\* newVrUr is a plain integer: the search does not go past the last number.
FirstMissingAfter(r, sn) ==
  (CHOOSE n \in sn + 1 .. SnModulus :
     ~Received(r, n) /\ \A m \in sn + 1 .. n - 1 : Received(r, m)) % SnModulus

AdvanceUr(r) ==
  IF ~Received(r, r.ur) THEN r
  ELSE LET newUr == FirstMissingAfter(r, r.ur) IN
       ReassembleSnInterval([r EXCEPT !.ur = newUr], r.base, r.ur, newUr)

StartTimer(r) ==
  IF Offset(Base(r.uh), r.ur) < WindowSize THEN [r EXCEPT !.timer = TRUE, !.ux = r.uh]
                                           ELSE [r EXCEPT !.timer = FALSE]

\* Its gap is filled, or has left the window.
StopsTimer(r) ==
  LET b == Base(r.uh) IN
  \/ Offset(b, r.ux) <= Offset(b, r.ur)
  \/ ~IsInsideReorderingWindow(r.uh, r.ux) /\ r.ux # r.uh

\* Mutant: a timer that stops is not started again for the gap behind.
UpdateTimerOnce(r) ==
  IF ~r.timer THEN StartTimer(r) ELSE [r EXCEPT !.timer = ~StopsTimer(r)]

UpdateTimer(r) == IF r.timer /\ ~StopsTimer(r) THEN r ELSE StartTimer(r)

Placed(r, p) ==
  MoveWindow([r EXCEPT !.buf = {q \in @ : q.sn # p.sn} \cup {p}, !.base = Base(r.uh)], p.sn)

DoReceivePdu(p) ==
  /\ air' = air \ {p} /\ lost' = 0
  /\ rx' = IF IsDiscarded(rx, p.sn) THEN rx ELSE UpdateTimer(AdvanceUr(Placed(rx, p)))
  /\ UNCHANGED <<channel, sent, tx, checks>>

LosePdu(p) ==
  /\ channel = "lossy" /\ lost < MaxLost
  /\ air' = air \ {p} /\ lost' = lost + 1
  /\ UNCHANGED <<channel, sent, tx, checks, rx>>

\* Here the search for the first missing number does wrap.
FirstMissingFrom(r, sn) ==
  (sn + CHOOSE d \in 0 .. SnModulus :
          /\ ~Received(r, (sn + d) % SnModulus)
          /\ \A e \in 0 .. d - 1 : Received(r, (sn + e) % SnModulus)) % SnModulus

Expired(r) ==
  LET newUr == FirstMissingFrom(r, r.ux) IN
  ReassembleSnInterval([r EXCEPT !.ur = newUr], Base(r.uh), r.ur, newUr)

\* A timely channel: HARQ has ended for the PDUs the timer was started for.
ExpireReorderingTimer ==
  /\ rx.timer
  /\ channel = "timely" =>
       \A p \in air : Offset(Base(rx.uh), p.sn) >= Offset(Base(rx.uh), rx.ux)
  /\ rx' = StartTimer(Expired(rx))
  /\ UNCHANGED <<channel, sent, tx, checks, air, lost>>

NewRx == [ur |-> 0, ux |-> 0, uh |-> 0, base |-> 0, timer |-> FALSE, buf |-> {},
          expected |-> 0, waiting |-> FALSE, keepS0 |-> <<>>, sdus |-> <<>>, delivered |-> <<>>]

Init == /\ channel \in Channels /\ sent = 0 /\ tx = NewTx /\ checks = 0
        /\ air = {} /\ lost = 0 /\ rx = NewRx

Next == \/ DoTransmitPdcpPdu
        \/ \E bytes \in TxBytes : DoNotifyTxOpportunity(bytes)
        \/ ExpireRbsTimer
        \/ PacketDeadlineTimer
        \/ \E p \in air : DoReceivePdu(p) \/ LosePdu(p)
        \/ ExpireReorderingTimer

Spec == Init /\ [][Next]_vars

(***************************************************************************)
(* Properties                                                              *)
(***************************************************************************)
IsSegment(seg) == seg.sdu \in 0 .. sent - 1 /\ 0 <= seg.from /\ seg.from < seg.to /\ seg.to <= SduBytes

\* Every variable has its type; m_txBufferSize is what the buffer holds, and no
\* segment is empty.
TypeOK ==
  /\ channel \in Channels /\ sent \in 0..MaxSdu /\ checks \in 0..sent /\ lost \in 0..MaxLost
  /\ \A i \in DOMAIN tx.buf : IsSegment(tx.buf[i])
  /\ tx.size = Size(tx.buf) /\ tx.size \in 0..MaxTxBufferSize
  /\ \A p \in air \cup rx.buf :
       p.sn \in Sns /\ p.segs # <<>> /\ \A i \in DOMAIN p.segs : IsSegment(p.segs[i])
  /\ {rx.ur, rx.ux, rx.uh, rx.base, rx.expected} \subseteq Sns

\* PDCP gets the SDUs in the order they were sent, each at most once, and never bytes
\* that are not exactly those of one SDU, whatever was lost, cut and reordered.  Nor
\* does m_sdusBuffer keep bytes for later: what follows the start of an SDU is its rest,
\* or else a "transition not possible" (lte-rlc-um.cc:1003).
DeliveredInOrder ==
  LET d == rx.delivered IN
  /\ rx.sdus = <<>>
  /\ \A i \in DOMAIN d : d[i] # Broken
  /\ \A i, j \in DOMAIN d : i < j => d[i] < d[j]

\* The numbers in the reception buffer are in the window and above VR(UR): none is left
\* from an earlier round (lte-rlc-um.cc:644).  VR(UR) itself may be in the buffer where
\* the numbers wrap.
BufferIsInWindow ==
  \A p \in rx.buf : IsInsideReorderingWindow(rx.uh, p.sn) /\ Offset(rx.ur, p.sn) < WindowSize

\* When nothing is under way any more and no timer is going to look, no PDU waits behind
\* a gap; and if nothing was lost, late or dropped, every SDU has been delivered.
NothingStaysBehind ==
  tx.buf = <<>> /\ air = {} /\ ~rx.timer =>
    /\ rx.buf = {}
    /\ channel = "timely" /\ ~DiscardByDeadline => rx.delivered = [i \in 1..sent |-> i - 1]
=============================================================================
