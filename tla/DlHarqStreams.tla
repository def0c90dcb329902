--------------------------- MODULE DlHarqStreams ---------------------------
(***************************************************************************)
(* Two MIMO streams on one downlink HARQ process: one DCI carries a        *)
(* transport block (TB) per stream, the UE decodes them one by one, merges *)
(* the outcomes into reports, and the scheduler decides per process.  One  *)
(* UE; what goes on the air arrives, and within the HARQ timer, so that    *)
(* ResetExpiredHARQ erases nothing (module DlHarq has timers and losses).  *)
(***************************************************************************)
EXTENDS Integers, Sequences, FiniteSets

CONSTANTS
  NumHarqProcess,  \* attribute NumHarqProcess
  NumStreams,      \* the streams of the UE, the size of m_spectrumPhys
  MaxHarqReTx,     \* 3, or 0 with retransmissions disabled
  MaxTb            \* bound of the model: insertions per process

ASSUME NumAssumption == NumHarqProcess \in 1..255 /\ NumStreams \in {1, 2}
ASSUME MaxAssumption == MaxHarqReTx \in {0, 3} /\ MaxTb \in Nat \ {0}

HarqIds == 0..(NumHarqProcess - 1)
Streams == 0..(NumStreams - 1)

VARIABLES
  harq,     \* m_dlHarq: active, the insertion tb, and the DCI's rv and live streams
  toRetx,   \* m_dlHarqToRetransmit
  dlInfo,   \* m_dlHarqInfoReceived of the gNB MAC
  buf,      \* m_infoPerStream of every process: a TB, or 0 when it is empty
  dcis,     \* DCIs and their data on the way to the UE
  rx,       \* the DCI the UE receives: streams expected, and how many it counted
  partial,  \* m_dlHarqInfo: outcomes of a process not yet reported
  reports,  \* reports waiting for the UL control symbol
  decoded   \* the TBs the UE has decoded: <<id, tb, stream>>

vars == <<harq, toRetx, dlInfo, buf, dcis, rx, partial, reports, decoded>>

NoOutcome == [s \in Streams |-> "NONE"]
NoRx      == [id |-> 0, tb |-> 0, rv |-> [s \in Streams |-> 0], expected |-> {}, count |-> 0]

(***************************************************************************)
(* The scheduler                                                           *)
(***************************************************************************)
\* DlHarqInfo::IsReceivedOk and GetNackStreamIndexes.
NackStreams(f) == {s \in Streams : f.status[s] = "NACK"}
ReceivedOk(f)  == NackStreams(f) = {}

\* MergeHARQ and the filters: processes that are active, one report each.
Merged == toRetx \o dlInfo

Firsts == {k \in DOMAIN Merged : /\ harq[Merged[k].id].active
                                 /\ \A j \in 1..(k - 1) : Merged[j].id # Merged[k].id}

LastTry(i) == \E s \in Streams : harq[i].rv[s] = MaxHarqReTx

\* Mutant: the smallest redundancy version is compared with the limit.
MinRv(i) == CHOOSE r \in {harq[i].rv[s] : s \in Streams} :
              \A s \in Streams : r <= harq[i].rv[s]

\* ProcessHARQFeedbacks takes the largest rv; an unscheduled stream has rv 0.
MaxRv(i) == CHOOSE r \in {harq[i].rv[s] : s \in Streams} :
              \A s \in Streams : harq[i].rv[s] <= r

Released == {Merged[k].id : k \in {j \in Firsts : \/ ReceivedOk(Merged[j])
                                                  \/ MaxRv(Merged[j].id) = MaxHarqReTx}}

Nacks == {k \in Firsts : Merged[k].id \notin Released}

\* Mutant: every stream of the DCI is sent again.
RetxDciOfAll(f) ==
  [id |-> f.id, tb |-> harq[f.id].tb, live |-> harq[f.id].live,
   rv |-> [s \in Streams |-> IF s \in harq[f.id].live THEN harq[f.id].rv[s] + 1 ELSE 0]]

\* ScheduleDlHarq: only the NACKed streams, the others have size 0 and rv 0.
RetxDci(f) ==
  [id |-> f.id, tb |-> harq[f.id].tb, live |-> NackStreams(f),
   rv |-> [s \in Streams |-> IF s \in NackStreams(f) THEN harq[f.id].rv[s] + 1 ELSE 0]]

\* CreateDlDci: streams too small for a TB have size 0.
NewDci(i, live) ==
  [id |-> i, tb |-> harq[i].tb + 1, live |-> live, rv |-> [s \in Streams |-> 0]]

Carries(d) == [active |-> TRUE, tb |-> d.tb, rv |-> d.rv, live |-> d.live]

Freed(h) == [h EXCEPT !.active = FALSE]

\* The positions K of a sequence, from the first to the last.
InOrder(K) == {e \in [1..Cardinality(K) -> K] : \A i, j \in DOMAIN e : i < j => e[i] < e[j]}

\* m_dlHarqToRetransmit: the reports at K, in the order they came in (one sequence).
Buffered(K) == {[i \in DOMAIN e |-> Merged[e[i]]] : e \in InOrder(K)}

\* A slot without room for the UE, with a retransmission, or with new data.
NoDci ==
  /\ harq' = [i \in HarqIds |-> IF i \in Released THEN Freed(harq[i]) ELSE harq[i]]
  /\ toRetx' \in Buffered(Nacks)
  /\ UNCHANGED <<buf, dcis>>

Retransmit(k) ==
  LET d == RetxDci(Merged[k]) IN
  /\ harq' = [i \in HarqIds |-> IF i = d.id THEN Carries(d)
                                ELSE IF i \in Released THEN Freed(harq[i]) ELSE harq[i]]
  /\ toRetx' \in Buffered(Nacks \ {k})
  /\ dcis' = Append(dcis, d)
  /\ UNCHANGED buf

\* DoSchedConfigIndication: new data on any stream empties the buffers of all.
Insert(i, live) ==
  LET d == NewDci(i, live) IN
  /\ ~harq[i].active \/ i \in Released
  /\ harq[i].tb < MaxTb
  /\ harq' = [j \in HarqIds |-> IF j = i THEN Carries(d)
                                ELSE IF j \in Released THEN Freed(harq[j]) ELSE harq[j]]
  /\ toRetx' \in Buffered(Nacks)
  /\ buf' = [buf EXCEPT ![i] = [s \in Streams |-> IF s \in live THEN d.tb ELSE 0]]
  /\ dcis' = Append(dcis, d)

DlTrigger ==
  /\ \/ NoDci
     \/ \E k \in Nacks : Retransmit(k)
     \/ \E i \in HarqIds : \E live \in SUBSET Streams \ {{}} : Insert(i, live)
  /\ dlInfo' = <<>>
  /\ UNCHANGED <<rx, partial, reports, decoded>>

(***************************************************************************)
(* The UE PHY                                                              *)
(***************************************************************************)
\* DlData counts the active streams of the HARQ id in a map cleared before: the
\* first one adds 1 to a new entry, the next one sets the entry to 1.
StreamCount(live) == IF live = {} THEN 0 ELSE 1

DlData ==
  /\ dcis # <<>> /\ rx.expected = {}
  /\ LET d == Head(dcis) IN
       rx' = [id |-> d.id, tb |-> d.tb, rv |-> d.rv,
              expected |-> d.live, count |-> StreamCount(d.live)]
  /\ dcis' = Tail(dcis)
  /\ UNCHANGED <<harq, toRetx, dlInfo, buf, partial, reports, decoded>>

\* EndRxData of stream s and NotifyDlHarqFeedback: report once the outcomes of
\* as many streams are known as DlData has counted.
EndRxData(s, outcome) ==
  LET status == [partial[rx.id] EXCEPT ![s] = outcome]
      known  == Cardinality({t \in Streams : status[t] # "NONE"})
  IN
  /\ s \in rx.expected
  /\ rx' = [rx EXCEPT !.expected = @ \ {s}]
  /\ IF known = rx.count
       THEN /\ reports' = Append(reports, [id |-> rx.id, tb |-> rx.tb, status |-> status])
            /\ partial' = [partial EXCEPT ![rx.id] = NoOutcome]
       ELSE /\ partial' = [partial EXCEPT ![rx.id] = status]
            /\ UNCHANGED reports
  /\ decoded' = IF outcome = "ACK" THEN decoded \cup {<<rx.id, rx.tb, s>>} ELSE decoded
  /\ UNCHANGED <<harq, toRetx, dlInfo, buf, dcis>>

(***************************************************************************)
(* The gNB MAC: the reports of one UL control symbol arrive together.      *)
(***************************************************************************)
\* Mutant: an ACK of one stream discards the buffers of the process.
AckedOnAny(i, s) ==
  \E k \in DOMAIN reports : reports[k].id = i /\ \E t \in Streams : reports[k].status[t] = "ACK"

Acked(i, s) == \E k \in DOMAIN reports : reports[k].id = i /\ reports[k].status[s] = "ACK"

DlHarqFeedback ==
  /\ reports # <<>> /\ rx.expected = {}
  /\ buf' = [i \in HarqIds |-> [s \in Streams |-> IF Acked(i, s) THEN 0 ELSE buf[i][s]]]
  /\ dlInfo' = dlInfo \o reports
  /\ reports' = <<>>
  /\ UNCHANGED <<harq, toRetx, dcis, rx, partial, decoded>>

Init ==
  /\ harq = [i \in HarqIds |-> [active |-> FALSE, tb |-> 0,
                                rv |-> [s \in Streams |-> 0], live |-> {}]]
  /\ toRetx = <<>> /\ dlInfo = <<>>
  /\ buf = [i \in HarqIds |-> [s \in Streams |-> 0]]
  /\ dcis = <<>> /\ rx = NoRx
  /\ partial = [i \in HarqIds |-> NoOutcome]
  /\ reports = <<>> /\ decoded = {}

Next ==
  \/ DlTrigger
  \/ DlData
  \/ \E s \in Streams, outcome \in {"ACK", "NACK"} : EndRxData(s, outcome)
  \/ DlHarqFeedback

Spec == Init /\ [][Next]_vars

(***************************************************************************)
(* Properties                                                              *)
(***************************************************************************)
Statuses == [Streams -> {"ACK", "NACK", "NONE"}]
Report   == [id : HarqIds, tb : 1..MaxTb, status : Statuses]
DciType  == [id : HarqIds, tb : 1..MaxTb, rv : [Streams -> 0..3], live : SUBSET Streams]

\* Every variable has its type; no stream is granted a version beyond 3.
TypeOK ==
  /\ harq \in [HarqIds -> [active : BOOLEAN, tb : 0..MaxTb,
                           rv : [Streams -> 0..3], live : SUBSET Streams]]
  /\ toRetx \in Seq(Report) /\ dlInfo \in Seq(Report) /\ reports \in Seq(Report)
  /\ buf \in [HarqIds -> [Streams -> 0..MaxTb]]
  /\ dcis \in Seq(DciType)
  /\ rx \in [id : HarqIds, tb : 0..MaxTb, rv : [Streams -> 0..3],
             expected : SUBSET Streams, count : 0..NumStreams]
  /\ partial \in [HarqIds -> Statuses]
  /\ decoded \subseteq HarqIds \X (1..MaxTb) \X Streams

\* A stream the UE has decoded is not sent again with the other one.
NoRetxOfDecodedStream ==
  \A k \in DOMAIN dcis : \A s \in dcis[k].live : <<dcis[k].id, dcis[k].tb, s>> \notin decoded

\* A stream whose NACK the scheduler may act on still has its TB in the MAC buffer,
\* whatever was reported of the other stream.
NackedStreamIsBuffered ==
  \A k \in Firsts : \A s \in NackStreams(Merged[k]) :
    buf[Merged[k].id][s] = harq[Merged[k].id].tb

\* What the documentation says of a process with one failed stream: it is not
\* released before that TB is acknowledged or the last version was tried.
FailedStreamIsRescheduled ==
  [][\A i \in HarqIds :
       (harq[i].active /\ (~harq'[i].active \/ harq'[i].tb # harq[i].tb)) =>
         LastTry(i) \/ \A s \in Streams : buf[i][s] = 0]_vars
=============================================================================
