------------------------------ MODULE DlHarq ------------------------------
(***************************************************************************)
(* The downlink HARQ loop of the NR module: the gNB scheduler's HARQ       *)
(* vectors, the gNB MAC's transport-block buffers, the UE PHY's soft       *)
(* combining history, and the data and feedback that travel between them.  *)
(*                                                                         *)
(* Time advances by DlTrigger, one run of DoSchedDlTriggerReq: the HARQ    *)
(* timers of the scheduler count these runs.  One transport block (TB) per *)
(* DCI; the two-stream case is module DlHarqStreams.  A TB is named by its *)
(* process and by the number tb of insertions the process has seen.        *)
(***************************************************************************)
EXTENDS Integers, Sequences, FiniteSets

CONSTANTS
  UEs,                  \* the UEs attached to the cell (their RNTIs)
  UrllcUes,             \* those whose IMSI is at most m_urllcUes
  EnableHarqReTx,       \* attribute EnableHarqReTx
  EnableUrllcHarqReTx,  \* attribute EnableUrllcHarqReTx
  NumHarqProcess,       \* attribute NumHarqProcess: the length of a HARQ vector
  MaxRtt,               \* a feedback is processed at most MaxRtt triggers after its grant
  TbLoss,               \* TRUE: a TB may also reach the UE not at all
  MaxTb,                \* bound of the model: TBs inserted per process
  CleanIds              \* HARQ ids whose TBs all arrive and are answered one
                        \* trigger before MaxRtt: those soft combining relies on

ASSUME UesAssumption   == UrllcUes \subseteq UEs /\ IsFiniteSet(UEs)
ASSUME FlagsAssumption == {EnableHarqReTx, EnableUrllcHarqReTx, TbLoss} \subseteq BOOLEAN
ASSUME NumAssumption   == NumHarqProcess \in 1..255
ASSUME RttAssumption   == MaxRtt \in Nat \ {0}
ASSUME MaxTbAssumption == MaxTb \in Nat \ {0}
ASSUME CleanAssumption == CleanIds \subseteq 0..(NumHarqProcess - 1) /\ (CleanIds # {} => MaxRtt > 1)

HarqIds == 0..(NumHarqProcess - 1)
Proc    == UEs \X HarqIds        \* a process: <<UE, HARQ process id>>

Status == {"INACTIVE", "WAITING_FEEDBACK", "RECEIVED_FEEDBACK"}

VARIABLES
  harq,      \* m_ueMap[u]->m_dlHarq: the HarqProcess of every process
  usedSize,  \* NrMacHarqVector::m_usedSize of every UE
  toRetx,    \* m_dlHarqToRetransmit: NACKs kept for the next trigger
  dlInfo,    \* m_dlHarqInfoReceived: feedback the gNB MAC has collected
  buf,       \* m_miDlHarqProcessesPackets: the TB buffered per process (0: empty)
  air,       \* granted TBs not yet decoded, and their feedback in flight
  hist,      \* NrHarqPhy::m_dlHistory: the TBs whose reception is kept to be combined
  decoded    \* the TBs some UE has passed up to its MAC

vars == <<harq, usedSize, toRetx, dlInfo, buf, air, hist, decoded>>

(***************************************************************************)
(* NrMacHarqVector and HarqProcess                                         *)
(***************************************************************************)
InactiveProcess(tb) == [active |-> FALSE, status |-> "INACTIVE",
                        timer |-> 0, rv |-> 0, tb |-> tb]

NewProcess(tb) == [active |-> TRUE, status |-> "WAITING_FEEDBACK",
                   timer |-> 0, rv |-> 0, tb |-> tb]

\* The number of processes of UE u that belong to the set S.
Count(S, u) == Cardinality({i \in HarqIds : <<u, i>> \in S})

\* ProcessHARQFeedbacks: the last redundancy version the scheduler tries.
MaxHarqReTx(u) ==
  IF u \in UrllcUes THEN (IF EnableUrllcHarqReTx THEN 3 ELSE 0)
                    ELSE (IF EnableHarqReTx      THEN 3 ELSE 0)

(***************************************************************************)
(* ResetExpiredHARQ, run for every UE before the feedback is looked at     *)
(***************************************************************************)
\* Mutant: the timer fires one trigger early.
ExpiredEarly ==
  {p \in Proc : harq[p].status # "INACTIVE" /\ harq[p].timer + 1 >= NumHarqProcess}

Expired == {p \in Proc : harq[p].status # "INACTIVE" /\ harq[p].timer >= NumHarqProcess}

\* Mutant: the timer of a process is not counted up.
AgedWithoutCount == [p \in Proc |->
          IF p \in Expired THEN InactiveProcess(harq[p].tb) ELSE harq[p]]

Aged == [p \in Proc |->
          IF harq[p].status = "INACTIVE" THEN harq[p]
          ELSE IF p \in Expired THEN InactiveProcess(harq[p].tb)
          ELSE [harq[p] EXCEPT !.timer = @ + 1]]

(***************************************************************************)
(* MergeHARQ and the filters of DoSchedDlTriggerReq: feedback of inactive  *)
(* processes is dropped, and only the first one of a process is kept.      *)
(* Buffered NACKs precede received feedback; the order among the received  *)
(* ones is the order of arrival, left open here.                           *)
(***************************************************************************)
Known == toRetx \cup dlInfo

Heard == {p \in Proc : Aged[p].active /\ \E f \in Known : f.proc = p}

FirstFeedbacks ==
  {fb \in [Heard -> Known] :
     \A p \in Heard : /\ fb[p].proc = p
                      /\ (\E f \in toRetx : f.proc = p) => fb[p] \in toRetx}

(***************************************************************************)
(* ProcessHARQFeedbacks: an ACK, or a NACK of the last version, frees the  *)
(* process; the other NACKs are candidates for retransmission.             *)
(***************************************************************************)
\* Mutant: the retransmission limit is not looked at.
ReleasedOnAckOnly(fb) == {p \in Heard : fb[p].ack}

\* Mutant: the limit never applies once a retransmission was granted.
ReleasedIfFirstTx(fb) ==
  {p \in Heard : fb[p].ack \/ (Aged[p].rv = 0 /\ MaxHarqReTx(p[1]) = 0)}

Released(fb) == {p \in Heard : fb[p].ack \/ Aged[p].rv = MaxHarqReTx(p[1])}

Nacked(fb) == Heard \ Released(fb)

Occupied(fb) == {p \in Proc : Aged[p].active} \ Released(fb)

\* Mutant: ResetExpiredHARQ erases processes without counting them down.
UsedIgnoringExpiry(u, fb) == usedSize[u] - Count(Released(fb), u)

UsedAfterFeedback(u, fb) == usedSize[u] - Count(Expired, u) - Count(Released(fb), u)

CanInsert(u, fb) == UsedAfterFeedback(u, fb) < NumHarqProcess

\* At most one element of S per UE: one DCI per UE and slot.
OnePerUe(S) == \A p, q \in S : p[1] = q[1] => p = q

(***************************************************************************)
(* One slot of the DL scheduler: DoSlotDlIndication hands over dlInfo,     *)
(* DoSchedDlTriggerReq decides, DoSchedConfigIndication executes.          *)
(* retx: the NACKed processes that find room in the slot (the others are   *)
(* buffered); fresh: the processes inserted for new data, on any free id.  *)
(***************************************************************************)
Retransmittable(fb) == {retx \in SUBSET Nacked(fb) : OnePerUe(retx)}

\* Mutant: DoScheduleDl does not take the UEs with a retransmission off the list.
InsertableBesideRetx(fb, retx) ==
  {fresh \in SUBSET (Proc \ Occupied(fb)) :
     /\ OnePerUe(fresh)
     /\ \A p \in fresh : CanInsert(p[1], fb) /\ harq[p].tb < MaxTb}

Insertable(fb, retx) ==
  {fresh \in SUBSET (Proc \ Occupied(fb)) :
     /\ OnePerUe(fresh \cup retx)
     /\ \A p \in fresh : CanInsert(p[1], fb) /\ harq[p].tb < MaxTb}

\* ScheduleDlHarq: a NACKed process waits again, retransmitted or not.
Tried(p, sent) == [Aged[p] EXCEPT !.status = "WAITING_FEEDBACK", !.timer = 0,
                                  !.rv = IF sent THEN @ + 1 ELSE @]

ScheduledHarq(fb, retx, fresh) ==
  [p \in Proc |->
     IF p \in fresh             THEN NewProcess(harq[p].tb + 1)
     ELSE IF p \in Released(fb) THEN InactiveProcess(harq[p].tb)
     ELSE IF p \in Nacked(fb)   THEN Tried(p, p \in retx)
     ELSE Aged[p]]

Transmission(p, tb, rv) == [proc |-> p, st |-> "data", tb |-> tb, rv |-> rv, age |-> 0]

\* DoSchedConfigIndication: new data replaces the buffer, a retransmission
\* sends a copy of whatever the buffer holds (nothing, when it is empty).
SentTbs(retx, fresh) ==
  {Transmission(p, harq[p].tb + 1, 0) : p \in fresh} \cup
  {Transmission(p, buf[p], harq[p].rv + 1) : p \in {q \in retx : buf[q] # 0}}

DlTrigger ==
  /\ \A m \in air : m.age + 1 < MaxRtt
  /\ \A m \in air : m.proc[2] \in CleanIds => m.age + 2 < MaxRtt
  /\ \E fb \in FirstFeedbacks : \E retx \in Retransmittable(fb) :
     \E fresh \in Insertable(fb, retx) :
       /\ harq' = ScheduledHarq(fb, retx, fresh)
       /\ usedSize' = [u \in UEs |-> UsedAfterFeedback(u, fb) + Count(fresh, u)]
       /\ toRetx' = {fb[p] : p \in Nacked(fb) \ retx}
       /\ buf' = [p \in Proc |-> IF p \in fresh THEN harq[p].tb + 1 ELSE buf[p]]
       /\ air' = {[m EXCEPT !.age = @ + 1] : m \in air} \cup SentTbs(retx, fresh)
  /\ dlInfo' = {}
  /\ UNCHANGED <<hist, decoded>>

(***************************************************************************)
(* NrSpectrumPhy::EndRxData at the UE: the error model draws whether the   *)
(* TB is corrupted, HARQ feedback is sent and the history is arranged.     *)
(***************************************************************************)
Feedback(m, outcome) == [m EXCEPT !.st = outcome]

\* Mutant: the outcome of the decoding is reported inverted.
EndRxDataOkReportedNack(m) ==
  /\ m.st = "data"
  /\ air' = (air \ {m}) \cup {Feedback(m, "nack")}
  /\ hist' = [hist EXCEPT ![m.proc] = <<>>]
  /\ decoded' = decoded \cup {<<m.proc, m.tb>>}
  /\ UNCHANGED <<harq, usedSize, toRetx, dlInfo, buf>>

EndRxDataOk(m) ==
  /\ m.st = "data"
  /\ air' = (air \ {m}) \cup {Feedback(m, "ack")}
  /\ hist' = [hist EXCEPT ![m.proc] = <<>>]
  /\ decoded' = decoded \cup {<<m.proc, m.tb>>}
  /\ UNCHANGED <<harq, usedSize, toRetx, dlInfo, buf>>

\* Mutant: the history of a TB given up after its last version is kept.
EndRxDataCorruptedNoReset(m) ==
  /\ m.st = "data"
  /\ air' = (air \ {m}) \cup {Feedback(m, "nack")}
  /\ hist' = [hist EXCEPT ![m.proc] = Append(@, m.tb)]
  /\ UNCHANGED <<harq, usedSize, toRetx, dlInfo, buf, decoded>>

EndRxDataCorrupted(m) ==
  /\ m.st = "data"
  /\ air' = (air \ {m}) \cup {Feedback(m, "nack")}
  /\ hist' = [hist EXCEPT ![m.proc] = IF m.rv = 3 THEN <<>> ELSE Append(@, m.tb)]
  /\ UNCHANGED <<harq, usedSize, toRetx, dlInfo, buf, decoded>>

\* AddExpectedTb: a TB of which no signal arrives is forgotten without feedback.
TbUnreceived(m) ==
  /\ TbLoss /\ m.proc[2] \notin CleanIds
  /\ m.st = "data"
  /\ air' = air \ {m}
  /\ UNCHANGED <<harq, usedSize, toRetx, dlInfo, buf, hist, decoded>>

(***************************************************************************)
(* NrGnbMac::DoDlHarqFeedback: an ACK empties the buffer of the process at *)
(* once; the scheduler sees the feedback at its next trigger.              *)
(***************************************************************************)
\* Mutant: any feedback empties the buffer.
DlHarqFeedbackAlwaysClears(m) ==
  /\ m.st \in {"ack", "nack"}
  /\ air' = air \ {m}
  /\ dlInfo' = dlInfo \cup {[proc |-> m.proc, tb |-> m.tb, ack |-> m.st = "ack"]}
  /\ buf' = [buf EXCEPT ![m.proc] = 0]
  /\ UNCHANGED <<harq, usedSize, toRetx, hist, decoded>>

DlHarqFeedback(m) ==
  /\ m.st \in {"ack", "nack"}
  /\ air' = air \ {m}
  /\ dlInfo' = dlInfo \cup {[proc |-> m.proc, tb |-> m.tb, ack |-> m.st = "ack"]}
  /\ buf' = [buf EXCEPT ![m.proc] = IF m.st = "ack" THEN 0 ELSE @]
  /\ UNCHANGED <<harq, usedSize, toRetx, hist, decoded>>

Deliver(m) == EndRxDataOk(m) \/ EndRxDataCorrupted(m) \/ TbUnreceived(m) \/ DlHarqFeedback(m)

Init ==
  /\ harq = [p \in Proc |-> InactiveProcess(0)]
  /\ usedSize = [u \in UEs |-> 0]
  /\ toRetx = {}
  /\ dlInfo = {}
  /\ buf = [p \in Proc |-> 0]
  /\ air = {}
  /\ hist = [p \in Proc |-> <<>>]
  /\ decoded = {}

Next == DlTrigger \/ \E m \in air : Deliver(m)

Spec == Init /\ [][Next]_vars

\* The simulator runs every scheduled event: triggers recur, and what is in
\* the air arrives.
FairSpec == Spec /\ WF_vars(DlTrigger) /\ WF_vars(\E m \in air : Deliver(m))

(***************************************************************************)
(* Properties                                                              *)
(***************************************************************************)
Process  == [active : BOOLEAN, status : Status, timer : 0..NumHarqProcess,
             rv : 0..3, tb : 0..MaxTb]
DlInfo   == [proc : Proc, tb : 1..MaxTb, ack : BOOLEAN]
AirMsg   == [proc : Proc, st : {"data", "ack", "nack"}, tb : 1..MaxTb,
             rv : 0..3, age : 0..(MaxRtt - 1)]

\* Every variable has its type.
TypeOK ==
  /\ harq \in [Proc -> Process]
  /\ usedSize \in [UEs -> 0..NumHarqProcess]
  /\ toRetx \subseteq [proc : Proc, tb : 1..MaxTb, ack : {FALSE}]
  /\ dlInfo \subseteq DlInfo
  /\ buf \in [Proc -> 0..MaxTb]
  /\ air \subseteq AirMsg
  /\ hist \in [Proc -> Seq(1..MaxTb)]
  /\ decoded \subseteq Proc \X (1..MaxTb)

Active == {p \in Proc : harq[p].active}

\* A feedback on its way, collected or buffered concerns the TB its process
\* holds now: the DCI erased by the timer (ResetExpiredHARQ) and the next one
\* inserted on the same id never receive each other's feedback.
FeedbackMatchesProcess ==
  \A f \in air \cup dlInfo \cup toRetx :
    harq[f.proc].active /\ harq[f.proc].tb = f.tb

\* While the scheduler may still ask for a retransmission, the MAC buffer of
\* the process holds the TB of its DCI (DoDlHarqFeedback empties it on an ACK
\* that the scheduler has not read yet, DoSchedConfigIndication refills it).
RetxBufferHoldsTb ==
  \A p \in Active :
    (\E f \in dlInfo : f.proc = p /\ f.ack) \/ buf[p] = harq[p].tb

\* A TB that the UE has decoded is not sent again.
NoRetxOfDecodedTb ==
  \A m \in air : m.st = "data" => <<m.proc, m.tb>> \notin decoded

\* m_usedSize is the number of active processes: the assertion of Erase and
\* the aborts of Insert (a full vector, no id found) never fire.
UsedSizeIsExact ==
  \A u \in UEs : usedSize[u] = Count(Active, u)

\* A UE gets at most one DCI per slot, be it a retransmission or new data.
OneDciPerUeAndSlot ==
  \A m, n \in air : (m.proc[1] = n.proc[1] /\ m.age = n.age) => m = n

\* The history combined with a TB at the UE (GetTbDecodificationStats) holds
\* the earlier receptions of that TB, one per redundancy version sent so far.
\* A lost version, or a NACK read at the trigger whose timer gives the block up,
\* would leave a history behind: the claim is about the clean processes.
SoftCombiningOfOneTb ==
  \A m \in air : (m.st = "data" /\ m.proc[2] \in CleanIds)
                  => hist[m.proc] = [k \in 1..m.rv |-> m.tb]

\* No TB keeps a process for ever unless its NACK is buffered again and again.
Holds(p, tb) == harq[p].active /\ harq[p].tb = tb
Buffered(p)  == \E f \in toRetx : f.proc = p
ProcessIsReleased ==
  \A p \in Proc : \A tb \in 1..MaxTb : Holds(p, tb) ~> (~Holds(p, tb) \/ Buffered(p))

\* The loop implements the abstract HARQ service.
Service == INSTANCE HarqService WITH
  Procs     <- Proc,
  MaxTries  <- [p \in Proc |-> MaxHarqReTx(p[1]) + 1],
  cur       <- [p \in Proc |-> [tb   |-> harq[p].tb,
                                sent |-> IF harq[p].active THEN harq[p].rv + 1 ELSE 0]],
  delivered <- decoded

ImplementsService == Service!Spec
===========================================================================
