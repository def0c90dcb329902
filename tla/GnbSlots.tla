------------------------------ MODULE GnbSlots -------------------------------
(***************************************************************************)
(* The slots of one TDD cell: the gNB PHY triggers the scheduler for the   *)
(* slots ahead, merges what it decides, sends the DCIs, and the UEs place  *)
(* what they hear in their own slots, transmit and report.  Slots are      *)
(* counted from the current one: alloc[k] is the allocation of the slot    *)
(* that is k slots ahead.                                                  *)
(***************************************************************************)
EXTENDS TddTiming, SrsOffsets

CONSTANTS
  SymbolsPerSlot, DlCtrlSymbols, UlCtrlSymbols, SrsSymbols,
  NumHarqProcess,
  NoUe,           \* the RNTI 0 of a control DCI
  MaxPending,     \* bound: data DCIs under way
  SrsCounterRange \* bound: m_srsSlotCounter is kept modulo this

ASSUME SlotsAssumption ==
  /\ {SymbolsPerSlot, DlCtrlSymbols, SrsSymbols, NumHarqProcess, SrsCounterRange} \subseteq Nat \ {0}
  /\ UlCtrlSymbols = 1   \* AppendCtrlSym starts at the last symbol of the slot
  /\ SymbolsPerSlot > DlCtrlSymbols + UlCtrlSymbols + SrsSymbols
  /\ NoUe \notin UEs
  /\ \A p \in StandardPeriodicity : SrsCounterRange % p = 0

VARIABLES
  pattern,        \* m_tddPattern of the gNB and of the UEs
  pos,            \* position of the current slot in the pattern
  phase,          \* part of the current slot that comes next
  alloc,          \* m_currSlotAllocInfo (0) and m_slotAllocInfo of the gNB PHY
  ulSym,          \* m_totUlSym of m_ulAllocationMap
  ctrlMsgs,       \* m_ctrlMsgs of the gNB PHY: DCIs with K and K1
  srs,            \* m_schedulerSrs and the SRS part of m_ueMap
  srsSlotCounter,
  waited,         \* history: SRS slots since the UE's SRS, or since it got its offset
  plan,           \* m_currSlotAllocInfo and m_slotAllocInfo of the UE PHYs
  harq,           \* DL processes: slot of the transmission and m_timer; a NACK would
                  \* start the same round trip again
  feedback,       \* DL HARQ feedback the UEs have yet to send, with its slot
  dlHarqInfo      \* m_dlHarqInfoReceived: slots of the transmissions reported

vars == <<pattern, pos, phase, alloc, ulSym, ctrlMsgs, srs, srsSlotCounter, waited,
          plan, harq, feedback, dlHarqInfo>>

Ahead == 0 .. Lead
Dci(kind, ue, sym, num) == [kind |-> kind, ue |-> ue, sym |-> sym, num |-> num]
Ctrl == {"DL_CTRL", "UL_CTRL"}
Symbols(d) == d.sym .. d.sym + d.num - 1

\* The symbols of a set of DCIs in all: each counts once for every DCI that covers it.
NumSym(dcis) == Cardinality(UNION {{d} \X Symbols(d) : d \in dcis})

DlCtrlDci == Dci("DL_CTRL", NoUe, 0, DlCtrlSymbols)
UlCtrlDci == Dci("UL_CTRL", NoUe, SymbolsPerSlot - 1, UlCtrlSymbols)
EmptySlot == [dcis |-> {}, numSymAlloc |-> 0]

Type(k) == SlotType(pattern, pos + k)

Init ==
  /\ pattern \in Patterns /\ pos = 0 /\ phase = "start"
  /\ alloc = [k \in Ahead |-> EmptySlot] /\ ulSym = [k \in Ahead |-> 0]
  /\ ctrlMsgs = {} /\ plan = {} /\ harq = {} /\ feedback = {} /\ dlHarqInfo = {}
  /\ srs \in Started /\ srsSlotCounter = 0 /\ waited = [u \in UEs |-> 0]

-----------------------------------------------------------------------------
(* The scheduler. *)

\* The DCIs of the slots ahead, each with its slot.
Scheduled(slots) == UNION {{[k |-> k, dci |-> d] : d \in slots[k].dcis} : k \in Ahead}

DataUnderWay ==
  Cardinality(harq) + Cardinality({s \in Scheduled(alloc) : s.dci.kind = "UL_DATA"})

\* The data DCIs that fit in room symbols: none, one symbol or all of them for one UE.
Shares(users, room) ==
  IF DataUnderWay >= MaxPending \/ room = 0 THEN {} ELSE users \X {1, room}

\* DoScheduleSrs: the UE whose offset the counter n has reached, in the periodicity of UE b.
DueUe(n, b) ==
  LET due == {u \in Attached(srs) : srs.ue[u].offset = n % srs.ue[b].periodicity} IN
  IF due = {} THEN {NoUe} ELSE due

\* The periodicity is that of the first UE of m_ueMap, which is any of them.
SrsUe(n) == IF Attached(srs) = {} THEN {NoUe} ELSE UNION {DueUe(n, b) : b \in Attached(srs)}

LastUlSym == SymbolsPerSlot - UlCtrlSymbols
SrsDcis(u) == IF u = NoUe THEN {}
              ELSE {Dci("SRS", u, LastUlSym - i, 1) : i \in 1 .. SrsSymbols}

\* Mutant: the symbols of the SRS stay available for data.
UlRoomSrsFree(k, sounding) ==
  SymbolsPerSlot - UlCtrlSymbols - (IF Type(k) = "F" THEN DlCtrlSymbols ELSE 0)

\* The symbols left for UL data: a slot F keeps those of its DL CTRL.
UlRoom(k, sounding) ==
  SymbolsPerSlot - UlCtrlSymbols - (IF Type(k) = "F" THEN DlCtrlSymbols ELSE 0) - NumSym(sounding)

\* ScheduleUl and DoScheduleUl: from the UL CTRL at the end of the slot backwards.
UlDcisWith(k, sounding, users) ==
  {{UlCtrlDci} \cup sounding} \cup
  {{UlCtrlDci} \cup sounding \cup {Dci("UL_DATA", s[1], LastUlSym - NumSym(sounding) - s[2], s[2])} :
     s \in Shares(users, UlRoom(k, sounding))}

UlDcis(k, n) == UNION {UlDcisWith(k, SrsDcis(u), Attached(srs) \ {u}) : u \in SrsUe(n)}

\* The control DCIs that ScheduleDl adds: a slot S gets its UL CTRL here.
DlCtrlDcis(k) == {DlCtrlDci} \cup IF Type(k) = "S" THEN {UlCtrlDci} ELSE {}

\* Mutant: the UL CTRL of a slot S is not counted.
TotUlSymOfMap(k) == ulSym[k]

\* m_totUlSym as DoScheduleDl finds it.
TotUlSym(k) == ulSym[k] + IF Type(k) = "S" THEN UlCtrlSymbols ELSE 0

\* ScheduleDl and DoScheduleDl: the data follows the DL CTRL.
DlDcis(k) ==
  {DlCtrlDcis(k)} \cup
  {DlCtrlDcis(k) \cup {Dci("DL_DATA", s[1], DlCtrlSymbols, s[2])} :
     s \in Shares(Attached(srs), SymbolsPerSlot - DlCtrlSymbols - TotUlSym(k))}

\* Mutant: the DL processes age at the UL trigger of a slot as well.
AgedTwice(h) == {[p EXCEPT !.age = @ + 2] : p \in {q \in h : q.age < NumHarqProcess}}

\* ResetExpiredHARQ.
Aged(h) == {[p EXCEPT !.age = @ + 1] : p \in {q \in h : q.age < NumHarqProcess}}

-----------------------------------------------------------------------------
(* A slot. *)

\* Mutant: the symbols of the merged part are not added.
MergeKeepsNumSym(slot, dcis) ==
  [dcis |-> slot.dcis \cup dcis,
   numSymAlloc |-> IF slot.dcis = {} THEN NumSym(dcis) ELSE slot.numSymAlloc]

\* SlotAllocInfo::Merge.
Merge(slot, dcis) == [dcis |-> slot.dcis \cup dcis, numSymAlloc |-> slot.numSymAlloc + NumSym(dcis)]

\* Mutant: UL DCIs are sent N2Delay slots before their slot only.
MessagesAtN2(slots) ==
  {[k |-> m.k, k1 |-> HarqK1(pattern, pos), dci |-> m.dci] :
     m \in {s \in Scheduled(slots) :
              /\ s.dci.kind \notin Ctrl
              /\ s.k = IF s.dci.kind = "DL_DATA" THEN 0 ELSE N2Delay}}

\* RetrieveMsgsFromDCIs.
Messages(slots) ==
  {[k |-> m.k, k1 |-> HarqK1(pattern, pos), dci |-> m.dci] :
     m \in {s \in Scheduled(slots) :
              /\ s.dci.kind \notin Ctrl
              /\ s.k \in IF s.dci.kind = "DL_DATA" THEN ToSendDl(pattern, pos)
                                                   ELSE ToSendUl(pattern, pos)}}

\* The position of the trigger for slot k among the UL triggers of this slot.
Rank(k) == Cardinality({j \in GenerateUl(pattern, pos) : j <= k})

\* The slots in which UE u sounds, as the UL triggers decided.
Sounded(ul, u) == {k \in DOMAIN ul : \E d \in ul[k] : d.kind = "SRS" /\ d.ue = u}

\* StartSlot and DoStartSlot: the UL triggers in ascending order, then the DL trigger, then the
\* messages of the current slot, unless nothing is allocated in it.
StartSlot ==
  /\ phase = "start" /\ phase' = "ctrl"
  /\ LET uls == GenerateUl(pattern, pos)  dls == GenerateDl(pattern, pos)
         Counter(k) == srsSlotCounter + Rank(k)
     IN
     \E ul \in [uls -> UNION {UlDcis(k, Counter(k)) : k \in uls}],
        dl \in [dls -> UNION {DlDcis(k) : k \in dls}] :
       /\ \A k \in uls : ul[k] \in UlDcis(k, Counter(k))
       /\ \A k \in dls : dl[k] \in DlDcis(k)
       /\ LET MergeUl(k) == IF k \in uls THEN Merge(alloc[k], ul[k]) ELSE alloc[k]
              new == [k \in Ahead |-> IF k \in dls THEN Merge(MergeUl(k), dl[k]) ELSE MergeUl(k)]
              data == {k \in dls : \E d \in dl[k] : d.kind = "DL_DATA"}
          IN
          /\ alloc' = new
          /\ ulSym' = [k \in Ahead |->
               IF k \in uls THEN ulSym[k] + NumSym(ul[k])
               ELSE IF k \in dls /\ TotUlSym(k) <= UlCtrlSymbols THEN 0
               ELSE IF k \in dls THEN TotUlSym(k) ELSE ulSym[k]]
          /\ ctrlMsgs' = ctrlMsgs \cup IF new[0].dcis = {} THEN {} ELSE Messages(new)
          /\ waited' = [u \in UEs |->
               IF u \notin Attached(srs) THEN 0
               ELSE IF Sounded(ul, u) = {} THEN waited[u] + Cardinality(uls)
               ELSE Cardinality(uls) - Rank(Max(Sounded(ul, u)))]
          /\ IF dls = {} THEN UNCHANGED <<harq, dlHarqInfo>>
             ELSE /\ harq' = {p \in Aged(harq) : p.at \notin dlHarqInfo}
                             \cup {[at |-> k, age |-> 0] : k \in data}
                  /\ dlHarqInfo' = {}
  /\ srsSlotCounter' = (srsSlotCounter + Cardinality(GenerateUl(pattern, pos))) % SrsCounterRange
  /\ UNCHANGED <<pattern, pos, srs, plan, feedback>>

\* PushCtrlAllocations: where the UEs listen and speak in the current slot.
UeCtrl ==
  (IF Type(0) = "UL" THEN {} ELSE {DlCtrlDci}) \cup
  (IF Type(0) = "DL" THEN {} ELSE {Dci("UL_CTRL", NoUe, SymbolsPerSlot - UlCtrlSymbols, UlCtrlSymbols)})

\* PhyCtrlMessagesReceived: a DL DCI is for the current slot whatever its K0.
Heard(m) == [at |-> IF m.dci.kind = "DL_DATA" THEN 0 ELSE m.k, k1 |-> m.k1, dci |-> m.dci]

DlCtrl ==
  /\ phase = "ctrl" /\ phase' = "data"
  /\ IF DlCtrlDci \in alloc[0].dcis \cap UeCtrl
       THEN plan' = plan \cup {Heard(m) : m \in ctrlMsgs} /\ ctrlMsgs' = {}
       ELSE UNCHANGED <<plan, ctrlMsgs>>
  /\ UNCHANGED <<pattern, pos, alloc, ulSym, srs, srsSlotCounter, waited, harq, feedback, dlHarqInfo>>

Shift(f, empty) == [k \in Ahead |-> IF k = Lead THEN empty ELSE f[k + 1]]

\* UlCtrl of the UEs: what is due leaves at the end of a slot with an UL CTRL.
Sent == {f \in feedback : f.due <= 0 /\ \E d \in UeCtrl : d.kind = "UL_CTRL"}

\* EnqueueDlHarqFeedback: a block of this slot is reported K1 slots later.
Enqueued == {[at |-> 0, due |-> p.k1] : p \in {q \in plan : q.at = 0 /\ q.dci.kind = "DL_DATA"}}

\* The slot ends, and everything is one slot nearer.
EndSlot ==
  /\ phase = "data" /\ phase' = "start"
  /\ feedback' = {[at |-> f.at - 1, due |-> f.due - 1] : f \in (feedback \ Sent) \cup Enqueued}
  /\ dlHarqInfo' = {n - 1 : n \in dlHarqInfo \cup {f.at : f \in Sent}}
  /\ harq' = {[p EXCEPT !.at = @ - 1] : p \in harq}
  /\ plan' = {[p EXCEPT !.at = @ - 1] : p \in {q \in plan : q.at > 0}}
  /\ alloc' = Shift(alloc, EmptySlot) /\ ulSym' = Shift(ulSym, 0)
  /\ pos' = (pos + 1) % Len(pattern)
  /\ UNCHANGED <<pattern, ctrlMsgs, srs, srsSlotCounter, waited>>

-----------------------------------------------------------------------------
(* DoCschedUeConfigReq and DoCschedUeReleaseReq.  Bound: while no data is under way. *)

Attach(u) ==
  /\ phase = "start" /\ DataUnderWay = 0 /\ u \notin Attached(srs)
  /\ IF srs.avail # <<>>
       THEN srs' = AddUe(srs, u) /\ waited' = [waited EXCEPT ![u] = 0]
       ELSE /\ Larger(srs.periodicity) # {}
            /\ srs' \in IncreasePeriodicity(srs, u) /\ waited' = [v \in UEs |-> 0]
  /\ UNCHANGED <<pattern, pos, phase, alloc, ulSym, ctrlMsgs, srsSlotCounter, plan, harq,
                 feedback, dlHarqInfo>>

\* A UE is released when no DCI names it.
Release(u) ==
  /\ phase = "start" /\ DataUnderWay = 0 /\ u \in Attached(srs)
  /\ \A k \in Ahead : \A d \in alloc[k].dcis : d.ue # u
  /\ srs' = RemoveUe(srs, u) /\ waited' = [waited EXCEPT ![u] = 0]
  /\ UNCHANGED <<pattern, pos, phase, alloc, ulSym, ctrlMsgs, srsSlotCounter, plan, harq,
                 feedback, dlHarqInfo>>

Next == StartSlot \/ DlCtrl \/ EndSlot \/ \E u \in UEs : Attach(u) \/ Release(u)

Spec == Init /\ [][Next]_vars

-----------------------------------------------------------------------------
(* Invariants. *)

\* Every variable keeps its type: no count of symbols is negative, and no slot beyond
\* the reach of the triggers is allocated.
TypeOK ==
  /\ pattern \in Patterns /\ pos \in 0 .. Len(pattern) - 1 /\ phase \in {"start", "ctrl", "data"}
  /\ \A k \in Ahead : /\ alloc[k].numSymAlloc \in Nat /\ ulSym[k] \in 0 .. SymbolsPerSlot
                      /\ \A d \in alloc[k].dcis : d.sym \in Nat /\ d.num \in Nat \ {0}
                                                  /\ d.ue \in UEs \cup {NoUe}
  /\ \A m \in ctrlMsgs : m.k \in Ahead /\ m.dci.kind \notin Ctrl
  /\ srs.periodicity \in StandardPeriodicity /\ Attached(srs) \subseteq UEs
  /\ waited \in [UEs -> Nat] /\ srsSlotCounter \in 0 .. SrsCounterRange - 1
  /\ \A p \in plan : p.at \in Ahead
  /\ \A p \in harq : p.at <= Lead /\ p.age \in 0 .. NumHarqProcess

\* The allocations of a slot, made by an UL trigger and a DL trigger in different slots,
\* stay within the slot and never share a symbol.
SymbolsDisjoint ==
  \A k \in Ahead : \A d \in alloc[k].dcis :
    /\ Symbols(d) \subseteq 0 .. SymbolsPerSlot - 1
    /\ \A e \in alloc[k].dcis \ {d} : Symbols(d) \cap Symbols(e) = {}

\* m_numSymAlloc of a merged slot is the number of symbols its allocations cover, as
\* GenerateAllocationStatistics asserts (nr-gnb-phy.cc:949).
NumSymAllocIsExact ==
  \A k \in Ahead : alloc[k].numSymAlloc = Cardinality(UNION {Symbols(d) : d \in alloc[k].dcis})

\* When the data of a slot begins, the UEs know the data and SRS allocations of that
\* slot, all of them and no others, and have every CTRL of the gNB in the same symbols.
UeKnowsItsSlot ==
  phase = "data" =>
    /\ {d \in alloc[0].dcis : d.kind \notin Ctrl} = {p.dci : p \in {q \in plan : q.at = 0}}
    /\ {d \in alloc[0].dcis : d.kind \in Ctrl} \subseteq UeCtrl

\* Every control message leaves in the slot that prepared it, as DoStartSlot asserts
\* (nr-gnb-phy.cc:975).
CtrlMsgsAreSent == phase = "start" => ctrlMsgs = {}

\* The feedback of a block reaches the scheduler before the timer of its process expires.
FeedbackBeatsTimer ==
  \A n \in {f.at : f \in feedback} \cup dlHarqInfo :
    \E p \in harq : p.at = n /\ p.age < NumHarqProcess

\* The free offsets and those of the UEs are the offsets of the current periodicity, each
\* of them once, and all UEs have that periodicity, as DoScheduleSrs assumes.
OffsetsPartition ==
  /\ ToSet(srs.avail) \cup {srs.ue[u].offset : u \in Attached(srs)} = 0 .. srs.periodicity - 1
  /\ IsInjective(srs.avail)
  /\ \A u \in Attached(srs) : /\ srs.ue[u].periodicity = srs.periodicity
                              /\ srs.ue[u].offset \notin ToSet(srs.avail)
                              /\ \A v \in Attached(srs) \ {u} : srs.ue[v].offset # srs.ue[u].offset

\* Every UE sounds once in every period of SRS slots, from the slot it got its offset.
SrsEveryPeriod == \A u \in Attached(srs) : waited[u] < srs.periodicity

=============================================================================
