# Verification of the 5G NR module (`src/contrib/nr`)

The repository is ns-3 with the 5G-LENA `nr` module and a scenario
(`scratch/dvp`) that duplicates URLLC packets over two cells.  It is a
discrete-event simulator: one thread, and every interleaving comes from the
order in which scheduled events (slots, arrivals of packets, control messages,
timers) run.  This directory holds TLA+ models of the parts of the `nr` module
whose correctness depends on that order, their model-checking configurations,
and proofs of the theorems that hold for every configuration.

## 1. Inventory

| Component | State | Operations | Talks to | What is hard | What makes it correct |
|---|---|---|---|---|---|
| gNB scheduler, HARQ (`nr-mac-scheduler-ns3.cc`, `nr-mac-scheduler-harq-rr.cc`, `nr-mac-harq-vector.*`, `nr-mac-harq-process.h`) | `m_ueMap[*]->m_dlHarq / m_ulHarq` (process: active, status, timer, DCI with redundancy version), `m_usedSize`, `m_dlHarqToRetransmit`, `m_ulHarqToRetransmit` | `DoSchedDlTriggerReq`, `DoSchedUlTriggerReq` and what they call | gNB MAC through the SCHED SAP | timer against feedback, buffered NACKs, an id reused | feedback concerns the block its process holds; a block is granted a bounded number of times, never after success; every block ends |
| gNB scheduler, resources (`…-tdma*`, `…-ofdma*`, `…-srs-default.cc`, `…-lc-*`, `…-lcg`) | active UEs per beam, symbols/RBGs of a slot, SRS offsets, RLC reports | `ScheduleDl/Ul`, `DoScheduleDlData/UlData/UlSr/Srs`, `AssignBytesTo*LC` | HARQ scheduler | a retransmission of a shape that no longer fits; UL and DL sharing a slot | symbols of a slot are never given twice; every pending retransmission is eventually placed |
| gNB MAC (`nr-gnb-mac.cc`) | `m_miDlHarqProcessesPackets`, `m_dlHarqInfoReceived`, `m_ulHarqInfoReceived`, `m_srRntiList`, `m_ulCeReceived`, `m_macPduMap` | `DoSlotDlIndication`, `DoSlotUlIndication`, `DoDlHarqFeedback`, `DoUlHarqFeedback`, `DoSchedConfigIndication`, `DoReceivePhyPdu` | PHY, scheduler, RLC | buffer emptied by an ACK that the scheduler has not read | a retransmission copies the block of its DCI |
| UE MAC (`nr-ue-mac.cc`) | `m_srState`, `m_ulBsrReceived`, `m_miUlHarqProcessesPacket`, `m_miUlHarqProcessesPacketTimer` | `DoReportBufferStatus`, `SendSR`, `DoReceiveControlMessage` (UL DCI), `RefreshHarqProcessesPacketBuffer` | UE PHY, RLC | grants without data, SR lost, timers on both ends | the UE always retransmits the block the gNB asks for |
| UE PHY and HARQ PHY (`nr-ue-phy.cc`, `nr-spectrum-phy.cc`, `nr-harq-phy.cc`) | `m_transportBlocks`, `m_dlHistory`, `m_ulHistory`, `m_dlHarqInfo`, `m_harqIdToK1Map` | `DlData`, `AddExpectedTb`, `EndRxData`, `NotifyDlHarqFeedback`, `EnqueueDlHarqFeedback` | channel, gNB PHY | blocks never received; history kept across blocks; two streams | only versions of one block are combined; one report per process |
| gNB PHY timing (`nr-gnb-phy.cc`, `nr-phy-mac-common.*`) | TDD pattern, `m_toSendDl/Ul`, `m_generateDl/Ul`, `m_dlHarqfbPosition`, `m_slotAllocInfo`, `m_ctrlMsgs`; the UE's copy in `nr-ue-phy.cc` | `SetTddPattern`, `GenerateDciMaps`, `StartSlot`, `DoStartSlot`, `SlotAllocInfo::Merge`, `RetrieveMsgsFromDCIs` | MAC, scheduler, UE PHY | a slot is put together by two triggers in different slots; feedback slots depend on the pattern | symbols of a slot never overlap; the UEs know each slot before its data begins; feedback comes before the HARQ timer |
| SRS offsets (`nr-mac-scheduler-srs-default.cc`) | `m_availableOffsetValues`, `m_periodicity`, the offset and the periodicity in `m_ueMap` | `AddUe`, `RemoveUe`, `IncreasePeriodicity`, `ReassignSrsValue` | scheduler | offsets move between a list and the UEs; one periodicity assumed for all | every offset is free or one UE's; each UE sounds once per period |
| Attach, release, RACH (`nr-gnb-mac.cc`, `nr-mac-scheduler-ns3.cc`) | `m_rlcAttached`, `m_ueMap`, `m_rapIdRntiMap`, scheduler lists | `DoAddUe`, `DoRemoveUe`, `DoCschedUeConfigReq`, `DoCschedUeReleaseReq` | RRC | a UE released while its feedback or SR is queued | no list names a released UE |
| Channel access, BWP managers, beams | per-BWP queues, LBT state, beam cache | `RequestAccess`, `BwpManager*`, `BeamManager` | PHY, RRC | a message routed to another BWP | – |
| PDCP duplication (`src/src/lte/model/lte-pdcp.cc`) | `pdcpSequenceNumbers[100][5000]`, `m_txSequenceNumber`, `m_rxSequenceNumber`, `m_maxSeqNotifier` | `DoTransmitPdcpSdu`, `DoReceivePdu` | RLC, RRC | copies that come late; a table cleared by halves when the numbers wrap | a packet is delivered upwards once, and no new one taken for an old |
| RLC TM (`src/src/lte/model/lte-rlc-tm.cc`) | `m_txBuffer`, `m_txBufferSize`, `m_rbsTimer` | `DoTransmitPdcpPdu`, `DoNotifyTxOpportunity`, `DoReportBufferStatus`, `ExpireRbsTimer` | PDCP, MAC, scheduler | deadlines, a report whose timer others cancel | what waits is known to the scheduler and leaves |
| RLC UM (`src/src/lte/model/lte-rlc-um.cc`) | `m_txBuffer`, `m_sequenceNumber`; `m_vrUr`, `m_vrUx`, `m_vrUh`, `m_rxBuffer`, `m_sdusBuffer`, `m_keepS0`, `m_reorderingTimer` | the same, and `DoReceivePdu`, `ReassembleAndDeliver`, `ExpireReorderingTimer` | PDCP, MAC | loss, reordering and the timer, over numbers modulo 1024 | whole SDUs, in order, once; nothing waits for ever |
| Error models, AMC, interference, antennas, EESM tables | numeric | `GetTbDecodificationStats`, … | UE/gNB PHY | numeric | – |
| Helpers, traces, traffic generators, ns-3 core, network, internet and other modules | – | – | – | – | – |

`PROJECT.json` lists the same components with the status of each, and, under
`hazards`, what is hard to test in them with the line where it bites.

## 2. Plan

Done, in the order of what the scenario measures (latency and reliability of
URLLC packets):

1. **`DlHarq`** — the closed downlink HARQ loop (scheduler, gNB MAC buffers, UE
   PHY history, air), with its abstract specification **`HarqService`** and the
   proofs in **`DlHarq_proofs`** (section 3).
2. **`UlHarq`** — the uplink loop, which shares the scheduler's code but not its
   duplicate filter, its buffering or its buffers; refines `HarqService` too;
   **`UlHarq_proofs`** (section 4).
3. **`DlHarqStreams`** — two MIMO streams on one process: `DlData`'s count of
   streams, `NotifyDlHarqFeedback`, one decision per process;
   **`DlHarqStreams_proofs`** (section 5).
4. **`DlRetxPlacement`** — symbols and RBGs of `ScheduleDlHarq`, one and two
   beams; progress of a buffered retransmission (section 6).  `DlHarq` takes
   its result as a choice.  **`DlRetxPlacement_proofs`**.
5. **`GnbSlots`** — the slots of a TDD cell: it composes **`TddTiming`** (the
   slot distances derived from a pattern) and **`SrsOffsets`** (the SRS offsets of
   UEs that come and go) with the triggers, the merge and the UEs' view of a slot
   (section 7); **`GnbSlots_proofs`**, for every pattern.
6. **`PdcpDuplication`** — PDCP duplication from end to end over **`RlcTm`**, the
   RLC entity in transparent mode; **`PdcpDuplication_proofs`** (section 8).
7. **`RlcUm`** — the RLC entity in unacknowledged mode, from end to end;
   **`RlcUm_proofs`**, for every window and every size of SDU (section 9).

**`SequenceElements`** holds the lemmas about the elements of a sequence (appending,
removing, filtering, first of a kind), the ranks in a set of numbers, and folds over a
sequence, which several of the proof modules need.

Left, in the order of interest: the release of a UE whose NACKs or SRs are queued
(it needs RRC's part of the release, which decides what may still be on its way);
MIB and SIB slots and FDD pairs in `GnbSlots`; listen-before-talk; RLC AM.

Scheduling requests and buffer status reports were on the plan and are left out:
`ComputeActiveUe` counts a constant 108 bytes for every UE in the uplink, so each
UE with a free process is granted symbols in every slot whether it asked or not.
A lost SR or BSR changes sizes, never whether a UE is served.

Every safety invariant a run checks is stated by a theorem; what is left to TLC is in
section 10.

## 3. `DlHarq`

One process is the pair of a UE and a HARQ id.  A transport block (TB) is named
by its process and by a count `tb` of the insertions the process has seen: the
code has no such number, which is exactly why stale feedback could be confused,
and the properties use it to tell blocks apart.

| Variable | Code |
|---|---|
| `harq` | `HarqProcess` in `NrMacHarqVector`: `m_active`, `m_status`, `m_timer`, the redundancy version of `m_dciElement` |
| `usedSize` | `NrMacHarqVector::m_usedSize` |
| `toRetx` | `NrMacSchedulerNs3::m_dlHarqToRetransmit` |
| `dlInfo` | `NrGnbMac::m_dlHarqInfoReceived` |
| `buf` | `NrGnbMac::m_miDlHarqProcessesPackets` |
| `air` | DCI and data between gNB and UE, then the feedback on its way back (K1, L1/L2 latencies) |
| `hist` | `NrHarqPhy::m_dlHistory` |
| `decoded` | observation: blocks passed to the UE MAC |

| Action | Code |
|---|---|
| `DlTrigger` | `NrGnbMac::DoSlotDlIndication` hands the feedback over; `DoSchedDlTriggerReq`: `ResetExpiredHARQ` for every UE, `MergeHARQ`, the filters, `ProcessHARQFeedbacks`, `ScheduleDl` with `ScheduleDlHarq` and `DoScheduleDlData`; `DoSchedConfigIndication` fills or copies the MAC buffers |
| `EndRxDataOk`, `EndRxDataCorrupted` | `NrSpectrumPhy::EndRxData` with its HARQ report and history |
| `TbUnreceived` | `AddExpectedTb` replaces a block of which no signal arrived |
| `DlHarqFeedback` | `NrGnbPhy` passes the report to `NrGnbMac::DoDlHarqFeedback` |

Abstractions.  Which candidates find room in a slot is a choice (`retx`,
`fresh`), because it depends on beams, symbols and traffic; the constraint that
a UE gets one DCI per slot is kept.  The id of a new block is any free one: the
vector is an `unordered_map` and `FirstAvailableId` returns the first in its
iteration order.  `SetMaxSize` gives every UE of the cell the same number of
processes.  The result of the error model is a choice.  DCIs are not lost (they
carry the data in this simulator), and neither is feedback, which travels over
an ideal control channel.

Bounds.  `MaxTb` (blocks per process) is enough at 2 because a confusion needs
one old and one new block on the same process.  Two processes are needed for one
to be busy while the other turns around; one UE suffices because a UE's vector,
buffers and history are its own, and the proofs hold for any number.  `MaxRtt`
bounds the age, in triggers, at which a feedback is read: in the code it follows
from K0, K1, the L1/L2 latency and the TDD pattern (section 7).  `CleanIds` names
the processes that lose nothing and whose answers are one trigger earlier: soft
combining is only promised to them, because the history of a block that was given
up without a last version stays behind.

Fairness (`FairSpec`).  The simulator executes every event it has scheduled:
slots recur, so `DlTrigger` is weakly fair, and so is the arrival of what is in
the air.  Nothing is assumed about room in a slot.

### Runs

| Run | Question | States |
|---|---|---|
| `dl_harq_safe` | Are feedback, buffers and counts consistent, is a history that of one block, does a UE get one DCI per slot, does the loop implement `HarqService`, and is every process freed in the end, with lost blocks and a round trip of `NumHarqProcess + 1` triggers (the largest that is safe)? | 39,088 |

`ProcessIsReleased` excepts a NACK that is buffered over and over: the code
restarts the timer each time it tries (`harqProcess.m_timer = 0` before it looks
for room), so nothing bounds how long a retransmission waits for room.

### Two observations

* **History kept with retransmissions disabled.**  `EndRxData` clears the history
  on success or at version 3.  When the scheduler's limit is 0 (`EnableHarqReTx`
  or `EnableUrllcHarqReTx` false; `scratch/dvp/dvp.cc:474` sets the latter) a
  corrupted block ends at version 0 with its reception still in the history, and
  the next block on the process is combined with it, although
  `nr-error-model.h:124` says the history is empty on the first call.  With
  `EnableHarqReTx = FALSE` TLC finds `SoftCombiningOfOneTb` violated in
  `dl_harq_safe`; it holds with retransmissions enabled.
* **Late feedback.**  The comment at `nr-mac-scheduler-ns3.cc:2534` takes late
  feedback for feedback whose process is inactive.  If the round trip exceeds
  `NumHarqProcess + 1` triggers the process may already carry another block, which
  the feedback then frees or retransmits: hence the assumption of the proofs.
  `FeedbackBeatsTimer` of `GnbSlots` checks the other side, that the round trips
  of real patterns stay below the limit.

### Proofs (`DlHarq_proofs`)

All theorems hold for every number of UEs and processes, every `MaxTb`, both
flags and with or without lost blocks, and assume `MaxRtt <= NumHarqProcess + 1`,
the condition the second observation shows to be needed.

The invariants the runs check are not inductive.  The strengthening `IInv` adds

* `StatusOK`: `active`, `status`, `timer` and `rv` of a process agree;
* `AirOK`: what is in the air belongs to the block its process holds, and the
  age of a message equals the timer of its process — so the timer cannot fire
  before the message has arrived (this is where the bound on the round trip is
  used);
* `InfoOK`, `RetxOK`: the same for collected and buffered feedback;
* `OneFeedback`: a process has at most one thing under way: a block in the air,
  a report in the air, a collected report or a buffered NACK;
* `DecodedOK`: a decoded block has an ACK on its way or its process has moved on.

`Invariance` proves `Spec => []IInv` with a lemma per action; the other theorems
follow from it.  `Refinement` maps `harq` to the service's `cur` and `decoded` to
`delivered`, and shows every step to be a step of the service or a stutter.

The second part of the module builds on `IInv`.  `OneDci` is about the order in which
`DlTrigger` serves buffered, NACKed and new blocks: `OneFeedback` gives a process one
claim at most, and new data goes only to UEs that got no DCI before it in the slot.
`CombiningSafe` has one more hypothesis, that retransmissions are enabled; the first
observation shows why.  Its strengthening `Combining` follows a process of `CleanIds`
through the loop: its timer never fires, and its history at the UE holds exactly the
versions sent so far of the block it carries, empty when the scheduler will insert a
new one — which version 3 and success, the two cases that clear the history, are just
the outcomes after which the scheduler does so.

`ProcessIsReleased` is a liveness property under fairness and stays with TLC.

## 4. `UlHarq`

| Variable | Code |
|---|---|
| `harq` | the `HarqProcess`es of `m_ulHarq`; `sym` is the number of symbols of the DCI |
| `toRetx`, `ulInfo` | `NrMacSchedulerNs3::m_ulHarqToRetransmit`, `NrGnbMac::m_ulHarqInfoReceived`, in order |
| `reported` | the UEs with a non-empty `NrUeMac::m_ulBsrReceived` |
| `ueBuf` | `NrUeMac::m_miUlHarqProcessesPacket`: a block, or 0 for `nullptr` and for an empty burst |
| `air` | an UL DCI on its way (`dci`), then what the UE sent: a PDU, or a BSR alone |
| `hist` | `NrHarqPhy::m_ulHistory` of the gNB |
| `decoded` | observation: blocks the gNB decoded |

| Action | Code |
|---|---|
| `UlTrigger` | `DoSlotUlIndication` hands the feedback over; `DoSchedUlTriggerReq`: timers, merge, the filter of inactive processes (duplicates are not looked for), `ProcessHARQFeedbacks`, `ScheduleUl` with the loop of `ScheduleUlHarq` symbol by symbol and `DoScheduleUlData` |
| `ReportBufferStatus` | `NrUeMac::DoReportBufferStatus` |
| `SendNewData`, `TransmitRetx` | `NrUeMac::ProcessUlDci` with the BSR that `SendReportBufferStatus` adds |
| `EndRxDataOk`, `EndRxDataCorrupted`, `TbUnreceived` | decoding at the gNB, as in `DlHarq`; `DoUlHarqFeedback` follows without delay |

`DoSchedUlTriggerReq` sees feedback in the order it was collected, because the
loop of `ScheduleUlHarq` depends on it: it ends when the symbols do.  A UE may
get several retransmissions in a slot, and no new data beside one.  A UE that
has never reported a buffer sends nothing at all (sending an empty PDU is
commented out in the code), so only the timer frees the process of its grant.
`RefreshHarqProcessesPacketBuffer` has no effect in this code — the countdown of
its timer is commented out and the timer is set whenever the buffer is filled —
and is left out.

Bounds: in `ul_harq_safe` two UEs with one process each compete for two symbols,
so one NACK finds none; one of them has two blocks, the other one (`SingleTbUEs`),
which is enough for a confusion of blocks on the first while the second takes the
symbols.  The violation run has two processes of one UE.  `MaxRtt =
NumHarqProcess + 1`, as in the downlink.  Fairness (`FairSpec`): triggers recur and
what is in the air arrives; no UE is bound to report a buffer.

| Run | Question |
|---|---|
| `ul_harq_safe` | Is feedback unique and about the block of its process, does the UE retransmit that block and the gNB combine receptions of one kind, does the loop implement `HarqService`, and is every process freed in the end, even one whose NACK the scheduler forgot? (119,250 states) |
| `ul_harq_nack` (violation) | Is a NACK that finds no symbols buffered? |

`OneFeedbackOfItsTb` is what stands in for the missing duplicate filter: two
feedbacks of one process in a trigger would make `ProcessHARQFeedbacks` abort on
the second.  `ProcessIsReleased` needs no exception here: unlike the downlink, a
NACK is not buffered for ever, because a retransmission needs as many symbols as
the block had and slots of that size recur in the run (`SlotSyms` is one value).

Finding: **a NACK forgotten** (`ul_harq_nack`).  The loop of `ScheduleUlHarq` also
ends when no symbol is left; the NACKs behind are neither retransmitted nor
buffered, though the documentation says they are.  Their processes stay in
`RECEIVED_FEEDBACK` until the timer frees them (`ProcessIsReleased` shows that it
does), so the block is lost instead of delayed.

A remark without a run: `TransmitRetx` says that nothing is sent back in the
retransmission of a BSR-only block; its caller `ProcessUlDci` adds a new BSR to
it, as the model does (a `bsr` with `rv > 0`).

### Proofs (`UlHarq_proofs`)

For every number of UEs, processes and symbols, again with `MaxRtt <= NumHarqProcess
+ 1`.  `IInv` has the parts of the downlink's (`TypeInv`, what is in the air, what
was collected, one thing under way per process) and three of its own:

* collected feedback and kept NACKs are sequences without repetition of a process,
  since no filter would drop one, and merging, `ToRetransmit` and `Append` keep that;
* what the UE holds for a process is the block of the first grant or nothing, and
  which of the two decides what every later version carries;
* what the gNB has combined of the block of a process is of the kind the UE will send
  again.

`TypeCorrect` includes that the symbols left in the loop of `ScheduleUlHarq` are
never negative: `SymAvail` is a function of the position in the merged feedback, and the least
position at which it failed would contradict the one before.  `FeedbackSafe`,
`BufferSafe` and `Refinement` follow; the mapping is that of the downlink.

## 5. `DlHarqStreams`

One UE, no losses and no timers (`DlHarq` has them); per process the DCI's
streams and redundancy versions, the MAC buffer of every stream, and at the UE
the outcomes not yet reported.

| Action | Code |
|---|---|
| `DlTrigger` | feedback merged and filtered, `ProcessHARQFeedbacks` per process (largest version against the limit), `ScheduleDlHarq` for the NACKed streams or `CreateDlDci` and `DoSchedConfigIndication` for new data on one or both streams |
| `DlData` | `NrUePhy::DlData`: expected blocks and the count of streams of the HARQ id |
| `EndRxData` | `NrSpectrumPhy::EndRxData` of a stream and `NrUePhy::NotifyDlHarqFeedback` |
| `DlHarqFeedback` | the reports of one UL control symbol reach `NrGnbMac::DoDlHarqFeedback` |

`dl_streams` has two processes with two insertions each; a confusion of streams
needs one process only, the second one exercises reports of several processes
in one message.  `dl_streams_lost` is the finding: `DlData` swaps the two
branches that count streams, so the count is 1 for any DCI, every stream is
reported by itself, and the scheduler takes the first report of a process for
the whole.  An ACK first frees the process and the NACKed stream is lost; a NACK
first retransmits it.  The documentation promises the retransmission in both
cases.

### Proofs (`DlHarqStreams_proofs`)

For every number of processes, one or two streams, every limit of insertions.  The
invariant puts a process in one place at a time: DCIs on their way, the block being
received, reports on their way, reports the scheduler has.  What is in one of them is
about the block the process holds, and a stream it names (of a DCI, still expected, or
NACKed) is not decoded and has its block in the MAC buffer, which only an ACK empties.
The UE's list of outcomes is always empty between two receptions: as the count of
streams is 1, the first outcome is reported at once.  That is also why two reports of one
process may be known together, of different streams, and why `FirstReport` has to say
which of them `ProcessHARQFeedbacks` reads.  `NoUselessRetx` and `BufferSafe` are what
remains true in spite of the finding: the code may lose a stream, but it never sends a
decoded one again nor one whose buffer is gone.

## 6. `DlRetxPlacement`

The plane of a slot (symbols by RBGs) as `ScheduleDlHarq` fills it: an equal
share of the symbols for each beam with a NACK, inside a beam the processes with
most symbols first, one per UE, each reshaped to the symbols of the beam with its
area rounded up.  The order of beams and of ties is a choice.  New blocks share what is
left as `scheduler`, OFDMA or TDMA, can divide it: in OFDMA each beam gets some of the
symbols, and the UEs of the beam, all over those symbols, divide its RBGs
(`AssignRBGOFDMA`); in TDMA each UE gets whole symbols (`AssignRBGTDMA`).  Who gets how
much depends on queues and metrics and is a choice; RBGs are never notched, the default.
Feedback is atomic.  A process is `free`, `sent` or
`nacked`.  `beamOf` is the beam `GetBeamConfId` gives for a UE; it may change
between any two slots, and `DoSlotDlIndication` hands it to the scheduler before
each trigger.

| Run | Question |
|---|---|
| `dl_retx_safe` | Three processes of two UEs that change between two beams, every shape, slots of 3 symbols and of 1 (fewer than the beams): do retransmissions stay in the slot, apart from each other, one per UE, with the room of their block? (746,484 states) |
| `dl_retx_progress` | On one beam, is every NACK sent again once there is no new data? (73,632 states) |
| `dl_retx_starved` (violation) | And on two beams? |

Bounds: two RBGs are enough for rounding and for two UEs side by side, three
symbols for uneven division.  `dl_retx_safe` takes the beams and the ids of UE A's
processes as symmetric: the module neither orders nor names them, and the run checks
invariants only.  `MaxTb = 1` makes traffic finite, which
`dl_retx_progress` needs: with endless larger new blocks the descending sort may
starve a small one.  Fairness: slots with all symbols recur and every block that
was sent is answered.

Finding (`dl_retx_starved`): two NACKs on two beams, each larger than half the
slot, are buffered in every slot for as long as their beams stay apart.  Their timers restart at each try, so
the processes are not freed either.  Rounding up makes it likelier: a block of one
RBG and one symbol, retransmitted alone, is reshaped to all the symbols of the
slot and needs them all from then on.

### Proofs (`DlRetxPlacement_proofs`)

For every finite set of processes, every number of beams, every bandwidth and every
set of slot lengths up to 13 symbols, with either scheduler: `TypeCorrect`, `NoOverlap`, `RoomKept`.

The two loops of `ScheduleDlHarq` are folds over sequences whose order is a choice.  A
fold is stated as the run of values it goes through (`SequenceElements`), so that what
holds after each turn is proved turn by turn.  `Good` is what holds inside a beam: the
DCIs so far either belong to beams already done and end before the symbol at which this
beam begins, or they begin at that symbol, one UE beside the other.  All blocks of a beam
have the same symbols, so RBGs alone keep them apart; and a UE, which has one beam in a
slot, gets one DCI.  `Done` is what holds between two beams, after the symbol has moved
on by the share.  The share times the number of beams is at most the symbols of the slot;
in a slot with fewer symbols than beams the share is 0 and no retransmission fits.
`IInv` adds to the properties `VersionLeft` (a pending NACK has a redundancy version
left), without which a version could leave its type.

## 7. `GnbSlots`, `TddTiming`, `SrsOffsets`

`TddTiming` gives, for a pattern and a position in it, the slot distances that
`NrGnbPhy` keeps in its maps: `DciK` is K0 or K2 (`ReturnDciSlot`), `HarqK1` is K1
(`ReturnHarqSlot`), `ToSendDl/Ul` are `m_toSendDl/Ul`, `GenerateDl/Ul` are
`m_generateDl/Ul`.  `SrsOffsets` holds the operations of
`NrMacSchedulerSrsDefault` on the list of free offsets and on the UEs.
`GnbSlots` runs slot after slot; a slot has three parts in the code's order, the
value of `phase`.

| Variable | Code |
|---|---|
| `pattern`, `pos` | `m_tddPattern`, the slot number modulo its length |
| `alloc` | `m_currSlotAllocInfo` and `m_slotAllocInfo` of the gNB PHY, by distance from the current slot |
| `ulSym` | `m_totUlSym` in `m_ulAllocationMap` of the scheduler |
| `ctrlMsgs` | `m_ctrlMsgs` of the gNB PHY |
| `srs`, `srsSlotCounter` | `m_schedulerSrs` with the SRS part of `m_ueMap`, `m_srsSlotCounter` |
| `plan` | the slot allocations of the UE PHYs |
| `harq` | the DL processes: when they were sent, `m_timer` |
| `feedback`, `dlHarqInfo` | `EnqueueDlHarqFeedback`'s messages under way; `m_dlHarqInfoReceived` |
| `waited` | history: SRS slots since a UE sounded |

| Action | Code |
|---|---|
| `StartSlot` | `NrGnbPhy::StartSlot` and `DoStartSlot`: `CallMacForSlotIndication` for the UL slots and then the DL slot, `ScheduleUl`/`ScheduleDl` with SRS and control symbols, `SlotAllocInfo::Merge`, `RetrieveMsgsFromDCIs` |
| `DlCtrl` | the DL CTRL symbols: the gNB sends `m_ctrlMsgs`, the UEs' `PhyCtrlMessagesReceived` |
| `EndSlot` | data and UL CTRL, then the next slot: feedback is enqueued, sent and received |
| `Attach`, `Release` | `DoCschedUeConfigReq`, `DoCschedUeReleaseReq` as far as SRS offsets go |

Abstractions and bounds.  The data of a trigger is at most one DCI for one UE, of
one symbol or of all that are left: what two triggers can disagree about is how
many symbols there are, not how they are divided (`DlRetxPlacement` divides).
`MaxPending` bounds the data DCIs under way.  `SrsCounterRange` is where the model
wraps the counter; in the code it is 32 bits, which no simulation reaches.  UEs
attach and are released while no data is under way and no allocation names them.
A NACK repeats the same round trip and is not followed.  The patterns are `F`,
`DL|DL|DL|S|UL` and `DL|S|UL|UL|UL`: all slots alike, feedback from many slots in
one, and DCIs of many slots in one.  Slots have 6 symbols, periodicities are 1 and
3 instead of 2, 4, 5 … 2560: the smallest that make the second UE force an
increase and leave an offset free.  `NumHarqProcess = 6` is tight: with 5,
`FeedbackBeatsTimer` fails (the default is 20).

| Run | Question | States |
|---|---|---|
| `gnb_slots` | Do the parts of a slot fit together, are `m_numSymAlloc` and the messages what the code asserts, do UEs know their slots, does feedback beat the HARQ timer, are offsets partitioned, and does every UE sound once per period? | 241,207 |

`UeKnowsItsSlot` is where three derivations from the pattern meet: the gNB's
triggers, its DCI slots and the UE's reading of K0 and K2 (the UE takes K0 to be
0).  `UlCtrlSymbols = 1` is an assumption: `AppendCtrlSym` starts the UL CTRL at
the last symbol whatever its length.

### Proofs (`GnbSlots_proofs`)

The theorems hold for every finite set of TDD patterns of any length, every N1 of at least 2, every N2 of at least 1,
every number of symbols, SRS and control symbols that leaves room for one data symbol,
every set of UEs and every `MaxPending`; `TddAssumption` and `SlotsAssumption` list
what is assumed.

*SRS offsets.*  `OffsetsTheorem` adds to the property only types: `avail` is a
sequence of integers and `ue` a function on the attached UEs.  `AddUe` needs that
the front of an injective sequence lacks its last element, `RemoveUe` that
appending a value that is not there keeps it injective, and `IncreasePeriodicity`
that a sequence as long as a finite set and injective into it has all its elements
(`FS_Injection`), and that the larger periodicities, a set of naturals, have a
least one.

*Timing.*  From division with remainder the lemmas derive what `GenerateDciMaps`
achieves for any pattern: the search for a slot with a DL CTRL ends within one round
(`DciKOK`); a slot sends its own DL DCIs only (`SendDlOK`); the DL trigger of a slot
comes exactly two slots before it and its UL trigger exactly two slots before the slot
of its UL DCIs (`GenerateOK`); the distances do not change when both slots come nearer
(`NextSlotType`, `NextSendAt`).

*Slots.*  The invariant `SlotInv` says of each slot ahead (`SlotIs`) which triggers are
over, as a function of its distance: before both it is empty; after the UL trigger alone
its DCIs are the last `ulSym` symbols, and in a slot F those of the DL CTRL are free;
after the DL trigger its DCIs are disjoint and one of them is the DL CTRL.  That
is what lets `UlTriggered` and `DlTriggered` show that neither trigger takes a symbol
of the other.  `SilentOK` covers the slots before the first trigger, in which nothing
is sent: no UL DCI is due in them, since the trigger that would have made it would
have made the DL CTRL too.  `MessagesOK` and `PlanOK` follow the DCIs to the UEs.
`TypeCorrect`, `NoSharedSymbol`, `CountExact`, `UesKnow` and `MessagesLeave` follow.

*Round trips.*  `FeedbackInTime` assumes `RttFits`: for each position of each pattern,
fewer DL triggers than processes come from the one after that of the slot up to the
last before the feedback is read.  `gnb_slots` meets it exactly (5 triggers at most, 6
processes; with 5 TLC finds `FeedbackBeatsTimer` violated), and the default of 20
processes is far from it.  `RoundTripOK` bounds the age of a process by the number of
DL triggers so far (`DlTriggers`) and ties a report to the slot and K1 of its block.

*Soundings.*  `SoundsEveryPeriod` rests on `PeriodOK`: an attached UE that has waited for
`w` SRS slots sounds within the next `period - w`, because the counter meets its offset
within them.  A `StartSlot` counts several SRS slots at once (`SoundsAgain`): the UE
sounds at those whose rank makes the counter agree with its offset (`SoundsAtOffset`,
which needs the offsets to be partitioned) and, if there are several, waits from the last
one on.  `SrsCounterRange` is a multiple of the periodicities, so the wrap of the counter
changes no remainder; 2^32, where the code wraps, is no multiple of 5, so the theorem says
nothing of the one period in which the 32 bits overflow.

## 8. `PdcpDuplication` and `RlcTm`

`RlcTm` holds the transmitting side of `LteRlcTm` as functions of its state (buffer,
size, report timer); `PdcpDuplication` runs it between the two `LtePdcp`s of a
downlink bearer.

| Variable | Code |
|---|---|
| `sent`, `txSn`, `pend` | SDUs so far, `m_txSequenceNumber`, scheduled copies |
| `rlc`, `queue` | the RLC entity; `m_rlcTransmissionQueueSize` at the scheduler |
| `air` | PDUs in the MAC and HARQ |
| `table`, `rx` | `pdcpSequenceNumbers[m_rnti]`, `m_rxSequenceNumber` and `m_maxSeqNotifier` |
| `overdue`, `late` | time: the SDUs that have passed the RLC deadline and PDCP's 100 ms |
| `delivered`, `inTime` | observation |

| Action | Code |
|---|---|
| `DoTransmitPdcpSdu`, `SendCopy` | `LtePdcp::DoTransmitPdcpSdu` and the copies it schedules, down to `LteRlcTm::DoTransmitPdcpPdu` and the report |
| `Grant` | `AssignBytesToDlLC`, `AssignedData`, `LteRlcTm::DoNotifyTxOpportunity` |
| `RbsTimer` | `LteRlcTm::ExpireRbsTimer` |
| `DiscardDuplicate`, `FirstArrival` | the two branches of `LtePdcp::DoReceivePdu` |
| `LosePdu`, `PassDeadline`, `PassDelayLimit` | HARQ gives up; time |

Bounds.  The table has 8 numbers and is cleared below 5 at a wrap and from 5 on
when the expected number is 3, for 4096, 4000 and the numbers between 2000 and
3000.  `Lag` says how many SDUs may be sent before all PDUs of one are gone: at
most the numbers a wrap does not clear, 96 in the code and 3 here; with more, a
copy outlives its entry and is delivered again.  17 SDUs are two rounds and a bit.
Fairness: scheduled events happen, a UE with reported data is served, what is in
the air arrives or is lost.  Grants have room for a PDU: `LteRlcTm` does not
segment, and a bearer whose grants are always smaller than its PDUs stands still.

| Run | Question |
|---|---|
| `pdcp_once` | When originals stay in order, is each SDU delivered once if a PDU of it arrives in time, is the RLC buffer counted and ordered, known to the scheduler, and empty in the end? (242,511 states) |
| `pdcp_overtaken` (violation) | And when HARQ lets an original overtake another? |

Finding (`pdcp_overtaken`): `DoReceivePdu` takes a first arrival with a number
smaller than it expects for a wrap of the numbers and clears the lower part of the
table, so the copies of SDUs delivered before are delivered again.  One HARQ
retransmission is enough.  The same confusion follows the loss of the SDU with
number 4095, and number 4096, which the transmitter reaches and the header cuts to
0, makes the entry of 0 serve two SDUs.

Two more facts met here: only the first logical channel of a UE gets bytes, though
each of them counts in the quotient (`nr-mac-scheduler-lc-rr.cc:100`), and the
table is one static array for all bearers of an RNTI.  `CaDuplication` (copies over
two carriers) and `DiscardingRepetitionPacket` are not modelled.

### Proofs (`PdcpDuplication_proofs`)

Under any faults, for every size of table, buffer and grant: `TypeCorrect`,
`BufferSizeExact`, `SendsOldestFirst` (an ordered buffer stays ordered whatever is
inserted by deadline) and `BufferKnown`.  The last assumes `GrantsFit`: with a grant
smaller than the PDU at the head `DoNotifyTxOpportunity` sends nothing and starts no
timer, while `AssignedData` takes the bytes off the scheduler's count: after the last
report nobody knows of the PDU any more.

`DeliveredOnce` and `FreshDelivered` assume `Faults = {}` (the finding shows why) and
`RoomForAll`: the RLC buffer has room for the PDUs of `Lag` SDUs, which 2 MB are
in the code; with room for three PDUs or fewer TLC finds an SDU dropped at RLC whose
copies come in an order the table does not expect.  The invariant `IInv` says that
first arrivals come in the order of the SDUs, that the table is a function of the
number of SDUs that have arrived and of the round at which it was last cleared, and,
by counting the PDUs of recent SDUs, that an original never finds the buffer full.
What is needed of `Lag` is that it is at most the numbers a wrap leaves alone and at
most the numbers below the clearing window plus one; of the window, that it is not
empty (`TableAssumption`).  `PdusLeave` is liveness and stays with TLC.

The buffer is read through `Nth`, which `RlcTm` defines as the element of a position,
so that facts about a removed or inserted PDU are facts about positions.

## 9. `RlcUm`

`NrHelper` gives every bearer `LteRlcUm` unless told otherwise.  `RlcUm` has both ends
of one bearer.  A PDU is the list of segments in its data field; a segment says
which bytes of which SDU it is, which the code cannot know, and the properties
use it to tell whether what is joined belongs together.

| Variable | Code |
|---|---|
| `tx` | `m_txBuffer`, `m_txBufferSize`, `m_sequenceNumber` (as the count of PDUs), `m_rbsTimer` |
| `checks` | `PacketDeadlineTimer` events |
| `air` | PDUs in the MAC and HARQ |
| `rx` | `m_vrUr`, `m_vrUx`, `m_vrUh`, the modulus base, `m_reorderingTimer`, `m_rxBuffer`, `m_expectedSeqNumber`, `m_reassemblingState` (`waiting`), `m_keepS0`, `m_sdusBuffer`; `delivered` is what PDCP was given |
| `channel`, `sent`, `lost` | environment and observation |

| Action | Code |
|---|---|
| `DoTransmitPdcpPdu`, `PacketDeadlineTimer`, `ExpireRbsTimer` | the handlers of that name |
| `DoNotifyTxOpportunity` | the whole opportunity: SDUs are put whole or cut into the data field (`Put`, `Cut`), the rest goes back |
| `DoReceivePdu` | discard or place, move the window, advance VR(UR), reassemble, stop and start t-Reordering |
| `ExpireReorderingTimer` | t-Reordering |
| `LosePdu` | HARQ gives up |

What a buffer report says is left out: the scheduler's grants are a choice of sizes.
The sixteen branches of `ReassembleAndDeliver` become one rule (`Packets`): the first
segment is joined to what was kept, or dropped if what was before it is missing.

Bounds.  Numbers are modulo 8 with a window of 4 for 1024 and 512.  SDUs have 4
bytes and opportunities 4 or 10, so that a PDU has a half, a whole, or a whole and
a half SDU, and five SDUs make up to ten PDUs: the numbers wrap.  The sequence
numbers carry no round, so the environment must be bounded: a PDU arrives or is
lost before `HarqLag` more are sent; at most `MaxLost` are lost in a row, with
`2 * HarqLag + MaxLost <= WindowSize + 1`, because a PDU beyond the window is taken for
an old one and, after 1024 lost ones, for the one expected: PDUs under way, lost ones and
those that overtake put the one that arrives at most `2 * HarqLag + MaxLost` beyond what
was received; and a PDU waits in the reception buffer for fewer than `TimerLag` more.  A
window has two numbers at least: with one, VR(UR) would step over its upper edge before
the edge has moved.  The channel `timely` loses
nothing and lets the timer expire only when HARQ has ended for the PDUs it was
started for; `lossy` loses PDUs and lets the timer expire at any moment.

| Run | Question | States |
|---|---|---|
| `rlc_um` | Are whole SDUs delivered in order and once over both channels, is the reception buffer free of earlier rounds, and does nothing stay behind a gap? | 589,889 |

Observations, each from a change of the constants of `rlc_um`:

* With `TimerLag = 5`, one more than the window (in the code: more than 512 PDUs of a
  bearer within the 100 ms of t-Reordering), `BufferIsInWindow` fails.
  `ReassembleOutsideWindow` walks the map in plain order and stops at the first
  number inside the window; where the window wraps, PDUs outside it stay and are
  met a round later, when a new PDU of their number is discarded.  With
  `TimerLag <= WindowSize`, as in the run and the theorems, no PDU in the buffer ever
  leaves the window, so this walk is followed but finds nothing to remove.
* With `DiscardByDeadline = TRUE`, `DeliveredInOrder` fails: the timer may drop the
  rest of an SDU whose start was sent.  The receiver waits for that rest, and the
  next PDU, which begins an SDU, takes the branch "transition not possible", whose
  bytes stay in `m_sdusBuffer` and are mixed with what follows.
* Where the numbers wrap, the search for VR(UR) stops at 1024.  VR(UR) may thus be
  in the buffer itself; it is delivered with the next PDU or by the timer, which
  runs (`NothingStaysBehind`).

### Proofs (`RlcUm_proofs`)

For every window of at least two numbers, every size of SDU, of opportunities and of the
transmission buffer, any number of SDUs, both channels: `TypeCorrect`, `WindowKept` and
`NoneBehind` if `TimerLag <= WindowSize`, and `InOrder` if, besides, no SDU is discarded
by deadline.  Each hypothesis is one of the observations above: without it TLC finds the
property violated.  The run `rlc_um` meets both, with `TimerLag = WindowSize`.

The code has numbers modulo 1024 and segments; the proof has the numbers and bytes behind
them.  `IInv` says that there are (a) a stream: for each PDU sent, the position of its
first byte and the one after its last, each PDU beginning where the one before it ends
(`Sends`; with a discard timer nothing is said of where it begins); (b) the numbers of the PDUs under way
and of those in `m_rxBuffer`, so that `air` and the buffer are what the stream says of
these numbers (`Flies`, `Receives`); (c) the numbers behind VR(UR), VR(UX), VR(UH) and
the expected one, each with its remainder in the variable; (d) a bound on what was lost
since a PDU was received (`tt`).  Hence the distance of two numbers a handler compares is
less than the modulus, and the comparison of remainders says what the comparison of
numbers would (`Inside`, `SnInjective`).

Each piece of the code is one lemma about these: `DataField` (`DoNotifyTxOpportunity`
cuts off the bytes up to a position and leaves the rest), `Packets` (what is kept, joined
with a PDU that begins at the same position, is a sequence of whole SDUs and a start),
`Reassemble` over an interval of numbers or a window (the numbers in it leave the buffer in
their order), the search for VR(UR), the window moved by a new VR(UH), and t-Reordering.
`Timely` is what a channel without loss adds: what is not delivered is under way or held.

## 10. What is only model-checked

* Liveness: `ProcessIsReleased`, `NackIsResent`, `PdusLeave`, under the fairness their
  sections give.
* The four findings: each is a counterexample, which TLC shows.

## 11. Not modelled

Numeric parts (error models, AMC, interference, antennas, beamforming, CQI) decide
values that the models take as choices.  Random access and the RRC part of attach
and release are LTE code that the `nr` module calls; the scheduler's side is in
`GnbSlots` as far as offsets go.  Listen-before-talk, MIB and SIB slots and FDD
pairs are left out of `GnbSlots`; `DecreasePeriodicity` is never called.
`BwpManager*` routes without state.  RLC AM and the LTE protocol stack above are
upstream code below the scope of this project, as are the other ns-3 modules,
which make up almost all of the repository's lines.  Helpers, traces, traffic
generators and the ns-3 core are configuration, I/O or the event loop itself.
