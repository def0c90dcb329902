-------------------------- MODULE DlRetxPlacement --------------------------
(***************************************************************************)
(* Where the round-robin HARQ scheduler of the NR module places downlink   *)
(* retransmissions: a slot is a plane of symbols and resource block groups *)
(* (RBGs), its symbols are divided evenly among the beams with a NACK, and *)
(* a NACK that finds no room is buffered for the next slot.                *)
(*                                                                         *)
(* Feedback is atomic here (module DlHarq follows it through the system),  *)
(* and which UEs get new data, and how much, is a choice within what the    *)
(* OFDMA or the TDMA scheduler can make of the symbols that are left.      *)
(***************************************************************************)
EXTENDS Integers, Sequences, FiniteSets, SequencesExt

CONSTANTS
  Procs,      \* the HARQ processes: <<UE, id>>
  Beams,      \* the values of m_beamConfId
  W,          \* GetBandwidthInRbg: RBGs of a symbol
  SlotSyms,   \* the DL data symbols a slot may have (the UL part varies)
  Schedulers, \* the schedulers of new data: "ofdma", "tdma"
  MaxRv,      \* the last redundancy version
  MaxTb       \* bound of the model: new TBs per process

UEs  == {p[1] : p \in Procs}
Syms == CHOOSE n \in SlotSyms : \A k \in SlotSyms : k <= n

ASSUME ProcsAssumption == IsFiniteSet(Procs)
ASSUME PlaneAssumption == W \in Nat \ {0} /\ SlotSyms \subseteq 1..13 /\ SlotSyms # {}
ASSUME SchedulerAssumption == Schedulers \subseteq {"ofdma", "tdma"}
ASSUME BoundAssumption == MaxRv \in {0, 3} /\ MaxTb \in Nat \ {0}

VARIABLES
  scheduler, \* what the cell was configured with
  harq,  \* of every process: st, the shape sym x rbg and rv of its DCI, the
         \* area its TB was given first, and the number of TBs so far
  beamOf, \* m_beamConfId of every UE, as GetBeamConfId gives it
  slot   \* the last slot: its symbols and the DCIs of its retransmissions

vars == <<scheduler, harq, beamOf, slot>>

Freed(tb) == [st |-> "free", sym |-> 1, rbg |-> 1, rv |-> 0, area |-> 1, tb |-> tb]

\* A process is free, sent, or NACKed (its feedback received or buffered).
States == {"free", "sent", "nacked"}

\* ComputeActiveHarq: the NACKed processes by the beam of their UE.
Nacked == {p \in Procs : harq[p].st = "nacked"}
ActiveHarq(b) == {p \in Nacked : beamOf[p[1]] = b}
ActiveBeams   == {beamOf[p[1]] : p \in Nacked}

Area(p) == harq[p].sym * harq[p].rbg

\* SortDlHarq: the processes of a beam, those with most symbols first.  Ties,
\* and the order of the beams in their unordered_map, are a choice.
SortedDlHarq(S) ==
  {s \in SetToSeqs(S) :
     \A i, j \in DOMAIN s : i < j => harq[s[i]].sym >= harq[s[j]].sym}

(***************************************************************************)
(* ScheduleDlHarq: point is the starting point in the plane, ues the UEs   *)
(* of the beam that have a DCI, dcis what the slot was given.              *)
(***************************************************************************)
StartPoint == [sym |-> 0, rbg |-> 0, ues |-> {}, dcis |-> {}]

\* Mutant: the last, partly used, symbols of the block are forgotten.
FittingRbgDown(p, symPerBeam) == Area(p) \div symPerBeam

FittingRbg(p, symPerBeam) == (Area(p) + symPerBeam - 1) \div symPerBeam

\* Mutant: a block that needs all the room that is left does not fit.
FitsWithSlack(acc, p, symPerBeam) == (W - acc.rbg) * symPerBeam > Area(p)

Fits(acc, p, symPerBeam) == (W - acc.rbg) * symPerBeam >= Area(p)

HasDci(acc, p) == p[1] \in acc.ues

TryRetx(acc, p, symPerBeam) ==
  IF HasDci(acc, p) \/ ~Fits(acc, p, symPerBeam) THEN acc
  ELSE LET len == FittingRbg(p, symPerBeam) IN
       [acc EXCEPT !.rbg = @ + len,
                   !.ues = @ \cup {p[1]},
                   !.dcis = @ \cup {[proc |-> p, sym |-> acc.sym, num |-> symPerBeam,
                                     rbg |-> acc.rbg, len |-> len]}]

\* Mutant: the next beam starts at the same symbol.
SameSymbol(acc, symPerBeam) == [acc EXCEPT !.rbg = 0, !.ues = {}]

NextBeam(acc, symPerBeam) ==
  IF acc.ues = {} THEN acc
  ELSE [acc EXCEPT !.sym = @ + symPerBeam, !.rbg = 0, !.ues = {}]

ScheduleBeam(acc, order, symPerBeam) ==
  NextBeam(FoldLeft(LAMBDA a, p : TryRetx(a, p, symPerBeam), acc, order), symPerBeam)

\* orders[i] is the sorted list of the i-th beam.
ScheduleDlHarq(symAvail, orders) ==
  LET symPerBeam == symAvail \div Len(orders) IN
  FoldLeft(LAMBDA a, order : ScheduleBeam(a, order, symPerBeam), StartPoint, orders)

Placements(symAvail) ==
  IF Nacked = {} THEN {StartPoint}
  ELSE UNION {{ScheduleDlHarq(symAvail, orders) :
                 orders \in {o \in [DOMAIN beams -> SetToAllKPermutations(Nacked)] :
                    \A i \in DOMAIN beams :
                      o[i] \in SortedDlHarq(ActiveHarq(beams[i]))}} :
              beams \in SetToSeqs(ActiveBeams)}

\* DoScheduleDl: UEs without a retransmission share the symbols that are left.
Insertable(placed, symLeft) ==
  {fresh \in SUBSET {p \in Procs : harq[p].st = "free" /\ harq[p].tb < MaxTb} :
     /\ symLeft > 0 \/ fresh = {}
     /\ \A p, q \in fresh : p[1] = q[1] => p = q
     /\ \A p \in fresh : \A d \in placed.dcis : d.proc[1] # p[1]}

SumOver(S, f) == MapThenSumSet(LAMBDA x : f[x], S)

\* NrMacSchedulerTdma: whole symbols, each given to one UE.
AssignRBGTDMA(shape, symLeft) ==
  LET fresh == DOMAIN shape IN
  /\ \A p \in fresh : shape[p].rbg = W
  /\ SumOver(fresh, [p \in fresh |-> shape[p].sym]) <= symLeft

\* NrMacSchedulerOfdma: the beams share the symbols, and the UEs of a beam the RBGs.
AssignRBGOFDMA(shape, symLeft) ==
  LET fresh   == DOMAIN shape
      used    == {beamOf[p[1]] : p \in fresh}
      OfBeam(b) == {p \in fresh : beamOf[p[1]] = b}
  IN
  \E symPerBeam \in [used -> 1..symLeft] :
    /\ SumOver(used, symPerBeam) <= symLeft
    /\ \A p \in fresh : shape[p].sym = symPerBeam[beamOf[p[1]]]
    /\ \A b \in used : SumOver(OfBeam(b), [p \in fresh |-> shape[p].rbg]) <= W

\* DoScheduleDlData: the shapes of the new blocks of a slot.
Shapes(fresh, symLeft) ==
  {shape \in [fresh -> [sym : 1..symLeft, rbg : 1..W]] :
     \/ scheduler = "tdma"  /\ AssignRBGTDMA(shape, symLeft)
     \/ scheduler = "ofdma" /\ AssignRBGOFDMA(shape, symLeft)}

Resent(placed, p) == \E d \in placed.dcis : d.proc = p
DciOf(placed, p)  == CHOOSE d \in placed.dcis : d.proc = p

DlTrigger(symAvail) ==
  \E placed \in Placements(symAvail) :
  LET symLeft == symAvail - placed.sym IN
  \E fresh \in Insertable(placed, symLeft) :
  \E shape \in Shapes(fresh, symLeft) :
    /\ harq' = [p \in Procs |->
         IF p \in fresh
           THEN [st |-> "sent", sym |-> shape[p].sym, rbg |-> shape[p].rbg, rv |-> 0,
                 area |-> shape[p].sym * shape[p].rbg, tb |-> harq[p].tb + 1]
         ELSE IF Resent(placed, p)
           THEN [harq[p] EXCEPT !.st = "sent", !.rv = @ + 1,
                                !.sym = DciOf(placed, p).num, !.rbg = DciOf(placed, p).len]
         ELSE harq[p]]
    /\ slot' = [sym |-> symAvail, dcis |-> placed.dcis]
    /\ UNCHANGED <<scheduler, beamOf>>

\* The beamforming of a UE was updated; DoSlotDlIndication hands its beam to the
\* scheduler before every trigger.
ChangeBeam(u, b) ==
  /\ beamOf[u] # b
  /\ beamOf' = [beamOf EXCEPT ![u] = b]
  /\ UNCHANGED <<scheduler, harq, slot>>

\* Mutant: the limit of retransmissions is not looked at.
FeedbackNoLimit(p, ack) ==
  /\ harq[p].st = "sent"
  /\ harq' = [harq EXCEPT ![p] = IF ack THEN Freed(@.tb) ELSE [@ EXCEPT !.st = "nacked"]]
  /\ UNCHANGED <<scheduler, beamOf, slot>>

\* ProcessHARQFeedbacks.
Feedback(p, ack) ==
  /\ harq[p].st = "sent"
  /\ harq' = [harq EXCEPT ![p] = IF ack \/ harq[p].rv = MaxRv THEN Freed(@.tb)
                                  ELSE [@ EXCEPT !.st = "nacked"]]
  /\ UNCHANGED <<scheduler, beamOf, slot>>

Init ==
  /\ scheduler \in Schedulers
  /\ harq = [p \in Procs |-> Freed(0)]
  /\ beamOf \in [UEs -> Beams]
  /\ slot = [sym |-> Syms, dcis |-> {}]

Next == \/ \E symAvail \in SlotSyms : DlTrigger(symAvail)
        \/ \E u \in UEs : \E b \in Beams : ChangeBeam(u, b)
        \/ \E p \in Procs : \E ack \in BOOLEAN : Feedback(p, ack)

Spec == Init /\ [][Next]_vars

\* Slots recur, those with the fewest UL symbols among them (the TDD pattern
\* repeats), and every TB that was sent is answered.
FairSpec ==
  /\ Spec
  /\ WF_vars(DlTrigger(Syms))
  /\ \A p \in Procs : WF_vars(\E ack \in BOOLEAN : Feedback(p, ack))

(***************************************************************************)
(* Properties                                                              *)
(***************************************************************************)
\* Every variable has its type; no version beyond the last one is sent.
TypeOK ==
  /\ scheduler \in Schedulers
  /\ harq \in [Procs -> [st : States, sym : 0..Syms, rbg : Nat, rv : 0..MaxRv,
                         area : 1..(Syms * W), tb : 0..MaxTb]]
  /\ beamOf \in [UEs -> Beams]
  /\ slot.sym \in SlotSyms
  /\ slot.dcis \subseteq [proc : Procs, sym : Nat, num : 0..Syms, rbg : Nat, len : Nat]

Disjoint(d, e) == \/ d.sym + d.num <= e.sym \/ e.sym + e.num <= d.sym
                  \/ d.rbg + d.len <= e.rbg \/ e.rbg + e.len <= d.rbg

\* The retransmissions of a slot lie inside its symbols and its bandwidth and
\* never overlap, whatever shapes the first transmissions had; and a UE gets one at
\* most, although allocated UEs are looked for beam by beam.
RetxDoNotOverlap ==
  \A d \in slot.dcis :
    /\ d.sym + d.num <= slot.sym /\ d.rbg + d.len <= W
    /\ \A e \in slot.dcis : d = e \/ (Disjoint(d, e) /\ d.proc[1] # e.proc[1])

\* However often a TB is reshaped it never has less room than it was first given
\* (its TB size and MCS are kept).
RoomForTb == \A p \in Procs : harq[p].st # "free" => Area(p) >= harq[p].area

\* A NACKed TB is sent again: it does not stay buffered for ever.
NackIsResent == \A p \in Procs : (harq[p].st = "nacked") ~> (harq[p].st = "sent")
=============================================================================
