------------------------------ MODULE TddTiming ------------------------------
(***************************************************************************)
(* The slot distances that NrGnbPhy derives from a TDD pattern: where the  *)
(* DCI of a slot is sent, where the slot is scheduled, and where the HARQ  *)
(* feedback of its DL data goes.  A pattern is a sequence of slot types;   *)
(* slot n has the type at position n modulo the length.                    *)
(***************************************************************************)
EXTENDS Integers, Sequences, FiniteSets, FiniteSetsExt

CONSTANTS
  Patterns,   \* TDD patterns considered
  N1Delay,    \* least number of slots from DL data to its feedback
  N2Delay     \* least number of slots from an UL DCI to its data

Has(p, type) == \E i \in DOMAIN p : p[i] = type

\* Otherwise the bandwidth part is one half of an FDD pair.
IsTdd(p) == Has(p, "F") \/ (Has(p, "UL") <=> Has(p, "DL"))

ASSUME TddAssumption ==
  /\ IsFiniteSet(Patterns)
  /\ \A p \in Patterns : p # <<>> /\ p \in Seq({"DL", "S", "F", "UL"}) /\ IsTdd(p)
  /\ N1Delay \in Nat \ {0, 1} /\ N2Delay \in Nat \ {0}

\* Slots between scheduling and the slot that carries the DCI.
L1L2CtrlLatency == 2

SlotType(p, n) == p[(n % Len(p)) + 1]

\* ReturnHarqSlot: the first slot with an UL CTRL, N1Delay slots or more later.
HarqK1(p, n) == Min({k \in N1Delay .. N1Delay + Len(p) : SlotType(p, n + k) # "DL"})

\* Mutant: the DCI is sent least slots earlier whatever that slot is.
DciKFixed(p, n, least) == least

\* ReturnDciSlot: the last slot with a DL CTRL, least slots or more earlier.
DciK(p, n, least) == Min({k \in least .. least + Len(p) : SlotType(p, n - k) # "UL"})

\* m_toSendDl and m_toSendUl: the distances from slot n to the slots whose DCIs
\* it carries.
ToSendDl(p, n) == {k \in 0 .. Len(p) : SlotType(p, n + k) # "UL" /\ DciK(p, n + k, 0) = k}

ToSendUl(p, n) == {k \in N2Delay .. N2Delay + Len(p) :
                     SlotType(p, n + k) \in {"F", "UL"} /\ DciK(p, n + k, N2Delay) = k}

\* m_generateDl and m_generateUl: the distances from slot n to the slots it schedules.
GenerateDl(p, n) == {L1L2CtrlLatency + k : k \in ToSendDl(p, n + L1L2CtrlLatency)}
GenerateUl(p, n) == {L1L2CtrlLatency + k : k \in ToSendUl(p, n + L1L2CtrlLatency)}

\* The farthest slot ahead that is ever scheduled.
Lead == Max(UNION {UNION {GenerateDl(p, n) \cup GenerateUl(p, n) : n \in 0 .. Len(p) - 1} :
                     p \in Patterns})

=============================================================================
