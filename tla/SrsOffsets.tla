----------------------------- MODULE SrsOffsets ------------------------------
(***************************************************************************)
(* NrMacSchedulerSrsDefault and its use by the scheduler, as functions of  *)
(* their state.  avail is m_availableOffsetValues, periodicity is          *)
(* m_periodicity, and ue maps every UE of m_ueMap to its m_srsOffset and   *)
(* m_srsPeriodicity.                                                       *)
(***************************************************************************)
EXTENDS Integers, Sequences, FiniteSets, FiniteSetsExt, SequencesExt, Functions

CONSTANTS
  UEs,
  StandardPeriodicity,  \* periodicities that may be used
  StartingPeriodicity   \* attribute of the same name

ASSUME SrsAssumption == /\ StandardPeriodicity \subseteq Nat \ {0}
                        /\ StartingPeriodicity \in StandardPeriodicity

\* SetStartingPeriodicity: the offsets in random order.
Started == {[avail |-> s, periodicity |-> StartingPeriodicity, ue |-> <<>>] :
              s \in SetToSeqs(0 .. StartingPeriodicity - 1)}

Attached(srs) == DOMAIN srs.ue

AddUe(srs, u) ==
  [avail |-> Front(srs.avail), periodicity |-> srs.periodicity,
   ue |-> [v \in Attached(srs) \cup {u} |->
             IF v = u THEN [offset |-> Last(srs.avail), periodicity |-> srs.periodicity]
                      ELSE srs.ue[v]]]

\* Mutant: the offset of a released UE is not its own but the next one.
RemoveUeNext(srs, u) ==
  [avail |-> Append(srs.avail, (srs.ue[u].offset + 1) % srs.periodicity),
   periodicity |-> srs.periodicity, ue |-> Restrict(srs.ue, Attached(srs) \ {u})]

RemoveUe(srs, u) ==
  [avail |-> Append(srs.avail, srs.ue[u].offset),
   periodicity |-> srs.periodicity, ue |-> Restrict(srs.ue, Attached(srs) \ {u})]

\* SetStartingPeriodicity and ReassignSrsValue: every UE gets a new offset.
Reassigned(users, p) ==
  UNION {{[avail |-> s, periodicity |-> p,
           ue |-> [u \in users |-> [offset |-> f[u], periodicity |-> p]]] :
             s \in SetToSeqs((0 .. p - 1) \ Range(f))} : f \in Injection(users, 0 .. p - 1)}

Larger(p) == {q \in StandardPeriodicity : q > p}

\* Mutant: only the new UE gets an offset of the larger range.
IncreasedForOne(srs, u) ==
  LET p == Min(Larger(srs.periodicity)) IN
  {[avail |-> s, periodicity |-> p,
    ue |-> srs.ue @@ (u :> [offset |-> srs.periodicity, periodicity |-> p])] :
      s \in SetToSeqs((srs.periodicity + 1) .. (p - 1))}

\* The new UE is in m_ueMap already when the periodicity is increased for it.
IncreasePeriodicity(srs, u) ==
  Reassigned(Attached(srs) \cup {u}, Min(Larger(srs.periodicity)))

=============================================================================
