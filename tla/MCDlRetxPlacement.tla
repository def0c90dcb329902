------------------------- MODULE MCDlRetxPlacement -------------------------
(* Small instances of DlRetxPlacement for TLC. *)
EXTENDS DlRetxPlacement, TLC

CONSTANTS ueA, ueB, id1, id2, b1, b2

\* UE A with two processes, UE B with one; and one process each.
ThreeProcs == {<<ueA, id1>>, <<ueA, id2>>, <<ueB, 0>>}
TwoProcs   == {<<ueA, 0>>, <<ueB, 0>>}

TwoBeams == {b1, b2}

\* Sound: neither the beams nor the ids of UE A's processes are ordered or named
\* by the module, and the run that uses it checks invariants only.
Symmetry == Permutations({id1, id2}) \cup Permutations(TwoBeams)
=============================================================================
