----------------------------- MODULE MCGnbSlots -----------------------------
(* Small instances of GnbSlots for TLC. *)
EXTENDS GnbSlots

FlexPattern == <<"F">>
MostlyDl == <<"DL", "DL", "DL", "S", "UL">>
MostlyUl == <<"DL", "S", "UL", "UL", "UL">>
SomePatterns == {FlexPattern, MostlyDl, MostlyUl}
Sym == Permutations(UEs)
=============================================================================
