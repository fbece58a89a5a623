--------------------------- MODULE MCBreakpoints ---------------------------
(* Small instances of Breakpoints for TLC. *)
EXTENDS BreakpointsRefineView, TLC

CONSTANTS r0, r1, b1, b2

OneRank == {r0}
TwoRanks == {r0, r1}
OneBkpt == {b1}
TwoBkpts == {b1, b2}
None == {}

RankSymmetry == Permutations(TwoRanks)
FullSymmetry == RankSymmetry \cup Permutations(TwoBkpts)
=============================================================================
