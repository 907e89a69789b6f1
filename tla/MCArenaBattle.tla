--------------------------- MODULE MCArenaBattle ---------------------------
(* Small instances of one arena.                                           *)
EXTENDS ArenaBattle, TLC

CONSTANTS BlueSize, RedSize
MCTeamSize == [blue |-> BlueSize, red |-> RedSize]

\* Characters are interchangeable (not used for liveness).
Symmetry == Permutations(Char)
=============================================================================
