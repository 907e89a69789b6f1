--------------------------- MODULE MCArenaCombat ---------------------------
(* Small instances of a fight.                                             *)
EXTENDS ArenaCombat, TLC

\* Players of the same team are interchangeable.
Symmetry == {p \in Permutations(Player) : \A c \in Blue : p[c] \in Blue}
=============================================================================
