----------------------------- MODULE MCArena7x7 -----------------------------
(* Small instances of the match registry.                                  *)
EXTENDS Arena7x7, TLC

\* Characters, and arenas, are interchangeable.
Symmetry == Permutations(Char) \cup Permutations(Arena)
=============================================================================
