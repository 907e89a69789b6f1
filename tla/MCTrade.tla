------------------------------ MODULE MCTrade ------------------------------
(* Small instances of trading.                                             *)
EXTENDS Trade, TLC

CONSTANTS p1, p2, p3, a, b

\* p1 has items, p2 money, p3 a little of both.
MCStart ==
    [inv  |-> [p \in Player |-> [k \in Kind |->
                 CASE p = p1 -> IF k = a THEN 2 ELSE 0
                   [] p = p2 -> IF k = b THEN 1 ELSE 0
                   [] OTHER  -> IF k = a THEN 1 ELSE 0]],
     zeny |-> [p \in Player |-> IF p = p2 THEN 1 ELSE 0]]
=============================================================================
