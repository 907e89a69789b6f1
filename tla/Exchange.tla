------------------------------ MODULE Exchange ------------------------------
(***************************************************************************)
(* What trading between players promises, without its protocol: a player   *)
(* seals an offer, a sealed offer is never altered, and the belongings of  *)
(* two players change together only when both have sealed one and exactly  *)
(* what is in the two offers moves.  An entry of an offer that the         *)
(* receiver has no room for stays with its owner.                          *)
(***************************************************************************)
EXTENDS Integers

CONSTANTS Player, Kind, NoOffer

VARIABLES
    inv,      \* [Player -> [Kind -> amount]]
    zeny,     \* [Player -> amount]
    sealed    \* [Player -> NoOffer or [items : [Kind -> amount], zeny : amount]]

vars == <<inv, zeny, sealed>>

Init == sealed = [p \in Player |-> NoOffer]

\* Players confirm what they offer.
Seal(p, offer) ==
    /\ sealed[p] = NoOffer
    /\ sealed' = [sealed EXCEPT ![p] = offer]
    /\ UNCHANGED <<inv, zeny>>

\* Offers are withdrawn; nobody's belongings change.
Withdraw(S) ==
    /\ sealed' = [p \in Player |-> IF p \in S THEN NoOffer ELSE sealed[p]]
    /\ UNCHANGED <<inv, zeny>>

\* The sealed offers of p and q are exchanged, all zeny and the kinds in fromP
\* and fromQ.
Settle(p, q, fromP, fromQ) ==
    LET gives(x, S, k) == IF k \in S THEN sealed[x].items[k] ELSE 0
        change(k) == gives(q, fromQ, k) - gives(p, fromP, k)
        money     == sealed[q].zeny - sealed[p].zeny
    IN  /\ p # q
        /\ sealed[p] # NoOffer /\ sealed[q] # NoOffer
        /\ inv' = [inv EXCEPT ![p] = [k \in Kind |-> @[k] + change(k)],
                              ![q] = [k \in Kind |-> @[k] - change(k)]]
        /\ zeny' = [zeny EXCEPT ![p] = @ + money, ![q] = @ - money]
        /\ sealed' = [sealed EXCEPT ![p] = NoOffer, ![q] = NoOffer]

\* The belongings of one player change for another reason.
Other(p) ==
    /\ \A x \in Player \ {p} : inv'[x] = inv[x] /\ zeny'[x] = zeny[x]
    /\ UNCHANGED sealed

Settled ==
    \E p, q \in Player : \E fromP, fromQ \in SUBSET Kind : Settle(p, q, fromP, fromQ)

\* Everything both have sealed is exchanged.
Whole == \E p, q \in Player : Settle(p, q, Kind, Kind)

Next ==
    \/ \E p \in Player : sealed'[p] # NoOffer /\ Seal(p, sealed'[p])
    \/ Withdraw({p \in Player : sealed'[p] = NoOffer})
    \/ Settled
    \/ \E p \in Player : Other(p)

Spec == Init /\ [][Next]_vars
=============================================================================
