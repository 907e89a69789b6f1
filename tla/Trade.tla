------------------------------- MODULE Trade -------------------------------
(***************************************************************************)
(* Trading between players (src/map/trade.cpp): request, answer, offers,   *)
(* confirmation in two stages and the exchange.  Every action is one       *)
(* packet of one player handled by the single-threaded map server; between *)
(* two of them anything else may change the belongings of a player (loot   *)
(* shared by the party, skills that consume items or zeny).                *)
(*                                                                         *)
(* Items are stackable, so that a kind is one slot of the inventory, and   *)
(* each weighs 1.  The permissions, bound, rental and not tradable items   *)
(* only make a request fail and are left out.                              *)
(***************************************************************************)
EXTENDS Integers, Sequences, FiniteSets, Functions, SequencesExt

CONSTANTS
    Player,
    Kind,           \* kinds of items
    NoOne,          \* no partner: trade_partner.id = 0
    Unguarded,      \* players in a chat room or with @trade: they may request
                    \* while they trade
    MaxZeny,        \* MAX_ZENY
    MaxAmount,      \* MAX_AMOUNT of one kind
    Slots,          \* status.inventory_slots
    MaxInventory,   \* MAX_INVENTORY, at least the slots of a player
    MaxWeight,      \* max_weight
    MaxEntries,     \* entries of a trade window (10)
    Start,          \* the belongings at the start, [inv, zeny]
    MaxChanges      \* bound on changes of belongings outside of trades

ASSUME PlayerAssumption == NoOne \notin Player /\ Unguarded \subseteq Player
\* NoOne also stands for "no offer" in the abstract exchange.
ASSUME NoOfferAssumption == NoOne \notin [items : [Kind -> Int], zeny : Int]
ASSUME TradeBounds ==
    /\ MaxZeny \in Nat /\ MaxAmount \in Nat /\ Slots \in Nat /\ MaxInventory \in Nat
    /\ MaxWeight \in Nat /\ MaxEntries \in Nat /\ MaxChanges \in Nat
ASSUME StartAssumption ==
    /\ Start.inv \in [Player -> [Kind -> 0..MaxAmount]]
    /\ Start.zeny \in [Player -> 0..MaxZeny]

VARIABLES
    online,     \* players map_id2sd finds
    partner,    \* trade_partner.id
    trading,    \* state.trading
    locked,     \* state.deal_locked: 0, 1 (ok), 2 (trade)
    deal,       \* deal: entries of the window, zeny, inventory_space
    inv,        \* amount of each kind in the inventory
    zeny,       \* status.zeny
    changes     \* number of changes outside of trades

protocol == <<partner, trading, locked, deal>>
holdings == <<inv, zeny>>
vars     == <<online, protocol, holdings, changes>>

NoDeal  == [items |-> <<>>, zeny |-> 0, space |-> 0]
Sum(f)  == FoldFunction(LAMBDA a, b : a + b, 0, f)
Kinds(bag)   == {k \in Kind : bag[k] > 0}
Positions    == [i \in 1..MaxEntries |-> i]
Entry(p, i)  == IF i \in DOMAIN deal[p].items THEN <<deal[p].items[i]>> ELSE <<>>

\* Amount of kind k in the window w, and in the window of p.
AmountIn(w, k) ==
    LET at == {i \in DOMAIN w.items : w.items[i].kind = k}
    IN  IF at = {} THEN 0 ELSE w.items[CHOOSE i \in at : TRUE].amount
Offered(p, k) == AmountIn(deal[p], k)

\* map_id2sd(sd->trade_partner.id)
Target(p) == IF partner[p] \in online THEN partner[p] ELSE NoOne

Reset(f, S, v) == [p \in Player |-> IF p \in S THEN v ELSE f[p]]

-----------------------------------------------------------------------------
\* pc_additem succeeds for a player with these items.
Accepts(bag, e) ==
    /\ Sum(bag) + e.amount <= MaxWeight
    /\ IF bag[e.kind] > 0 THEN bag[e.kind] + e.amount <= MaxAmount
                          ELSE e.amount <= MaxAmount /\ Cardinality(Kinds(bag)) < Slots

\* One entry handed over: pc_additem and, if it succeeded, pc_delitem.
Give(bags, from, to, es) ==
    IF es # <<>> /\ Accepts(bags[to], es[1])
    THEN [bags EXCEPT ![to][es[1].kind] = @ + es[1].amount,
                      ![from][es[1].kind] = @ - es[1].amount]
    ELSE bags

\* The loop of trade_tradecommit over the two windows.
HandedOver(p, q) ==
    LET after[i \in 0..MaxEntries] ==
            IF i = 0 THEN inv
            ELSE Give(Give(after[i - 1], p, q, Entry(p, i)), q, p, Entry(q, i))
    IN  after[MaxEntries]

\* impossible_trade_check: more zeny or items offered than there are.
ImpossibleTrade(p) ==
    \/ deal[p].zeny > zeny[p]
    \/ \E i \in DOMAIN deal[p].items :
          deal[p].items[i].amount > inv[p][deal[p].items[i].kind]

\* trade_check works on copies of the inventories, in which a kind that is
\* given away keeps its slot; it knows neither weight nor inventory_slots.
Try(c, from, to, es) ==
    IF es = <<>> \/ ~c.ok THEN c
    ELSE LET k == es[1].kind
             n == es[1].amount
             room == IF k \in c.slots[to] THEN c.bags[to][k] + n <= MaxAmount
                                          ELSE Cardinality(c.slots[to]) < MaxInventory
         IN  [ok    |-> n <= c.bags[from][k] /\ room,
              bags  |-> [c.bags EXCEPT ![to][k] = @ + n, ![from][k] = @ - n],
              slots |-> [c.slots EXCEPT ![to] = @ \cup {k}]]

\* Mutant of TradeCheck: the zeny of the receiver is not looked at.
TradeCheckOneWay(p, q) == deal[p].zeny <= zeny[p] /\ deal[q].zeny <= zeny[q]

\* Both can pay, and both can take the money.
ZenyFits(p, q) ==
    /\ deal[p].zeny <= zeny[p] /\ zeny[q] <= MaxZeny - deal[p].zeny
    /\ deal[q].zeny <= zeny[q] /\ zeny[p] <= MaxZeny - deal[q].zeny

ItemsFit(p, q) ==
    LET Round(c, i) == Try(Try(c, p, q, Entry(p, i)), q, p, Entry(q, i))
        start == [ok |-> TRUE, bags |-> inv, slots |-> [x \in Player |-> Kinds(inv[x])]]
    IN  FoldLeft(Round, start, Positions).ok

TradeCheck(p, q) == ZenyFits(p, q) /\ ItemsFit(p, q)

-----------------------------------------------------------------------------
\* Mutant of Cancelled: the partner stays in the trade.
CancelledAlone(p) ==
    IF trading[p]
    THEN /\ partner' = Reset(partner, {p, Target(p)}, NoOne)
         /\ trading' = Reset(trading, {p}, FALSE)
         /\ locked'  = Reset(locked, {p, Target(p)}, 0)
         /\ deal'    = Reset(deal, {p, Target(p)}, NoDeal)
    ELSE /\ partner' = Reset(partner, {p, Target(p)}, NoOne)
         /\ UNCHANGED <<trading, locked, deal>>

\* trade_tradecancel.  The field inventory_space is only cleared when the next
\* trade starts; nothing reads it before.
Cancelled(p) ==
    LET both == {p, Target(p)}
    IN  /\ partner' = Reset(partner, both, NoOne)
        /\ IF trading[p]
           THEN /\ trading' = Reset(trading, both, FALSE)
                /\ locked'  = Reset(locked, both, 0)
                /\ deal'    = Reset(deal, both, NoDeal)
           ELSE UNCHANGED <<trading, locked, deal>>

Trader(p) == p \in online

\* clif_parse_TradeRequest and trade_traderequest: p asks q.
TradeRequest(p, q, far) ==
    LET cleared == Reset(partner, IF partner[p] = NoOne THEN {} ELSE {p, Target(p)}, NoOne)
    IN  /\ Trader(p) /\ Trader(q) /\ p # q
        /\ trading[p] => p \in Unguarded
        /\ partner' = IF cleared[q] # NoOne \/ far THEN cleared
                      ELSE [cleared EXCEPT ![p] = q, ![q] = p]
        /\ UNCHANGED <<online, trading, locked, deal, holdings, changes>>

\* trade_tradeack: p accepts, refuses, or answers although one of the two is
\* too far away or busy (with an NPC, a shop or the storage).
TradeAck(p, answer) ==
    LET q == Target(p)
    IN  /\ Trader(p) /\ ~trading[p] /\ partner[p] # NoOne
        /\ IF q = NoOne \/ trading[q] \/ partner[q] # p
           THEN /\ partner' = Reset(partner, {p}, NoOne)
                /\ UNCHANGED <<trading, locked, deal>>
           ELSE IF answer = "accept"
           THEN /\ trading' = Reset(trading, {p, q}, TRUE)
                /\ deal' = Reset(deal, {p, q}, NoDeal)
                /\ UNCHANGED <<partner, locked>>
           ELSE /\ partner' = Reset(partner, {p, q}, NoOne)
                /\ locked' = IF answer = "too far" THEN locked ELSE Reset(locked, {p, q}, 0)
                /\ UNCHANGED <<trading, deal>>
        /\ UNCHANGED <<online, holdings, changes>>

Answer == {"accept", "cancel", "too far", "busy"}

\* The receiver q can take n more of kind k (pc_checkadditem,
\* pc_inventoryblank, weight) next to what p has offered so far.
RoomFor(p, q, k, n) ==
    /\ inv[q][k] + n <= MaxAmount
    /\ Slots - Cardinality(Kinds(inv[q])) >= deal[p].space + 1
    /\ Sum(inv[q]) + Sum([j \in Kind |-> Offered(p, j)]) + n <= MaxWeight

\* The window of p after n more of kind k: the entry of the kind is raised, to
\* at most what the inventory holds, or a new one is made.
WindowWith(p, k, n) ==
    LET items == deal[p].items
        total == Offered(p, k) + n
    IN  IF Offered(p, k) > 0
        THEN [i \in DOMAIN items |->
                 IF items[i].kind # k THEN items[i]
                 ELSE [kind |-> k, amount |-> IF total > inv[p][k] THEN inv[p][k] ELSE total]]
        ELSE Append(items, [kind |-> k, amount |-> n])

\* Mutant of Unlocked: the window stays open after ok.
UnlockedAlways(p) == trading[p]

\* The offer of p may change: !trading or deal_locked > 0 return at once.
Unlocked(p) == trading[p] /\ locked[p] = 0

\* trade_tradeadditem; trade_count_stackable is on.
TradeAddItem(p, k, n) ==
    LET q == Target(p)
    IN  /\ Trader(p) /\ Unlocked(p)
        /\ \/ /\ q = NoOne
              /\ Cancelled(p)
           \/ /\ q # NoOne
              /\ n <= inv[p][k]
              /\ Offered(p, k) > 0 \/ Len(deal[p].items) < MaxEntries
              /\ RoomFor(p, q, k, n)
              /\ deal' = [deal EXCEPT ![p].items = WindowWith(p, k, n), ![p].space = @ + 1]
              /\ UNCHANGED <<partner, trading, locked>>
        /\ UNCHANGED <<online, holdings, changes>>

\* trade_tradeaddzeny; an amount that cannot be paid or taken ends the trade.
TradeAddZeny(p, n) ==
    LET q == Target(p)
    IN  /\ Trader(p) /\ Unlocked(p)
        /\ IF q = NoOne \/ n > zeny[p] \/ n > MaxZeny - zeny[q]
           THEN Cancelled(p)
           ELSE /\ deal' = [deal EXCEPT ![p].zeny = n]
                /\ UNCHANGED <<partner, trading, locked>>
        /\ UNCHANGED <<online, holdings, changes>>

\* trade_tradeok
TradeOk(p) ==
    /\ Trader(p) /\ Unlocked(p)
    /\ IF Target(p) = NoOne THEN Cancelled(p)
       ELSE /\ locked' = [locked EXCEPT ![p] = 1]
            /\ UNCHANGED <<partner, trading, deal>>
    /\ UNCHANGED <<online, holdings, changes>>

\* trade_tradecancel on request of p, or by clif_refresh.
TradeCancel(p) ==
    /\ Trader(p)
    /\ Cancelled(p)
    /\ UNCHANGED <<online, holdings, changes>>

\* pc_payzeny and pc_getzeny for both offers.
Paid(p, q) == [zeny EXCEPT ![p] = @ - deal[p].zeny + deal[q].zeny,
                           ![q] = @ + deal[p].zeny - deal[q].zeny]

BothReady(q) == locked[q] = 2

\* trade_tradecommit: the second player to press trade executes it.
TradeCommit(p) ==
    LET q == Target(p)
    IN  /\ Trader(p) /\ trading[p] /\ locked[p] > 0
        /\ IF q = NoOne
           THEN Cancelled(p) /\ UNCHANGED holdings
           ELSE IF ~BothReady(q)
           THEN /\ locked' = [locked EXCEPT ![p] = 2]
                /\ UNCHANGED <<partner, trading, deal, holdings>>
           ELSE IF ImpossibleTrade(p)
           THEN Cancelled(p) /\ UNCHANGED holdings
           ELSE IF ImpossibleTrade(q)
           THEN Cancelled(q) /\ UNCHANGED holdings
           ELSE IF ~TradeCheck(p, q)
           THEN Cancelled(p) /\ UNCHANGED holdings
           ELSE /\ inv'  = HandedOver(p, q)
                /\ zeny' = Paid(p, q)
                /\ partner' = Reset(partner, {p, q}, NoOne)
                /\ trading' = Reset(trading, {p, q}, FALSE)
                /\ locked'  = Reset(locked, {p, q}, 0)
                /\ deal'    = Reset(deal, {p, q}, NoDeal)
        /\ UNCHANGED <<online, changes>>

-----------------------------------------------------------------------------
\* unit_remove_map, by a warp or a logout.  The session of a player who logs
\* out is freed.
Leave(p, quits) ==
    /\ Trader(p)
    /\ IF quits
       THEN LET both == IF partner[p] = NoOne THEN {p} ELSE {p, Target(p)}
            IN  /\ online'  = online \ {p}
                /\ partner' = Reset(partner, both, NoOne)
                /\ trading' = Reset(trading, IF trading[p] THEN both ELSE {p}, FALSE)
                /\ locked'  = Reset(locked, IF trading[p] THEN both ELSE {p}, 0)
                /\ deal'    = Reset(deal, IF trading[p] THEN both ELSE {p}, NoDeal)
       ELSE /\ partner[p] # NoOne
            /\ Cancelled(p)
            /\ UNCHANGED online
    /\ UNCHANGED <<holdings, changes>>

Login(p) ==
    /\ p \notin online
    /\ online' = online \cup {p}
    /\ UNCHANGED <<protocol, holdings, changes>>

\* Items or zeny come or go while the player is online.
Elsewhere(p) ==
    /\ Trader(p)
    /\ changes < MaxChanges
    /\ changes' = changes + 1
    /\ \/ /\ \E k \in Kind :
                \/ /\ Accepts(inv[p], [kind |-> k, amount |-> 1])
                   /\ inv' = [inv EXCEPT ![p][k] = @ + 1]
                \/ /\ inv[p][k] > 0
                   /\ inv' = [inv EXCEPT ![p][k] = @ - 1]
          /\ UNCHANGED zeny
       \/ /\ \E z \in {zeny[p] - 1, zeny[p] + 1} \cap 0..MaxZeny : zeny' = [zeny EXCEPT ![p] = z]
          /\ UNCHANGED inv
    /\ UNCHANGED <<online, protocol>>

Init ==
    /\ online = Player
    /\ partner = [p \in Player |-> NoOne]
    /\ trading = [p \in Player |-> FALSE]
    /\ locked = [p \in Player |-> 0]
    /\ deal = [p \in Player |-> NoDeal]
    /\ inv = Start.inv
    /\ zeny = Start.zeny
    /\ changes = 0

Next ==
    \E p \in Player :
        \/ \E q \in Player, far \in BOOLEAN : TradeRequest(p, q, far)
        \/ \E answer \in Answer : TradeAck(p, answer)
        \/ \E k \in Kind, n \in 1..MaxAmount : TradeAddItem(p, k, n)
        \/ \E n \in 0..MaxZeny : TradeAddZeny(p, n)
        \/ TradeOk(p)
        \/ TradeCancel(p)
        \/ TradeCommit(p)
        \/ \E quits \in BOOLEAN : Leave(p, quits)
        \/ Login(p)
        \/ Elsewhere(p)

Spec == Init /\ [][Next]_vars

-----------------------------------------------------------------------------
\* Types and limits: no step of a trade makes an amount negative or larger
\* than MAX_AMOUNT or MAX_ZENY allow, whatever happens between the offers and
\* the exchange.
TradeTypeOK ==
    /\ online \subseteq Player
    /\ partner \in [Player -> Player \cup {NoOne}]
    /\ trading \in [Player -> BOOLEAN]
    /\ locked \in [Player -> 0..2]
    /\ inv \in [Player -> [Kind -> 0..MaxAmount]]
    /\ zeny \in [Player -> 0..MaxZeny]

\* Two players in a trade are in it with each other, and a locked window
\* belongs to a trade: no request, refusal, warp or logout of anybody leaves
\* one side of a trade behind, or connects it with a third player
\* (trade_partner and state.trading of two sessions, changed in seven places).
TradersAreMutual ==
    \A p \in Player :
        /\ trading[p] => /\ partner[p] \in online
                         /\ partner[partner[p]] = p
                         /\ trading[partner[p]]
        /\ locked[p] > 0 => trading[p]

\* The protocol implements the abstract exchange.
OfferIn(w)  == [items |-> [k \in Kind |-> AmountIn(w, k)], zeny |-> w.zeny]
SealedOffer == [p \in Player |-> IF locked[p] > 0 THEN OfferIn(deal[p]) ELSE NoOne]
Abstract == INSTANCE Exchange WITH sealed <- SealedOffer, NoOffer <- NoOne

\* What the partner saw when the window was locked is what changes hands, only
\* when both have pressed trade, and it leaves the giver when it reaches the
\* receiver: every step of the protocol is a step of Exchange.
ImplementsExchange == Abstract!Spec

\* A completed exchange hands over everything both players sealed.
TradeIsWhole == [][Abstract!Settled /\ holdings' # holdings => Abstract!Whole]_vars
=============================================================================
