----------------------------- MODULE TradeProofs -----------------------------
(***************************************************************************)
(* Trading, for any number of players, kinds and limits.  As long as       *)
(* nobody requests a trade while trading, the two sides of a trade never   *)
(* come apart.  In any case amounts stay in their limits, and the protocol *)
(* implements Exchange.                                                    *)
(***************************************************************************)
EXTENDS Trade, WellFoundedInduction, TLAPS

\* The part of the types the argument needs.
ProtocolType ==
    /\ online \subseteq Player
    /\ partner \in [Player -> Player \cup {NoOne}]
    /\ trading \in [Player -> BOOLEAN]
    /\ locked \in [Player -> 0..2]

\* Stronger than TradersAreMutual: already a request links both players, so
\* that whoever answers or cancels it finds the other one.
Linked ==
    \A p \in Player :
        /\ partner[p] # NoOne => /\ p \in online /\ partner[p] \in online
                                 /\ partner[p] # p
                                 /\ partner[partner[p]] = p
        /\ trading[p] => partner[p] # NoOne /\ trading[partner[p]]
        /\ locked[p] # 0 => trading[p]

Inv == ProtocolType /\ Linked

\* Taking some players out of a trade keeps the types.
LEMMA ResetKeepsType ==
    ASSUME ProtocolType, NEW S, NEW T,
           online' \subseteq Player,
           partner' = Reset(partner, S, NoOne),
           trading' = Reset(trading, T, FALSE) \/ trading' = trading,
           locked' = Reset(locked, T, 0) \/ locked' = locked
    PROVE  ProtocolType'
<1>1. partner' \in [Player -> Player \cup {NoOne}]
  BY DEF ProtocolType, Reset
<1>2. trading' \in [Player -> BOOLEAN]
  BY Zenon DEF ProtocolType, Reset
<1>3. locked' \in [Player -> 0..2]
  BY DEF ProtocolType, Reset
<1> QED BY <1>1, <1>2, <1>3 DEF ProtocolType

\* trade_tradecancel takes both players out, so what is left is linked.
LEMMA CancelledKeepsInv ==
    ASSUME Inv, NEW p \in Player, Cancelled(p), UNCHANGED online
    PROVE  Inv'
<1> USE PlayerAssumption
<1> DEFINE both == {p, Target(p)}
<1>1. partner[p] # NoOne => Target(p) = partner[p] /\ Target(p) \in Player
  BY DEF Inv, Linked, ProtocolType, Target
<1>2. partner' = [x \in Player |-> IF x \in both THEN NoOne ELSE partner[x]]
  BY DEF Cancelled, Reset
<1>3. CASE trading[p]
  <2>1. /\ trading' = [x \in Player |-> IF x \in both THEN FALSE ELSE trading[x]]
        /\ locked' = [x \in Player |-> IF x \in both THEN 0 ELSE locked[x]]
    BY <1>3 DEF Cancelled, Reset
  <2>2. ProtocolType'
    BY <1>3, ResetKeepsType DEF Cancelled, Inv, ProtocolType
  <2>3. Linked'
    BY <1>1, <1>2, <1>3, <2>1 DEF Inv, ProtocolType, Linked
  <2> QED BY <2>2, <2>3 DEF Inv
<1>4. CASE ~trading[p]
  <2>1. UNCHANGED <<trading, locked>>
    BY <1>4 DEF Cancelled
  <2>2. ProtocolType'
    BY <1>2, <2>1 DEF Inv, ProtocolType
  <2>3. \A x \in both : x \in Player => ~trading[x]
    BY <1>1, <1>4 DEF Inv, ProtocolType, Linked, Target
  <2>4. Linked'
    <3>1. \A x \in Player : trading'[x] = trading[x] /\ locked'[x] = locked[x]
      BY <2>1
    <3>2. \A x \in Player : trading[x] => partner'[x] = partner[x] /\ partner[x] # NoOne
      BY <1>2, <2>3 DEF Inv, Linked
    <3>3. \A x \in Player : partner'[x] # NoOne =>
             x \notin both /\ partner'[x] = partner[x] /\ partner[x] \notin both
      BY <1>1, <1>2 DEF Inv, ProtocolType, Linked, Target
    <3>4. \A x \in Player : partner'[x] # NoOne =>
             /\ x \in online' /\ partner'[x] \in online'
             /\ partner'[x] # x
             /\ partner'[partner'[x]] = x
      BY <1>2, <3>3 DEF Inv, ProtocolType, Linked
    <3>5. \A x \in Player : trading[x] => trading'[partner'[x]]
      BY <2>1, <3>2 DEF Inv, Linked
    <3> QED BY <3>1, <3>2, <3>4, <3>5 DEF Inv, Linked
  <2> QED BY <2>2, <2>4 DEF Inv
<1> QED BY <1>3, <1>4

LEMMA InitInv == Init => Inv
BY PlayerAssumption DEF Init, Inv, ProtocolType, Linked

LEMMA RequestKeepsInv ==
    ASSUME Unguarded = {}, Inv, NEW p \in Player, NEW q \in Player, NEW far \in BOOLEAN,
           TradeRequest(p, q, far)
    PROVE  Inv'
<1> USE PlayerAssumption
<1> DEFINE gone == IF partner[p] = NoOne THEN {} ELSE {p, Target(p)}
           cleared == [x \in Player |-> IF x \in gone THEN NoOne ELSE partner[x]]
<1>1. /\ p \in online /\ q \in online /\ p # q /\ ~trading[p]
      /\ partner' = IF cleared[q] # NoOne \/ far THEN cleared
                    ELSE [cleared EXCEPT ![p] = q, ![q] = p]
      /\ UNCHANGED <<online, trading, locked>>
  BY DEF TradeRequest, Trader, Reset
<1>2. partner[p] # NoOne => Target(p) = partner[p] /\ Target(p) \in Player
  BY DEF Inv, Linked, ProtocolType, Target
<1>3. cleared \in [Player -> Player \cup {NoOne}] /\ cleared[p] = NoOne
  BY <1>2 DEF Inv, ProtocolType
<1>4. \A x \in Player :
         /\ cleared[x] # NoOne => /\ x \in online /\ cleared[x] \in online
                                  /\ cleared[x] # x
                                  /\ cleared[cleared[x]] = x
         /\ trading[x] => cleared[x] # NoOne /\ trading[cleared[x]]
  BY <1>1, <1>2, <1>3 DEF Inv, ProtocolType, Linked
<1>5. CASE cleared[q] # NoOne \/ far
  BY <1>1, <1>3, <1>4, <1>5 DEF Inv, ProtocolType, Linked
<1>6. CASE cleared[q] = NoOne /\ ~far
  <2>1. partner' = [cleared EXCEPT ![p] = q, ![q] = p]
    BY <1>1, <1>6
  <2> HIDE DEF cleared
  <2>2. ProtocolType'
    BY <1>1, <1>3, <2>1 DEF Inv, ProtocolType
  <2>3. Linked'
    BY <1>1, <1>3, <1>4, <1>6, <2>1 DEF Inv, ProtocolType, Linked
  <2> QED BY <2>2, <2>3 DEF Inv
<1> QED BY <1>5, <1>6

LEMMA AckKeepsInv ==
    ASSUME Inv, NEW p \in Player, NEW answer \in Answer, TradeAck(p, answer)
    PROVE  Inv'
<1> USE PlayerAssumption
<1> DEFINE q == Target(p)
<1>1. q = partner[p] /\ q \in Player /\ q \in online /\ partner[q] = p /\ ~trading[q] /\ p # q
  BY DEF Inv, Linked, ProtocolType, Target, TradeAck, Trader
<1>2. ~trading[p] /\ UNCHANGED online
  BY DEF TradeAck
<1>3. CASE answer = "accept"
  <2>1. /\ trading' = [x \in Player |-> IF x \in {p, q} THEN TRUE ELSE trading[x]]
        /\ UNCHANGED <<partner, locked>>
    BY <1>1, <1>3 DEF TradeAck, Reset
  <2> QED BY <1>1, <1>2, <2>1 DEF Inv, ProtocolType, Linked
<1>4. CASE answer # "accept"
  <2>1. /\ partner' = [x \in Player |-> IF x \in {p, q} THEN NoOne ELSE partner[x]]
        /\ \/ locked' = locked
           \/ locked' = [x \in Player |-> IF x \in {p, q} THEN 0 ELSE locked[x]]
        /\ UNCHANGED trading
    BY <1>1, <1>4 DEF TradeAck, Reset
  <2>2. ProtocolType'
    BY <1>2, <2>1 DEF Inv, ProtocolType
  <2>3. Linked'
    BY <1>1, <1>2, <2>1 DEF Inv, ProtocolType, Linked
  <2> QED BY <2>2, <2>3 DEF Inv
<1> QED BY <1>3, <1>4

LEMMA LeaveKeepsInv ==
    ASSUME Inv, NEW p \in Player, NEW quits \in BOOLEAN, Leave(p, quits)
    PROVE  Inv'
<1> USE PlayerAssumption
<1>1. CASE ~quits
  BY <1>1, CancelledKeepsInv DEF Leave
<1>2. CASE quits
  <2> DEFINE both == IF partner[p] = NoOne THEN {p} ELSE {p, Target(p)}
             out == IF trading[p] THEN both ELSE {p}
  <2>1. /\ online' = online \ {p}
        /\ partner' = [x \in Player |-> IF x \in both THEN NoOne ELSE partner[x]]
        /\ trading' = [x \in Player |-> IF x \in out THEN FALSE ELSE trading[x]]
        /\ locked' = [x \in Player |-> IF x \in out THEN 0 ELSE locked[x]]
    BY <1>2 DEF Leave, Reset
  <2>2. partner[p] # NoOne => Target(p) = partner[p] /\ Target(p) \in Player
    BY DEF Inv, Linked, ProtocolType, Target
  <2>3. ProtocolType'
    <3>1. online' \subseteq Player
      BY <2>1 DEF Inv, ProtocolType
    <3>2. /\ partner' = Reset(partner, both, NoOne)
          /\ trading' = Reset(trading, out, FALSE)
          /\ locked' = Reset(locked, out, 0)
      BY <1>2 DEF Leave
    <3> HIDE DEF both, out
    <3> QED BY <3>1, <3>2, ResetKeepsType DEF Inv
  <2>4. Linked'
    BY <2>1, <2>2 DEF Inv, ProtocolType, Linked
  <2> QED BY <2>3, <2>4 DEF Inv
<1> QED BY <1>1, <1>2

\* The exchange ends the trade of both, like a cancellation.
LEMMA CommitKeepsInv ==
    ASSUME Inv, NEW p \in Player, TradeCommit(p)
    PROVE  Inv'
<1> USE PlayerAssumption
<1> DEFINE q == Target(p)
<1>1. q = partner[p] /\ q \in Player /\ q \in online /\ partner[q] = p /\ trading[q] /\ p # q
  BY DEF Inv, Linked, ProtocolType, Target, TradeCommit, Trader
<1>2. trading[p] /\ locked[p] > 0 /\ UNCHANGED online
  BY DEF TradeCommit
<1>3. CASE Cancelled(p) \/ Cancelled(q)
  BY <1>1, <1>2, <1>3, CancelledKeepsInv
<1>4. CASE locked' = [locked EXCEPT ![p] = 2] /\ UNCHANGED <<partner, trading>>
  BY <1>1, <1>2, <1>4 DEF Inv, ProtocolType, Linked
<1>5. CASE /\ partner' = Reset(partner, {p, q}, NoOne)
           /\ trading' = Reset(trading, {p, q}, FALSE)
           /\ locked' = Reset(locked, {p, q}, 0)
  <2>1. ProtocolType'
    BY <1>2, <1>5, ResetKeepsType DEF Inv, ProtocolType
  <2>2. Linked'
    BY <1>1, <1>2, <1>5 DEF Inv, ProtocolType, Linked, Reset
  <2> QED BY <2>1, <2>2 DEF Inv
<1> QED BY <1>1, <1>3, <1>4, <1>5 DEF TradeCommit

LEMMA NextKeepsInv ==
    ASSUME Unguarded = {}, Inv, [Next]_vars
    PROVE  Inv'
<1> USE PlayerAssumption
<1>1. CASE UNCHANGED vars
  BY <1>1 DEF vars, protocol, Inv, ProtocolType, Linked
<1>2. ASSUME NEW p \in Player, NEW k \in Kind, NEW n \in 1..MaxAmount, TradeAddItem(p, k, n)
      PROVE  Inv'
  BY <1>2, CancelledKeepsInv DEF TradeAddItem, Inv, ProtocolType, Linked
<1>3. ASSUME NEW p \in Player, NEW n \in 0..MaxZeny, TradeAddZeny(p, n)
      PROVE  Inv'
  BY <1>3, CancelledKeepsInv DEF TradeAddZeny, Inv, ProtocolType, Linked
<1>4. ASSUME NEW p \in Player, TradeOk(p)
      PROVE  Inv'
  <2>1. CASE Target(p) = NoOne
    BY <1>4, <2>1, CancelledKeepsInv DEF TradeOk
  <2>2. CASE Target(p) # NoOne
    BY <1>4, <2>2 DEF TradeOk, Unlocked, Inv, ProtocolType, Linked
  <2> QED BY <2>1, <2>2
<1>5. ASSUME NEW p \in Player, TradeCancel(p)
      PROVE  Inv'
  BY <1>5, CancelledKeepsInv DEF TradeCancel
<1>6. ASSUME NEW p \in Player, Login(p)
      PROVE  Inv'
  BY <1>6 DEF Login, protocol, Inv, ProtocolType, Linked
<1>7. ASSUME NEW p \in Player, Elsewhere(p)
      PROVE  Inv'
  BY <1>7 DEF Elsewhere, protocol, Inv, ProtocolType, Linked
<1> QED
  BY <1>1, <1>2, <1>3, <1>4, <1>5, <1>6, <1>7, RequestKeepsInv, AckKeepsInv, LeaveKeepsInv,
     CommitKeepsInv DEF Next

\* For any players and limits: if nobody may request a trade while trading,
\* the two sides of a trade are always in it with each other, whatever
\* requests, answers, warps and logouts of everybody come between
\* (trade_traderequest, trade_tradeack, trade_tradecancel, trade_tradecommit).
THEOREM TradersStayMutual ==
    ASSUME Unguarded = {}
    PROVE  Spec => []TradersAreMutual
<1>1. Inv => TradersAreMutual
  BY PlayerAssumption DEF Inv, ProtocolType, Linked, TradersAreMutual
<1>2. Inv /\ [Next]_vars => Inv'
  BY NextKeepsInv
<1> QED BY InitInv, <1>1, <1>2, PTL DEF Spec

-----------------------------------------------------------------------------
(***************************************************************************)
(* The hand-over of trade_tradecommit.  Its loop is reasoned about through  *)
(* the smallest round at which a claim fails.                              *)
(***************************************************************************)

\* The least number principle, for sets of numbers.
LEMMA SmallestOf ==
    ASSUME NEW T \in SUBSET Nat, T # {}
    PROVE  \E x \in T : \A y \in T : x <= y
<1> DEFINE Less == {ss \in Nat \X Nat : ss[1] < ss[2]}
<1>1. IsWellFoundedOn(Less, Nat)
  BY NatLessThanWellFounded, Zenon DEF OpToRel
<1>2. PICK x \in T : \A y \in T : ~ (<<y, x>> \in Less)
  <2> HIDE DEF Less
  <2> QED BY <1>1, WFMin
<1>3. \A y \in T : ~ (y < x)
  BY <1>2
<1> QED BY <1>3

\* A claim about 0..n that holds at 0 and is passed on holds everywhere.
LEMMA UpTo ==
    ASSUME NEW n \in Nat, NEW S \in SUBSET (0..n),
           0 \in S, \A i \in 1..n : i - 1 \in S => i \in S
    PROVE  S = 0..n
<1> SUFFICES ASSUME (0..n) \ S # {} PROVE FALSE
  OBVIOUS
<1> DEFINE T == (0..n) \ S
<1>0. T \in SUBSET Nat /\ T # {}
  OBVIOUS
<1>1. PICK x \in T : \A y \in T : x <= y
  <2> HIDE DEF T
  <2> QED BY <1>0, SmallestOf
<1>2. x # 0 /\ x \in 1..n /\ x - 1 \in 0..n
  BY <1>1
<1>3. x - 1 \in S
  BY <1>1, <1>2
<1> QED BY <1>1, <1>2, <1>3

Bags == [Player -> [Kind -> 0..MaxAmount]]
Item == [kind : Kind, amount : Nat \ {0}]

\* What the window of a player looks like: no kind twice, and no entry empty.
WindowOK(w) ==
    /\ w \in [items : Seq(Item), zeny : Nat, space : Nat]
    /\ Len(w.items) <= MaxEntries
    /\ \A i, j \in DOMAIN w.items : w.items[i].kind = w.items[j].kind => i = j
Windows == deal \in [Player -> [items : Seq(Item), zeny : Nat, space : Nat]]
           /\ \A p \in Player : WindowOK(deal[p])
Goods   == inv \in Bags /\ zeny \in [Player -> 0..MaxZeny]

\* The kinds in the first i entries of the window of x.
Shown(x, i) == {k \in Kind : \E j \in DOMAIN deal[x].items : j <= i /\ deal[x].items[j].kind = k}

\* The belongings after p has given the kinds in A and q those in B.
Gives(x, S, k) == IF k \in S THEN Offered(x, k) ELSE 0
Traded(p, q, A, B) ==
    [x \in Player |-> [k \in Kind |->
        IF x = p THEN inv[x][k] + Gives(q, B, k) - Gives(p, A, k)
        ELSE IF x = q THEN inv[x][k] + Gives(p, A, k) - Gives(q, B, k)
        ELSE inv[x][k]]]

\* The amount of a kind in a window is that of its only entry.
LEMMA OfferedFacts ==
    ASSUME Windows, NEW p \in Player
    PROVE  /\ \A k \in Kind : Offered(p, k) \in Nat
           /\ \A i \in DOMAIN deal[p].items :
                 /\ deal[p].items[i] \in Item
                 /\ Offered(p, deal[p].items[i].kind) = deal[p].items[i].amount
           /\ \A k \in Kind : Offered(p, k) > 0 <=>
                 \E i \in DOMAIN deal[p].items : deal[p].items[i].kind = k
<1> DEFINE items == deal[p].items
           At(k) == {i \in DOMAIN items : items[i].kind = k}
<1>1. WindowOK(deal[p]) /\ items \in Seq(Item) /\ DOMAIN items = 1..Len(items)
  BY DEF Windows, WindowOK
<1>2. \A i \in DOMAIN items : items[i] \in Item /\ items[i].amount \in Nat \ {0} /\ items[i].kind \in Kind
  <2>1. \A i \in DOMAIN items : items[i] \in Item
    <3> HIDE DEF items
    <3> QED BY <1>1
  <2> QED BY <2>1 DEF Item
<1>3. \A k : Offered(p, k) = IF At(k) = {} THEN 0 ELSE items[CHOOSE i \in At(k) : TRUE].amount
  BY DEF Offered, AmountIn
<1>4. \A k : At(k) # {} => (CHOOSE i \in At(k) : TRUE) \in At(k)
  OBVIOUS
<1>5. \A i \in DOMAIN items : Offered(p, items[i].kind) = items[i].amount
  <2>1. TAKE i \in DOMAIN items
  <2>2. i \in At(items[i].kind)
    OBVIOUS
  <2>3. (CHOOSE j \in At(items[i].kind) : TRUE) = i
    BY <1>1, <1>4, <2>2 DEF WindowOK
  <2> QED BY <1>3, <2>2, <2>3
<1>6. \A k : At(k) = {} => Offered(p, k) = 0
  BY <1>3
<1> HIDE DEF At
<1>7. \A k \in Kind : Offered(p, k) \in Nat /\ (Offered(p, k) > 0 <=> \E i \in DOMAIN items : items[i].kind = k)
  <2>1. TAKE k \in Kind
  <2>2. CASE At(k) = {}
    BY <1>6, <2>2 DEF At
  <2>3. CASE At(k) # {}
    <3>1. PICK i \in DOMAIN items : items[i].kind = k
      BY <2>3 DEF At
    <3> QED BY <1>2, <1>5, <3>1
  <2> QED BY <2>2, <2>3
<1> QED BY <1>2, <1>5, <1>7

\* n pieces of kind k0 move from p to q.
Passed(bags, p, q, k0, n) == [bags EXCEPT ![q][k0] = @ + n, ![p][k0] = @ - n]
Has(bags, p, q, k0, n, x, k) == IF k = k0 /\ x = q THEN bags[x][k] + n
                                ELSE IF k = k0 /\ x = p THEN bags[x][k] - n
                                ELSE bags[x][k]

\* Who has what afterwards.
LEMMA MoveFacts ==
    ASSUME NEW bags \in [Player -> [Kind -> Int]], NEW p \in Player, NEW q \in Player, p # q,
           NEW k0 \in Kind, NEW n \in Int
    PROVE  Passed(bags, p, q, k0, n) = [x \in Player |-> [k \in Kind |-> Has(bags, p, q, k0, n, x, k)]]
<1> DEFINE g == [bags EXCEPT ![q] = [bags[q] EXCEPT ![k0] = bags[q][k0] + n]]
           h == [g EXCEPT ![p] = [g[p] EXCEPT ![k0] = bags[p][k0] - n]]
           m(x) == [k \in Kind |-> Has(bags, p, q, k0, n, x, k)]
<1> USE DEF Has
<1>1. \A x \in Player : bags[x] \in [Kind -> Int]
  OBVIOUS
<1>2. h = [x \in Player |-> h[x]] /\ g = [x \in Player |-> g[x]]
  OBVIOUS
<1>3. g[q] = m(q)
  BY <1>1
<1>4. h[q] = m(q)
  BY <1>3
<1>5. g[p] = bags[p]
  OBVIOUS
<1>6. h[p] = [bags[p] EXCEPT ![k0] = bags[p][k0] - n]
  BY <1>5
<1>7. h[p] = m(p)
  BY <1>1, <1>6
<1>8. \A x \in Player : x # p /\ x # q => h[x] = bags[x] /\ bags[x] = m(x)
  BY <1>1
<1>9. \A x \in Player : h[x] = m(x)
  BY <1>4, <1>7, <1>8
<1>10. h = [x \in Player |-> m(x)]
  <2> HIDE DEF h, m
  <2> QED BY <1>2, <1>9
<1> QED BY <1>10 DEF Passed

\* One player hands over one entry of its window, or keeps it.
LEMMA GiveStep ==
    ASSUME Windows, inv \in Bags, NEW p \in Player, NEW q \in Player, p # q, ~ImpossibleTrade(p),
           NEW A \in SUBSET Kind, NEW B \in SUBSET Kind, NEW i \in 1..MaxEntries,
           A \subseteq Shown(p, i - 1), Traded(p, q, A, B) \in Bags
    PROVE  \E C \in SUBSET Kind :
              /\ C \subseteq Shown(p, i)
              /\ Give(Traded(p, q, A, B), p, q, Entry(p, i)) = Traded(p, q, C, B)
              /\ Traded(p, q, C, B) \in Bags
<1> DEFINE items == deal[p].items
           bags  == Traded(p, q, A, B)
           e     == items[i]
           C     == A \cup {e.kind}
<1>1. Shown(p, i - 1) \subseteq Shown(p, i)
  <2>1. WindowOK(deal[p]) /\ DOMAIN items = 1..Len(items) /\ Len(items) \in Nat
    BY DEF Windows, WindowOK
  <2> QED BY <2>1, TradeBounds DEF Shown
<1>2. CASE ~(i \in DOMAIN items /\ Accepts(bags[q], e))
  <2>1. Give(bags, p, q, Entry(p, i)) = bags
    BY <1>2 DEF Give, Entry
  <2> QED BY <1>1, <2>1
<1>3. CASE i \in DOMAIN items /\ Accepts(bags[q], e)
  <2>1. /\ e \in Item /\ e.kind \in Kind /\ e.amount \in Nat /\ Offered(p, e.kind) = e.amount
        /\ e.amount <= inv[p][e.kind]
    <3>1. e \in Item /\ Offered(p, e.kind) = e.amount
      BY <1>3, OfferedFacts
    <3>2. ~(e.amount > inv[p][e.kind])
      BY <1>3 DEF ImpossibleTrade
    <3>3. e.kind \in Kind /\ e.amount \in Nat
      BY <3>1 DEF Item
    <3>4. inv[p][e.kind] \in Nat
      BY <3>3, TradeBounds DEF Bags
    <3> QED BY <3>1, <3>2, <3>3, <3>4
  <2>2. e.kind \notin A
    <3>1. SUFFICES ASSUME e.kind \in Shown(p, i - 1) PROVE FALSE
      OBVIOUS
    <3>2. PICK j \in DOMAIN items : j <= i - 1 /\ items[j].kind = e.kind
      BY <3>1 DEF Shown
    <3>3. j = i
      BY <1>3, <3>2 DEF Windows, WindowOK
    <3> QED BY <3>2, <3>3
  <2>3. C \in SUBSET Kind /\ C \subseteq Shown(p, i)
    <3>1. e.kind \in Shown(p, i)
      BY <1>3, <2>1 DEF Shown
    <3> QED BY <1>1, <2>1, <3>1
  <2>4. Give(bags, p, q, Entry(p, i))
           = Passed(bags, p, q, e.kind, e.amount)
    <3>1. Entry(p, i) = <<e>> /\ Entry(p, i) # <<>> /\ Entry(p, i)[1] = e
      BY <1>3 DEF Entry
    <3> HIDE DEF bags, e
    <3> QED BY <1>3, <3>1 DEF Give, Passed
  <2>5. \A x \in Player, k \in Kind :
           /\ inv[x][k] \in Nat /\ bags[x][k] \in 0..MaxAmount
           /\ Gives(p, A, k) \in Nat /\ Gives(p, C, k) \in Nat /\ Gives(q, B, k) \in Nat
           /\ Gives(p, C, k) = IF k = e.kind THEN e.amount ELSE Gives(p, A, k)
           /\ k = e.kind => Gives(p, A, k) = 0
    <3>1. \A k \in Kind : Offered(p, k) \in Nat /\ Offered(q, k) \in Nat
      BY OfferedFacts
    <3>2. \A x \in Player, k \in Kind : inv[x][k] \in Nat /\ bags[x][k] \in 0..MaxAmount
      BY TradeBounds DEF Bags
    <3>3. \A k \in Kind :
           /\ Gives(p, A, k) \in Nat /\ Gives(p, C, k) \in Nat /\ Gives(q, B, k) \in Nat
           /\ Gives(p, C, k) = IF k = e.kind THEN e.amount ELSE Gives(p, A, k)
           /\ k = e.kind => Gives(p, A, k) = 0
      BY <2>1, <2>2, <3>1 DEF Gives
    <3> QED BY <3>2, <3>3
  <2>6. Traded(p, q, C, B)
           = Passed(bags, p, q, e.kind, e.amount)
    <3> DEFINE f == Passed(bags, p, q, e.kind, e.amount)
    <3>1. bags \in [Player -> [Kind -> Int]]
      BY TradeBounds DEF Bags
    <3>2. f = [x \in Player |-> [k \in Kind |-> Has(bags, p, q, e.kind, e.amount, x, k)]]
      <4>1. e.kind \in Kind /\ e.amount \in Int
        BY <2>1
      <4> HIDE DEF bags, e
      <4> QED BY <3>1, <4>1, MoveFacts
    <3>3. \A x \in Player, k \in Kind :
             bags[x][k] = IF x = p THEN inv[x][k] + Gives(q, B, k) - Gives(p, A, k)
                          ELSE IF x = q THEN inv[x][k] + Gives(p, A, k) - Gives(q, B, k)
                          ELSE inv[x][k]
      BY DEF Traded
    <3>4. \A x \in Player, k \in Kind :
             Traded(p, q, C, B)[x][k]
                        = IF x = p THEN inv[x][k] + Gives(q, B, k) - Gives(p, C, k)
                          ELSE IF x = q THEN inv[x][k] + Gives(p, C, k) - Gives(q, B, k)
                          ELSE inv[x][k]
      BY DEF Traded
    <3>5. \A x \in Player, k \in Kind :
             Traded(p, q, C, B)[x][k] = Has(bags, p, q, e.kind, e.amount, x, k)
      <4> TAKE x \in Player, k \in Kind
      <4> DEFINE a == Gives(p, A, k)
                 b == Gives(q, B, k)
                 c == Gives(p, C, k)
                 n == e.amount
      <4>1. /\ inv[x][k] \in Nat /\ a \in Nat /\ b \in Nat /\ c \in Nat /\ n \in Nat
            /\ c = IF k = e.kind THEN n ELSE a
            /\ k = e.kind => a = 0
        BY <2>1, <2>5
      <4>2. bags[x][k] = IF x = p THEN inv[x][k] + b - a
                         ELSE IF x = q THEN inv[x][k] + a - b ELSE inv[x][k]
        BY <3>3
      <4>3. Traded(p, q, C, B)[x][k]
              = IF x = p THEN inv[x][k] + b - c
                ELSE IF x = q THEN inv[x][k] + c - b ELSE inv[x][k]
        BY <3>4
      <4> HIDE DEF a, b, c, n, bags, C
      <4>4. CASE x = p
        BY <4>1, <4>2, <4>3, <4>4 DEF n, Has
      <4>5. CASE x = q
        BY <4>1, <4>2, <4>3, <4>5 DEF n, Has
      <4>6. CASE x # p /\ x # q
        BY <4>2, <4>3, <4>6 DEF Has
      <4> QED BY <4>4, <4>5, <4>6
    <3>6. Traded(p, q, C, B) = [x \in Player |-> [k \in Kind |-> Traded(p, q, C, B)[x][k]]]
      BY DEF Traded
    <3> HIDE DEF f, bags, e, C
    <3>7. Traded(p, q, C, B) = f
      BY <3>2, <3>5, <3>6
    <3> QED BY <3>7 DEF f
  <2>7. Traded(p, q, C, B) \in Bags
    <3>1. bags[q][e.kind] + e.amount <= MaxAmount
      <4>1. bags[q][e.kind] \in Nat
        BY <2>1, <2>5
      <4>2. \/ bags[q][e.kind] + e.amount <= MaxAmount
            \/ ~(bags[q][e.kind] > 0) /\ e.amount <= MaxAmount
        BY <1>3 DEF Accepts
      <4> HIDE DEF bags, e
      <4> QED BY <2>1, <4>1, <4>2
    <3>2. bags[p][e.kind] - e.amount >= 0
      <4>1. bags[p][e.kind] = inv[p][e.kind] + Gives(q, B, e.kind) - Gives(p, A, e.kind)
        BY <2>1 DEF Traded
      <4> HIDE DEF bags, e
      <4> QED BY <2>1, <2>5, <4>1
    <3> HIDE DEF bags, e, C
    <3>3. bags \in [Player -> [Kind -> Int]]
      BY TradeBounds DEF Bags, bags
    <3>4. Traded(p, q, C, B)
             = [x \in Player |-> [k \in Kind |-> Has(bags, p, q, e.kind, e.amount, x, k)]]
      <4>1. e.kind \in Kind /\ e.amount \in Int
        BY <2>1
      <4>2. Passed(bags, p, q, e.kind, e.amount)
               = [x \in Player |-> [k \in Kind |-> Has(bags, p, q, e.kind, e.amount, x, k)]]
        BY <3>3, <4>1, MoveFacts
      <4> QED BY <2>6, <4>2
    <3>5. \A x \in Player, k \in Kind :
             Has(bags, p, q, e.kind, e.amount, x, k) \in 0..MaxAmount
      <4> TAKE x \in Player, k \in Kind
      <4>1. bags[x][k] \in 0..MaxAmount /\ e.amount \in Nat
        BY <2>1, <2>5
      <4> QED BY <3>1, <3>2, <4>1, TradeBounds DEF Has
    <3> QED BY <3>4, <3>5 DEF Bags
  <2> QED BY <2>3, <2>4, <2>6, <2>7
<1> QED BY <1>2, <1>3

\* The two sides of a trade are alike.
LEMMA TradedSwap ==
    ASSUME NEW p \in Player, NEW q \in Player, p # q, NEW A, NEW B
    PROVE  Traded(p, q, A, B) = Traded(q, p, B, A)
BY DEF Traded

\* The belongings after i rounds of the loop, and one round of it.
AfterRounds(bags, p, q, i) ==
    \E A, B \in SUBSET Kind : /\ A \subseteq Shown(p, i) /\ B \subseteq Shown(q, i)
                              /\ bags = Traded(p, q, A, B) /\ bags \in Bags
OneRound(bags, p, q, i) == Give(Give(bags, p, q, Entry(p, i)), q, p, Entry(q, i))

\* In each round each of the two hands over its entry or keeps it.
LEMMA RoundStep ==
    ASSUME Windows, inv \in Bags, NEW p \in Player, NEW q \in Player, p # q,
           ~ImpossibleTrade(p), ~ImpossibleTrade(q),
           NEW i \in 1..MaxEntries, NEW bags, AfterRounds(bags, p, q, i - 1)
    PROVE  AfterRounds(OneRound(bags, p, q, i), p, q, i)
<1>1. PICK A \in SUBSET Kind, B \in SUBSET Kind :
          /\ A \subseteq Shown(p, i - 1) /\ B \subseteq Shown(q, i - 1)
          /\ bags = Traded(p, q, A, B) /\ bags \in Bags
  BY DEF AfterRounds
<1>2. PICK C \in SUBSET Kind : /\ C \subseteq Shown(p, i)
                               /\ Give(bags, p, q, Entry(p, i)) = Traded(p, q, C, B)
                               /\ Traded(p, q, C, B) \in Bags
  BY <1>1, GiveStep
<1>3. Traded(q, p, B, C) \in Bags /\ Traded(p, q, C, B) = Traded(q, p, B, C)
  BY <1>2, TradedSwap
<1>4. PICK D \in SUBSET Kind : /\ D \subseteq Shown(q, i)
                               /\ Give(Traded(q, p, B, C), q, p, Entry(q, i)) = Traded(q, p, D, C)
                               /\ Traded(q, p, D, C) \in Bags
  BY <1>1, <1>3, GiveStep
<1>5. Traded(q, p, D, C) = Traded(p, q, C, D)
  BY TradedSwap
<1>6. OneRound(bags, p, q, i) = Traded(p, q, C, D) /\ Traded(p, q, C, D) \in Bags
  BY <1>2, <1>3, <1>4, <1>5 DEF OneRound
<1> QED BY <1>2, <1>4, <1>6 DEF AfterRounds

\* The whole loop: whoever pays with what it shows, some kinds of both windows
\* change hands, completely, and all amounts stay in their limits.
LEMMA HandOver ==
    ASSUME Windows, inv \in Bags, NEW p \in Player, NEW q \in Player, p # q,
           ~ImpossibleTrade(p), ~ImpossibleTrade(q)
    PROVE  \E A, B \in SUBSET Kind :
              HandedOver(p, q) = Traded(p, q, A, B) /\ Traded(p, q, A, B) \in Bags
<1> DEFINE N == MaxEntries
           Run(g, n) == /\ g \in [0..n -> Bags] /\ g[0] = inv
                        /\ \A i \in 1..n : g[i] = OneRound(g[i - 1], p, q, i)
           S == {n \in 0..N : \E g \in [0..n -> Bags] : Run(g, n) /\ AfterRounds(g[n], p, q, n)}
           Loop(f) == f = [i \in 0..N |-> IF i = 0 THEN inv ELSE OneRound(f[i - 1], p, q, i)]
<1>1. N \in Nat /\ S \in SUBSET (0..N)
  BY TradeBounds
<1>2. AfterRounds(inv, p, q, 0)
  <2>1. inv = [x \in Player |-> [k \in Kind |-> inv[x][k]]] /\ \A x \in Player, k \in Kind : inv[x][k] \in Nat
    BY TradeBounds DEF Bags
  <2>2. \A k \in Kind : Gives(p, {}, k) = 0 /\ Gives(q, {}, k) = 0
    BY DEF Gives
  <2>3. Traded(p, q, {}, {}) = inv
    BY <2>1, <2>2 DEF Traded
  <2> QED BY <2>3 DEF AfterRounds
<1>3. 0 \in S
  <2> DEFINE g == [i \in 0..0 |-> inv]
  <2>1. g \in [0..0 -> Bags] /\ g[0] = inv
    OBVIOUS
  <2>2. Run(g, 0)
    BY <2>1
  <2>3. AfterRounds(g[0], p, q, 0) /\ 0 \in 0..N
    BY <1>1, <1>2, <2>1
  <2> HIDE DEF g, Run
  <2> QED BY <2>1, <2>2, <2>3
<1>4. ASSUME NEW n \in 1..N, n - 1 \in S PROVE n \in S
  <2>1. PICK h \in [0..(n - 1) -> Bags] : Run(h, n - 1) /\ AfterRounds(h[n - 1], p, q, n - 1)
    BY <1>4
  <2> DEFINE b == OneRound(h[n - 1], p, q, n)
             g == [i \in 0..n |-> IF i = n THEN b ELSE h[i]]
  <2>2. AfterRounds(b, p, q, n)
    BY <2>1, RoundStep
  <2>3. b \in Bags
    BY <2>2 DEF AfterRounds
  <2> HIDE DEF b
  <2>4. g \in [0..n -> Bags] /\ g[n] = b /\ \A i \in 0..(n - 1) : g[i] = h[i]
    BY <1>1, <2>3
  <2>5. g[0] = inv
    BY <1>1, <2>1, <2>4
  <2>6. \A i \in 1..n : g[i] = OneRound(g[i - 1], p, q, i)
    <3> TAKE i \in 1..n
    <3>1. CASE i = n
      BY <1>1, <2>4, <3>1 DEF b
    <3>2. CASE i # n
      <4>1. i \in 1..(n - 1) /\ i \in 0..(n - 1) /\ i - 1 \in 0..(n - 1)
        BY <1>1, <3>2
      <4>2. h[i] = OneRound(h[i - 1], p, q, i)
        BY <2>1, <4>1
      <4> QED BY <2>4, <4>1, <4>2
    <3> QED BY <3>1, <3>2
  <2> HIDE DEF g
  <2>7. Run(g, n)
    BY <2>4, <2>5, <2>6
  <2>8. n \in 0..N
    BY <1>1
  <2> QED BY <2>2, <2>4, <2>7, <2>8
<1>5. S = 0..N
  <2> HIDE DEF S
  <2> QED BY <1>1, <1>3, <1>4, UpTo
<1>6. PICK g \in [0..N -> Bags] : Run(g, N) /\ AfterRounds(g[N], p, q, N)
  <2>1. N \in S
    BY <1>1, <1>5
  <2> QED BY <2>1
<1>7. Loop(g)
  <2>1. g = [i \in 0..N |-> g[i]]
    OBVIOUS
  <2>2. \A i \in 0..N : g[i] = IF i = 0 THEN inv ELSE OneRound(g[i - 1], p, q, i)
    BY <1>1, <1>6
  <2> QED BY <2>1, <2>2
<1> DEFINE after == CHOOSE f : Loop(f)
<1>8. Loop(after)
  <2> HIDE DEF Loop
  <2> QED BY <1>7
<1>9. HandedOver(p, q) = after[N]
  BY DEF HandedOver, OneRound
<1> HIDE DEF after
<1>10. /\ after[0] = inv
       /\ \A i \in 1..N : after[i] = OneRound(after[i - 1], p, q, i)
  <2>1. \A i \in 0..N : after[i] = IF i = 0 THEN inv ELSE OneRound(after[i - 1], p, q, i)
    BY <1>8
  <2> QED BY <1>1, <2>1
<1> DEFINE Q == {i \in 0..N : after[i] = g[i]}
<1>11. 0 \in Q
  BY <1>1, <1>6, <1>10
<1>12. \A i \in 1..N : i - 1 \in Q => i \in Q
  BY <1>1, <1>6, <1>10
<1>13. Q \in SUBSET (0..N)
  OBVIOUS
<1>14. Q = 0..N
  <2> HIDE DEF Q
  <2> QED BY <1>1, <1>11, <1>12, <1>13, UpTo
<1>15. HandedOver(p, q) = g[N]
  BY <1>1, <1>9, <1>14
<1> QED BY <1>6, <1>15 DEF AfterRounds

-----------------------------------------------------------------------------
(***************************************************************************)
(* Every step of the protocol is a step of Exchange, and all amounts stay  *)
(* in their limits.  Nothing is assumed about Unguarded here.              *)
(***************************************************************************)

\* Nobody is its own partner, and only a player who trades has a locked window.
Apart == \A p \in Player : partner[p] # p /\ (locked[p] # 0 => trading[p])

TradeInv == ProtocolType /\ Apart /\ Windows /\ Goods

\* An offer is never taken for no offer.
LEMMA OfferFacts ==
    /\ \A x \in Player : SealedOffer[x] = IF locked[x] > 0 THEN OfferIn(deal[x]) ELSE NoOne
    /\ Windows => \A x \in Player : OfferIn(deal[x]) # NoOne
<1>1. ASSUME Windows, NEW x \in Player PROVE OfferIn(deal[x]) # NoOne
  <2>1. \A k \in Kind : Offered(x, k) \in Int
    BY <1>1, OfferedFacts
  <2>2. deal[x].zeny \in Int
    BY <1>1 DEF Windows
  <2> QED BY <2>1, <2>2, NoOfferAssumption DEF OfferIn, Offered
<1> QED BY <1>1 DEF SealedOffer

\* Steps that alter no sealed offer, but may withdraw some, are allowed.
LEMMA WithdrawStep ==
    ASSUME ProtocolType, ProtocolType', UNCHANGED <<inv, zeny>>,
           \A x \in Player : locked'[x] = 0 \/ (locked[x] # 0 /\ deal'[x] = deal[x])
    PROVE  Abstract!Next
<1> DEFINE S == {x \in Player : SealedOffer'[x] = NoOne}
<1>1. \A x \in Player : SealedOffer'[x] = IF locked'[x] > 0 THEN OfferIn(deal'[x]) ELSE NoOne
  BY DEF SealedOffer
<1>2. \A x \in Player : locked[x] \in 0..2 /\ locked'[x] \in 0..2
  BY DEF ProtocolType
<1>3. ASSUME NEW x \in Player, locked'[x] # 0 PROVE SealedOffer'[x] = SealedOffer[x]
  <2>1. deal'[x] = deal[x] /\ locked[x] > 0 /\ locked'[x] > 0
    BY <1>2, <1>3
  <2>2. OfferIn(deal'[x]) = OfferIn(deal[x])
    BY <2>1
  <2> QED BY <1>1, <2>1, <2>2, OfferFacts
<1>4. \A x \in Player : locked'[x] = 0 => SealedOffer'[x] = NoOne
  BY <1>1
<1>5. SealedOffer' = [x \in Player |-> SealedOffer'[x]]
  BY DEF SealedOffer
<1>6. SealedOffer' = [x \in Player |-> IF x \in S THEN NoOne ELSE SealedOffer[x]]
  BY <1>3, <1>4, <1>5
<1>7. Abstract!Withdraw(S)
  BY <1>6 DEF Abstract!Withdraw
<1> QED BY <1>7 DEF Abstract!Next

\* Players are taken out of requests (S) and trades (T).
LEMMA ResetParts ==
    ASSUME ProtocolType, Apart, Windows, NEW S, NEW T,
           partner' = Reset(partner, S, NoOne), trading' = Reset(trading, T, FALSE),
           locked' = Reset(locked, T, 0), deal' = Reset(deal, T, NoDeal)
    PROVE  Apart' /\ Windows'
<1>3. \A x \in Player : /\ partner'[x] = IF x \in S THEN NoOne ELSE partner[x]
                        /\ trading'[x] = IF x \in T THEN FALSE ELSE trading[x]
                        /\ locked'[x] = IF x \in T THEN 0 ELSE locked[x]
                        /\ deal'[x] = IF x \in T THEN NoDeal ELSE deal[x]
  BY DEF Reset
<1>4. Apart'
  <2>1. \A x \in Player : partner'[x] # x
    <3>1. \A x \in Player : partner[x] # x
      BY DEF Apart
    <3>2. \A x \in Player : partner'[x] = IF x \in S THEN NoOne ELSE partner[x]
      BY <1>3
    <3> QED BY <3>1, <3>2, PlayerAssumption
  <2>2. \A x \in Player : locked'[x] # 0 => x \notin T /\ locked'[x] = locked[x]
    BY <1>3
  <2>3. \A x \in Player : locked'[x] # 0 => trading[x] /\ trading'[x] = trading[x]
    BY <1>3, <2>2, Zenon DEF Apart
  <2>4. \A x \in Player : locked'[x] # 0 => trading'[x]
    BY <2>3
  <2> QED BY <2>1, <2>4 DEF Apart
<1>5. Windows'
  <2>1. WindowOK(NoDeal) /\ NoDeal \in [items : Seq(Item), zeny : Nat, space : Nat]
    BY TradeBounds DEF WindowOK, NoDeal
  <2>2. deal' = [x \in Player |-> IF x \in T THEN NoDeal ELSE deal[x]]
    BY DEF Reset
  <2>3. deal' \in [Player -> [items : Seq(Item), zeny : Nat, space : Nat]]
    BY <2>1, <2>2 DEF Windows
  <2>4. \A x \in Player : WindowOK(deal'[x])
    BY <1>3, <2>1 DEF Windows
  <2>5. \A x \in Player : WindowOK(deal[x])'
    BY <2>4 DEF WindowOK
  <2> QED BY <2>3, <2>5 DEF Windows
<1> QED BY <1>4, <1>5

\* Offers are withdrawn, and nobody's belongings change.
LEMMA ResetStep ==
    ASSUME TradeInv, NEW S, NEW T, online' \subseteq Player, UNCHANGED <<inv, zeny>>,
           partner' = Reset(partner, S, NoOne), trading' = Reset(trading, T, FALSE),
           locked' = Reset(locked, T, 0), deal' = Reset(deal, T, NoDeal)
    PROVE  TradeInv' /\ Abstract!Next
<1>1. ProtocolType /\ Apart /\ Windows /\ Goods
  BY DEF TradeInv
<1>2. ProtocolType'
  BY <1>1, ResetKeepsType
<1>3. Apart' /\ Windows'
  BY <1>1, ResetParts
<1>4. Goods'
  BY <1>1 DEF Goods, Bags
<1>5. \A x \in Player : locked'[x] = 0 \/ (locked'[x] = locked[x] /\ deal'[x] = deal[x])
  BY DEF Reset
<1>6. Abstract!Next
  BY <1>1, <1>2, <1>5, WithdrawStep
<1> QED BY <1>2, <1>3, <1>4, <1>6 DEF TradeInv

\* Nothing is reset.
LEMMA ResetNobody ==
    ASSUME ProtocolType, Windows
    PROVE  /\ trading = Reset(trading, {}, FALSE) /\ locked = Reset(locked, {}, 0)
           /\ deal = Reset(deal, {}, NoDeal) /\ partner = Reset(partner, {}, NoOne)
<1>1. locked = Reset(locked, {}, 0) /\ partner = Reset(partner, {}, NoOne)
  BY DEF ProtocolType, Reset
<1>2. trading = Reset(trading, {}, FALSE)
  BY Zenon DEF ProtocolType, Reset
<1>3. deal = Reset(deal, {}, NoDeal)
  BY DEF Windows, Reset
<1> QED BY <1>1, <1>2, <1>3

\* trade_tradecancel withdraws the offers of both players.
LEMMA CancelStep ==
    ASSUME TradeInv, NEW p \in Player, Cancelled(p), UNCHANGED <<online, inv, zeny>>
    PROVE  TradeInv' /\ Abstract!Next
<1>0. ProtocolType /\ Windows
  BY DEF TradeInv
<1>1. online' \subseteq Player
  BY <1>0 DEF ProtocolType
<1>2. CASE trading[p]
  <2>1. /\ partner' = Reset(partner, {p, Target(p)}, NoOne) /\ trading' = Reset(trading, {p, Target(p)}, FALSE)
        /\ locked' = Reset(locked, {p, Target(p)}, 0) /\ deal' = Reset(deal, {p, Target(p)}, NoDeal)
    BY <1>2 DEF Cancelled
  <2> QED BY <1>1, <2>1, ResetStep
<1>3. CASE ~trading[p]
  <2>1. partner' = Reset(partner, {p, Target(p)}, NoOne) /\ trading' = trading /\ locked' = locked /\ deal' = deal
    BY <1>3 DEF Cancelled
  <2>2. trading' = Reset(trading, {}, FALSE) /\ locked' = Reset(locked, {}, 0) /\ deal' = Reset(deal, {}, NoDeal)
    BY <1>0, <2>1, ResetNobody
  <2> QED BY <1>1, <2>1, <2>2, ResetStep
<1> QED BY <1>2, <1>3

\* A request changes partners only.
LEMMA RequestStep ==
    ASSUME TradeInv, NEW p \in Player, NEW q \in Player, NEW far \in BOOLEAN, TradeRequest(p, q, far)
    PROVE  TradeInv' /\ Abstract!Next
<1>1. ProtocolType /\ Apart /\ Windows /\ Goods
  BY DEF TradeInv
<1>2. UNCHANGED <<online, trading, locked, deal, inv, zeny>> /\ p # q
  BY DEF TradeRequest, holdings
<1> DEFINE S == IF partner[p] = NoOne THEN {} ELSE {p, Target(p)}
           cleared == Reset(partner, S, NoOne)
<1>3. partner' = cleared \/ partner' = [cleared EXCEPT ![p] = q, ![q] = p]
  BY DEF TradeRequest
<1>4. /\ cleared \in [Player -> Player \cup {NoOne}] /\ \A x \in Player : cleared[x] # x
  BY <1>1, PlayerAssumption DEF Reset, ProtocolType, Apart
<1> HIDE DEF cleared
<1>5. partner' \in [Player -> Player \cup {NoOne}] /\ \A x \in Player : partner'[x] # x
  BY <1>2, <1>3, <1>4
<1>6. ProtocolType'
  BY <1>1, <1>2, <1>5 DEF ProtocolType
<1>7. Apart'
  <2>1. \A x \in Player : locked'[x] # 0 => trading'[x]
    BY <1>1, <1>2 DEF Apart
  <2> QED BY <1>5, <2>1 DEF Apart
<1>8. Windows' /\ Goods'
  BY <1>1, <1>2 DEF Windows, WindowOK, Goods
<1>9. Abstract!Next
  BY <1>1, <1>2, <1>6, WithdrawStep
<1> QED BY <1>6, <1>7, <1>8, <1>9 DEF TradeInv

\* Accepting makes two empty windows, of players whose windows were not locked.
LEMMA AckStep ==
    ASSUME TradeInv, NEW p \in Player, NEW answer \in Answer, TradeAck(p, answer)
    PROVE  TradeInv' /\ Abstract!Next
<1> DEFINE q == Target(p)
<1>1. ProtocolType /\ Apart /\ Windows /\ Goods
  BY DEF TradeInv
<1>2. UNCHANGED <<online, inv, zeny>> /\ ~trading[p]
  BY DEF TradeAck, holdings
<1>3. online' \subseteq Player /\ (q # NoOne => q \in Player)
  BY <1>1, <1>2 DEF ProtocolType, Target
<1>4. \/ partner' = Reset(partner, {p}, NoOne) /\ UNCHANGED <<trading, locked, deal>>
      \/ /\ q # NoOne /\ ~trading[q]
         /\ trading' = Reset(trading, {p, q}, TRUE) /\ deal' = Reset(deal, {p, q}, NoDeal)
         /\ UNCHANGED <<partner, locked>>
      \/ /\ q # NoOne /\ ~trading[q]
         /\ partner' = Reset(partner, {p, q}, NoOne)
         /\ locked' = locked \/ locked' = Reset(locked, {p, q}, 0)
         /\ UNCHANGED <<trading, deal>>
  BY DEF TradeAck
<1>5. q # NoOne /\ ~trading[q] => locked[p] = 0 /\ locked[q] = 0
  BY <1>1, <1>2, <1>3 DEF Apart
<1> HIDE DEF q
<1>6. CASE partner' = Reset(partner, {p}, NoOne) /\ UNCHANGED <<trading, locked, deal>>
  <2>1. trading' = Reset(trading, {}, FALSE) /\ locked' = Reset(locked, {}, 0) /\ deal' = Reset(deal, {}, NoDeal)
    BY <1>1, <1>6, ResetNobody
  <2> QED BY <1>2, <1>3, <1>6, <2>1, ResetStep
<1>7. CASE /\ q # NoOne /\ ~trading[q]
           /\ partner' = Reset(partner, {p, q}, NoOne)
           /\ locked' = locked \/ locked' = Reset(locked, {p, q}, 0)
           /\ UNCHANGED <<trading, deal>>
  <2>1. locked' = locked
    BY <1>1, <1>5, <1>7 DEF Reset, ProtocolType
  <2>2. trading' = Reset(trading, {}, FALSE) /\ locked' = Reset(locked, {}, 0) /\ deal' = Reset(deal, {}, NoDeal)
    BY <1>1, <1>7, <2>1, ResetNobody
  <2> QED BY <1>2, <1>3, <1>7, <2>2, ResetStep
<1>8. CASE /\ q # NoOne /\ ~trading[q]
           /\ trading' = Reset(trading, {p, q}, TRUE) /\ deal' = Reset(deal, {p, q}, NoDeal)
           /\ UNCHANGED <<partner, locked>>
  <2>1. locked[p] = 0 /\ locked[q] = 0
    BY <1>5, <1>8
  <2>2. trading' \in [Player -> BOOLEAN] /\ \A x \in Player : trading[x] => trading'[x]
    BY <1>1, <1>8, Zenon DEF ProtocolType, Reset
  <2>3. ProtocolType'
    BY <1>1, <1>2, <1>8, <2>2 DEF ProtocolType
  <2>4. Apart'
    BY <1>1, <1>8, <2>2 DEF Apart
  <2>5. \A x \in Player : deal'[x] = IF x \in {p, q} THEN NoDeal ELSE deal[x]
    BY <1>8 DEF Reset
  <2>6. Windows'
    <3>1. WindowOK(NoDeal) /\ NoDeal \in [items : Seq(Item), zeny : Nat, space : Nat]
      BY TradeBounds DEF WindowOK, NoDeal
    <3>2. deal' \in [Player -> [items : Seq(Item), zeny : Nat, space : Nat]]
      BY <1>1, <1>8, <3>1 DEF Windows, Reset
    <3>3. \A x \in Player : WindowOK(deal'[x])
      BY <1>1, <2>5, <3>1 DEF Windows
    <3>4. \A x \in Player : WindowOK(deal[x])'
      BY <3>3 DEF WindowOK
    <3> QED BY <3>2, <3>4 DEF Windows
  <2>7. Goods'
    BY <1>1, <1>2 DEF Goods
  <2>8. \A x \in Player : locked'[x] = 0 \/ (locked[x] # 0 /\ deal'[x] = deal[x])
    BY <1>8, <2>1, <2>5
  <2>9. Abstract!Next
    BY <1>1, <1>2, <2>3, <2>8, WithdrawStep
  <2> QED BY <2>3, <2>4, <2>6, <2>7, <2>9 DEF TradeInv
<1> QED BY <1>4, <1>6, <1>7, <1>8

\* The window of one player who has not confirmed it changes.
LEMMA WindowStep ==
    ASSUME TradeInv, NEW p \in Player, locked[p] = 0, NEW w, WindowOK(w),
           deal' = [deal EXCEPT ![p] = w],
           UNCHANGED <<online, partner, trading, locked, inv, zeny>>
    PROVE  TradeInv' /\ Abstract!Next
<1>1. ProtocolType /\ Apart /\ Windows /\ Goods
  BY DEF TradeInv
<1>2. ProtocolType' /\ Apart' /\ Goods'
  BY <1>1 DEF ProtocolType, Apart, Goods
<1>3. \A x \in Player : deal'[x] = IF x = p THEN w ELSE deal[x]
  BY <1>1 DEF Windows
<1>4. Windows'
  <2>1. deal' \in [Player -> [items : Seq(Item), zeny : Nat, space : Nat]]
    BY <1>1 DEF Windows, WindowOK
  <2>2. \A x \in Player : WindowOK(deal'[x])
    BY <1>1, <1>3 DEF Windows
  <2>3. \A x \in Player : WindowOK(deal[x])'
    BY <2>2 DEF WindowOK
  <2> QED BY <2>1, <2>3 DEF Windows
<1>5. \A x \in Player : locked'[x] = 0 \/ (locked[x] # 0 /\ deal'[x] = deal[x])
  BY <1>3
<1>6. Abstract!Next
  BY <1>1, <1>2, <1>5, WithdrawStep
<1> QED BY <1>2, <1>4, <1>6 DEF TradeInv

\* A window with other entries.
Wider(d, s) == [d EXCEPT !.items = s, !.space = d.space + 1]
LEMMA WiderFacts ==
    ASSUME NEW d \in [items : Seq(Item), zeny : Nat, space : Nat], NEW s \in Seq(Item)
    PROVE  Wider(d, s) \in [items : Seq(Item), zeny : Nat, space : Nat] /\ Wider(d, s).items = s
<1> DEFINE a == [d EXCEPT !.items = s]
<1>0. a = [items |-> s, zeny |-> d.zeny, space |-> d.space]
  OBVIOUS
<1>1. Wider(d, s) = [items |-> s, zeny |-> d.zeny, space |-> d.space + 1]
  <2>1. Wider(d, s) = [a EXCEPT !.space = d.space + 1]
    BY DEF Wider
  <2> HIDE DEF a
  <2> QED BY <1>0, <2>1
<1>2. d.zeny \in Nat /\ d.space + 1 \in Nat
  OBVIOUS
<1> QED BY <1>1, <1>2

\* An entry is raised or added: no kind gets a second entry, and none is empty,
\* because who offers more of a kind still has what it adds.
LEMMA WindowGrows ==
    ASSUME Windows, inv \in Bags, NEW p \in Player, NEW k \in Kind, NEW n \in 1..MaxAmount,
           n <= inv[p][k], Offered(p, k) > 0 \/ Len(deal[p].items) < MaxEntries
    PROVE  WindowOK([deal[p] EXCEPT !.items = WindowWith(p, k, n), !.space = @ + 1])
<1> DEFINE items == deal[p].items
           total == Offered(p, k) + n
           m     == IF total > inv[p][k] THEN inv[p][k] ELSE total
           new   == WindowWith(p, k, n)
           w     == [deal[p] EXCEPT !.items = new, !.space = deal[p].space + 1]
<1>1. /\ deal[p] \in [items : Seq(Item), zeny : Nat, space : Nat]
      /\ Len(items) <= MaxEntries /\ Len(items) \in Nat
      /\ \A i, j \in DOMAIN items : items[i].kind = items[j].kind => i = j
      /\ items \in Seq(Item) /\ DOMAIN items = 1..Len(items)
  BY DEF Windows, WindowOK
<1>2. /\ Offered(p, k) \in Nat /\ (Offered(p, k) > 0 <=> \E i \in DOMAIN items : items[i].kind = k)
      /\ \A i \in DOMAIN items : items[i] \in Item
  BY OfferedFacts
<1>3. inv[p][k] \in Nat /\ n \in Nat \ {0} /\ m \in Nat \ {0}
  <2>1. inv[p][k] \in Nat /\ n \in Nat \ {0}
    BY TradeBounds DEF Bags
  <2> QED BY <1>2, <2>1
<1> HIDE DEF m, items
<1>4. /\ new \in Seq(Item) /\ Len(new) <= MaxEntries
      /\ \A i, j \in DOMAIN new : new[i].kind = new[j].kind => i = j
  <2>1. CASE Offered(p, k) > 0
    <3>1. new = [i \in DOMAIN items |-> IF items[i].kind # k THEN items[i] ELSE [kind |-> k, amount |-> m]]
      BY <2>1 DEF WindowWith, items, m
    <3>2. [kind |-> k, amount |-> m] \in Item
      BY <1>3 DEF Item
    <3>3. new \in [1..Len(items) -> Item]
      BY <1>1, <1>2, <3>1, <3>2
    <3>4. new \in Seq(Item) /\ Len(new) = Len(items) /\ DOMAIN new = DOMAIN items
      BY <1>1, <3>3
    <3>5. \A i \in DOMAIN items : new[i].kind = items[i].kind
      BY <3>1
    <3> HIDE DEF new
    <3> QED BY <1>1, <3>4, <3>5
  <2>2. CASE ~(Offered(p, k) > 0)
    <3> DEFINE e == [kind |-> k, amount |-> n]
    <3>1. new = Append(items, e)
      BY <2>2 DEF WindowWith, items
    <3>2. e \in Item /\ e.kind = k
      BY <1>3 DEF Item
    <3>3. \A i \in DOMAIN items : items[i].kind # k
      BY <1>2, <2>2
    <3> HIDE DEF e, new
    <3>4. /\ new \in Seq(Item) /\ Len(new) = Len(items) + 1 /\ DOMAIN new = 1..(Len(items) + 1)
          /\ new[Len(items) + 1] = e /\ \A i \in 1..Len(items) : new[i] = items[i]
      BY <1>1, <3>1, <3>2
    <3>5. Len(items) < MaxEntries
      BY <2>2 DEF items
    <3>6. ASSUME NEW i \in DOMAIN new, NEW j \in DOMAIN new, new[i].kind = new[j].kind PROVE i = j
      <4>1. CASE i \in DOMAIN items /\ j \in DOMAIN items
        BY <1>1, <3>4, <3>6, <4>1
      <4>2. CASE i \notin DOMAIN items /\ j \notin DOMAIN items
        BY <1>1, <3>4, <4>2
      <4>3. CASE i \in DOMAIN items /\ j \notin DOMAIN items
        <5>1. new[i].kind # k /\ new[j].kind = k
          BY <1>1, <3>2, <3>3, <3>4, <4>3
        <5> QED BY <3>6, <5>1
      <4>4. CASE i \notin DOMAIN items /\ j \in DOMAIN items
        <5>1. new[j].kind # k /\ new[i].kind = k
          BY <1>1, <3>2, <3>3, <3>4, <4>4
        <5> QED BY <3>6, <5>1
      <4> QED BY <4>1, <4>2, <4>3, <4>4
    <3>7. Len(new) <= MaxEntries
      BY <1>1, <3>4, <3>5, TradeBounds
    <3> QED BY <3>4, <3>6, <3>7
  <2> QED BY <2>1, <2>2
<1> HIDE DEF new
<1>5. w \in [items : Seq(Item), zeny : Nat, space : Nat] /\ w.items = new
  <2>1. w = Wider(deal[p], new)
    BY DEF Wider
  <2> QED BY <1>1, <1>4, <2>1, WiderFacts
<1>6. WindowOK(w)
  <2> HIDE DEF w
  <2> QED BY <1>4, <1>5 DEF WindowOK
<1> QED BY <1>6 DEF new

\* trade_tradeadditem
LEMMA AddItemStep ==
    ASSUME TradeInv, NEW p \in Player, NEW k \in Kind, NEW n \in 1..MaxAmount, TradeAddItem(p, k, n)
    PROVE  TradeInv' /\ Abstract!Next
<1>1. Windows /\ inv \in Bags
  BY DEF TradeInv, Goods
<1>2. UNCHANGED <<online, inv, zeny>> /\ locked[p] = 0
  BY DEF TradeAddItem, holdings, Unlocked
<1>3. CASE Cancelled(p)
  BY <1>2, <1>3, CancelStep
<1>4. CASE ~Cancelled(p)
  <2> DEFINE w == [deal[p] EXCEPT !.items = WindowWith(p, k, n), !.space = @ + 1]
  <2>1. /\ n <= inv[p][k] /\ (Offered(p, k) > 0 \/ Len(deal[p].items) < MaxEntries)
        /\ deal' = [deal EXCEPT ![p].items = WindowWith(p, k, n), ![p].space = @ + 1]
        /\ UNCHANGED <<partner, trading, locked>>
    BY <1>4 DEF TradeAddItem
  <2>2. WindowOK(w)
    BY <1>1, <2>1, WindowGrows
  <2>3. deal' = [deal EXCEPT ![p] = w]
    BY <1>1, <2>1 DEF Windows
  <2> HIDE DEF w
  <2> QED BY <1>2, <2>1, <2>2, <2>3, WindowStep
<1> QED BY <1>3, <1>4

\* trade_tradeaddzeny
LEMMA AddZenyStep ==
    ASSUME TradeInv, NEW p \in Player, NEW n \in 0..MaxZeny, TradeAddZeny(p, n)
    PROVE  TradeInv' /\ Abstract!Next
<1>1. Windows
  BY DEF TradeInv
<1>2. UNCHANGED <<online, inv, zeny>> /\ locked[p] = 0
  BY DEF TradeAddZeny, holdings, Unlocked
<1>3. CASE Cancelled(p)
  BY <1>2, <1>3, CancelStep
<1>4. CASE ~Cancelled(p)
  <2> DEFINE w == [deal[p] EXCEPT !.zeny = n]
  <2>1. deal' = [deal EXCEPT ![p].zeny = n] /\ UNCHANGED <<partner, trading, locked>>
    BY <1>4 DEF TradeAddZeny
  <2>2. w = [items |-> deal[p].items, zeny |-> n, space |-> deal[p].space] /\ n \in Nat
    BY <1>1, TradeBounds DEF Windows
  <2>3. deal' = [deal EXCEPT ![p] = w]
    BY <2>1
  <2> HIDE DEF w
  <2>4. WindowOK(w)
    <3>1. WindowOK(deal[p]) /\ deal[p] \in [items : Seq(Item), zeny : Nat, space : Nat]
      BY <1>1 DEF Windows
    <3>2. w \in [items : Seq(Item), zeny : Nat, space : Nat] /\ w.items = deal[p].items
      BY <2>2, <3>1
    <3> QED BY <3>1, <3>2 DEF WindowOK
  <2> QED BY <1>2, <2>1, <2>3, <2>4, WindowStep
<1> QED BY <1>3, <1>4

\* A player confirms: its window is sealed, or stays so.
LEMMA LockStep ==
    ASSUME TradeInv, NEW p \in Player, NEW l \in {1, 2}, trading[p], locked' = [locked EXCEPT ![p] = l],
           UNCHANGED <<online, partner, trading, deal, inv, zeny>>
    PROVE  TradeInv' /\ Abstract!Next
<1>1. ProtocolType /\ Apart /\ Windows /\ Goods
  BY DEF TradeInv
<1>2. \A x \in Player : locked[x] \in 0..2 /\ locked'[x] = IF x = p THEN l ELSE locked[x]
  BY <1>1 DEF ProtocolType
<1>3. ProtocolType' /\ Windows' /\ Goods'
  <2>1. locked' \in [Player -> 0..2]
    BY <1>1 DEF ProtocolType
  <2>2. ProtocolType'
    BY <1>1, <2>1 DEF ProtocolType
  <2> QED BY <1>1, <2>2 DEF Windows, WindowOK, Goods
<1>4. Apart'
  <2>1. \A x \in Player : partner'[x] # x
    BY <1>1 DEF Apart
  <2>2. \A x \in Player : locked'[x] # 0 => x = p \/ locked[x] # 0
    BY <1>2
  <2>3. \A x \in Player : locked'[x] # 0 => trading'[x]
    BY <1>1, <2>2 DEF Apart
  <2> QED BY <2>1, <2>3 DEF Apart
<1>5. Abstract!Next
  <2>1. CASE locked[p] # 0
    <3>1. \A x \in Player : locked'[x] = 0 \/ (locked[x] # 0 /\ deal'[x] = deal[x])
      BY <1>2, <2>1
    <3> QED BY <1>1, <1>3, <3>1, WithdrawStep
  <2>2. CASE locked[p] = 0
    <3>1. \A x \in Player : SealedOffer'[x] = IF locked'[x] > 0 THEN OfferIn(deal'[x]) ELSE NoOne
      BY DEF SealedOffer
    <3>2. SealedOffer[p] = NoOne /\ SealedOffer'[p] = OfferIn(deal[p])
      BY <1>2, <2>2, <3>1, OfferFacts
    <3>3. SealedOffer'[p] # NoOne
      BY <1>1, <3>2, OfferFacts
    <3>4. \A x \in Player : x # p => SealedOffer'[x] = SealedOffer[x]
      BY <1>2, <3>1, OfferFacts
    <3>5. SealedOffer' = [SealedOffer EXCEPT ![p] = SealedOffer'[p]]
      <4>1. SealedOffer' = [x \in Player |-> SealedOffer'[x]] /\ SealedOffer = [x \in Player |-> SealedOffer[x]]
        BY DEF SealedOffer
      <4> QED BY <3>4, <4>1
    <3>6. Abstract!Seal(p, SealedOffer'[p])
      BY <3>2, <3>5 DEF Abstract!Seal
    <3> QED BY <3>3, <3>6 DEF Abstract!Next
  <2> QED BY <2>1, <2>2
<1> QED BY <1>3, <1>4, <1>5 DEF TradeInv

\* trade_tradeok
LEMMA OkStep ==
    ASSUME TradeInv, NEW p \in Player, TradeOk(p)
    PROVE  TradeInv' /\ Abstract!Next
<1>1. UNCHANGED <<online, inv, zeny>> /\ locked[p] = 0 /\ trading[p]
  BY DEF TradeOk, holdings, Unlocked
<1>2. CASE Cancelled(p)
  BY <1>1, <1>2, CancelStep
<1>3. CASE ~Cancelled(p)
  <2>1. locked' = [locked EXCEPT ![p] = 1] /\ UNCHANGED <<partner, trading, deal>>
    BY <1>3 DEF TradeOk
  <2> QED BY <1>1, <2>1, LockStep
<1> QED BY <1>2, <1>3

\* trade_tradecommit: the exchange of two sealed offers.
LEMMA SettleStep ==
    ASSUME TradeInv, NEW p \in Player, NEW q \in Player, p # q, locked[p] # 0, locked[q] # 0,
           ~ImpossibleTrade(p), ~ImpossibleTrade(q), ZenyFits(p, q),
           inv' = HandedOver(p, q), zeny' = Paid(p, q), UNCHANGED online,
           partner' = Reset(partner, {p, q}, NoOne), trading' = Reset(trading, {p, q}, FALSE),
           locked' = Reset(locked, {p, q}, 0), deal' = Reset(deal, {p, q}, NoDeal)
    PROVE  TradeInv' /\ Abstract!Next
<1>1. ProtocolType /\ Apart /\ Windows /\ Goods /\ inv \in Bags
  BY DEF TradeInv, Goods
<1>2. PICK A \in SUBSET Kind, B \in SUBSET Kind :
         inv' = Traded(p, q, A, B) /\ Traded(p, q, A, B) \in Bags
  BY <1>1, HandOver
<1>3. /\ deal[p].zeny \in Nat /\ deal[q].zeny \in Nat
      /\ zeny \in [Player -> 0..MaxZeny] /\ zeny[p] \in 0..MaxZeny /\ zeny[q] \in 0..MaxZeny
  BY <1>1 DEF Windows, Goods
<1>4. zeny' \in [Player -> 0..MaxZeny]
  <2>1. deal[p].zeny <= zeny[p] /\ zeny[q] <= MaxZeny - deal[p].zeny
    BY DEF ZenyFits
  <2>2. deal[q].zeny <= zeny[q] /\ zeny[p] <= MaxZeny - deal[q].zeny
    BY DEF ZenyFits
  <2>3. /\ zeny[p] - deal[p].zeny + deal[q].zeny \in 0..MaxZeny
        /\ zeny[q] + deal[p].zeny - deal[q].zeny \in 0..MaxZeny
    BY <1>3, <2>1, <2>2, TradeBounds
  <2> QED BY <1>3, <2>3 DEF Paid
<1>5. Goods'
  BY <1>2, <1>4 DEF Goods, Bags
<1>6. ProtocolType' /\ Apart' /\ Windows'
  <2>1. online' \subseteq Player
    BY <1>1 DEF ProtocolType
  <2>2. ProtocolType'
    BY <1>1, <2>1, ResetKeepsType
  <2> QED BY <1>1, <2>1, <2>2, ResetParts
<1>7. \A x \in Player, k \in Kind : inv[x][k] \in Nat /\ Offered(p, k) \in Nat /\ Offered(q, k) \in Nat
  <2>1. \A x \in Player, k \in Kind : inv[x][k] \in Nat
    BY <1>1, TradeBounds DEF Bags
  <2> QED BY <1>1, <2>1, OfferedFacts
<1>8. /\ SealedOffer[p] = OfferIn(deal[p]) /\ SealedOffer[q] = OfferIn(deal[q])
      /\ SealedOffer[p] # NoOne /\ SealedOffer[q] # NoOne
  <2>1. locked[p] > 0 /\ locked[q] > 0
    BY <1>1 DEF ProtocolType
  <2> QED BY <1>1, <2>1, OfferFacts
<1>9. /\ SealedOffer[p].zeny = deal[p].zeny /\ SealedOffer[q].zeny = deal[q].zeny
      /\ \A k \in Kind : SealedOffer[p].items[k] = Offered(p, k) /\ SealedOffer[q].items[k] = Offered(q, k)
  BY <1>8 DEF OfferIn, Offered
<1>10. SealedOffer' = [SealedOffer EXCEPT ![p] = NoOne, ![q] = NoOne]
  <2>1. \A x \in Player : SealedOffer'[x] = IF locked'[x] > 0 THEN OfferIn(deal'[x]) ELSE NoOne
    BY DEF SealedOffer
  <2>2. \A x \in Player : /\ locked'[x] = IF x \in {p, q} THEN 0 ELSE locked[x]
                          /\ deal'[x] = IF x \in {p, q} THEN NoDeal ELSE deal[x]
    BY DEF Reset
  <2>3. \A x \in Player : SealedOffer'[x] = IF x \in {p, q} THEN NoOne ELSE SealedOffer[x]
    BY <2>1, <2>2, OfferFacts
  <2>4. SealedOffer' = [x \in Player |-> SealedOffer'[x]] /\ SealedOffer = [x \in Player |-> SealedOffer[x]]
    BY DEF SealedOffer
  <2> QED BY <2>3, <2>4
<1> DEFINE gives(x, S, k) == IF k \in S THEN SealedOffer[x].items[k] ELSE 0
           change(k) == gives(q, B, k) - gives(p, A, k)
           money     == SealedOffer[q].zeny - SealedOffer[p].zeny
<1>11. zeny' = [zeny EXCEPT ![p] = @ + money, ![q] = @ - money]
  <2>1. /\ zeny[p] + (deal[q].zeny - deal[p].zeny) = zeny[p] - deal[p].zeny + deal[q].zeny
        /\ zeny[q] - (deal[q].zeny - deal[p].zeny) = zeny[q] + deal[p].zeny - deal[q].zeny
    BY <1>3
  <2> QED BY <1>3, <1>9, <2>1 DEF Paid
<1>12. inv' = [inv EXCEPT ![p] = [k \in Kind |-> inv[p][k] + change(k)],
                          ![q] = [k \in Kind |-> inv[q][k] - change(k)]]
  <2>1. \A k \in Kind : gives(p, A, k) = Gives(p, A, k) /\ gives(q, B, k) = Gives(q, B, k)
    BY <1>9 DEF Gives
  <2>2. \A k \in Kind : Gives(p, A, k) \in Nat /\ Gives(q, B, k) \in Nat
    BY <1>7 DEF Gives
  <2>3. \A k \in Kind : change(k) = Gives(q, B, k) - Gives(p, A, k)
    BY <2>1
  <2> HIDE DEF change
  <2>4. \A k \in Kind : /\ inv[p][k] + change(k) = inv[p][k] + Gives(q, B, k) - Gives(p, A, k)
                        /\ inv[q][k] - change(k) = inv[q][k] + Gives(p, A, k) - Gives(q, B, k)
    BY <1>7, <2>2, <2>3
  <2>5. /\ [k \in Kind |-> inv[p][k] + change(k)] = [k \in Kind |-> inv[p][k] + Gives(q, B, k) - Gives(p, A, k)]
        /\ [k \in Kind |-> inv[q][k] - change(k)] = [k \in Kind |-> inv[q][k] + Gives(p, A, k) - Gives(q, B, k)]
    BY <2>4
  <2>6. /\ inv' = [x \in Player |-> inv'[x]]
        /\ inv'[p] = [k \in Kind |-> inv[p][k] + Gives(q, B, k) - Gives(p, A, k)]
        /\ inv'[q] = [k \in Kind |-> inv[q][k] + Gives(p, A, k) - Gives(q, B, k)]
    BY <1>2 DEF Traded
  <2>7. \A x \in Player : x # p /\ x # q => inv'[x] = inv[x]
    <3> TAKE x \in Player
    <3> HAVE x # p /\ x # q
    <3>1. inv'[x] = [k \in Kind |-> inv[x][k]]
      BY <1>2 DEF Traded
    <3>2. inv[x] \in [Kind -> 0..MaxAmount]
      BY <1>1 DEF Bags
    <3> QED BY <3>1, <3>2
  <2>8. inv = [x \in Player |-> inv[x]]
    BY <1>1 DEF Bags
  <2> QED BY <2>5, <2>6, <2>7, <2>8
<1>13. Abstract!Settle(p, q, A, B)
  BY <1>8, <1>10, <1>11, <1>12 DEF Abstract!Settle
<1>14. Abstract!Next
  BY <1>13 DEF Abstract!Next, Abstract!Settled
<1> QED BY <1>5, <1>6, <1>14 DEF TradeInv

\* trade_tradecommit
LEMMA CommitStep ==
    ASSUME TradeInv, NEW p \in Player, TradeCommit(p)
    PROVE  TradeInv' /\ Abstract!Next
<1> DEFINE q == Target(p)
<1>1. ProtocolType /\ Apart
  BY DEF TradeInv
<1>2. UNCHANGED online /\ trading[p] /\ locked[p] # 0
  BY DEF TradeCommit
<1>3. q # NoOne => q \in Player /\ p # q
  BY <1>1 DEF ProtocolType, Target, Apart
<1>4. \/ Cancelled(p) /\ UNCHANGED holdings
      \/ q # NoOne /\ Cancelled(q) /\ UNCHANGED holdings
      \/ locked' = [locked EXCEPT ![p] = 2] /\ UNCHANGED <<partner, trading, deal, holdings>>
      \/ /\ q # NoOne /\ BothReady(q) /\ ~ImpossibleTrade(p) /\ ~ImpossibleTrade(q) /\ TradeCheck(p, q)
         /\ inv' = HandedOver(p, q) /\ zeny' = Paid(p, q)
         /\ partner' = Reset(partner, {p, q}, NoOne) /\ trading' = Reset(trading, {p, q}, FALSE)
         /\ locked' = Reset(locked, {p, q}, 0) /\ deal' = Reset(deal, {p, q}, NoDeal)
  BY DEF TradeCommit
<1> HIDE DEF q
<1>5. CASE Cancelled(p) /\ UNCHANGED holdings
  BY <1>2, <1>5, CancelStep DEF holdings
<1>6. CASE q # NoOne /\ Cancelled(q) /\ UNCHANGED holdings
  BY <1>2, <1>3, <1>6, CancelStep DEF holdings
<1>7. CASE locked' = [locked EXCEPT ![p] = 2] /\ UNCHANGED <<partner, trading, deal, holdings>>
  <2>1. UNCHANGED <<online, partner, trading, deal, inv, zeny>>
    BY <1>2, <1>7 DEF holdings
  <2>2. 2 \in {1, 2} /\ trading[p] /\ locked' = [locked EXCEPT ![p] = 2]
    BY <1>2, <1>7
  <2> QED BY <2>1, <2>2, LockStep
<1>8. CASE /\ q # NoOne /\ BothReady(q) /\ ~ImpossibleTrade(p) /\ ~ImpossibleTrade(q) /\ TradeCheck(p, q)
           /\ inv' = HandedOver(p, q) /\ zeny' = Paid(p, q)
           /\ partner' = Reset(partner, {p, q}, NoOne) /\ trading' = Reset(trading, {p, q}, FALSE)
           /\ locked' = Reset(locked, {p, q}, 0) /\ deal' = Reset(deal, {p, q}, NoDeal)
  <2>1. locked[q] # 0 /\ ZenyFits(p, q)
    BY <1>8 DEF BothReady, TradeCheck
  <2> QED BY <1>2, <1>3, <1>8, <2>1, SettleStep
<1> QED BY <1>4, <1>5, <1>6, <1>7, <1>8

\* A warp cancels; a logout takes the player out of everything it was in.
LEMMA LeaveStep ==
    ASSUME TradeInv, NEW p \in Player, NEW quits \in BOOLEAN, Leave(p, quits)
    PROVE  TradeInv' /\ Abstract!Next
<1>1. UNCHANGED <<inv, zeny>>
  BY DEF Leave, holdings
<1>2. CASE quits
  <2> DEFINE S == IF partner[p] = NoOne THEN {p} ELSE {p, Target(p)}
             T == IF trading[p] THEN S ELSE {p}
  <2>1. /\ online' = online \ {p} /\ partner' = Reset(partner, S, NoOne)
        /\ trading' = Reset(trading, T, FALSE) /\ locked' = Reset(locked, T, 0)
        /\ deal' = Reset(deal, T, NoDeal)
    BY <1>2 DEF Leave
  <2>2. online' \subseteq Player
    BY <2>1 DEF TradeInv, ProtocolType
  <2> HIDE DEF S, T
  <2> QED BY <1>1, <2>1, <2>2, ResetStep
<1>3. CASE ~quits
  <2>1. Cancelled(p) /\ UNCHANGED online
    BY <1>3 DEF Leave
  <2> QED BY <1>1, <2>1, CancelStep
<1> QED BY <1>2, <1>3

\* A login changes nothing of the trades.
LEMMA LoginStep ==
    ASSUME TradeInv, NEW p \in Player, Login(p)
    PROVE  TradeInv' /\ UNCHANGED <<inv, zeny, SealedOffer>>
<1>1. UNCHANGED <<partner, trading, locked, deal, inv, zeny>> /\ online' \subseteq Player
  BY DEF Login, protocol, holdings, TradeInv, ProtocolType
<1>2. ProtocolType' /\ Apart' /\ Windows' /\ Goods'
  BY <1>1 DEF TradeInv, ProtocolType, Apart, Windows, WindowOK, Goods
<1>3. SealedOffer' = SealedOffer
  BY <1>1 DEF SealedOffer
<1> QED BY <1>1, <1>2, <1>3 DEF TradeInv

\* The belongings of one player change outside of trades, within the limits.
LEMMA ElsewhereStep ==
    ASSUME TradeInv, NEW p \in Player, Elsewhere(p)
    PROVE  TradeInv' /\ Abstract!Next
<1>1. ProtocolType /\ Apart /\ Windows /\ Goods
  BY DEF TradeInv
<1>2. UNCHANGED <<online, partner, trading, locked, deal>>
  BY DEF Elsewhere, protocol
<1>3. ProtocolType' /\ Apart' /\ Windows'
  BY <1>1, <1>2 DEF ProtocolType, Apart, Windows, WindowOK
<1>4. /\ inv \in [Player -> [Kind -> 0..MaxAmount]] /\ zeny \in [Player -> 0..MaxZeny]
      /\ MaxAmount \in Nat /\ MaxZeny \in Nat
  BY <1>1, TradeBounds DEF Goods, Bags
<1>5. /\ inv' \in Bags /\ zeny' \in [Player -> 0..MaxZeny]
      /\ \A x \in Player \ {p} : inv'[x] = inv[x] /\ zeny'[x] = zeny[x]
  <2>1. CASE UNCHANGED inv
    <3>1. UNCHANGED zeny \/ \E z \in 0..MaxZeny : zeny' = [zeny EXCEPT ![p] = z]
      BY <2>1 DEF Elsewhere
    <3>2. zeny' \in [Player -> 0..MaxZeny] /\ \A x \in Player \ {p} : zeny'[x] = zeny[x]
      BY <1>4, <3>1
    <3> QED BY <1>4, <2>1, <3>2 DEF Bags
  <2>2. CASE inv' # inv
    <3>1. UNCHANGED zeny
      BY <2>2 DEF Elsewhere
    <3>2. PICK k \in Kind : \/ /\ Accepts(inv[p], [kind |-> k, amount |-> 1])
                               /\ inv' = [inv EXCEPT ![p][k] = @ + 1]
                            \/ /\ inv[p][k] > 0
                               /\ inv' = [inv EXCEPT ![p][k] = @ - 1]
      BY <2>2 DEF Elsewhere
    <3>3. inv[p][k] \in 0..MaxAmount /\ inv[p] \in [Kind -> 0..MaxAmount]
      BY <1>4
    <3>4. PICK v \in 0..MaxAmount : inv' = [inv EXCEPT ![p][k] = v]
      <4>1. CASE inv[p][k] > 0 /\ inv' = [inv EXCEPT ![p][k] = @ - 1]
        <5>1. inv[p][k] - 1 \in 0..MaxAmount
          BY <1>4, <3>3, <4>1
        <5> QED BY <4>1, <5>1
      <4>2. CASE Accepts(inv[p], [kind |-> k, amount |-> 1]) /\ inv' = [inv EXCEPT ![p][k] = @ + 1]
        <5>1. inv[p][k] + 1 <= MaxAmount \/ (~(inv[p][k] > 0) /\ 1 <= MaxAmount)
          BY <4>2 DEF Accepts
        <5>2. inv[p][k] + 1 \in 0..MaxAmount
          BY <1>4, <3>3, <5>1
        <5> QED BY <4>2, <5>2
      <4> QED BY <3>2, <4>1, <4>2
    <3>5. [inv[p] EXCEPT ![k] = v] \in [Kind -> 0..MaxAmount]
      BY <3>3
    <3>6. inv' \in Bags /\ \A x \in Player \ {p} : inv'[x] = inv[x]
      BY <1>4, <3>4, <3>5 DEF Bags
    <3> QED BY <1>4, <3>1, <3>6
  <2> QED BY <2>1, <2>2
<1>6. SealedOffer' = SealedOffer
  BY <1>2 DEF SealedOffer
<1>7. Abstract!Other(p)
  BY <1>5, <1>6 DEF Abstract!Other
<1>8. Abstract!Next
  BY <1>7 DEF Abstract!Next
<1> QED BY <1>3, <1>5, <1>8 DEF TradeInv, Goods, Bags

\* At the start nobody trades.
LEMMA TradeStart == ASSUME Init PROVE TradeInv /\ Abstract!Init
<1>1. ProtocolType /\ Apart
  BY PlayerAssumption DEF Init, ProtocolType, Apart
<1>2. WindowOK(NoDeal) /\ NoDeal \in [items : Seq(Item), zeny : Nat, space : Nat]
  BY TradeBounds DEF WindowOK, NoDeal
<1>3. Windows
  BY <1>2 DEF Init, Windows
<1>4. Goods
  BY StartAssumption DEF Init, Goods, Bags
<1>5. Abstract!Init
  BY DEF Init, SealedOffer, Abstract!Init
<1> QED BY <1>1, <1>3, <1>4, <1>5 DEF TradeInv

\* Every step of the protocol.
LEMMA TradeStep ==
    ASSUME TradeInv, [Next]_vars
    PROVE  TradeInv' /\ (Abstract!Next \/ UNCHANGED <<inv, zeny, SealedOffer>>)
<1>1. ASSUME UNCHANGED vars PROVE TradeInv' /\ UNCHANGED <<inv, zeny, SealedOffer>>
  <2>1. UNCHANGED <<online, partner, trading, locked, deal, inv, zeny>>
    BY <1>1 DEF vars, protocol, holdings
  <2>2. ProtocolType' /\ Apart' /\ Windows' /\ Goods'
    BY <2>1 DEF TradeInv, ProtocolType, Apart, Windows, WindowOK, Goods
  <2>3. SealedOffer' = SealedOffer
    BY <2>1 DEF SealedOffer
  <2> QED BY <2>1, <2>2, <2>3 DEF TradeInv
<1>2. ASSUME Next PROVE TradeInv' /\ (Abstract!Next \/ UNCHANGED <<inv, zeny, SealedOffer>>)
  <2>1. PICK p \in Player :
          \/ \E q \in Player, far \in BOOLEAN : TradeRequest(p, q, far)
          \/ \E answer \in Answer : TradeAck(p, answer)
          \/ \E k \in Kind, n \in 1..MaxAmount : TradeAddItem(p, k, n)
          \/ \E n \in 0..MaxZeny : TradeAddZeny(p, n)
          \/ TradeOk(p)
          \/ TradeCancel(p)
          \/ TradeCommit(p)
          \/ \E quits \in BOOLEAN : Leave(p, quits)
          \/ Login(p)
          \/ Elsewhere(p)
    BY <1>2 DEF Next
  <2>2. CASE \E q \in Player, far \in BOOLEAN : TradeRequest(p, q, far)
    BY <2>2, RequestStep
  <2>3. CASE \E answer \in Answer : TradeAck(p, answer)
    BY <2>3, AckStep
  <2>4. CASE \E k \in Kind, n \in 1..MaxAmount : TradeAddItem(p, k, n)
    BY <2>4, AddItemStep
  <2>5. CASE \E n \in 0..MaxZeny : TradeAddZeny(p, n)
    BY <2>5, AddZenyStep
  <2>6. CASE TradeOk(p)
    BY <2>6, OkStep
  <2>7. CASE TradeCancel(p)
    BY <2>7, CancelStep DEF TradeCancel, holdings
  <2>8. CASE TradeCommit(p)
    BY <2>8, CommitStep
  <2>9. CASE \E quits \in BOOLEAN : Leave(p, quits)
    BY <2>9, LeaveStep
  <2>10. CASE Login(p)
    BY <2>10, LoginStep
  <2>11. CASE Elsewhere(p)
    BY <2>11, ElsewhereStep
  <2> QED BY <2>1, <2>2, <2>3, <2>4, <2>5, <2>6, <2>7, <2>8, <2>9, <2>10, <2>11
<1> QED BY <1>1, <1>2

\* Types and limits hold for any players, kinds and limits: no exchange makes an
\* amount negative or larger than MAX_AMOUNT and MAX_ZENY allow, whatever has
\* happened to the belongings between the offers and trade_tradecommit.
THEOREM TradeIsTyped == Spec => []TradeTypeOK
<1>1. Init => TradeInv
  BY TradeStart
<1>2. TradeInv /\ [Next]_vars => TradeInv'
  BY TradeStep
<1>3. TradeInv => TradeTypeOK
  BY DEF TradeInv, ProtocolType, Goods, Bags, TradeTypeOK
<1> QED BY <1>1, <1>2, <1>3, PTL DEF Spec

\* trade.cpp implements the abstract exchange: a confirmed window is frozen,
\* nothing moves before both have confirmed, and what moves is what was in the
\* two windows, kind by kind.
THEOREM TradeImplementsExchange == Spec => ImplementsExchange
<1>1. Init => TradeInv /\ Abstract!Init
  BY TradeStart
<1>2. TradeInv /\ [Next]_vars => TradeInv'
  BY TradeStep
<1>3. TradeInv /\ [Next]_vars => [Abstract!Next]_(Abstract!vars)
  BY TradeStep DEF Abstract!vars
<1> QED BY <1>1, <1>2, <1>3, PTL DEF Spec, ImplementsExchange, Abstract!Spec
=============================================================================
