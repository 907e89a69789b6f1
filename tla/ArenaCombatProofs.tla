------------------------- MODULE ArenaCombatProofs -------------------------
(***************************************************************************)
(* Proofs about the fight of one match (ArenaCombat), for any number of    *)
(* players, any teams, any assist window and any number of hits.           *)
(*                                                                         *)
(* The invariant Inv has four parts besides the properties themselves: the *)
(* lists of recent damage are in the order of time and hold only hits that *)
(* are in the damage log, a player who is in the match and not dead has no *)
(* death yet, and the victim of a logged kill has left or lies dead.       *)
(***************************************************************************)
EXTENDS ArenaCombat, FiniteSetTheorems, SequenceTheorems, WellFoundedInduction, TLAPS

HitOf  == [by : Player, at : Nat]
LogOf  == [by : Player, to : Player, at : Nat]
KillOf == [killer : Player, victim : Player, assists : SUBSET Player, at : Nat]

\* The types of the lists.
ListsTyped ==
    /\ recent \in [Player -> Seq(HitOf)]
    /\ damageLog \in Seq(LogOf)
    /\ killLog \in Seq(KillOf)

\* Every entry of hits, a list of damage v took, is in the log and not of the
\* future.
Logged(hits, v, log) ==
    \A i \in DOMAIN hits :
        /\ hits[i].at <= now
        /\ \E j \in DOMAIN log : log[j] = [by |-> hits[i].by, to |-> v, at |-> hits[i].at]

InOrder(hits) == \A i, j \in DOMAIN hits : i <= j => hits[i].at <= hits[j].at

\* The list of recent damage of every player is a part of the damage log.
RecentIsLogged == \A v \in Player : Logged(recent[v], v, damageLog)

\* The list of recent damage of every player is in the order of time.
RecentInOrder == \A v \in Player : InOrder(recent[v])

\* Who is in the match and not dead has no death; who is in the match is not a
\* deserter; the victim of a kill has left or is dead.
LivesKept ==
    /\ registered \cap deserter = {}
    /\ \A c \in registered \ isDead : deaths[c] = 0
    /\ \A i \in DOMAIN killLog : Alive(killLog[i].victim) = FALSE

Inv ==
    /\ CombatTypeOK
    /\ ListsTyped
    /\ RecentIsLogged
    /\ RecentInOrder
    /\ LivesKept
    /\ NobodyDiesTwice
    /\ KillsAreEarned
    /\ StatsMatchLog

-----------------------------------------------------------------------------
(* Facts about the operators of the model.                                 *)

\* A non-empty set of natural numbers has a least element.
LEMMA LeastNat ==
    ASSUME NEW T \in SUBSET Nat, T # {}
    PROVE  \E x \in T : \A y \in T : x <= y
<1>1. PICK x \in T : \A y \in T : ~(<<y, x>> \in OpToRel(<, Nat))
    BY NatLessThanWellFounded, WFMin
<1>2. \A y \in T : ~(y < x)
    BY <1>1 DEF OpToRel
<1> QED
    BY <1>2

\* The first fresh entry of a list that has one.
LEMMA FirstFreshExists ==
    ASSUME Inv, NEW hits \in Seq(HitOf), NEW k \in DOMAIN hits, Fresh(hits[k])
    PROVE  /\ FirstFresh(hits) \in DOMAIN hits
           /\ Fresh(hits[FirstFresh(hits)])
           /\ \A m \in 1..(FirstFresh(hits) - 1) : ~Fresh(hits[m])
<1> DEFINE T == {n \in DOMAIN hits : Fresh(hits[n])}
<1>1. T \in SUBSET Nat /\ T # {}
    OBVIOUS
<1> HIDE DEF T
<1>2. PICK n \in T : \A m \in T : n <= m
    BY <1>1, LeastNat
<1>3. n \in DOMAIN hits /\ Fresh(hits[n]) /\ \A m \in 1..(n - 1) : ~Fresh(hits[m])
    BY <1>2 DEF T
<1> QED
    BY <1>3 DEF FirstFresh

\* What record_damage leaves in the list of the target: the new entry last,
\* and before it entries that were there, in the same order.
LEMMA RecordedFacts ==
    ASSUME Inv, NEW a \in Player, NEW v \in Player
    PROVE  LET R == Recorded(a, v)
           IN  /\ R \in Seq(HitOf)
               /\ Len(R) \in Nat \ {0}
               /\ R[Len(R)] = [by |-> a, at |-> now]
               /\ \A i \in DOMAIN R : R[i] = [by |-> a, at |-> now]
                                      \/ \E j \in DOMAIN recent[v] : R[i] = recent[v][j]
               /\ InOrder(R)
               /\ \A i \in DOMAIN R : Fresh(R[i])
<1> DEFINE new  == [by |-> a, at |-> now]
           hits == Append(recent[v], new)
           n    == FirstFresh(hits)
           R    == SubSeq(hits, n, Len(hits))
<1>0. recent[v] \in Seq(HitOf) /\ now \in Nat
    BY CombatBounds DEF Inv, CombatTypeOK, ListsTyped
<1>1. new \in HitOf /\ recent[v] \in Seq(HitOf) /\ now \in Nat
    BY <1>0 DEF HitOf
<1>2. /\ hits \in Seq(HitOf) /\ Len(hits) = Len(recent[v]) + 1 /\ Len(recent[v]) \in Nat
      /\ DOMAIN recent[v] = 1..Len(recent[v]) /\ DOMAIN hits = 1..Len(hits)
      /\ hits[Len(hits)] = new /\ \A i \in DOMAIN recent[v] : hits[i] = recent[v][i]
    BY <1>1
<1>3. Fresh(hits[Len(hits)])
    BY <1>1, <1>2, CombatBounds DEF Fresh
<1>4. InOrder(hits)
  <2>1. \A i \in DOMAIN recent[v] : recent[v][i].at <= now
      BY DEF Inv, RecentIsLogged, Logged
  <2>2. \A i, j \in DOMAIN recent[v] : i <= j => recent[v][i].at <= recent[v][j].at
      BY DEF Inv, RecentInOrder, InOrder
  <2>3. SUFFICES ASSUME NEW i \in DOMAIN hits, NEW j \in DOMAIN hits, i <= j
                 PROVE  hits[i].at <= hits[j].at
      BY DEF InOrder
  <2>4. new.at = now
      OBVIOUS
  <2>5. CASE j = Len(hits)
    <3>1. CASE i = j
        BY <3>1, <2>5, <2>4, <1>2, <1>1
    <3>2. CASE i # j
        BY <3>2, <2>5, <2>3, <2>4, <2>1, <1>2
    <3> QED  BY <3>1, <3>2
  <2>6. CASE j # Len(hits)
      BY <2>6, <2>2, <2>3, <1>2
  <2> QED  BY <2>5, <2>6
<1> HIDE DEF hits
<1>5. n \in DOMAIN hits /\ Fresh(hits[n])
    BY <1>2, <1>3, FirstFreshExists
<1> HIDE DEF n
<1>6. /\ R \in Seq(HitOf) /\ Len(R) = Len(hits) - n + 1 /\ DOMAIN R = 1..Len(R)
      /\ \A i \in DOMAIN R : R[i] = hits[n + i - 1] /\ n + i - 1 \in n..Len(hits)
  <2>1. n \in 1..Len(hits) /\ Len(hits) \in Nat
      BY <1>2, <1>5
  <2>2. R \in Seq(HitOf) /\ Len(R) = Len(hits) - n + 1
      BY <1>2, <2>1
  <2>3. DOMAIN R = 1..(Len(hits) - n + 1)
      BY <1>2, <2>1
  <2>4. \A i \in 1..(Len(hits) - n + 1) : R[i] = hits[n + i - 1]
      BY <1>2, <2>1
  <2>5. \A i \in 1..(Len(hits) - n + 1) : n + i - 1 \in n..Len(hits)
      BY <2>1
  <2> QED
      BY <2>2, <2>3, <2>4, <2>5
<1> HIDE DEF R
<1>7. Len(R) \in Nat \ {0} /\ R[Len(R)] = new
    BY <1>2, <1>5, <1>6
<1>8. \A i \in DOMAIN R : R[i] = new \/ \E j \in DOMAIN recent[v] : R[i] = recent[v][j]
    BY <1>2, <1>5, <1>6
<1>9. InOrder(R)
  <2>1. SUFFICES ASSUME NEW i \in DOMAIN R, NEW j \in DOMAIN R, i <= j
                 PROVE  R[i].at <= R[j].at
      BY DEF InOrder
  <2>2. /\ R[i] = hits[n + i - 1] /\ R[j] = hits[n + j - 1] /\ n + i - 1 <= n + j - 1
        /\ n + i - 1 \in DOMAIN hits /\ n + j - 1 \in DOMAIN hits
    <3>1. R[i] = hits[n + i - 1] /\ R[j] = hits[n + j - 1] /\ i \in Int /\ j \in Int
        BY <1>6
    <3>2. n + i - 1 \in n..Len(hits) /\ n + j - 1 \in n..Len(hits)
        BY <1>6
    <3>3. n \in 1..Len(hits) /\ Len(hits) \in Nat
        BY <1>2, <1>5
    <3> QED
        BY <1>2, <2>1, <3>1, <3>2, <3>3
  <2> QED
      BY <2>2, <1>4 DEF InOrder
<1>10. \A i \in DOMAIN R : Fresh(R[i])
  <2> TAKE i \in DOMAIN R
  <2>0. /\ R[i] = hits[n + i - 1] /\ n <= n + i - 1
        /\ n \in DOMAIN hits /\ n + i - 1 \in DOMAIN hits
        /\ hits[n] \in HitOf /\ hits[n + i - 1] \in HitOf
      BY <1>2, <1>5, <1>6
  <2>1. hits[n].at <= R[i].at /\ hits[n].at \in Nat /\ R[i].at \in Nat
      BY <2>0, <1>4 DEF InOrder, HitOf
  <2> QED
      BY <2>1, <1>1, <1>5, CombatBounds DEF Fresh
<1>11. Recorded(a, v) = R
    BY DEF Recorded, R, n, hits
<1> QED
    BY <1>6, <1>7, <1>8, <1>9, <1>10, <1>11

\* The killer is the author of a suspect hit that no suspect hit is later than.
LEMMA KillerIsLatest ==
    ASSUME Inv, NEW hits \in Seq(HitOf), NEW v, NEW log, Logged(hits, v, log),
           Suspects(hits) # {}
    PROVE  \E i \in Suspects(hits) :
               /\ Killer(hits) = hits[i].by
               /\ \A j \in Suspects(hits) : hits[j].at <= hits[i].at
<1> DEFINE S == Suspects(hits)
           T == {now - hits[i].at : i \in S}
<1>1. S \subseteq DOMAIN hits /\ DOMAIN hits \subseteq Nat /\ now \in Nat
    BY CombatBounds DEF Suspects, Inv, CombatTypeOK
<1>2. \A i \in S : hits[i].at \in Nat /\ hits[i].at <= now
  <2> TAKE i \in S
  <2>1. i \in DOMAIN hits /\ hits[i] \in HitOf
      BY <1>1
  <2> QED
      BY <2>1 DEF Logged, HitOf
<1> HIDE DEF S
<1>3. T \in SUBSET Nat /\ T # {}
    BY <1>1, <1>2 DEF S
<1>4. PICK t \in T : \A y \in T : t <= y
    BY <1>3, LeastNat
<1> DEFINE L == {i \in S : now - hits[i].at = t}
<1>5. L \in SUBSET Nat /\ L # {}
    BY <1>1
<1>6. PICK f \in L : \A y \in L : f <= y
    BY <1>5, LeastNat
<1>7. \A j \in S : \/ hits[j].at < hits[f].at
                   \/ hits[j].at = hits[f].at /\ f <= j
  <2> TAKE j \in S
  <2>1. t <= now - hits[j].at
      BY <1>4
  <2>2. now - hits[f].at = t /\ f \in S
      BY <1>6
  <2>3. hits[j].at <= hits[f].at
      BY <2>1, <2>2, <1>1, <1>2
  <2>4. CASE hits[j].at = hits[f].at
    <3>1. j \in L
        BY <2>2, <2>4
    <3> QED
        BY <3>1, <2>4, <1>6
  <2>5. CASE hits[j].at # hits[f].at
      BY <2>2, <2>3, <2>5, <1>2
  <2> QED
      BY <2>4, <2>5
<1> DEFINE g == CHOOSE i \in S : \A j \in S : \/ hits[j].at < hits[i].at
                                              \/ hits[j].at = hits[i].at /\ i <= j
<1>8. g \in S /\ \A j \in S : \/ hits[j].at < hits[g].at
                              \/ hits[j].at = hits[g].at /\ g <= j
    BY <1>6, <1>7
<1>9. Killer(hits) = hits[g].by
    BY DEF Killer, S
<1> HIDE DEF g
<1> QED
    BY <1>2, <1>8, <1>9 DEF S

\* The numbers of the living are numbers.
LEMMA CountAliveType ==
    ASSUME NEW D
    PROVE  CountAlive(D) \in [Side -> Nat]
<1>1. \A s \in Side : Cardinality(Of(s) \ D) \in Nat
  <2> TAKE s \in Side
  <2>1. Of(s) \ D \subseteq Player
      BY BlueAssumption DEF Of
  <2>2. IsFiniteSet(Of(s) \ D)
      BY <2>1, BlueAssumption, FS_Subset
  <2> QED
      BY <2>2, FS_CardinalityType
<1> QED
    BY <1>1 DEF CountAlive

\* Counting one more for the players of a set keeps the type.
LEMMA BumpType ==
    ASSUME NEW f \in [Player -> Nat], NEW S
    PROVE  /\ Bump(f, S) \in [Player -> Nat]
           /\ \A c \in Player : Bump(f, S)[c] = IF c \in S THEN f[c] + 1 ELSE f[c]
  BY DEF Bump

\* A fresh entry of a list of damage is a hit of the log inside the window.
LEMMA FreshIsEarned ==
    ASSUME Inv, NEW hits \in Seq(HitOf), NEW v, NEW log, Logged(hits, v, log),
           NEW i \in DOMAIN hits, Fresh(hits[i])
    PROVE  \E h \in {log[j] : j \in DOMAIN log} :
               h.by = hits[i].by /\ h.to = v /\ now - h.at <= Window /\ h.at <= now
<1>1. PICK j \in DOMAIN log : log[j] = [by |-> hits[i].by, to |-> v, at |-> hits[i].at]
    BY DEF Logged
<1>2. hits[i].at <= now
    BY DEF Logged
<1> QED
    BY <1>1, <1>2 DEF Fresh

\* The entry e of the kill log is earned by hits of the damage log.
EarnedIn(e, log) ==
    LET hits == {h \in {log[i] : i \in DOMAIN log} :
                    h.to = e.victim /\ e.at - h.at <= Window /\ h.at <= e.at}
        H    == {h.by : h \in hits}
    IN  e.killer \in H /\ e.assists \subseteq H \ {e.killer}

\* KillsAreEarned says that every entry is.
LEMMA EarnedMeaning ==
    /\ KillsAreEarned <=> \A i \in DOMAIN killLog : EarnedIn(killLog[i], damageLog)
    /\ KillsAreEarned' <=> \A i \in DOMAIN killLog' : EarnedIn(killLog'[i], damageLog')
  BY DEF KillsAreEarned, EarnedIn, HitsOn

\* A log that grows keeps what it has.
Grows(log, more) == DOMAIN log \subseteq DOMAIN more /\ \A i \in DOMAIN log : more[i] = log[i]

\* An earned kill stays earned while the damage log grows.
LEMMA EarnedStays ==
    ASSUME NEW log, NEW more, Grows(log, more), NEW e, EarnedIn(e, log)
    PROVE  EarnedIn(e, more)
<1> DEFINE hits(l) == {h \in {l[i] : i \in DOMAIN l} :
                          h.to = e.victim /\ e.at - h.at <= Window /\ h.at <= e.at}
<1>1. hits(log) \subseteq hits(more)
    BY DEF Grows
<1>2. {h.by : h \in hits(log)} \subseteq {h.by : h \in hits(more)}
    BY <1>1
<1> QED
    BY <1>2 DEF EarnedIn

\* Appending to a log makes it grow.
LEMMA AppendGrows ==
    ASSUME NEW S, NEW log \in Seq(S), NEW e \in S
    PROVE  /\ Append(log, e) \in Seq(S)
           /\ Len(Append(log, e)) = Len(log) + 1
           /\ DOMAIN Append(log, e) = DOMAIN log \cup {Len(log) + 1}
           /\ Len(log) + 1 \notin DOMAIN log
           /\ Append(log, e)[Len(log) + 1] = e
           /\ Grows(log, Append(log, e))
  BY DEF Grows

\* One more marked entry of a log is one more in the count of the marked ones.
LEMMA CountAppend ==
    ASSUME NEW S, NEW log \in Seq(S), NEW M \in SUBSET DOMAIN log
    PROVE  /\ Cardinality(M) \in Nat
           /\ Cardinality(M \cup {Len(log) + 1}) = Cardinality(M) + 1
<1>1. M \subseteq 1..Len(log) /\ Len(log) \in Nat /\ Len(log) + 1 \notin M
    OBVIOUS
<1>2. IsFiniteSet(M)
    BY <1>1, FS_Interval, FS_Subset
<1> QED
    BY <1>1, <1>2, FS_CardinalityType, FS_AddElement

-----------------------------------------------------------------------------
(* The invariant.                                                          *)

\* A new list for one player keeps what the invariant says of the lists.
LEMMA RecentStep ==
    ASSUME Inv, NEW v \in Player, NEW hits \in Seq(HitOf),
           Logged(hits, v, damageLog'), InOrder(hits), Grows(damageLog, damageLog'),
           recent' = [recent EXCEPT ![v] = hits], now' = now
    PROVE  recent' \in [Player -> Seq(HitOf)] /\ RecentIsLogged' /\ RecentInOrder'
<1>1. recent \in [Player -> Seq(HitOf)] /\ RecentIsLogged /\ RecentInOrder
    BY DEF Inv, ListsTyped
<1>2. recent' \in [Player -> Seq(HitOf)]
    BY <1>1
<1>3. /\ recent'[v] = hits
      /\ \A c \in Player \ {v} : recent'[c] = recent[c]
    BY <1>1
<1>4. ASSUME NEW c \in Player
      PROVE  /\ \A i \in DOMAIN recent'[c] :
                    /\ recent'[c][i].at <= now
                    /\ \E j \in DOMAIN damageLog' : damageLog'[j] =
                          [by |-> recent'[c][i].by, to |-> c, at |-> recent'[c][i].at]
             /\ \A i, j \in DOMAIN recent'[c] : i <= j => recent'[c][i].at <= recent'[c][j].at
  <2>1. CASE c = v
      BY <2>1, <1>3 DEF Logged, InOrder
  <2>2. CASE c # v
    <3>1. recent'[c] = recent[c]
        BY <2>2, <1>3
    <3>2. Logged(recent[c], c, damageLog) /\ InOrder(recent[c])
        BY <1>1 DEF RecentIsLogged, RecentInOrder
    <3>3. ASSUME NEW i \in DOMAIN recent[c]
          PROVE  \E j \in DOMAIN damageLog' : damageLog'[j] =
                    [by |-> recent[c][i].by, to |-> c, at |-> recent[c][i].at]
      <4>1. PICK j \in DOMAIN damageLog : damageLog[j] =
                [by |-> recent[c][i].by, to |-> c, at |-> recent[c][i].at]
          BY <3>2 DEF Logged
      <4>2. j \in DOMAIN damageLog' /\ damageLog'[j] = damageLog[j]
          BY DEF Grows
      <4> QED
          BY <4>1, <4>2
    <3> QED
        BY <3>1, <3>2, <3>3 DEF Logged, InOrder
  <2> QED
      BY <2>1, <2>2
<1>5. RecentIsLogged'
    BY <1>4 DEF RecentIsLogged, Logged
<1>6. RecentInOrder'
    BY <1>4 DEF RecentInOrder, InOrder
<1> QED
    BY <1>2, <1>5, <1>6

\* Somebody is credited only for a fresh hit, and while in the match.
LEMMA CreditedHit ==
    ASSUME Inv, NEW hits \in Seq(HitOf), NEW v, NEW log, Logged(hits, v, log),
           Killer(hits) # NoOne
    PROVE  /\ Killer(hits) \in registered
           /\ \E i \in DOMAIN hits : Fresh(hits[i]) /\ hits[i].by = Killer(hits)
<1>1. Suspects(hits) # {}
    BY DEF Killer
<1>2. PICK i \in Suspects(hits) : Killer(hits) = hits[i].by
    BY <1>1, KillerIsLatest
<1> QED
    BY <1>2 DEF Suspects

\* The entry record_kill adds to the kill log is earned.
LEMMA NewKillIsEarned ==
    ASSUME Inv, NEW hits \in Seq(HitOf), NEW v \in Player, NEW log, Logged(hits, v, log),
           Killer(hits) # NoOne, NEW A \in AssistChoices(hits, Killer(hits))
    PROVE  LET e == [killer |-> Killer(hits), victim |-> v, assists |-> A, at |-> now]
           IN  e \in KillOf /\ EarnedIn(e, log)
<1> DEFINE k == Killer(hits)
           e == [killer |-> k, victim |-> v, assists |-> A, at |-> now]
           H == {h.by : h \in {g \in {log[i] : i \in DOMAIN log} :
                                 g.to = v /\ now - g.at <= Window /\ g.at <= now}}
<1>1. now \in Nat /\ registered \subseteq Player
    BY CombatBounds DEF Inv, CombatTypeOK
<1>2. A \subseteq Helpers(hits, k)
    BY DEF AssistChoices
<1>3. ASSUME NEW i \in DOMAIN hits, Fresh(hits[i])
      PROVE  hits[i].by \in H /\ hits[i].by \in Player
  <2>1. PICK h \in {log[j] : j \in DOMAIN log} :
            h.by = hits[i].by /\ h.to = v /\ now - h.at <= Window /\ h.at <= now
      BY <1>3, FreshIsEarned
  <2>2. hits[i] \in HitOf
      OBVIOUS
  <2> QED
      BY <2>1, <2>2 DEF HitOf
<1>4. k \in H /\ k \in Player
    BY <1>1, <1>3, CreditedHit
<1>5. \A x \in A : x \in H /\ x \in Player /\ x # k
    BY <1>2, <1>3 DEF Helpers
<1> HIDE DEF k
<1>6. e \in KillOf
    BY <1>1, <1>4, <1>5 DEF KillOf
<1>7. EarnedIn(e, log)
    BY <1>4, <1>5 DEF EarnedIn
<1> QED
    BY <1>6, <1>7 DEF k

\* What the invariant says of the kill log, and of the deaths.
KillPart ==
    /\ killLog \in Seq(KillOf)
    /\ kills \in [Player -> Nat] /\ assists \in [Player -> Nat]
    /\ KillsAreEarned
    /\ StatsMatchLog
    /\ \A i, j \in DOMAIN killLog : killLog[i].victim = killLog[j].victim => i = j
    /\ \A i \in DOMAIN killLog : ~Alive(killLog[i].victim)

DeathPart ==
    /\ registered \subseteq Player /\ isDead \subseteq Player /\ deserter \subseteq Player
    /\ deaths \in [Player -> Nat]
    /\ registered \cap deserter = {}
    /\ \A c \in registered \ isDead : deaths[c] = 0
    /\ \A c \in Player : deaths[c] <= IF c \in deserter THEN 3 ELSE 1

Parts ==
    /\ KillPart /\ DeathPart
    /\ now \in 1..MaxTime /\ active \in BOOLEAN /\ alive \in [Side -> Nat]
    /\ recent \in [Player -> Seq(HitOf)] /\ RecentIsLogged /\ RecentInOrder
    /\ damageLog \in Seq(LogOf)

\* Inv is these parts.
LEMMA InvParts == (Inv <=> Parts) /\ (Inv' <=> Parts')
<1>1. Inv <=> Parts
    BY DEF Inv, Parts, KillPart, DeathPart, CombatTypeOK, ListsTyped, LivesKept, NobodyDiesTwice, Alive
<1>2. Inv' <=> Parts'
    BY DEF Inv, Parts, KillPart, DeathPart, CombatTypeOK, ListsTyped, LivesKept, NobodyDiesTwice, Alive
<1> QED
    BY <1>1, <1>2

\* The kill log stays as it is, and nobody comes to life.
LEMMA KillLogSame ==
    ASSUME Inv, UNCHANGED <<killLog, kills, assists>>, Grows(damageLog, damageLog'),
           \A c \in Player : Alive(c)' => Alive(c)
    PROVE  KillPart'
<1>1. KillPart
    BY InvParts DEF Parts
<1>0. killLog' = killLog /\ kills' = kills /\ assists' = assists
    OBVIOUS
<1>2. \A i \in DOMAIN killLog : killLog[i].victim \in Player
  <2>1. \A i \in DOMAIN killLog : killLog[i] \in KillOf
      BY <1>1 DEF KillPart
  <2> QED
      BY <2>1 DEF KillOf
<1>3. KillsAreEarned'
    BY <1>1, EarnedMeaning, EarnedStays DEF KillPart
<1>4. StatsMatchLog'
  <2>1. StatsMatchLog
      BY <1>1 DEF KillPart
  <2>2. ASSUME NEW c \in Player
        PROVE  /\ kills[c] = Cardinality({i \in DOMAIN killLog : killLog[i].killer = c})
               /\ assists[c] = Cardinality({i \in DOMAIN killLog : c \in killLog[i].assists})
      BY <2>1 DEF StatsMatchLog
  <2>3. ASSUME NEW c \in Player
        PROVE  /\ kills'[c] = Cardinality({i \in DOMAIN killLog' : killLog'[i].killer = c})
               /\ assists'[c] = Cardinality({i \in DOMAIN killLog' : c \in killLog'[i].assists})
    <3>1. /\ {i \in DOMAIN killLog' : killLog'[i].killer = c} = {i \in DOMAIN killLog : killLog[i].killer = c}
          /\ {i \in DOMAIN killLog' : c \in killLog'[i].assists} = {i \in DOMAIN killLog : c \in killLog[i].assists}
      BY <1>0
    <3> QED
      BY <2>2, <3>1, <1>0
  <2> QED
      BY <2>3 DEF StatsMatchLog
<1>5. (\A i \in DOMAIN killLog : ~Alive(killLog[i].victim))'
  <2>1. \A i \in DOMAIN killLog : ~(killLog[i].victim \in registered /\ killLog[i].victim \notin isDead)
      BY <1>1 DEF KillPart, Alive
  <2>2. \A c \in Player : c \in registered' /\ c \notin isDead' => c \in registered /\ c \notin isDead
      BY DEF Alive
  <2> QED
      BY <1>0, <1>2, <2>1, <2>2 DEF Alive
<1>6. /\ killLog' \in Seq(KillOf) /\ kills' \in [Player -> Nat] /\ assists' \in [Player -> Nat]
      /\ \A i, j \in DOMAIN killLog' : killLog'[i].victim = killLog'[j].victim => i = j
    BY <1>0, <1>1 DEF KillPart
<1> QED
    BY <1>3, <1>4, <1>5, <1>6 DEF KillPart

\* A kill of a living player is logged.
LEMMA KillLogStep ==
    ASSUME Inv, NEW v \in Player, Alive(v), NEW e \in KillOf, e.victim = v,
           EarnedIn(e, damageLog'), Grows(damageLog, damageLog'),
           killLog' = Append(killLog, e),
           kills' = Bump(kills, {e.killer}), assists' = Bump(assists, e.assists),
           isDead' = isDead \cup {v}, registered' = registered
    PROVE  KillPart'
<1>1. KillPart
    BY InvParts DEF Parts
<1>2. /\ killLog' \in Seq(KillOf) /\ DOMAIN killLog' = DOMAIN killLog \cup {Len(killLog) + 1}
      /\ Len(killLog) + 1 \notin DOMAIN killLog
      /\ killLog'[Len(killLog) + 1] = e
      /\ \A i \in DOMAIN killLog : killLog'[i] = killLog[i]
    BY <1>1, AppendGrows DEF KillPart, Grows
<1>0. kills \in [Player -> Nat] /\ assists \in [Player -> Nat] /\ killLog \in Seq(KillOf)
    BY <1>1 DEF KillPart
<1>3. kills' \in [Player -> Nat] /\ assists' \in [Player -> Nat]
  <2>1. Bump(kills, {e.killer}) \in [Player -> Nat]
      BY <1>0, BumpType
  <2>2. Bump(assists, e.assists) \in [Player -> Nat]
      BY <1>0 DEF Bump
  <2> QED
      BY <2>1, <2>2, Zenon
<1>4. KillsAreEarned'
  <2>1. \A i \in DOMAIN killLog : EarnedIn(killLog[i], damageLog')
      BY <1>1, EarnedMeaning, EarnedStays DEF KillPart
  <2>2. \A i \in DOMAIN killLog' : EarnedIn(killLog'[i], damageLog')
      BY <2>1, <1>2
  <2> QED
      BY <2>2, EarnedMeaning
<1>5. StatsMatchLog'
  <2>1. SUFFICES ASSUME NEW c \in Player
                 PROVE  /\ kills'[c] = Cardinality({i \in DOMAIN killLog' : killLog'[i].killer = c})
                        /\ assists'[c] = Cardinality({i \in DOMAIN killLog' : c \in killLog'[i].assists})
      BY DEF StatsMatchLog
  <2> DEFINE K  == {i \in DOMAIN killLog : killLog[i].killer = c}
             K2 == {i \in DOMAIN killLog' : killLog'[i].killer = c}
             B  == {i \in DOMAIN killLog : c \in killLog[i].assists}
             B2 == {i \in DOMAIN killLog' : c \in killLog'[i].assists}
  <2>2. /\ K2 = IF e.killer = c THEN K \cup {Len(killLog) + 1} ELSE K
        /\ K \subseteq DOMAIN killLog
      BY <1>2
  <2>3. /\ B2 = IF c \in e.assists THEN B \cup {Len(killLog) + 1} ELSE B
        /\ B \subseteq DOMAIN killLog
      BY <1>2
  <2>4. kills[c] = Cardinality(K) /\ assists[c] = Cardinality(B)
      BY <1>1 DEF KillPart, StatsMatchLog
  <2>5. /\ kills'[c] = IF c \in {e.killer} THEN kills[c] + 1 ELSE kills[c]
        /\ assists'[c] = IF c \in e.assists THEN assists[c] + 1 ELSE assists[c]
    <3>1. kills'[c] = IF c \in {e.killer} THEN kills[c] + 1 ELSE kills[c]
        BY <1>0, BumpType
    <3>2. assists'[c] = IF c \in e.assists THEN assists[c] + 1 ELSE assists[c]
        BY <1>0 DEF Bump
    <3> QED
        BY <3>1, <3>2
  <2> HIDE DEF K, K2, B, B2
  <2>7. /\ Cardinality(K) \in Nat /\ Cardinality(K \cup {Len(killLog) + 1}) = Cardinality(K) + 1
        /\ Cardinality(B) \in Nat /\ Cardinality(B \cup {Len(killLog) + 1}) = Cardinality(B) + 1
    <3>1. K \in SUBSET DOMAIN killLog /\ B \in SUBSET DOMAIN killLog
        BY <2>2, <2>3
    <3> QED
        BY <1>0, <3>1, CountAppend
  <2>9. kills'[c] = Cardinality(K2) /\ assists'[c] = Cardinality(B2)
    <3>1. kills'[c] = Cardinality(K2)
        BY <2>2, <2>4, <2>5, <2>7
    <3>2. assists'[c] = Cardinality(B2)
        BY <2>3, <2>4, <2>5, <2>7
    <3> QED
        BY <3>1, <3>2
  <2> QED
      BY <2>9 DEF K2, B2
<1>6. \A i, j \in DOMAIN killLog' : killLog'[i].victim = killLog'[j].victim => i = j
  <2>1. \A i \in DOMAIN killLog : killLog[i].victim # v
      BY <1>1 DEF KillPart
  <2> QED
      BY <2>1, <1>1, <1>2 DEF KillPart
<1>7. (\A i \in DOMAIN killLog : ~Alive(killLog[i].victim))'
    BY <1>1, <1>2 DEF KillPart, Alive
<1> QED
    BY <1>2, <1>3, <1>4, <1>5, <1>6, <1>7 DEF KillPart

\* A living player dies, with a death counted or not.
LEMMA DeathCount ==
    ASSUME Inv, NEW v \in Player, Alive(v),
           deaths' = deaths \/ deaths' = Bump(deaths, {v}),
           isDead' = isDead \cup {v}, registered' = registered, deserter' = deserter
    PROVE  DeathPart'
<1>1. DeathPart
    BY InvParts DEF Parts
<1>2. deaths \in [Player -> Nat] /\ deaths[v] = 0 /\ v \notin deserter
    BY <1>1 DEF DeathPart, Alive
<1>3. /\ deaths' \in [Player -> Nat]
      /\ deaths'[v] <= 1
      /\ \A c \in Player \ {v} : deaths'[c] = deaths[c]
    BY <1>2, BumpType
<1> QED
    BY <1>1, <1>2, <1>3 DEF DeathPart

\* arena7x7_on_death keeps the invariant, whatever list of damage it is given.
LEMMA DeathStep ==
    ASSUME Inv, NEW v \in Player, Alive(v), NEW hits \in Seq(HitOf),
           damageLog' \in Seq(LogOf), Grows(damageLog, damageLog'),
           Logged(hits, v, damageLog'), InOrder(hits),
           OnDeath(v, hits), UNCHANGED <<now, active, registered, deserter>>
    PROVE  Inv'
<1>1. isDead' = isDead \cup {v} /\ alive' \in [Side -> Nat]
  <2>1. isDead' = isDead \cup {v} /\ alive' = CountAlive(isDead')
      BY DEF OnDeath
  <2> QED
      BY <2>1, CountAliveType
<1>2. now' \in 1..MaxTime /\ active' \in BOOLEAN
    BY InvParts DEF Parts
<1>3. \A c \in Player : Alive(c)' => Alive(c)
    BY <1>1 DEF Alive
<1>4. <<>> \in Seq(HitOf) /\ Logged(<<>>, v, damageLog') /\ InOrder(<<>>)
    BY DEF Logged, InOrder
<1>5. CASE Killer(hits) = NoOne
  <2>1. RecordDeath(v)
      BY <1>5 DEF OnDeath
  <2>2. KillPart'
      BY <1>3, <2>1, KillLogSame DEF RecordDeath
  <2>3. DeathPart'
      BY <1>1, <2>1, DeathCount DEF RecordDeath
  <2>4. recent' \in [Player -> Seq(HitOf)] /\ RecentIsLogged' /\ RecentInOrder'
      BY <1>4, <2>1, RecentStep DEF RecordDeath
  <2> QED
      BY <1>1, <1>2, <2>2, <2>3, <2>4, InvParts DEF Parts
<1>6. CASE Killer(hits) # NoOne /\ active
  <2>1. RecordKill(v, Killer(hits), hits) /\ active
      BY <1>6 DEF OnDeath
  <2>2. PICK A \in AssistChoices(hits, Killer(hits)) :
            /\ killLog' = Append(killLog, [killer |-> Killer(hits), victim |-> v,
                                           assists |-> A, at |-> now])
            /\ assists' = Bump(assists, A)
      BY <2>1 DEF RecordKill
  <2> DEFINE e == [killer |-> Killer(hits), victim |-> v, assists |-> A, at |-> now]
  <2>3. e \in KillOf /\ EarnedIn(e, damageLog')
    <3>1. Killer(hits) # NoOne /\ A \in AssistChoices(hits, Killer(hits))
        BY <1>6
    <3> QED
        BY <3>1, NewKillIsEarned
  <2>4. KillPart'
    <3>1. /\ e.victim = v /\ e.killer = Killer(hits) /\ e.assists = A
          /\ killLog' = Append(killLog, e)
        BY <2>2
    <3>2. kills' = Bump(kills, {e.killer}) /\ assists' = Bump(assists, e.assists)
        BY <2>1, <2>2, <3>1 DEF RecordKill
    <3> HIDE DEF e
    <3> QED
        BY <1>1, <2>3, <3>1, <3>2, KillLogStep
  <2>5. DeathPart'
      BY <1>1, <2>1, DeathCount DEF RecordKill
  <2>6. recent' \in [Player -> Seq(HitOf)] /\ RecentIsLogged' /\ RecentInOrder'
      BY <1>4, <2>1, RecentStep DEF RecordKill
  <2> QED
      BY <1>1, <1>2, <2>4, <2>5, <2>6, InvParts DEF Parts
<1>7. CASE Killer(hits) # NoOne /\ ~active
  <2>1. RecordKill(v, Killer(hits), hits) /\ ~active
      BY <1>7 DEF OnDeath
  <2>2. KillPart'
      BY <1>3, <2>1, KillLogSame DEF RecordKill, stats
  <2>3. DeathPart'
      BY <1>1, <2>1, DeathCount DEF RecordKill, stats
  <2>4. recent' \in [Player -> Seq(HitOf)] /\ RecentIsLogged' /\ RecentInOrder'
      BY <2>1, RecentStep DEF RecordKill
  <2> QED
      BY <1>1, <1>2, <2>2, <2>3, <2>4, InvParts DEF Parts
<1> QED
    BY <1>5, <1>6, <1>7

\* The new entry of record_damage in the log and in the list of the target.
LEMMA DamageRecorded ==
    ASSUME Inv, NEW a \in Player, NEW v \in Player,
           damageLog' = Append(damageLog, [by |-> a, to |-> v, at |-> now])
    PROVE  /\ damageLog' \in Seq(LogOf) /\ Grows(damageLog, damageLog')
           /\ Len(damageLog') = Len(damageLog) + 1
           /\ Logged(Recorded(a, v), v, damageLog')
<1> DEFINE new == [by |-> a, to |-> v, at |-> now]
           R   == Recorded(a, v)
<1>1. now \in Nat /\ damageLog \in Seq(LogOf)
    BY CombatBounds, InvParts DEF Parts
<1>2. new \in LogOf
    BY <1>1 DEF LogOf
<1>3. /\ damageLog' \in Seq(LogOf) /\ Grows(damageLog, damageLog')
      /\ Len(damageLog') = Len(damageLog) + 1
      /\ Len(damageLog) + 1 \in DOMAIN damageLog' /\ damageLog'[Len(damageLog) + 1] = new
    BY <1>1, <1>2, AppendGrows
<1>4. \A i \in DOMAIN R : R[i] = [by |-> a, at |-> now]
                          \/ \E j \in DOMAIN recent[v] : R[i] = recent[v][j]
    BY RecordedFacts
<1> HIDE DEF R
<1>5. ASSUME NEW i \in DOMAIN R
      PROVE  /\ R[i].at <= now
             /\ \E j \in DOMAIN damageLog' :
                   damageLog'[j] = [by |-> R[i].by, to |-> v, at |-> R[i].at]
  <2>1. CASE R[i] = [by |-> a, at |-> now]
      BY <1>1, <1>3, <2>1
  <2>2. CASE \E j \in DOMAIN recent[v] : R[i] = recent[v][j]
    <3>1. PICK j \in DOMAIN recent[v] : R[i] = recent[v][j]
        BY <2>2
    <3>2. Logged(recent[v], v, damageLog)
        BY InvParts DEF RecentIsLogged, Parts
    <3> QED
        BY <1>3, <3>1, <3>2 DEF Logged, Grows
  <2> QED
      BY <1>4, <2>1, <2>2
<1> QED
    BY <1>3, <1>5 DEF Logged, R

\* The empty fight.
LEMMA InitInv == Init => Inv
<1> SUFFICES ASSUME Init PROVE Inv
    OBVIOUS
<1>1. now \in 1..MaxTime /\ active \in BOOLEAN /\ damageLog \in Seq(LogOf)
    BY CombatBounds DEF Init
<1>2. alive \in [Side -> Nat]
    BY CountAliveType DEF Init
<1>3. recent \in [Player -> Seq(HitOf)] /\ RecentIsLogged /\ RecentInOrder
    BY DEF Init, RecentIsLogged, Logged, RecentInOrder, InOrder
<1>4. DeathPart
    BY DEF Init, DeathPart
<1>5. KillPart
  <2>1. StatsMatchLog
    <3>1. \A S \in SUBSET DOMAIN killLog : S = {}
        BY DEF Init
    <3>2. \A c \in Player : /\ {i \in DOMAIN killLog : killLog[i].killer = c} = {}
                            /\ {i \in DOMAIN killLog : c \in killLog[i].assists} = {}
        BY <3>1
    <3> QED
        BY <3>2, FS_EmptySet DEF Init, StatsMatchLog
  <2> QED
      BY <2>1 DEF Init, KillPart, KillsAreEarned
<1> QED
    BY <1>1, <1>2, <1>3, <1>4, <1>5, InvParts DEF Parts

\* Damage that is not fatal.
LEMMA HitStep ==
    ASSUME Inv, NEW a \in Player, NEW v \in Player, Hit(a, v)
    PROVE  Inv'
<1>1. /\ damageLog' = Append(damageLog, [by |-> a, to |-> v, at |-> now])
      /\ recent' = [recent EXCEPT ![v] = Recorded(a, v)]
      /\ UNCHANGED <<now, active, registered, isDead, deserter, killLog, kills, deaths, assists, alive>>
    BY DEF Hit, stats
<1>2. /\ damageLog' \in Seq(LogOf) /\ Grows(damageLog, damageLog')
      /\ Logged(Recorded(a, v), v, damageLog')
    BY <1>1, DamageRecorded
<1>3. Recorded(a, v) \in Seq(HitOf) /\ InOrder(Recorded(a, v))
    BY RecordedFacts
<1>4. recent' \in [Player -> Seq(HitOf)] /\ RecentIsLogged' /\ RecentInOrder'
    BY <1>1, <1>2, <1>3, RecentStep
<1>5. KillPart'
    BY <1>1, <1>2, KillLogSame DEF Alive
<1>6. DeathPart'
    BY <1>1, InvParts DEF Parts, DeathPart
<1> QED
    BY <1>1, <1>2, <1>4, <1>5, <1>6, InvParts DEF Parts

\* Fatal damage by a player of the match.
LEMMA FatalHitStep ==
    ASSUME Inv, NEW a \in Player, NEW v \in Player, FatalHit(a, v)
    PROVE  Inv'
<1>1. Alive(v) /\ UNCHANGED <<now, active, registered, deserter>>
    BY DEF FatalHit, Target
<1>2. CASE /\ damageLog' = Append(damageLog, [by |-> a, to |-> v, at |-> now])
           /\ OnDeath(v, Recorded(a, v))
    BY <1>1, <1>2, DamageRecorded, RecordedFacts, DeathStep
<1>3. CASE OnDeath(v, recent[v]) /\ UNCHANGED damageLog
  <2>1. /\ recent[v] \in Seq(HitOf) /\ Logged(recent[v], v, damageLog) /\ InOrder(recent[v])
        /\ damageLog \in Seq(LogOf)
      BY InvParts DEF Parts, RecentIsLogged, RecentInOrder
  <2>2. damageLog' = damageLog /\ Grows(damageLog, damageLog)
      BY <1>3 DEF Grows
  <2> QED
      BY <1>1, <1>3, <2>1, <2>2, DeathStep
<1> QED
    BY <1>2, <1>3 DEF FatalHit

\* Fatal damage by anything else.
LEMMA PerishStep ==
    ASSUME Inv, NEW v \in Player, Perish(v)
    PROVE  Inv'
<1>1. Alive(v) /\ OnDeath(v, recent[v]) /\ UNCHANGED <<now, active, registered, deserter>>
    BY DEF Perish
<1>2. /\ recent[v] \in Seq(HitOf) /\ Logged(recent[v], v, damageLog) /\ InOrder(recent[v])
      /\ damageLog \in Seq(LogOf)
    BY InvParts DEF Parts, RecentIsLogged, RecentInOrder
<1>3. damageLog' = damageLog /\ Grows(damageLog, damageLog)
    BY DEF Grows, Perish
<1> QED
    BY <1>1, <1>2, <1>3, DeathStep

\* A player leaves, by a warp or by a logout.
LEMMA LeaveStep ==
    ASSUME Inv, NEW c \in Player, Warp(c) \/ Leave(c)
    PROVE  Inv'
<1>1. /\ c \in registered /\ registered' = registered \ {c}
      /\ isDead' = isDead \/ isDead' = isDead \ {c}
      /\ Penalty(c)
      /\ UNCHANGED <<now, active, recent, damageLog, killLog, kills, assists, alive>>
    BY DEF Warp, Leave
<1>2. Grows(damageLog, damageLog') /\ \A x \in Player : Alive(x)' => Alive(x)
    BY <1>1 DEF Grows, Alive
<1>3. KillPart'
    BY <1>1, <1>2, KillLogSame
<1>4. DeathPart'
  <2>1. DeathPart
      BY InvParts DEF Parts
  <2>2. c \notin deserter /\ deaths[c] <= 1 /\ deaths \in [Player -> Nat]
      BY <1>1, <2>1 DEF DeathPart
  <2>3. CASE active
    <3>1. deserter' = deserter \cup {c} /\ deaths' = [deaths EXCEPT ![c] = @ + 2]
        BY <1>1, <2>3 DEF Penalty
    <3>2. /\ deaths' \in [Player -> Nat] /\ deaths'[c] <= 3
          /\ \A x \in Player \ {c} : deaths'[x] = deaths[x]
        BY <2>2, <3>1
    <3> QED
        BY <1>1, <2>1, <3>1, <3>2 DEF DeathPart
  <2>4. CASE ~active
    <3>1. deserter' = deserter /\ deaths' = deaths
        BY <1>1, <2>2, <2>4 DEF Penalty
    <3> QED
        BY <1>1, <2>1, <3>1 DEF DeathPart
  <2> QED
      BY <2>3, <2>4
<1>5. RecentIsLogged' /\ RecentInOrder'
    BY <1>1, InvParts DEF Parts, RecentIsLogged, RecentInOrder, Logged, InOrder
<1> QED
    BY <1>1, <1>3, <1>4, <1>5, InvParts DEF Parts

\* Every step of the fight keeps the invariant.
LEMMA NextInv == Inv /\ [Next]_vars => Inv'
<1> SUFFICES ASSUME Inv, [Next]_vars PROVE Inv'
    OBVIOUS
<1>1. ASSUME NEW a \in Player, NEW v \in Player, Hit(a, v) \/ FatalHit(a, v) PROVE Inv'
    BY <1>1, HitStep, FatalHitStep
<1>2. ASSUME NEW c \in Player, Perish(c) \/ Warp(c) \/ Leave(c) PROVE Inv'
    BY <1>2, PerishStep, LeaveStep
<1>3. CASE FinishMatch \/ UNCHANGED vars \/ Tick
  <2>1. /\ UNCHANGED <<registered, isDead, deserter, recent, damageLog, killLog, kills, deaths, assists, alive>>
        /\ now' \in 1..MaxTime /\ active' \in BOOLEAN /\ now <= now' /\ now \in Nat
    <3>1. now \in 1..MaxTime /\ active \in BOOLEAN
        BY InvParts DEF Parts
    <3>2. CASE FinishMatch
      <4>1. active' \in BOOLEAN
          BY <3>2, Zenon DEF FinishMatch
      <4>2. now' = now
          BY <3>2 DEF FinishMatch
      <4> QED
          BY <3>1, <3>2, <4>1, <4>2, CombatBounds DEF FinishMatch, stats
    <3>3. CASE Tick
        BY <3>1, <3>3, CombatBounds DEF Tick, stats
    <3>4. CASE UNCHANGED vars
        BY <3>1, <3>4, CombatBounds DEF vars, stats
    <3> QED
        BY <1>3, <3>2, <3>3, <3>4
  <2>2. KillPart'
      BY <2>1, KillLogSame DEF Grows, Alive
  <2>3. DeathPart'
      BY <2>1, InvParts DEF Parts, DeathPart
  <2>4. RecentIsLogged'
    <3>1. ASSUME NEW v \in Player, NEW i \in DOMAIN recent[v]
          PROVE  recent[v][i].at <= now' 
      <4>1. recent[v][i].at <= now
          BY InvParts DEF Parts, RecentIsLogged, Logged
      <4>2. recent[v][i] \in HitOf
          BY InvParts DEF Parts
      <4> QED
          BY <2>1, <4>1, <4>2, CombatBounds DEF HitOf
    <3> QED
        BY <2>1, <3>1, InvParts DEF Parts, RecentIsLogged, Logged
  <2>5. RecentInOrder'
      BY <2>1, InvParts DEF Parts, RecentInOrder, InOrder
  <2> QED
      BY <2>1, <2>2, <2>3, <2>4, <2>5, InvParts DEF Parts
<1> QED
    BY <1>1, <1>2, <1>3 DEF Next

\* Inv is an invariant of the fight.
LEMMA InvHolds == Spec => []Inv
  BY InitInv, NextInv, PTL DEF Spec

-----------------------------------------------------------------------------
\* Every variable has its type: no counter is negative and the number of the
\* living is a number (arena7x7_count_alive_players).
THEOREM CombatIsTyped == Spec => []CombatTypeOK
<1>1. Inv => CombatTypeOK
    BY DEF Inv
<1> QED
    BY <1>1, InvHolds, PTL

\* Death is permanent: nobody is the victim of two logged kills, and a player
\* has at most one death, a deserter at most two more (arena7x7_on_death,
\* arena7x7_remove_player).
THEOREM DeathIsPermanent == Spec => []NobodyDiesTwice
<1>1. Inv => NobodyDiesTwice
    BY DEF Inv
<1> QED
    BY <1>1, InvHolds, PTL

\* Kills and assists go only to players whose hits on the victim are in the
\* damage log, inside the window (arena7x7_record_kill).
THEOREM KillsAreEarnedAlways == Spec => []KillsAreEarned
<1>1. Inv => KillsAreEarned
    BY DEF Inv
<1> QED
    BY <1>1, InvHolds, PTL

\* The counters of kills and assists are the numbers of entries of the log.
THEOREM StatsFollowLog == Spec => []StatsMatchLog
<1>1. Inv => StatsMatchLog
    BY DEF Inv
<1> QED
    BY <1>1, InvHolds, PTL

\* A fatal hit by a player of the match while it is active logs a kill for
\* somebody in the match who hits the victim at that very time.
LEMMA FatalHitIsCredited ==
    ASSUME Inv, NEW a \in Player, NEW v \in Player, FatalHit(a, v), active
    PROVE  /\ Len(killLog') = Len(killLog) + 1
           /\ LET k == killLog'[Len(killLog')].killer
              IN  k \in registered
                  /\ \E i \in DOMAIN damageLog' :
                        damageLog'[i] = [by |-> k, to |-> v, at |-> now]
<1> DEFINE R == Recorded(a, v)
           k == Killer(R)
<1>1. /\ damageLog' = Append(damageLog, [by |-> a, to |-> v, at |-> now])
      /\ OnDeath(v, R) /\ a \in registered
    BY DEF FatalHit, Target
<1>2. now \in Nat /\ killLog \in Seq(KillOf) /\ registered \subseteq Player
    BY CombatBounds, InvParts DEF Parts, KillPart, DeathPart
<1>3. Logged(R, v, damageLog')
    BY <1>1, DamageRecorded
<1>4. /\ R \in Seq(HitOf) /\ Len(R) \in Nat \ {0}
      /\ R[Len(R)] = [by |-> a, at |-> now]
    BY RecordedFacts
<1> HIDE DEF R
<1>5. Len(R) \in Suspects(R)
  <2>1. Len(R) \in DOMAIN R
      BY <1>4
  <2> QED
      BY <1>1, <1>2, <1>4, <2>1, CombatBounds DEF Suspects, Fresh
<1>6. PICK i \in Suspects(R) :
          Killer(R) = R[i].by /\ \A j \in Suspects(R) : R[j].at <= R[i].at
    BY <1>3, <1>4, <1>5, KillerIsLatest
<1>7. i \in DOMAIN R /\ R[i] \in HitOf /\ k \in registered
    BY <1>4, <1>6 DEF Suspects
<1>8. R[i].at = now
  <2>1. R[i].at <= now /\ R[Len(R)].at <= R[i].at
      BY <1>3, <1>5, <1>6, <1>7 DEF Logged
  <2> QED
      BY <1>2, <1>4, <1>7, <2>1 DEF HitOf
<1>9. \E j \in DOMAIN damageLog' : damageLog'[j] = [by |-> k, to |-> v, at |-> now]
    BY <1>3, <1>6, <1>7, <1>8 DEF Logged
<1>10. k # NoOne
    BY <1>2, <1>7, NoOneAssumption
<1>11. RecordKill(v, k, R)
    BY <1>1, <1>10 DEF OnDeath
<1>12. PICK A \in AssistChoices(R, k) :
           killLog' = Append(killLog, [killer |-> k, victim |-> v, assists |-> A, at |-> now])
    BY <1>11 DEF RecordKill
<1> DEFINE e == [killer |-> k, victim |-> v, assists |-> A, at |-> now]
<1>13. e \in KillOf /\ e.killer = k
    BY <1>3, <1>4, <1>10, NewKillIsEarned
<1> HIDE DEF e
<1>14. Len(killLog') = Len(killLog) + 1 /\ killLog'[Len(killLog')] = e
    BY <1>2, <1>12, <1>13, AppendGrows DEF e
<1> QED
    BY <1>7, <1>9, <1>13, <1>14

\* No kill is lost: see LatestHitKills (arena7x7_on_death, the search for the
\* killer in recent_damage_taken).
THEOREM NoKillIsLost == Spec => LatestHitKills
<1> DEFINE Credited(v) ==
        active /\ v \in isDead' \ isDead /\ Len(damageLog') > Len(damageLog) =>
            /\ Len(killLog') = Len(killLog) + 1
            /\ LET k == killLog'[Len(killLog')].killer
               IN  k \in registered
                   /\ \E i \in DOMAIN damageLog' :
                         damageLog'[i] = [by |-> k, to |-> v, at |-> now]
<1>1. Inv /\ [Next]_vars => [\A v \in Player : Credited(v)]_vars
  <2> SUFFICES ASSUME Inv, Next, NEW v \in Player,
                      active, v \in isDead' \ isDead, Len(damageLog') > Len(damageLog)
               PROVE  Credited(v)
      OBVIOUS
  <2>0. Len(damageLog) \in Nat
      BY InvParts DEF Parts
  <2>1. PICK a \in Player, w \in Player : FatalHit(a, w)
    <3>1. damageLog' # damageLog /\ ~(isDead' \subseteq isDead)
        BY <2>0
    <3>2. ~(\E a, w \in Player : Hit(a, w)) /\ ~FinishMatch /\ ~Tick
        BY <3>1 DEF Hit, FinishMatch, Tick
    <3>3. ~(\E c \in Player : Perish(c) \/ Warp(c) \/ Leave(c))
        BY <3>1 DEF Perish, Warp, Leave
    <3> QED
        BY <3>2, <3>3 DEF Next
  <2>2. w = v
      BY <2>1 DEF FatalHit, OnDeath
  <2> QED
      BY <2>1, <2>2, FatalHitIsCredited
<1> QED
    BY <1>1, InvHolds, PTL DEF Spec, LatestHitKills
=============================================================================
