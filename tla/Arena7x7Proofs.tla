--------------------------- MODULE Arena7x7Proofs ---------------------------
(***************************************************************************)
(* Proofs about the match registry, for any number of characters, arenas   *)
(* and matches.                                                            *)
(***************************************************************************)
EXTENDS Arena7x7, TLAPS

\* A match that has not started has no players, no deserters and no ranking.
UnstartedIsBlank ==
    \A m \in Id : status[m] \in {"absent", "waiting"} =>
        \A c \in Char : team[m][c] = "none" /\ c \notin deserter[m] /\ credit[m][c] = 0

\* In an active match only deserters have been counted, and once.
CountedHaveDeserted ==
    \A m \in Id : status[m] = "active" =>
        \A c \in Char : credit[m][c] = 0 \/ (credit[m][c] = 1 /\ c \in deserter[m])

\* The server starts with empty maps.
DownIsEmpty ==
    ~up => /\ \A m \in Id : status[m] = "absent"
           /\ \A a \in Arena : slot[a] = 0

\* The inductive invariant of the registry.
Inv ==
    /\ TypeOK
    /\ RegistryConsistent
    /\ SlotsOwnMatches
    /\ CounterCoversMatches
    /\ UnstartedIsBlank
    /\ CountedHaveDeserted
    /\ RankingBounded
    /\ DownIsEmpty

\* Match ids are the numbers that a nonzero counter, registration or slot can be.
LEMMA IdFacts == /\ Id \subseteq Nat /\ 0 \notin Id
                 /\ \A m \in 0..MaxMatch : m # 0 => m \in Id
                 /\ \A m \in 0..MaxMatch : m < MaxMatch => m + 1 \in Id
                 /\ MaxMatch \in Nat
BY MaxMatchAssumption DEF Id

\* The initial state satisfies the invariant.
LEMMA InitInv == Init => Inv
<1> SUFFICES ASSUME Init PROVE Inv
  OBVIOUS
<1> USE IdFacts DEF Init
<1>1. TypeOK
  <2>1. NoTeam \in [Char -> Winner]
    BY DEF NoTeam, Winner
  <2>0. up \in BOOLEAN
    BY Zenon
  <2>2. counter \in 0..MaxMatch /\ online \in SUBSET Char /\ saved \in SUBSET Id
    OBVIOUS
  <2>3. /\ status \in [Id -> Status] /\ team \in [Id -> [Char -> Winner]]
        /\ playerMatch \in [Char -> 0..MaxMatch] /\ slot \in [Arena -> 0..MaxMatch]
    BY <2>1 DEF Status
  <2>4. /\ deserter \in [Id -> SUBSET Char] /\ dead \in [Id -> SUBSET Char]
        /\ winRow \in [Id -> SUBSET Char] /\ wins \in [Id -> SUBSET Char]
    OBVIOUS
  <2>5. credit \in [Id -> [Char -> Nat]]
    OBVIOUS
  <2> QED
    BY <2>0, <2>2, <2>3, <2>4, <2>5 DEF TypeOK
<1>2. RegistryConsistent /\ SlotsOwnMatches /\ CounterCoversMatches /\ RankingBounded
  BY DEF RegistryConsistent, SlotsOwnMatches, CounterCoversMatches, RankingBounded, Open
<1>3. UnstartedIsBlank /\ CountedHaveDeserted /\ DownIsEmpty
  BY DEF UnstartedIsBlank, CountedHaveDeserted, DownIsEmpty, NoTeam
<1> QED
  BY <1>1, <1>2, <1>3 DEF Inv

\* OnMatchCreate preserves the invariant: the id after the counter is unused.
LEMMA CreateInv == ASSUME Inv, NEW a \in Arena, OnMatchCreate(a) PROVE Inv'
<1> DEFINE id == counter + 1
<1> USE IdFacts DEF OnMatchCreate, CreateMatch, database
<1>0. id \in Id /\ status[id] = "absent"
  BY DEF Inv, TypeOK, CounterCoversMatches
<1>1. TypeOK'
  BY <1>0 DEF Inv, TypeOK, Id, Status, NoTeam, Winner, Team
<1>2. RegistryConsistent'
  BY <1>0 DEF Inv, TypeOK, RegistryConsistent
<1>3. SlotsOwnMatches'
  BY <1>0 DEF Inv, TypeOK, SlotsOwnMatches, CounterCoversMatches, Open
<1>4. CounterCoversMatches'
  BY <1>0 DEF Inv, TypeOK, CounterCoversMatches
<1>5. UnstartedIsBlank'
  BY <1>0 DEF Inv, TypeOK, UnstartedIsBlank, NoTeam
<1>6. CountedHaveDeserted'
  BY <1>0 DEF Inv, TypeOK, CountedHaveDeserted
<1>7. RankingBounded'
  BY <1>0 DEF Inv, TypeOK, RankingBounded, UnstartedIsBlank
<1>8. DownIsEmpty'
  BY <1>0 DEF Inv, DownIsEmpty
<1> QED
  BY <1>1, <1>2, <1>3, <1>4, <1>5, <1>6, <1>7, <1>8 DEF Inv

\* A hook of an arena acts on an open match.
LEMMA OpenSlot ==
    ASSUME Inv, NEW a \in Arena, slot[a] # 0
    PROVE  slot[a] \in Id /\ status[slot[a]] \in Open
BY IdFacts DEF Inv, TypeOK, SlotsOwnMatches

\* OnMatchStart preserves the invariant: only a waiting match is started, and
\* only players without a match join it.
LEMMA StartInv ==
    ASSUME Inv, NEW a \in Arena, NEW B \in SUBSET Char, NEW R \in SUBSET Char,
           OnMatchStart(a, B, R)
    PROVE  Inv'
<1> DEFINE m == slot[a]
           joined == {c \in (B \cup R) \cap online : playerMatch[c] = 0 /\ status[m] \in Open}
<1> USE IdFacts DEF OnMatchStart, JoinAndStart, AddPlayers, StartMatch, database
<1>0. m \in Id /\ status[m] = "waiting" /\ joined \subseteq Char
  BY OpenSlot
<1>1. TypeOK'
  BY <1>0 DEF Inv, TypeOK, Status, Winner, Team
<1>2. RegistryConsistent'
  BY <1>0 DEF Inv, TypeOK, RegistryConsistent
<1>3. SlotsOwnMatches'
  BY <1>0 DEF Inv, TypeOK, SlotsOwnMatches, Open
<1>4. CounterCoversMatches'
  BY <1>0 DEF Inv, TypeOK, CounterCoversMatches
<1>5. UnstartedIsBlank'
  BY <1>0 DEF Inv, TypeOK, UnstartedIsBlank
<1>6. CountedHaveDeserted'
  BY <1>0 DEF Inv, TypeOK, CountedHaveDeserted, UnstartedIsBlank
<1>7. RankingBounded'
  BY <1>0 DEF Inv, TypeOK, RankingBounded, UnstartedIsBlank
<1>8. DownIsEmpty'
  BY <1>0 DEF Inv, DownIsEmpty
<1> QED
  BY <1>1, <1>2, <1>3, <1>4, <1>5, <1>6, <1>7, <1>8 DEF Inv

\* OnBlueWin, OnRedWin and OnDraw preserve the invariant: a player counted
\* before the end of the match is a deserter.
LEMMA FinishInv ==
    ASSUME Inv, NEW a \in Arena, NEW w \in Winner, NEW ok \in BOOLEAN, Finish(a, w, ok)
    PROVE  Inv'
<1> DEFINE m == slot[a]
<1> USE IdFacts DEF Finish, FinishMatch
<1>0. m \in Id /\ status[m] \in Open
  BY OpenSlot
<1>a. PICK S \in SUBSET Ranked(m) : UpdateRanking(m, w, S)
  OBVIOUS
<1>b. S \subseteq Roster(m) /\ Roster(m) \subseteq Char /\ Won(m, w) \subseteq Char
  BY <1>a DEF Ranked, Roster, Won
<1>1. TypeOK'
  <2>1. credit' \in [Id -> [Char -> Nat]] /\ wins' \in [Id -> SUBSET Char]
    BY <1>0, <1>a, <1>b DEF Inv, TypeOK, UpdateRanking
  <2>2. saved' \in SUBSET Id /\ winRow' \in [Id -> SUBSET Char]
    BY <1>0, <1>b DEF Inv, TypeOK, SaveMatch
  <2>3. status' \in [Id -> Status] /\ slot' \in [Arena -> 0..MaxMatch]
    BY <1>0 DEF Inv, TypeOK, Status
  <2> QED
    BY <2>1, <2>2, <2>3 DEF Inv, TypeOK
<1>2. RegistryConsistent'
  BY <1>0 DEF Inv, TypeOK, RegistryConsistent
<1>3. SlotsOwnMatches'
  BY <1>0 DEF Inv, TypeOK, SlotsOwnMatches, Open
<1>4. CounterCoversMatches'
  BY <1>0 DEF Inv, TypeOK, CounterCoversMatches, Open
<1>5. UnstartedIsBlank'
  BY <1>0, <1>a, <1>b DEF Inv, TypeOK, UnstartedIsBlank, UpdateRanking
<1>6. CountedHaveDeserted'
  BY <1>0, <1>a DEF Inv, TypeOK, CountedHaveDeserted, UpdateRanking
<1>7. RankingBounded'
  <2>1. \A c \in Char : credit'[m][c] <= 2 /\ (credit'[m][c] = 2 => c \in deserter[m])
    BY <1>0, <1>a, <1>b DEF Inv, TypeOK, CountedHaveDeserted, UnstartedIsBlank,
       UpdateRanking, Open
  <2>2. \A n \in Id : n # m => credit'[n] = credit[n] /\ status'[n] = status[n]
    BY <1>0, <1>a DEF Inv, TypeOK, UpdateRanking
  <2> QED
    BY <2>1, <2>2 DEF Inv, RankingBounded
<1>8. DownIsEmpty'
  BY <1>0 DEF Inv, DownIsEmpty
<1> QED
  BY <1>1, <1>2, <1>3, <1>4, <1>5, <1>6, <1>7, <1>8 DEF Inv

\* OnMatchCancel preserves the invariant.  A waiting match has no players, and
\* its id is given back only when no later match exists.
LEMMA CancelInv == ASSUME Inv, NEW a \in Arena, OnMatchCancel(a) PROVE Inv'
<1> DEFINE m == slot[a]
<1> USE IdFacts DEF database
<1>0. m \in Id /\ status[m] \in Open /\ m <= counter
  BY OpenSlot DEF Inv, CounterCoversMatches, Open, OnMatchCancel
<1>s. /\ slot' = [slot EXCEPT ![a] = 0]
      /\ UNCHANGED <<up, online, database>>
  BY DEF OnMatchCancel
<1>t. ASSUME \A n \in Id : n # m => status'[n] = status[n], status'[m] \notin Open
      PROVE  SlotsOwnMatches' /\ DownIsEmpty'
  BY <1>0, <1>s, <1>t DEF Inv, TypeOK, SlotsOwnMatches, DownIsEmpty, Open
<1>1. CASE status[m] = "waiting"
  <2>0. /\ status' = [status EXCEPT ![m] = "absent"]
        /\ team' = [team EXCEPT ![m] = NoTeam]
        /\ deserter' = [deserter EXCEPT ![m] = {}]
        /\ dead' = [dead EXCEPT ![m] = {}]
        /\ playerMatch' = [c \in Char |-> IF playerMatch[c] = m THEN 0 ELSE playerMatch[c]]
        /\ counter' = IF m = counter THEN counter - 1 ELSE counter
    BY <1>1 DEF OnMatchCancel, CancelMatch, ReturnedCounter
  <2>1. TypeOK'
    <3>1. NoTeam \in [Char -> Winner]
      BY DEF NoTeam, Winner
    <3>2. counter' \in 0..MaxMatch
      BY <1>0, <2>0 DEF Inv, TypeOK
    <3>3. /\ team' \in [Id -> [Char -> Winner]] /\ status' \in [Id -> Status]
          /\ deserter' \in [Id -> SUBSET Char] /\ dead' \in [Id -> SUBSET Char]
      BY <1>0, <2>0, <3>1 DEF Inv, TypeOK, Status
    <3>4. playerMatch' \in [Char -> 0..MaxMatch] /\ slot' \in [Arena -> 0..MaxMatch]
      BY <1>s, <2>0 DEF Inv, TypeOK
    <3> QED
      BY <1>s, <3>2, <3>3, <3>4 DEF Inv, TypeOK
  <2>2. RegistryConsistent'
    BY <1>0, <2>0 DEF Inv, TypeOK, RegistryConsistent
  <2>3. SlotsOwnMatches' /\ DownIsEmpty'
    BY <1>0, <1>t, <2>0 DEF Inv, TypeOK, Open
  <2>4. CounterCoversMatches'
    BY <1>0, <2>0 DEF Inv, TypeOK, CounterCoversMatches
  <2>5. UnstartedIsBlank' /\ CountedHaveDeserted' /\ RankingBounded'
    BY <1>0, <1>s, <1>1, <2>0 DEF Inv, TypeOK, UnstartedIsBlank, CountedHaveDeserted,
       RankingBounded, NoTeam
  <2> QED
    BY <2>1, <2>2, <2>3, <2>4, <2>5 DEF Inv
<1>2. CASE status[m] # "waiting"
  <2>0. /\ status' = [status EXCEPT ![m] = "cancelled"]
        /\ UNCHANGED <<counter, team, deserter, dead, playerMatch>>
    BY <1>2 DEF OnMatchCancel, CancelMatch
  <2>1. TypeOK'
    BY <1>0, <1>s, <2>0 DEF Inv, TypeOK, Status
  <2>2. RegistryConsistent'
    BY <1>0, <2>0 DEF Inv, TypeOK, RegistryConsistent
  <2>3. SlotsOwnMatches' /\ DownIsEmpty'
    BY <1>0, <1>t, <2>0 DEF Inv, TypeOK, Open
  <2>4. CounterCoversMatches'
    BY <1>0, <2>0 DEF Inv, TypeOK, CounterCoversMatches
  <2>5. UnstartedIsBlank' /\ CountedHaveDeserted' /\ RankingBounded'
    BY <1>0, <1>s, <2>0 DEF Inv, TypeOK, UnstartedIsBlank, CountedHaveDeserted,
       RankingBounded, Open
  <2> QED
    BY <2>1, <2>2, <2>3, <2>4, <2>5 DEF Inv
<1> QED
  BY <1>1, <1>2

\* Deaths and restored tombstones only change dead.
LEMMA DeadInv ==
    ASSUME Inv, dead' \in [Id -> SUBSET Char],
           UNCHANGED <<up, counter, status, team, deserter, playerMatch, slot, online, database>>
    PROVE  Inv'
BY DEF Inv, TypeOK, RegistryConsistent, SlotsOwnMatches, CounterCoversMatches,
   UnstartedIsBlank, CountedHaveDeserted, RankingBounded, DownIsEmpty, database

\* arena7x7_remove_player preserves the invariant: a registered player is no
\* deserter, so it has not been counted yet when it deserts.
LEMMA RemovalInv ==
    ASSUME Inv, NEW c \in Char, playerMatch[c] # 0, NEW d \in BOOLEAN, RemovePlayer(c, d),
           dead' \in [Id -> SUBSET Char], online' \in SUBSET Char,
           UNCHANGED <<up, counter, status, team, slot, saved, winRow, wins>>
    PROVE  Inv'
<1> DEFINE m == playerMatch[c]
<1> USE IdFacts
<1>0. /\ m \in Id /\ status[m] \notin {"absent", "waiting"} /\ c \notin deserter[m]
  BY DEF Inv, TypeOK, RegistryConsistent
<1>a. /\ deserter' = [deserter EXCEPT ![m] = IF d THEN @ \cup {c} ELSE @ \ {c}]
      /\ playerMatch' = [playerMatch EXCEPT ![c] = 0]
      /\ \/ d /\ status[m] = "active" /\ credit' = [credit EXCEPT ![m][c] = @ + 1]
         \/ credit' = credit
  BY DEF RemovePlayer
<1>b. deserter' \in [Id -> SUBSET Char] /\ (d => c \in deserter'[m])
  BY <1>0, <1>a DEF Inv, TypeOK
<1>c. credit' \in [Id -> [Char -> Nat]]
  <2>1. credit[m] \in [Char -> Nat] /\ credit[m][c] + 1 \in Nat
    BY <1>0 DEF Inv, TypeOK
  <2> QED
    BY <1>0, <1>a, <2>1 DEF Inv, TypeOK
<1>d. \A n \in Id, e \in Char :
          \/ credit'[n][e] = credit[n][e]
          \/ n = m /\ e = c /\ d /\ status[m] = "active" /\ credit'[n][e] = credit[n][e] + 1
  BY <1>0, <1>a DEF Inv, TypeOK
<1>e. \A n \in Id, e \in Char : e \in deserter[n] => e \in deserter'[n]
  BY <1>0, <1>a DEF Inv, TypeOK
<1>f. \A n \in Id, e \in Char : e \in deserter'[n] => e \in deserter[n] \/ (n = m /\ e = c)
  BY <1>0, <1>a DEF Inv, TypeOK
<1>1. TypeOK'
  BY <1>0, <1>a, <1>b, <1>c DEF Inv, TypeOK
<1>2. RegistryConsistent'
  BY <1>0, <1>a, <1>f DEF Inv, TypeOK, RegistryConsistent
<1>3. SlotsOwnMatches' /\ CounterCoversMatches' /\ DownIsEmpty'
  BY DEF Inv, SlotsOwnMatches, CounterCoversMatches, DownIsEmpty
<1>4. UnstartedIsBlank'
  BY <1>0, <1>d, <1>f DEF Inv, UnstartedIsBlank
<1>5. CountedHaveDeserted'
  BY <1>0, <1>b, <1>d, <1>e DEF Inv, TypeOK, CountedHaveDeserted
<1>6. RankingBounded'
  BY <1>0, <1>b, <1>d, <1>e DEF Inv, TypeOK, CountedHaveDeserted, RankingBounded
<1> QED
  BY <1>1, <1>2, <1>3, <1>4, <1>5, <1>6 DEF Inv

\* The arena part of pc_setpos preserves the invariant.
LEMMA SetPosInv ==
    ASSUME Inv, NEW c \in Char, SetPosEffect(c), online' \in SUBSET Char,
           UNCHANGED <<up, counter, status, team, slot, saved, winRow, wins>>
    PROVE  Inv'
<1>1. CASE playerMatch[c] = 0
  BY <1>1 DEF SetPosEffect, Inv, TypeOK, RegistryConsistent, SlotsOwnMatches,
     CounterCoversMatches, UnstartedIsBlank, CountedHaveDeserted, RankingBounded, DownIsEmpty
<1>2. CASE playerMatch[c] # 0
  <2>1. playerMatch[c] \in Id
    BY <1>2, IdFacts DEF Inv, TypeOK
  <2>2. /\ dead' \in [Id -> SUBSET Char]
        /\ RemovePlayer(c, status[playerMatch[c]] = "active")
    <3>1. dead \in [Id -> SUBSET Char]
      BY DEF Inv, TypeOK
    <3> QED
      BY <1>2, <2>1, <3>1 DEF SetPosEffect
  <2> DEFINE d == status[playerMatch[c]] = "active"
  <2>3. d \in BOOLEAN /\ RemovePlayer(c, d)
    BY <2>2
  <2> HIDE DEF d
  <2> QED
    BY <1>2, <2>2, <2>3, RemovalInv
<1> QED
  BY <1>1, <1>2

\* Everything a player does preserves the invariant.
LEMMA PlayerInv == ASSUME Inv, NEW c \in Char, PlayerStep(c) PROVE Inv'
<1>1. CASE OnDeath(c)
  <2>1. playerMatch[c] \in Id
    BY <1>1, IdFacts DEF OnDeath, Inv, TypeOK
  <2>2. dead' \in [Id -> SUBSET Char]
    BY <1>1, <2>1 DEF OnDeath, Inv, TypeOK
  <2> QED
    BY <1>1, <2>2, DeadInv DEF OnDeath
<1>2. CASE SetPos(c)
  <2>1. online' \in SUBSET Char
    BY <1>2 DEF SetPos, Inv, TypeOK
  <2> QED
    BY <1>2, <2>1, SetPosInv DEF SetPos
<1>3. CASE Login(c)
  <2>1. online' \in SUBSET Char
    BY <1>3 DEF Login, Inv, TypeOK
  <2> QED
    BY <1>3, <2>1, SetPosInv DEF Login
<1>4. ASSUME NEW leave \in BOOLEAN, Quit(c, leave) PROVE Inv'
  <2>1. online' \in SUBSET Char /\ dead' \in [Id -> SUBSET Char]
    BY <1>4 DEF Quit, Inv, TypeOK
  <2>2. CASE leave /\ playerMatch[c] # 0
    BY <1>4, <2>1, <2>2, RemovalInv DEF Quit
  <2>3. CASE ~(leave /\ playerMatch[c] # 0)
    <3>1. UNCHANGED <<up, counter, status, team, dead, slot, saved, winRow, wins,
                      deserter, credit, playerMatch>>
      BY <1>4, <2>3 DEF Quit
    <3> QED
      BY <2>1, <3>1 DEF Inv, TypeOK, RegistryConsistent, SlotsOwnMatches,
         CounterCoversMatches, UnstartedIsBlank, CountedHaveDeserted, RankingBounded, DownIsEmpty
  <2> QED
    BY <2>2, <2>3
<1> QED
  BY <1>1, <1>2, <1>3, <1>4 DEF PlayerStep

\* A process that ends leaves the empty maps of the initial state.
LEMMA ClearedInv == ASSUME Inv, saved' \in SUBSET Id, ClearedMemory PROVE Inv'
<1> USE IdFacts DEF ClearedMemory
<1>0. NoTeam \in [Char -> Winner] /\ \A c \in Char : NoTeam[c] = "none"
  BY DEF NoTeam, Winner
<1>1. TypeOK'
  <2>1. up' \in BOOLEAN
    BY Zenon
  <2>2. counter' \in 0..MaxMatch /\ online' \in SUBSET Char
    OBVIOUS
  <2>3. /\ status' \in [Id -> Status] /\ team' \in [Id -> [Char -> Winner]]
        /\ playerMatch' \in [Char -> 0..MaxMatch] /\ slot' \in [Arena -> 0..MaxMatch]
    BY <1>0 DEF Status
  <2>4. /\ deserter' \in [Id -> SUBSET Char] /\ dead' \in [Id -> SUBSET Char]
        /\ winRow' \in [Id -> SUBSET Char] /\ wins' \in [Id -> SUBSET Char]
    OBVIOUS
  <2>5. credit' \in [Id -> [Char -> Nat]]
    OBVIOUS
  <2> QED
    BY <2>1, <2>2, <2>3, <2>4, <2>5 DEF TypeOK
<1>2. (RegistryConsistent /\ SlotsOwnMatches /\ CounterCoversMatches /\ RankingBounded)'
  BY DEF RegistryConsistent, SlotsOwnMatches, CounterCoversMatches, RankingBounded, Open
<1>3. (UnstartedIsBlank /\ CountedHaveDeserted /\ DownIsEmpty)'
  BY <1>0 DEF UnstartedIsBlank, CountedHaveDeserted, DownIsEmpty
<1> QED
  BY <1>1, <1>2, <1>3 DEF Inv

\* What the script hooks of an arena do preserves the invariant.
LEMMA HookInv == ASSUME Inv, NEW a \in Arena, HookStep(a) PROVE Inv'
<1>1. CASE OnMatchCreate(a)
  BY <1>1, CreateInv
<1>2. ASSUME NEW B \in SUBSET Char, NEW R \in SUBSET Char, OnMatchStart(a, B, R) PROVE Inv'
  BY <1>2, StartInv
<1>3. ASSUME NEW w \in Winner, NEW ok \in BOOLEAN, Finish(a, w, ok) PROVE Inv'
  BY <1>3, FinishInv
<1>4. CASE OnMatchCancel(a)
  BY <1>4, CancelInv
<1>5. CASE RestoreAll(a)
  <2>1. dead' \in [Id -> SUBSET Char]
    BY <1>5 DEF RestoreAll, Inv, TypeOK
  <2> QED
    BY <1>5, <2>1, DeadInv DEF RestoreAll
<1>6. CASE CrashInFinish(a)
  <2>1. saved' \in SUBSET Id
    BY <1>6, OpenSlot DEF CrashInFinish, Inv, TypeOK
  <2> QED
    BY <1>6, <2>1, ClearedInv DEF CrashInFinish
<1> QED
  BY <1>1, <1>2, <1>3, <1>4, <1>5, <1>6 DEF HookStep

\* Shutdown, crash and boot preserve the invariant.
LEMMA ServerInv == ASSUME Inv, ServerStep PROVE Inv'
<1>1. ASSUME NEW S \in SUBSET ActiveIds, Shutdown(S) PROVE Inv'
  <2>1. saved' \in SUBSET Id
    BY <1>1 DEF Shutdown, ActiveIds, Inv, TypeOK
  <2> QED
    BY <1>1, <2>1, ClearedInv DEF Shutdown
<1>2. CASE Crash
  <2>1. saved' \in SUBSET Id
    BY <1>2 DEF Crash, Inv, TypeOK
  <2> QED
    BY <1>2, <2>1, ClearedInv DEF Crash
<1>3. CASE Boot
  <2>1. /\ counter' \in 0..MaxMatch
        /\ UNCHANGED <<status, team, deserter, dead, playerMatch, slot, online,
                       saved, winRow, credit, wins>>
    BY <1>3 DEF Boot, database
  <2>2. up' \in BOOLEAN /\ up'
    BY <1>3, Zenon DEF Boot
  <2>3. \A m \in Id : status[m] = "absent"
    BY <1>3 DEF Boot, Inv, DownIsEmpty
  <2>4. TypeOK'
    BY <2>1, <2>2 DEF Inv, TypeOK
  <2>5. (RegistryConsistent /\ SlotsOwnMatches /\ CounterCoversMatches)'
    BY <2>1, <2>3 DEF Inv, RegistryConsistent, SlotsOwnMatches, CounterCoversMatches
  <2>6. (UnstartedIsBlank /\ CountedHaveDeserted /\ RankingBounded /\ DownIsEmpty)'
    BY <2>1, <2>2 DEF Inv, UnstartedIsBlank, CountedHaveDeserted, RankingBounded, DownIsEmpty
  <2> QED
    BY <2>4, <2>5, <2>6 DEF Inv
<1> QED
  BY <1>1, <1>2, <1>3 DEF ServerStep

\* Every step, and stuttering, preserves the invariant.
LEMMA NextInv == Inv /\ [Next]_vars => Inv'
<1> SUFFICES ASSUME Inv, [Next]_vars PROVE Inv'
  OBVIOUS
<1>1. CASE UNCHANGED vars
  BY <1>1 DEF vars, registry, database, Inv, TypeOK, RegistryConsistent, SlotsOwnMatches,
     CounterCoversMatches, UnstartedIsBlank, CountedHaveDeserted, RankingBounded, DownIsEmpty
<1>2. CASE Next
  BY <1>2, HookInv, PlayerInv, ServerInv DEF Next
<1> QED
  BY <1>1, <1>2

\* The invariant holds in every reachable state.
LEMMA InvHolds == Spec => []Inv
BY InitInv, NextInv, PTL DEF Spec

\* The variables of the registry keep their types: every index that the code
\* uses is in range.
THEOREM TypeCorrect == Spec => []TypeOK
<1>1. Inv => TypeOK
  BY DEF Inv
<1> QED
  BY <1>1, InvHolds, PTL

\* No entry of arena7x7_player_match dangles, whatever the hooks, the players
\* and restarts do.
THEOREM RegistryCorrect == Spec => []RegistryConsistent
<1>1. Inv => RegistryConsistent
  BY DEF Inv
<1> QED
  BY <1>1, InvHolds, PTL

\* Every open match belongs to exactly one arena.
THEOREM SlotsCorrect == Spec => []SlotsOwnMatches
<1>1. Inv => SlotsOwnMatches
  BY DEF Inv
<1> QED
  BY <1>1, InvHolds, PTL

\* arena7x7_create_match never reuses the id of a match in memory, although a
\* cancelled match may give its id back.
THEOREM CounterCorrect == Spec => []CounterCoversMatches
<1>1. Inv => CounterCoversMatches
  BY DEF Inv
<1> QED
  BY <1>1, InvHolds, PTL

\* A player is counted at most once per match, a deserter at most twice, even
\* when ranking queries fail.
THEOREM RankingCorrect == Spec => []RankingBounded
<1>1. Inv => RankingBounded
  BY DEF Inv
<1> QED
  BY <1>1, InvHolds, PTL

-----------------------------------------------------------------------------
(* Match ids and the database.                                             *)

\* While the server runs, the counter is not behind the saved matches.
SavedCovered == up => \A m \in saved : m <= counter
SavedInv     == OpenMatchNotSaved /\ SavedCovered

\* Steps that do not touch statuses, the counter and the saved ids.
LEMMA SavedStutter ==
    ASSUME SavedInv, UNCHANGED <<up, counter, status, saved>> PROVE SavedInv'
BY DEF SavedInv, SavedCovered, OpenMatchNotSaved

\* A process that ends leaves no open match.
LEMMA SavedCleared == ASSUME ClearedMemory PROVE SavedInv'
BY DEF ClearedMemory, SavedInv, SavedCovered, OpenMatchNotSaved, Open

\* The hooks never open a match whose id is saved: the counter is ahead of every
\* saved id, and an id that is given back was not saved.
LEMMA SavedHook ==
    ASSUME Inv, SavedInv, NEW a \in Arena, HookStep(a) PROVE SavedInv'
<1> USE IdFacts
<1>1. CASE OnMatchCreate(a)
  <2>1. counter + 1 \in Id /\ counter' = counter + 1 /\ up /\ saved' = saved
    BY <1>1 DEF OnMatchCreate, CreateMatch, database, Inv, TypeOK
  <2>2. status' = [status EXCEPT ![counter + 1] = "waiting"]
    BY <1>1 DEF OnMatchCreate, CreateMatch
  <2> QED
    BY <2>1, <2>2 DEF Inv, TypeOK, SavedInv, SavedCovered, OpenMatchNotSaved
<1>2. ASSUME NEW B \in SUBSET Char, NEW R \in SUBSET Char, OnMatchStart(a, B, R)
      PROVE  SavedInv'
  <2>1. slot[a] \in Id /\ status[slot[a]] = "waiting"
    BY <1>2, OpenSlot DEF OnMatchStart
  <2> QED
    BY <1>2, <2>1 DEF OnMatchStart, JoinAndStart, StartMatch, database, Inv, TypeOK, SavedInv,
       SavedCovered, OpenMatchNotSaved, Open
<1>3. ASSUME NEW w \in Winner, NEW ok \in BOOLEAN, Finish(a, w, ok) PROVE SavedInv'
  <2>1. slot[a] \in Id /\ slot[a] <= counter
    BY <1>3, OpenSlot DEF Finish, Inv, CounterCoversMatches, Open
  <2>2. /\ status' = [status EXCEPT ![slot[a]] = "finished"] /\ UNCHANGED <<up, counter>>
        /\ saved' \subseteq saved \cup {slot[a]}
    BY <1>3 DEF Finish, FinishMatch, SaveMatch
  <2> QED
    BY <2>1, <2>2 DEF Inv, TypeOK, SavedInv, SavedCovered, OpenMatchNotSaved, Open
<1>4. CASE OnMatchCancel(a)
  <2>1. slot[a] \in Id /\ status[slot[a]] \in Open /\ slot[a] \notin saved
    BY <1>4, OpenSlot DEF OnMatchCancel, SavedInv, OpenMatchNotSaved
  <2>2. CASE status[slot[a]] = "waiting"
    <3>1. /\ status' = [status EXCEPT ![slot[a]] = "absent"] /\ UNCHANGED <<up, saved>>
          /\ counter' = IF slot[a] = counter THEN counter - 1 ELSE counter
      BY <1>4, <2>2 DEF OnMatchCancel, CancelMatch, ReturnedCounter, database
    <3> QED
      BY <2>1, <3>1 DEF Inv, TypeOK, SavedInv, SavedCovered, OpenMatchNotSaved, Open
  <2>3. CASE status[slot[a]] # "waiting"
    BY <1>4, <2>1, <2>3
       DEF OnMatchCancel, CancelMatch, database, Inv, TypeOK, SavedInv, SavedCovered,
       OpenMatchNotSaved, Open
  <2> QED
    BY <2>2, <2>3
<1>5. CASE RestoreAll(a)
  BY <1>5, SavedStutter DEF RestoreAll, database
<1>6. CASE CrashInFinish(a)
  BY <1>6, SavedCleared DEF CrashInFinish
<1> QED
  BY <1>1, <1>2, <1>3, <1>4, <1>5, <1>6 DEF HookStep

\* Every step preserves the freshness of ids when boot reads the highest one.
LEMMA SavedNext ==
    ASSUME "boot" \notin SqlFailures PROVE Inv /\ SavedInv /\ [Next]_vars => SavedInv'
<1> SUFFICES ASSUME Inv, SavedInv, [Next]_vars PROVE SavedInv'
  OBVIOUS
<1>1. CASE UNCHANGED vars
  BY <1>1, SavedStutter DEF vars, registry, database
<1>2. ASSUME NEW c \in Char, PlayerStep(c) PROVE SavedInv'
  BY <1>2, SavedStutter DEF PlayerStep, OnDeath, SetPos, Login, Quit, database
<1>3. ASSUME NEW S \in SUBSET ActiveIds, Shutdown(S) PROVE SavedInv'
  BY <1>3, SavedCleared DEF Shutdown
<1>4. CASE Crash
  BY <1>4, SavedCleared DEF Crash
<1>5. CASE Boot
  BY <1>5 DEF Boot, LoadedCounter, database, SavedInv, SavedCovered, OpenMatchNotSaved
<1> QED
  BY <1>1, <1>2, <1>3, <1>4, <1>5, SavedHook DEF Next, ServerStep

\* When the query for the highest id does not fail at boot, an open match never
\* has the id of a saved one: over any sequence of crashes, restarts and
\* cancellations arena7x7_save_match cannot meet an older row.
THEOREM MatchIdsFresh ==
    ASSUME "boot" \notin SqlFailures PROVE Spec => []OpenMatchNotSaved
<1>1. Init => SavedInv
  BY DEF Init, SavedInv, SavedCovered, OpenMatchNotSaved
<1>2. SavedInv => OpenMatchNotSaved
  BY DEF SavedInv
<1> QED
  BY <1>1, <1>2, InvHolds, SavedNext, PTL DEF Spec

-----------------------------------------------------------------------------
(* The ranking.                                                            *)

\* A deserter of an active match has been charged for it.
DesertersCharged ==
    \A m \in Id : status[m] = "active" =>
        \A c \in deserter[m] : credit[m][c] >= 1
ChargedInv == DesertersCharged /\ FinishedMatchRanked

\* Steps that do not touch the players, statuses and ranking.
LEMMA ChargedStutter ==
    ASSUME ChargedInv, UNCHANGED <<status, team, deserter, credit>> PROVE ChargedInv'
BY DEF ChargedInv, DesertersCharged, FinishedMatchRanked, Roster

\* A process that ends leaves no match.
LEMMA ChargedCleared == ASSUME ClearedMemory PROVE ChargedInv'
BY DEF ClearedMemory, ChargedInv, DesertersCharged, FinishedMatchRanked

\* arena7x7_finish_match counts everybody, because the players it skips were
\* charged when they deserted.
LEMMA ChargedFinish ==
    ASSUME "rank" \notin SqlFailures, Inv, ChargedInv,
           NEW a \in Arena, NEW w \in Winner, NEW ok \in BOOLEAN, Finish(a, w, ok)
    PROVE  ChargedInv'
<1> DEFINE m == slot[a]
<1>0. m \in Id /\ status[m] \in Open
  BY OpenSlot DEF Finish
<1>1. /\ status' = [status EXCEPT ![m] = "finished"] /\ UNCHANGED <<team, deserter>>
      /\ UpdateRanking(m, w, Ranked(m))
  BY DEF Finish, FinishMatch
<1>2. \A c \in Roster(m) : credit'[m][c] >= 1
  <2> SUFFICES ASSUME NEW c \in Roster(m) PROVE credit'[m][c] >= 1
    OBVIOUS
  <2>1. c \in Char /\ team[m][c] # "none" /\ credit[m][c] \in Nat
    BY <1>0 DEF Roster, Inv, TypeOK
  <2>2. credit'[m][c] = IF c \in Ranked(m) THEN credit[m][c] + 1 ELSE credit[m][c]
    BY <1>0, <1>1, <2>1 DEF UpdateRanking, Inv, TypeOK
  <2>3. status[m] = "active"
    BY <1>0, <2>1 DEF Inv, UnstartedIsBlank, Open
  <2>4. c \notin Ranked(m) => credit[m][c] >= 1
    BY <1>0, <2>3 DEF Ranked, Skipped, ChargedInv, DesertersCharged
  <2> QED
    BY <2>1, <2>2, <2>4
<1>3. \A n \in Id : n # m => status'[n] = status[n] /\ credit'[n] = credit[n]
  BY <1>0, <1>1 DEF UpdateRanking, Inv, TypeOK
<1> QED
  BY <1>0, <1>1, <1>2, <1>3 DEF ChargedInv, DesertersCharged, FinishedMatchRanked, Roster,
     Inv, TypeOK

\* arena7x7_remove_player charges a desertion at once.
LEMMA ChargedRemoval ==
    ASSUME "rank" \notin SqlFailures, Inv, ChargedInv, NEW c \in Char, playerMatch[c] # 0,
           NEW d \in BOOLEAN, RemovePlayer(c, d), UNCHANGED <<status, team>>
    PROVE  ChargedInv'
<1> DEFINE m == playerMatch[c]
<1>0. m \in Id
  BY IdFacts DEF Inv, TypeOK
<1>1. /\ deserter' = [deserter EXCEPT ![m] = IF d THEN @ \cup {c} ELSE @ \ {c}]
      /\ IF d /\ status[m] = "active" THEN credit' = [credit EXCEPT ![m][c] = @ + 1]
                                      ELSE credit' = credit
  BY DEF RemovePlayer
<1>2. \A n \in Id, e \in Char :
          /\ credit[n][e] \in Nat
          /\ credit'[n][e] = IF n = m /\ e = c /\ d /\ status[m] = "active"
                             THEN credit[n][e] + 1 ELSE credit[n][e]
  BY <1>0, <1>1 DEF Inv, TypeOK
<1>3. \A n \in Id : deserter'[n] \subseteq Char
  BY <1>0, <1>1 DEF Inv, TypeOK
<1>4. \A n \in Id, e \in Char : e \in deserter'[n] => e \in deserter[n] \/ (n = m /\ e = c /\ d)
  BY <1>0, <1>1 DEF Inv, TypeOK
<1>5. DesertersCharged'
  BY <1>2, <1>3, <1>4 DEF ChargedInv, DesertersCharged
<1>6. FinishedMatchRanked'
  BY <1>2 DEF ChargedInv, FinishedMatchRanked, Roster
<1> QED
  BY <1>5, <1>6 DEF ChargedInv

\* Every step of a player preserves the charges.
LEMMA ChargedPlayer ==
    ASSUME "rank" \notin SqlFailures, Inv, ChargedInv, NEW c \in Char, PlayerStep(c)
    PROVE  ChargedInv'
<1>1. CASE OnDeath(c)
  BY <1>1, ChargedStutter DEF OnDeath, database
<1>2. ASSUME SetPosEffect(c), UNCHANGED <<status, team>> PROVE ChargedInv'
  <2>1. CASE playerMatch[c] = 0
    BY <1>2, <2>1, ChargedStutter DEF SetPosEffect
  <2>2. CASE playerMatch[c] # 0
    <3> DEFINE d == status[playerMatch[c]] = "active"
    <3>1. d \in BOOLEAN /\ RemovePlayer(c, d)
      BY <1>2, <2>2 DEF SetPosEffect
    <3> HIDE DEF d
    <3> QED
      BY <1>2, <2>2, <3>1, ChargedRemoval
  <2> QED
    BY <2>1, <2>2
<1>3. CASE SetPos(c)
  BY <1>2, <1>3 DEF SetPos
<1>4. CASE Login(c)
  BY <1>2, <1>4 DEF Login
<1>5. ASSUME NEW leave \in BOOLEAN, Quit(c, leave) PROVE ChargedInv'
  <2>1. CASE leave /\ playerMatch[c] # 0
    <3>1. RemovePlayer(c, TRUE) /\ UNCHANGED <<status, team>>
      BY <1>5, <2>1 DEF Quit
    <3> QED
      BY <2>1, <3>1, ChargedRemoval
  <2>2. CASE ~(leave /\ playerMatch[c] # 0)
    BY <1>5, <2>2, ChargedStutter DEF Quit
  <2> QED
    BY <2>1, <2>2
<1> QED
  BY <1>1, <1>3, <1>4, <1>5 DEF PlayerStep

\* Every step preserves the charges when no ranking query fails.
LEMMA ChargedNext ==
    ASSUME "rank" \notin SqlFailures PROVE Inv /\ ChargedInv /\ [Next]_vars => ChargedInv'
<1> SUFFICES ASSUME Inv, ChargedInv, [Next]_vars PROVE ChargedInv'
  OBVIOUS
<1> USE IdFacts
<1>1. CASE UNCHANGED vars
  BY <1>1, ChargedStutter DEF vars, registry, database
<1>2. ASSUME NEW a \in Arena, HookStep(a) PROVE ChargedInv'
  <2>1. CASE OnMatchCreate(a)
    <3>1. counter + 1 \in Id
      BY <2>1 DEF OnMatchCreate, CreateMatch, Inv, TypeOK
    <3> QED
      BY <2>1, <3>1 DEF OnMatchCreate, CreateMatch, database, Inv, TypeOK, ChargedInv,
         DesertersCharged, FinishedMatchRanked, Roster
  <2>2. ASSUME NEW B \in SUBSET Char, NEW R \in SUBSET Char, OnMatchStart(a, B, R)
        PROVE  ChargedInv'
    <3>1. slot[a] \in Id /\ status[slot[a]] = "waiting"
      BY <2>2, OpenSlot DEF OnMatchStart
    <3>2. /\ status' = [status EXCEPT ![slot[a]] = "active"] /\ UNCHANGED credit
          /\ \A n \in Id : n # slot[a] => team'[n] = team[n] /\ deserter'[n] = deserter[n]
          /\ deserter'[slot[a]] \subseteq deserter[slot[a]]
      BY <2>2, <3>1 DEF OnMatchStart, JoinAndStart, AddPlayers, StartMatch, database, Inv, TypeOK
    <3>3. deserter'[slot[a]] = {}
      BY <3>1, <3>2 DEF Inv, TypeOK, UnstartedIsBlank
    <3> QED
      BY <3>1, <3>2, <3>3 DEF Inv, TypeOK, ChargedInv, DesertersCharged,
         FinishedMatchRanked, Roster
  <2>3. ASSUME NEW w \in Winner, NEW ok \in BOOLEAN, Finish(a, w, ok) PROVE ChargedInv'
    BY <2>3, ChargedFinish
  <2>4. CASE OnMatchCancel(a)
    <3>1. slot[a] \in Id
      BY <2>4, OpenSlot DEF OnMatchCancel
    <3> QED
      BY <2>4, <3>1 DEF OnMatchCancel, CancelMatch, database, Inv, TypeOK, ChargedInv,
         DesertersCharged, FinishedMatchRanked, Roster
  <2>5. CASE RestoreAll(a)
    BY <2>5, ChargedStutter DEF RestoreAll, database
  <2>6. CASE CrashInFinish(a)
    BY <2>6, ChargedCleared DEF CrashInFinish
  <2> QED
    BY <1>2, <2>1, <2>2, <2>3, <2>4, <2>5, <2>6 DEF HookStep
<1>3. ASSUME NEW c \in Char, PlayerStep(c) PROVE ChargedInv'
  BY <1>3, ChargedPlayer
<1>4. CASE ServerStep
  BY <1>4, ChargedCleared, ChargedStutter DEF ServerStep, Shutdown, Crash, Boot, database
<1> QED
  BY <1>1, <1>2, <1>3, <1>4 DEF Next

\* When no ranking query fails, every player of a finished match was counted for
\* it, although arena7x7_finish_match skips deserters.
THEOREM EveryoneIsRanked ==
    ASSUME "rank" \notin SqlFailures PROVE Spec => []FinishedMatchRanked
<1>1. Init => ChargedInv
  BY DEF Init, ChargedInv, DesertersCharged, FinishedMatchRanked
<1>2. ChargedInv => FinishedMatchRanked
  BY DEF ChargedInv
<1> QED
  BY <1>1, <1>2, InvHolds, ChargedNext, PTL DEF Spec

-----------------------------------------------------------------------------
(* The life of a match.                                                    *)

\* A match never moves backwards: a finished or cancelled match stays so, and
\* an active one does not disappear, as long as the server runs.
THEOREM MatchesOnlyAdvance == Spec => StatusOrder
<1>1. Inv /\ [Next]_vars => [StatusStep]_vars
  <2> SUFFICES ASSUME Inv, Next, up, up' PROVE StatusStep
    BY DEF StatusStep
  <2> USE IdFacts
  <2>1. ASSUME UNCHANGED status PROVE StatusStep
    BY <2>1 DEF StatusStep
  <2>2. ASSUME NEW a \in Arena, HookStep(a) PROVE StatusStep
    <3>1. CASE OnMatchCreate(a)
      BY <3>1 DEF OnMatchCreate, CreateMatch, StatusStep, Inv, TypeOK, CounterCoversMatches
    <3>2. ASSUME NEW B \in SUBSET Char, NEW R \in SUBSET Char, OnMatchStart(a, B, R)
          PROVE  StatusStep
      BY <3>2, OpenSlot DEF OnMatchStart, JoinAndStart, StartMatch, StatusStep, Inv, TypeOK
    <3>3. ASSUME NEW w \in Winner, NEW ok \in BOOLEAN, Finish(a, w, ok) PROVE StatusStep
      BY <3>3, OpenSlot DEF Finish, FinishMatch, StatusStep, Inv, TypeOK, Open
    <3>4. CASE OnMatchCancel(a)
      BY <3>4, OpenSlot DEF OnMatchCancel, CancelMatch, StatusStep, Inv, TypeOK, Open
    <3>5. CASE RestoreAll(a)
      BY <3>5, <2>1 DEF RestoreAll
    <3>6. CASE CrashInFinish(a)
      BY <3>6 DEF CrashInFinish, ClearedMemory
    <3> QED
      BY <2>2, <3>1, <3>2, <3>3, <3>4, <3>5, <3>6 DEF HookStep
  <2>3. ASSUME NEW c \in Char, PlayerStep(c) PROVE StatusStep
    BY <2>1, <2>3 DEF PlayerStep, OnDeath, SetPos, Login, Quit
  <2>4. ASSUME ServerStep PROVE StatusStep
    BY <2>1, <2>4 DEF ServerStep, Shutdown, Crash, ClearedMemory, Boot
  <2> QED
    BY <2>2, <2>3, <2>4 DEF Next
<1> QED
  BY <1>1, InvHolds, PTL DEF Spec, StatusOrder
=============================================================================
