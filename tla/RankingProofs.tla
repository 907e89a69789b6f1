--------------------------- MODULE RankingProofs ---------------------------
(***************************************************************************)
(* Proofs about the ranking of the Arena 7x7, on top of the invariant of   *)
(* the match registry: nobody is counted twice for one match when there is *)
(* a single arena, and the rows of a saved match name the same winners as  *)
(* the ranking.                                                            *)
(***************************************************************************)
EXTENDS Arena7x7Proofs

-----------------------------------------------------------------------------
(* Counted once.                                                           *)

\* A deserter of an active match is in no match: with one arena there is none
\* to join, since the match of that arena has already started.
DesertersAreOut ==
    \A m \in Id : status[m] = "active" =>
        \A c \in deserter[m] : playerMatch[c] = 0
OnceInv == DesertersAreOut /\ RankedOnce

\* Steps that do not touch the players, statuses and ranking.
LEMMA OnceStutter ==
    ASSUME OnceInv, UNCHANGED <<status, deserter, playerMatch, credit>> PROVE OnceInv'
BY DEF OnceInv, DesertersAreOut, RankedOnce

\* A process that ends leaves no match.
LEMMA OnceCleared == ASSUME ClearedMemory PROVE OnceInv'
BY DEF ClearedMemory, OnceInv, DesertersAreOut, RankedOnce

\* A player who joins the match of the only arena joins the only open match.
LEMMA OnceStart ==
    ASSUME \A a, b \in Arena : a = b, Inv, OnceInv,
           NEW a \in Arena, NEW B \in SUBSET Char, NEW R \in SUBSET Char, OnMatchStart(a, B, R)
    PROVE  OnceInv'
<1> DEFINE m == slot[a]
<1>1. m \in Id /\ status[m] = "waiting"
  BY OpenSlot DEF OnMatchStart
<1>2. \A n \in Id : status[n] # "active"
  BY <1>1 DEF Inv, SlotsOwnMatches, Open
<1>3. /\ status' = [status EXCEPT ![m] = "active"] /\ UNCHANGED credit
      /\ deserter'[m] \subseteq deserter[m]
  BY <1>1 DEF OnMatchStart, JoinAndStart, AddPlayers, StartMatch, database, Inv, TypeOK
<1>4. deserter'[m] = {}
  BY <1>1, <1>3 DEF Inv, TypeOK, UnstartedIsBlank
<1>5. DesertersAreOut'
  BY <1>1, <1>2, <1>3, <1>4 DEF DesertersAreOut, Inv, TypeOK
<1>6. RankedOnce'
  BY <1>1, <1>3 DEF OnceInv, RankedOnce, Inv, TypeOK
<1> QED
  BY <1>5, <1>6 DEF OnceInv

\* arena7x7_finish_match skips everybody who was counted before.
LEMMA OnceFinish ==
    ASSUME Inv, OnceInv, NEW a \in Arena, NEW w \in Winner, NEW ok \in BOOLEAN,
           Finish(a, w, ok)
    PROVE  OnceInv'
<1> DEFINE m == slot[a]
<1>0. m \in Id /\ status[m] \in Open
  BY OpenSlot DEF Finish
<1>1. PICK S \in SUBSET Ranked(m) : UpdateRanking(m, w, S)
  BY DEF Finish, FinishMatch
<1>2. status' = [status EXCEPT ![m] = "finished"] /\ UNCHANGED <<deserter, playerMatch>>
  BY DEF Finish, FinishMatch
<1>3. ASSUME NEW c \in Char PROVE credit'[m][c] <= 1
  <2>1. credit[m][c] \in Nat /\ credit[m][c] <= 1
    BY <1>0 DEF Inv, TypeOK, OnceInv, RankedOnce, Open
  <2>2. credit'[m][c] = IF c \in S THEN credit[m][c] + 1 ELSE credit[m][c]
    BY <1>0, <1>1 DEF UpdateRanking, Inv, TypeOK
  <2>3. c \in S => credit[m][c] = 0
    <3>1. CASE status[m] = "waiting"
      BY <1>0, <3>1 DEF Inv, UnstartedIsBlank
    <3>2. CASE status[m] = "active"
      <4>1. c \in deserter[m] => playerMatch[c] = 0
        BY <1>0, <3>2 DEF OnceInv, DesertersAreOut
      <4> QED
        BY <1>0, <1>1, <3>2, <4>1 DEF Inv, CountedHaveDeserted, Ranked, Skipped
    <3> QED
      BY <1>0, <3>1, <3>2 DEF Open
  <2> QED
    BY <2>1, <2>2, <2>3
<1>4. \A n \in Id : n # m => status'[n] = status[n] /\ credit'[n] = credit[n]
  BY <1>0, <1>1, <1>2 DEF UpdateRanking, Inv, TypeOK
<1>5. status'[m] = "finished"
  BY <1>0, <1>2 DEF Inv, TypeOK
<1>6. DesertersAreOut'
  BY <1>2, <1>4, <1>5 DEF OnceInv, DesertersAreOut
<1>7. RankedOnce'
  BY <1>3, <1>4 DEF OnceInv, RankedOnce
<1> QED
  BY <1>6, <1>7 DEF OnceInv

\* arena7x7_remove_player counts a desertion of a player who was not counted.
LEMMA OnceRemoval ==
    ASSUME Inv, OnceInv, NEW c \in Char, playerMatch[c] # 0,
           NEW d \in BOOLEAN, RemovePlayer(c, d), UNCHANGED status
    PROVE  OnceInv'
<1> DEFINE m == playerMatch[c]
<1>0. m \in Id /\ c \notin deserter[m]
  BY IdFacts DEF Inv, TypeOK, RegistryConsistent
<1>1. /\ deserter' = [deserter EXCEPT ![m] = IF d THEN @ \cup {c} ELSE @ \ {c}]
      /\ credit' = credit \/ (status[m] = "active" /\ credit' = [credit EXCEPT ![m][c] = @ + 1])
      /\ playerMatch' = [playerMatch EXCEPT ![c] = 0]
  BY DEF RemovePlayer
<1>2. \A e \in Char : playerMatch'[e] = IF e = c THEN 0 ELSE playerMatch[e]
  BY <1>1 DEF Inv, TypeOK
<1>3. \A n \in Id : deserter'[n] \subseteq Char
                    /\ \A e \in deserter'[n] : e \in deserter[n] \/ e = c
  BY <1>0, <1>1 DEF Inv, TypeOK
<1>4. DesertersAreOut'
  BY <1>2, <1>3 DEF OnceInv, DesertersAreOut
<1>5. RankedOnce'
  <2>1. CASE credit' = credit
    BY <2>1 DEF OnceInv, RankedOnce
  <2>2. CASE status[m] = "active" /\ credit' = [credit EXCEPT ![m][c] = @ + 1]
    <3>1. credit[m][c] = 0
      BY <1>0, <2>2 DEF Inv, CountedHaveDeserted
    <3>2. \A n \in Id, e \in Char :
              credit'[n][e] = IF n = m /\ e = c THEN 1 ELSE credit[n][e]
      BY <1>0, <2>2, <3>1 DEF Inv, TypeOK
    <3> QED
      BY <3>2 DEF OnceInv, RankedOnce
  <2> QED
    BY <1>1, <2>1, <2>2
<1> QED
  BY <1>4, <1>5 DEF OnceInv

\* Every step of a player.
LEMMA OncePlayer == ASSUME Inv, OnceInv, NEW c \in Char, PlayerStep(c) PROVE OnceInv'
<1>1. CASE OnDeath(c)
  BY <1>1, OnceStutter DEF OnDeath, database
<1>2. ASSUME SetPosEffect(c), UNCHANGED status PROVE OnceInv'
  <2>1. CASE playerMatch[c] = 0
    BY <1>2, <2>1, OnceStutter DEF SetPosEffect
  <2>2. CASE playerMatch[c] # 0
    <3> DEFINE d == status[playerMatch[c]] = "active"
    <3>1. d \in BOOLEAN /\ RemovePlayer(c, d)
      BY <1>2, <2>2 DEF SetPosEffect
    <3> HIDE DEF d
    <3> QED
      BY <1>2, <2>2, <3>1, OnceRemoval
  <2> QED
    BY <2>1, <2>2
<1>3. CASE SetPos(c)
  BY <1>2, <1>3 DEF SetPos
<1>4. CASE Login(c)
  BY <1>2, <1>4 DEF Login
<1>5. ASSUME NEW leave \in BOOLEAN, Quit(c, leave) PROVE OnceInv'
  <2>1. CASE leave /\ playerMatch[c] # 0
    <3>1. RemovePlayer(c, TRUE) /\ UNCHANGED status
      BY <1>5, <2>1 DEF Quit
    <3> QED
      BY <2>1, <3>1, OnceRemoval
  <2>2. CASE ~(leave /\ playerMatch[c] # 0)
    BY <1>5, <2>2, OnceStutter DEF Quit
  <2> QED
    BY <2>1, <2>2
<1> QED
  BY <1>1, <1>3, <1>4, <1>5 DEF PlayerStep

\* Every step of a system with one arena.
LEMMA OnceNext ==
    ASSUME \A a, b \in Arena : a = b PROVE Inv /\ OnceInv /\ [Next]_vars => OnceInv'
<1> SUFFICES ASSUME Inv, OnceInv, [Next]_vars PROVE OnceInv'
  OBVIOUS
<1> USE IdFacts
<1>1. CASE UNCHANGED vars
  BY <1>1, OnceStutter DEF vars, registry, database
<1>2. ASSUME NEW a \in Arena, HookStep(a) PROVE OnceInv'
  <2>1. CASE OnMatchCreate(a)
    <3>1. counter + 1 \in Id
      BY <2>1 DEF OnMatchCreate, CreateMatch, Inv, TypeOK
    <3>2. status[counter + 1] = "absent"
      BY <3>1 DEF Inv, TypeOK, CounterCoversMatches
    <3> QED
      BY <2>1, <3>1, <3>2 DEF OnMatchCreate, CreateMatch, database, Inv, TypeOK, OnceInv,
         DesertersAreOut, RankedOnce, UnstartedIsBlank
  <2>2. ASSUME NEW B \in SUBSET Char, NEW R \in SUBSET Char, OnMatchStart(a, B, R)
        PROVE  OnceInv'
    BY <2>2, OnceStart
  <2>3. ASSUME NEW w \in Winner, NEW ok \in BOOLEAN, Finish(a, w, ok) PROVE OnceInv'
    BY <2>3, OnceFinish
  <2>4. CASE OnMatchCancel(a)
    <3>1. slot[a] \in Id /\ status[slot[a]] # "absent"
      BY <2>4, OpenSlot DEF OnMatchCancel, Open
    <3>2. status \in [Id -> Status] /\ UNCHANGED credit
      BY <2>4 DEF OnMatchCancel, database, Inv, TypeOK
    <3>3. \A m \in Id : status'[m] = "active" => status[m] = "active"
      BY <2>4, <3>1, <3>2 DEF OnMatchCancel, CancelMatch
    <3>4. \A m \in Id : status'[m] = "active" => deserter'[m] = deserter[m]
      BY <2>4, <3>1, <3>2 DEF OnMatchCancel, CancelMatch, Inv, TypeOK
    <3>5. \A c \in Char : playerMatch[c] = 0 => playerMatch'[c] = 0
      BY <2>4, <3>1 DEF OnMatchCancel, CancelMatch
    <3>6. \A m \in Id : deserter[m] \subseteq Char
      BY DEF Inv, TypeOK
    <3>7. \A m \in Id : status'[m] # "absent" => status[m] # "absent"
      BY <2>4, <3>1, <3>2 DEF OnMatchCancel, CancelMatch
    <3>8. DesertersAreOut'
      BY <3>3, <3>4, <3>5, <3>6 DEF OnceInv, DesertersAreOut
    <3>9. RankedOnce'
      BY <3>2, <3>7 DEF OnceInv, RankedOnce
    <3> QED
      BY <3>8, <3>9 DEF OnceInv
  <2>5. CASE RestoreAll(a)
    BY <2>5, OnceStutter DEF RestoreAll, database
  <2>6. CASE CrashInFinish(a)
    BY <2>6, OnceCleared DEF CrashInFinish
  <2> QED
    BY <1>2, <2>1, <2>2, <2>3, <2>4, <2>5, <2>6 DEF HookStep
<1>3. ASSUME NEW c \in Char, PlayerStep(c) PROVE OnceInv'
  BY <1>3, OncePlayer
<1>4. CASE ServerStep
  BY <1>4, OnceCleared, OnceStutter DEF ServerStep, Shutdown, Crash, Boot, database
<1> QED
  BY <1>1, <1>2, <1>3, <1>4 DEF Next

\* With a single arena nobody is counted twice for one match: what the comment
\* of arena7x7_finish_match promises.  With two arenas it does not hold: see
\* RankingBounded for what does.
THEOREM NobodyIsCountedTwice ==
    ASSUME \A a, b \in Arena : a = b PROVE Spec => []RankedOnce
<1>1. Init => OnceInv
  BY DEF Init, OnceInv, DesertersAreOut, RankedOnce
<1>2. OnceInv => RankedOnce
  BY DEF OnceInv
<1> QED
  BY <1>1, <1>2, InvHolds, OnceNext, PTL DEF Spec

-----------------------------------------------------------------------------
(* Winners.                                                                *)

\* Nobody has won a match that is not finished.
WinsAreFinal == \A m \in Id : status[m] # "finished" => wins[m] = {}
WinInv       == WinnersAgree /\ WinsAreFinal

\* Steps that only mark more players as deserters.
LEMMA WinStutter ==
    ASSUME Inv, WinInv, UNCHANGED <<status, saved, winRow, wins>>,
           \A m \in Id : status[m] = "finished" => deserter[m] \subseteq deserter'[m]
    PROVE  WinInv'
BY DEF WinInv, WinnersAgree, WinsAreFinal

\* A process that ends leaves no match.
LEMMA WinCleared == ASSUME ClearedMemory PROVE WinInv'
BY DEF ClearedMemory, WinInv, WinnersAgree, WinsAreFinal

\* arena7x7_save_match and the ranking loop name the same winners.
LEMMA WinFinish ==
    ASSUME "rank" \notin SqlFailures, Inv, SavedInv, WinInv,
           NEW a \in Arena, NEW w \in Winner, NEW ok \in BOOLEAN, Finish(a, w, ok)
    PROVE  WinInv'
<1> DEFINE m == slot[a]
<1>0. m \in Id /\ status[m] \in Open /\ m \notin saved
  BY OpenSlot DEF Finish, SavedInv, OpenMatchNotSaved
<1>1. /\ status' = [status EXCEPT ![m] = "finished"] /\ UNCHANGED deserter
      /\ UpdateRanking(m, w, Ranked(m)) /\ SaveMatch(m, w, ok)
  BY DEF Finish, FinishMatch
<1>2. wins'[m] = (Won(m, w) \ deserter[m]) \cap Ranked(m)
  <2>1. wins[m] = {} /\ wins \in [Id -> SUBSET Char]
    BY <1>0 DEF WinInv, WinsAreFinal, Open, Inv, TypeOK
  <2> QED
    BY <1>0, <1>1, <2>1 DEF UpdateRanking
<1>3. Won(m, w) \ deserter[m] \subseteq Ranked(m)
  BY DEF Won, Ranked, Skipped
<1>4. m \in saved' => winRow'[m] = Won(m, w)
  <2>1. CASE ok
    BY <1>0, <1>1, <2>1 DEF SaveMatch, Inv, TypeOK
  <2>2. CASE ~ok
    BY <1>0, <1>1, <2>2 DEF SaveMatch
  <2> QED
    BY <2>1, <2>2
<1>5. \A n \in Id : n # m => /\ status'[n] = status[n] /\ wins'[n] = wins[n]
                             /\ winRow'[n] = winRow[n] /\ (n \in saved' <=> n \in saved)
  <2>1. \A n \in Id : n # m => status'[n] = status[n] /\ wins'[n] = wins[n]
    BY <1>0, <1>1 DEF UpdateRanking, Inv, TypeOK
  <2>2. \A n \in Id : n # m => winRow'[n] = winRow[n] /\ (n \in saved' <=> n \in saved)
    BY <1>0, <1>1 DEF SaveMatch, Inv, TypeOK
  <2> QED
    BY <2>1, <2>2
<1>6. status'[m] = "finished"
  BY <1>0, <1>1 DEF Inv, TypeOK
<1>7. WinnersAgree'
  BY <1>1, <1>2, <1>3, <1>4, <1>5 DEF WinInv, WinnersAgree
<1>8. WinsAreFinal'
  BY <1>5, <1>6 DEF WinInv, WinsAreFinal
<1> QED
  BY <1>7, <1>8 DEF WinInv

\* A player who is removed from a match was not a deserter of it.
LEMMA WinRemoval ==
    ASSUME Inv, WinInv, NEW c \in Char, playerMatch[c] # 0,
           NEW d \in BOOLEAN, RemovePlayer(c, d), UNCHANGED <<status, saved, winRow, wins>>
    PROVE  WinInv'
<1>1. playerMatch[c] \in Id /\ c \notin deserter[playerMatch[c]]
  BY IdFacts DEF Inv, TypeOK, RegistryConsistent
<1>2. deserter' = [deserter EXCEPT ![playerMatch[c]] = IF d THEN @ \cup {c} ELSE @ \ {c}]
  BY DEF RemovePlayer
<1>3. \A m \in Id : deserter[m] \subseteq deserter'[m]
  BY <1>1, <1>2 DEF Inv, TypeOK
<1> QED
  BY <1>3, WinStutter

\* Every step of a player.
LEMMA WinPlayer == ASSUME Inv, WinInv, NEW c \in Char, PlayerStep(c) PROVE WinInv'
<1>1. CASE OnDeath(c)
  BY <1>1, WinStutter DEF OnDeath, database
<1>2. ASSUME SetPosEffect(c), UNCHANGED <<status, saved, winRow, wins>> PROVE WinInv'
  <2>1. CASE playerMatch[c] = 0
    BY <1>2, <2>1, WinStutter DEF SetPosEffect
  <2>2. CASE playerMatch[c] # 0
    <3> DEFINE d == status[playerMatch[c]] = "active"
    <3>1. d \in BOOLEAN /\ RemovePlayer(c, d)
      BY <1>2, <2>2 DEF SetPosEffect
    <3> HIDE DEF d
    <3> QED
      BY <1>2, <2>2, <3>1, WinRemoval
  <2> QED
    BY <2>1, <2>2
<1>3. CASE SetPos(c)
  BY <1>2, <1>3 DEF SetPos
<1>4. CASE Login(c)
  BY <1>2, <1>4 DEF Login
<1>5. ASSUME NEW leave \in BOOLEAN, Quit(c, leave) PROVE WinInv'
  <2>1. CASE leave /\ playerMatch[c] # 0
    <3>1. RemovePlayer(c, TRUE) /\ UNCHANGED <<status, saved, winRow, wins>>
      BY <1>5, <2>1 DEF Quit
    <3> QED
      BY <2>1, <3>1, WinRemoval
  <2>2. CASE ~(leave /\ playerMatch[c] # 0)
    BY <1>5, <2>2, WinStutter DEF Quit
  <2> QED
    BY <2>1, <2>2
<1> QED
  BY <1>1, <1>3, <1>4, <1>5 DEF PlayerStep

\* Every step.
LEMMA WinNext ==
    ASSUME "rank" \notin SqlFailures
    PROVE  Inv /\ SavedInv /\ WinInv /\ [Next]_vars => WinInv'
<1> SUFFICES ASSUME Inv, SavedInv, WinInv, [Next]_vars PROVE WinInv'
  OBVIOUS
<1> USE IdFacts
<1>1. CASE UNCHANGED vars
  BY <1>1, WinStutter DEF vars, registry, database
<1>2. ASSUME NEW a \in Arena, HookStep(a) PROVE WinInv'
  <2>1. CASE OnMatchCreate(a)
    <3>1. counter + 1 \in Id
      BY <2>1 DEF OnMatchCreate, CreateMatch, Inv, TypeOK
    <3>2. status[counter + 1] = "absent"
      BY <3>1 DEF Inv, TypeOK, CounterCoversMatches
    <3> QED
      BY <2>1, <3>1, <3>2 DEF OnMatchCreate, CreateMatch, database, Inv, TypeOK, WinInv,
         WinnersAgree, WinsAreFinal
  <2>2. ASSUME NEW B \in SUBSET Char, NEW R \in SUBSET Char, OnMatchStart(a, B, R)
        PROVE  WinInv'
    <3>1. slot[a] \in Id /\ status[slot[a]] = "waiting"
      BY <2>2, OpenSlot DEF OnMatchStart
    <3>2. /\ status' = [status EXCEPT ![slot[a]] = "active"] /\ UNCHANGED <<saved, winRow, wins>>
          /\ \A n \in Id : n # slot[a] => deserter'[n] = deserter[n]
      BY <2>2, <3>1 DEF OnMatchStart, JoinAndStart, AddPlayers, StartMatch, database, Inv, TypeOK
    <3> QED
      BY <3>1, <3>2 DEF Inv, TypeOK, WinInv, WinnersAgree, WinsAreFinal
  <2>3. ASSUME NEW w \in Winner, NEW ok \in BOOLEAN, Finish(a, w, ok) PROVE WinInv'
    BY <2>3, WinFinish
  <2>4. CASE OnMatchCancel(a)
    <3>1. slot[a] \in Id /\ status[slot[a]] # "finished" /\ UNCHANGED <<saved, winRow, wins>>
      BY <2>4, OpenSlot DEF OnMatchCancel, Open, database
    <3>2. /\ status'[slot[a]] # "finished"
          /\ \A n \in Id : n # slot[a] => status'[n] = status[n] /\ deserter'[n] = deserter[n]
      BY <2>4, <3>1 DEF OnMatchCancel, CancelMatch, Inv, TypeOK
    <3> QED
      BY <3>1, <3>2 DEF WinInv, WinnersAgree, WinsAreFinal
  <2>5. CASE RestoreAll(a)
    BY <2>5, WinStutter DEF RestoreAll, database
  <2>6. CASE CrashInFinish(a)
    BY <2>6, WinCleared DEF CrashInFinish
  <2> QED
    BY <1>2, <2>1, <2>2, <2>3, <2>4, <2>5, <2>6 DEF HookStep
<1>3. ASSUME NEW c \in Char, PlayerStep(c) PROVE WinInv'
  BY <1>3, WinPlayer
<1>4. CASE ServerStep
  BY <1>4, WinCleared, WinStutter DEF ServerStep, Shutdown, Crash, Boot, database
<1> QED
  BY <1>1, <1>2, <1>3, <1>4 DEF Next

\* When the query for the highest id does not fail at boot and no ranking query
\* fails, the rows of a finished match and the ranking agree on its winners,
\* deserters apart, even if saving some matches fails and whoever leaves later.
THEOREM SavedWinnersAreRanked ==
    ASSUME "boot" \notin SqlFailures, "rank" \notin SqlFailures
    PROVE  Spec => []WinnersAgree
<1>1. Init => SavedInv /\ WinInv
  BY DEF Init, SavedInv, SavedCovered, OpenMatchNotSaved, WinInv, WinnersAgree, WinsAreFinal
<1>2. WinInv => WinnersAgree
  BY DEF WinInv
<1> QED
  BY <1>1, <1>2, InvHolds, SavedNext, WinNext, PTL DEF Spec
=============================================================================
