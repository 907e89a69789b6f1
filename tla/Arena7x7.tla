------------------------------ MODULE Arena7x7 ------------------------------
(***************************************************************************)
(* The match registry of the Arena 7x7 system (src/map/arena7x7.cpp): the  *)
(* maps arena7x7_matches and arena7x7_player_match, the match counter, the *)
(* per-match player flags, and the ranking and match rows written to the   *)
(* database.  The registry is driven by                                    *)
(*   - the ranking hook script of each arena, which keeps the id of the    *)
(*     arena's match in $@arenaN_match_id (here slot);                     *)
(*   - the warp hook in pc_setpos and the logout event of a battleground;  *)
(*   - the death hook;                                                     *)
(*   - the start and the end, orderly or not, of the map server.           *)
(* The map server is single-threaded, so each of these is one step.        *)
(***************************************************************************)
EXTENDS Integers, FiniteSets

CONSTANTS
    Char,               \* characters that may play
    Arena,              \* arenas, each with its own controller script
    MaxMatch,           \* bound on match ids (the code uses uint32)
    SqlFailures         \* the kinds of query that may fail: "boot" (the highest
                        \* match id), "save" (a match row), "rank" (a ranking row)

ASSUME MaxMatchAssumption == MaxMatch \in Nat \ {0}
ASSUME SqlAssumption == SqlFailures \subseteq {"boot", "save", "rank"}

Id      == 1..MaxMatch
Team    == {"blue", "red"}
Winner  == Team \cup {"none"}
Status  == {"absent", "waiting", "active", "finished", "cancelled"}
Open    == {"waiting", "active"}

VARIABLES
    up,           \* the map server is running
    counter,      \* arena7x7_match_counter
    status,       \* match->status; "absent": not a key of arena7x7_matches
    team,         \* team[m][c]: stats->team, "none" when c is not in players
    deserter,     \* the players of m with stats->is_deserter
    dead,         \* the players of m with stats->is_dead (tombstones)
    playerMatch,  \* arena7x7_player_match; 0 when there is no entry
    slot,         \* $@arenaN_match_id of every arena
    online,       \* characters that map_charid2sd finds
    saved,        \* database: ids with a row in arena7x7_matches
    winRow,       \* database, of a match m in memory: the players that
                  \* arena7x7_match_players shows with is_winner
    credit,       \* how often a match m in memory was counted for c in
                  \* arena7x7_ranking
    wins          \* the characters the ranking counts m as a win for

registry == <<counter, status, team, deserter, dead, playerMatch>>
database == <<saved, winRow, credit, wins>>
vars     == <<up, slot, online, registry, database>>

NoTeam    == [c \in Char |-> "none"]
Roster(m) == {c \in Char : team[m][c] # "none"}
ActiveIds == {m \in Id : status[m] = "active"}

-----------------------------------------------------------------------------
(* Operations on the registry.                                             *)

\* Mutant of RemovePlayer: the entry of arena7x7_player_match is not erased.
RemovePlayerKeepsEntry(c, isDeserter) ==
    LET m == playerMatch[c]
    IN  /\ deserter' = [deserter EXCEPT ![m] = IF isDeserter THEN @ \cup {c} ELSE @ \ {c}]
        /\ credit' = IF isDeserter /\ status[m] = "active"
                     THEN [credit EXCEPT ![m][c] = @ + 1] ELSE credit
        /\ UNCHANGED playerMatch

\* Mutant of RemovePlayer: stats->is_deserter is not set.
RemovePlayerUnmarked(c, isDeserter) ==
    LET m == playerMatch[c]
    IN  /\ credit' = IF isDeserter /\ status[m] = "active"
                     THEN [credit EXCEPT ![m][c] = @ + 1] ELSE credit
        /\ playerMatch' = [playerMatch EXCEPT ![c] = 0]
        /\ UNCHANGED deserter

\* arena7x7_remove_player on a registered c: the flag is overwritten, a
\* desertion of an active match is charged to the ranking at once.
RemovePlayer(c, isDeserter) ==
    LET m == playerMatch[c]
    IN  /\ deserter' = [deserter EXCEPT ![m] = IF isDeserter THEN @ \cup {c} ELSE @ \ {c}]
        /\ \/ /\ isDeserter /\ status[m] = "active"
              /\ credit' = [credit EXCEPT ![m][c] = @ + 1]
           \/ /\ isDeserter /\ status[m] = "active" => "rank" \in SqlFailures
              /\ UNCHANGED credit
        /\ playerMatch' = [playerMatch EXCEPT ![c] = 0]

\* Mutant of SetPosEffect: the tombstone is restored, the player not removed.
SetPosRestoresOnly(c) ==
    /\ dead' = [m \in Id |-> IF m = playerMatch[c] THEN dead[m] \ {c} ELSE dead[m]]
    /\ UNCHANGED <<deserter, credit, playerMatch>>

\* The arena part of pc_setpos: a tombstone is restored, then the player is
\* removed, as a deserter when the match is active.
SetPosEffect(c) ==
    IF playerMatch[c] = 0
    THEN UNCHANGED <<dead, deserter, credit, playerMatch>>
    ELSE /\ dead' = [dead EXCEPT ![playerMatch[c]] = @ \ {c}]
         /\ RemovePlayer(c, status[playerMatch[c]] = "active")

\* Mutant of Skipped: deserters are not skipped.
SkippedNobody(m) == {}

\* Mutant of Ranked: only players that map_charid2sd finds.
RankedOnline(m) == Roster(m) \cap online

\* Whom the ranking loop of arena7x7_finish_match counts: not a deserter
\* "already penalised", which is how it reads a deserter without registration.
Skipped(m) == {c \in deserter[m] : playerMatch[c] = 0}
Ranked(m)  == Roster(m) \ Skipped(m)
Won(m, w)  == {c \in Roster(m) : team[m][c] = w}

\* arena7x7_update_ranking for the players S of m, winner team w.
UpdateRanking(m, w, S) ==
    /\ credit' = [credit EXCEPT ![m] = [c \in Char |-> IF c \in S THEN @[c] + 1 ELSE @[c]]]
    /\ wins' = [wins EXCEPT ![m] = @ \cup ((Won(m, w) \ deserter[m]) \cap S)]

\* Mutant of SaveMatch: everyone who did not lose is a winner.
SaveMatchDrawWins(m, w, ok) ==
    /\ ok \/ "save" \in SqlFailures
    /\ saved' = IF ok THEN saved \cup {m} ELSE saved
    /\ winRow' = IF ok
                 THEN [winRow EXCEPT ![m] = IF w = "none" THEN Roster(m) ELSE Won(m, w)]
                 ELSE winRow

\* arena7x7_save_match: one transaction; is_winner looks at the team only.
SaveMatch(m, w, ok) ==
    /\ ok \/ "save" \in SqlFailures
    /\ saved' = IF ok THEN saved \cup {m} ELSE saved
    /\ winRow' = IF ok THEN [winRow EXCEPT ![m] = Won(m, w)] ELSE winRow

\* Mutant of ReturnedCounter: an id is given back although later ones are used.
ReturnedAlways(m) == counter - 1

\* The counter after arena7x7_cancel_match of a match that never started.
ReturnedCounter(m) == IF m = counter THEN counter - 1 ELSE counter

\* The empty maps of a process that starts or has called do_final_arena7x7.
\* The rows written for the matches of an earlier process are never read again,
\* except for their ids.
ClearedMemory ==
    /\ status' = [m \in Id |-> "absent"]
    /\ team' = [m \in Id |-> NoTeam]
    /\ deserter' = [m \in Id |-> {}]
    /\ dead' = [m \in Id |-> {}]
    /\ playerMatch' = [c \in Char |-> 0]
    /\ slot' = [a \in Arena |-> 0]
    /\ online' = {}
    /\ up' = FALSE
    /\ winRow' = [m \in Id |-> {}]
    /\ credit' = [m \in Id |-> [c \in Char |-> 0]]
    /\ wins' = [m \in Id |-> {}]
    /\ counter' = 0

-----------------------------------------------------------------------------
(* Steps.                                                                  *)

\* arena7x7_create_match, its id stored in the arena's variable.
CreateMatch(a) ==
    /\ up
    /\ counter < MaxMatch
    /\ LET id == counter + 1
       IN  /\ counter' = id
           /\ status' = [status EXCEPT ![id] = "waiting"]
           /\ team' = [team EXCEPT ![id] = NoTeam]
           /\ deserter' = [deserter EXCEPT ![id] = {}]
           /\ dead' = [dead EXCEPT ![id] = {}]
           /\ slot' = [slot EXCEPT ![a] = id]
    /\ UNCHANGED <<up, playerMatch, online, database>>

\* arena7x7_add_player for the members B and then R of the two battleground
\* teams: those online and in no match join m.
AddPlayers(m, B, R) ==
    LET joined == {c \in (B \cup R) \cap online :
                      playerMatch[c] = 0 /\ status[m] \in Open}
    IN  /\ team' = [team EXCEPT ![m] = [c \in Char |->
                       IF c \notin joined THEN @[c]
                       ELSE IF c \in B THEN "blue" ELSE "red"]]
        /\ deserter' = [deserter EXCEPT ![m] = @ \ joined]
        /\ dead' = [dead EXCEPT ![m] = @ \ joined]
        /\ playerMatch' = [c \in Char |-> IF c \in joined THEN m ELSE playerMatch[c]]

\* arena7x7_start_match.
StartMatch(m) ==
    status' = [status EXCEPT ![m] = IF @ = "waiting" THEN "active" ELSE @]

JoinAndStart(a, B, R) ==
    /\ up
    /\ slot[a] # 0
    /\ AddPlayers(slot[a], B, R)
    /\ StartMatch(slot[a])
    /\ UNCHANGED <<up, counter, slot, online, database>>

\* The hook events OnMatchCreate and OnMatchStart.  The guards are what the
\* registry expects of a controller: it releases a match before it creates the
\* next and starts a match once.  The code does not test them; ArenaBattle
\* shows that the controller script respects them.
OnMatchCreate(a)      == slot[a] = 0 /\ CreateMatch(a)
OnMatchStart(a, B, R) == /\ slot[a] # 0
                         /\ status[slot[a]] = "waiting"
                         /\ JoinAndStart(a, B, R)

\* arena7x7_finish_match: the ranking is updated whether or not the save worked.
FinishMatch(m, w, ok) ==
    /\ status' = [status EXCEPT ![m] = "finished"]
    /\ SaveMatch(m, w, ok)
    /\ \E S \in SUBSET Ranked(m) :
          /\ S = Ranked(m) \/ "rank" \in SqlFailures
          /\ UpdateRanking(m, w, S)

\* OnBlueWin, OnRedWin, OnDraw: the match is finished, then the id is cleared.
Finish(a, w, ok) ==
    /\ up
    /\ slot[a] # 0
    /\ FinishMatch(slot[a], w, ok)
    /\ slot' = [slot EXCEPT ![a] = 0]
    /\ UNCHANGED <<up, counter, team, deserter, dead, playerMatch, online>>

\* arena7x7_cancel_match: a match that never started disappears and gives its id
\* back when it was the last one.
CancelMatch(m) ==
    \/ /\ status[m] = "waiting"
       /\ status' = [status EXCEPT ![m] = "absent"]
       /\ team' = [team EXCEPT ![m] = NoTeam]
       /\ deserter' = [deserter EXCEPT ![m] = {}]
       /\ dead' = [dead EXCEPT ![m] = {}]
       /\ playerMatch' = [c \in Char |-> IF playerMatch[c] = m THEN 0 ELSE playerMatch[c]]
       /\ counter' = ReturnedCounter(m)
    \/ /\ status[m] # "waiting"
       /\ status' = [status EXCEPT ![m] = "cancelled"]
       /\ UNCHANGED <<counter, team, deserter, dead, playerMatch>>

\* OnMatchCancel: the match is cancelled, then the id is cleared.
OnMatchCancel(a) ==
    /\ up
    /\ slot[a] # 0
    /\ CancelMatch(slot[a])
    /\ slot' = [slot EXCEPT ![a] = 0]
    /\ UNCHANGED <<up, online, database>>

\* The death hook, arena7x7_on_death: the player becomes a tombstone.
OnDeath(c) ==
    /\ up
    /\ c \in online
    /\ playerMatch[c] # 0
    /\ c \notin dead[playerMatch[c]]
    /\ dead' = [dead EXCEPT ![playerMatch[c]] = @ \cup {c}]
    /\ UNCHANGED <<up, counter, status, team, deserter, playerMatch, slot, online, database>>

\* pc_setpos of a player, whatever the destination and the outcome of the warp.
SetPos(c) ==
    /\ up
    /\ c \in online
    /\ SetPosEffect(c)
    /\ UNCHANGED <<up, counter, status, team, slot, online, saved, winRow, wins>>

\* pc_authok: a character enters the map server and pc_setpos places it.
Login(c) ==
    /\ up
    /\ c \notin online
    /\ online' = online \cup {c}
    /\ SetPosEffect(c)
    /\ UNCHANGED <<up, counter, status, team, slot, saved, winRow, wins>>

\* map_quit.  With leave, the logout event of the battleground team runs and
\* finds its arena's match open: arena7x7_leave(1).
Quit(c, leave) ==
    /\ up
    /\ c \in online
    /\ online' = online \ {c}
    /\ IF leave /\ playerMatch[c] # 0
       THEN RemovePlayer(c, TRUE)
       ELSE UNCHANGED <<deserter, credit, playerMatch>>
    /\ UNCHANGED <<up, counter, status, team, dead, slot, saved, winRow, wins>>

\* OnStop: arena7x7_restore_all_tombstones.  It looks for tombstones of m but
\* restores the player in the match it is registered in now.
RestoreAll(a) ==
    /\ up
    /\ slot[a] # 0
    /\ LET restored == dead[slot[a]] \cap online
       IN  dead' = [m \in Id |-> dead[m] \ {c \in restored : playerMatch[c] = m}]
    /\ UNCHANGED <<up, counter, status, team, deserter, playerMatch, slot, online, database>>

\* do_final_arena7x7: every active match is cancelled and saved (S: the saves
\* that succeed; winner_team is still none), and the maps are cleared.
Shutdown(S) ==
    /\ up
    /\ S = ActiveIds \/ "save" \in SqlFailures
    /\ saved' = saved \cup S
    /\ ClearedMemory

\* The process dies between two events.
Crash ==
    /\ up
    /\ ClearedMemory
    /\ UNCHANGED saved

\* The process dies inside arena7x7_finish_match, after the COMMIT of
\* arena7x7_save_match and before the ranking of every player is written.
CrashInFinish(a) ==
    /\ up
    /\ slot[a] # 0
    /\ saved' = saved \cup {slot[a]}
    /\ ClearedMemory

\* Mutant of LoadedCounter: COUNT instead of MAX of the saved ids.
LoadedCount(n) == n = Cardinality(saved)

\* Mutant of Boot: the next id is taken for the last one.
BootAtNext ==
    /\ ~up
    /\ up' = TRUE
    /\ \E n \in 0..MaxMatch :
          /\ n \in {0} \cup saved /\ \A m \in saved : m <= n
          /\ counter' = n + 1
    /\ UNCHANGED <<status, team, deserter, dead, playerMatch, slot, online, database>>

\* do_init_arena7x7: the counter continues after the highest saved id; when
\* the query fails arena7x7_load_next_match_id answers 1.
LoadedCounter(n) ==
    /\ n \in {0} \cup saved
    /\ \A m \in saved : m <= n

Boot ==
    /\ ~up
    /\ up' = TRUE
    /\ \E n \in 0..MaxMatch :
          /\ LoadedCounter(n) \/ ("boot" \in SqlFailures /\ n = 0)
          /\ counter' = n
    /\ UNCHANGED <<status, team, deserter, dead, playerMatch, slot, online, database>>

-----------------------------------------------------------------------------
Init ==
    /\ up = FALSE
    /\ counter = 0
    /\ status = [m \in Id |-> "absent"]
    /\ team = [m \in Id |-> NoTeam]
    /\ deserter = [m \in Id |-> {}]
    /\ dead = [m \in Id |-> {}]
    /\ playerMatch = [c \in Char |-> 0]
    /\ slot = [a \in Arena |-> 0]
    /\ online = {}
    /\ saved = {}
    /\ winRow = [m \in Id |-> {}]
    /\ credit = [m \in Id |-> [c \in Char |-> 0]]
    /\ wins = [m \in Id |-> {}]

HookStep(a) ==
    \/ OnMatchCreate(a)
    \/ \E B, R \in SUBSET Char : OnMatchStart(a, B, R)
    \/ \E w \in Winner, ok \in BOOLEAN : Finish(a, w, ok)
    \/ OnMatchCancel(a)
    \/ RestoreAll(a)
    \/ CrashInFinish(a)

PlayerStep(c) ==
    \/ OnDeath(c)
    \/ SetPos(c)
    \/ Login(c)
    \/ \E leave \in BOOLEAN : Quit(c, leave)

ServerStep ==
    \/ \E S \in SUBSET ActiveIds : Shutdown(S)
    \/ Crash
    \/ Boot

Next ==
    \/ \E a \in Arena : HookStep(a)
    \/ \E c \in Char : PlayerStep(c)
    \/ ServerStep

Spec == Init /\ [][Next]_vars

-----------------------------------------------------------------------------
(* Properties.                                                             *)

\* Every variable has its type; the counter stays inside the ids.
TypeOK ==
    /\ up \in BOOLEAN
    /\ counter \in 0..MaxMatch
    /\ status \in [Id -> Status]
    /\ team \in [Id -> [Char -> Winner]]
    /\ deserter \in [Id -> SUBSET Char]
    /\ dead \in [Id -> SUBSET Char]
    /\ playerMatch \in [Char -> 0..MaxMatch]
    /\ slot \in [Arena -> 0..MaxMatch]
    /\ online \in SUBSET Char
    /\ saved \in SUBSET Id
    /\ winRow \in [Id -> SUBSET Char]
    /\ credit \in [Id -> [Char -> Nat]]
    /\ wins \in [Id -> SUBSET Char]

\* No dangling registration: an entry of arena7x7_player_match names a match
\* that exists and lists the player, who is not marked a deserter of it.  (The
\* branches of remove_player and get_player_stats for a missing match or
\* missing stats are therefore never taken.)
RegistryConsistent ==
    \A c \in Char : playerMatch[c] # 0 =>
        /\ status[playerMatch[c]] \notin {"absent", "waiting"}
        /\ team[playerMatch[c]][c] # "none"
        /\ c \notin deserter[playerMatch[c]]

\* Every open match belongs to exactly one arena, and an arena's match id
\* always names an open match: no match is forgotten, none is driven by two
\* controllers.
SlotsOwnMatches ==
    /\ \A a \in Arena : slot[a] # 0 => status[slot[a]] \in Open
    /\ \A m \in Id : status[m] \in Open => \E a \in Arena : slot[a] = m
    /\ \A a, b \in Arena : slot[a] # 0 /\ slot[a] = slot[b] => a = b

\* The counter is never behind a match in memory, so arena7x7_create_match
\* never replaces one, even though cancelling gives ids back.
CounterCoversMatches ==
    \A m \in Id : status[m] # "absent" => m <= counter

\* While a match is open the database has no row with its id: the INSERT of
\* arena7x7_save_match cannot meet an older match, across restarts and crashes.
OpenMatchNotSaved ==
    \A m \in Id : status[m] \in Open => m \notin saved

\* A player who did not desert is counted at most once per match, a deserter
\* at most twice.
RankingBounded ==
    \A m \in Id : status[m] # "absent" =>
        \A c \in Char :
            /\ credit[m][c] <= 2
            /\ credit[m][c] = 2 => c \in deserter[m]

\* After arena7x7_finish_match every player of the match was counted, deserters
\* included.
FinishedMatchRanked ==
    \A m \in Id : status[m] = "finished" =>
        \A c \in Roster(m) : credit[m][c] >= 1

\* arena7x7_finish_match skips deserters "to avoid applying a double penalty":
\* nobody is counted twice for one match.
RankedOnce ==
    \A m \in Id : status[m] # "absent" =>
        \A c \in Char : credit[m][c] <= 1

\* The saved match and the ranking agree on the winners, deserters apart (the
\* saved match shows a deserter of the winning team as a winner).
WinnersAgree ==
    \A m \in Id : status[m] = "finished" /\ m \in saved =>
        /\ wins[m] \subseteq winRow[m]
        /\ winRow[m] \ deserter[m] \subseteq wins[m]

\* A match only moves waiting -> active -> finished or cancelled; what is over
\* never reopens while the server runs.
StatusStep ==
    up /\ up' => \A m \in Id :
        /\ status[m] \in {"finished", "cancelled"} => status'[m] = status[m]
        /\ status[m] = "active" => status'[m] \notin {"absent", "waiting"}
        /\ status[m] = "absent" => status'[m] \in {"absent", "waiting"}
StatusOrder == [][StatusStep]_vars
=============================================================================
