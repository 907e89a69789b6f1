---------------------------- MODULE ArenaBattle ----------------------------
(***************************************************************************)
(* One arena in full: the controller script KvM80_BG with its timers and   *)
(* sleeping continuations (npc/.../Arena_ROS_01.txt), the battleground     *)
(* teams (src/map/battleground.cpp), the players, and the match registry.  *)
(*                                                                         *)
(* The map server runs one event at a time.  donpcevent, npc_event and     *)
(* bg_warp run to their end (or to their first sleep) inside the event     *)
(* that calls them: run holds what the current event has still to do, and  *)
(* nothing else happens until it is empty.  Each entry of run is one call. *)
(*                                                                         *)
(* Time is discrete.  Timers and sleeps that are due in the same instant   *)
(* run in any order, and, unless Prompt, after anything a player does in   *)
(* that instant: the timer loop is late by some milliseconds.              *)
(***************************************************************************)
EXTENDS Arena7x7, Sequences, Bags

CONSTANTS
    Home,         \* the arena modelled
    TeamSize,     \* $@jogadoresblue, $@jogadoresred
    MaxSleeps,    \* bound: nobody dies while so many scripts are sleeping
    Prompt,       \* timers fire before any player acts in the same instant
    StartDelay, CheckDelay, BeginDelay, MatchDelay,
    WinDelay, DrawDelay, StopDelay, OutDelay, CancelDelay, ResetDelay

ASSUME HomeAssumption == Home \in Arena /\ Home # "out"
ASSUME CharAssumption == IsFiniteSet(Char)
ASSUME TeamSizeAssumption == TeamSize \in [Team -> Nat \ {0}]

ASSUME PromptAssumption == Prompt \in BOOLEAN
ASSUME MaxSleepsAssumption == MaxSleeps \in Nat \ {0}

\* The order of the script's delays.  A finished match is torn down
\* WinDelay + 2 * StopDelay (5 s) after its end, exactly as long as the
\* KvM80_BG_Out timer runs; a reset takes 2 * ResetDelay (4 s), which is less;
\* the first check of a new match (25 s) comes after all of them.
ASSUME DelayAssumption ==
    /\ {StartDelay, CheckDelay, BeginDelay, MatchDelay, WinDelay, DrawDelay,
        StopDelay, OutDelay, CancelDelay, ResetDelay} \subseteq Nat
    /\ StartDelay < BeginDelay
    /\ WinDelay + 2 * StopDelay = OutDelay
    /\ 2 * ResetDelay < OutDelay
    /\ DrawDelay <= WinDelay
    /\ CheckDelay > OutDelay
    /\ CheckDelay > 2 * ResetDelay + CancelDelay

VARIABLES
    state,     \* $@KvM80BG: 0 idle, 1 starting, 2 playing, 3 cancelled
    count,     \* .Guillaume_Count (blue), .Croix_Count (red)
    members,   \* the members vector of the two battleground teams
    stale,     \* members whose session has ended since they joined
    bg,        \* sd->bg_id, as the team it stands for
    place,     \* where an online character is: Home or "out"
    corpse,    \* dead players outside a match, waiting for their respawn
    timer,     \* the npc timer of KvM80_BG: the next label and the time left
    out,       \* time left of the KvM80_BG_Out timer, -1 when stopped
    sleeps,    \* sleeping continuations of the script (a bag)
    run        \* what the current event has still to do

control    == <<state, count, members, stale, bg, place, corpse, timer, out, sleeps, run>>
battleVars == <<vars, control>>

Other(t)  == IF t = "blue" THEN "red" ELSE "blue"
Members   == members["blue"] \cup members["red"]
Stopped   == [at |-> "none", left |-> -1]
Event(e, t) == [ev |-> e, t |-> t, who |-> {}, to |-> "out", by |-> "none"]
Call(e)   == Event(e, "none")
WarpOf(S, to, by) == [ev |-> "warp", t |-> "none", who |-> S, to |-> to, by |-> by]
\* bg_team_warp leaves tombstones where they are; mapwarp moves everyone who is
\* in the arena (as does maprespawnguildid).
BgWarp(S, to) == WarpOf(S, to, "team")
\* Mutant of MapWarp: it skips tombstones, too.
MapWarpSkipsTombs == BgWarp({c \in online : place[c] = Home}, "out")
MapWarp       == WarpOf(Char, "out", "map")
Sleep(e, d) == SetToBag({[at |-> e, left |-> d]})
Idle      == up /\ run = <<>>
Running(e) == up /\ run # <<>> /\ Head(run).ev = e
NothingDue == timer.left # 0 /\ out # 0 /\ \A s \in BagToSet(sleeps) : s.left # 0
\* The server may turn to the players.
Listening == Idle /\ (Prompt => NothingDue)
InArena   == {c \in online : place[c] = Home}

-----------------------------------------------------------------------------
(* Players.                                                                *)

\* The rest of pc_setpos: the player moves; leaving the arena's map for one
\* that is no battleground leaves the team, without a logout event.
Moved(c, to) ==
    /\ place' = [place EXCEPT ![c] = to]
    /\ bg' = IF to # Home /\ place[c] = Home THEN [bg EXCEPT ![c] = "none"] ELSE bg
    /\ corpse' = corpse \ {c}

\* A character enters the server (its save point is never in the arena).
PlayerLogin(c) ==
    /\ Listening
    /\ Login(c)
    /\ place' = [place EXCEPT ![c] = "out"]
    /\ UNCHANGED <<state, count, members, stale, bg, corpse, timer, out, sleeps, run>>

\* A player is warped, by itself, a game master or its respawn timer; a
\* teleport inside the arena is a pc_setpos too.
PlayerWarp(c, to) ==
    /\ Listening
    /\ place[c] = Home \/ (to = "out" /\ playerMatch[c] # 0)
    /\ SetPos(c)
    /\ Moved(c, to)
    /\ UNCHANGED <<state, count, members, stale, timer, out, sleeps, run>>

\* A player in the arena dies.  In a match: pc_dead calls arena7x7_on_death,
\* which fires the die event of its team.  Outside a match the die event is
\* fired by status_damage.
PlayerDies(c) ==
    /\ Listening
    /\ c \in InArena
    /\ bg[c] # "none"
    /\ c \notin corpse
    /\ BagCardinality(sleeps) < MaxSleeps
    /\ \/ /\ OnDeath(c)
          /\ UNCHANGED corpse
       \/ /\ playerMatch[c] = 0
          /\ corpse' = corpse \cup {c}
          /\ UNCHANGED vars
    /\ run' = <<Event("die", bg[c])>>
    /\ UNCHANGED <<state, count, members, stale, bg, place, timer, out, sleeps>>

\* Mutants of Decremented: without the test, and on the other team.
DecrementedAlways(t) == [count EXCEPT ![t] = @ - 1]
DecrementedOther(t)  == [count EXCEPT ![Other(t)] = IF @ > 0 THEN @ - 1 ELSE @]

\* The players left of team t after one more has died or quit.
Decremented(t) == [count EXCEPT ![t] = IF @ > 0 THEN @ - 1 ELSE @]

\* OnGuillaumeQuit, OnCroixQuit: c of team t quits.  A match in preparation is
\* cancelled; an active one is deserted and, perhaps, lost.
OnQuit(c, t) ==
    \/ /\ state \in {0, 3}
       /\ Quit(c, FALSE)
       /\ UNCHANGED <<state, count, run>>
    \/ /\ state = 1
       /\ Quit(c, FALSE)
       /\ state' = 3
       /\ run' = <<Call("cancel"), Call("reset")>>
       /\ UNCHANGED count
    \/ /\ state = 2
       /\ Quit(c, slot[Home] # 0)
       /\ count' = Decremented(t)
       /\ run' = IF count'[t] < 1 THEN <<Event("win", Other(t))>> ELSE <<>>
       /\ UNCHANGED state

\* A session ends: map_quit, and for a member of a team bg_team_leave with the
\* logout event.  The member entry stays, because feature.bgqueue is off.
PlayerQuits(c) ==
    /\ Listening
    /\ \/ bg[c] # "none" /\ OnQuit(c, bg[c])
       \/ bg[c] = "none" /\ Quit(c, FALSE) /\ UNCHANGED <<state, count, run>>
    /\ bg' = [bg EXCEPT ![c] = "none"]
    /\ place' = [place EXCEPT ![c] = "out"]
    /\ corpse' = corpse \ {c}
    /\ stale' = IF c \in Members THEN stale \cup {c} ELSE stale
    /\ UNCHANGED <<members, timer, out, sleeps>>

-----------------------------------------------------------------------------
(* The controller script.                                                  *)

\* OnReadyCheck, called when a player enters a waiting room and at the end of
\* OnReset: two full waiting rooms become the battleground teams B, R.
OnReadyCheck(B, R) ==
    /\ Listening \/ Running("ready")
    /\ state = 0
    /\ counter < MaxMatch
    /\ B \cap R = {}
    /\ Cardinality(B) = TeamSize["blue"] /\ Cardinality(R) = TeamSize["red"]
    /\ \A c \in B \cup R : c \in online /\ place[c] = "out" /\ bg[c] = "none"
    /\ state' = 1
    /\ members' = [blue |-> B, red |-> R]
    /\ stale' = {}
    /\ bg' = [c \in Char |-> IF c \in B THEN "blue" ELSE IF c \in R THEN "red" ELSE bg[c]]
    /\ run' = <<Call("create"), BgWarp(B \cup R, Home), Call("started")>>
    /\ UNCHANGED <<vars, count, place, corpse, timer, out, sleeps>>

\* OnReadyCheck with a room that is not full.
NotReady ==
    /\ Running("ready")
    /\ run' = Tail(run)
    /\ UNCHANGED <<vars, state, count, members, stale, bg, place, corpse, timer, out, sleeps>>

\* OnStart up to its sleep: OnMatchCreate, then bg_warp into the arena.
OnStartCreate ==
    /\ Running("create")
    /\ CreateMatch(Home)
    /\ run' = Tail(run)
    /\ UNCHANGED <<state, count, members, stale, bg, place, corpse, timer, out, sleeps>>

OnStartSleep ==
    /\ Running("started")
    /\ sleeps' = sleeps (+) Sleep("started", StartDelay)
    /\ run' = Tail(run)
    /\ UNCHANGED <<vars, state, count, members, stale, bg, place, corpse, timer, out>>

\* bg_warp and mapwarp, one pc_setpos after the other.  A member whose session
\* has ended is never in who (the code follows a pointer to it).
Warp ==
    /\ Running("warp")
    /\ LET call == Head(run)
           todo == {c \in call.who \cap online :
                       IF call.by = "map" THEN place[c] = Home
                       ELSE playerMatch[c] = 0 \/ c \notin dead[playerMatch[c]]}
       IN  IF todo = {}
           THEN /\ run' = Tail(run)
                /\ UNCHANGED <<vars, bg, place, corpse>>
           ELSE \E c \in todo :
                    /\ SetPos(c)
                    /\ Moved(c, call.to)
                    /\ run' = [run EXCEPT ![1] = WarpOf(call.who \ {c}, call.to, call.by)]
    /\ UNCHANGED <<state, count, members, stale, timer, out, sleeps>>

\* OnGuillaumeDie, OnCroixDie: the death of a player of team t.
OnDie(t) ==
    /\ Running("die") /\ Head(run).t = t
    /\ IF state = 2
       THEN /\ count' = Decremented(t)
            /\ run' = IF count'[t] < 1
                      THEN <<Event("win", Other(t))>> \o Tail(run) ELSE Tail(run)
       ELSE /\ run' = Tail(run)
            /\ UNCHANGED count
    /\ UNCHANGED <<vars, state, members, stale, bg, place, corpse, timer, out, sleeps>>

\* OnGuillaumeWin, OnCroixWin with the hook's OnBlueWin, OnRedWin: the match is
\* finished unless that was done before; the teardown is scheduled every time.
OnWin(t) ==
    /\ Running("win") /\ Head(run).t = t
    /\ IF slot[Home] # 0 THEN Finish(Home, t, TRUE) ELSE UNCHANGED vars
    /\ timer' = Stopped
    /\ sleeps' = sleeps (+) Sleep("stop", WinDelay)
    /\ run' = Tail(run)
    /\ UNCHANGED <<state, count, members, stale, bg, place, corpse, out>>

\* Mutant of Cancel: the registry is not told.
CancelForgotten ==
    /\ Running("cancel")
    /\ run' = Tail(run)
    /\ UNCHANGED <<vars, state, count, members, stale, bg, place, corpse, timer, out, sleeps>>

\* OnMatchCancel of the hook.
Cancel ==
    /\ Running("cancel")
    /\ IF slot[Home] # 0 THEN OnMatchCancel(Home) ELSE UNCHANGED vars
    /\ run' = Tail(run)
    /\ UNCHANGED <<state, count, members, stale, bg, place, corpse, timer, out, sleeps>>

\* OnReset: the hook's OnMatchCancel, both timers stopped, the players of a
\* cancelled match warped out, the battleground teams destroyed.
OnReset ==
    /\ Running("reset")
    /\ timer' = Stopped
    /\ out' = -1
    /\ count' = [t \in Team |-> 0]
    /\ run' = (IF state = 3
               THEN <<Call("cancel"), BgWarp(Members \ stale, "out"), MapWarp, Call("destroy")>>
               ELSE <<Call("cancel"), Call("destroy")>>) \o Tail(run)
    /\ UNCHANGED <<vars, state, members, stale, bg, place, corpse, sleeps>>

\* bg_destroy of both teams: the members' bg_id is cleared.
BgDestroy ==
    /\ Running("destroy")
    /\ bg' = [c \in Char |-> IF c \in Members THEN "none" ELSE bg[c]]
    /\ members' = [t \in Team |-> {}]
    /\ stale' = {}
    /\ sleeps' = sleeps (+) Sleep("respawn", ResetDelay)
    /\ run' = Tail(run)
    /\ UNCHANGED <<vars, state, count, place, corpse, timer, out>>

\* bg_get_data(id, 0) of both teams finds a member missing.
Missing == \E t \in Team : Cardinality(members[t]) < TeamSize[t]

\* OnTimer25000: an early check of the teams.
OnTimer25000 ==
    /\ Idle
    /\ timer = [at |-> "check", left |-> 0]
    /\ IF Missing
       THEN /\ state' = 3
            /\ timer' = Stopped
            /\ run' = <<Call("cancel")>>
            /\ sleeps' = sleeps (+) Sleep("reset", CancelDelay)
       ELSE /\ timer' = [at |-> "begin", left |-> BeginDelay]
            /\ UNCHANGED <<state, run, sleeps>>
    /\ UNCHANGED <<vars, count, members, stale, bg, place, corpse, out>>

\* OnTimer30000: the check again, then the match begins.
OnTimer30000 ==
    /\ Idle
    /\ timer = [at |-> "begin", left |-> 0]
    /\ IF Missing
       THEN /\ state' = 3
            /\ timer' = Stopped
            /\ run' = <<Call("cancel")>>
            /\ sleeps' = sleeps (+) Sleep("stop", CancelDelay)
            /\ UNCHANGED count
       ELSE /\ state' = 2
            /\ count' = [t \in Team |-> Cardinality(members[t])]
            /\ timer' = [at |-> "end", left |-> MatchDelay]
            /\ run' = <<Call("begin")>>
            /\ UNCHANGED sleeps
    /\ UNCHANGED <<vars, members, stale, bg, place, corpse, out>>

\* OnMatchStart of the hook.  attachrid finds every member that is online,
\* wherever it is; an entry of an ended session may name its player again.
BeginMatch ==
    /\ Running("begin")
    /\ IF slot[Home] = 0
       THEN UNCHANGED vars
       ELSE \E gone \in SUBSET stale :
               JoinAndStart(Home, members["blue"] \ gone, members["red"] \ gone)
    /\ run' = Tail(run)
    /\ UNCHANGED <<state, count, members, stale, bg, place, corpse, timer, out, sleeps>>

\* OnTimer450000: time is up, the larger count wins.
OnTimer450000 ==
    /\ Idle
    /\ timer = [at |-> "end", left |-> 0]
    /\ \/ /\ \E t \in Team : count[t] > count[Other(t)] /\ run' = <<Event("win", t)>>
          /\ timer' = Stopped
          /\ UNCHANGED <<vars, sleeps>>
       \/ /\ count["blue"] = count["red"]
          /\ IF slot[Home] # 0 THEN Finish(Home, "none", TRUE) ELSE UNCHANGED vars
          /\ timer' = Stopped
          /\ sleeps' = sleeps (+) Sleep("stop", DrawDelay)
          /\ UNCHANGED run
    /\ UNCHANGED <<state, count, members, stale, bg, place, corpse, out>>

\* KvM80_BG_Out::OnTimer5000.
OnOut ==
    /\ Idle
    /\ out = 0
    /\ out' = -1
    /\ run' = <<Call("reset")>>
    /\ UNCHANGED <<vars, state, count, members, stale, bg, place, corpse, timer, sleeps>>

-----------------------------------------------------------------------------
(* Continuations after a sleep.  Waking removes a sleeper that is due.     *)

Due(e)   == BagIn([at |-> e, left |-> 0], sleeps)
Awake(e) == sleeps (-) Sleep(e, 0)

\* The end of OnStart: the counts are read and the timer starts.
WakeStarted ==
    /\ Idle
    /\ Due("started")
    /\ sleeps' = Awake("started")
    /\ count' = [t \in Team |-> Cardinality(members[t])]
    /\ timer' = [at |-> "check", left |-> CheckDelay]
    /\ UNCHANGED <<vars, state, members, stale, bg, place, corpse, out, run>>

\* OnStop up to its first sleep; a match that is still open is restored.
WakeStop ==
    /\ Idle
    /\ Due("stop")
    /\ sleeps' = Awake("stop") (+) Sleep("warp", StopDelay)
    /\ IF slot[Home] # 0 THEN RestoreAll(Home) ELSE UNCHANGED vars
    /\ UNCHANGED <<state, count, members, stale, bg, place, corpse, timer, out, run>>

\* OnStop: bg_warp of both teams to the town.
WakeWarp ==
    /\ Idle
    /\ Due("warp")
    /\ sleeps' = Awake("warp") (+) Sleep("clear", StopDelay)
    /\ run' = <<BgWarp(Members \ stale, "out")>>
    /\ UNCHANGED <<vars, state, count, members, stale, bg, place, corpse, timer, out>>

\* Mutant of WakeClear: KvM80_BG_Out is not started.
WakeClearOnly ==
    /\ Idle
    /\ Due("clear")
    /\ sleeps' = Awake("clear")
    /\ run' = <<MapWarp>>
    /\ UNCHANGED <<vars, state, count, members, stale, bg, place, corpse, timer, out>>

\* The end of OnStop: mapwarp of the arena's map, KvM80_BG_Out::OnBegin.
WakeClear ==
    /\ Idle
    /\ Due("clear")
    /\ sleeps' = Awake("clear")
    /\ run' = <<MapWarp>>
    /\ out' = OutDelay
    /\ UNCHANGED <<vars, state, count, members, stale, bg, place, corpse, timer>>

\* OnTimer25000 after its sleep.
WakeReset ==
    /\ Idle
    /\ Due("reset")
    /\ sleeps' = Awake("reset")
    /\ run' = <<Call("reset")>>
    /\ UNCHANGED <<vars, state, count, members, stale, bg, place, corpse, timer, out>>

\* OnReset: maprespawnguildid of whoever is still in the arena.
WakeRespawn ==
    /\ Idle
    /\ Due("respawn")
    /\ sleeps' = Awake("respawn") (+) Sleep("idle", ResetDelay)
    /\ run' = <<MapWarp>>
    /\ UNCHANGED <<vars, state, count, members, stale, bg, place, corpse, timer, out>>

\* The end of OnReset: the arena is free.
WakeIdle ==
    /\ Idle
    /\ Due("idle")
    /\ sleeps' = Awake("idle")
    /\ state' = 0
    /\ run' = <<Call("ready")>>
    /\ UNCHANGED <<vars, count, members, stale, bg, place, corpse, timer, out>>

\* Time passes when nothing is due.
Tick ==
    /\ Idle
    /\ NothingDue
    /\ timer.left > 0 \/ out > 0 \/ sleeps # EmptyBag
    /\ timer' = IF timer.left > 0 THEN [timer EXCEPT !.left = @ - 1] ELSE timer
    /\ out' = IF out > 0 THEN out - 1 ELSE out
    /\ sleeps' = [s \in {[at |-> w.at, left |-> w.left - 1] : w \in BagToSet(sleeps)} |->
                     sleeps[[at |-> s.at, left |-> s.left + 1]]]
    /\ UNCHANGED <<vars, state, count, members, stale, bg, place, corpse, run>>

StartServer ==
    /\ Boot
    /\ UNCHANGED control

-----------------------------------------------------------------------------
BattleInit ==
    /\ Init
    /\ state = 0
    /\ count = [t \in Team |-> 0]
    /\ members = [t \in Team |-> {}]
    /\ stale = {}
    /\ bg = [c \in Char |-> "none"]
    /\ place = [c \in Char |-> "out"]
    /\ corpse = {}
    /\ timer = Stopped
    /\ out = -1
    /\ sleeps = EmptyBag
    /\ run = <<>>

Calls ==
    \/ NotReady \/ OnStartCreate \/ OnStartSleep \/ Warp \/ Cancel \/ OnReset \/ BgDestroy \/ BeginMatch
    \/ \E t \in Team : OnDie(t) \/ OnWin(t)

Timers ==
    \/ OnTimer25000 \/ OnTimer30000 \/ OnTimer450000 \/ OnOut
    \/ WakeStarted \/ WakeStop \/ WakeWarp \/ WakeClear \/ WakeReset \/ WakeRespawn \/ WakeIdle
    \/ Tick

Players ==
    \/ \E c \in Char : PlayerLogin(c) \/ PlayerDies(c) \/ PlayerQuits(c)
    \/ \E c \in Char, to \in {"out", Home} : PlayerWarp(c, to)
    \/ \E B, R \in SUBSET Char : OnReadyCheck(B, R)

BattleNext == Calls \/ Timers \/ Players \/ StartServer

BattleSpec == BattleInit /\ [][BattleNext]_battleVars

\* The event loop always finishes the current event, and do_timer runs in every
\* turn of the loop: timers are served, and time passes, however busy the
\* players are (players can interrupt the wait for a timer again and again, so
\* weak fairness would not say this).
FairBattleSpec == BattleSpec /\ WF_battleVars(Calls) /\ SF_battleVars(Timers)

-----------------------------------------------------------------------------
(* Properties.                                                             *)

\* The arena implements the registry with Spec of Arena7x7 as the abstract
\* specification: every step of the script, the teams and the players is a step
\* of the registry or leaves it alone.  In particular the script, whatever
\* the order of quits, deaths, timers and sleeps, never creates a match before
\* it has released the last one and never starts a match twice.
ArenaKeepsRegistryRules == Spec

\* Every variable has its type; ended sessions are members, the dead outside a
\* match are in the arena.
BattleTypeOK ==
    /\ TypeOK
    /\ state \in 0..3
    /\ count \in [Team -> Nat]
    /\ members \in [Team -> SUBSET Char]
    /\ stale \subseteq Members
    /\ bg \in [Char -> Winner]
    /\ place \in [Char -> {"out", Home}]
    /\ corpse \subseteq InArena
    /\ out \in -1..OutDelay

\* The players of team t who are fighting: registered in the arena's match, in
\* the arena and not tombstones.
Living(t) ==
    {c \in InArena \ corpse :
        /\ slot[Home] # 0 /\ playerMatch[c] = slot[Home]
        /\ team[slot[Home]][c] = t
        /\ c \notin dead[slot[Home]]}

\* Nothing of the arena is pending: no event, no timer, no sleeping script.
Quiet == run = <<>> /\ timer = Stopped /\ out = -1 /\ sleeps = EmptyBag

\* The controller never strands a match: when nothing is pending the arena is
\* free, no match is open, the teams are gone and nobody is left in the arena.
QuietArenaIsFree ==
    up /\ Quiet => state = 0 /\ slot[Home] = 0 /\ Members = {} /\ InArena = {}

\* The arena is announced free only when the last match is over and nobody is
\* still registered in the arena.
FreeArenaIsClean ==
    state = 0 /\ run = <<>> =>
        /\ slot[Home] = 0
        /\ Members = {}
        /\ \A c \in InArena : playerMatch[c] = 0 /\ bg[c] = "none"

\* "Players cannot be revived until the end of the match": a tombstone of an
\* active match stays one as long as the player is registered in the match.
TombstoneIsPermanent ==
    [][\A c \in Char : LET m == playerMatch[c] IN
          m # 0 /\ status[m] = "active" /\ c \in dead[m] /\ playerMatch'[c] = m
              => c \in dead'[m]]_battleVars

\* The count of a team that nobody deserted is never smaller than its number of
\* fighters: a team without deserters cannot lose by elimination too early.
CountCoversFighters ==
    up /\ state = 2 /\ run = <<>> /\ slot[Home] # 0 =>
        \A t \in Team :
            (\A c \in deserter[slot[Home]] : team[slot[Home]][c] # t)
                => Cardinality(Living(t)) <= count[t]

\* "Check whether the team was eliminated": a team loses by elimination only
\* when none of its players is left alive.
EliminationIsReal ==
    Running("win") /\ slot[Home] # 0 /\ count[Other(Head(run).t)] < 1
        => Living(Other(Head(run).t)) = {}

\* "Teleport the players before destroying the battleground".
TeamsLeaveFirst ==
    Running("destroy") => Members \cap InArena = {}

\* A match that is prepared or played ends and the arena becomes free.
ArenaIsFreed == (state # 0) ~> (state = 0)

\* Whoever fights in the arena is released from the match in the end.
FightersAreReleased ==
    \A c \in Char : (c \in InArena /\ playerMatch[c] # 0)
                       ~> (playerMatch[c] = 0 \/ c \notin online)
=============================================================================
