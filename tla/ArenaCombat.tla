---------------------------- MODULE ArenaCombat ----------------------------
(***************************************************************************)
(* The fight inside one match of the Arena 7x7 (src/map/arena7x7.cpp): who *)
(* is credited with a kill and with assists, how deaths are counted, and   *)
(* the count of living players.                                            *)
(*                                                                         *)
(* All hits of one turn of the server's loop carry the same gettick(), so  *)
(* several hits may have the same time.  Amounts of damage, skills and     *)
(* items do not influence any of this and are left out.                    *)
(***************************************************************************)
EXTENDS Integers, Sequences, FiniteSets

CONSTANTS
    Player,       \* the players of the match
    Blue,         \* those of the blue team
    Window,       \* ARENA7X7_ASSIST_WINDOW
    MaxAssists,   \* assists per kill (3)
    MaxTime,      \* bound on the time
    MaxHits       \* bound on the length of the damage log

ASSUME BlueAssumption == Blue \subseteq Player /\ IsFiniteSet(Player)
ASSUME CombatBounds ==
    /\ Window \in Nat /\ MaxAssists \in Nat
    /\ MaxTime \in Nat \ {0} /\ MaxHits \in Nat

VARIABLES
    now,          \* gettick()
    active,       \* match->status is active (otherwise finished)
    registered,   \* players whose arena7x7_player_match is this match
    isDead,       \* stats->is_dead
    deserter,     \* stats->is_deserter
    recent,       \* stats->recent_damage_taken
    damageLog,    \* match->damage_log
    killLog,      \* match->kill_log
    kills, deaths, assists,   \* counters in stats
    alive         \* match->blue_alive, match->red_alive

stats == <<kills, deaths, assists>>
vars  == <<now, active, registered, isDead, deserter, recent, damageLog, killLog, stats, alive>>

NoOne    == "no one"
ASSUME NoOneAssumption == NoOne \notin Player

Side     == {"blue", "red"}
Of(side) == IF side = "blue" THEN Blue ELSE Player \ Blue

\* Mutant of Fresh: one tick too many.
FreshTooLong(hit) == now - hit.at <= Window + 1

\* DIFF_TICK(now, t) <= ARENA7X7_ASSIST_WINDOW
Fresh(hit) == now - hit.at <= Window

\* Mutant of CountAlive: the dead of both teams are subtracted.
CountAliveMixed(D) == [s \in Side |-> Cardinality(Of(s)) - Cardinality(D)]

\* arena7x7_count_alive_players: everyone ever added who is not marked dead.
CountAlive(D) == [s \in Side |-> Cardinality(Of(s) \ D)]

-----------------------------------------------------------------------------
\* record_damage on the target's list: append, then erase the entries that are
\* not fresh.  The list is in the order of time (RecentInOrder in
\* ArenaCombatProofs), so the entries kept are those from the first fresh one on.
FirstFresh(hits) == CHOOSE n \in DOMAIN hits :
                        Fresh(hits[n]) /\ \A m \in 1..(n - 1) : ~Fresh(hits[m])
Recorded(a, v) ==
    LET hits == Append(recent[v], [by |-> a, at |-> now])
    IN  SubSeq(hits, FirstFresh(hits), Len(hits))

\* The search of arena7x7_on_death in the list hits: a later entry replaces an
\* earlier one only if its time is greater.
Suspects(hits) == {i \in DOMAIN hits : Fresh(hits[i]) /\ hits[i].by \in registered}

\* Mutant of Killer: the oldest hit of the list.
KillerOldest(hits) ==
    IF Suspects(hits) = {} THEN NoOne
    ELSE hits[CHOOSE i \in Suspects(hits) : \A j \in Suspects(hits) : i <= j].by

Killer(hits) ==
    IF Suspects(hits) = {} THEN NoOne
    ELSE LET first == CHOOSE i \in Suspects(hits) :
                         \A j \in Suspects(hits) :
                             \/ hits[j].at < hits[i].at
                             \/ hits[j].at = hits[i].at /\ i <= j
         IN  hits[first].by

\* The assists of record_kill: at most MaxAssists of the other attackers, in
\* the arbitrary order of an unordered_set.
Helpers(hits, k) == {hits[i].by : i \in {j \in DOMAIN hits : Fresh(hits[j])}} \ {k}
AssistChoices(hits, k) ==
    {A \in SUBSET Helpers(hits, k) :
        \/ A = Helpers(hits, k) /\ Cardinality(A) <= MaxAssists
        \/ Cardinality(A) = MaxAssists}

Bump(f, S) == [c \in Player |-> IF c \in S THEN f[c] + 1 ELSE f[c]]

\* Mutant of RecordKill: the counters change before the state is tested.
RecordKillCountsFirst(v, k, hits) ==
    /\ kills' = Bump(kills, {k})
    /\ deaths' = Bump(deaths, {v})
    /\ recent' = [recent EXCEPT ![v] = <<>>]
    /\ \E A \in AssistChoices(hits, k) :
          IF active
          THEN /\ killLog' = Append(killLog, [killer |-> k, victim |-> v, assists |-> A, at |-> now])
               /\ assists' = Bump(assists, A)
          ELSE UNCHANGED <<killLog, assists>>

\* arena7x7_record_kill; does nothing unless the match is active.
RecordKill(v, k, hits) ==
    \/ /\ active
       /\ \E A \in AssistChoices(hits, k) :
             /\ killLog' = Append(killLog, [killer |-> k, victim |-> v, assists |-> A, at |-> now])
             /\ assists' = Bump(assists, A)
       /\ kills' = Bump(kills, {k})
       /\ deaths' = Bump(deaths, {v})
       /\ recent' = [recent EXCEPT ![v] = <<>>]
    \/ /\ ~active
       /\ recent' = [recent EXCEPT ![v] = hits]
       /\ UNCHANGED <<killLog, stats>>

\* A death nobody is credited with; counted in any state of the match.
RecordDeath(v) ==
    /\ deaths' = Bump(deaths, {v})
    /\ recent' = [recent EXCEPT ![v] = <<>>]
    /\ UNCHANGED <<killLog, kills, assists>>

\* arena7x7_on_death with the victim's list hits.  pc_dead calls it first and
\* without a killer, so the killer is always looked up in the list.
OnDeath(v, hits) ==
    /\ IF Killer(hits) = NoOne THEN RecordDeath(v) ELSE RecordKill(v, Killer(hits), hits)
    /\ isDead' = isDead \cup {v}
    /\ alive' = CountAlive(isDead')

\* Mutant of Alive: arena7x7_on_death without its test of is_dead.
AliveOrTombstone(v) == v \in registered

\* Whom a may hit: an opponent or, by burning or poison, itself.  Members of a
\* battleground team are allies, damage to a tombstone is cancelled.  An
\* attacker may be dead: traps and magic stay.
Alive(v)     == v \in registered /\ v \notin isDead
Target(a, v) == Alive(v) /\ a \in registered /\ (a = v \/ (a \in Blue) # (v \in Blue))

-----------------------------------------------------------------------------
\* Damage that is not fatal: arena7x7_on_damage, called by status_damage.
Hit(a, v) ==
    /\ Target(a, v)
    /\ active
    /\ Len(damageLog) < MaxHits
    /\ recent' = [recent EXCEPT ![v] = Recorded(a, v)]
    /\ damageLog' = Append(damageLog, [by |-> a, to |-> v, at |-> now])
    /\ UNCHANGED <<now, active, registered, isDead, deserter, killLog, stats, alive>>

\* Fatal damage by a player of the match: recorded, then the death.
FatalHit(a, v) ==
    /\ Target(a, v)
    /\ \/ /\ active
          /\ Len(damageLog) < MaxHits
          /\ damageLog' = Append(damageLog, [by |-> a, to |-> v, at |-> now])
          /\ OnDeath(v, Recorded(a, v))
       \/ /\ ~active
          /\ OnDeath(v, recent[v])
          /\ UNCHANGED damageLog
    /\ UNCHANGED <<now, active, registered, deserter>>

\* Fatal damage by nobody or by someone outside the match.
Perish(v) ==
    /\ Alive(v)
    /\ OnDeath(v, recent[v])
    /\ UNCHANGED <<now, active, registered, deserter, damageLog>>

\* The penalty of arena7x7_remove_player: one death there, one more in
\* arena7x7_update_ranking.
Penalty(c) ==
    /\ deserter' = IF active THEN deserter \cup {c} ELSE deserter \ {c}
    /\ deaths' = IF active THEN [deaths EXCEPT ![c] = @ + 2] ELSE deaths

\* pc_setpos of a player: restored from tombstone, then removed.
Warp(c) ==
    /\ c \in registered
    /\ isDead' = isDead \ {c}
    /\ registered' = registered \ {c}
    /\ Penalty(c)
    /\ UNCHANGED <<now, active, recent, damageLog, killLog, kills, assists, alive>>

\* The logout event of an active match: arena7x7_leave(1).
Leave(c) ==
    /\ active
    /\ c \in registered
    /\ registered' = registered \ {c}
    /\ Penalty(c)
    /\ UNCHANGED <<now, active, isDead, recent, damageLog, killLog, kills, assists, alive>>

\* arena7x7_finish_match, called by the controller script.
FinishMatch ==
    /\ active
    /\ active' = FALSE
    /\ UNCHANGED <<now, registered, isDead, deserter, recent, damageLog, killLog, stats, alive>>

Tick ==
    /\ now < MaxTime
    /\ now' = now + 1
    /\ UNCHANGED <<active, registered, isDead, deserter, recent, damageLog, killLog, stats, alive>>

\* The state arena7x7_start_match leaves; gettick() is never 0.
Init ==
    /\ now = 1
    /\ active = TRUE
    /\ registered = Player
    /\ isDead = {}
    /\ deserter = {}
    /\ recent = [c \in Player |-> <<>>]
    /\ damageLog = <<>>
    /\ killLog = <<>>
    /\ kills = [c \in Player |-> 0]
    /\ deaths = [c \in Player |-> 0]
    /\ assists = [c \in Player |-> 0]
    /\ alive = CountAlive({})

Next ==
    \/ \E a, v \in Player : Hit(a, v) \/ FatalHit(a, v)
    \/ \E c \in Player : Perish(c) \/ Warp(c) \/ Leave(c)
    \/ FinishMatch
    \/ Tick

Spec == Init /\ [][Next]_vars

-----------------------------------------------------------------------------
(* Properties.                                                             *)

\* Every variable has its type; no counter is negative.
CombatTypeOK ==
    /\ now \in 1..MaxTime
    /\ active \in BOOLEAN
    /\ registered \subseteq Player /\ isDead \subseteq Player /\ deserter \subseteq Player
    /\ kills \in [Player -> Nat] /\ deaths \in [Player -> Nat] /\ assists \in [Player -> Nat]
    /\ alive \in [Side -> Nat]

\* Hits on v in the damage log that are inside the window at time t.
HitsOn(v, t) == {h \in {damageLog[i] : i \in DOMAIN damageLog} :
                    h.to = v /\ t - h.at <= Window /\ h.at <= t}

\* "Death is permanent": while the match is active nobody is killed twice, and
\* a player has one death, a deserter at most two more.
NobodyDiesTwice ==
    /\ \A i, j \in DOMAIN killLog : killLog[i].victim = killLog[j].victim => i = j
    /\ \A c \in Player : deaths[c] <= IF c \in deserter THEN 3 ELSE 1

\* The killer of every logged kill really hit the victim inside the window,
\* and so did everyone with an assist, who is not the killer.
KillsAreEarned ==
    \A i \in DOMAIN killLog :
        LET e == killLog[i]
            H == {h.by : h \in HitsOn(e.victim, e.at)}
        IN  e.killer \in H /\ e.assists \subseteq H \ {e.killer}

\* No kill is lost: when a player of the match hits somebody fatally while the
\* match is active, the kill is logged with a killer whose last hit is at least
\* as late as that of any other player who is still in the match.
LatestHitKills ==
    [][\A v \in Player :
          active /\ v \in isDead' \ isDead /\ Len(damageLog') > Len(damageLog) =>
              /\ Len(killLog') = Len(killLog) + 1
              /\ LET k == killLog'[Len(killLog')].killer
                 IN  k \in registered
                     /\ \E i \in DOMAIN damageLog' :
                           damageLog'[i] = [by |-> k, to |-> v, at |-> now]]_vars

\* The counters agree with the log.
StatsMatchLog ==
    \A c \in Player :
        /\ kills[c] = Cardinality({i \in DOMAIN killLog : killLog[i].killer = c})
        /\ assists[c] = Cardinality({i \in DOMAIN killLog : c \in killLog[i].assists})
=============================================================================
