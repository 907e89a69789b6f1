-------------------------- MODULE ArenaBattleProofs --------------------------
(***************************************************************************)
(* Proofs about one arena, for any number of characters, any team sizes    *)
(* and any delays in the order of DelayAssumption.                         *)
(***************************************************************************)
EXTENDS ArenaBattle, Arena7x7Proofs, FiniteSetTheorems

Teardown == {"stop", "warp", "clear"}
Resets   == {"reset", "respawn", "idle"}
Labels   == {"started"} \cup Teardown \cup Resets

Sleeper(e, d)  == [at |-> e, left |-> d]
Pending        == BagToSet(sleeps)
NonePending(K) == \A s \in Pending : s.at \notin K

\* The time until a teardown has cleared the arena, and until a reset has
\* announced it free.
ToClear(s) == s.left + (IF s.at = "stop" THEN 2 * StopDelay
                        ELSE IF s.at = "warp" THEN StopDelay ELSE 0)
ToIdle(s)  == s.left + (IF s.at = "reset" THEN 2 * ResetDelay
                        ELSE IF s.at = "respawn" THEN ResetDelay ELSE 0)

\* Types of the players' state.
CrewTyped ==
    /\ state \in 0..3
    /\ count \in [Team -> Nat]
    /\ members \in [Team -> SUBSET Char]
    /\ stale \subseteq Members
    /\ bg \in [Char -> Winner]
    /\ place \in [Char -> {"out", Home}]
    /\ corpse \subseteq InArena

\* Where the players are: a team's player is one of its members and its session
\* has not ended; a tombstone that is online lies in the arena.
Aboard == \A c \in Char : place[c] = Home => c \in online
Teamed == /\ members["blue"] \cap members["red"] = {}
          /\ \A c \in Char : bg[c] # "none" =>
                 c \in members[bg[c]] /\ c \notin stale /\ c \in online
Tombs  == \A c \in Char :
              c \in online /\ place[c] # Home /\ playerMatch[c] # 0
                  => c \notin dead[playerMatch[c]]
Crew   == CrewTyped /\ Aboard /\ Teamed /\ Tombs

\* The timer tm, the time o left of KvM80_BG_Out and the sleeping scripts B.
TimerTyped(tm) ==
    /\ tm \in [at : {"none", "check", "begin", "end"}, left : Int]
    /\ tm.at = "none" \/ tm.left \in Nat
SleepTyped(B) == IsABag(B) /\ BagToSet(B) \subseteq [at : Labels, left : Nat]

\* What the delays are for: nothing that is left of an earlier match meets the
\* next one.  A start that was given up sets the timer before the next start
\* can bring it to "begin"; the arena is free again before that timer fires;
\* the teardowns of a match are over when KvM80_BG_Out resets the arena.
StartTiming(tm, B) ==
    \A s \in BagToSet(B) : s.at = "started" =>
        s.left <= StartDelay /\ (tm.at = "begin" => s.left < tm.left)
ResetTiming(tm, B) ==
    \A s \in BagToSet(B) : s.at \in Resets =>
        /\ ToIdle(s) <= 2 * ResetDelay + CancelDelay
        /\ tm.at = "check" => ToIdle(s) < tm.left
TeardownTiming(o, B) ==
    \A s \in BagToSet(B) : s.at \in Teardown =>
        /\ ToClear(s) <= OutDelay
        /\ o >= 0 => ToClear(s) < o
        /\ ToClear(s) = OutDelay =>
               \A r \in BagToSet(B) : r.at \in Teardown => ToClear(r) > 0
OneReset(B) ==
    \A s \in BagToSet(B) : s.at \in Resets =>
        B[s] = 1 /\ \A r \in BagToSet(B) : r.at \in Resets => r = s
ClockOK(tm, o, B) ==
    /\ TimerTyped(tm) /\ o \in -1..OutDelay /\ SleepTyped(B)
    /\ StartTiming(tm, B) /\ ResetTiming(tm, B) /\ TeardownTiming(o, B) /\ OneReset(B)
Clock == ClockOK(timer, out, sleeps)

NobodyInside == \A c \in Char : place[c] = "out"
Seated       == \A c \in Char : bg[c] # "none" => place[c] = Home
Full         == \A t \in Team : Cardinality(members[t]) = TeamSize[t]
Prepared     == slot[Home] # 0 /\ status[slot[Home]] = "waiting"
Calm         == NonePending(Teardown \cup Resets) /\ out = -1
Dying        == {<<Event("die", t)>> : t \in Team}
Winning      == {<<Event("win", t)>> : t \in Team}

\* The phases of the arena.
Free ==
    /\ state = 0 /\ Calm
    /\ run = <<>> \/ run = <<Call("ready")>>
    /\ timer.at \in {"none", "check"}
    /\ slot[Home] = 0 /\ Members = {} /\ NobodyInside

Starting ==
    /\ state = 1 /\ Calm /\ Full
    /\ timer.at \in {"none", "check"}
    /\ \/ /\ run = <<Call("create"), BgWarp(Members, Home), Call("started")>>
          /\ slot[Home] = 0
       \/ \E W \in SUBSET Char :
              /\ run = <<BgWarp(W, Home), Call("started")>>
              /\ Prepared
              /\ \A c \in Char : bg[c] # "none" => c \in W \/ place[c] = Home
       \/ run = <<Call("started")>> /\ Prepared /\ Seated

Waiting ==
    /\ state = 1 /\ Calm /\ Full /\ Prepared /\ Seated
    /\ run = <<>> \/ run \in Dying
    /\ timer.at \in {"none", "check", "begin"}
    /\ timer.at = "none" => \E s \in Pending : s.at = "started"

Playing ==
    /\ state = 2 /\ Pending = {} /\ out = -1 /\ Seated /\ slot[Home] # 0
    /\ \/ run = <<Call("begin")>> /\ timer.at = "end" /\ Prepared
       \/ run = <<>> /\ timer.at = "end" /\ ~Prepared
       \/ run \in Dying /\ timer.at = "end" /\ ~Prepared
       \/ run \in Winning /\ timer.at \in {"end", "none"} /\ ~Prepared

Ending ==
    /\ state = 2 /\ NonePending({"started"} \cup Resets) /\ Seated
    /\ timer.at = "none" /\ slot[Home] = 0
    /\ out >= 0 \/ Pending # {}
    /\ \/ run = <<>> /\ (out >= 0 => NobodyInside)
       \/ run \in Dying \cup Winning /\ out = -1 /\ \A s \in Pending : ToClear(s) > 0
       \/ \E W \in SUBSET Char : run = <<BgWarp(W, "out")>> /\ (out >= 0 => NobodyInside)
       \/ \E W \in SUBSET Char :
              /\ run = <<WarpOf(W, "out", "map")>> /\ out >= 0
              /\ \A c \in Char : place[c] = Home => c \in W

Aborting ==
    /\ Calm
    /\ \/ state = 3 /\ run = <<Call("cancel"), Call("reset")>>
       \/ state = 3 /\ run = <<Call("reset")>> /\ slot[Home] = 0
       \/ state = 2 /\ run = <<Call("reset")>> /\ slot[Home] = 0 /\ NobodyInside

Clearing ==
    /\ Calm /\ timer.at = "none" /\ state \in {2, 3}
    /\ \/ \E W \in SUBSET Char :
              run = <<Call("cancel"), BgWarp(W, "out"), MapWarp, Call("destroy")>>
       \/ \E W \in SUBSET Char :
              run = <<BgWarp(W, "out"), MapWarp, Call("destroy")>> /\ slot[Home] = 0
       \/ \E W \in SUBSET Char :
              /\ run = <<WarpOf(W, "out", "map"), Call("destroy")>> /\ slot[Home] = 0
              /\ \A c \in Char : place[c] = Home => c \in W
       \/ run = <<Call("cancel"), Call("destroy")>> /\ NobodyInside
       \/ run = <<Call("destroy")>> /\ slot[Home] = 0 /\ NobodyInside

Resetting ==
    /\ state \in {2, 3} /\ NonePending(Teardown) /\ out = -1
    /\ \E r \in Pending : r.at \in Resets
    /\ timer.at \in {"none", "check"}
    /\ slot[Home] = 0 /\ Members = {} /\ NobodyInside
    /\ \/ run = <<>> \/ run = <<Call("cancel")>>
       \/ \E W \in SUBSET Char : run = <<WarpOf(W, "out", "map")>>

Phase == \/ Free \/ Starting \/ Waiting \/ Playing \/ Ending
         \/ Aborting \/ Clearing \/ Resetting

ArenaInv == Inv /\ Crew /\ Clock /\ Phase

\* The fighters of a match and the counts of the controller.
Unmatched == \A c \in Char : place[c] = Home => playerMatch[c] = 0
Enlisted  == \A c \in Char : bg[c] # "none" =>
                 /\ team[slot[Home]][c] = bg[c]
                 /\ playerMatch[c] = slot[Home] \/ c \in deserter[slot[Home]]
Loyal(t)  == \A c \in deserter[slot[Home]] : team[slot[Home]][c] # t
Owed(t)   == IF run = <<Event("die", t)>> THEN 1 ELSE 0
Counted   == \A t \in Team : Loyal(t) => Cardinality(Living(t)) + Owed(t) <= count[t]

CountInv ==
    /\ state = 1 => Unmatched
    /\ state = 2 /\ slot[Home] # 0 =>
          IF Prepared
          THEN Unmatched /\ \A t \in Team : count[t] = Cardinality(members[t])
          ELSE Enlisted /\ Counted

-----------------------------------------------------------------------------
(* Facts about the constants, the calls and the bag of sleeps.             *)

\* The delays are numbers in the order of DelayAssumption.
LEMMA DelayFacts ==
    /\ StartDelay \in Nat /\ CheckDelay \in Nat /\ BeginDelay \in Nat /\ MatchDelay \in Nat
    /\ WinDelay \in Nat /\ DrawDelay \in Nat /\ StopDelay \in Nat /\ OutDelay \in Nat
    /\ CancelDelay \in Nat /\ ResetDelay \in Nat
    /\ StartDelay < BeginDelay
    /\ WinDelay + 2 * StopDelay = OutDelay
    /\ 2 * ResetDelay < OutDelay
    /\ DrawDelay <= WinDelay
    /\ CheckDelay > 2 * ResetDelay + CancelDelay
  BY DelayAssumption

\* The two teams and their sizes.
LEMMA TeamFacts ==
    /\ Team = {"blue", "red"} /\ Winner = {"blue", "red", "none"}
    /\ \A t \in Team : Other(t) \in Team /\ TeamSize[t] \in Nat \ {0}
  BY TeamSizeAssumption DEF Team, Winner, Other

\* What the fields of a call are.
LEMMA CallFacts ==
    /\ \A e, t : Event(e, t).ev = e /\ Event(e, t).t = t
    /\ \A e : Call(e).ev = e
    /\ \A W, to, k : /\ WarpOf(W, to, k).ev = "warp" /\ WarpOf(W, to, k).who = W
                     /\ WarpOf(W, to, k).to = to /\ WarpOf(W, to, k).by = k
  BY DEF Event, Call, WarpOf

\* The first call of an event, and what remains of the event after it.
LEMMA QueueFacts ==
    ASSUME NEW a, NEW b, NEW c, NEW d
    PROVE  /\ <<a>> # <<>> /\ Head(<<a>>) = a /\ Tail(<<a>>) = <<>>
           /\ <<a, b>> # <<>> /\ Head(<<a, b>>) = a /\ Tail(<<a, b>>) = <<b>>
           /\ <<a, b, c>> # <<>> /\ Head(<<a, b, c>>) = a /\ Tail(<<a, b, c>>) = <<b, c>>
           /\ <<a, b, c, d>> # <<>> /\ Head(<<a, b, c, d>>) = a
           /\ Tail(<<a, b, c, d>>) = <<b, c, d>>
  OBVIOUS

\* A queue that begins with a group warp has it as its head.
LEMMA WarpHead ==
    ASSUME NEW W, NEW to, NEW k, NEW b, NEW d
    PROVE  /\ Head(<<WarpOf(W, to, k)>>).ev = "warp" /\ Head(<<WarpOf(W, to, k), b>>).ev = "warp"
           /\ Head(<<BgWarp(W, to)>>).ev = "warp" /\ Head(<<BgWarp(W, to), b>>).ev = "warp"
           /\ Head(<<BgWarp(W, to), b, d>>).ev = "warp"
  BY DEF WarpOf, BgWarp

\* Queues of up to four calls, joined and with their head replaced.
LEMMA JoinFacts ==
    ASSUME NEW a, NEW b, NEW c, NEW d
    PROVE  /\ <<a>> \o <<>> = <<a>> /\ <<a, b>> \o <<>> = <<a, b>>
           /\ <<a, b, c, d>> \o <<>> = <<a, b, c, d>>
           /\ [<<a>> EXCEPT ![1] = d] = <<d>>
           /\ [<<a, b>> EXCEPT ![1] = d] = <<d, b>>
           /\ [<<a, b, c>> EXCEPT ![1] = d] = <<d, b, c>>
  OBVIOUS

\* A sleeping script is its label and the time it has left.
LEMMA SleeperFacts ==
    /\ \A e, d : Sleeper(e, d).at = e /\ Sleeper(e, d).left = d
    /\ \A e, f, d, g : Sleeper(e, d) = Sleeper(f, g) => e = f /\ d = g
    /\ \A s \in [at : Labels, left : Nat] : s = Sleeper(s.at, s.left)
    /\ \A e \in Labels, d \in Nat : Sleeper(e, d) \in [at : Labels, left : Nat]
<1>1. \A e, d : Sleeper(e, d).at = e /\ Sleeper(e, d).left = d
  BY DEF Sleeper
<1>2. \A s \in [at : Labels, left : Nat] : s = Sleeper(s.at, s.left)
  BY DEF Sleeper
<1>3. \A e \in Labels, d \in Nat : Sleeper(e, d) \in [at : Labels, left : Nat]
  BY DEF Sleeper
<1>4. ASSUME NEW e, NEW f, NEW d, NEW g, Sleeper(e, d) = Sleeper(f, g) PROVE e = f /\ d = g
  BY <1>1, <1>4
<1> QED
  BY <1>1, <1>2, <1>3, <1>4

\* One more sleeping script.
LEMMA BagPlus ==
    ASSUME NEW B, IsABag(B), NEW e, NEW d
    PROVE  /\ IsABag(B (+) Sleep(e, d))
           /\ BagToSet(B (+) Sleep(e, d)) = BagToSet(B) \cup {Sleeper(e, d)}
           /\ \A s \in BagToSet(B) : s # Sleeper(e, d) => (B (+) Sleep(e, d))[s] = B[s]
           /\ Sleeper(e, d) \notin BagToSet(B) => (B (+) Sleep(e, d))[Sleeper(e, d)] = 1
  BY DEF IsABag, Sleep, Sleeper, SetToBag, BagToSet, (+)

\* One sleeping script less: others of the same label and time may remain.
LEMMA BagMinus ==
    ASSUME NEW B, IsABag(B), NEW e, NEW d
    PROVE  /\ IsABag(B (-) Sleep(e, d))
           /\ BagToSet(B (-) Sleep(e, d)) \subseteq BagToSet(B)
           /\ BagToSet(B) \ {Sleeper(e, d)} \subseteq BagToSet(B (-) Sleep(e, d))
           /\ \A s \in BagToSet(B (-) Sleep(e, d)) : (B (-) Sleep(e, d))[s] <= B[s]
           /\ \A s \in BagToSet(B) : s # Sleeper(e, d) => (B (-) Sleep(e, d))[s] = B[s]
           /\ Sleeper(e, d) \in BagToSet(B) /\ B[Sleeper(e, d)] = 1
                 => Sleeper(e, d) \notin BagToSet(B (-) Sleep(e, d))
  BY DEF IsABag, Sleep, Sleeper, SetToBag, BagToSet, (-)

-----------------------------------------------------------------------------
(* The timers.                                                             *)

\* The time a teardown and a reset still take.
LEMMA TimeFacts ==
    /\ \A s \in [at : Labels, left : Nat] : ToClear(s) \in Nat /\ ToIdle(s) \in Nat
    /\ \A d \in Nat : /\ ToClear(Sleeper("stop", d)) = d + 2 * StopDelay
                      /\ ToClear(Sleeper("warp", d)) = d + StopDelay
                      /\ ToClear(Sleeper("clear", d)) = d
                      /\ ToIdle(Sleeper("reset", d)) = d + 2 * ResetDelay
                      /\ ToIdle(Sleeper("respawn", d)) = d + ResetDelay
                      /\ ToIdle(Sleeper("idle", d)) = d
  BY DelayFacts, SleeperFacts DEF ToClear, ToIdle

\* The labels a script can sleep before.
LEMMA LabelFacts ==
    /\ Teardown = {"stop", "warp", "clear"} /\ Resets = {"reset", "respawn", "idle"}
    /\ Labels = {"started", "stop", "warp", "clear", "reset", "respawn", "idle"}
  BY DEF Labels, Teardown, Resets

\* Scripts wake up, timers are set or stopped.
LEMMA ClockShrink ==
    ASSUME NEW tm, NEW o, NEW B, ClockOK(tm, o, B), NEW tm2, NEW o2, NEW B2,
           IsABag(B2), BagToSet(B2) \subseteq BagToSet(B),
           \A s \in BagToSet(B2) : B2[s] <= B[s],
           TimerTyped(tm2), o2 \in -1..OutDelay,
           tm2.at = "begin" => \A s \in BagToSet(B2) : s.at = "started" => s.left < tm2.left,
           tm2.at = "check" => \A s \in BagToSet(B2) : s.at \in Resets => ToIdle(s) < tm2.left,
           o2 >= 0 => \A s \in BagToSet(B2) : s.at \in Teardown => ToClear(s) < o2
    PROVE  ClockOK(tm2, o2, B2)
<1>1. SleepTyped(B2)
  BY DEF ClockOK, SleepTyped
<1>2. StartTiming(tm2, B2)
  BY DEF ClockOK, StartTiming
<1>3. ResetTiming(tm2, B2)
  BY DEF ClockOK, ResetTiming
<1>4. TeardownTiming(o2, B2)
  BY DEF ClockOK, TeardownTiming
<1>5. OneReset(B2)
  <2>1. \A s \in BagToSet(B2) : s.at \in Resets => B2[s] <= 1 /\ B2[s] \in Nat /\ B2[s] > 0
    BY DEF ClockOK, OneReset, IsABag, BagToSet
  <2> QED
    BY <2>1 DEF ClockOK, OneReset
<1> QED
  BY <1>1, <1>2, <1>3, <1>4, <1>5 DEF ClockOK

\* A script goes to sleep.
LEMMA ClockGrow ==
    ASSUME NEW tm, NEW o, NEW B, ClockOK(tm, o, B), NEW e \in Labels, NEW d \in Nat,
           e = "started" => d <= StartDelay /\ (tm.at = "begin" => d < tm.left),
           e \in Resets => /\ \A s \in BagToSet(B) : s.at \notin Resets
                           /\ ToIdle(Sleeper(e, d)) <= 2 * ResetDelay + CancelDelay
                           /\ tm.at = "check" => ToIdle(Sleeper(e, d)) < tm.left,
           e \in Teardown =>
               /\ ToClear(Sleeper(e, d)) <= OutDelay
               /\ o >= 0 => ToClear(Sleeper(e, d)) < o
               /\ \A r \in BagToSet(B) : r.at \in Teardown =>
                     /\ ToClear(Sleeper(e, d)) = OutDelay => ToClear(r) > 0
                     /\ ToClear(r) = OutDelay => ToClear(Sleeper(e, d)) > 0
    PROVE  ClockOK(tm, o, B (+) Sleep(e, d))
<1> DEFINE B2 == B (+) Sleep(e, d)
           x  == Sleeper(e, d)
<1>0. /\ x \in [at : Labels, left : Nat] /\ x.at = e /\ x.left = d
      /\ OutDelay > 0
  BY SleeperFacts, DelayFacts
<1>1. /\ IsABag(B2) /\ BagToSet(B2) = BagToSet(B) \cup {x}
      /\ \A s \in BagToSet(B) : s # x => B2[s] = B[s]
      /\ x \notin BagToSet(B) => B2[x] = 1
  BY BagPlus DEF ClockOK, SleepTyped
<1> HIDE DEF x, B2
<1>2. SleepTyped(B2)
  BY <1>0, <1>1 DEF ClockOK, SleepTyped
<1>3. StartTiming(tm, B2)
  BY <1>0, <1>1 DEF ClockOK, StartTiming
<1>4. ResetTiming(tm, B2)
  BY <1>0, <1>1 DEF ClockOK, ResetTiming, x
<1>5. TeardownTiming(o, B2)
  BY <1>0, <1>1 DEF ClockOK, TeardownTiming, x
<1>6. OneReset(B2)
  BY <1>0, <1>1 DEF ClockOK, OneReset
<1> QED
  BY <1>2, <1>3, <1>4, <1>5, <1>6 DEF ClockOK, B2

\* The scripts that sleep after a tick.
LEMMA TickSleeps ==
    ASSUME SleepTyped(sleeps), Tick
    PROVE  /\ SleepTyped(sleeps')
           /\ \A s \in BagToSet(sleeps') : \E w \in BagToSet(sleeps) :
                 /\ w.at = s.at /\ w.left = s.left + 1 /\ sleeps'[s] = sleeps[w]
           /\ \A w \in BagToSet(sleeps) :
                 Sleeper(w.at, w.left - 1) \in BagToSet(sleeps')
<1> DEFINE P == BagToSet(sleeps)
           Q == {[at |-> w.at, left |-> w.left - 1] : w \in P}
<1>1. \A w \in P : /\ w \in [at : Labels, left : Nat] /\ w.left - 1 \in Nat
                   /\ sleeps[w] \in {n \in Nat : n > 0}
  BY DEF SleepTyped, Tick, NothingDue, IsABag, BagToSet
<1>2. sleeps' = [s \in Q |-> sleeps[[at |-> s.at, left |-> s.left + 1]]]
  BY DEF Tick
<1>3. BagToSet(sleeps') = Q
  BY <1>2 DEF BagToSet
<1>4. ASSUME NEW s \in Q
      PROVE  \E w \in P : /\ w.at = s.at /\ w.left = s.left + 1 /\ sleeps'[s] = sleeps[w]
                          /\ s \in [at : Labels, left : Nat]
  <2>1. PICK w \in P : s = [at |-> w.at, left |-> w.left - 1]
    OBVIOUS
  <2>2. s.at = w.at /\ s.left + 1 = w.left /\ s \in [at : Labels, left : Nat]
    BY <1>1, <2>1
  <2>3. [at |-> s.at, left |-> s.left + 1] = w
    BY <1>1, <2>2
  <2>4. sleeps'[s] = sleeps[w]
    BY <1>2, <2>3
  <2> QED
    BY <2>2, <2>4
<1>5. \A w \in P : Sleeper(w.at, w.left - 1) \in Q
  BY DEF Sleeper
<1> HIDE DEF P, Q
<1>6. SleepTyped(sleeps')
  <2>1. DOMAIN sleeps' = Q
    BY <1>3 DEF BagToSet
  <2>2. sleeps' = [s \in Q |-> sleeps'[s]]
    BY <1>2
  <2>3. \A s \in Q : sleeps'[s] \in {n \in Nat : n > 0}
    BY <1>1, <1>4
  <2> QED
    BY <1>3, <1>4, <2>1, <2>2, <2>3 DEF SleepTyped, IsABag
<1> QED
  BY <1>3, <1>4, <1>5, <1>6 DEF P

\* A tick keeps the order of what is pending.
LEMMA ClockTick == ASSUME Clock, Tick PROVE Clock'
<1>1. /\ TimerTyped(timer) /\ out \in -1..OutDelay /\ SleepTyped(sleeps)
      /\ StartTiming(timer, sleeps) /\ ResetTiming(timer, sleeps)
      /\ TeardownTiming(out, sleeps) /\ OneReset(sleeps)
  BY DEF Clock, ClockOK
<1>2. /\ SleepTyped(sleeps')
      /\ \A s \in BagToSet(sleeps') : \E w \in BagToSet(sleeps) :
            /\ w.at = s.at /\ w.left = s.left + 1 /\ sleeps'[s] = sleeps[w]
  BY <1>1, TickSleeps
<1>3. /\ TimerTyped(timer') /\ timer'.at = timer.at
      /\ timer.left > 0 => timer'.left = timer.left - 1
      /\ timer.at # "none" => timer.left > 0
  BY <1>1 DEF Tick, TimerTyped, NothingDue
<1>4. /\ out' \in -1..OutDelay /\ (out' >= 0 => out >= 0 /\ out' = out - 1)
  BY <1>1, DelayFacts DEF Tick, NothingDue
<1>0. /\ timer.left \in Int /\ out \in Int
      /\ \A s \in BagToSet(sleeps) : s.left \in Nat /\ s \in [at : Labels, left : Nat]
      /\ \A s \in BagToSet(sleeps') : s.left \in Nat /\ s \in [at : Labels, left : Nat]
  BY <1>1, <1>2 DEF TimerTyped, SleepTyped
<1>5. \A s \in BagToSet(sleeps') : \E w \in BagToSet(sleeps) :
          /\ w.at = s.at /\ w.left = s.left + 1 /\ sleeps'[s] = sleeps[w]
          /\ ToClear(w) = ToClear(s) + 1 /\ ToIdle(w) = ToIdle(s) + 1
          /\ ToClear(s) \in Nat /\ ToIdle(s) \in Nat
  BY <1>0, <1>2, DelayFacts DEF ToClear, ToIdle
<1>6. StartTiming(timer', sleeps')
  BY <1>0, <1>1, <1>3, <1>5, DelayFacts DEF StartTiming
<1>7. ResetTiming(timer', sleeps')
  BY <1>0, <1>1, <1>3, <1>5, DelayFacts DEF ResetTiming
<1>8. TeardownTiming(out', sleeps')
  BY <1>0, <1>1, <1>4, <1>5, DelayFacts DEF TeardownTiming
<1>9. OneReset(sleeps')
  <2>1. SUFFICES ASSUME NEW s \in BagToSet(sleeps'), NEW r \in BagToSet(sleeps'),
                        s.at \in Resets, r.at \in Resets
                 PROVE  sleeps'[s] = 1 /\ r = s
    BY DEF OneReset
  <2>2. PICK v \in BagToSet(sleeps) : v.at = s.at /\ v.left = s.left + 1 /\ sleeps'[s] = sleeps[v]
    BY <1>2
  <2>3. PICK w \in BagToSet(sleeps) : w.at = r.at /\ w.left = r.left + 1
    BY <1>2
  <2>4. sleeps[v] = 1 /\ w = v
    BY <1>1, <2>1, <2>2, <2>3 DEF OneReset
  <2>5. r.at = s.at /\ r.left = s.left
    BY <1>0, <2>2, <2>3, <2>4
  <2> QED
    BY <1>0, <2>2, <2>4, <2>5
<1> QED
  BY <1>2, <1>3, <1>4, <1>6, <1>7, <1>8, <1>9 DEF Clock, ClockOK

-----------------------------------------------------------------------------
(* The players.                                                            *)

LEMMA RegistryTypes ==
    ASSUME Inv
    PROVE  /\ status \in [Id -> Status] /\ team \in [Id -> [Char -> Winner]]
           /\ deserter \in [Id -> SUBSET Char] /\ dead \in [Id -> SUBSET Char]
           /\ playerMatch \in [Char -> 0..MaxMatch] /\ slot \in [Arena -> 0..MaxMatch]
           /\ online \in SUBSET Char /\ counter \in 0..MaxMatch
           /\ \A c \in Char : playerMatch[c] # 0 => playerMatch[c] \in Id
           /\ slot[Home] # 0 => slot[Home] \in Id /\ status[slot[Home]] \in Open
           /\ slot[Home] \in 0..MaxMatch
  BY IdFacts, HomeAssumption, OpenSlot DEF Inv, TypeOK

\* pc_setpos ends a registration; nobody else is touched.
LEMMA SetPosFacts ==
    ASSUME Inv, NEW c \in Char, SetPosEffect(c)
    PROVE  /\ playerMatch'[c] = 0
           /\ \A d \in Char : d # c => playerMatch'[d] = playerMatch[d]
           /\ \A d \in Char, m \in Id : d # c => (d \in dead'[m] <=> d \in dead[m])
<1>1. CASE playerMatch[c] = 0
  BY <1>1 DEF SetPosEffect
<1>2. CASE playerMatch[c] # 0
  <2>1. /\ dead' = [dead EXCEPT ![playerMatch[c]] = @ \ {c}]
        /\ playerMatch' = [playerMatch EXCEPT ![c] = 0]
    BY <1>2 DEF SetPosEffect, RemovePlayer
  <2>2. playerMatch[c] \in Id /\ playerMatch \in [Char -> 0..MaxMatch] /\ dead \in [Id -> SUBSET Char]
    BY <1>2, RegistryTypes
  <2>3. playerMatch'[c] = 0 /\ \A d \in Char : d # c => playerMatch'[d] = playerMatch[d]
    BY <2>1, <2>2
  <2>4. \A d \in Char, m \in Id : d # c => (d \in dead'[m] <=> d \in dead[m])
    BY <2>1, <2>2
  <2> QED
    BY <2>3, <2>4
<1> QED
  BY <1>1, <1>2

\* map_quit ends at most the registration of the player.
LEMMA QuitFacts ==
    ASSUME Inv, NEW c \in Char, NEW leave \in BOOLEAN, Quit(c, leave)
    PROVE  /\ online' = online \ {c} /\ UNCHANGED <<dead, slot, status, team>>
           /\ \A d \in Char : d # c => playerMatch'[d] = playerMatch[d]
           /\ playerMatch'[c] = playerMatch[c] \/ playerMatch'[c] = 0
<1>1. playerMatch' = playerMatch \/ playerMatch' = [playerMatch EXCEPT ![c] = 0]
  BY DEF Quit, RemovePlayer
<1> QED
  BY <1>1, RegistryTypes DEF Quit

\* Nobody moves, and nobody becomes a tombstone outside the arena.
LEMMA CrewKept ==
    ASSUME Inv, Crew, UNCHANGED <<members, stale, bg, place, corpse, online>>,
           state' \in 0..3, count' \in [Team -> Nat],
           \A c \in Char : playerMatch'[c] # 0 /\ c \in dead'[playerMatch'[c]]
               => \/ place[c] = Home
                  \/ playerMatch'[c] = playerMatch[c] /\ c \in dead[playerMatch[c]]
    PROVE  Crew'
<1>1. CrewTyped'
  BY DEF Crew, CrewTyped, Members, InArena
<1>2. Aboard' /\ Teamed'
  BY DEF Crew, Aboard, Teamed
<1>3. Tombs'
  BY DEF Crew, Tombs
<1> QED
  BY <1>1, <1>2, <1>3 DEF Crew

\* The registry is left alone.
LEMMA CrewStutter ==
    ASSUME Inv, Crew, UNCHANGED <<members, stale, bg, place, corpse, online, playerMatch, dead>>,
           state' \in 0..3, count' \in [Team -> Nat]
    PROVE  Crew'
  BY CrewKept

\* pc_setpos to the arena or out of it.
LEMMA CrewMove ==
    ASSUME Inv, Crew, NEW c \in Char, NEW to \in {"out", Home}, SetPos(c), Moved(c, to),
           UNCHANGED <<state, count, members, stale>>
    PROVE  /\ Crew'
           /\ UNCHANGED <<slot, status, online>>
           /\ place'[c] = to /\ \A d \in Char : d # c => place'[d] = place[d] /\ bg'[d] = bg[d]
           /\ bg'[c] = bg[c] \/ bg'[c] = "none"
           /\ to # Home /\ place[c] = Home => bg'[c] = "none"
<1>1. /\ place \in [Char -> {"out", Home}] /\ bg \in [Char -> Winner] /\ corpse \subseteq InArena
      /\ CrewTyped
  BY DEF Crew, CrewTyped
<1>2. /\ UNCHANGED <<slot, status, online>> /\ c \in online /\ SetPosEffect(c)
  BY DEF SetPos
<1>3. place'[c] = to /\ \A d \in Char : d # c => place'[d] = place[d] /\ bg'[d] = bg[d]
  BY <1>1 DEF Moved
<1>4. /\ bg'[c] = bg[c] \/ bg'[c] = "none"
      /\ to # Home /\ place[c] = Home => bg'[c] = "none"
  BY <1>1 DEF Moved
<1>5. CrewTyped'
  <2>1. place' \in [Char -> {"out", Home}] /\ bg' \in [Char -> Winner]
    BY <1>1, TeamFacts DEF Moved
  <2>2. corpse' \subseteq InArena'
    BY <1>1, <1>2, <1>3, RegistryTypes DEF Moved, InArena
  <2> QED
    BY <1>1, <2>1, <2>2 DEF CrewTyped, Members
<1>6. Aboard'
  BY <1>2, <1>3 DEF Crew, Aboard
<1>7. Teamed'
  BY <1>2, <1>3, <1>4 DEF Crew, Teamed
<1>8. Tombs'
  <2>1. \A d \in Char : d # c /\ playerMatch'[d] # 0 => playerMatch[d] \in Id
    BY <1>2, SetPosFacts, RegistryTypes
  <2> QED
    BY <1>2, <1>3, <2>1, SetPosFacts DEF Crew, Tombs
<1> QED
  BY <1>2, <1>3, <1>4, <1>5, <1>6, <1>7, <1>8 DEF Crew

\* A character that logs in appears outside, in no team.
LEMMA CrewLogin ==
    ASSUME Inv, Crew, NEW c \in Char, PlayerLogin(c)
    PROVE  Crew' /\ UNCHANGED <<slot, status>> /\ (NobodyInside => NobodyInside') /\ (Seated => Seated')
<1>1. /\ online' = online \cup {c} /\ c \notin online /\ SetPosEffect(c)
      /\ UNCHANGED <<slot, status>> /\ place' = [place EXCEPT ![c] = "out"]
      /\ UNCHANGED <<state, count, members, stale, bg, corpse>>
  BY DEF PlayerLogin, Login
<1>2. CrewTyped /\ place \in [Char -> {"out", Home}] /\ corpse \subseteq InArena
  BY DEF Crew, CrewTyped
<1>3. place'[c] = "out" /\ \A d \in Char : d # c => place'[d] = place[d]
  BY <1>1, <1>2
<1>0. place[c] = "out" /\ bg[c] = "none"
  BY <1>1, <1>2 DEF Crew, Aboard, Teamed
<1>4. CrewTyped'
  <2>1. place' \in [Char -> {"out", Home}]
    BY <1>1, <1>2
  <2>2. corpse' \subseteq InArena'
    BY <1>1, <1>2, <1>3, RegistryTypes DEF InArena
  <2> QED
    BY <1>1, <1>2, <2>1, <2>2 DEF CrewTyped, Members
<1>5. Aboard' /\ Teamed'
  BY <1>0, <1>1, <1>3 DEF Crew, Aboard, Teamed
<1>6. Tombs'
  <2>1. \A d \in Char : d # c /\ playerMatch'[d] # 0 => playerMatch[d] \in Id
    BY <1>1, SetPosFacts, RegistryTypes
  <2> QED
    BY <1>1, <1>3, <2>1, SetPosFacts DEF Crew, Tombs
<1>7. (NobodyInside => NobodyInside') /\ (Seated => Seated')
  BY <1>0, <1>1, <1>3 DEF NobodyInside, Seated
<1> QED
  BY <1>1, <1>4, <1>5, <1>6, <1>7 DEF Crew

\* A session ends, whatever the controller makes of it.
LEMMA CrewQuits ==
    ASSUME Inv, Crew, NEW c \in Char, NEW leave \in BOOLEAN, Quit(c, leave),
           bg' = [bg EXCEPT ![c] = "none"], place' = [place EXCEPT ![c] = "out"],
           corpse' = corpse \ {c}, stale' = IF c \in Members THEN stale \cup {c} ELSE stale,
           members' = members, state' \in 0..3, count' \in [Team -> Nat]
    PROVE  /\ Crew' /\ UNCHANGED <<slot, status>>
           /\ (NobodyInside => NobodyInside') /\ (Seated => Seated')
<1>1. CrewTyped
  BY DEF Crew
<1>2. /\ place'[c] = "out" /\ bg'[c] = "none"
      /\ \A d \in Char : d # c => place'[d] = place[d] /\ bg'[d] = bg[d]
  BY <1>1 DEF CrewTyped
<1>3. /\ online' = online \ {c} /\ UNCHANGED <<dead, slot, status>>
      /\ \A d \in Char : d # c => playerMatch'[d] = playerMatch[d]
  BY QuitFacts
<1>4. CrewTyped'
  <2>1. place' \in [Char -> {"out", Home}] /\ bg' \in [Char -> Winner]
    BY <1>1, TeamFacts DEF CrewTyped
  <2>2. corpse' \subseteq InArena'
    BY <1>1, <1>2, <1>3, RegistryTypes DEF CrewTyped, InArena
  <2>3. members' \in [Team -> SUBSET Char] /\ stale' \subseteq Members'
    BY <1>1 DEF CrewTyped, Members
  <2> QED
    BY <2>1, <2>2, <2>3 DEF CrewTyped
<1>5. Aboard'
  BY <1>2, <1>3, HomeAssumption DEF Crew, Aboard
<1>6. Teamed'
  BY <1>2, <1>3 DEF Crew, Teamed
<1>7. Tombs'
  BY <1>2, <1>3 DEF Crew, Tombs
<1>8. (NobodyInside => NobodyInside') /\ (Seated => Seated')
  BY <1>2 DEF NobodyInside, Seated
<1> QED
  BY <1>3, <1>4, <1>5, <1>6, <1>7, <1>8 DEF Crew

-----------------------------------------------------------------------------
(* In which phase an event runs.                                           *)

LEMMA IdlePhase ==
    ASSUME Phase, run = <<>>
    PROVE  Free \/ Waiting \/ Playing \/ Ending \/ Resetting
<1> USE QueueFacts
<1>1. ~Starting
  BY DEF Starting
<1>2. ~Aborting
  BY DEF Aborting
<1>3. ~Clearing
  BY DEF Clearing
<1> QED
  BY <1>1, <1>2, <1>3 DEF Phase

\* The phase of the arena that each call of the queue belongs to.
LEMMA CallPhase ==
    ASSUME Phase, run # <<>>
    PROVE  /\ Head(run).ev = "ready" => Free /\ run = <<Call("ready")>>
           /\ Head(run).ev = "create" =>
                 /\ Starting /\ slot[Home] = 0
                 /\ run = <<Call("create"), BgWarp(Members, Home), Call("started")>>
           /\ Head(run).ev = "started" =>
                 Starting /\ run = <<Call("started")>> /\ Prepared /\ Seated
           /\ Head(run).ev = "die" => run \in Dying /\ (Waiting \/ Playing \/ Ending)
           /\ Head(run).ev = "win" => run \in Winning /\ (Playing \/ Ending)
           /\ Head(run).ev = "begin" => Playing /\ run = <<Call("begin")>> /\ Prepared
           /\ Head(run).ev = "cancel" => \/ Aborting /\ run = <<Call("cancel"), Call("reset")>>
                                         \/ Clearing
                                         \/ Resetting /\ run = <<Call("cancel")>>
           /\ Head(run).ev = "reset" => Aborting /\ run = <<Call("reset")>>
           /\ Head(run).ev = "destroy" =>
                 Clearing /\ run = <<Call("destroy")>> /\ slot[Home] = 0 /\ NobodyInside
           /\ Head(run).ev = "warp" => Starting \/ Ending \/ Clearing \/ Resetting
<1>9. /\ (\E W \in SUBSET Char : run = <<WarpOf(W, "out", "map")>>) => Head(run).ev = "warp"
      /\ (\E W \in SUBSET Char : run = <<WarpOf(W, "out", "map"), Call("destroy")>>)
            => Head(run).ev = "warp"
      /\ (\E W \in SUBSET Char : run = <<BgWarp(W, "out")>>) => Head(run).ev = "warp"
      /\ (\E W \in SUBSET Char : run = <<BgWarp(W, "out"), MapWarp, Call("destroy")>>)
            => Head(run).ev = "warp"
  BY WarpHead, Zenon
<1> USE QueueFacts, CallFacts
<1> DEFINE h == Head(run).ev
<1>0. /\ run \in Dying => h = "die"
      /\ run \in Winning => h = "win"
  BY DEF Dying, Winning
<1>1. Free => h = "ready" /\ run = <<Call("ready")>>
  BY DEF Free
<1>2. Starting => \/ /\ h = "create" /\ slot[Home] = 0
                     /\ run = <<Call("create"), BgWarp(Members, Home), Call("started")>>
                  \/ h = "warp"
                  \/ h = "started" /\ run = <<Call("started")>> /\ Prepared /\ Seated
  BY WarpHead DEF Starting
<1>3. Waiting => h = "die" /\ run \in Dying
  BY <1>0 DEF Waiting
<1>4. Playing => \/ h = "begin" /\ run = <<Call("begin")>> /\ Prepared
                 \/ h = "die" /\ run \in Dying
                 \/ h = "win" /\ run \in Winning
  BY <1>0 DEF Playing
<1>5. Ending => \/ h = "die" /\ run \in Dying
                \/ h = "win" /\ run \in Winning
                \/ h = "warp"
  <2> SUFFICES ASSUME Ending PROVE h = "warp" \/ run \in Dying \/ run \in Winning
    BY <1>0
  <2>1. \/ run \in Dying \cup Winning
        \/ \E W \in SUBSET Char : run = <<BgWarp(W, "out")>>
        \/ \E W \in SUBSET Char : run = <<WarpOf(W, "out", "map")>>
    BY DEF Ending
  <2> QED
    BY <2>1, <1>9
<1>6. Aborting => \/ h = "cancel" /\ run = <<Call("cancel"), Call("reset")>>
                  \/ h = "reset" /\ run = <<Call("reset")>>
  BY DEF Aborting
<1>7. Clearing => \/ h = "cancel"
                  \/ h = "warp"
                  \/ h = "destroy" /\ run = <<Call("destroy")>> /\ slot[Home] = 0 /\ NobodyInside
  <2>1. Clearing =>
            \/ run = <<Call("cancel"), Call("destroy")>>
            \/ run = <<Call("destroy")>> /\ slot[Home] = 0 /\ NobodyInside
            \/ \E W \in SUBSET Char :
                  run = <<Call("cancel"), BgWarp(W, "out"), MapWarp, Call("destroy")>>
            \/ \E W \in SUBSET Char : run = <<BgWarp(W, "out"), MapWarp, Call("destroy")>>
            \/ \E W \in SUBSET Char : run = <<WarpOf(W, "out", "map"), Call("destroy")>>
    BY DEF Clearing
  <2>2. /\ run = <<Call("cancel"), Call("destroy")>> => h = "cancel"
        /\ run = <<Call("destroy")>> => h = "destroy"
    OBVIOUS
  <2>3. (\E W \in SUBSET Char : run = <<Call("cancel"), BgWarp(W, "out"), MapWarp, Call("destroy")>>)
            => h = "cancel"
    OBVIOUS
  <2> QED
    BY <2>1, <2>2, <2>3, <1>9, Zenon
<1>8. Resetting => \/ h = "cancel" /\ run = <<Call("cancel")>>
                   \/ h = "warp"
  <2>1. Resetting => \/ run = <<Call("cancel")>>
                     \/ \E W \in SUBSET Char : run = <<WarpOf(W, "out", "map")>>
    BY DEF Resetting
  <2>2. run = <<Call("cancel")>> => h = "cancel"
    OBVIOUS
  <2> QED
    BY <2>1, <2>2, <1>9, Zenon
<1> HIDE DEF h
<1> QED
  <2>1. CASE Free
    BY <1>1, <2>1 DEF h
  <2>2. CASE Starting
    BY <1>2, <2>2 DEF h
  <2>3. CASE Waiting
    BY <1>3, <2>3 DEF h
  <2>4. CASE Playing
    BY <1>4, <2>4 DEF h
  <2>5. CASE Ending
    BY <1>5, <2>5 DEF h
  <2>6. CASE Aborting
    BY <1>6, <2>6 DEF h
  <2>7. CASE Clearing
    BY <1>7, <2>7 DEF h
  <2>8. CASE Resetting
    BY <1>8, <2>8 DEF h
  <2> QED
    BY <2>1, <2>2, <2>3, <2>4, <2>5, <2>6, <2>7, <2>8 DEF Phase

-----------------------------------------------------------------------------
(* The registry sees only steps of its own specification.                  *)

LEMMA StepRefines == ASSUME ArenaInv, [BattleNext]_battleVars PROVE [Next]_vars
<1>0. Inv /\ Crew /\ Clock /\ Phase
  BY DEF ArenaInv
<1>1. CASE UNCHANGED battleVars
  BY <1>1 DEF battleVars
<1>2. CASE Calls
  <2>1. CASE OnStartCreate
    <3>1. slot[Home] = 0
      BY <1>0, <2>1, CallPhase DEF OnStartCreate, Running
    <3> QED
      BY <2>1, <3>1, HomeAssumption DEF OnStartCreate, Next, HookStep, OnMatchCreate
  <2>2. CASE Warp
    BY <2>2, <1>0, RegistryTypes DEF Warp, Next, PlayerStep
  <2>3. CASE Cancel
    BY <2>3, HomeAssumption DEF Cancel, Next, HookStep
  <2>4. CASE BeginMatch
    <3>1. CASE slot[Home] = 0
      BY <2>4, <3>1 DEF BeginMatch
    <3>2. CASE slot[Home] # 0
      <4>1. PICK gone \in SUBSET stale :
                JoinAndStart(Home, members["blue"] \ gone, members["red"] \ gone)
        BY <2>4, <3>2 DEF BeginMatch
      <4>2. members["blue"] \ gone \in SUBSET Char /\ members["red"] \ gone \in SUBSET Char
        BY <1>0, TeamFacts DEF Crew, CrewTyped
      <4>3. status[slot[Home]] = "waiting"
        BY <1>0, <2>4, CallPhase DEF BeginMatch, Running, Prepared
      <4>4. OnMatchStart(Home, members["blue"] \ gone, members["red"] \ gone)
        BY <3>2, <4>1, <4>3 DEF OnMatchStart
      <4> QED
        BY <4>2, <4>4, HomeAssumption DEF Next, HookStep
    <3> QED
      BY <3>1, <3>2
  <2>5. ASSUME NEW t \in Team, OnDie(t) \/ OnWin(t) PROVE [Next]_vars
    <3>1. CASE OnDie(t)
      BY <3>1 DEF OnDie
    <3>2. CASE OnWin(t)
      BY <3>2, HomeAssumption, TeamFacts DEF OnWin, Next, HookStep
    <3> QED
      BY <2>5, <3>1, <3>2
  <2>6. CASE NotReady \/ OnStartSleep \/ OnReset \/ BgDestroy
    BY <2>6 DEF NotReady, OnStartSleep, OnReset, BgDestroy
  <2> QED
    BY <1>2, <2>1, <2>2, <2>3, <2>4, <2>5, <2>6 DEF Calls
<1>3. CASE Timers
  <2>1. CASE OnTimer450000
    BY <2>1, HomeAssumption, TeamFacts DEF OnTimer450000, Next, HookStep, Winner
  <2>2. CASE WakeStop
    BY <2>2, HomeAssumption DEF WakeStop, Next, HookStep
  <2>3. CASE \/ OnTimer25000 \/ OnTimer30000 \/ OnOut \/ WakeStarted \/ WakeWarp \/ WakeClear
             \/ WakeReset \/ WakeRespawn \/ WakeIdle \/ Tick
    BY <2>3 DEF OnTimer25000, OnTimer30000, OnOut, WakeStarted, WakeWarp, WakeClear, WakeReset,
       WakeRespawn, WakeIdle, Tick
  <2> QED
    BY <1>3, <2>1, <2>2, <2>3 DEF Timers
<1>4. CASE Players
  <2>1. ASSUME NEW c \in Char, PlayerLogin(c) \/ PlayerDies(c) \/ PlayerQuits(c) PROVE [Next]_vars
    <3>1. CASE PlayerLogin(c)
      BY <3>1 DEF PlayerLogin, Next, PlayerStep
    <3>2. CASE PlayerDies(c)
      BY <3>2 DEF PlayerDies, Next, PlayerStep
    <3>3. CASE PlayerQuits(c)
      <4>1. Quit(c, FALSE) \/ Quit(c, slot[Home] # 0)
        BY <3>3 DEF PlayerQuits, OnQuit
      <4>2. \E leave \in BOOLEAN : Quit(c, leave)
        BY <4>1, Zenon
      <4> QED
        BY <4>2 DEF Next, PlayerStep
    <3> QED
      BY <2>1, <3>1, <3>2, <3>3
  <2>2. ASSUME NEW c \in Char, NEW to \in {"out", Home}, PlayerWarp(c, to) PROVE [Next]_vars
    BY <2>2 DEF PlayerWarp, Next, PlayerStep
  <2>3. ASSUME NEW B \in SUBSET Char, NEW R \in SUBSET Char, OnReadyCheck(B, R) PROVE [Next]_vars
    BY <2>3 DEF OnReadyCheck
  <2> QED
    BY <1>4, <2>1, <2>2, <2>3 DEF Players
<1>5. CASE StartServer
  BY <1>5 DEF StartServer, Next, ServerStep
<1> QED
  BY <1>1, <1>2, <1>3, <1>4, <1>5 DEF BattleNext

\* So the invariant of the registry holds in the arena.
LEMMA RegistryStep == ASSUME ArenaInv, [BattleNext]_battleVars PROVE Inv'
  BY StepRefines, NextInv DEF ArenaInv

-----------------------------------------------------------------------------
(* The calls of an event.                                                  *)

LEMMA ClockSame == ASSUME Clock, UNCHANGED <<timer, out, sleeps>> PROVE Clock'
  BY DEF Clock

\* Being calm depends on the timers only.
LEMMA CalmSame == ASSUME UNCHANGED <<out, sleeps>> PROVE Calm' = Calm
  BY DEF Calm, NonePending, Pending

\* A stopped timer is a timer.
LEMMA StoppedFacts == TimerTyped(Stopped) /\ Stopped.at = "none"
  BY DEF TimerTyped, Stopped

\* The timer is stopped and a script goes to sleep.
LEMMA ClockStopGrow ==
    ASSUME Clock, timer' = Stopped \/ timer' = timer, out' = out,
           NEW e \in Labels, NEW d \in Nat, sleeps' = sleeps (+) Sleep(e, d),
           e = "started" => d <= StartDelay /\ timer'.at # "begin",
           e \in Resets => /\ \A s \in Pending : s.at \notin Resets
                           /\ ToIdle(Sleeper(e, d)) <= 2 * ResetDelay + CancelDelay
                           /\ timer'.at # "check",
           e \in Teardown =>
               /\ ToClear(Sleeper(e, d)) <= OutDelay
               /\ out >= 0 => ToClear(Sleeper(e, d)) < out
               /\ \A r \in Pending : r.at \in Teardown =>
                     /\ ToClear(Sleeper(e, d)) = OutDelay => ToClear(r) > 0
                     /\ ToClear(r) = OutDelay => ToClear(Sleeper(e, d)) > 0
    PROVE  Clock' /\ Pending' = Pending \cup {Sleeper(e, d)}
<1>1. ClockOK(timer', out, sleeps)
  <2>1. CASE timer' = timer
    BY <2>1 DEF Clock
  <2>2. CASE timer' = Stopped
    BY <2>2, StoppedFacts DEF Clock, ClockOK, StartTiming, ResetTiming
  <2> QED
    BY <2>1, <2>2
<1>2. ClockOK(timer', out, sleeps (+) Sleep(e, d))
  BY <1>1, ClockGrow DEF Pending
<1>3. Pending' = Pending \cup {Sleeper(e, d)}
  BY BagPlus DEF Clock, ClockOK, SleepTyped, Pending
<1> QED
  BY <1>2, <1>3 DEF Clock

\* The controller after a check that finds the arena not ready.
LEMMA NotReadyStep == ASSUME ArenaInv, NotReady PROVE Crew' /\ Clock' /\ Phase'
<1>1. Inv /\ Crew /\ Clock /\ Phase
  BY DEF ArenaInv
<1>2. Free /\ run' = <<>>
  BY <1>1, CallPhase, QueueFacts DEF NotReady, Running
<1>3. Crew'
  BY <1>1, CrewStutter DEF NotReady, vars, registry, Crew, CrewTyped
<1>4. Clock'
  BY <1>1, ClockSame DEF NotReady
<1>5. Free'
  BY <1>2, CalmSame DEF NotReady, Free, Members, NobodyInside, vars
<1> QED
  BY <1>3, <1>4, <1>5 DEF Phase

\* The controller after it has created the match of two full teams.
LEMMA CreateStep == ASSUME ArenaInv, OnStartCreate PROVE Crew' /\ Clock' /\ Phase'
<1>1. Inv /\ Crew /\ Clock /\ Phase
  BY DEF ArenaInv
<1>2. /\ Starting /\ slot[Home] = 0
      /\ run = <<Call("create"), BgWarp(Members, Home), Call("started")>>
  BY <1>1, CallPhase DEF OnStartCreate, Running
<1>3. run' = <<BgWarp(Members, Home), Call("started")>>
  BY <1>2, QueueFacts DEF OnStartCreate
<1>4. counter + 1 \in Id
  BY <1>1, RegistryTypes, IdFacts DEF OnStartCreate, CreateMatch
<1>5. /\ slot'[Home] = counter + 1 /\ status'[counter + 1] = "waiting"
      /\ UNCHANGED <<online, playerMatch>> /\ dead' = [dead EXCEPT ![counter + 1] = {}]
  BY <1>1, <1>4, RegistryTypes, HomeAssumption DEF OnStartCreate, CreateMatch
<1>6. Prepared'
  BY <1>4, <1>5, IdFacts DEF Prepared
<1>7. Crew'
  <2>1. \A c \in Char : playerMatch[c] # 0 /\ c \in dead'[playerMatch[c]]
            => c \in dead[playerMatch[c]]
    BY <1>1, <1>4, <1>5, RegistryTypes
  <2> QED
    BY <1>1, <1>5, <2>1, CrewKept DEF OnStartCreate, Crew, CrewTyped
<1>8. Clock'
  BY <1>1, ClockSame DEF OnStartCreate
<1>9. Starting'
  <2>1. Members \in SUBSET Char /\ \A c \in Char : bg[c] # "none" => c \in Members
    BY <1>1, TeamFacts DEF Crew, CrewTyped, Teamed, Members
  <2>2. (\E W \in SUBSET Char :
              /\ run = <<BgWarp(W, Home), Call("started")>>
              /\ Prepared
              /\ \A c \in Char : bg[c] # "none" => c \in W \/ place[c] = Home)'
    BY <1>3, <1>6, <2>1 DEF OnStartCreate
  <2> QED
    BY <1>2, <2>2, CalmSame DEF Starting, OnStartCreate, Full
<1> QED
  BY <1>7, <1>8, <1>9 DEF Phase

\* The controller after OnStart has warped the teams and gone to sleep.
LEMMA StartedStep == ASSUME ArenaInv, OnStartSleep PROVE Crew' /\ Clock' /\ Phase'
<1>1. Inv /\ Crew /\ Clock /\ Phase
  BY DEF ArenaInv
<1>2. Starting /\ run = <<Call("started")>> /\ Prepared /\ Seated
  BY <1>1, CallPhase DEF OnStartSleep, Running
<1>0. run' = <<>>
  BY <1>2, QueueFacts DEF OnStartSleep
<1>3. Crew'
  BY <1>1, CrewStutter DEF OnStartSleep, vars, registry, Crew, CrewTyped
<1>4. Clock' /\ Pending' = Pending \cup {Sleeper("started", StartDelay)}
  <2>1. "started" \in Labels \ (Teardown \cup Resets) /\ timer.at # "begin"
    BY <1>2, LabelFacts DEF Starting
  <2> QED
    BY <1>1, <2>1, ClockStopGrow, DelayFacts DEF OnStartSleep
<1>5. Waiting'
  <2>1. Calm'
    BY <1>2, <1>4, SleeperFacts, LabelFacts DEF Starting, Calm, NonePending, OnStartSleep
  <2>2. (\E s \in Pending : s.at = "started")'
    BY <1>4, SleeperFacts
  <2>3. Prepared' /\ Seated' /\ Full' /\ timer' = timer /\ state' = 1
    BY <1>2 DEF OnStartSleep, Prepared, Seated, Full, Starting, vars, registry
  <2> QED
    BY <1>0, <1>2, <2>1, <2>2, <2>3 DEF Waiting, Starting
<1> QED
  BY <1>3, <1>4, <1>5 DEF Phase

\* bg_warp and mapwarp move one player after the other.
LEMMA WarpCases ==
    ASSUME Warp, NEW W, NEW to, NEW k, Head(run) = WarpOf(W, to, k)
    PROVE  \/ /\ run' = Tail(run) /\ UNCHANGED <<vars, bg, place, corpse>>
              /\ \A c \in W \cap online :
                    IF k = "map" THEN place[c] # Home
                    ELSE playerMatch[c] # 0 /\ c \in dead[playerMatch[c]]
           \/ \E c \in W \cap online :
                 /\ SetPos(c) /\ Moved(c, to)
                 /\ run' = [run EXCEPT ![1] = WarpOf(W \ {c}, to, k)]
<1>1. Head(run).who = W /\ Head(run).to = to /\ Head(run).by = k
  BY CallFacts
<1> DEFINE todo == {c \in W \cap online : IF k = "map" THEN place[c] = Home
                                          ELSE playerMatch[c] = 0 \/ c \notin dead[playerMatch[c]]}
<1>2. CASE todo = {}
  BY <1>1, <1>2 DEF Warp
<1>3. CASE todo # {}
  <2>1. PICK c \in todo : /\ SetPos(c) /\ Moved(c, to)
                          /\ run' = [run EXCEPT ![1] = WarpOf(W \ {c}, to, k)]
    BY <1>1, <1>3 DEF Warp
  <2> QED
    BY <2>1
<1> QED
  BY <1>2, <1>3

\* A step of a group warp is over, or moves one player who is no tombstone.
LEMMA WarpTeam ==
    ASSUME Warp, NEW W, NEW to, Head(run) = WarpOf(W, to, "team")
    PROVE  \/ /\ run' = Tail(run) /\ UNCHANGED <<vars, bg, place, corpse>>
              /\ \A c \in W \cap online : playerMatch[c] # 0 /\ c \in dead[playerMatch[c]]
           \/ \E c \in W \cap online :
                 /\ SetPos(c) /\ Moved(c, to)
                 /\ run' = [run EXCEPT ![1] = WarpOf(W \ {c}, to, "team")]
<1>1. Head(run).who = W /\ Head(run).to = to /\ Head(run).by = "team"
  BY CallFacts
<1> DEFINE todo == {c \in W \cap online : playerMatch[c] = 0 \/ c \notin dead[playerMatch[c]]}
<1>2. CASE todo = {}
  BY <1>1, <1>2 DEF Warp
<1>3. CASE todo # {}
  <2>1. PICK c \in todo : /\ SetPos(c) /\ Moved(c, to)
                          /\ run' = [run EXCEPT ![1] = WarpOf(W \ {c}, to, "team")]
    BY <1>1, <1>3 DEF Warp
  <2> QED
    BY <2>1
<1> QED
  BY <1>2, <1>3

\* bg_warp at the start of a match: everyone of the teams comes in.
LEMMA WarpStarting ==
    ASSUME ArenaInv, Warp, Starting PROVE Crew' /\ Starting'
<1>0. Inv /\ Crew
  BY DEF ArenaInv
<1>1. PICK W \in SUBSET Char :
          /\ run = <<BgWarp(W, Home), Call("started")>> /\ Prepared
          /\ \A c \in Char : bg[c] # "none" => c \in W \/ place[c] = Home
  <2>1. Head(run).ev = "warp"
    BY DEF Warp, Running
  <2> QED
    BY <2>1, QueueFacts, CallFacts DEF Starting
<1>2. Head(run) = WarpOf(W, Home, "team")
  BY <1>1, QueueFacts DEF BgWarp
<1>3. UNCHANGED <<state, count, members, stale, timer, out, sleeps>>
  BY DEF Warp
<1>4. CASE /\ run' = Tail(run) /\ UNCHANGED <<vars, bg, place, corpse>>
           /\ \A c \in W \cap online : playerMatch[c] # 0 /\ c \in dead[playerMatch[c]]
  <2>1. run' = <<Call("started")>>
    BY <1>1, <1>4, QueueFacts
  <2>2. Seated
    BY <1>0, <1>1, <1>4 DEF Seated, Crew, Teamed, Tombs
  <2>3. Prepared' /\ Seated' /\ Full'
    <3>1. Full'
      BY <1>3 DEF Starting, Full
    <3>2. Prepared' /\ Seated'
      BY <1>1, <1>4, <2>2 DEF Prepared, Seated, vars, registry
    <3> QED
      BY <3>1, <3>2
  <2>4. Crew'
    BY <1>0, <1>3, <1>4, CrewStutter DEF vars, registry, Crew, CrewTyped
  <2> QED
    BY <1>3, <2>1, <2>3, <2>4, CalmSame DEF Starting
<1>5. CASE \E c \in W \cap online :
              /\ SetPos(c) /\ Moved(c, Home)
              /\ run' = [run EXCEPT ![1] = WarpOf(W \ {c}, Home, "team")]
  <2>1. PICK c \in W \cap online :
              /\ SetPos(c) /\ Moved(c, Home)
              /\ run' = [run EXCEPT ![1] = WarpOf(W \ {c}, Home, "team")]
    BY <1>5
  <2>2. run' = <<BgWarp(W \ {c}, Home), Call("started")>>
    BY <1>1, <2>1, JoinFacts DEF BgWarp
  <2>3. /\ Crew' /\ UNCHANGED <<slot, status>>
        /\ place'[c] = Home /\ \A d \in Char : d # c => place'[d] = place[d] /\ bg'[d] = bg[d]
    BY <1>0, <1>3, <2>1, CrewMove
  <2>4. \A d \in Char : bg'[d] # "none" => d \in W \ {c} \/ place'[d] = Home
    BY <1>1, <2>3
  <2>5. Prepared' /\ Full'
    <3>1. Full'
      BY <1>3 DEF Starting, Full
    <3>2. Prepared'
      BY <1>1, <2>3 DEF Prepared
    <3> QED
      BY <3>1, <3>2
  <2>6. (\E V \in SUBSET Char :
              /\ run = <<BgWarp(V, Home), Call("started")>>
              /\ Prepared
              /\ \A d \in Char : bg[d] # "none" => d \in V \/ place[d] = Home)'
    BY <2>2, <2>4, <2>5
  <2> QED
    BY <1>3, <2>3, <2>5, <2>6, CalmSame DEF Starting
<1>6. \/ /\ run' = Tail(run) /\ UNCHANGED <<vars, bg, place, corpse>>
         /\ \A c \in W \cap online : playerMatch[c] # 0 /\ c \in dead[playerMatch[c]]
      \/ \E c \in W \cap online :
              /\ SetPos(c) /\ Moved(c, Home)
              /\ run' = [run EXCEPT ![1] = WarpOf(W \ {c}, Home, "team")]
  BY <1>2, WarpTeam
<1> QED
  BY <1>4, <1>5, <1>6

\* What a warp out of the arena does, whoever is warped.
LEMMA WarpOut ==
    ASSUME ArenaInv, Warp, NEW W \in SUBSET Char, NEW k,
           Head(run) = WarpOf(W, "out", k), k = "map" => \A c \in Char : place[c] = Home => c \in W
    PROVE  /\ Crew' /\ UNCHANGED <<slot, status, state, count, members, stale, timer, out, sleeps>>
           /\ (NobodyInside => NobodyInside') /\ (Seated => Seated')
           /\ \/ run' = Tail(run) /\ (k = "map" => NobodyInside')
              \/ \E V \in SUBSET Char : /\ run' = [run EXCEPT ![1] = WarpOf(V, "out", k)]
                                        /\ k = "map" => \A c \in Char : place'[c] = Home => c \in V
<1>0. Inv /\ Crew
  BY DEF ArenaInv
<1>3. UNCHANGED <<state, count, members, stale, timer, out, sleeps>>
  BY DEF Warp
<1>4. CASE /\ run' = Tail(run) /\ UNCHANGED <<vars, bg, place, corpse>>
           /\ \A c \in W \cap online :
                    IF k = "map" THEN place[c] # Home
                    ELSE playerMatch[c] # 0 /\ c \in dead[playerMatch[c]]
  <2>1. Crew' /\ UNCHANGED <<slot, status>>
    BY <1>0, <1>3, <1>4, CrewStutter DEF vars, registry, Crew, CrewTyped
  <2>2. k = "map" => NobodyInside
    BY <1>0, <1>4 DEF NobodyInside, Crew, CrewTyped, Aboard
  <2>3. NobodyInside' = NobodyInside /\ Seated' = Seated
    BY <1>4 DEF NobodyInside, Seated
  <2> QED
    BY <1>3, <1>4, <2>1, <2>2, <2>3
<1>5. CASE \E c \in W \cap online :
              /\ SetPos(c) /\ Moved(c, "out")
              /\ run' = [run EXCEPT ![1] = WarpOf(W \ {c}, "out", k)]
  <2>1. PICK c \in W \cap online :
              /\ SetPos(c) /\ Moved(c, "out")
              /\ run' = [run EXCEPT ![1] = WarpOf(W \ {c}, "out", k)]
    BY <1>5
  <2>3. /\ Crew' /\ UNCHANGED <<slot, status>>
        /\ place'[c] = "out" /\ \A d \in Char : d # c => place'[d] = place[d] /\ bg'[d] = bg[d]
        /\ bg'[c] = bg[c] \/ bg'[c] = "none"
        /\ place[c] = Home => bg'[c] = "none"
    BY <1>0, <1>3, <2>1, CrewMove, HomeAssumption
  <2>4. (NobodyInside => NobodyInside') /\ (Seated => Seated')
    BY <2>3 DEF NobodyInside, Seated
  <2>5. k = "map" => \A d \in Char : place'[d] = Home => d \in W \ {c}
    BY <2>3, HomeAssumption
  <2> QED
    BY <1>3, <2>1, <2>3, <2>4, <2>5
<1> QED
  BY <1>4, <1>5, WarpCases

\* The end of a match: bg_warp, then mapwarp.
LEMMA WarpEnding ==
    ASSUME ArenaInv, Warp, Ending PROVE Crew' /\ Ending'
<1>0. Head(run).ev = "warp"
  BY DEF Warp, Running
<1>1. \/ \E W \in SUBSET Char : run = <<BgWarp(W, "out")>> /\ (out >= 0 => NobodyInside)
      \/ \E W \in SUBSET Char : /\ run = <<WarpOf(W, "out", "map")>> /\ out >= 0
                                /\ \A c \in Char : place[c] = Home => c \in W
  <2>1. run # <<>> /\ run \notin Dying \cup Winning
    BY <1>0, QueueFacts, CallFacts DEF Warp, Running, Dying, Winning
  <2> QED
    BY <2>1 DEF Ending
<1>2. CASE \E W \in SUBSET Char : run = <<BgWarp(W, "out")>> /\ (out >= 0 => NobodyInside)
  <2>1. PICK W \in SUBSET Char : run = <<BgWarp(W, "out")>> /\ (out >= 0 => NobodyInside)
    BY <1>2
  <2>2. Head(run) = WarpOf(W, "out", "team")
    BY <2>1, QueueFacts DEF BgWarp
  <2>3. /\ Crew' /\ UNCHANGED <<slot, status, state, count, members, stale, timer, out, sleeps>>
        /\ (NobodyInside => NobodyInside') /\ (Seated => Seated')
        /\ \/ run' = Tail(run)
           \/ \E V \in SUBSET Char : run' = [run EXCEPT ![1] = WarpOf(V, "out", "team")]
    BY <2>2, WarpOut
  <2>4. run' = <<>> \/ \E V \in SUBSET Char : run' = <<BgWarp(V, "out")>>
    BY <2>1, <2>3, QueueFacts, JoinFacts DEF BgWarp
  <2>5. (out >= 0 => NobodyInside)'
    BY <2>1, <2>3
  <2> QED
    BY <2>3, <2>4, <2>5 DEF Ending, NonePending, Pending
<1>3. CASE \E W \in SUBSET Char : /\ run = <<WarpOf(W, "out", "map")>> /\ out >= 0
                                  /\ \A c \in Char : place[c] = Home => c \in W
  <2>1. PICK W \in SUBSET Char : /\ run = <<WarpOf(W, "out", "map")>> /\ out >= 0
                                 /\ \A c \in Char : place[c] = Home => c \in W
    BY <1>3
  <2>2. Head(run) = WarpOf(W, "out", "map")
    BY <2>1, QueueFacts
  <2>3. /\ Crew' /\ UNCHANGED <<slot, status, state, count, members, stale, timer, out, sleeps>>
        /\ (Seated => Seated')
        /\ \/ run' = Tail(run) /\ NobodyInside'
           \/ \E V \in SUBSET Char : /\ run' = [run EXCEPT ![1] = WarpOf(V, "out", "map")]
                                     /\ \A c \in Char : place'[c] = Home => c \in V
    BY <2>1, <2>2, WarpOut
  <2>4. \/ run' = <<>> /\ NobodyInside'
        \/ \E V \in SUBSET Char : /\ run' = <<WarpOf(V, "out", "map")>>
                                  /\ \A c \in Char : place'[c] = Home => c \in V
    BY <2>1, <2>3, QueueFacts, JoinFacts
  <2> QED
    BY <2>1, <2>3, <2>4 DEF Ending, NonePending, Pending
<1> QED
  BY <1>1, <1>2, <1>3

\* The reset: bg_warp, then mapwarp.
LEMMA WarpClearing ==
    ASSUME ArenaInv, Warp, Clearing PROVE Crew' /\ Clearing'
<1>0. Head(run).ev = "warp"
  BY DEF Warp, Running
<1>1. \/ \E W \in SUBSET Char :
            run = <<BgWarp(W, "out"), MapWarp, Call("destroy")>> /\ slot[Home] = 0
      \/ \E W \in SUBSET Char : /\ run = <<WarpOf(W, "out", "map"), Call("destroy")>>
                                /\ slot[Home] = 0 /\ \A c \in Char : place[c] = Home => c \in W
  <2>1. /\ run # <<Call("cancel"), Call("destroy")>> /\ run # <<Call("destroy")>>
        /\ \A W \in SUBSET Char :
               run # <<Call("cancel"), BgWarp(W, "out"), MapWarp, Call("destroy")>>
    BY <1>0, QueueFacts, CallFacts
  <2> QED
    BY <2>1 DEF Clearing
<1>2. CASE \E W \in SUBSET Char :
            run = <<BgWarp(W, "out"), MapWarp, Call("destroy")>> /\ slot[Home] = 0
  <2>1. PICK W \in SUBSET Char :
            run = <<BgWarp(W, "out"), MapWarp, Call("destroy")>> /\ slot[Home] = 0
    BY <1>2
  <2>2. Head(run) = WarpOf(W, "out", "team")
    BY <2>1, QueueFacts DEF BgWarp
  <2>3. /\ Crew' /\ UNCHANGED <<slot, state, timer, out, sleeps>>
        /\ \/ run' = Tail(run)
           \/ \E V \in SUBSET Char : run' = [run EXCEPT ![1] = WarpOf(V, "out", "team")]
    BY <2>2, WarpOut
  <2>4. CASE run' = Tail(run)
    <3>1. run' = <<WarpOf(Char, "out", "map"), Call("destroy")>>
      BY <2>1, <2>4, QueueFacts DEF MapWarp
    <3>2. \A c \in Char : place'[c] = Home => c \in Char
      OBVIOUS
    <3> QED
      BY <2>1, <2>3, <3>1, <3>2, CalmSame DEF Clearing
  <2>5. CASE \E V \in SUBSET Char : run' = [run EXCEPT ![1] = WarpOf(V, "out", "team")]
    <3>1. \E V \in SUBSET Char : run' = <<BgWarp(V, "out"), MapWarp, Call("destroy")>>
      BY <2>1, <2>5, JoinFacts DEF BgWarp
    <3> QED
      BY <2>1, <2>3, <3>1, CalmSame DEF Clearing
  <2> QED
    BY <2>3, <2>4, <2>5
<1>3. CASE \E W \in SUBSET Char : /\ run = <<WarpOf(W, "out", "map"), Call("destroy")>>
                                  /\ slot[Home] = 0 /\ \A c \in Char : place[c] = Home => c \in W
  <2>1. PICK W \in SUBSET Char : /\ run = <<WarpOf(W, "out", "map"), Call("destroy")>>
                                 /\ slot[Home] = 0 /\ \A c \in Char : place[c] = Home => c \in W
    BY <1>3
  <2>2. Head(run) = WarpOf(W, "out", "map")
    BY <2>1, QueueFacts
  <2>3. /\ Crew' /\ UNCHANGED <<slot, state, timer, out, sleeps>>
        /\ \/ run' = Tail(run) /\ NobodyInside'
           \/ \E V \in SUBSET Char : /\ run' = [run EXCEPT ![1] = WarpOf(V, "out", "map")]
                                     /\ \A c \in Char : place'[c] = Home => c \in V
    BY <2>1, <2>2, WarpOut
  <2>4. \/ run' = <<Call("destroy")>> /\ NobodyInside'
        \/ \E V \in SUBSET Char : /\ run' = <<WarpOf(V, "out", "map"), Call("destroy")>>
                                  /\ \A c \in Char : place'[c] = Home => c \in V
    BY <2>1, <2>3, QueueFacts, JoinFacts
  <2> QED
    BY <2>1, <2>3, <2>4, CalmSame DEF Clearing
<1> QED
  BY <1>1, <1>2, <1>3

\* maprespawnguildid of an arena that is empty already.
LEMMA WarpResetting ==
    ASSUME ArenaInv, Warp, Resetting PROVE Crew' /\ Resetting'
<1>0. Head(run).ev = "warp" /\ run # <<>>
  BY DEF Warp, Running
<1>1. PICK W \in SUBSET Char : run = <<WarpOf(W, "out", "map")>>
  <2>1. run # <<Call("cancel")>>
    BY <1>0, QueueFacts, CallFacts
  <2> QED
    BY <1>0, <2>1 DEF Resetting
<1>2. Head(run) = WarpOf(W, "out", "map") /\ \A c \in Char : place[c] = Home => c \in W
  BY <1>1, QueueFacts, HomeAssumption DEF Resetting, NobodyInside
<1>3. /\ Crew' /\ UNCHANGED <<slot, status, state, count, members, stale, timer, out, sleeps>>
      /\ (NobodyInside => NobodyInside')
      /\ \/ run' = Tail(run)
         \/ \E V \in SUBSET Char : run' = [run EXCEPT ![1] = WarpOf(V, "out", "map")]
  BY <1>2, WarpOut
<1>4. run' = <<>> \/ \E V \in SUBSET Char : run' = <<WarpOf(V, "out", "map")>>
  BY <1>1, <1>3, QueueFacts, JoinFacts
<1> QED
  BY <1>3, <1>4 DEF Resetting, NonePending, Pending, Members

\* A step of any group warp keeps the arena in its phase.
LEMMA WarpStep == ASSUME ArenaInv, Warp PROVE Crew' /\ Clock' /\ Phase'
<1>1. Starting \/ Ending \/ Clearing \/ Resetting
  BY CallPhase DEF ArenaInv, Warp, Running
<1>2. Clock'
  BY ClockSame DEF ArenaInv, Warp
<1> QED
  BY <1>1, <1>2, WarpStarting, WarpEnding, WarpClearing, WarpResetting DEF Phase

\* What a step that moves nobody, and one that leaves the registry alone, keep.
LEMMA Unmoved ==
    ASSUME UNCHANGED <<place, bg>> PROVE NobodyInside' = NobodyInside /\ Seated' = Seated
  BY DEF NobodyInside, Seated

\* A step that leaves the registry alone.
LEMMA Untouched ==
    ASSUME UNCHANGED vars
    PROVE  /\ UNCHANGED <<up, online, slot, status, playerMatch, dead, team, deserter>>
           /\ Prepared' = Prepared
  BY DEF vars, registry, Prepared

\* Whether the teams are full depends on their members only.
LEMMA SameTeams == ASSUME UNCHANGED members PROVE Full' = Full /\ Members' = Members
  BY DEF Full, Members

\* What is pending depends on the sleeping scripts only.
LEMMA SamePending ==
    ASSUME UNCHANGED sleeps PROVE Pending' = Pending /\ \A K : NonePending(K)' = NonePending(K)
  BY DEF Pending, NonePending

\* One player less of team t.
LEMMA DecrementFacts ==
    ASSUME count \in [Team -> Nat], NEW t \in Team
    PROVE  /\ Decremented(t) \in [Team -> Nat]
           /\ Decremented(t)[t] = IF count[t] > 0 THEN count[t] - 1 ELSE count[t]
           /\ \A u \in Team : u # t => Decremented(t)[u] = count[u]
  BY DEF Decremented

\* The death of a player.
LEMMA DieStep == ASSUME ArenaInv, NEW t \in Team, OnDie(t) PROVE Crew' /\ Clock' /\ Phase'
<1>1. Inv /\ Crew /\ Clock /\ Phase
  BY DEF ArenaInv
<1>2. run \in Dying /\ (Waiting \/ Playing \/ Ending)
  BY <1>1, CallPhase DEF OnDie, Running
<1>3. Tail(run) = <<>>
  <2>1. PICK u \in Team : run = <<Event("die", u)>>
    BY <1>2 DEF Dying
  <2> QED
    BY <2>1, QueueFacts
<1>4. UNCHANGED <<vars, state, members, stale, bg, place, corpse, timer, out, sleeps>>
  BY DEF OnDie
<1>5. Crew'
  <2>1. count' = count \/ count' = Decremented(t)
    BY DEF OnDie
  <2>2. count' \in [Team -> Nat]
    BY <1>1, <2>1, DecrementFacts DEF Crew, CrewTyped
  <2> QED
    BY <1>1, <1>4, <2>2, CrewStutter DEF vars, registry, Crew, CrewTyped
<1>6. Clock'
  BY <1>1, <1>4, ClockSame
<1>7. (state # 2 => run' = <<>>) /\ (run' = <<>> \/ run' \in Winning)
  <2>1. Other(t) \in Team
    BY TeamFacts
  <2>2. <<Event("win", Other(t))>> \o Tail(run) = <<Event("win", Other(t))>>
    BY <1>3, JoinFacts
  <2>3. <<Event("win", Other(t))>> \in Winning
    BY <2>1 DEF Winning
  <2> QED
    BY <1>3, <2>2, <2>3 DEF OnDie
<1>8. /\ Calm' = Calm /\ Prepared' = Prepared /\ Seated' = Seated /\ Full' = Full
      /\ slot' = slot /\ NobodyInside' = NobodyInside /\ Pending' = Pending
  BY <1>4, CalmSame, Unmoved, Untouched, SameTeams, SamePending
<1>9. ASSUME Waiting PROVE Waiting'
  <2>1. run' = <<>>
    BY <1>7, <1>9 DEF Waiting
  <2> QED
    BY <1>4, <1>8, <1>9, <2>1 DEF Waiting
<1>10. ASSUME Playing PROVE Playing'
  <2>0. run # <<>> /\ run # <<Call("begin")>> /\ run \notin Winning
    BY <1>2, QueueFacts, CallFacts DEF Dying, Winning
  <2>1. timer.at = "end" /\ ~Prepared
    BY <1>10, <2>0 DEF Playing
  <2> QED
    BY <1>4, <1>7, <1>8, <1>10, <2>1 DEF Playing
<1>11. ASSUME Ending PROVE Ending'
  <2>0. Head(run).ev = "die" /\ run # <<>>
    BY <1>2, QueueFacts, CallFacts DEF Dying
  <2>1. /\ \A W : run # <<BgWarp(W, "out")>>
        /\ \A W : run # <<WarpOf(W, "out", "map")>>
    BY <2>0, WarpHead
  <2>2. out = -1 /\ \A s \in Pending : ToClear(s) > 0
    BY <1>11, <2>0, <2>1 DEF Ending
  <2> QED
    BY <1>4, <1>7, <1>8, <1>11, <2>2 DEF Ending, NonePending
<1> QED
  BY <1>2, <1>5, <1>6, <1>9, <1>10, <1>11 DEF Phase
\* OnStop goes to sleep for the first time.
LEMMA TeardownSleeps ==
    ASSUME Clock, timer' = Stopped, out = -1, out' = out, NEW d \in Nat,
           sleeps' = sleeps (+) Sleep("stop", d), d <= WinDelay,
           \A r \in Pending : ToClear(r) > 0 /\ d = WinDelay
    PROVE  Clock' /\ Pending' = Pending \cup {Sleeper("stop", d)}
<1> DEFINE e == "stop"
<1>1. e \in Labels /\ e \in Teardown /\ e \notin Resets /\ e # "started"
  BY LabelFacts
<1>2. ToClear(Sleeper(e, d)) = d + 2 * StopDelay
  BY TimeFacts
<1> DEFINE c == ToClear(Sleeper(e, d))
<1>3. c <= OutDelay /\ OutDelay > 0 /\ (d = WinDelay => c = OutDelay) /\ c \in Nat
  BY <1>2, DelayFacts
<1>4. sleeps' = sleeps (+) Sleep(e, d)
  OBVIOUS
<1> HIDE DEF e
<1>5. \A r \in Pending : r.at \in Teardown =>
             (c = OutDelay => ToClear(r) > 0) /\ (ToClear(r) = OutDelay => c > 0)
  BY <1>3
<1>6. Clock' /\ Pending' = Pending \cup {Sleeper(e, d)}
  BY <1>1, <1>3, <1>4, <1>5, ClockStopGrow
<1> QED
  BY <1>6 DEF e

\* A match is finished.
LEMMA FinishFacts ==
    ASSUME Inv, NEW w, NEW ok, Finish(Home, w, ok)
    PROVE  slot'[Home] = 0 /\ UNCHANGED <<up, online, playerMatch, dead>>
  BY RegistryTypes, HomeAssumption DEF Finish

\* A match is cancelled.
LEMMA CancelFacts ==
    ASSUME Inv, OnMatchCancel(Home)
    PROVE  /\ slot'[Home] = 0 /\ UNCHANGED online
           /\ \A c \in Char : playerMatch'[c] # 0 /\ c \in dead'[playerMatch'[c]]
                 => playerMatch'[c] = playerMatch[c] /\ c \in dead[playerMatch[c]]
<1>1. slot[Home] \in Id
  BY RegistryTypes DEF OnMatchCancel
<1>2. slot'[Home] = 0 /\ UNCHANGED online
  BY RegistryTypes, HomeAssumption DEF OnMatchCancel
<1>3. CASE /\ dead' = [dead EXCEPT ![slot[Home]] = {}]
           /\ playerMatch' = [c \in Char |-> IF playerMatch[c] = slot[Home] THEN 0 ELSE playerMatch[c]]
  BY <1>1, <1>2, <1>3, RegistryTypes
<1>4. CASE UNCHANGED <<dead, playerMatch>>
  BY <1>2, <1>4
<1> QED
  BY <1>3, <1>4 DEF OnMatchCancel, CancelMatch

\* The end of a match.
LEMMA WinStep == ASSUME ArenaInv, NEW t \in Team, OnWin(t) PROVE Crew' /\ Clock' /\ Phase'
<1>1. Inv /\ Crew /\ Clock /\ Phase
  BY DEF ArenaInv
<1>2. run \in Winning /\ (Playing \/ Ending)
  BY <1>1, CallPhase DEF OnWin, Running
<1>3. run' = <<>>
  BY <1>2, QueueFacts DEF Winning, OnWin
<1>4. slot'[Home] = 0 /\ UNCHANGED <<online, playerMatch, dead>>
  BY <1>1, FinishFacts, Untouched DEF OnWin
<1>5. /\ UNCHANGED <<state, count, members, stale, bg, place, corpse, out>>
      /\ timer' = Stopped /\ sleeps' = sleeps (+) Sleep("stop", WinDelay)
  BY DEF OnWin
<1>6. Crew'
  BY <1>1, <1>4, <1>5, CrewStutter DEF Crew, CrewTyped
<1>7. /\ out = -1 /\ \A s \in Pending : ToClear(s) > 0
      /\ state = 2 /\ NonePending({"started"} \cup Resets) /\ Seated
  <2>1. CASE Playing
    BY <2>1 DEF Playing, NonePending
  <2>2. CASE Ending
    <3>1. Head(run).ev = "win" /\ run # <<>>
      BY <1>2, QueueFacts, CallFacts DEF Winning
    <3>2. /\ \A W : run # <<BgWarp(W, "out")>>
          /\ \A W : run # <<WarpOf(W, "out", "map")>>
      BY <3>1, WarpHead
    <3> QED
      BY <2>2, <3>1, <3>2 DEF Ending
  <2> QED
    BY <1>2, <2>1, <2>2
<1>8. Clock' /\ Pending' = Pending \cup {Sleeper("stop", WinDelay)}
  BY <1>1, <1>5, <1>7, TeardownSleeps, DelayFacts
<1>9. Ending'
  <2>1. NonePending({"started"} \cup Resets)'
    BY <1>7, <1>8, SleeperFacts, LabelFacts DEF NonePending
  <2>2. Seated' /\ timer'.at = "none" /\ Pending' # {}
    BY <1>5, <1>7, <1>8, Unmoved, StoppedFacts
  <2> QED
    BY <1>3, <1>4, <1>5, <1>7, <2>1, <2>2 DEF Ending
<1> QED
  BY <1>6, <1>8, <1>9 DEF Phase

\* OnMatchCancel, the first thing of every way to give a match up.
LEMMA CancelStep == ASSUME ArenaInv, Cancel PROVE Crew' /\ Clock' /\ Phase'
<1>1. Inv /\ Crew /\ Clock /\ Phase
  BY DEF ArenaInv
<1>2. /\ UNCHANGED <<state, count, members, stale, bg, place, corpse, timer, out, sleeps>>
      /\ run' = Tail(run)
  BY DEF Cancel
<1>3. /\ slot'[Home] = 0 /\ UNCHANGED online
      /\ \A c \in Char : playerMatch'[c] # 0 /\ c \in dead'[playerMatch'[c]]
            => playerMatch'[c] = playerMatch[c] /\ c \in dead[playerMatch[c]]
  BY <1>1, CancelFacts, Untouched DEF Cancel
<1>4. Crew'
  BY <1>1, <1>2, <1>3, CrewKept DEF Crew, CrewTyped
<1>5. Clock'
  BY <1>1, <1>2, ClockSame
<1>6. /\ Calm' = Calm /\ NobodyInside' = NobodyInside /\ Pending' = Pending /\ Members' = Members
  BY <1>2, CalmSame, Unmoved, SameTeams, SamePending
<1>7. CASE Aborting /\ run = <<Call("cancel"), Call("reset")>>
  <2>1. run' = <<Call("reset")>>
    BY <1>2, <1>7, QueueFacts
  <2>2. Aborting /\ state = 3
    BY <1>7, QueueFacts, CallFacts DEF Aborting
  <2>3. Aborting'
    BY <1>2, <1>3, <1>6, <2>1, <2>2 DEF Aborting
  <2> QED
    BY <1>4, <1>5, <2>3 DEF Phase
<1>8. CASE Clearing
  <2>0. Head(run).ev = "cancel"
    BY DEF Cancel, Running
  <2>1. \/ \E W \in SUBSET Char :
              run = <<Call("cancel"), BgWarp(W, "out"), MapWarp, Call("destroy")>>
        \/ run = <<Call("cancel"), Call("destroy")>> /\ NobodyInside
    <3>1. /\ \A W : run # <<BgWarp(W, "out"), MapWarp, Call("destroy")>>
          /\ \A W : run # <<WarpOf(W, "out", "map"), Call("destroy")>>
      BY <2>0, WarpHead
    <3>2. run # <<Call("destroy")>>
      BY <2>0, QueueFacts, CallFacts
    <3> QED
      BY <1>8, <3>1, <3>2 DEF Clearing
  <2>2. \/ \E W \in SUBSET Char : run' = <<BgWarp(W, "out"), MapWarp, Call("destroy")>>
        \/ run' = <<Call("destroy")>> /\ NobodyInside
    <3>1. ASSUME NEW W \in SUBSET Char,
                 run = <<Call("cancel"), BgWarp(W, "out"), MapWarp, Call("destroy")>>
          PROVE  run' = <<BgWarp(W, "out"), MapWarp, Call("destroy")>>
      BY <1>2, <3>1, QueueFacts
    <3>2. run = <<Call("cancel"), Call("destroy")>> => run' = <<Call("destroy")>>
      BY <1>2, QueueFacts
    <3> QED
      BY <2>1, <3>1, <3>2
  <2>3. Clearing'
    BY <1>2, <1>3, <1>6, <1>8, <2>2 DEF Clearing
  <2> QED
    BY <1>4, <1>5, <2>3 DEF Phase
<1>9. CASE Resetting /\ run = <<Call("cancel")>>
  <2>1. run' = <<>>
    BY <1>2, <1>9, QueueFacts
  <2>2. Resetting'
    BY <1>2, <1>3, <1>6, <1>9, <2>1 DEF Resetting, NonePending
  <2> QED
    BY <1>4, <1>5, <2>2 DEF Phase
<1> QED
  BY <1>1, <1>7, <1>8, <1>9, CallPhase DEF Cancel, Running
\* OnReset up to its sleep: what is left to do before the teams are destroyed.
LEMMA ResetStep == ASSUME ArenaInv, OnReset PROVE Crew' /\ Clock' /\ Phase'
<1>1. Inv /\ Crew /\ Clock /\ Phase
  BY DEF ArenaInv
<1>2. Aborting /\ run = <<Call("reset")>>
  BY <1>1, CallPhase DEF OnReset, Running
<1>3. /\ UNCHANGED <<vars, state, members, stale, bg, place, corpse, sleeps>>
      /\ timer' = Stopped /\ out' = -1 /\ count' = [t \in Team |-> 0]
  BY DEF OnReset
<1>4. Crew'
  <2>1. count' \in [Team -> Nat]
    BY <1>3
  <2> QED
    BY <1>1, <1>3, <2>1, CrewStutter DEF vars, registry, Crew, CrewTyped
<1>5. Clock'
  <2>1. out' \in -1..OutDelay /\ TimerTyped(timer') /\ timer'.at = "none" /\ sleeps' = sleeps
    BY <1>3, DelayFacts, StoppedFacts
  <2>2. ClockOK(timer, out, sleeps) /\ IsABag(sleeps')
    BY <1>1, <2>1 DEF Clock, ClockOK, SleepTyped
  <2>3. \A s \in BagToSet(sleeps') : sleeps'[s] <= sleeps[s]
    BY <2>1, <2>2 DEF IsABag, BagToSet
  <2> QED
    BY <1>3, <2>1, <2>2, <2>3, ClockShrink DEF Clock
<1>6. Calm' /\ NobodyInside' = NobodyInside
  BY <1>2, <1>3, Unmoved DEF Aborting, Calm, NonePending, Pending
<1>7. Tail(run) = <<>>
  BY <1>2, QueueFacts
<1>8. CASE state = 3
  <2>1. run' = <<Call("cancel"), BgWarp(Members \ stale, "out"), MapWarp, Call("destroy")>>
    <3> DEFINE q == <<Call("cancel"), BgWarp(Members \ stale, "out"), MapWarp, Call("destroy")>>
    <3>1. q \o <<>> = q
      BY JoinFacts
    <3> HIDE DEF q
    <3>2. run' = q \o Tail(run)
      BY <1>8 DEF OnReset, q
    <3> QED
      BY <1>7, <3>1, <3>2 DEF q
  <2>2. Members \ stale \in SUBSET Char
    BY <1>1, TeamFacts DEF Crew, CrewTyped, Members
  <2>3. \E W \in SUBSET Char :
            run' = <<Call("cancel"), BgWarp(W, "out"), MapWarp, Call("destroy")>>
    BY <2>1, <2>2
  <2>4. MapWarp' = MapWarp /\ timer'.at = "none"
    BY <1>3, StoppedFacts DEF MapWarp
  <2>5. Clearing'
    BY <1>3, <1>6, <1>8, <2>3, <2>4 DEF Clearing
  <2> QED
    BY <1>4, <1>5, <2>5 DEF Phase
<1>9. CASE state # 3
  <2>1. run' = <<Call("cancel"), Call("destroy")>>
    <3> DEFINE q == <<Call("cancel"), Call("destroy")>>
    <3>1. q \o <<>> = q
      BY JoinFacts
    <3> HIDE DEF q
    <3>2. run' = q \o Tail(run)
      BY <1>9 DEF OnReset, q
    <3> QED
      BY <1>7, <3>1, <3>2 DEF q
  <2>2. state = 2 /\ NobodyInside
    BY <1>2, <1>9 DEF Aborting
  <2>3. timer'.at = "none"
    BY <1>3, StoppedFacts
  <2>4. Clearing'
    BY <1>3, <1>6, <2>1, <2>2, <2>3 DEF Clearing
  <2> QED
    BY <1>4, <1>5, <2>4 DEF Phase
<1> QED
  BY <1>8, <1>9

\* OnReset or OnTimer25000 goes to sleep.
LEMMA ResetSleeps ==
    ASSUME Clock, timer' = Stopped \/ timer' = timer, timer'.at = "none", out' = out,
           NonePending(Resets), NEW e \in Resets, NEW d \in Nat,
           sleeps' = sleeps (+) Sleep(e, d),
           ToIdle(Sleeper(e, d)) <= 2 * ResetDelay + CancelDelay
    PROVE  Clock' /\ Pending' = Pending \cup {Sleeper(e, d)}
<1>1. e \in Labels /\ e \notin Teardown /\ e # "started"
  BY LabelFacts
<1>2. \A s \in Pending : s.at \notin Resets
  BY DEF NonePending
<1> QED
  BY <1>1, <1>2, ClockStopGrow

\* bg_destroy: the arena is empty, only the announcement is missing.
LEMMA DestroyStep == ASSUME ArenaInv, BgDestroy PROVE Crew' /\ Clock' /\ Phase'
<1>1. Inv /\ Crew /\ Clock /\ Phase
  BY DEF ArenaInv
<1>2. Clearing /\ run = <<Call("destroy")>> /\ slot[Home] = 0 /\ NobodyInside
  BY <1>1, CallPhase DEF BgDestroy, Running
<1>3. run' = <<>>
  BY <1>2, QueueFacts DEF BgDestroy
<1>4. /\ UNCHANGED <<vars, state, count, place, corpse, timer, out>>
      /\ bg' = [c \in Char |-> IF c \in Members THEN "none" ELSE bg[c]]
      /\ members' = [t \in Team |-> {}] /\ stale' = {}
      /\ sleeps' = sleeps (+) Sleep("respawn", ResetDelay)
  BY DEF BgDestroy
<1>5. UNCHANGED <<up, online, slot, status, playerMatch, dead>>
  BY <1>4, Untouched
<1>6. \A c \in Char : bg'[c] = "none"
  <2>1. \A c \in Char : bg[c] # "none" => c \in Members
    BY <1>1, TeamFacts DEF Crew, CrewTyped, Teamed, Members
  <2> QED
    BY <1>4, <2>1
<1>7. Members' = {}
  BY <1>4, TeamFacts DEF Members
<1>8. Crew'
  <2>1. bg' \in [Char -> Winner]
    BY <1>4, <1>6, TeamFacts
  <2>2. members' \in [Team -> SUBSET Char] /\ stale' \subseteq Members'
    BY <1>4
  <2>3. corpse' \subseteq InArena'
    BY <1>1, <1>4, <1>5 DEF Crew, CrewTyped, InArena
  <2>4. CrewTyped'
    BY <1>1, <1>4, <2>1, <2>2, <2>3 DEF Crew, CrewTyped
  <2>5. Aboard' /\ Tombs'
    BY <1>1, <1>4, <1>5 DEF Crew, Aboard, Tombs
  <2>6. Teamed'
    BY <1>4, <1>6, TeamFacts DEF Teamed
  <2> QED
    BY <2>4, <2>5, <2>6 DEF Crew
<1>9. Clock' /\ Pending' = Pending \cup {Sleeper("respawn", ResetDelay)}
  <2>1. "respawn" \in Resets /\ timer'.at = "none" /\ NonePending(Resets)
    BY <1>2, <1>4, LabelFacts DEF Clearing, Calm, NonePending
  <2>2. ResetDelay \in Nat /\ CancelDelay \in Nat
    BY DelayFacts
  <2>3. ToIdle(Sleeper("respawn", ResetDelay)) <= 2 * ResetDelay + CancelDelay
    BY <2>2, TimeFacts
  <2> QED
    BY <1>1, <1>4, <2>1, <2>2, <2>3, ResetSleeps
<1>10. Resetting'
  <2>1. NonePending(Teardown)'
    BY <1>2, <1>9, SleeperFacts, LabelFacts DEF Clearing, Calm, NonePending
  <2>2. (\E r \in Pending : r.at \in Resets)'
    BY <1>9, SleeperFacts, LabelFacts
  <2>3. out' = -1 /\ timer'.at = "none" /\ state' \in {2, 3}
    BY <1>2, <1>4 DEF Clearing, Calm
  <2>4. slot'[Home] = 0 /\ NobodyInside'
    BY <1>2, <1>4, <1>5 DEF NobodyInside
  <2> QED
    BY <1>3, <1>7, <2>1, <2>2, <2>3, <2>4 DEF Resetting
<1> QED
  BY <1>8, <1>9, <1>10 DEF Phase

\* OnMatchStart: the players join and the match is active.
LEMMA BeginStep == ASSUME ArenaInv, BeginMatch PROVE Crew' /\ Clock' /\ Phase'
<1>1. Inv /\ Crew /\ Clock /\ Phase
  BY DEF ArenaInv
<1>2. Playing /\ run = <<Call("begin")>> /\ Prepared
  BY <1>1, CallPhase DEF BeginMatch, Running
<1>3. run' = <<>>
  BY <1>2, QueueFacts DEF BeginMatch
<1>4. UNCHANGED <<state, count, members, stale, bg, place, corpse, timer, out, sleeps>>
  BY DEF BeginMatch
<1>5. slot[Home] # 0 /\ slot[Home] \in Id
  BY <1>1, <1>2, RegistryTypes DEF Prepared
<1>6. PICK gone \in SUBSET stale :
          JoinAndStart(Home, members["blue"] \ gone, members["red"] \ gone)
  BY <1>5 DEF BeginMatch
<1>7. UNCHANGED <<online, slot>> /\ status'[slot[Home]] = "active"
  BY <1>1, <1>2, <1>5, <1>6, RegistryTypes DEF JoinAndStart, StartMatch, Prepared
<1>8. PICK J \in SUBSET Char :
         /\ dead' = [dead EXCEPT ![slot[Home]] = @ \ J]
         /\ playerMatch' = [c \in Char |-> IF c \in J THEN slot[Home] ELSE playerMatch[c]]
  <2> DEFINE J == {c \in ((members["blue"] \ gone) \cup (members["red"] \ gone)) \cap online :
                      playerMatch[c] = 0 /\ status[slot[Home]] \in Open}
  <2>1. /\ dead' = [dead EXCEPT ![slot[Home]] = @ \ J]
        /\ playerMatch' = [c \in Char |-> IF c \in J THEN slot[Home] ELSE playerMatch[c]]
    BY <1>6 DEF JoinAndStart, AddPlayers
  <2>2. J \in SUBSET Char
    BY <1>1, RegistryTypes
  <2> QED
    BY <2>1, <2>2
<1>9. Crew'
  <2>1. \A c \in Char : playerMatch'[c] # 0 /\ c \in dead'[playerMatch'[c]]
            => playerMatch'[c] = playerMatch[c] /\ c \in dead[playerMatch[c]]
    BY <1>1, <1>5, <1>8, RegistryTypes
  <2> QED
    BY <1>1, <1>4, <1>7, <2>1, CrewKept DEF Crew, CrewTyped
<1>10. Clock'
  BY <1>1, <1>4, ClockSame
<1>11. Playing'
  <2>1. timer.at = "end"
    <3>1. run # <<>> /\ run \notin Dying /\ run \notin Winning
      BY <1>2, QueueFacts, CallFacts DEF Dying, Winning
    <3> QED
      BY <1>2, <3>1 DEF Playing
  <2>2. ~Prepared' /\ slot'[Home] # 0
    BY <1>5, <1>7 DEF Prepared
  <2>3. Pending' = Pending /\ Seated' = Seated
    BY <1>4, SamePending, Unmoved
  <2> QED
    BY <1>2, <1>3, <1>4, <2>1, <2>2, <2>3 DEF Playing
<1> QED
  BY <1>9, <1>10, <1>11 DEF Phase

\* Every call of an event leads from phase to phase.
LEMMA CallsStep == ASSUME ArenaInv, Calls PROVE Crew' /\ Clock' /\ Phase'
  BY NotReadyStep, CreateStep, StartedStep, WarpStep, CancelStep, ResetStep, DestroyStep,
     BeginStep, DieStep, WinStep DEF Calls

-----------------------------------------------------------------------------
(* The timers and the scripts that wake up.                                *)

\* Teams are finite, so their players can be counted.
LEMMA TeamCount ==
    ASSUME CrewTyped
    PROVE  /\ [t \in Team |-> Cardinality(members[t])] \in [Team -> Nat]
           /\ Members = {} => Missing
           /\ Full => ~Missing
<1>1. ASSUME NEW t \in Team
      PROVE  Cardinality(members[t]) \in Nat /\ TeamSize[t] \in Nat /\ TeamSize[t] > 0
  <2>1. members[t] \in SUBSET Char
    BY DEF CrewTyped
  <2>2. IsFiniteSet(members[t])
    BY <2>1, CharAssumption, FS_Subset
  <2> QED
    BY <2>2, FS_CardinalityType, TeamFacts
<1>2. Members = {} => Missing
  <2>1. Members = {} => Cardinality(members["blue"]) = 0
    BY FS_EmptySet DEF Members
  <2> QED
    BY <1>1, <2>1, TeamFacts DEF Missing
<1>3. Full => ~Missing
  BY <1>1 DEF Full, Missing
<1> QED
  BY <1>1, <1>2, <1>3

\* Types of what is pending.
LEMMA ClockFacts ==
    ASSUME Clock
    PROVE  /\ timer.left \in Int /\ out \in Int /\ out >= -1
           /\ IsABag(sleeps)
           /\ \A s \in Pending : /\ s \in [at : Labels, left : Nat]
                                 /\ s.at \in Labels /\ s.left \in Nat
                                 /\ ToClear(s) \in Nat /\ ToIdle(s) \in Nat
  BY TimeFacts, DelayFacts DEF Clock, ClockOK, TimerTyped, SleepTyped, Pending

\* Nothing but the label decides which scripts are pending.
LEMMA NonePendingAll ==
    ASSUME Clock, NonePending({"started"} \cup Resets), NonePending(Teardown)
    PROVE  Pending = {}
  BY ClockFacts, LabelFacts DEF NonePending

\* The timer is set or stopped.
LEMMA ClockTimer ==
    ASSUME Clock, UNCHANGED <<out, sleeps>>, TimerTyped(timer'),
           timer'.at = "begin" => \A s \in Pending : s.at = "started" => s.left < timer'.left,
           timer'.at = "check" => \A s \in Pending : s.at \in Resets => ToIdle(s) < timer'.left
    PROVE  Clock'
  BY DEF Clock, ClockOK, StartTiming, ResetTiming, Pending

\* A timer that has been set is a timer.
LEMMA SetTimer ==
    ASSUME NEW a \in {"check", "begin", "end"}, NEW d \in Nat
    PROVE  TimerTyped([at |-> a, left |-> d])
  BY DEF TimerTyped

\* The controller after OnTimer25000, which finds a team that is no longer there
\* only when an earlier start was given up.
LEMMA Timer25000Step == ASSUME ArenaInv, OnTimer25000 PROVE Crew' /\ Clock' /\ Phase'
<1>1. Inv /\ Crew /\ Clock /\ Phase /\ CrewTyped
  BY DEF ArenaInv, Crew
<1>2. run = <<>> /\ timer.at = "check" /\ timer.left = 0
  BY DEF OnTimer25000, Idle
<1>3. UNCHANGED <<vars, count, members, stale, bg, place, corpse, out>>
  BY DEF OnTimer25000
<1>4. NonePending(Resets)
  BY <1>1, <1>2, ClockFacts DEF Clock, ClockOK, ResetTiming, NonePending, Pending
<1>5. Free \/ Waiting
  <2>1. Free \/ Waiting \/ Playing \/ Ending \/ Resetting
    BY <1>1, <1>2, IdlePhase
  <2>2. ~Resetting
    BY <1>4 DEF Resetting, NonePending
  <2>3. ~Ending
    BY <1>2 DEF Ending
  <2>4. ~Playing
    BY <1>2 DEF Playing
  <2> QED
    BY <2>1, <2>2, <2>3, <2>4
<1>6. Crew'
  BY <1>1, <1>3, Untouched, CrewStutter DEF OnTimer25000, CrewTyped
<1>7. CASE Missing
  <2>1. /\ state' = 3 /\ timer' = Stopped /\ run' = <<Call("cancel")>>
        /\ sleeps' = sleeps (+) Sleep("reset", CancelDelay)
    BY <1>7 DEF OnTimer25000
  <2>2. Free
    BY <1>1, <1>5, <1>7, TeamCount DEF Waiting
  <2>3. Clock' /\ Pending' = Pending \cup {Sleeper("reset", CancelDelay)}
    <3>1. "reset" \in Resets /\ timer'.at = "none"
      BY <2>1, LabelFacts, StoppedFacts
    <3>2. CancelDelay \in Nat /\ ResetDelay \in Nat
      BY DelayFacts
    <3>3. ToIdle(Sleeper("reset", CancelDelay)) <= 2 * ResetDelay + CancelDelay
      BY <3>2, TimeFacts
    <3> QED
      BY <1>1, <1>3, <1>4, <2>1, <3>1, <3>2, <3>3, ResetSleeps
  <2>4. Resetting'
    <3>1. NonePending(Teardown)' /\ out' = -1
      BY <1>3, <2>2, <2>3, SleeperFacts, LabelFacts DEF Free, Calm, NonePending
    <3>2. (\E r \in Pending : r.at \in Resets)'
      BY <2>3, SleeperFacts, LabelFacts
    <3>3. slot'[Home] = 0 /\ Members' = {} /\ NobodyInside'
      BY <1>3, <2>2, Untouched, SameTeams, Unmoved DEF Free
    <3> QED
      BY <2>1, <3>1, <3>2, <3>3, StoppedFacts DEF Resetting
  <2> QED
    BY <1>6, <2>3, <2>4 DEF Phase
<1>8. CASE ~Missing
  <2>1. timer' = [at |-> "begin", left |-> BeginDelay] /\ UNCHANGED <<state, run, sleeps>>
    BY <1>8 DEF OnTimer25000
  <2>2. Waiting
    BY <1>1, <1>5, <1>8, TeamCount DEF Free
  <2>3. TimerTyped(timer') /\ timer'.at = "begin" /\ timer'.left = BeginDelay
    BY <2>1, SetTimer, DelayFacts
  <2>4. \A s \in Pending : s.at = "started" => s.left < BeginDelay
    BY <1>1, ClockFacts, DelayFacts DEF Clock, ClockOK, StartTiming, Pending
  <2>5. Clock'
    BY <1>1, <1>3, <2>1, <2>3, <2>4, ClockTimer
  <2>6. Calm' = Calm /\ Full' = Full /\ Prepared' = Prepared /\ Seated' = Seated
    BY <1>3, <2>1, CalmSame, SameTeams, Untouched, Unmoved
  <2>7. Waiting'
    BY <2>1, <2>2, <2>3, <2>6 DEF Waiting
  <2> QED
    BY <1>6, <2>5, <2>7 DEF Phase
<1> QED
  BY <1>7, <1>8

\* OnTimer30000 begins the match; no start of an earlier one is still pending.
LEMMA Timer30000Step == ASSUME ArenaInv, OnTimer30000 PROVE Crew' /\ Clock' /\ Phase'
<1>1. Inv /\ Crew /\ Clock /\ Phase /\ CrewTyped
  BY DEF ArenaInv, Crew
<1>2. run = <<>> /\ timer.at = "begin" /\ timer.left = 0
  BY DEF OnTimer30000, Idle
<1>3. Waiting
  <2>1. Free \/ Waiting \/ Playing \/ Ending \/ Resetting
    BY <1>1, <1>2, IdlePhase
  <2>2. ~Free /\ ~Ending /\ ~Resetting
    BY <1>2 DEF Free, Ending, Resetting
  <2>3. ~Playing
    BY <1>2 DEF Playing
  <2> QED
    BY <2>1, <2>2, <2>3
<1>4. ~Missing
  BY <1>1, <1>3, TeamCount DEF Waiting
<1>5. /\ state' = 2 /\ count' = [t \in Team |-> Cardinality(members[t])]
      /\ timer' = [at |-> "end", left |-> MatchDelay] /\ run' = <<Call("begin")>>
      /\ UNCHANGED sleeps
  BY <1>4 DEF OnTimer30000
<1>6. UNCHANGED <<vars, members, stale, bg, place, corpse, out>>
  BY DEF OnTimer30000
<1>7. Crew'
  BY <1>1, <1>5, <1>6, Untouched, CrewStutter, TeamCount
<1>8. TimerTyped(timer') /\ timer'.at = "end"
  BY <1>5, SetTimer, DelayFacts
<1>9. Clock'
  BY <1>1, <1>5, <1>6, <1>8, ClockTimer
<1>10. Playing'
  <2>1. NonePending({"started"})
    BY <1>1, <1>2, ClockFacts DEF Clock, ClockOK, StartTiming, NonePending, Pending
  <2>2. Pending = {}
    BY <1>1, <1>3, <2>1, ClockFacts, LabelFacts DEF Waiting, Calm, NonePending
  <2>3. Prepared' /\ Seated' /\ slot'[Home] # 0 /\ Pending' = {} /\ out' = -1
    BY <1>3, <1>5, <1>6, <2>2, Untouched, Unmoved, SamePending DEF Waiting, Prepared, Calm
  <2> QED
    BY <1>5, <1>8, <2>3 DEF Playing
<1> QED
  BY <1>7, <1>9, <1>10 DEF Phase

\* OnTimer450000: time is up.
LEMMA Timer450000Step == ASSUME ArenaInv, OnTimer450000 PROVE Crew' /\ Clock' /\ Phase'
<1>1. Inv /\ Crew /\ Clock /\ Phase /\ CrewTyped
  BY DEF ArenaInv, Crew
<1>2. run = <<>> /\ timer.at = "end"
  BY DEF OnTimer450000, Idle
<1>3. Playing /\ ~Prepared
  <2>1. Free \/ Waiting \/ Playing \/ Ending \/ Resetting
    BY <1>1, <1>2, IdlePhase
  <2>2. ~Free /\ ~Ending /\ ~Resetting /\ ~Waiting
    BY <1>2 DEF Free, Ending, Resetting, Waiting
  <2>3. run # <<Call("begin")>>
    BY <1>2, QueueFacts
  <2> QED
    BY <2>1, <2>2, <2>3 DEF Playing
<1>4. /\ UNCHANGED <<state, count, members, stale, bg, place, corpse, out>>
      /\ timer' = Stopped
  BY DEF OnTimer450000
<1>5. CASE /\ \E t \in Team : count[t] > count[Other(t)] /\ run' = <<Event("win", t)>>
           /\ UNCHANGED <<vars, sleeps>>
  <2>1. Crew'
    BY <1>1, <1>4, <1>5, Untouched, CrewStutter DEF CrewTyped
  <2>2. Clock'
    BY <1>1, <1>4, <1>5, StoppedFacts, ClockTimer
  <2>3. run' \in Winning /\ timer'.at = "none"
    BY <1>4, <1>5, StoppedFacts DEF Winning
  <2>4. Prepared' = Prepared /\ Seated' = Seated /\ slot' = slot /\ Pending' = Pending
    BY <1>4, <1>5, Untouched, Unmoved, SamePending
  <2>5. Playing'
    BY <1>3, <1>4, <2>3, <2>4 DEF Playing
  <2> QED
    BY <2>1, <2>2, <2>5 DEF Phase
<1>6. CASE /\ IF slot[Home] # 0 THEN Finish(Home, "none", TRUE) ELSE UNCHANGED vars
           /\ sleeps' = sleeps (+) Sleep("stop", DrawDelay) /\ UNCHANGED run
  <2>1. slot'[Home] = 0 /\ UNCHANGED <<online, playerMatch, dead>>
    BY <1>1, <1>6, FinishFacts, Untouched
  <2>2. Crew'
    BY <1>1, <1>4, <2>1, CrewStutter DEF CrewTyped
  <2>3. Pending = {} /\ out = -1
    BY <1>3 DEF Playing
  <2>4. Clock' /\ Pending' = Pending \cup {Sleeper("stop", DrawDelay)}
    BY <1>1, <1>4, <1>6, <2>3, TeardownSleeps, DelayFacts
  <2>5. NonePending({"started"} \cup Resets)'
    BY <2>3, <2>4, SleeperFacts, LabelFacts DEF NonePending
  <2>6. Seated' /\ timer'.at = "none" /\ Pending' # {} /\ run' = <<>> /\ out' = -1 /\ state' = 2
    BY <1>2, <1>3, <1>4, <1>6, <2>3, <2>4, Unmoved, StoppedFacts DEF Playing
  <2>7. Ending'
    BY <2>1, <2>5, <2>6 DEF Ending
  <2> QED
    BY <2>2, <2>4, <2>7 DEF Phase
<1> QED
  BY <1>5, <1>6 DEF OnTimer450000

\* KvM80_BG_Out resets the arena after the last teardown is over.
LEMMA OutStep == ASSUME ArenaInv, OnOut PROVE Crew' /\ Clock' /\ Phase'
<1>1. Inv /\ Crew /\ Clock /\ Phase /\ CrewTyped
  BY DEF ArenaInv, Crew
<1>2. run = <<>> /\ out = 0
  BY DEF OnOut, Idle
<1>3. /\ UNCHANGED <<vars, state, count, members, stale, bg, place, corpse, timer, sleeps>>
      /\ out' = -1 /\ run' = <<Call("reset")>>
  BY DEF OnOut
<1>4. Ending
  <2>1. Free \/ Waiting \/ Playing \/ Ending \/ Resetting
    BY <1>1, <1>2, IdlePhase
  <2> QED
    BY <1>2, <2>1 DEF Free, Waiting, Playing, Resetting, Calm
<1>5. NobodyInside
  <2>1. /\ \A W : run # <<BgWarp(W, "out")>>
        /\ \A W : run # <<WarpOf(W, "out", "map")>>
    BY <1>2, QueueFacts
  <2> QED
    BY <1>2, <1>4, <2>1 DEF Ending
<1>6. Calm'
  <2>1. NonePending(Teardown)
    BY <1>1, <1>2, ClockFacts DEF Clock, ClockOK, TeardownTiming, NonePending, Pending
  <2> QED
    BY <1>3, <1>4, <2>1 DEF Ending, Calm, NonePending, Pending
<1>7. Crew'
  BY <1>1, <1>3, Untouched, CrewStutter DEF CrewTyped
<1>8. Clock'
  <2>1. out' \in -1..OutDelay
    BY <1>3, DelayFacts
  <2> QED
    BY <1>1, <1>3, <2>1 DEF Clock, ClockOK, TeardownTiming
<1>9. Aborting'
  BY <1>3, <1>4, <1>5, <1>6, Untouched, Unmoved DEF Aborting, Ending
<1> QED
  BY <1>7, <1>8, <1>9 DEF Phase

\* A script that is due wakes up.
LEMMA AwakeFacts ==
    ASSUME Clock, NEW e \in Labels, Due(e)
    PROVE  /\ Sleeper(e, 0) \in Pending
           /\ ClockOK(timer, out, Awake(e))
           /\ BagToSet(Awake(e)) \subseteq Pending
           /\ Pending \ {Sleeper(e, 0)} \subseteq BagToSet(Awake(e))
           /\ e \in Resets => \A s \in BagToSet(Awake(e)) : s.at \notin Resets
<1>1. Sleeper(e, 0) \in Pending
  BY DEF Due, BagIn, Sleeper, Pending
<1>2. /\ IsABag(Awake(e)) /\ BagToSet(Awake(e)) \subseteq BagToSet(sleeps)
      /\ BagToSet(sleeps) \ {Sleeper(e, 0)} \subseteq BagToSet(Awake(e))
      /\ \A s \in BagToSet(Awake(e)) : Awake(e)[s] <= sleeps[s]
      /\ Sleeper(e, 0) \in BagToSet(sleeps) /\ sleeps[Sleeper(e, 0)] = 1
            => Sleeper(e, 0) \notin BagToSet(Awake(e))
  BY ClockFacts, BagMinus DEF Awake
<1>3. ClockOK(timer, out, sleeps)
  BY DEF Clock
<1>4. /\ TimerTyped(timer) /\ out \in -1..OutDelay
      /\ StartTiming(timer, sleeps) /\ ResetTiming(timer, sleeps)
      /\ TeardownTiming(out, sleeps) /\ OneReset(sleeps)
  BY <1>3 DEF ClockOK
<1>5. ClockOK(timer, out, Awake(e))
  <2>1. timer.at = "begin" => \A s \in BagToSet(Awake(e)) : s.at = "started" => s.left < timer.left
    BY <1>2, <1>4 DEF StartTiming
  <2>2. timer.at = "check" => \A s \in BagToSet(Awake(e)) : s.at \in Resets => ToIdle(s) < timer.left
    BY <1>2, <1>4 DEF ResetTiming
  <2>3. out >= 0 => \A s \in BagToSet(Awake(e)) : s.at \in Teardown => ToClear(s) < out
    BY <1>2, <1>4 DEF TeardownTiming
  <2> QED
    BY <1>2, <1>3, <1>4, <2>1, <2>2, <2>3, ClockShrink
<1>6. e \in Resets => \A s \in BagToSet(Awake(e)) : s.at \notin Resets
  <2>1. SUFFICES ASSUME e \in Resets, NEW s \in BagToSet(Awake(e)), s.at \in Resets PROVE FALSE
    OBVIOUS
  <2>2. Sleeper(e, 0) \in BagToSet(sleeps) /\ Sleeper(e, 0).at \in Resets /\ s \in BagToSet(sleeps)
    BY <1>1, <1>2, <2>1, SleeperFacts DEF Pending
  <2>3. sleeps[Sleeper(e, 0)] = 1 /\ s = Sleeper(e, 0)
    BY <1>4, <2>1, <2>2 DEF OneReset
  <2> QED
    BY <1>2, <2>2, <2>3
<1> QED
  BY <1>1, <1>2, <1>5, <1>6 DEF Pending

\* A step of OnStop: the script wakes up and sleeps again, and the arena will be
\* cleared no later than it would have been.
LEMMA NextSleep ==
    ASSUME Clock, NEW e \in Teardown, Due(e), NEW f \in Teardown, NEW d \in Nat,
           UNCHANGED <<timer, out>>, sleeps' = Awake(e) (+) Sleep(f, d),
           ToClear(Sleeper(f, d)) = ToClear(Sleeper(e, 0))
    PROVE  /\ Clock' /\ Pending' # {}
           /\ NonePending({"started"} \cup Resets) => NonePending({"started"} \cup Resets)'
<1>0. e \in Labels /\ f \in Labels /\ f \notin Resets /\ f # "started"
  BY LabelFacts
<1>1. /\ Sleeper(e, 0) \in Pending /\ ClockOK(timer, out, Awake(e))
      /\ BagToSet(Awake(e)) \subseteq Pending
  BY <1>0, AwakeFacts
<1>2. TeardownTiming(out, sleeps)
  BY DEF Clock, ClockOK
<1>3. Sleeper(e, 0) \in BagToSet(sleeps) /\ Sleeper(e, 0).at \in Teardown
  BY <1>1, SleeperFacts DEF Pending
<1> DEFINE c == ToClear(Sleeper(f, d))
<1>4. /\ c <= OutDelay /\ (out >= 0 => c < out)
      /\ \A r \in BagToSet(Awake(e)) : r.at \in Teardown =>
            (c = OutDelay => ToClear(r) > 0) /\ (ToClear(r) = OutDelay => c > 0)
  BY <1>1, <1>2, <1>3 DEF TeardownTiming, Pending
<1>5. ClockOK(timer, out, Awake(e) (+) Sleep(f, d))
  BY <1>0, <1>1, <1>4, ClockGrow
<1>6. Clock'
  BY <1>5 DEF Clock
<1>7. Pending' = BagToSet(Awake(e)) \cup {Sleeper(f, d)}
  BY <1>1, BagPlus DEF ClockOK, SleepTyped, Pending
<1>8. NonePending({"started"} \cup Resets) => NonePending({"started"} \cup Resets)'
  BY <1>0, <1>1, <1>7, SleeperFacts DEF NonePending
<1> QED
  BY <1>6, <1>7, <1>8

\* Whoever wakes up tells the phase.
LEMMA DuePhase ==
    ASSUME ArenaInv, run = <<>>, NEW e \in Labels, Due(e)
    PROVE  /\ e = "started" => Free \/ Waiting \/ Resetting
           /\ e \in Teardown => Ending
           /\ e \in Resets => Resetting
<1>1. Clock /\ Phase
  BY DEF ArenaInv
<1>2. Sleeper(e, 0) \in Pending /\ Sleeper(e, 0).at = e
  BY <1>1, AwakeFacts, SleeperFacts
<1>3. \A K : NonePending(K) => e \notin K
  BY <1>2 DEF NonePending
<1>4. Free \/ Waiting \/ Playing \/ Ending \/ Resetting
  BY <1>1, IdlePhase
<1>5. ~Playing
  BY <1>2 DEF Playing
<1>6. (Free => e = "started") /\ (Waiting => e = "started")
  BY <1>3, LabelFacts DEF Free, Waiting, Calm
<1>7. Ending => e \in Teardown
  BY <1>3, LabelFacts DEF Ending
<1>8. Resetting => e \notin Teardown
  BY <1>3 DEF Resetting
<1> QED
  BY <1>4, <1>5, <1>6, <1>7, <1>8, LabelFacts

\* The end of OnStart, perhaps of a start that was given up.
LEMMA WakeStartedStep == ASSUME ArenaInv, WakeStarted PROVE Crew' /\ Clock' /\ Phase'
<1>1. Inv /\ Crew /\ Clock /\ Phase /\ CrewTyped
  BY DEF ArenaInv, Crew
<1>2. run = <<>> /\ "started" \in Labels /\ Due("started")
  BY LabelFacts DEF WakeStarted, Idle
<1>3. /\ sleeps' = Awake("started") /\ timer' = [at |-> "check", left |-> CheckDelay]
      /\ count' = [t \in Team |-> Cardinality(members[t])]
      /\ UNCHANGED <<vars, state, members, stale, bg, place, corpse, out, run>>
  BY DEF WakeStarted
<1>4. Free \/ Waiting \/ Resetting
  BY <1>2, DuePhase
<1>5. Crew'
  BY <1>1, <1>3, Untouched, CrewStutter, TeamCount DEF CrewTyped
<1>6. /\ ClockOK(timer, out, sleeps') /\ Pending' \subseteq Pending
      /\ Pending \ {Sleeper("started", 0)} \subseteq Pending'
  BY <1>1, <1>2, <1>3, AwakeFacts DEF Pending
<1>7. TimerTyped(timer') /\ timer'.at = "check" /\ timer'.left = CheckDelay
  BY <1>3, SetTimer, DelayFacts
<1>8. Clock'
  <2>1. \A s \in BagToSet(sleeps') : s.at \in Resets => ToIdle(s) < CheckDelay
    <3>1. \A s \in BagToSet(sleeps') : s \in Pending
      BY <1>6 DEF Pending
    <3>2. \A s \in Pending : s.at \in Resets => ToIdle(s) <= 2 * ResetDelay + CancelDelay
      BY <1>1 DEF Clock, ClockOK, ResetTiming, Pending
    <3> QED
      BY <1>1, <3>1, <3>2, ClockFacts, DelayFacts
  <2>2. ClockOK(timer', out, sleeps')
    BY <1>6, <1>7, <2>1 DEF ClockOK, StartTiming, ResetTiming
  <2> QED
    BY <1>3, <2>2 DEF Clock
<1>9. /\ slot' = slot /\ Members' = Members /\ NobodyInside' = NobodyInside /\ Full' = Full
      /\ Prepared' = Prepared /\ Seated' = Seated
  BY <1>3, Untouched, SameTeams, Unmoved
<1>10. Calm => Calm'
  BY <1>3, <1>6 DEF Calm, NonePending
<1>11. Free => Free'
  BY <1>3, <1>7, <1>9, <1>10 DEF Free
<1>12. Waiting => Waiting'
  BY <1>3, <1>7, <1>9, <1>10 DEF Waiting
<1>13. Resetting => Resetting'
  <2>1. SUFFICES ASSUME Resetting PROVE Resetting'
    OBVIOUS
  <2>2. NonePending(Teardown)'
    BY <1>6, <2>1 DEF Resetting, NonePending
  <2>3. (\E r \in Pending : r.at \in Resets)'
    BY <1>6, <2>1, SleeperFacts, LabelFacts DEF Resetting
  <2>4. run = <<>> /\ run' = <<>>
    BY <1>2, <1>3
  <2> QED
    BY <1>3, <1>7, <1>9, <2>1, <2>2, <2>3, <2>4 DEF Resetting
<1> QED
  BY <1>4, <1>5, <1>8, <1>11, <1>12, <1>13 DEF Phase

\* In the phase after a match an idle controller with KvM80_BG_Out running has
\* an empty arena.
LEMMA EndingIdle == ASSUME Ending, run = <<>> PROVE out >= 0 => NobodyInside
<1>1. /\ run \notin Dying \cup Winning
      /\ \A W : run # <<BgWarp(W, "out")>> /\ run # <<WarpOf(W, "out", "map")>>
  BY QueueFacts DEF Dying, Winning
<1> QED
  BY <1>1 DEF Ending

\* OnStop sleeps between its steps.  The match is over: nobody is restored.
LEMMA WakeStopStep == ASSUME ArenaInv, WakeStop PROVE Crew' /\ Clock' /\ Phase' /\ UNCHANGED vars
<1>1. Inv /\ Crew /\ Clock /\ Phase /\ CrewTyped
  BY DEF ArenaInv, Crew
<1>2. run = <<>> /\ "stop" \in Labels /\ "stop" \in Teardown /\ "warp" \in Teardown /\ Due("stop")
  BY LabelFacts DEF WakeStop, Idle
<1>3. Ending
  BY <1>2, DuePhase
<1>4. UNCHANGED vars
  BY <1>3 DEF WakeStop, Ending
<1>5. /\ sleeps' = Awake("stop") (+) Sleep("warp", StopDelay)
      /\ UNCHANGED <<state, count, members, stale, bg, place, corpse, timer, out, run>>
  BY DEF WakeStop
<1>6. Crew'
  BY <1>1, <1>4, <1>5, Untouched, CrewStutter DEF CrewTyped
<1>7. StopDelay \in Nat /\ ToClear(Sleeper("warp", StopDelay)) = ToClear(Sleeper("stop", 0))
  BY DelayFacts, TimeFacts
<1>8. /\ Clock' /\ Pending' # {}
      /\ NonePending({"started"} \cup Resets) => NonePending({"started"} \cup Resets)'
  BY <1>1, <1>2, <1>5, <1>7, NextSleep
<1>9. Ending'
  BY <1>2, <1>3, <1>4, <1>5, <1>8, Untouched, Unmoved, EndingIdle DEF Ending
<1> QED
  BY <1>4, <1>6, <1>8, <1>9 DEF Phase

\* The controller after a teardown wakes up and warps the teams out.
LEMMA WakeWarpStep == ASSUME ArenaInv, WakeWarp PROVE Crew' /\ Clock' /\ Phase'
<1>1. Inv /\ Crew /\ Clock /\ Phase /\ CrewTyped
  BY DEF ArenaInv, Crew
<1>2. run = <<>> /\ "warp" \in Labels /\ "warp" \in Teardown /\ "clear" \in Teardown /\ Due("warp")
  BY LabelFacts DEF WakeWarp, Idle
<1>3. Ending /\ (out >= 0 => NobodyInside)
  BY <1>2, DuePhase, EndingIdle
<1>5. /\ sleeps' = Awake("warp") (+) Sleep("clear", StopDelay)
      /\ run' = <<BgWarp(Members \ stale, "out")>>
      /\ UNCHANGED <<vars, state, count, members, stale, bg, place, corpse, timer, out>>
  BY DEF WakeWarp
<1>6. Crew'
  BY <1>1, <1>5, Untouched, CrewStutter DEF CrewTyped
<1>7. StopDelay \in Nat /\ ToClear(Sleeper("clear", StopDelay)) = ToClear(Sleeper("warp", 0))
  BY DelayFacts, TimeFacts
<1>8. /\ Clock' /\ Pending' # {}
      /\ NonePending({"started"} \cup Resets) => NonePending({"started"} \cup Resets)'
  BY <1>1, <1>2, <1>5, <1>7, NextSleep
<1>9. Ending'
  <2>1. Members \ stale \in SUBSET Char
    BY <1>1, TeamFacts DEF CrewTyped, Members
  <2>2. \E W \in SUBSET Char : run' = <<BgWarp(W, "out")>>
    BY <1>5, <2>1
  <2>3. slot' = slot /\ Seated' = Seated /\ NobodyInside' = NobodyInside
    BY <1>5, Untouched, Unmoved
  <2> QED
    BY <1>3, <1>5, <1>8, <2>2, <2>3 DEF Ending
<1> QED
  BY <1>6, <1>8, <1>9 DEF Phase

\* The end of OnStop: of the teardowns of the match none was begun so late that
\* KvM80_BG_Out, started here, would not wait for it.
LEMMA WakeClearStep == ASSUME ArenaInv, WakeClear PROVE Crew' /\ Clock' /\ Phase'
<1>1. Inv /\ Crew /\ Clock /\ Phase /\ CrewTyped
  BY DEF ArenaInv, Crew
<1>2. run = <<>> /\ "clear" \in Labels /\ "clear" \in Teardown /\ Due("clear")
  BY LabelFacts DEF WakeClear, Idle
<1>3. Ending
  BY <1>2, DuePhase
<1>4. /\ sleeps' = Awake("clear") /\ run' = <<MapWarp>> /\ out' = OutDelay
      /\ UNCHANGED <<vars, state, count, members, stale, bg, place, corpse, timer>>
  BY DEF WakeClear
<1>5. Crew'
  BY <1>1, <1>4, Untouched, CrewStutter DEF CrewTyped
<1>6. /\ ClockOK(timer, out, sleeps') /\ BagToSet(sleeps') \subseteq BagToSet(sleeps)
      /\ Sleeper("clear", 0) \in BagToSet(sleeps)
  BY <1>1, <1>2, <1>4, AwakeFacts DEF Pending
<1>7. OutDelay \in Nat /\ OutDelay > 0
  BY DelayFacts
<1>8. Clock'
  <2>1. Sleeper("clear", 0).at \in Teardown /\ ToClear(Sleeper("clear", 0)) = 0
    BY <1>2, SleeperFacts, TimeFacts
  <2>2. \A s \in BagToSet(sleeps) : s.at \in Teardown =>
            ToClear(s) \in Nat /\ ToClear(s) <= OutDelay /\ ToClear(s) # OutDelay
    BY <1>1, <1>6, <2>1, ClockFacts DEF Clock, ClockOK, TeardownTiming, Pending
  <2>3. \A s \in BagToSet(sleeps') : s.at \in Teardown => ToClear(s) < OutDelay
    BY <1>6, <1>7, <2>2
  <2>4. TeardownTiming(OutDelay, sleeps')
    BY <1>6, <2>3 DEF ClockOK, TeardownTiming
  <2>5. ClockOK(timer, OutDelay, sleeps')
    BY <1>6, <1>7, <2>4 DEF ClockOK
  <2> QED
    BY <1>4, <2>5 DEF Clock
<1>9. Ending'
  <2>1. NonePending({"started"} \cup Resets)'
    BY <1>3, <1>6 DEF Ending, NonePending, Pending
  <2>2. \E W \in SUBSET Char : /\ run' = <<WarpOf(W, "out", "map")>>
                               /\ \A c \in Char : place'[c] = Home => c \in W
    BY <1>4 DEF MapWarp
  <2>3. slot' = slot /\ Seated' = Seated /\ out' >= 0
    BY <1>4, <1>7, Untouched, Unmoved
  <2> QED
    BY <1>3, <1>4, <2>1, <2>2, <2>3 DEF Ending
<1> QED
  BY <1>5, <1>8, <1>9 DEF Phase

\* OnTimer25000 after its sleep.
LEMMA WakeResetStep == ASSUME ArenaInv, WakeReset PROVE Crew' /\ Clock' /\ Phase'
<1>1. Inv /\ Crew /\ Clock /\ Phase /\ CrewTyped
  BY DEF ArenaInv, Crew
<1>2. run = <<>> /\ "reset" \in Labels /\ "reset" \in Resets /\ Due("reset")
  BY LabelFacts DEF WakeReset, Idle
<1>3. Resetting
  BY <1>2, DuePhase
<1>4. /\ sleeps' = Awake("reset") /\ run' = <<Call("reset")>>
      /\ UNCHANGED <<vars, state, count, members, stale, bg, place, corpse, timer, out>>
  BY DEF WakeReset
<1>5. Crew'
  BY <1>1, <1>4, Untouched, CrewStutter DEF CrewTyped
<1>6. /\ ClockOK(timer, out, sleeps') /\ Pending' \subseteq Pending
      /\ \A s \in Pending' : s.at \notin Resets
  BY <1>1, <1>2, <1>4, AwakeFacts DEF Pending
<1>7. Clock'
  BY <1>4, <1>6 DEF Clock
<1>8. Aborting'
  <2>1. Calm'
    BY <1>3, <1>4, <1>6 DEF Resetting, Calm, NonePending
  <2>2. slot' = slot /\ NobodyInside' = NobodyInside
    BY <1>4, Untouched, Unmoved
  <2> QED
    BY <1>3, <1>4, <2>1, <2>2 DEF Aborting, Resetting
<1> QED
  BY <1>5, <1>7, <1>8 DEF Phase

\* OnReset: maprespawnguildid, and the second sleep.
LEMMA WakeRespawnStep == ASSUME ArenaInv, WakeRespawn PROVE Crew' /\ Clock' /\ Phase'
<1>1. Inv /\ Crew /\ Clock /\ Phase /\ CrewTyped
  BY DEF ArenaInv, Crew
<1>2. /\ run = <<>> /\ "respawn" \in Labels /\ "respawn" \in Resets /\ Due("respawn")
      /\ "idle" \in Labels /\ "idle" \in Resets /\ "idle" \notin Teardown /\ "idle" # "started"
  BY LabelFacts DEF WakeRespawn, Idle
<1>3. Resetting
  BY <1>2, DuePhase
<1>4. /\ sleeps' = Awake("respawn") (+) Sleep("idle", ResetDelay) /\ run' = <<MapWarp>>
      /\ UNCHANGED <<vars, state, count, members, stale, bg, place, corpse, timer, out>>
  BY DEF WakeRespawn
<1>5. Crew'
  BY <1>1, <1>4, Untouched, CrewStutter DEF CrewTyped
<1>6. /\ ClockOK(timer, out, Awake("respawn")) /\ BagToSet(Awake("respawn")) \subseteq Pending
      /\ \A s \in BagToSet(Awake("respawn")) : s.at \notin Resets
      /\ Sleeper("respawn", 0) \in Pending
  BY <1>1, <1>2, AwakeFacts
<1>7. /\ ToIdle(Sleeper("idle", ResetDelay)) <= 2 * ResetDelay + CancelDelay
      /\ timer.at = "check" => ToIdle(Sleeper("idle", ResetDelay)) < timer.left
  <2>1. ToIdle(Sleeper("respawn", 0)) = ResetDelay /\ ToIdle(Sleeper("idle", ResetDelay)) = ResetDelay
    BY DelayFacts, TimeFacts
  <2>2. timer.at = "check" => ToIdle(Sleeper("respawn", 0)) < timer.left
    BY <1>1, <1>2, <1>6, SleeperFacts DEF Clock, ClockOK, ResetTiming, Pending
  <2> QED
    BY <2>1, <2>2, DelayFacts
<1>8. Clock'
  <2>1. ClockOK(timer, out, Awake("respawn") (+) Sleep("idle", ResetDelay))
    BY <1>2, <1>6, <1>7, ClockGrow, DelayFacts
  <2> QED
    BY <1>4, <2>1 DEF Clock
<1>9. Pending' = BagToSet(Awake("respawn")) \cup {Sleeper("idle", ResetDelay)}
  BY <1>4, <1>6, BagPlus DEF ClockOK, SleepTyped, Pending
<1>10. Resetting'
  <2>1. NonePending(Teardown)'
    BY <1>2, <1>3, <1>6, <1>9, SleeperFacts DEF Resetting, NonePending
  <2>2. (\E r \in Pending : r.at \in Resets)'
    BY <1>2, <1>9, SleeperFacts
  <2>3. slot' = slot /\ NobodyInside' = NobodyInside /\ Members' = Members
    BY <1>4, Untouched, Unmoved, SameTeams
  <2>4. \E W \in SUBSET Char : run' = <<WarpOf(W, "out", "map")>>
    BY <1>4 DEF MapWarp
  <2> QED
    BY <1>3, <1>4, <2>1, <2>2, <2>3, <2>4 DEF Resetting
<1> QED
  BY <1>5, <1>8, <1>10 DEF Phase

\* The end of OnReset: the arena is announced free.
LEMMA WakeIdleStep == ASSUME ArenaInv, WakeIdle PROVE Crew' /\ Clock' /\ Phase'
<1>1. Inv /\ Crew /\ Clock /\ Phase /\ CrewTyped
  BY DEF ArenaInv, Crew
<1>2. run = <<>> /\ "idle" \in Labels /\ "idle" \in Resets /\ Due("idle")
  BY LabelFacts DEF WakeIdle, Idle
<1>3. Resetting
  BY <1>2, DuePhase
<1>4. /\ sleeps' = Awake("idle") /\ run' = <<Call("ready")>> /\ state' = 0
      /\ UNCHANGED <<vars, count, members, stale, bg, place, corpse, timer, out>>
  BY DEF WakeIdle
<1>5. Crew'
  BY <1>1, <1>4, Untouched, CrewStutter DEF CrewTyped
<1>6. /\ ClockOK(timer, out, sleeps') /\ Pending' \subseteq Pending
      /\ \A s \in Pending' : s.at \notin Resets
  BY <1>1, <1>2, <1>4, AwakeFacts DEF Pending
<1>7. Clock'
  BY <1>4, <1>6 DEF Clock
<1>8. Free'
  <2>1. Calm'
    BY <1>3, <1>4, <1>6 DEF Resetting, Calm, NonePending
  <2>2. slot' = slot /\ NobodyInside' = NobodyInside /\ Members' = Members
    BY <1>4, Untouched, Unmoved, SameTeams
  <2> QED
    BY <1>3, <1>4, <2>1, <2>2 DEF Free, Resetting
<1> QED
  BY <1>5, <1>7, <1>8 DEF Phase

\* Time passes.
LEMMA TickStep == ASSUME ArenaInv, Tick PROVE Crew' /\ Clock' /\ Phase'
<1>1. Inv /\ Crew /\ Clock /\ Phase /\ CrewTyped
  BY DEF ArenaInv, Crew
<1>2. /\ run = <<>> /\ UNCHANGED <<vars, state, count, members, stale, bg, place, corpse, run>>
      /\ out # 0
  BY DEF Tick, Idle, NothingDue
<1>3. Crew'
  BY <1>1, <1>2, Untouched, CrewStutter DEF CrewTyped
<1>4. Clock'
  BY <1>1, ClockTick
<1>5. /\ \A s \in Pending' : \E w \in Pending : w.at = s.at
      /\ \A w \in Pending : \E s \in Pending' : s.at = w.at
  <2>1. SleepTyped(sleeps)
    BY <1>1 DEF Clock, ClockOK
  <2> QED
    BY <2>1, TickSleeps, SleeperFacts DEF Pending
<1>6. timer'.at = timer.at /\ (out = -1 => out' = -1) /\ (out >= 0 <=> out' >= 0)
  <2>1. timer'.at = timer.at
    BY <1>1 DEF Tick, Clock, ClockOK, TimerTyped
  <2>2. (out = -1 => out' = -1) /\ (out >= 0 <=> out' >= 0)
    BY <1>1, <1>2, ClockFacts DEF Tick
  <2> QED
    BY <2>1, <2>2
<1>7. /\ slot' = slot /\ Members' = Members /\ NobodyInside' = NobodyInside /\ Full' = Full
      /\ Prepared' = Prepared /\ Seated' = Seated
  BY <1>2, Untouched, SameTeams, Unmoved
<1>8. /\ Calm => Calm'
      /\ NonePending(Teardown) => NonePending(Teardown)'
      /\ NonePending({"started"} \cup Resets) => NonePending({"started"} \cup Resets)'
  BY <1>5, <1>6 DEF Calm, NonePending
<1>9. Free => Free'
  BY <1>2, <1>6, <1>7, <1>8 DEF Free
<1>10. Waiting => Waiting'
  BY <1>2, <1>5, <1>6, <1>7, <1>8 DEF Waiting
<1>11. Playing => Playing'
  BY <1>2, <1>5, <1>6, <1>7 DEF Playing
<1>12. Ending => Ending'
  <2>1. SUFFICES ASSUME Ending PROVE Ending'
    OBVIOUS
  <2>2. out' >= 0 \/ Pending' # {}
    BY <1>5, <1>6, <2>1 DEF Ending
  <2>3. run' = <<>> /\ (out' >= 0 => NobodyInside')
    BY <1>2, <1>6, <1>7, <2>1, EndingIdle
  <2> QED
    BY <1>2, <1>6, <1>7, <1>8, <2>1, <2>2, <2>3 DEF Ending
<1>13. Resetting => Resetting'
  <2>1. SUFFICES ASSUME Resetting PROVE Resetting'
    OBVIOUS
  <2>2. (\E r \in Pending : r.at \in Resets)'
    BY <1>5, <2>1 DEF Resetting
  <2> QED
    BY <1>2, <1>6, <1>7, <1>8, <2>1, <2>2 DEF Resetting
<1> QED
  BY <1>1, <1>2, <1>3, <1>4, <1>9, <1>10, <1>11, <1>12, <1>13, IdlePhase DEF Phase

\* Every timer that fires keeps the arena in its phase.
LEMMA TimersStep == ASSUME ArenaInv, Timers PROVE Crew' /\ Clock' /\ Phase'
  BY Timer25000Step, Timer30000Step, Timer450000Step, OutStep, WakeStartedStep, WakeStopStep,
     WakeWarpStep, WakeClearStep, WakeResetStep, WakeRespawnStep, WakeIdleStep, TickStep DEF Timers

-----------------------------------------------------------------------------
(* The players, when the server listens to them.                           *)

\* Nothing but a player's own state changes.
LEMMA IdleKept ==
    ASSUME Phase, run = <<>>, run' = <<>>,
           UNCHANGED <<state, members, timer, out, sleeps, slot, status>>,
           NobodyInside => NobodyInside', Seated => Seated'
    PROVE  Phase'
<1>1. Pending' = Pending /\ Calm' = Calm /\ Full' = Full /\ Members' = Members /\ Prepared' = Prepared
  BY SamePending, CalmSame, SameTeams DEF Prepared
<1>2. \A K : NonePending(K)' = NonePending(K)
  BY SamePending
<1>3. Free => Free'
  BY <1>1 DEF Free
<1>4. Waiting => Waiting'
  BY <1>1 DEF Waiting
<1>5. Playing => Playing'
  <2>1. run # <<Call("begin")>> /\ run \notin Dying /\ run \notin Winning
    BY QueueFacts DEF Dying, Winning
  <2> QED
    BY <1>1, <2>1 DEF Playing
<1>6. Ending => Ending'
  BY <1>1, EndingIdle DEF Ending, NonePending
<1>7. Resetting => Resetting'
  BY <1>1 DEF Resetting, NonePending
<1> QED
  BY <1>3, <1>4, <1>5, <1>6, <1>7, IdlePhase DEF Phase

\* A login keeps the arena in its phase.
LEMMA LoginStep ==
    ASSUME ArenaInv, NEW c \in Char, PlayerLogin(c) PROVE Crew' /\ Clock' /\ Phase'
<1>1. Inv /\ Crew /\ Clock /\ Phase
  BY DEF ArenaInv
<1>2. /\ run = <<>> /\ run' = <<>>
      /\ UNCHANGED <<state, members, timer, out, sleeps>>
  BY DEF PlayerLogin, Listening, Idle
<1>3. Crew' /\ UNCHANGED <<slot, status>> /\ (NobodyInside => NobodyInside') /\ (Seated => Seated')
  BY <1>1, CrewLogin
<1> QED
  BY <1>1, <1>2, <1>3, IdleKept, ClockSame

\* A player who walks or is warped out of the arena keeps it in its phase.
LEMMA PlayerWarpStep ==
    ASSUME ArenaInv, NEW c \in Char, NEW to \in {"out", Home}, PlayerWarp(c, to)
    PROVE  Crew' /\ Clock' /\ Phase'
<1>1. Inv /\ Crew /\ Clock /\ Phase
  BY DEF ArenaInv
<1>2. /\ run = <<>> /\ run' = <<>> /\ SetPos(c) /\ Moved(c, to)
      /\ UNCHANGED <<state, count, members, stale, timer, out, sleeps>>
      /\ place[c] = Home \/ to = "out"
  BY DEF PlayerWarp, Listening, Idle
<1>3. /\ Crew' /\ UNCHANGED <<slot, status>>
      /\ place'[c] = to /\ \A d \in Char : d # c => place'[d] = place[d] /\ bg'[d] = bg[d]
      /\ bg'[c] = bg[c] \/ bg'[c] = "none"
      /\ to # Home /\ place[c] = Home => bg'[c] = "none"
  BY <1>1, <1>2, CrewMove
<1>4. NobodyInside => NobodyInside'
  BY <1>2, <1>3, HomeAssumption DEF NobodyInside
<1>5. Seated => Seated'
  BY <1>2, <1>3, HomeAssumption DEF Seated
<1> QED
  BY <1>1, <1>2, <1>3, <1>4, <1>5, IdleKept, ClockSame

\* A player of a team is in the arena while the match is prepared, played or
\* over; with nothing due, no teardown clears the arena in this instant.
LEMMA MemberInside ==
    ASSUME ArenaInv, run = <<>>, NothingDue, NEW c \in Char, bg[c] # "none"
    PROVE  /\ Waiting \/ Playing \/ Ending
           /\ Playing => timer.at = "end" /\ ~Prepared
           /\ Ending => out = -1 /\ \A s \in Pending : ToClear(s) > 0
<1>1. Inv /\ Crew /\ Clock /\ Phase
  BY DEF ArenaInv
<1>2. c \in Members
  BY <1>1, TeamFacts DEF Crew, CrewTyped, Teamed, Members
<1>3. Waiting \/ Playing \/ Ending
  BY <1>1, <1>2, IdlePhase DEF Free, Resetting
<1>4. Playing => timer.at = "end" /\ ~Prepared
  <2>1. run # <<Call("begin")>> /\ run \notin Dying /\ run \notin Winning
    BY QueueFacts DEF Dying, Winning
  <2> QED
    BY <2>1 DEF Playing
<1>5. Ending => out = -1
  <2>1. Ending => place[c] = Home
    BY DEF Ending, Seated
  <2>2. Ending => ~(out >= 0)
    BY <2>1, EndingIdle, HomeAssumption DEF NobodyInside
  <2> QED
    BY <1>1, <2>2, ClockFacts
<1>6. \A s \in Pending : ToClear(s) > 0
  <2>1. \A s \in Pending : s.left # 0 /\ s.left \in Nat
    BY <1>1, ClockFacts DEF NothingDue, Pending
  <2> QED
    BY <2>1, DelayFacts DEF ToClear
<1> QED
  BY <1>3, <1>4, <1>5, <1>6

\* A death keeps the arena in its phase; its event is queued.
LEMMA DiesStep ==
    ASSUME Prompt, ArenaInv, NEW c \in Char, PlayerDies(c) PROVE Crew' /\ Clock' /\ Phase'
<1>1. Inv /\ Crew /\ Clock /\ Phase /\ CrewTyped
  BY DEF ArenaInv, Crew
<1>2. run = <<>> /\ NothingDue /\ bg[c] # "none" /\ c \in InArena
  BY DEF PlayerDies, Listening, Idle
<1>3. /\ UNCHANGED <<state, count, members, stale, bg, place, timer, out, sleeps>>
      /\ run' = <<Event("die", bg[c])>>
  BY DEF PlayerDies
<1>4. run' \in Dying
  <2>1. bg[c] \in Team
    BY <1>1, <1>2, TeamFacts DEF CrewTyped
  <2> QED
    BY <1>3, <2>1 DEF Dying
<1>5. Crew' /\ UNCHANGED <<slot, status>>
  <2>1. CASE OnDeath(c) /\ UNCHANGED corpse
    <3>1. /\ dead' = [dead EXCEPT ![playerMatch[c]] = @ \cup {c}] /\ playerMatch[c] # 0
          /\ UNCHANGED <<online, playerMatch, slot, status>>
      BY <2>1 DEF OnDeath
    <3>2. \A d \in Char : playerMatch'[d] # 0 /\ d \in dead'[playerMatch'[d]]
              => \/ place[d] = Home
                 \/ playerMatch'[d] = playerMatch[d] /\ d \in dead[playerMatch[d]]
      BY <1>1, <1>2, <3>1, RegistryTypes DEF InArena
    <3> QED
      BY <1>1, <1>3, <2>1, <3>1, <3>2, CrewKept DEF CrewTyped
  <2>2. CASE corpse' = corpse \cup {c} /\ UNCHANGED vars
    <3>1. UNCHANGED <<online, playerMatch, dead, slot, status>>
      BY <2>2, Untouched
    <3>2. corpse' \subseteq InArena'
      BY <1>1, <1>2, <1>3, <2>2, <3>1 DEF CrewTyped, InArena
    <3>3. CrewTyped'
      BY <1>1, <1>3, <3>2 DEF CrewTyped, Members
    <3>4. Aboard' /\ Teamed' /\ Tombs'
      BY <1>1, <1>3, <3>1 DEF Crew, Aboard, Teamed, Tombs
    <3> QED
      BY <3>1, <3>3, <3>4 DEF Crew
  <2> QED
    BY <2>1, <2>2 DEF PlayerDies
<1>6. Clock'
  BY <1>1, <1>3, ClockSame
<1>7. /\ Pending' = Pending /\ Calm' = Calm /\ Full' = Full /\ Prepared' = Prepared
      /\ Seated' = Seated /\ slot' = slot
  BY <1>3, <1>5, SamePending, CalmSame, SameTeams, Unmoved DEF Prepared
<1>8. Waiting => Waiting'
  BY <1>3, <1>4, <1>7 DEF Waiting
<1>9. Playing => Playing'
  BY <1>2, <1>3, <1>4, <1>7, MemberInside DEF Playing
<1>10. Ending => Ending'
  BY <1>2, <1>3, <1>4, <1>7, MemberInside DEF Ending, NonePending
<1> QED
  BY <1>2, <1>5, <1>6, <1>8, <1>9, <1>10, MemberInside DEF Phase

\* A player who quits, and the event this raises, keep the arena in its phase.
LEMMA QuitsStep ==
    ASSUME Prompt, ArenaInv, NEW c \in Char, PlayerQuits(c) PROVE Crew' /\ Clock' /\ Phase'
<1>1. Inv /\ Crew /\ Clock /\ Phase /\ CrewTyped
  BY DEF ArenaInv, Crew
<1>2. run = <<>> /\ NothingDue
  BY DEF PlayerQuits, Listening, Idle
<1>3. /\ bg' = [bg EXCEPT ![c] = "none"] /\ place' = [place EXCEPT ![c] = "out"]
      /\ corpse' = corpse \ {c} /\ stale' = IF c \in Members THEN stale \cup {c} ELSE stale
      /\ UNCHANGED <<members, timer, out, sleeps>>
  BY DEF PlayerQuits
<1>4. Clock'
  BY <1>1, <1>3, ClockSame
<1>5. \E leave \in BOOLEAN : Quit(c, leave)
  <2>1. Quit(c, FALSE) \/ Quit(c, slot[Home] # 0)
    BY DEF PlayerQuits, OnQuit
  <2> QED
    BY <2>1, Zenon
<1>6. state' \in 0..3 /\ count' \in [Team -> Nat]
  <2>1. bg[c] # "none" => bg[c] \in Team
    BY <1>1, TeamFacts DEF CrewTyped
  <2>2. \/ state' = state \/ state' = 3
    BY DEF PlayerQuits, OnQuit
  <2>3. count' = count \/ (bg[c] # "none" /\ count' = Decremented(bg[c]))
    BY DEF PlayerQuits, OnQuit
  <2> QED
    BY <1>1, <2>1, <2>2, <2>3, DecrementFacts DEF CrewTyped
<1>7. Crew' /\ UNCHANGED <<slot, status>> /\ (NobodyInside => NobodyInside') /\ (Seated => Seated')
  <2>1. PICK leave \in BOOLEAN : Quit(c, leave)
    BY <1>5
  <2> QED
    BY <1>1, <1>3, <1>6, <2>1, CrewQuits
<1>8. /\ Pending' = Pending /\ Calm' = Calm /\ Full' = Full /\ Prepared' = Prepared
  BY <1>3, <1>7, SamePending, CalmSame, SameTeams DEF Prepared
<1>9. CASE UNCHANGED <<state, run>>
  <2>1. Phase'
    BY <1>1, <1>2, <1>3, <1>7, <1>9, IdleKept
  <2> QED
    BY <1>4, <1>7, <2>1
<1>10. CASE /\ bg[c] # "none" /\ state = 1 /\ state' = 3
            /\ run' = <<Call("cancel"), Call("reset")>>
  <2>1. Calm
    BY <1>2, <1>10, MemberInside DEF Waiting, Playing, Ending
  <2>2. Aborting'
    BY <1>8, <1>10, <2>1 DEF Aborting
  <2> QED
    BY <1>4, <1>7, <2>2 DEF Phase
<1>11. CASE /\ bg[c] # "none" /\ state = 2 /\ UNCHANGED state
            /\ run' = <<Event("win", Other(bg[c]))>>
  <2>1. run' \in Winning
    <3>1. Other(bg[c]) \in Team
      BY <1>1, <1>11, TeamFacts DEF CrewTyped
    <3> QED
      BY <1>11, <3>1 DEF Winning
  <2>2. Playing \/ Ending
    BY <1>2, <1>11, MemberInside DEF Waiting
  <2>3. Playing => Playing'
    BY <1>2, <1>3, <1>7, <1>8, <1>11, <2>1, MemberInside DEF Playing
  <2>4. Ending => Ending'
    BY <1>2, <1>3, <1>7, <1>8, <1>11, <2>1, MemberInside DEF Ending, NonePending
  <2> QED
    BY <1>4, <1>7, <2>2, <2>3, <2>4 DEF Phase
<1>12. \/ UNCHANGED <<state, run>>
       \/ bg[c] # "none" /\ state = 1 /\ state' = 3 /\ run' = <<Call("cancel"), Call("reset")>>
       \/ /\ bg[c] # "none" /\ state = 2 /\ UNCHANGED state
          /\ run' = <<Event("win", Other(bg[c]))>>
  <2>1. \/ UNCHANGED <<state, run>>
        \/ bg[c] # "none" /\ OnQuit(c, bg[c])
    BY DEF PlayerQuits
  <2> QED
    BY <1>2, <2>1 DEF OnQuit
<1> QED
  BY <1>9, <1>10, <1>11, <1>12

\* OnReadyCheck: two full waiting rooms become the teams of the next match.
LEMMA ReadyStep ==
    ASSUME ArenaInv, NEW B \in SUBSET Char, NEW R \in SUBSET Char, OnReadyCheck(B, R)
    PROVE  Crew' /\ Clock' /\ Phase'
<1>1. Inv /\ Crew /\ Clock /\ Phase /\ CrewTyped
  BY DEF ArenaInv, Crew
<1>2. /\ state = 0 /\ state' = 1 /\ members' = [blue |-> B, red |-> R] /\ stale' = {}
      /\ bg' = [c \in Char |-> IF c \in B THEN "blue" ELSE IF c \in R THEN "red" ELSE bg[c]]
      /\ run' = <<Call("create"), BgWarp(B \cup R, Home), Call("started")>>
      /\ UNCHANGED <<vars, count, place, corpse, timer, out, sleeps>>
      /\ B \cap R = {} /\ \A c \in B \cup R : c \in online
  BY DEF OnReadyCheck
<1>3. Cardinality(B) = TeamSize["blue"] /\ Cardinality(R) = TeamSize["red"]
  BY DEF OnReadyCheck
<1>4. Free
  BY <1>1, <1>2 DEF Phase, Starting, Waiting, Playing, Ending, Aborting, Clearing, Resetting
<1>5. members'["blue"] = B /\ members'["red"] = R /\ members' \in [Team -> SUBSET Char]
  <2>1. members'["blue"] = B /\ members'["red"] = R
    BY <1>2
  <2>2. members' = [t \in Team |-> IF t = "blue" THEN B ELSE R]
    BY <1>2, TeamFacts
  <2> QED
    BY <2>1, <2>2
<1>6. Members' = B \cup R
  BY <1>5 DEF Members
<1>7. \A c \in Char : bg[c] = "none"
  <2>1. \A c \in Char : bg[c] # "none" => c \in Members
    BY <1>1, TeamFacts DEF Crew, CrewTyped, Teamed, Members
  <2> QED
    BY <1>4, <2>1 DEF Free
<1>8. UNCHANGED <<online, playerMatch, dead, slot, status>>
  BY <1>2, Untouched
<1>9. Crew'
  <2>1. bg' \in [Char -> Winner]
    BY <1>2, <1>7, TeamFacts
  <2>2. corpse' \subseteq InArena'
    BY <1>1, <1>2, <1>8 DEF CrewTyped, InArena
  <2>3. stale' \subseteq Members' /\ state' \in 0..3 /\ count' \in [Team -> Nat]
        /\ place' \in [Char -> {"out", Home}]
    BY <1>1, <1>2 DEF CrewTyped
  <2>4. CrewTyped'
    BY <1>5, <2>1, <2>2, <2>3 DEF CrewTyped
  <2>5. Aboard' /\ Tombs'
    BY <1>1, <1>2, <1>8 DEF Crew, Aboard, Tombs
  <2>6. \A c \in Char : bg'[c] # "none" =>
            c \in members'[bg'[c]] /\ c \notin stale' /\ c \in online'
    BY <1>2, <1>5, <1>7, <1>8
  <2>7. Teamed'
    BY <1>2, <1>5, <2>6 DEF Teamed
  <2> QED
    BY <2>4, <2>5, <2>7 DEF Crew
<1>10. Clock'
  BY <1>1, <1>2, ClockSame
<1>11. Starting'
  <2>1. Full'
    BY <1>3, <1>5, TeamFacts DEF Full
  <2>2. Calm' = Calm
    BY <1>2, CalmSame
  <2>3. run' = <<Call("create"), BgWarp(Members', Home), Call("started")>> /\ slot'[Home] = 0
    BY <1>2, <1>4, <1>6, <1>8 DEF Free
  <2>4. BgWarp(Members, Home)' = BgWarp(Members', Home)
    BY DEF BgWarp, WarpOf
  <2> QED
    BY <1>2, <1>4, <2>1, <2>2, <2>3, <2>4 DEF Starting, Free
<1> QED
  BY <1>9, <1>10, <1>11 DEF Phase

\* The start of the server, and a step of anything else.
LEMMA ControlKept ==
    ASSUME ArenaInv, UNCHANGED control, UNCHANGED <<online, playerMatch, dead, slot, status>>
    PROVE  Crew' /\ Clock' /\ Phase'
<1>1. Inv /\ Crew /\ Clock /\ Phase
  BY DEF ArenaInv
<1>2. UNCHANGED <<state, count, members, stale, bg, place, corpse, timer, out, sleeps, run>>
  BY DEF control
<1>3. Crew'
  BY <1>1, <1>2, CrewStutter DEF Crew, CrewTyped
<1>4. Clock'
  BY <1>1, <1>2, ClockSame
<1>5. /\ Pending' = Pending /\ Calm' = Calm /\ Full' = Full /\ Members' = Members
      /\ Prepared' = Prepared /\ Seated' = Seated /\ NobodyInside' = NobodyInside
  BY <1>2, SamePending, CalmSame, SameTeams, Unmoved DEF Prepared
<1>6. (Free => Free') /\ (Starting => Starting')
  BY <1>2, <1>5 DEF Free, Starting
<1>7. (Waiting => Waiting') /\ (Playing => Playing')
  BY <1>2, <1>5 DEF Waiting, Playing
<1>8. Ending => Ending'
  BY <1>2, <1>5 DEF Ending, NonePending
<1>9. (Aborting => Aborting') /\ (Resetting => Resetting')
  BY <1>2, <1>5 DEF Aborting, Resetting, NonePending
<1>10. Clearing => Clearing'
  BY <1>2, <1>5 DEF Clearing
<1> QED
  BY <1>1, <1>3, <1>4, <1>6, <1>7, <1>8, <1>9, <1>10 DEF Phase

\* The start of the server touches no arena.
LEMMA ServerStepKeeps == ASSUME ArenaInv, StartServer PROVE Crew' /\ Clock' /\ Phase'
  BY ControlKept DEF StartServer, Boot

\* A stuttering step changes nothing.
LEMMA StutterKeeps == ASSUME ArenaInv, UNCHANGED battleVars PROVE Crew' /\ Clock' /\ Phase'
  BY ControlKept DEF battleVars, vars, registry

\* Everything the players do keeps the arena in its phase.
LEMMA PlayersStep == ASSUME Prompt, ArenaInv, Players PROVE Crew' /\ Clock' /\ Phase'
  BY LoginStep, DiesStep, QuitsStep, PlayerWarpStep, ReadyStep DEF Players

-----------------------------------------------------------------------------
(* The theorems.                                                           *)

\* Every step of the arena keeps its invariant.
LEMMA ArenaStep == ASSUME Prompt, ArenaInv, [BattleNext]_battleVars PROVE ArenaInv'
<1>1. Inv'
  BY RegistryStep
<1>2. Crew' /\ Clock' /\ Phase'
  BY CallsStep, TimersStep, PlayersStep, ServerStepKeeps, StutterKeeps DEF BattleNext
<1> QED
  BY <1>1, <1>2 DEF ArenaInv

\* The arena of a server that has not started is in its first phase.
LEMMA ArenaInit == ASSUME BattleInit PROVE ArenaInv
<1>1. Inv
  BY InitInv DEF BattleInit
<1>2. /\ state = 0 /\ count = [t \in Team |-> 0] /\ members = [t \in Team |-> {}] /\ stale = {}
      /\ bg = [c \in Char |-> "none"] /\ place = [c \in Char |-> "out"] /\ corpse = {}
      /\ timer = Stopped /\ out = -1 /\ sleeps = EmptyBag /\ run = <<>>
      /\ online = {} /\ slot = [a \in Arena |-> 0] /\ playerMatch = [c \in Char |-> 0]
  BY DEF BattleInit, Init
<1>3. Crew
  <2>1. CrewTyped
    BY <1>2, TeamFacts DEF CrewTyped
  <2>2. Aboard /\ Teamed /\ Tombs
    BY <1>2, TeamFacts, HomeAssumption DEF Aboard, Teamed, Tombs
  <2> QED
    BY <2>1, <2>2 DEF Crew
<1>4. IsABag(sleeps) /\ BagToSet(sleeps) = {}
  BY <1>2 DEF EmptyBag, SetToBag, IsABag, BagToSet
<1>5. Clock
  BY <1>2, <1>4, StoppedFacts, DelayFacts DEF Clock, ClockOK, SleepTyped, StartTiming, ResetTiming,
     TeardownTiming, OneReset
<1>6. Free
  BY <1>2, <1>4, StoppedFacts, TeamFacts, HomeAssumption
     DEF Free, Calm, NonePending, Pending, Members, NobodyInside
<1> QED
  BY <1>1, <1>3, <1>5, <1>6 DEF ArenaInv, Phase

\* The invariant of the arena: in every state the controller is in one of its
\* phases, whatever the order of deaths, quits, timers and sleeping scripts, and
\* nothing that an earlier match has left pending meets a later one.
THEOREM ArenaIsInPhase == ASSUME Prompt PROVE BattleSpec => []ArenaInv
<1>1. BattleInit => ArenaInv
  BY ArenaInit
<1>2. ArenaInv /\ [BattleNext]_battleVars => ArenaInv'
  BY ArenaStep
<1> QED
  BY <1>1, <1>2, PTL DEF BattleSpec

\* Type correctness of the arena (BattleTypeOK).
THEOREM ArenaTypesHold == ASSUME Prompt PROVE BattleSpec => []BattleTypeOK
<1>1. ArenaInv => BattleTypeOK
  BY DEF ArenaInv, Inv, Crew, CrewTyped, Clock, ClockOK, BattleTypeOK
<1> QED
  BY <1>1, ArenaIsInPhase, PTL

\* The controller never strands a match: an arena where nothing is pending is
\* free and empty (QuietArenaIsFree).
THEOREM NoMatchIsStranded == ASSUME Prompt PROVE BattleSpec => []QuietArenaIsFree
<1>1. ASSUME ArenaInv PROVE QuietArenaIsFree
  <2>1. SUFFICES ASSUME Quiet
                 PROVE  state = 0 /\ slot[Home] = 0 /\ Members = {} /\ InArena = {}
    BY DEF QuietArenaIsFree
  <2>2. run = <<>> /\ timer.at = "none" /\ out = -1 /\ Pending = {} /\ Phase /\ Inv
    BY <1>1, <2>1, StoppedFacts DEF Quiet, ArenaInv, Pending, BagToSet, EmptyBag, SetToBag
  <2>3. Free
    <3>1. ~Waiting /\ ~Resetting /\ ~Ending
      BY <2>2 DEF Waiting, Resetting, Ending
    <3>2. ~Playing
      <4>1. run \notin Dying /\ run \notin Winning
        BY <2>2, QueueFacts DEF Dying, Winning
      <4> QED
        BY <2>2, <4>1 DEF Playing
    <3> QED
      BY <2>2, <3>1, <3>2, IdlePhase
  <2>4. InArena = {}
    BY <2>2, <2>3, RegistryTypes, HomeAssumption DEF Free, NobodyInside, InArena
  <2> QED
    BY <2>3, <2>4 DEF Free
<1> QED
  BY <1>1, ArenaIsInPhase, PTL

\* An arena that is announced free has released its match, and nobody who is
\* still registered in a match or a member of a team is in it (FreeArenaIsClean).
THEOREM FreeArenaIsReleased == ASSUME Prompt PROVE BattleSpec => []FreeArenaIsClean
<1>1. ASSUME ArenaInv PROVE FreeArenaIsClean
  <2>1. SUFFICES ASSUME state = 0, run = <<>>
                 PROVE  /\ slot[Home] = 0 /\ Members = {}
                        /\ \A c \in InArena : playerMatch[c] = 0 /\ bg[c] = "none"
    BY DEF FreeArenaIsClean
  <2>2. Free
    BY <1>1, <2>1, IdlePhase DEF ArenaInv, Waiting, Playing, Ending, Resetting
  <2>3. InArena = {}
    BY <1>1, <2>2, RegistryTypes, HomeAssumption DEF ArenaInv, Free, NobodyInside, InArena
  <2> QED
    BY <2>2, <2>3 DEF Free
<1> QED
  BY <1>1, ArenaIsInPhase, PTL

\* "Teleport the players before destroying the battleground": no member of a
\* team is in the arena when bg_destroy runs (TeamsLeaveFirst).
THEOREM TeamsHaveLeft == ASSUME Prompt PROVE BattleSpec => []TeamsLeaveFirst
<1>1. ASSUME ArenaInv PROVE TeamsLeaveFirst
  <2>1. SUFFICES ASSUME Running("destroy") PROVE Members \cap InArena = {}
    BY DEF TeamsLeaveFirst
  <2>2. NobodyInside
    BY <1>1, <2>1, CallPhase DEF ArenaInv, Running
  <2> QED
    BY <1>1, <2>2, RegistryTypes, HomeAssumption DEF ArenaInv, NobodyInside, InArena
<1> QED
  BY <1>1, ArenaIsInPhase, PTL

\* The arena implements the registry's specification: the script never creates a
\* match before it has released the last one and never starts a match twice
\* (ArenaKeepsRegistryRules).
THEOREM ArenaImplementsRegistry == ASSUME Prompt PROVE BattleSpec => ArenaKeepsRegistryRules
<1>1. BattleInit => Init
  BY DEF BattleInit
<1>2. ArenaInv /\ [BattleNext]_battleVars => [Next]_vars
  BY StepRefines
<1> QED
  BY <1>1, <1>2, ArenaIsInPhase, PTL DEF BattleSpec, ArenaKeepsRegistryRules, Spec

-----------------------------------------------------------------------------
(* Tombstones.                                                             *)

\* pc_setpos of any player keeps the tombstone of whoever stays registered.
LEMMA TombSetPos ==
    ASSUME Inv, NEW d \in Char, SetPosEffect(d), NEW c \in Char, playerMatch[c] # 0,
           c \in dead[playerMatch[c]], playerMatch'[c] = playerMatch[c]
    PROVE  c \in dead'[playerMatch[c]]
<1>1. playerMatch[c] \in Id
  BY RegistryTypes
<1>2. c # d
  BY SetPosFacts
<1> QED
  BY <1>1, <1>2, SetPosFacts

\* OnMatchCreate takes an id that no match in memory has.
LEMMA TombCreate ==
    ASSUME Inv, CreateMatch(Home), NEW c \in Char, playerMatch[c] # 0, c \in dead[playerMatch[c]],
           status[playerMatch[c]] = "active"
    PROVE  c \in dead'[playerMatch[c]]
<1>1. playerMatch[c] \in Id /\ counter \in 0..MaxMatch /\ dead \in [Id -> SUBSET Char]
  BY RegistryTypes
<1>2. playerMatch[c] <= counter
  BY <1>1 DEF Inv, CounterCoversMatches
<1>3. dead' = [dead EXCEPT ![counter + 1] = {}] /\ playerMatch[c] # counter + 1
  BY <1>1, <1>2, IdFacts DEF CreateMatch
<1> QED
  BY <1>1, <1>3

\* The calls of an event keep the tombstones of an active match.
LEMMA TombCalls ==
    ASSUME ArenaInv, Calls, NEW c \in Char, playerMatch[c] # 0,
           status[playerMatch[c]] = "active", c \in dead[playerMatch[c]],
           playerMatch'[c] = playerMatch[c]
    PROVE  c \in dead'[playerMatch[c]]
<1>0. Inv /\ Crew /\ Phase /\ playerMatch[c] \in Id
  BY RegistryTypes DEF ArenaInv
<1>1. CASE UNCHANGED dead
  BY <1>1
<1>2. CASE OnStartCreate
  BY <1>0, <1>2, TombCreate DEF OnStartCreate
<1>3. CASE Warp
  <2>1. CASE \E d \in Char : SetPosEffect(d)
    BY <1>0, <2>1, TombSetPos
  <2>2. CASE UNCHANGED vars
    BY <2>2, Untouched
  <2>3. (\E d \in online : SetPos(d)) \/ UNCHANGED vars
    BY <1>3 DEF Warp
  <2> QED
    BY <1>0, <2>1, <2>2, <2>3, RegistryTypes DEF SetPos
<1>4. CASE Cancel
  <2>1. CASE slot[Home] = 0
    BY <1>4, <2>1, Untouched DEF Cancel
  <2>2. CASE slot[Home] # 0
    <3>1. CancelMatch(slot[Home]) /\ slot[Home] \in Id
      BY <1>0, <1>4, <2>2, RegistryTypes DEF Cancel, OnMatchCancel
    <3>2. CASE status[slot[Home]] = "waiting"
      <4>1. dead' = [dead EXCEPT ![slot[Home]] = {}] /\ slot[Home] # playerMatch[c]
        BY <3>1, <3>2 DEF CancelMatch
      <4> QED
        BY <1>0, <3>1, <4>1, RegistryTypes
    <3>3. CASE status[slot[Home]] # "waiting"
      BY <3>1, <3>3 DEF CancelMatch
    <3> QED
      BY <3>2, <3>3
  <2> QED
    BY <2>1, <2>2
<1>5. CASE BeginMatch
  <2>1. slot[Home] \in Id /\ slot[Home] # 0 /\ status[slot[Home]] = "waiting"
    BY <1>0, <1>5, CallPhase, RegistryTypes DEF BeginMatch, Running, Prepared
  <2>2. PICK gone \in SUBSET stale :
            JoinAndStart(Home, members["blue"] \ gone, members["red"] \ gone)
    BY <1>5, <2>1 DEF BeginMatch
  <2>3. \E J : dead' = [dead EXCEPT ![slot[Home]] = @ \ J]
    BY <2>2 DEF JoinAndStart, AddPlayers
  <2>4. playerMatch[c] # slot[Home]
    BY <2>1
  <2> QED
    BY <1>0, <2>1, <2>3, <2>4, RegistryTypes
<1>6. CASE NotReady \/ OnStartSleep \/ OnReset \/ BgDestroy
  BY <1>1, <1>6, Untouched DEF NotReady, OnStartSleep, OnReset, BgDestroy
<1>7. ASSUME NEW t \in Team, OnDie(t) \/ OnWin(t) PROVE UNCHANGED dead
  BY <1>7, Untouched DEF OnDie, OnWin, Finish
<1> QED
  BY <1>1, <1>2, <1>3, <1>4, <1>5, <1>6, <1>7 DEF Calls

\* So do the timers: OnStop runs after the match is over, restore_all never
\* finds an open match.
LEMMA TombTimers == ASSUME ArenaInv, Timers PROVE UNCHANGED dead
<1>1. CASE WakeStop
  BY <1>1, WakeStopStep, Untouched
<1>2. CASE OnTimer450000
  BY <1>2, Untouched DEF OnTimer450000, Finish
<1>3. CASE \/ OnTimer25000 \/ OnTimer30000 \/ OnOut \/ WakeStarted \/ WakeWarp \/ WakeClear
           \/ WakeReset \/ WakeRespawn \/ WakeIdle \/ Tick
  <2>1. UNCHANGED vars
    BY <1>3 DEF OnTimer25000, OnTimer30000, OnOut, WakeStarted, WakeWarp, WakeClear, WakeReset,
       WakeRespawn, WakeIdle, Tick
  <2> QED
    BY <2>1, Untouched
<1> QED
  BY <1>1, <1>2, <1>3 DEF Timers

\* The players: a death adds a tombstone, a warp ends the registration.
LEMMA TombPlayers ==
    ASSUME Inv, Players, NEW c \in Char, playerMatch[c] # 0,
           c \in dead[playerMatch[c]], playerMatch'[c] = playerMatch[c]
    PROVE  c \in dead'[playerMatch[c]]
<1>0. playerMatch[c] \in Id /\ dead \in [Id -> SUBSET Char]
  BY RegistryTypes
<1>1. ASSUME NEW d \in Char, PlayerLogin(d) PROVE c \in dead'[playerMatch[c]]
  BY <1>1, TombSetPos DEF PlayerLogin, Login
<1>2. ASSUME NEW d \in Char, PlayerDies(d) PROVE c \in dead'[playerMatch[c]]
  <2>1. UNCHANGED dead \/ dead' = [dead EXCEPT ![playerMatch[d]] = @ \cup {d}]
    BY <1>2, Untouched DEF PlayerDies, OnDeath
  <2> QED
    BY <1>0, <2>1
<1>3. ASSUME NEW d \in Char, PlayerQuits(d) PROVE c \in dead'[playerMatch[c]]
  <2>1. Quit(d, FALSE) \/ Quit(d, slot[Home] # 0)
    BY <1>3 DEF PlayerQuits, OnQuit
  <2>2. UNCHANGED dead
    BY <2>1 DEF Quit
  <2> QED
    BY <2>2
<1>4. ASSUME NEW d \in Char, NEW to, PlayerWarp(d, to) PROVE c \in dead'[playerMatch[c]]
  BY <1>4, TombSetPos DEF PlayerWarp, SetPos
<1>5. ASSUME NEW B, NEW R, OnReadyCheck(B, R) PROVE c \in dead'[playerMatch[c]]
  BY <1>5, Untouched DEF OnReadyCheck
<1> QED
  BY <1>1, <1>2, <1>3, <1>4, <1>5 DEF Players

\* "Players cannot be revived until the end of the match" (TombstoneIsPermanent):
\* although OnStop calls arena7x7_restore_all_tombstones, a tombstone of an
\* active match stays one for as long as its player is registered in the match.
THEOREM TombstonesStay == ASSUME Prompt PROVE BattleSpec => TombstoneIsPermanent
<1> DEFINE Kept == \A c \in Char : LET m == playerMatch[c] IN
                       m # 0 /\ status[m] = "active" /\ c \in dead[m] /\ playerMatch'[c] = m
                           => c \in dead'[m]
<1>1. ASSUME ArenaInv, [BattleNext]_battleVars PROVE Kept
  <2>1. SUFFICES ASSUME NEW c \in Char, playerMatch[c] # 0, status[playerMatch[c]] = "active",
                        c \in dead[playerMatch[c]], playerMatch'[c] = playerMatch[c]
                 PROVE  c \in dead'[playerMatch[c]]
    OBVIOUS
  <2>2. CASE UNCHANGED battleVars
    BY <2>1, <2>2 DEF battleVars, vars, registry
  <2>3. CASE Calls
    BY <1>1, <2>1, <2>3, TombCalls
  <2>4. CASE Timers
    BY <1>1, <2>1, <2>4, TombTimers
  <2>5. CASE Players
    BY <1>1, <2>1, <2>5, TombPlayers DEF ArenaInv
  <2>6. CASE StartServer
    BY <2>1, <2>6 DEF StartServer, Boot
  <2> QED
    BY <1>1, <2>2, <2>3, <2>4, <2>5, <2>6 DEF BattleNext
<1>2. ArenaInv /\ [BattleNext]_battleVars => [Kept]_battleVars
  BY <1>1
<1> QED
  BY <1>2, ArenaIsInPhase, PTL DEF BattleSpec, TombstoneIsPermanent

-----------------------------------------------------------------------------
(* The fighters of a match and the counts of the controller.               *)

\* Counting players.
LEMMA SmallerTeam ==
    ASSUME NEW S \in SUBSET Char, NEW T \in SUBSET S
    PROVE  Cardinality(S) \in Nat /\ Cardinality(T) \in Nat /\ Cardinality(T) <= Cardinality(S)
<1>1. IsFiniteSet(S)
  BY CharAssumption, FS_Subset
<1>2. IsFiniteSet(T) /\ Cardinality(T) <= Cardinality(S)
  BY <1>1, FS_Subset
<1> QED
  BY <1>1, <1>2, FS_CardinalityType

\* A set of players that misses one has fewer.
LEMMA OneLess ==
    ASSUME NEW S \in SUBSET Char, NEW c \in S, NEW T \in SUBSET (S \ {c})
    PROVE  Cardinality(T) + 1 <= Cardinality(S)
<1>1. IsFiniteSet(S)
  BY CharAssumption, FS_Subset
<1>2. Cardinality(S \ {c}) = Cardinality(S) - 1
  BY <1>1, FS_RemoveElement
<1>3. S \ {c} \in SUBSET Char /\ Cardinality(S) \in Nat
  BY <1>1, FS_CardinalityType
<1>4. Cardinality(T) <= Cardinality(S \ {c}) /\ Cardinality(T) \in Nat
  BY <1>3, SmallerTeam
<1> QED
  BY <1>2, <1>3, <1>4

\* The living players of a team are characters.
LEMMA LivingFacts ==
    ASSUME Inv, NEW t PROVE Living(t) \in SUBSET Char
  BY RegistryTypes DEF Living, InArena

\* A team owes its count at most one decrement, that of a queued death.
LEMMA OwedFacts ==
    /\ \A t : Owed(t) \in {0, 1}
    /\ run = <<>> => \A t : Owed(t) = 0
    /\ run \in Winning => \A t : Owed(t) = 0
    /\ \A t, u : run = <<Event("die", u)>> => Owed(t) = IF t = u THEN 1 ELSE 0
  BY QueueFacts, CallFacts DEF Owed, Winning

\* CountInv says something only while a match is prepared or played.
LEMMA CountVacuous ==
    ASSUME state' # 1, state' # 2 \/ slot'[Home] = 0 PROVE CountInv'
  BY DEF CountInv

\* Before the match begins nobody inside is in one.
LEMMA CountWaiting == ASSUME state' = 1, Unmatched' PROVE CountInv'
  BY DEF CountInv

\* The fighters of an active match become fewer, and nobody is owed.
LEMMA CountFrame ==
    ASSUME Inv, CrewTyped, CountInv, UNCHANGED <<state, slot, status, team, members, count>>,
           Unmatched => Unmatched',
           state = 2 /\ slot[Home] # 0 /\ ~Prepared /\ Enlisted =>
               /\ Enlisted'
               /\ \A t \in Team : /\ Living(t)' \subseteq Living(t)
                                  /\ Loyal(t)' => Loyal(t)
                                  /\ Owed(t)' <= Owed(t) /\ Owed(t)' \in {0, 1}
    PROVE  CountInv'
<1>1. Prepared' = Prepared
  BY DEF Prepared
<1>2. CASE state # 2 \/ slot[Home] = 0
  BY <1>2 DEF CountInv
<1>3. CASE state = 2 /\ slot[Home] # 0 /\ Prepared
  BY <1>1, <1>3 DEF CountInv
<1>4. CASE state = 2 /\ slot[Home] # 0 /\ ~Prepared
  <2>1. Enlisted /\ Counted
    BY <1>4 DEF CountInv
  <2>2. Enlisted'
    BY <1>4, <2>1
  <2>3. ASSUME NEW t \in Team, Loyal(t)' PROVE (Cardinality(Living(t)) + Owed(t) <= count[t])'
    <3>1. Loyal(t) /\ Living(t)' \subseteq Living(t) /\ Owed(t)' <= Owed(t) /\ Owed(t)' \in {0, 1}
      BY <1>4, <2>1, <2>3
    <3>2. Cardinality(Living(t)) + Owed(t) <= count[t] /\ count[t] \in Nat
      BY <2>1, <3>1 DEF Counted, CrewTyped
    <3>3. /\ Cardinality(Living(t)) \in Nat /\ Cardinality(Living(t)') \in Nat
          /\ Cardinality(Living(t)') <= Cardinality(Living(t))
      BY <3>1, LivingFacts, SmallerTeam
    <3>4. Owed(t) \in {0, 1}
      BY OwedFacts
    <3> QED
      BY <3>1, <3>2, <3>3, <3>4
  <2>4. Counted'
    BY <2>3 DEF Counted
  <2> QED
    BY <1>1, <1>4, <2>2, <2>4 DEF CountInv
<1> QED
  BY <1>2, <1>3, <1>4

\* Nobody moves and the registry is left alone.
LEMMA CountSame ==
    ASSUME Inv, CrewTyped, CountInv,
           UNCHANGED <<state, slot, status, team, members, count, deserter, dead, playerMatch, online>>,
           UNCHANGED <<bg, place, corpse>>, run' = run \/ run' = <<>> \/ run' \in Winning
    PROVE  CountInv'
<1>1. Unmatched' = Unmatched /\ Enlisted' = Enlisted
  BY DEF Unmatched, Enlisted
<1>2. \A t \in Team : Living(t)' = Living(t) /\ Loyal(t)' = Loyal(t)
  BY DEF Living, InArena, Loyal
<1>3. \A t \in Team : Owed(t)' <= Owed(t) /\ Owed(t)' \in {0, 1}
  <2>1. \A t : Owed(t) \in {0, 1}
    BY OwedFacts
  <2>2. CASE run' = run
    BY <2>1, <2>2 DEF Owed
  <2>3. CASE run' = <<>> \/ run' \in Winning
    <3>1. \A t : run' # <<Event("die", t)>>
      BY <2>3, QueueFacts, CallFacts DEF Winning
    <3> QED
      BY <2>1, <3>1 DEF Owed
  <2> QED
    BY <2>2, <2>3
<1> QED
  BY <1>1, <1>2, <1>3, CountFrame

\* A warp out of an active match is a desertion.
LEMMA SetPosDeserts ==
    ASSUME Inv, NEW c \in Char, SetPosEffect(c), slot[Home] # 0, status[slot[Home]] = "active"
    PROVE  /\ deserter[slot[Home]] \subseteq deserter'[slot[Home]]
           /\ playerMatch[c] = slot[Home] => c \in deserter'[slot[Home]]
<1>1. slot[Home] \in Id /\ deserter \in [Id -> SUBSET Char]
  BY RegistryTypes
<1>2. CASE playerMatch[c] = 0
  BY <1>2 DEF SetPosEffect
<1>3. CASE playerMatch[c] # 0
  <2>1. playerMatch[c] \in Id
    BY <1>3, RegistryTypes
  <2>2. deserter' = [deserter EXCEPT ![playerMatch[c]] =
                        IF status[playerMatch[c]] = "active" THEN @ \cup {c} ELSE @ \ {c}]
    BY <1>3 DEF SetPosEffect, RemovePlayer
  <2> QED
    BY <1>1, <2>1, <2>2
<1> QED
  BY <1>2, <1>3

\* Somebody is placed or warped.
LEMMA CountSetPos ==
    ASSUME ArenaInv, CountInv, NEW c \in Char, SetPosEffect(c),
           UNCHANGED <<state, slot, status, team, members, count, run>>,
           \A d \in Char : d # c =>
               /\ place'[d] = place[d] /\ bg'[d] = bg[d]
               /\ (d \in corpse' <=> d \in corpse) /\ (d \in online' <=> d \in online),
           bg'[c] = bg[c] \/ bg'[c] = "none", online' \subseteq Char
    PROVE  CountInv'
<1>1. Inv /\ CrewTyped
  BY DEF ArenaInv, Crew
<1>2. /\ playerMatch'[c] = 0
      /\ \A d \in Char : d # c => playerMatch'[d] = playerMatch[d]
      /\ \A d \in Char, m \in Id : d # c => (d \in dead'[m] <=> d \in dead[m])
  BY <1>1, SetPosFacts
<1>3. Unmatched => Unmatched'
  BY <1>2 DEF Unmatched
<1>4. ASSUME state = 2, slot[Home] # 0, ~Prepared, Enlisted
      PROVE  /\ Enlisted'
             /\ \A t \in Team : /\ Living(t)' \subseteq Living(t)
                                /\ Loyal(t)' => Loyal(t)
                                /\ Owed(t)' <= Owed(t) /\ Owed(t)' \in {0, 1}
  <2>1. slot[Home] \in Id /\ status[slot[Home]] = "active"
    BY <1>1, <1>4, RegistryTypes DEF Prepared, Open
  <2>2. /\ deserter[slot[Home]] \subseteq deserter'[slot[Home]]
        /\ playerMatch[c] = slot[Home] => c \in deserter'[slot[Home]]
    BY <1>1, <1>4, <2>1, SetPosDeserts
  <2>3. Enlisted'
    BY <1>2, <1>4, <2>2 DEF Enlisted
  <2>4. \A t \in Team : Living(t)' \subseteq Living(t)
    BY <1>2, <1>4, <2>1 DEF Living, InArena
  <2>5. \A t \in Team : Loyal(t)' => Loyal(t)
    BY <2>2 DEF Loyal
  <2>6. \A t \in Team : Owed(t)' <= Owed(t) /\ Owed(t)' \in {0, 1}
    BY OwedFacts DEF Owed
  <2> QED
    BY <2>3, <2>4, <2>5, <2>6
<1> QED
  BY <1>1, <1>3, <1>4, CountFrame

\* OnMatchStart: every team's player in the arena joins, and nobody else.
LEMMA CountBegin == ASSUME ArenaInv, CountInv, BeginMatch PROVE CountInv'
<1>1. Inv /\ Crew /\ CrewTyped /\ Aboard /\ Teamed /\ Phase
  BY DEF ArenaInv, Crew
<1>2. Playing /\ run = <<Call("begin")>> /\ Prepared
  BY <1>1, CallPhase DEF BeginMatch, Running
<1>3. run' = <<>> /\ UNCHANGED <<state, count, members, stale, bg, place, corpse>> /\ state = 2
  BY <1>2, QueueFacts DEF BeginMatch, Playing
<1> DEFINE m == slot[Home]
<1>4. m # 0 /\ m \in Id /\ status[m] = "waiting"
  BY <1>1, <1>2, RegistryTypes DEF Prepared
<1>5. Unmatched /\ \A t \in Team : count[t] = Cardinality(members[t])
  BY <1>2, <1>3, <1>4 DEF CountInv
<1>6. PICK gone \in SUBSET stale :
          JoinAndStart(Home, members["blue"] \ gone, members["red"] \ gone)
  BY <1>4 DEF BeginMatch
<1> DEFINE B == members["blue"] \ gone
           R == members["red"] \ gone
           J == {c \in (B \cup R) \cap online : playerMatch[c] = 0 /\ status[m] \in Open}
<1>7. /\ team' = [team EXCEPT ![m] = [c \in Char |->
                     IF c \notin J THEN @[c] ELSE IF c \in B THEN "blue" ELSE "red"]]
      /\ playerMatch' = [c \in Char |-> IF c \in J THEN m ELSE playerMatch[c]]
      /\ UNCHANGED <<slot, online>>
      /\ status' = [status EXCEPT ![m] = IF @ = "waiting" THEN "active" ELSE @]
  BY <1>6 DEF JoinAndStart, AddPlayers, StartMatch
<1>8. J \in SUBSET Char /\ slot'[Home] = m /\ status'[m] = "active"
  BY <1>1, <1>4, <1>7, RegistryTypes
<1>9. \A c \in Char : /\ playerMatch'[c] = IF c \in J THEN m ELSE playerMatch[c]
                      /\ c \in J => team'[m][c] = IF c \in B THEN "blue" ELSE "red"
  BY <1>1, <1>4, <1>7, RegistryTypes
<1>10. \A c \in Char : bg[c] # "none" => c \in J /\ team'[m][c] = bg[c]
  <2>1. SUFFICES ASSUME NEW c \in Char, bg[c] # "none" PROVE c \in J /\ team'[m][c] = bg[c]
    OBVIOUS
  <2>2. bg[c] \in {"blue", "red"} /\ c \in members[bg[c]] /\ c \notin stale /\ c \in online
    BY <1>1, <2>1, TeamFacts DEF CrewTyped, Teamed
  <2>3. playerMatch[c] = 0
    BY <1>2, <1>5, <2>1 DEF Playing, Seated, Unmatched
  <2>4. c \in J
    BY <1>4, <2>2, <2>3 DEF Open
  <2>5. c \in B <=> bg[c] = "blue"
    BY <1>1, <2>2 DEF Teamed
  <2> QED
    BY <1>9, <2>2, <2>4, <2>5
<1>11. Enlisted'
  BY <1>3, <1>8, <1>9, <1>10 DEF Enlisted
<1>12. ASSUME NEW t \in Team PROVE Living(t)' \subseteq members[t]
  <2>1. SUFFICES ASSUME NEW c \in Living(t)' PROVE c \in members[t]
    OBVIOUS
  <2>2. c \in online /\ playerMatch'[c] = m /\ team'[m][c] = t
    BY <1>7, <1>8, <2>1 DEF Living, InArena
  <2>3. c \in Char
    BY <1>1, <2>2, RegistryTypes
  <2>4. c \in J
    BY <1>1, <1>4, <1>9, <2>2, <2>3 DEF Inv, RegistryConsistent
  <2> QED
    BY <1>9, <2>2, <2>3, <2>4, TeamFacts
<1> HIDE DEF m, B, R, J
<1>13. Counted'
  <2>1. ASSUME NEW t \in Team PROVE (Cardinality(Living(t)) + Owed(t) <= count[t])'
    <3>1. members[t] \in SUBSET Char
      BY <1>1 DEF CrewTyped
    <3>2. Cardinality(Living(t)') <= Cardinality(members[t]) /\ Cardinality(Living(t)') \in Nat
      BY <1>12, <3>1, SmallerTeam
    <3>3. Owed(t)' = 0
      BY <1>3, QueueFacts DEF Owed
    <3> QED
      BY <1>3, <1>5, <3>2, <3>3
  <2> QED
    BY <2>1 DEF Counted
<1>14. ~Prepared'
  BY <1>8 DEF Prepared
<1> QED
  BY <1>3, <1>11, <1>13, <1>14 DEF CountInv

\* OnDie takes one from the count of the team whose player has died.
LEMMA CountDie == ASSUME ArenaInv, CountInv, NEW t \in Team, OnDie(t) PROVE CountInv'
<1>1. Inv /\ Crew /\ CrewTyped /\ Phase
  BY DEF ArenaInv, Crew
<1>2. run \in Dying /\ (Waiting \/ Playing \/ Ending)
  BY <1>1, CallPhase DEF OnDie, Running
<1>3. /\ UNCHANGED <<state, members, bg, place, corpse>> /\ UNCHANGED vars
  BY DEF OnDie
<1>4. /\ UNCHANGED <<online, slot, status, playerMatch, dead, team, deserter>> /\ Prepared' = Prepared
  BY <1>3, Untouched
<1>5. /\ Unmatched' = Unmatched /\ Enlisted' = Enlisted
      /\ \A u \in Team : Living(u)' = Living(u) /\ Loyal(u)' = Loyal(u)
  BY <1>3, <1>4 DEF Unmatched, Enlisted, Living, InArena, Loyal
<1>6. CASE state # 2 \/ slot[Home] = 0
  BY <1>3, <1>4, <1>5, <1>6 DEF CountInv
<1>7. CASE state = 2 /\ slot[Home] # 0
  <2>1. Playing /\ run = <<Event("die", t)>>
    <3>1. PICK u \in Team : run = <<Event("die", u)>>
      BY <1>2 DEF Dying
    <3>2. u = t
      BY <3>1, QueueFacts, CallFacts DEF OnDie
    <3> QED
      BY <1>2, <1>7, <3>1, <3>2 DEF Waiting, Ending
  <2>2. ~Prepared
    BY <2>1, QueueFacts, CallFacts DEF Playing
  <2>3. Enlisted /\ Counted
    BY <1>7, <2>2 DEF CountInv
  <2>4. count' = Decremented(t) /\ count \in [Team -> Nat]
    BY <1>1, <1>7 DEF OnDie, CrewTyped
  <2>5. \A u : Owed(u)' = 0
    <3>1. Tail(run) = <<>> /\ Other(t) \in Team
      BY <2>1, QueueFacts, TeamFacts
    <3>2. <<Event("win", Other(t))>> \o Tail(run) = <<Event("win", Other(t))>>
      BY <3>1, JoinFacts
    <3>3. run' = <<>> \/ run' = <<Event("win", Other(t))>>
      BY <1>7, <3>1, <3>2 DEF OnDie
    <3>4. \A u : run' # <<Event("die", u)>>
      BY <3>3, QueueFacts, CallFacts
    <3> QED
      BY <3>4 DEF Owed
  <2>6. ASSUME NEW u \in Team, Loyal(u)' PROVE (Cardinality(Living(u)) + Owed(u) <= count[u])'
    <3>1. Cardinality(Living(u)) + Owed(u) <= count[u]
      BY <1>5, <2>3, <2>6 DEF Counted
    <3>2. Cardinality(Living(u)) \in Nat /\ Living(u)' = Living(u) /\ Owed(u)' = 0
      BY <1>1, <1>5, <2>5, LivingFacts, SmallerTeam
    <3>3. Owed(u) = IF u = t THEN 1 ELSE 0
      BY <2>1, OwedFacts
    <3>4. /\ u = t => count'[u] = IF count[u] > 0 THEN count[u] - 1 ELSE count[u]
          /\ u # t => count'[u] = count[u]
          /\ count[u] \in Nat
      BY <2>4, DecrementFacts
    <3> QED
      BY <3>1, <3>2, <3>3, <3>4
  <2>7. Counted'
    BY <2>6 DEF Counted
  <2> QED
    BY <1>3, <1>4, <1>5, <1>7, <2>2, <2>3, <2>7 DEF CountInv
<1> QED
  BY <1>6, <1>7

\* The calls of an event.
LEMMA CountCalls == ASSUME ArenaInv, CountInv, Calls PROVE CountInv'
<1>1. Inv /\ Crew /\ CrewTyped /\ Phase
  BY DEF ArenaInv, Crew
<1>2. CASE NotReady \/ OnStartSleep
  <2>1. UNCHANGED <<state, members, count, bg, place, corpse>> /\ UNCHANGED vars
    BY <1>2 DEF NotReady, OnStartSleep
  <2>2. run' = <<>>
    <3>1. run = <<Call("ready")>> \/ run = <<Call("started")>>
      BY <1>1, <1>2, CallPhase DEF NotReady, OnStartSleep, Running
    <3>2. run' = Tail(run)
      BY <1>2 DEF NotReady, OnStartSleep
    <3> QED
      BY <3>1, <3>2, QueueFacts
  <2> QED
    BY <1>1, <2>1, <2>2, Untouched, CountSame
<1>3. CASE OnStartCreate
  <2>1. state' = 1 /\ state = 1 /\ UNCHANGED <<place, playerMatch>>
    BY <1>1, <1>3, CallPhase DEF OnStartCreate, CreateMatch, Running, Starting
  <2>2. Unmatched'
    BY <2>1 DEF CountInv, Unmatched
  <2> QED
    BY <2>1, <2>2, CountWaiting
<1>4. CASE Warp
  <2>1. Starting \/ Ending \/ Clearing \/ Resetting
    BY <1>1, <1>4, CallPhase DEF Warp, Running
  <2>2. CASE Starting
    <3>1. (\E c \in online : SetPos(c) /\ Moved(c, Head(run).to)) \/ UNCHANGED <<vars, place>>
      BY <1>4 DEF Warp
    <3>2. state = 1 /\ state' = 1 /\ Unmatched
      BY <1>4, <2>2 DEF Warp, Starting, CountInv
    <3>3. CASE UNCHANGED <<vars, place>>
      BY <3>2, <3>3, Untouched, CountWaiting DEF Unmatched
    <3>4. ASSUME NEW c \in online, SetPos(c), Moved(c, Head(run).to) PROVE CountInv'
      <4>1. c \in Char /\ SetPosEffect(c) /\ \A d \in Char : d # c => place'[d] = place[d]
        BY <1>1, <3>4, RegistryTypes DEF SetPos, Moved, CrewTyped
      <4>2. Unmatched'
        BY <1>1, <3>2, <4>1, SetPosFacts DEF Unmatched
      <4> QED
        BY <3>2, <4>2, CountWaiting
    <3> QED
      BY <3>1, <3>3, <3>4
  <2>3. CASE Ending \/ Clearing \/ Resetting
    <3>1. state' = state /\ slot' = slot
      BY <1>4, Untouched DEF Warp, SetPos
    <3>2. state # 1 /\ slot[Home] = 0
      <4>1. Head(run).ev = "warp"
        BY <1>4 DEF Warp, Running
      <4>2. /\ run # <<Call("cancel"), Call("destroy")>>
            /\ \A W \in SUBSET Char :
                   run # <<Call("cancel"), BgWarp(W, "out"), MapWarp, Call("destroy")>>
        BY <4>1, QueueFacts, CallFacts
      <4> QED
        BY <2>3, <4>2 DEF Ending, Clearing, Resetting
    <3> QED
      BY <3>1, <3>2, CountVacuous
  <2> QED
    BY <2>1, <2>2, <2>3
<1>5. CASE Cancel
  <2>1. slot'[Home] = 0 /\ state' = state
    BY <1>1, <1>5, CancelFacts, Untouched DEF Cancel
  <2>2. state # 1
    <3>1. (Aborting /\ run = <<Call("cancel"), Call("reset")>>) \/ Clearing \/ Resetting
      BY <1>1, <1>5, CallPhase DEF Cancel, Running
    <3> QED
      BY <3>1 DEF Aborting, Clearing, Resetting
  <2> QED
    BY <2>1, <2>2, CountVacuous
<1>6. CASE OnReset
  <2>1. Aborting /\ run = <<Call("reset")>>
    BY <1>1, <1>6, CallPhase DEF OnReset, Running
  <2>2. state # 1 /\ (state = 2 => slot[Home] = 0)
    BY <2>1, QueueFacts, CallFacts DEF Aborting
  <2> QED
    BY <1>6, <2>2, Untouched, CountVacuous DEF OnReset
<1>7. CASE BgDestroy
  <2>1. slot[Home] = 0 /\ Clearing
    BY <1>1, <1>7, CallPhase DEF BgDestroy, Running
  <2> QED
    BY <1>7, <2>1, Untouched, CountVacuous DEF BgDestroy, Clearing
<1>8. ASSUME NEW t \in Team, OnWin(t) PROVE CountInv'
  <2>1. slot'[Home] = 0 /\ state' = state
    BY <1>1, <1>8, FinishFacts, Untouched DEF OnWin
  <2>2. state = 2
    BY <1>1, <1>8, CallPhase DEF OnWin, Running, Playing, Ending
  <2> QED
    BY <2>1, <2>2, CountVacuous
<1> QED
  BY <1>2, <1>3, <1>4, <1>5, <1>6, <1>7, <1>8, CountBegin, CountDie DEF Calls

\* The timers.
LEMMA CountTimers == ASSUME ArenaInv, CountInv, Timers PROVE CountInv'
<1>1. Inv /\ Crew /\ CrewTyped /\ Phase /\ Clock
  BY DEF ArenaInv, Crew
<1>2. CASE Tick
  <2>1. UNCHANGED <<state, members, count, bg, place, corpse, run>> /\ UNCHANGED vars
    BY <1>2 DEF Tick
  <2> QED
    BY <1>1, <2>1, Untouched, CountSame
<1>3. CASE OnTimer25000
  <2>1. UNCHANGED <<members, count, bg, place, corpse>> /\ UNCHANGED vars
    BY <1>3 DEF OnTimer25000
  <2>2. CASE state' = 3
    BY <2>2, CountVacuous
  <2>3. CASE UNCHANGED <<state, run>>
    BY <1>1, <2>1, <2>3, Untouched, CountSame
  <2> QED
    BY <1>3, <2>2, <2>3 DEF OnTimer25000
<1>4. CASE OnTimer30000
  <2>1. UNCHANGED <<members, place>> /\ UNCHANGED vars /\ run = <<>> /\ timer.at = "begin"
    BY <1>4 DEF OnTimer30000, Idle
  <2>2. CASE state' = 3
    BY <2>2, CountVacuous
  <2>3. CASE state' = 2 /\ count' = [t \in Team |-> Cardinality(members[t])]
    <3>1. Waiting
      <4>1. ~Free /\ ~Ending /\ ~Resetting /\ ~Playing
        BY <2>1 DEF Free, Ending, Resetting, Playing
      <4> QED
        BY <1>1, <2>1, <4>1, IdlePhase
    <3>2. Unmatched /\ Prepared
      BY <3>1 DEF Waiting, CountInv
    <3>3. Unmatched' /\ Prepared'
      BY <2>1, <3>2, Untouched DEF Unmatched
    <3>4. \A t \in Team : count'[t] = Cardinality(members'[t])
      BY <2>1, <2>3
    <3> QED
      BY <2>3, <3>3, <3>4 DEF CountInv
  <2> QED
    BY <1>4, <2>2, <2>3 DEF OnTimer30000
<1>5. CASE OnTimer450000
  <2>1. UNCHANGED <<state, members, count, bg, place, corpse>> /\ run = <<>> /\ timer.at = "end"
    BY <1>5 DEF OnTimer450000, Idle
  <2>2. CASE (\E t \in Team : run' = <<Event("win", t)>>) /\ UNCHANGED vars
    <3>1. run' \in Winning
      BY <2>2 DEF Winning
    <3> QED
      BY <1>1, <2>1, <2>2, <3>1, Untouched, CountSame
  <2>3. CASE IF slot[Home] # 0 THEN Finish(Home, "none", TRUE) ELSE UNCHANGED vars
    <3>1. slot'[Home] = 0
      BY <1>1, <2>3, FinishFacts, Untouched
    <3>2. state # 1
      <4>1. ~Waiting
        BY <2>1 DEF Waiting
      <4> QED
        BY <1>1, <2>1, <4>1, IdlePhase DEF Free, Playing, Ending, Resetting
    <3> QED
      BY <2>1, <3>1, <3>2, CountVacuous
  <2> QED
    BY <1>5, <2>2, <2>3 DEF OnTimer450000
<1>6. CASE OnOut
  <2>1. UNCHANGED <<state, slot>> /\ run = <<>> /\ out = 0
    BY <1>6, Untouched DEF OnOut, Idle
  <2>2. Ending
    BY <1>1, <2>1, IdlePhase DEF Free, Waiting, Playing, Resetting, Calm
  <2> QED
    BY <2>1, <2>2, CountVacuous DEF Ending
<1>7. CASE WakeStarted
  <2>1. UNCHANGED <<state, place>> /\ UNCHANGED vars /\ run = <<>> /\ Due("started")
    BY <1>7 DEF WakeStarted, Idle
  <2>2. Free \/ Waiting \/ Resetting
    BY <2>1, DuePhase, LabelFacts
  <2>3. CASE Waiting
    <3>1. state' = 1 /\ Unmatched'
      BY <2>1, <2>3, Untouched DEF Waiting, CountInv, Unmatched
    <3> QED
      BY <3>1, CountWaiting
  <2>4. CASE Free \/ Resetting
    BY <2>1, <2>4, Untouched, CountVacuous DEF Free, Resetting
  <2> QED
    BY <2>2, <2>3, <2>4
<1>8. CASE WakeStop \/ WakeWarp \/ WakeClear
  <2>1. Ending
    BY <1>8, DuePhase, LabelFacts DEF WakeStop, WakeWarp, WakeClear, Idle
  <2>2. state' = state /\ slot' = slot
    BY <1>8, <2>1, Untouched DEF WakeStop, WakeWarp, WakeClear, Ending
  <2> QED
    BY <2>1, <2>2, CountVacuous DEF Ending
<1>9. CASE WakeReset \/ WakeRespawn \/ WakeIdle
  <2>1. Resetting
    BY <1>9, DuePhase, LabelFacts DEF WakeReset, WakeRespawn, WakeIdle, Idle
  <2>2. (state' = state \/ state' = 0) /\ slot' = slot
    BY <1>9, Untouched DEF WakeReset, WakeRespawn, WakeIdle
  <2> QED
    BY <2>1, <2>2, CountVacuous DEF Resetting
<1> QED
  BY <1>2, <1>3, <1>4, <1>5, <1>6, <1>7, <1>8, <1>9 DEF Timers

\* The death of a player: its team has one fighter less and is owed one count,
\* or the player has deserted and its team is not counted exactly any more.
LEMMA CountDies == ASSUME Prompt, ArenaInv, CountInv, NEW c \in Char, PlayerDies(c) PROVE CountInv'
<1>1. Inv /\ Crew /\ CrewTyped /\ Phase
  BY DEF ArenaInv, Crew
<1>2. /\ run = <<>> /\ NothingDue /\ bg[c] # "none" /\ c \in InArena /\ c \notin corpse
      /\ UNCHANGED <<state, count, members, bg, place>>
      /\ run' = <<Event("die", bg[c])>>
  BY DEF PlayerDies, Listening, Idle
<1>3. UNCHANGED <<online, slot, status, team, deserter, playerMatch>>
  BY Untouched DEF PlayerDies, OnDeath
<1>4. Unmatched' = Unmatched /\ Enlisted' = Enlisted /\ Prepared' = Prepared
      /\ \A t \in Team : Loyal(t)' = Loyal(t)
  BY <1>2, <1>3 DEF Unmatched, Enlisted, Prepared, Loyal
<1>5. CASE state # 2 \/ slot[Home] = 0
  BY <1>2, <1>3, <1>4, <1>5 DEF CountInv
<1>6. CASE state = 2 /\ slot[Home] # 0
  <2>1. ~Prepared
    BY <1>2, <1>6, MemberInside DEF Waiting, Ending
  <2>2. Enlisted /\ Counted
    BY <1>6, <2>1 DEF CountInv
  <2>3. slot[Home] \in Id
    BY <1>1, <1>6, RegistryTypes
  <2>4. bg[c] \in Team /\ team[slot[Home]][c] = bg[c]
    BY <1>1, <1>2, <2>2, TeamFacts DEF CrewTyped, Enlisted
  <2>5. \A t : Owed(t)' = IF t = bg[c] THEN 1 ELSE 0
    <3>1. \A t : run' = <<Event("die", t)>> <=> t = bg[c]
      BY <1>2, QueueFacts, CallFacts
    <3> QED
      BY <3>1 DEF Owed
  <2>6. \/ /\ OnDeath(c) /\ UNCHANGED corpse
        \/ /\ playerMatch[c] = 0 /\ corpse' = corpse \cup {c} /\ UNCHANGED vars
    BY DEF PlayerDies
  <2>7. \A t \in Team : Living(t)' \subseteq Living(t)
    <3>1. CASE OnDeath(c) /\ UNCHANGED corpse
      <4>1. dead[slot[Home]] \subseteq dead'[slot[Home]]
        BY <1>1, <2>3, <3>1, RegistryTypes DEF OnDeath
      <4> QED
        BY <1>2, <1>3, <3>1, <4>1 DEF Living, InArena
    <3>2. CASE corpse' = corpse \cup {c} /\ UNCHANGED vars
      BY <1>2, <1>3, <3>2, Untouched DEF Living, InArena
    <3> QED
      BY <2>6, <3>1, <3>2
  <2>8. ASSUME NEW t \in Team, Loyal(t)' PROVE (Cardinality(Living(t)) + Owed(t) <= count[t])'
    <3>1. Cardinality(Living(t)) + Owed(t) <= count[t] /\ Owed(t) = 0 /\ count'[t] = count[t]
      BY <1>2, <1>4, <2>2, <2>8, OwedFacts DEF Counted
    <3>2. /\ Living(t) \in SUBSET Char /\ Living(t)' \in SUBSET Living(t)
          /\ Cardinality(Living(t)) \in Nat /\ Cardinality(Living(t)') \in Nat
          /\ Cardinality(Living(t)') <= Cardinality(Living(t)) /\ count[t] \in Nat
      BY <1>1, <2>7, LivingFacts, SmallerTeam DEF CrewTyped
    <3>3. CASE t # bg[c]
      BY <2>5, <3>1, <3>2, <3>3
    <3>4. CASE t = bg[c]
      <4>1. c \notin deserter[slot[Home]]
        BY <1>4, <2>4, <2>8, <3>4 DEF Loyal
      <4>2. playerMatch[c] = slot[Home]
        BY <1>2, <2>2, <4>1 DEF Enlisted
      <4>3. OnDeath(c)
        BY <1>6, <2>6, <4>2
      <4>4. c \in Living(t)
        BY <1>2, <1>6, <2>4, <3>4, <4>2, <4>3 DEF Living, OnDeath
      <4>5. c \in dead'[slot[Home]]
        BY <1>1, <2>3, <4>2, <4>3, RegistryTypes DEF OnDeath
      <4>6. c \notin Living(t)'
        BY <1>3, <4>5 DEF Living
      <4>7. Cardinality(Living(t)') + 1 <= Cardinality(Living(t))
        BY <3>2, <4>4, <4>6, OneLess
      <4> QED
        BY <2>5, <3>1, <3>2, <3>4, <4>7
    <3> QED
      BY <3>3, <3>4
  <2>9. Counted'
    BY <2>8 DEF Counted
  <2> QED
    BY <1>2, <1>4, <2>1, <2>2, <2>9 DEF CountInv
<1> QED
  BY <1>5, <1>6

\* The end of a session: a fighter who quits deserts its team.
LEMMA CountQuits == ASSUME Prompt, ArenaInv, CountInv, NEW c \in Char, PlayerQuits(c) PROVE CountInv'
<1>1. Inv /\ Crew /\ CrewTyped /\ Phase
  BY DEF ArenaInv, Crew
<1>2. /\ run = <<>> /\ NothingDue /\ UNCHANGED members
      /\ bg' = [bg EXCEPT ![c] = "none"] /\ place' = [place EXCEPT ![c] = "out"]
      /\ corpse' = corpse \ {c}
  BY DEF PlayerQuits, Listening, Idle
<1>3. /\ place'[c] = "out" /\ bg'[c] = "none"
      /\ \A d \in Char : d # c => place'[d] = place[d] /\ bg'[d] = bg[d]
  BY <1>1, <1>2 DEF CrewTyped
<1>4. /\ online' = online \ {c} /\ UNCHANGED <<dead, slot, status, team>>
      /\ \A d \in Char : d # c => playerMatch'[d] = playerMatch[d]
  <2>1. \E leave \in BOOLEAN : Quit(c, leave)
    <3>1. Quit(c, FALSE) \/ Quit(c, slot[Home] # 0)
      BY DEF PlayerQuits, OnQuit
    <3> QED
      BY <3>1, Zenon
  <2> QED
    BY <1>1, <2>1, QuitFacts
<1>5. Unmatched => Unmatched'
  BY <1>3, <1>4, HomeAssumption DEF Unmatched
<1>6. \A t \in Team : Living(t)' \subseteq Living(t) /\ c \notin Living(t)'
  <2>1. \A d \in online' : d \in online /\ d # c /\ d \in Char
    BY <1>1, <1>4, RegistryTypes
  <2> QED
    BY <1>2, <1>3, <1>4, <2>1 DEF Living, InArena
<1>7. CASE UNCHANGED <<state, count, run>> /\ (bg[c] = "none" \/ state # 2) /\ Quit(c, FALSE)
  <2>1. UNCHANGED <<deserter, playerMatch>>
    BY <1>7 DEF Quit
  <2>2. Enlisted => Enlisted'
    BY <1>3, <1>4, <2>1 DEF Enlisted
  <2>3. \A t \in Team : /\ Loyal(t)' => Loyal(t)
                        /\ Owed(t)' <= Owed(t) /\ Owed(t)' \in {0, 1}
    BY <1>4, <1>7, <2>1, OwedFacts DEF Loyal, Owed
  <2> QED
    BY <1>1, <1>2, <1>4, <1>5, <1>6, <1>7, <2>2, <2>3, CountFrame
<1>8. CASE state' = 3
  BY <1>8, CountVacuous
<1>9. CASE /\ bg[c] # "none" /\ state = 2 /\ UNCHANGED state /\ Quit(c, slot[Home] # 0)
           /\ count' = Decremented(bg[c])
           /\ run' = <<>> \/ run' = <<Event("win", Other(bg[c]))>>
  <2>1. CASE slot[Home] = 0
    BY <1>4, <1>9, <2>1, CountVacuous
  <2>2. CASE slot[Home] # 0
    <3>1. ~Prepared /\ Prepared' = Prepared
      BY <1>2, <1>4, <1>9, <2>2, MemberInside DEF Waiting, Ending, Prepared
    <3>2. Enlisted /\ Counted
      BY <1>9, <2>2, <3>1 DEF CountInv
    <3>3. slot[Home] \in Id /\ deserter \in [Id -> SUBSET Char]
      BY <1>1, <2>2, RegistryTypes
    <3>4. bg[c] \in Team /\ team[slot[Home]][c] = bg[c]
      BY <1>1, <1>9, <3>2, TeamFacts DEF CrewTyped, Enlisted
    <3>5. /\ deserter[slot[Home]] \subseteq deserter'[slot[Home]]
          /\ c \in deserter'[slot[Home]]
      <4>1. CASE playerMatch[c] = 0
        <5>1. UNCHANGED deserter
          BY <1>9, <4>1 DEF Quit
        <5> QED
          BY <1>9, <2>2, <3>2, <4>1, <5>1 DEF Enlisted
      <4>2. CASE playerMatch[c] # 0
        <5>1. deserter' = [deserter EXCEPT ![playerMatch[c]] = @ \cup {c}]
          BY <1>9, <2>2, <4>2 DEF Quit, RemovePlayer
        <5>2. playerMatch[c] \in Id
          BY <1>1, <4>2, RegistryTypes
        <5>3. playerMatch[c] = slot[Home] \/ c \in deserter[slot[Home]]
          BY <1>9, <3>2 DEF Enlisted
        <5> QED
          BY <3>3, <5>1, <5>2, <5>3
      <4> QED
        BY <4>1, <4>2
    <3>6. Enlisted'
      BY <1>3, <1>4, <3>2, <3>5 DEF Enlisted
    <3>7. ASSUME NEW t \in Team, Loyal(t)' PROVE (Cardinality(Living(t)) + Owed(t) <= count[t])'
      <4>1. t # bg[c] /\ Loyal(t)
        BY <1>4, <3>4, <3>5, <3>7 DEF Loyal
      <4>2. Cardinality(Living(t)) + Owed(t) <= count[t] /\ Owed(t) = 0
        BY <1>2, <3>2, <4>1, OwedFacts DEF Counted
      <4>3. count'[t] = count[t] /\ count[t] \in Nat
        BY <1>1, <1>9, <3>4, <4>1, DecrementFacts DEF CrewTyped
      <4>4. /\ Cardinality(Living(t)) \in Nat /\ Cardinality(Living(t)') \in Nat
            /\ Cardinality(Living(t)') <= Cardinality(Living(t))
        BY <1>1, <1>6, LivingFacts, SmallerTeam
      <4>5. Owed(t)' = 0
        <5>0. /\ <<Event("die", t)>> # <<>>
              /\ \A u : <<Event("die", t)>> # <<Event("win", u)>>
          BY DEF Event
        <5>1. run' # <<Event("die", t)>>
          BY <1>9, <5>0
        <5> QED
          BY <5>1 DEF Owed
      <4> QED
        BY <4>2, <4>3, <4>4, <4>5
    <3>8. Counted'
      BY <3>7 DEF Counted
    <3> QED
      BY <1>9, <3>1, <3>6, <3>8 DEF CountInv
  <2> QED
    BY <2>1, <2>2
<1> QED
  <2>1. \/ bg[c] # "none" /\ OnQuit(c, bg[c])
        \/ bg[c] = "none" /\ Quit(c, FALSE) /\ UNCHANGED <<state, count, run>>
    BY DEF PlayerQuits
  <2>2. ASSUME bg[c] # "none", OnQuit(c, bg[c]) PROVE CountInv'
    <3>1. CASE state \in {0, 3} /\ Quit(c, FALSE) /\ UNCHANGED <<state, count, run>>
      <4>1. bg[c] = "none" \/ state # 2
        BY <3>1
      <4>2. Quit(c, FALSE)
        BY <3>1
      <4>3. UNCHANGED <<state, count, run>>
        BY <3>1
      <4> QED
        BY <4>1, <4>2, <4>3, <1>7
    <3>2. CASE /\ state = 2 /\ Quit(c, slot[Home] # 0) /\ count' = Decremented(bg[c])
               /\ run' = IF count'[bg[c]] < 1 THEN <<Event("win", Other(bg[c]))>> ELSE <<>>
               /\ UNCHANGED state
      <4>1. run' = <<>> \/ run' = <<Event("win", Other(bg[c]))>>
        BY <3>2
      <4> QED
        BY <1>9, <2>2, <3>2, <4>1
    <3> QED
      BY <1>8, <2>2, <3>1, <3>2 DEF OnQuit
  <2> QED
    BY <1>7, <2>1, <2>2

\* The players.
LEMMA CountPlayers == ASSUME Prompt, ArenaInv, CountInv, Players PROVE CountInv'
<1>1. Inv /\ Crew /\ CrewTyped /\ Phase
  BY DEF ArenaInv, Crew
<1>2. ASSUME NEW c \in Char, PlayerLogin(c) PROVE CountInv'
  <2>1. /\ SetPosEffect(c) /\ online' = online \cup {c}
        /\ UNCHANGED <<state, slot, status, team, members, count, run, bg, corpse>>
        /\ place' = [place EXCEPT ![c] = "out"]
    BY <1>2 DEF PlayerLogin, Login
  <2>2. \A d \in Char : d # c => place'[d] = place[d]
    BY <1>1, <2>1 DEF CrewTyped
  <2>3. online' \subseteq Char
    BY <1>1, <2>1, RegistryTypes
  <2> QED
    BY <2>1, <2>2, <2>3, CountSetPos
<1>3. ASSUME NEW c \in Char, NEW to \in {"out", Home}, PlayerWarp(c, to) PROVE CountInv'
  <2>1. /\ SetPosEffect(c) /\ SetPos(c) /\ Moved(c, to)
        /\ UNCHANGED <<state, slot, status, team, members, stale, count, run, online>>
    BY <1>3 DEF PlayerWarp, SetPos
  <2>2. /\ \A d \in Char : d # c => place'[d] = place[d] /\ bg'[d] = bg[d]
        /\ bg'[c] = bg[c] \/ bg'[c] = "none"
    BY <1>1, <2>1, CrewMove
  <2>3. corpse' = corpse \ {c} /\ online' \subseteq Char
    BY <1>1, <2>1, RegistryTypes DEF Moved
  <2> QED
    BY <2>1, <2>2, <2>3, CountSetPos
<1>4. ASSUME NEW B \in SUBSET Char, NEW R \in SUBSET Char, OnReadyCheck(B, R) PROVE CountInv'
  <2>1. state = 0 /\ state' = 1 /\ place' = place
    BY <1>4 DEF OnReadyCheck
  <2>2. NobodyInside
    BY <1>1, <2>1 DEF Phase, Free, Starting, Waiting, Playing, Ending, Aborting, Clearing, Resetting
  <2>3. Unmatched'
    BY <2>1, <2>2, HomeAssumption DEF NobodyInside, Unmatched
  <2> QED
    BY <2>1, <2>3, CountWaiting
<1> QED
  BY <1>2, <1>3, <1>4, CountDies, CountQuits DEF Players

\* The count of a team without deserters covers its fighters, and one more while
\* the die event of one of them has still to be served.
THEOREM CountsAreKept == ASSUME Prompt PROVE BattleSpec => []CountInv
<1>1. BattleInit => CountInv
  BY DEF BattleInit, CountInv
<1>2. ASSUME ArenaInv, CountInv, [BattleNext]_battleVars PROVE CountInv'
  <2>1. Inv /\ CrewTyped
    BY <1>2 DEF ArenaInv, Crew
  <2>2. CASE UNCHANGED battleVars
    BY <1>2, <2>1, <2>2, CountSame DEF battleVars, vars, registry, control
  <2>3. CASE StartServer
    BY <1>2, <2>1, <2>3, CountSame DEF StartServer, Boot, control
  <2> QED
    BY <1>2, <2>2, <2>3, CountCalls, CountTimers, CountPlayers DEF BattleNext
<1> QED
  BY <1>1, <1>2, ArenaIsInPhase, PTL DEF BattleSpec

\* A team that nobody deserted is never declared eliminated too early: its count
\* is at least the number of its fighters (CountCoversFighters).
THEOREM CountsCoverFighters == ASSUME Prompt PROVE BattleSpec => []CountCoversFighters
<1>1. ASSUME ArenaInv, CountInv PROVE CountCoversFighters
  <2>1. SUFFICES ASSUME state = 2, run = <<>>, slot[Home] # 0, NEW t \in Team, Loyal(t)
                 PROVE  Cardinality(Living(t)) <= count[t]
    BY DEF CountCoversFighters, Loyal
  <2>2. ~Prepared
    <3>1. Playing
      BY <1>1, <2>1, IdlePhase DEF ArenaInv, Free, Waiting, Ending, Resetting
    <3> QED
      BY <2>1, <3>1, QueueFacts DEF Playing, Dying, Winning
  <2>3. Cardinality(Living(t)) + Owed(t) <= count[t] /\ Owed(t) = 0
    BY <1>1, <2>1, <2>2, OwedFacts DEF CountInv, Counted
  <2>4. Cardinality(Living(t)) \in Nat
    BY <1>1, LivingFacts, SmallerTeam DEF ArenaInv
  <2> QED
    BY <2>3, <2>4
<1> QED
  BY <1>1, ArenaIsInPhase, CountsAreKept, PTL
=============================================================================
