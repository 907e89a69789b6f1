------------------------- MODULE SessionDataProofs --------------------------
(***************************************************************************)
(* With one map server, whatever is lost, repeated or kicked, the data of  *)
(* the character is never rolled back (NoRollback), and what the map       *)
(* server forgets is in the database (AckedIsSaved).                       *)
(*                                                                         *)
(* Packets travel from the map server to the char server in Ask, answers   *)
(* come back in Ans; an answer is behind everything that Ans held when the *)
(* request was handled.  The invariant says what may still be in the two   *)
(* queues while a player is active, is logging out, or is away.            *)
(***************************************************************************)
EXTENDS SessionsProofs

Ask == toChar[Home]
Ans == toMap[Home]

IsAuth(m)  == m.type = "auth"
IsOk(m)    == m.type = "auth ok"
IsSave(m)  == m.type = "save"
IsFinal(m) == m.type = "save" /\ m.final = TRUE
IsAck(m)   == m.type = "save ack"
Plain(m)   == m.type \notin {"auth", "auth ok", "save", "save ack"}

LoggingOut == node[Home].state = "logout"
InUse      == player[Home] # 0 \/ LoggingOut

\* Who moves has another map server to go to.
NoChange == node[Home].state # "change"

\* No login is under way while the character is in the game or being saved.
NoStaleLogin ==
    InUse => /\ \A i \in DOMAIN Ask : ~IsAuth(Ask[i])
             /\ \A i \in DOMAIN Ans : ~IsOk(Ans[i])

\* The login the map server waits for is the last one it has asked about.
LastLogin ==
    node[Home].state = "login" =>
        /\ \A i, j \in DOMAIN Ask : IsAuth(Ask[i]) /\ IsAuth(Ask[j]) /\ i < j => Ask[i].login # node[Home].login
        /\ \A i, j \in DOMAIN Ans : IsOk(Ans[i]) /\ IsOk(Ans[j]) /\ i < j => Ans[i].login # node[Home].login
        /\ \A i \in DOMAIN Ans, j \in DOMAIN Ask : IsOk(Ans[i]) /\ IsAuth(Ask[j]) => Ans[i].login # node[Home].login

\* A client asks once.
AskedIsSpent ==
    /\ \A i \in DOMAIN Ask : IsAuth(Ask[i]) => ticket[Ask[i].login] = Spent
    /\ \A i \in DOMAIN Ans : IsOk(Ans[i]) => ticket[Ans[i].login] = Spent

\* The player, the player logging out and an accepted login have the newest data.
Newest ==
    /\ player[Home] # 0 => data[Home].ver = latest
    /\ LoggingOut => node[Home].data.ver = latest
    /\ \A i \in DOMAIN Ans : IsOk(Ans[i]) => Ans[i].data.ver = latest

\* The database has the newest data, and no save under way will take it back.
Stored == saved.ver = latest /\ \A i \in DOMAIN Ask : IsSave(Ask[i]) => Ask[i].data.ver = latest

AwayIsStored == ~InUse => Stored
AckIsStored  == LoggingOut /\ (\E i \in DOMAIN Ans : IsAck(Ans[i])) => Stored

\* Saves behind a final save of the player logging out have the newest data.
FinalIsNewest ==
    LoggingOut => \A i, j \in DOMAIN Ask : IsFinal(Ask[i]) /\ IsSave(Ask[j]) /\ i <= j => Ask[j].data.ver = latest

\* Final saves and their acks of an earlier session come before the next login.
NoLateFinal ==
    /\ player[Home] # 0 => (\A i \in DOMAIN Ask : ~IsFinal(Ask[i])) /\ (\A i \in DOMAIN Ans : ~IsAck(Ans[i]))
    /\ \A i, j \in DOMAIN Ask : IsAuth(Ask[i]) /\ IsFinal(Ask[j]) => j < i
    /\ \A i, j \in DOMAIN Ans : IsOk(Ans[i]) /\ IsAck(Ans[j]) => j < i
    /\ \A i \in DOMAIN Ans, j \in DOMAIN Ask : IsOk(Ans[i]) => ~IsFinal(Ask[j])

RInv ==
    /\ NoChange /\ NoStaleLogin /\ LastLogin /\ AskedIsSpent /\ Newest
    /\ AwayIsStored /\ AckIsStored /\ FinalIsNewest /\ NoLateFinal

-----------------------------------------------------------------------------
(* Queues.                                                                 *)

\* Every packet of r is at the same place of q, or d places ahead, or says
\* nothing about logins and saves.
Shifted(r, q, d) ==
    \A i \in DOMAIN r : i \in Nat /\ (Plain(r[i]) \/ (i + d \in DOMAIN q /\ r[i] = q[i + d]))

\* A packet is of one kind.
LEMMA Kinds ==
    \A m : /\ Plain(m) => ~IsAuth(m) /\ ~IsOk(m) /\ ~IsSave(m) /\ ~IsFinal(m) /\ ~IsAck(m)
           /\ IsFinal(m) => IsSave(m)
           /\ ~(IsAuth(m) /\ IsSave(m)) /\ ~(IsOk(m) /\ IsAck(m))
    BY DEF Plain, IsAuth, IsOk, IsSave, IsFinal, IsAck

\* r is q without its first packet.
Tailed(r, q) ==
    /\ 1 \in DOMAIN q
    /\ \A i \in DOMAIN r : i \in Nat /\ i >= 1 /\ i + 1 \in DOMAIN q /\ r[i] = q[i + 1]

\* r is q with m behind it.
Extended(r, q, m) ==
    /\ Len(q) \in Nat
    /\ \A i \in DOMAIN q : i \in Nat /\ i < Len(q) + 1
    /\ \A i \in DOMAIN r : /\ i \in Nat
                            /\ \/ i \in DOMAIN q /\ r[i] = q[i]
                               \/ i = Len(q) + 1 /\ r[i] = m

\* The first packet leaves.
LEMMA TailOf ==
    ASSUME NEW S, NEW q \in Seq(S), q # <<>>
    PROVE  q[1] = Head(q) /\ Tailed(Tail(q), q)
    BY DEF Tailed

\* A packet is sent.
LEMMA AppendOf ==
    ASSUME NEW S, NEW q \in Seq(S), NEW m
    PROVE  Extended(Append(q, m), q, m)
    BY DEF Extended

\* What is not changed, taken from the front, emptied, or extended by a plain
\* packet is shifted.
LEMMA ShiftedQueues ==
    ASSUME NEW S, NEW q \in Seq(S)
    PROVE  /\ Shifted(q, q, 0)
           /\ Shifted(<< >>, q, 0)
           /\ q # <<>> => Shifted(Tail(q), q, 1)
           /\ \A m : Plain(m) => Shifted(Append(q, m), q, 0)
<1>1. Shifted(q, q, 0) /\ Shifted(<< >>, q, 0)
    BY DEF Shifted
<1>2. ASSUME q # <<>> PROVE Shifted(Tail(q), q, 1)
    BY <1>2, TailOf DEF Shifted, Tailed
<1>3. ASSUME NEW m, Plain(m) PROVE Shifted(Append(q, m), q, 0)
  <2> SUFFICES ASSUME NEW i \in DOMAIN Append(q, m)
               PROVE  /\ i \in Nat
                      /\ Plain(Append(q, m)[i]) \/ (i + 0 \in DOMAIN q /\ Append(q, m)[i] = q[i + 0])
      BY DEF Shifted
  <2> QED
      BY <1>3, AppendOf DEF Extended
<1> QED
    BY <1>1, <1>2, <1>3

\* Steps that only take packets from the queues, send plain ones, and at most
\* give up a login keep the invariant.
LEMMA Harmless ==
    ASSUME RInv, NEW a \in {0, 1}, NEW b \in {0, 1},
           Shifted(Ask', Ask, a), Shifted(Ans', Ans, b),
           UNCHANGED <<data, saved, latest>>, player'[Home] = player[Home],
           \/ node'[Home] = node[Home]
           \/ node[Home].state = "login" /\ node'[Home] = NoNode,
           player[Home] = 0 => \A t \in Login : ticket[t] = Spent => ticket'[t] = Spent,
           TInv
    PROVE  RInv'
<1>0. /\ NoChange /\ NoStaleLogin /\ LastLogin /\ AskedIsSpent /\ Newest
      /\ AwayIsStored /\ AckIsStored /\ FinalIsNewest /\ NoLateFinal
    BY DEF RInv
<1>1. \A i \in DOMAIN Ask' : i \in Nat /\ (Plain(Ask'[i]) \/ (i + a \in DOMAIN Ask /\ Ask'[i] = Ask[i + a]))
    BY DEF Shifted
<1>2. \A i \in DOMAIN Ans' : i \in Nat /\ (Plain(Ans'[i]) \/ (i + b \in DOMAIN Ans /\ Ans'[i] = Ans[i + b]))
    BY DEF Shifted
<1>3. /\ LoggingOut' <=> LoggingOut
      /\ InUse' <=> InUse
      /\ node'[Home].state = "login" => node'[Home] = node[Home]
      /\ NoChange'
    BY <1>0 DEF LoggingOut, InUse, NoNode, NoChange
<1>4. NoStaleLogin'
    BY <1>0, <1>1, <1>2, <1>3, Kinds DEF NoStaleLogin
<1>5. LastLogin'
  <2> SUFFICES ASSUME node'[Home].state = "login"
               PROVE  /\ (\A i, j \in DOMAIN Ask : IsAuth(Ask[i]) /\ IsAuth(Ask[j]) /\ i < j
                                                   => Ask[i].login # node[Home].login)'
                      /\ (\A i, j \in DOMAIN Ans : IsOk(Ans[i]) /\ IsOk(Ans[j]) /\ i < j
                                                   => Ans[i].login # node[Home].login)'
                      /\ (\A i \in DOMAIN Ans, j \in DOMAIN Ask : IsOk(Ans[i]) /\ IsAuth(Ask[j])
                                                   => Ans[i].login # node[Home].login)'
      BY DEF LastLogin
  <2>1. \A i, j \in DOMAIN Ask' : IsAuth(Ask'[i]) /\ IsAuth(Ask'[j]) /\ i < j
                                                   => Ask'[i].login # node'[Home].login
      BY <1>0, <1>1, <1>3, Kinds DEF LastLogin
  <2>2. \A i, j \in DOMAIN Ans' : IsOk(Ans'[i]) /\ IsOk(Ans'[j]) /\ i < j
                                                   => Ans'[i].login # node'[Home].login
      BY <1>0, <1>2, <1>3, Kinds DEF LastLogin
  <2>3. \A i \in DOMAIN Ans', j \in DOMAIN Ask' : IsOk(Ans'[i]) /\ IsAuth(Ask'[j])
                                                   => Ans'[i].login # node'[Home].login
      BY <1>0, <1>1, <1>2, <1>3, Kinds DEF LastLogin
  <2> QED
      BY <2>1, <2>2, <2>3
<1>6. AskedIsSpent'
  <2>1. CASE player[Home] # 0
      BY <1>3, <1>4, <2>1 DEF AskedIsSpent, NoStaleLogin, InUse
  <2>2. CASE player[Home] = 0
    <3>1. /\ \A i \in DOMAIN Ask : IsAuth(Ask[i]) => Ask[i].login \in Login
          /\ \A i \in DOMAIN Ans : IsOk(Ans[i]) => Ans[i].login \in Login
      <4>0. Ask \in Seq(CharMsg) /\ Ans \in Seq(MapMsg)
          BY SessionBounds DEF TInv, LinkTyped, Ask, Ans
      <4>1. \A i \in DOMAIN Ask : Ask[i] \in CharMsg
          BY <4>0
      <4>2. \A i \in DOMAIN Ans : Ans[i] \in MapMsg
          BY <4>0
      <4> QED
          BY <4>1, <4>2, CharMsgFacts, MapMsgFacts DEF IsAuth, IsOk
    <3>2. (\A i \in DOMAIN Ask : IsAuth(Ask[i]) => ticket[Ask[i].login] = Spent)'
        BY <1>0, <1>1, <2>2, <3>1, Kinds DEF AskedIsSpent
    <3>3. (\A i \in DOMAIN Ans : IsOk(Ans[i]) => ticket[Ans[i].login] = Spent)'
        BY <1>0, <1>2, <2>2, <3>1, Kinds DEF AskedIsSpent
    <3> QED
        BY <3>2, <3>3 DEF AskedIsSpent
  <2> QED
      BY <2>1, <2>2
<1>7. Newest'
  <2>1. (player[Home] # 0 => data[Home].ver = latest)'
      BY <1>0 DEF Newest
  <2>2. (LoggingOut => node[Home].data.ver = latest)'
      BY <1>0, <1>3 DEF Newest, LoggingOut, NoNode
  <2>3. (\A i \in DOMAIN Ans : IsOk(Ans[i]) => Ans[i].data.ver = latest)'
      BY <1>0, <1>2, Kinds DEF Newest
  <2> QED
      BY <2>1, <2>2, <2>3 DEF Newest
<1>8. Stored => Stored'
    BY <1>1, Kinds DEF Stored
<1>9. AwayIsStored' /\ AckIsStored'
    BY <1>0, <1>2, <1>3, <1>8, Kinds DEF AwayIsStored, AckIsStored
<1>10. FinalIsNewest'
    BY <1>0, <1>1, <1>3, Kinds DEF FinalIsNewest
<1>11. NoLateFinal'
  <2>1. (player[Home] # 0 => (\A i \in DOMAIN Ask : ~IsFinal(Ask[i])) /\ (\A i \in DOMAIN Ans : ~IsAck(Ans[i])))'
      BY <1>0, <1>1, <1>2, Kinds DEF NoLateFinal
  <2>2. (\A i, j \in DOMAIN Ask : IsAuth(Ask[i]) /\ IsFinal(Ask[j]) => j < i)'
      BY <1>0, <1>1, Kinds DEF NoLateFinal
  <2>3. (\A i, j \in DOMAIN Ans : IsOk(Ans[i]) /\ IsAck(Ans[j]) => j < i)'
      BY <1>0, <1>2, Kinds DEF NoLateFinal
  <2>4. (\A i \in DOMAIN Ans, j \in DOMAIN Ask : IsOk(Ans[i]) => ~IsFinal(Ask[j]))'
      BY <1>0, <1>1, <1>2, Kinds DEF NoLateFinal
  <2> QED
      BY <2>1, <2>2, <2>3, <2>4 DEF NoLateFinal
<1> QED
    BY <1>3, <1>4, <1>5, <1>6, <1>7, <1>9, <1>10, <1>11 DEF RInv
-----------------------------------------------------------------------------
(* The steps that matter.                                                  *)

\* The conjuncts of the invariant, and the types of the queues.
LEMMA Parts ==
    ASSUME RInv, TInv
    PROVE  /\ NoChange /\ NoStaleLogin /\ LastLogin /\ AskedIsSpent /\ Newest
           /\ AwayIsStored /\ AckIsStored /\ FinalIsNewest /\ NoLateFinal
           /\ Ask \in Seq(CharMsg) /\ Ans \in Seq(MapMsg)
           /\ \A i \in DOMAIN Ask : Ask[i] \in CharMsg /\ (IsAuth(Ask[i]) => Ask[i].login \in Login)
           /\ \A i \in DOMAIN Ans : Ans[i] \in MapMsg /\ (IsOk(Ans[i]) => Ans[i].login \in Login)
<1>1. Ask \in Seq(CharMsg) /\ Ans \in Seq(MapMsg)
    BY SessionBounds DEF TInv, LinkTyped, Ask, Ans
<1>2. \A i \in DOMAIN Ask : Ask[i] \in CharMsg
    BY <1>1
<1>3. \A i \in DOMAIN Ans : Ans[i] \in MapMsg
    BY <1>1
<1>4. \A i \in DOMAIN Ask : IsAuth(Ask[i]) => Ask[i].login \in Login
    BY <1>2, CharMsgFacts DEF IsAuth
<1>5. \A i \in DOMAIN Ans : IsOk(Ans[i]) => Ans[i].login \in Login
    BY <1>3, MapMsgFacts DEF IsOk
<1> QED
    BY <1>1, <1>2, <1>3, <1>4, <1>5 DEF RInv

\* Every packet of r is in q, is plain, or is a save of the newest data behind
\* all of q.
Grown(r, q) ==
    \A i \in DOMAIN r :
        /\ i \in Nat
        /\ \/ Plain(r[i])
           \/ i \in DOMAIN q /\ r[i] = q[i]
           \/ IsSave(r[i]) /\ r[i].data.ver = latest /\ \A j \in DOMAIN q : j \in Nat /\ j < i

\* The map server sends saves: of the active player, or final ones.
LEMMA SaveSent ==
    ASSUME RInv, TInv, InUse, NEW b \in {0, 1},
           Grown(Ask', Ask), Shifted(Ans', Ans, b), UNCHANGED <<data, saved, latest>>,
           \/ /\ player[Home] # 0 /\ player'[Home] = player[Home] /\ node'[Home] = node[Home] /\ ~LoggingOut
              /\ \A i \in DOMAIN Ask' : IsFinal(Ask'[i]) => i \in DOMAIN Ask /\ Ask'[i] = Ask[i]
           \/ /\ player'[Home] = 0 /\ LoggingOut' /\ node'[Home].data.ver = latest
    PROVE  RInv'
<1>0. /\ NoChange /\ NoStaleLogin /\ LastLogin /\ AskedIsSpent /\ Newest
      /\ AwayIsStored /\ AckIsStored /\ FinalIsNewest /\ NoLateFinal
    BY Parts
<1>1. \A i \in DOMAIN Ask' :
        /\ i \in Nat
        /\ \/ Plain(Ask'[i])
           \/ i \in DOMAIN Ask /\ Ask'[i] = Ask[i]
           \/ IsSave(Ask'[i]) /\ Ask'[i].data.ver = latest /\ \A j \in DOMAIN Ask : j \in Nat /\ j < i
    BY DEF Grown
<1>2. \A i \in DOMAIN Ans' : i \in Nat /\ (Plain(Ans'[i]) \/ (i + b \in DOMAIN Ans /\ Ans'[i] = Ans[i + b]))
    BY DEF Shifted
<1>3. /\ \A i \in DOMAIN Ask : ~IsAuth(Ask[i])
      /\ \A i \in DOMAIN Ans : ~IsOk(Ans[i])
    BY <1>0 DEF NoStaleLogin
<1>4. /\ \A i \in DOMAIN Ask' : ~IsAuth(Ask'[i])
      /\ \A i \in DOMAIN Ans' : ~IsOk(Ans'[i])
    BY <1>1, <1>2, <1>3, Kinds
<1>5. NoStaleLogin' /\ LastLogin' /\ AskedIsSpent'
    BY <1>4 DEF NoStaleLogin, LastLogin, AskedIsSpent
<1>6. NoChange' /\ InUse'
    BY <1>0 DEF NoChange, InUse, LoggingOut
<1>7. Newest'
    BY <1>0, <1>4 DEF Newest, LoggingOut
<1>8. Stored => Stored'
    BY <1>1, Kinds DEF Stored
<1>9. AwayIsStored'
    BY <1>6 DEF AwayIsStored
<1>10. AckIsStored'
  <2> SUFFICES ASSUME LoggingOut', NEW i \in DOMAIN Ans', IsAck(Ans'[i])
               PROVE  Stored'
      BY DEF AckIsStored
  <2>1. i + b \in DOMAIN Ans /\ IsAck(Ans[i + b])
      BY <1>2, Kinds
  <2>2. player[Home] = 0
      BY <1>0, <2>1 DEF NoLateFinal
  <2> QED
      BY <1>0, <1>8, <2>1, <2>2 DEF InUse, AckIsStored
<1>11. FinalIsNewest'
  <2> SUFFICES ASSUME LoggingOut', NEW i \in DOMAIN Ask', NEW j \in DOMAIN Ask',
                      IsFinal(Ask'[i]), IsSave(Ask'[j]), i <= j
               PROVE  Ask'[j].data.ver = latest'
      BY DEF FinalIsNewest
  <2>1. CASE j \in DOMAIN Ask /\ Ask'[j] = Ask[j]
    <3>1. i \in DOMAIN Ask /\ Ask'[i] = Ask[i]
        BY <1>1, <2>1, Kinds
    <3>2. player[Home] = 0
        BY <1>0, <3>1 DEF NoLateFinal
    <3> QED
        BY <1>0, <2>1, <3>1, <3>2 DEF FinalIsNewest, InUse
  <2>2. CASE ~(j \in DOMAIN Ask /\ Ask'[j] = Ask[j])
      BY <1>1, <2>2, Kinds
  <2> QED
      BY <2>1, <2>2
<1>12. NoLateFinal'
  <2>1. (player[Home] # 0 => (\A i \in DOMAIN Ask : ~IsFinal(Ask[i])) /\ (\A i \in DOMAIN Ans : ~IsAck(Ans[i])))'
      BY <1>0, <1>2, Kinds DEF NoLateFinal, LoggingOut
  <2> QED
      BY <1>4, <2>1 DEF NoLateFinal
<1> QED
    BY <1>5, <1>6, <1>7, <1>9, <1>10, <1>11, <1>12 DEF RInv

\* chrif_authreq for a new client.
LEMMA LoginSent ==
    ASSUME RInv, TInv, ~InUse, NEW t \in Login, ticket[t] # Spent, ticket'[t] = Spent,
           \A x \in Login : ticket[x] = Spent => ticket'[x] = Spent,
           NEW m, IsAuth(m), m.login = t, Extended(Ask', Ask, m), Ans' = Ans,
           UNCHANGED <<player, data, saved, latest>>,
           node'[Home] = [NoNode EXCEPT !.state = "login", !.login = t]
    PROVE  RInv'
<1>0. /\ NoChange /\ NoStaleLogin /\ LastLogin /\ AskedIsSpent /\ Newest
      /\ AwayIsStored /\ AckIsStored /\ FinalIsNewest /\ NoLateFinal
      /\ \A i \in DOMAIN Ask : Ask[i] \in CharMsg /\ (IsAuth(Ask[i]) => Ask[i].login \in Login)
      /\ \A i \in DOMAIN Ans : Ans[i] \in MapMsg /\ (IsOk(Ans[i]) => Ans[i].login \in Login)
      /\ Ask \in Seq(CharMsg)
    BY Parts
<1>1. IsAuth(m) /\ ~IsSave(m) /\ ~IsFinal(m) /\ m.login = t
    BY Kinds
<1>a. /\ \A i \in DOMAIN Ask' : /\ i \in Nat
                                /\ \/ i \in DOMAIN Ask /\ Ask'[i] = Ask[i]
                                   \/ i = Len(Ask) + 1 /\ Ask'[i] = m
      /\ \A i \in DOMAIN Ask : i \in Nat /\ i < Len(Ask) + 1
      /\ Len(Ask) \in Nat
    BY DEF Extended
<1>2. /\ NoChange' /\ ~InUse' /\ ~LoggingOut' /\ player'[Home] = 0
      /\ node'[Home].login = t
    BY DEF NoChange, InUse, LoggingOut, NoNode
<1>3. NoStaleLogin' /\ Newest'
    BY <1>0, <1>2 DEF NoStaleLogin, Newest
<1>4. LastLogin'
  <2>1. /\ \A i \in DOMAIN Ask : IsAuth(Ask[i]) => Ask[i].login # t
        /\ \A i \in DOMAIN Ans : IsOk(Ans[i]) => Ans[i].login # t
      BY <1>0 DEF AskedIsSpent
  <2>2. (\A i, j \in DOMAIN Ask : IsAuth(Ask[i]) /\ IsAuth(Ask[j]) /\ i < j => Ask[i].login # node[Home].login)'
      BY <1>a, <1>2, <2>1
  <2>3. (\A i \in DOMAIN Ans : IsOk(Ans[i]) => Ans[i].login # node[Home].login)'
      BY <1>2, <2>1
  <2> QED
      BY <2>2, <2>3 DEF LastLogin
<1>5. AskedIsSpent'
    BY <1>0, <1>1, <1>a DEF AskedIsSpent
<1>6. AwayIsStored' /\ AckIsStored' /\ FinalIsNewest'
  <2>1. Stored
      BY <1>0 DEF AwayIsStored
  <2>2. Stored'
      BY <2>1, <1>1, <1>a DEF Stored
  <2> QED
      BY <1>2, <2>2 DEF AwayIsStored, AckIsStored, FinalIsNewest
<1>7. NoLateFinal'
  <2>1. (\A i, j \in DOMAIN Ask : IsAuth(Ask[i]) /\ IsFinal(Ask[j]) => j < i)'
      BY <1>0, <1>1, <1>a DEF NoLateFinal
  <2>2. (\A i \in DOMAIN Ans, j \in DOMAIN Ask : IsOk(Ans[i]) => ~IsFinal(Ask[j]))'
      BY <1>0, <1>1, <1>a DEF NoLateFinal
  <2> QED
      BY <1>0, <1>2, <2>1, <2>2 DEF NoLateFinal
<1> QED
    BY <1>2, <1>3, <1>4, <1>5, <1>6, <1>7 DEF RInv

\* chmapif_parse_reqauth accepts a login and sends the saved data.
LEMMA LoginAccepted ==
    ASSUME RInv, TInv, NEW m, Tailed(Ask', Ask), IsAuth(Ask[1]), Extended(Ans', Ans, m),
           IsOk(m), m.login = Ask[1].login, m.data = saved,
           UNCHANGED <<ticket, player, data, node, saved, latest>>
    PROVE  RInv'
<1>0. /\ NoChange /\ NoStaleLogin /\ LastLogin /\ AskedIsSpent /\ Newest
      /\ AwayIsStored /\ AckIsStored /\ FinalIsNewest /\ NoLateFinal
    BY Parts
<1>1. ~IsAck(m) /\ 1 \in DOMAIN Ask
    BY Kinds DEF Tailed
<1>a. \A i \in DOMAIN Ask' : i \in Nat /\ i >= 1 /\ i + 1 \in DOMAIN Ask /\ Ask'[i] = Ask[i + 1]
    BY DEF Tailed
<1>b. /\ \A i \in DOMAIN Ans' : /\ i \in Nat
                                /\ \/ i \in DOMAIN Ans /\ Ans'[i] = Ans[i]
                                   \/ i = Len(Ans) + 1 /\ Ans'[i] = m
      /\ \A i \in DOMAIN Ans : i \in Nat /\ i < Len(Ans) + 1
      /\ Len(Ans) \in Nat
    BY DEF Extended
<1>2. ~InUse /\ Stored
    BY <1>0, <1>1 DEF NoStaleLogin, AwayIsStored
<1>3. /\ ~InUse' /\ ~LoggingOut' /\ ~LoggingOut /\ player'[Home] = 0 /\ NoChange'
    BY <1>0, <1>2 DEF InUse, LoggingOut, NoChange
<1>4. NoStaleLogin'
    BY <1>3 DEF NoStaleLogin
<1>5. LastLogin'
  <2> SUFFICES ASSUME node[Home].state = "login"
               PROVE  /\ (\A i, j \in DOMAIN Ask : IsAuth(Ask[i]) /\ IsAuth(Ask[j]) /\ i < j
                                                   => Ask[i].login # node[Home].login)'
                      /\ (\A i, j \in DOMAIN Ans : IsOk(Ans[i]) /\ IsOk(Ans[j]) /\ i < j
                                                   => Ans[i].login # node[Home].login)'
                      /\ (\A i \in DOMAIN Ans, j \in DOMAIN Ask : IsOk(Ans[i]) /\ IsAuth(Ask[j])
                                                   => Ans[i].login # node[Home].login)'
      BY DEF LastLogin
  <2>1. (\A i, j \in DOMAIN Ask : IsAuth(Ask[i]) /\ IsAuth(Ask[j]) /\ i < j => Ask[i].login # node[Home].login)'
      BY <1>0, <1>a DEF LastLogin
  <2>2. (\A i, j \in DOMAIN Ans : IsOk(Ans[i]) /\ IsOk(Ans[j]) /\ i < j => Ans[i].login # node[Home].login)'
      BY <1>0, <1>1, <1>b DEF LastLogin
  <2>3. (\A i \in DOMAIN Ans, j \in DOMAIN Ask : IsOk(Ans[i]) /\ IsAuth(Ask[j]) => Ans[i].login # node[Home].login)'
      BY <1>0, <1>1, <1>a, <1>b DEF LastLogin
  <2> QED
      BY <2>1, <2>2, <2>3
<1>6. AskedIsSpent'
    BY <1>0, <1>1, <1>a, <1>b DEF AskedIsSpent
<1>7. Newest'
    BY <1>0, <1>1, <1>2, <1>3, <1>b DEF Newest, Stored
<1>8. AwayIsStored' /\ AckIsStored' /\ FinalIsNewest'
  <2>1. Stored'
      BY <1>2, <1>a DEF Stored
  <2> QED
      BY <1>3, <2>1 DEF AwayIsStored, AckIsStored, FinalIsNewest
<1>9. NoLateFinal'
  <2>1. (\A i, j \in DOMAIN Ask : IsAuth(Ask[i]) /\ IsFinal(Ask[j]) => j < i)'
      BY <1>0, <1>a DEF NoLateFinal
  <2>2. (\A i, j \in DOMAIN Ans : IsOk(Ans[i]) /\ IsAck(Ans[j]) => j < i)'
      BY <1>0, <1>1, <1>b DEF NoLateFinal
  <2>3. (\A i \in DOMAIN Ans, j \in DOMAIN Ask : IsOk(Ans[i]) => ~IsFinal(Ask[j]))'
    <3>1. \A j \in DOMAIN Ask' : ~IsFinal(Ask'[j])
      <4> TAKE j \in DOMAIN Ask'
      <4>1. j \in Nat /\ j >= 1 /\ j + 1 \in DOMAIN Ask /\ Ask'[j] = Ask[j + 1]
          BY <1>a
      <4>2. IsFinal(Ask[j + 1]) => j + 1 < 1
          BY <1>0, <1>1, <4>1 DEF NoLateFinal
      <4> QED
          BY <4>1, <4>2
    <3> QED
        BY <3>1
  <2> QED
      BY <1>3, <2>1, <2>2, <2>3 DEF NoLateFinal
<1> QED
    BY <1>3, <1>4, <1>5, <1>6, <1>7, <1>8, <1>9 DEF RInv

\* chrif_auth_finished: the player the map server has waited for is in the game.
LEMMA LoginDone ==
    ASSUME RInv, TInv, Tailed(Ans', Ans), IsOk(Ans[1]), Ask' = Ask,
           node[Home].state = "login", node[Home].login = Ans[1].login, node'[Home] = NoNode,
           player'[Home] # 0, data'[Home].ver = Ans[1].data.ver,
           UNCHANGED <<ticket, saved, latest>>
    PROVE  RInv'
<1>0. /\ NoChange /\ NoStaleLogin /\ LastLogin /\ AskedIsSpent /\ Newest
      /\ AwayIsStored /\ AckIsStored /\ FinalIsNewest /\ NoLateFinal
    BY Parts
<1>a. /\ 1 \in DOMAIN Ans
      /\ \A i \in DOMAIN Ans' : i \in Nat /\ i >= 1 /\ i + 1 \in DOMAIN Ans /\ Ans'[i] = Ans[i + 1]
    BY DEF Tailed
<1>1. /\ \A i \in DOMAIN Ask' : ~IsAuth(Ask'[i])
      /\ \A i \in DOMAIN Ask' : ~IsFinal(Ask'[i])
  <2>1. \A i \in DOMAIN Ask : ~IsAuth(Ask[i])
      BY <1>0, <1>a DEF LastLogin
  <2>2. \A i \in DOMAIN Ask : ~IsFinal(Ask[i])
      BY <1>0, <1>a DEF NoLateFinal
  <2> QED
      BY <2>1, <2>2
<1>2. \A i \in DOMAIN Ans' : ~IsOk(Ans'[i]) /\ ~IsAck(Ans'[i])
  <2> TAKE i \in DOMAIN Ans'
  <2>1. i \in Nat /\ 1 < i + 1 /\ ~(i + 1 < 1) /\ i + 1 \in DOMAIN Ans /\ Ans'[i] = Ans[i + 1]
      BY <1>a
  <2>2. ~IsOk(Ans[i + 1])
      BY <1>0, <1>a, <2>1 DEF LastLogin
  <2>3. ~IsAck(Ans[i + 1])
      BY <1>0, <1>a, <2>1 DEF NoLateFinal
  <2> QED
      BY <2>1, <2>2, <2>3
<1>3. ~LoggingOut' /\ NoChange' /\ InUse' /\ node'[Home].state # "login"
    BY DEF LoggingOut, NoChange, NoNode, InUse
<1>4. NoStaleLogin' /\ LastLogin' /\ AskedIsSpent' /\ NoLateFinal'
    BY <1>1, <1>2, <1>3 DEF NoStaleLogin, LastLogin, AskedIsSpent, NoLateFinal
<1>5. Newest'
    BY <1>0, <1>a, <1>2, <1>3 DEF Newest
<1>6. AwayIsStored' /\ AckIsStored' /\ FinalIsNewest'
    BY <1>3 DEF AwayIsStored, AckIsStored, FinalIsNewest
<1> QED
    BY <1>3, <1>4, <1>5, <1>6 DEF RInv

\* chrif_save_ack for a player that is logging out.
LEMMA LogoutDone ==
    ASSUME RInv, TInv, Tailed(Ans', Ans), IsAck(Ans[1]), Ask' = Ask,
           LoggingOut, player[Home] = 0, node'[Home] = NoNode,
           UNCHANGED <<ticket, player, data, saved, latest>>
    PROVE  RInv'
<1>0. /\ NoChange /\ NoStaleLogin /\ LastLogin /\ AskedIsSpent /\ Newest
      /\ AwayIsStored /\ AckIsStored /\ FinalIsNewest /\ NoLateFinal
    BY Parts
<1>a. /\ 1 \in DOMAIN Ans
      /\ \A i \in DOMAIN Ans' : i \in Nat /\ i >= 1 /\ i + 1 \in DOMAIN Ans /\ Ans'[i] = Ans[i + 1]
    BY DEF Tailed
<1>1. /\ \A i \in DOMAIN Ask' : ~IsAuth(Ask'[i])
      /\ \A i \in DOMAIN Ans' : ~IsOk(Ans'[i])
    BY <1>0, <1>a DEF NoStaleLogin, InUse
<1>2. ~LoggingOut' /\ NoChange' /\ player'[Home] = 0 /\ node'[Home].state # "login"
    BY DEF LoggingOut, NoChange, NoNode
<1>3. Stored /\ Stored'
  <2>1. Stored
      BY <1>0, <1>a DEF AckIsStored
  <2> QED
      BY <2>1 DEF Stored
<1>4. NoStaleLogin' /\ LastLogin' /\ AskedIsSpent' /\ NoLateFinal' /\ Newest'
    BY <1>1, <1>2 DEF NoStaleLogin, LastLogin, AskedIsSpent, NoLateFinal, Newest
<1>5. AwayIsStored' /\ AckIsStored' /\ FinalIsNewest'
    BY <1>2, <1>3 DEF AwayIsStored, AckIsStored, FinalIsNewest
<1> QED
    BY <1>2, <1>4, <1>5 DEF RInv

\* Something happens to the character.
LEMMA Played ==
    ASSUME RInv, TInv, player[Home] # 0, data'[Home].ver = latest', Ask' = Ask, Ans' = Ans,
           UNCHANGED <<ticket, player, node, saved>>
    PROVE  RInv'
<1>0. /\ NoChange /\ NoStaleLogin /\ LastLogin /\ AskedIsSpent /\ Newest
      /\ AwayIsStored /\ AckIsStored /\ FinalIsNewest /\ NoLateFinal
    BY Parts
<1>1. node[Home] = NoNode
    BY SessionBounds DEF TInv, OnePlace
<1>2. ~LoggingOut' /\ NoChange' /\ InUse /\ InUse' /\ node'[Home].state # "login"
    BY <1>1 DEF LoggingOut, NoChange, NoNode, InUse
<1>3. NoStaleLogin' /\ LastLogin' /\ AskedIsSpent' /\ NoLateFinal'
    BY <1>0, <1>2 DEF NoStaleLogin, LastLogin, AskedIsSpent, NoLateFinal
<1>4. Newest' /\ AwayIsStored' /\ AckIsStored' /\ FinalIsNewest'
    BY <1>0, <1>2 DEF NoStaleLogin, Newest, AwayIsStored, AckIsStored, FinalIsNewest
<1> QED
    BY <1>2, <1>3, <1>4 DEF RInv

\* chmapif_parse_reqsavechar writes the data and answers a final save.
LEMMA SaveTaken ==
    ASSUME RInv, TInv, Tailed(Ask', Ask), IsSave(Ask[1]), saved'.ver = Ask[1].data.ver,
           \/ ~IsFinal(Ask[1]) /\ Ans' = Ans
           \/ IsFinal(Ask[1]) /\ \E m : IsAck(m) /\ Extended(Ans', Ans, m),
           UNCHANGED <<ticket, player, data, node, latest>>
    PROVE  RInv'
<1>0. /\ NoChange /\ NoStaleLogin /\ LastLogin /\ AskedIsSpent /\ Newest
      /\ AwayIsStored /\ AckIsStored /\ FinalIsNewest /\ NoLateFinal
    BY Parts
<1>a. /\ 1 \in DOMAIN Ask
      /\ \A i \in DOMAIN Ask' : i \in Nat /\ i >= 1 /\ i + 1 \in DOMAIN Ask /\ Ask'[i] = Ask[i + 1]
    BY DEF Tailed
<1>b. \/ Ans' = Ans
      \/ /\ IsFinal(Ask[1])
         /\ Len(Ans) \in Nat
         /\ \A i \in DOMAIN Ans : i \in Nat /\ i < Len(Ans) + 1
         /\ \A i \in DOMAIN Ans' : /\ i \in Nat
                                   /\ \/ i \in DOMAIN Ans /\ Ans'[i] = Ans[i]
                                      \/ i = Len(Ans) + 1 /\ IsAck(Ans'[i])
    BY DEF Extended
<1>c. \A i \in DOMAIN Ans' : \/ i \in DOMAIN Ans /\ Ans'[i] = Ans[i]
                             \/ IsFinal(Ask[1]) /\ IsAck(Ans'[i])
    BY <1>b
<1>1. /\ NoChange' /\ (InUse' <=> InUse) /\ (LoggingOut' <=> LoggingOut)
    BY <1>0 DEF NoChange, InUse, LoggingOut
<1>2. NoStaleLogin'
    BY <1>0, <1>a, <1>c, <1>1, Kinds DEF NoStaleLogin
<1>3. LastLogin'
  <2> SUFFICES ASSUME node[Home].state = "login"
               PROVE  /\ (\A i, j \in DOMAIN Ask : IsAuth(Ask[i]) /\ IsAuth(Ask[j]) /\ i < j
                                                   => Ask[i].login # node[Home].login)'
                      /\ (\A i, j \in DOMAIN Ans : IsOk(Ans[i]) /\ IsOk(Ans[j]) /\ i < j
                                                   => Ans[i].login # node[Home].login)'
                      /\ (\A i \in DOMAIN Ans, j \in DOMAIN Ask : IsOk(Ans[i]) /\ IsAuth(Ask[j])
                                                   => Ans[i].login # node[Home].login)'
      BY DEF LastLogin
  <2>1. (\A i, j \in DOMAIN Ask : IsAuth(Ask[i]) /\ IsAuth(Ask[j]) /\ i < j => Ask[i].login # node[Home].login)'
      BY <1>0, <1>a DEF LastLogin
  <2>2. (\A i, j \in DOMAIN Ans : IsOk(Ans[i]) /\ IsOk(Ans[j]) /\ i < j => Ans[i].login # node[Home].login)'
      BY <1>0, <1>c, Kinds DEF LastLogin
  <2>3. (\A i \in DOMAIN Ans, j \in DOMAIN Ask : IsOk(Ans[i]) /\ IsAuth(Ask[j]) => Ans[i].login # node[Home].login)'
      BY <1>0, <1>a, <1>c, Kinds DEF LastLogin
  <2> QED
      BY <2>1, <2>2, <2>3
<1>4. AskedIsSpent'
    BY <1>0, <1>a, <1>c, Kinds DEF AskedIsSpent
<1>5. Newest'
    BY <1>0, <1>c, <1>1, Kinds DEF Newest
<1>6. Stored => Stored'
    BY <1>a DEF Stored
<1>7. LoggingOut /\ IsFinal(Ask[1]) => Stored'
  <2> SUFFICES ASSUME LoggingOut, IsFinal(Ask[1]) PROVE Stored'
      OBVIOUS
  <2>1. saved'.ver = latest'
      BY <1>0, <1>a DEF FinalIsNewest
  <2>2. ASSUME NEW i \in DOMAIN Ask', IsSave(Ask'[i]) PROVE Ask'[i].data.ver = latest'
    <3>1. i + 1 \in DOMAIN Ask /\ Ask'[i] = Ask[i + 1] /\ 1 <= i + 1
        BY <1>a
    <3> QED
        BY <1>0, <1>a, <2>2, <3>1 DEF FinalIsNewest
  <2> QED
      BY <2>1, <2>2 DEF Stored
<1>8. AwayIsStored'
    BY <1>0, <1>1, <1>6 DEF AwayIsStored
<1>9. AckIsStored'
    BY <1>0, <1>1, <1>c, <1>6, <1>7 DEF AckIsStored
<1>10. FinalIsNewest'
    BY <1>0, <1>1, <1>a DEF FinalIsNewest
<1>11. NoLateFinal'
  <2>1. (player[Home] # 0 => (\A i \in DOMAIN Ask : ~IsFinal(Ask[i])) /\ (\A i \in DOMAIN Ans : ~IsAck(Ans[i])))'
      BY <1>0, <1>a, <1>c DEF NoLateFinal
  <2>2. (\A i, j \in DOMAIN Ask : IsAuth(Ask[i]) /\ IsFinal(Ask[j]) => j < i)'
      BY <1>0, <1>a DEF NoLateFinal
  <2>3. (\A i, j \in DOMAIN Ans : IsOk(Ans[i]) /\ IsAck(Ans[j]) => j < i)'
      BY <1>0, <1>a, <1>c, Kinds DEF NoLateFinal
  <2>4. (\A i \in DOMAIN Ans, j \in DOMAIN Ask : IsOk(Ans[i]) => ~IsFinal(Ask[j]))'
      BY <1>0, <1>a, <1>c, Kinds DEF NoLateFinal
  <2> QED
      BY <2>1, <2>2, <2>3, <2>4 DEF NoLateFinal
<1> QED
    BY <1>1, <1>2, <1>3, <1>4, <1>5, <1>8, <1>9, <1>10, <1>11 DEF RInv

-----------------------------------------------------------------------------
(* Every action of a system with one map server.                           *)

\* What Post does to a queue.
LEMMA Posted ==
    ASSUME Server = {Home}, TInv, NEW s \in Server, NEW m
    PROVE  /\ Post(toMap, s, m)[Home] = IF up[Home] THEN Append(Ans, m) ELSE Ans
           /\ Post(toChar, s, m)[Home] = IF up[Home] THEN Append(Ask, m) ELSE Ask
           /\ Plain(m) => /\ Shifted(Post(toMap, s, m)[Home], Ans, 0)
                          /\ Shifted(Post(toChar, s, m)[Home], Ask, 0)
<1>0. s = Home /\ toMap \in [Server -> Seq(MapMsg)] /\ toChar \in [Server -> Seq(CharMsg)]
    BY DEF TInv, LinkTyped
<1>1. /\ Post(toMap, s, m)[Home] = IF up[Home] THEN Append(Ans, m) ELSE Ans
      /\ Post(toChar, s, m)[Home] = IF up[Home] THEN Append(Ask, m) ELSE Ask
    BY <1>0 DEF Post, Ans, Ask
<1>2. Ans \in Seq(MapMsg) /\ Ask \in Seq(CharMsg)
    BY <1>0 DEF Ans, Ask
<1>3. Shifted(Ans, Ans, 0) /\ Shifted(Ask, Ask, 0)
    BY <1>2, ShiftedQueues
<1>4. ASSUME Plain(m) PROVE Shifted(Append(Ans, m), Ans, 0) /\ Shifted(Append(Ask, m), Ask, 0)
    BY <1>2, <1>4, ShiftedQueues
<1> QED
    BY <1>1, <1>3, <1>4

\* Packets that say nothing about logins and saves.
LEMMA PlainPackets ==
    /\ Plain(Kick) /\ Plain([type |-> "charselect ok"]) /\ Plain([type |-> "offline"])
    /\ \A b : Plain([type |-> "change ack", ok |-> b]) /\ Plain([type |-> "users", online |-> b])
    /\ \A t : Plain([type |-> "auth fail", login |-> t]) /\ Plain([type |-> "charselect", login |-> t])
    BY DEF Plain, Kick

\* Taking a packet from a queue.
LEMMA Taken ==
    ASSUME Server = {Home}, TInv, NEW s \in Server, NEW type
    PROVE  /\ Take(s, type) => /\ Tailed(Ask', Ask) /\ Shifted(Ask', Ask, 1) /\ Ask[1].type = type
                               /\ Ask[1] = Head(toChar[s]) /\ Ask[1] \in CharMsg /\ up[Home]
           /\ Receive(s, type) => /\ Tailed(Ans', Ans) /\ Shifted(Ans', Ans, 1) /\ Ans[1].type = type
                                  /\ Ans[1] = Head(toMap[s]) /\ Ans[1] \in MapMsg /\ up[Home]
<1>0. s = Home /\ toMap \in [Server -> Seq(MapMsg)] /\ toChar \in [Server -> Seq(CharMsg)]
    BY DEF TInv, LinkTyped
<1>1. Ans \in Seq(MapMsg) /\ Ask \in Seq(CharMsg)
    BY <1>0 DEF Ans, Ask
<1>2. ASSUME Take(s, type)
      PROVE  /\ Tailed(Ask', Ask) /\ Shifted(Ask', Ask, 1) /\ Ask[1].type = type
             /\ Ask[1] = Head(toChar[s]) /\ Ask[1] \in CharMsg /\ up[Home]
  <2>1. Ask # <<>> /\ Ask' = Tail(Ask) /\ Head(Ask).type = type /\ Head(Ask) = Head(toChar[s])
      BY <1>0, <1>2 DEF Take, Ask
  <2>2. Ask[1] = Head(Ask) /\ Tailed(Tail(Ask), Ask) /\ Shifted(Tail(Ask), Ask, 1)
      BY <1>1, <2>1, TailOf, ShiftedQueues
  <2>3. Head(toChar[s]) \in CharMsg /\ up[s]
      BY <1>2, TakeFacts
  <2> QED
      BY <1>0, <2>1, <2>2, <2>3
<1>3. ASSUME Receive(s, type)
      PROVE  /\ Tailed(Ans', Ans) /\ Shifted(Ans', Ans, 1) /\ Ans[1].type = type
             /\ Ans[1] = Head(toMap[s]) /\ Ans[1] \in MapMsg /\ up[Home]
  <2>1. Ans # <<>> /\ Ans' = Tail(Ans) /\ Head(Ans).type = type /\ Head(Ans) = Head(toMap[s])
      BY <1>0, <1>3 DEF Receive, Ans
  <2>2. Ans[1] = Head(Ans) /\ Tailed(Tail(Ans), Ans) /\ Shifted(Tail(Ans), Ans, 1)
      BY <1>1, <2>1, TailOf, ShiftedQueues
  <2>3. Head(toMap[s]) \in MapMsg /\ up[s]
      BY <1>3, ReceiveFacts
  <2> QED
      BY <1>0, <2>1, <2>2, <2>3
<1> QED
    BY <1>2, <1>3

\* A queue that is left alone.
LEMMA Same == TInv => Shifted(Ask, Ask, 0) /\ Shifted(Ans, Ans, 0)
<1> SUFFICES ASSUME TInv PROVE Shifted(Ask, Ask, 0) /\ Shifted(Ans, Ans, 0)
    OBVIOUS
<1>1. Ask \in Seq(CharMsg) /\ Ans \in Seq(MapMsg)
    BY SessionBounds DEF TInv, LinkTyped, Ask, Ans
<1> QED
    BY <1>1, ShiftedQueues

\* Clients at the char server, its timers, and logins the login server reports.
LEMMA CharClientKeeps ==
    ASSUME Server = {Home}, RInv, TInv,
           \/ Connect \/ AskKick \/ WaitingDisconnect \/ OnlineDataCleanup
           \/ \E t \in Login : Reconnect(t) \/ CharEof(t)
           \/ \E t \in Login, s \in Server : CharSelect(t, s)
    PROVE  RInv'
<1>1. UNCHANGED <<player, data, node, latest, saved, toChar>>
    BY DEF Connect, AskKick, WaitingDisconnect, OnlineDataCleanup, Reconnect, CharEof, CharSelect,
       maps, links
<1>2. toMap' = toMap \/ \E s \in Server : toMap' = Post(toMap, s, Kick)
    BY DEF Connect, AskKick, WaitingDisconnect, OnlineDataCleanup, Reconnect, CharEof, CharSelect,
       OnlineConflict, AuthOk, links
<1>3. \/ ticket' = ticket
      \/ \E t \in Login : ticket[t] # Spent /\ \E x : ticket' = [ticket EXCEPT ![t] = x]
    BY DEF Connect, AskKick, WaitingDisconnect, OnlineDataCleanup, Reconnect, CharEof, CharSelect,
       client, Spent, CharSrv, Nowhere
<1>4. \A t \in Login : ticket[t] = Spent => ticket'[t] = Spent
    BY <1>3 DEF TInv, ClientTyped
<1>5. Ask' = Ask /\ Shifted(Ask', Ask, 0)
    BY <1>1, Same DEF Ask
<1>6. Shifted(Ans', Ans, 0)
  <2>1. CASE toMap' = toMap
    <3>1. Ans' = Ans
        BY <2>1 DEF Ans
    <3> QED
        BY <3>1, Same
  <2>2. ASSUME NEW s \in Server, toMap' = Post(toMap, s, Kick) PROVE Shifted(Ans', Ans, 0)
    <3>1. Ans' = Post(toMap, s, Kick)[Home]
        BY <2>2 DEF Ans
    <3> QED
        BY <3>1, Posted, PlainPackets
  <2> QED
      BY <1>2, <2>1, <2>2
<1> QED
    BY <1>1, <1>4, <1>5, <1>6, Harmless

\* The char server handles a packet.
LEMMA CharPacketKeeps ==
    ASSUME Server = {Home}, RInv, TInv, NEW s \in Server, CharPacket(s)
    PROVE  RInv'
<1>0. s = Home
    OBVIOUS
<1>1. UNCHANGED <<ticket, player, data, node, latest>>
    BY DEF CharPacket, HandleSave, HandleCharselect, HandleChange, HandleOffline, HandleAuth,
       HandleUsers, client, maps
<1>2. ASSUME saved' = saved, Shifted(Ask', Ask, 1), Shifted(Ans', Ans, 0) PROVE RInv'
    BY <1>1, <1>2, Harmless
<1>3. ASSUME NEW m, Plain(m), NEW x \in Server, toMap' = Post(toMap, x, m) PROVE Shifted(Ans', Ans, 0)
  <2>1. Ans' = Post(toMap, x, m)[Home]
      BY <1>3 DEF Ans
  <2> QED
      BY <1>3, <2>1, Posted
<1>4. ASSUME toMap' = toMap PROVE Ans' = Ans /\ Shifted(Ans', Ans, 0)
    BY <1>4, Same DEF Ans
<1>5. CASE HandleSave(s)
  <2>1. /\ Tailed(Ask', Ask) /\ Ask[1].type = "save" /\ Ask[1] = Head(toChar[s]) /\ Ask[1] \in CharMsg
        /\ up[Home]
      BY <1>5, Taken DEF HandleSave
  <2>2. Ask[1].final \in BOOLEAN /\ IsSave(Ask[1])
      BY <2>1, CharMsgFacts DEF IsSave
  <2>3. saved'.ver = Ask[1].data.ver
      BY <1>5, <2>1 DEF HandleSave
  <2>4. CASE Ask[1].final = TRUE
    <3> DEFINE m == [type |-> "save ack"]
    <3>1. toMap' = Post(toMap, s, m)
        BY <1>5, <2>1, <2>4 DEF HandleSave, SaveHandled
    <3>2. IsAck(m)
        BY DEF IsAck
    <3> HIDE DEF m
    <3>3. Ans' = Append(Ans, m)
        BY <2>1, <3>1, Posted DEF Ans
    <3>4. Ans \in Seq(MapMsg)
        BY Parts
    <3>5. Extended(Ans', Ans, m)
        BY <3>3, <3>4, AppendOf
    <3>6. IsFinal(Ask[1])
        BY <2>1, <2>4 DEF IsFinal
    <3> QED
        BY <1>1, <2>1, <2>2, <2>3, <3>2, <3>5, <3>6, SaveTaken
  <2>5. CASE Ask[1].final = FALSE
    <3>1. toMap' = toMap
        BY <1>5, <2>1, <2>5 DEF HandleSave, SaveHandled
    <3>2. ~IsFinal(Ask[1])
        BY <2>5 DEF IsFinal
    <3> QED
        BY <1>1, <1>4, <2>1, <2>2, <2>3, <3>1, <3>2, SaveTaken
  <2> QED
      BY <2>2, <2>4, <2>5
<1>6. CASE HandleCharselect(s)
  <2>1. Shifted(Ask', Ask, 1)
      BY <1>6, Taken DEF HandleCharselect
  <2>2. toMap' = Post(toMap, s, [type |-> "charselect ok"]) /\ saved' = saved
      BY <1>6 DEF HandleCharselect
  <2> QED
      BY <1>2, <1>3, <2>1, <2>2, PlainPackets
<1>7. CASE HandleChange(s)
  <2>1. Shifted(Ask', Ask, 1)
      BY <1>7, Taken DEF HandleChange
  <2>2. saved' = saved /\ \E b : toMap' = Post(toMap, s, [type |-> "change ack", ok |-> b])
      BY <1>7 DEF HandleChange
  <2> QED
      BY <1>2, <1>3, <2>1, <2>2, PlainPackets
<1>8. CASE HandleOffline(s)
  <2>1. Shifted(Ask', Ask, 1)
      BY <1>8, Taken DEF HandleOffline
  <2>2. toMap' = toMap /\ saved' = saved
      BY <1>8 DEF HandleOffline
  <2> QED
      BY <1>2, <1>4, <2>1, <2>2
<1>9. CASE HandleUsers(s)
  <2>1. Shifted(Ask', Ask, 1)
      BY <1>9, Taken DEF HandleUsers
  <2>2. saved' = saved /\ (toMap' = toMap \/ \E x \in Server : toMap' = Post(toMap, x, Kick))
      BY <1>9 DEF HandleUsers
  <2> QED
      BY <1>2, <1>3, <1>4, <2>1, <2>2, PlainPackets
<1>10. CASE HandleAuth(s)
  <2>1. /\ Tailed(Ask', Ask) /\ Shifted(Ask', Ask, 1) /\ Ask[1].type = "auth"
        /\ Ask[1] = Head(toChar[s]) /\ up[Home]
      BY <1>10, Taken DEF HandleAuth
  <2> DEFINE good == [type |-> "auth ok", login |-> Head(toChar[s]).login, data |-> saved]
             bad  == [type |-> "auth fail", login |-> Head(toChar[s]).login]
  <2>2. /\ saved' = saved
        /\ \/ toMap' = [toMap EXCEPT ![s] = Append(@, good)]
           \/ toMap' = [toMap EXCEPT ![s] = Append(@, bad)]
      BY <1>0, <1>10 DEF HandleAuth, OnlineConflict
  <2>3. IsOk(good) /\ good.login = Head(toChar[s]).login /\ good.data = saved
      BY DEF IsOk
  <2>4. Plain(bad)
      BY PlainPackets
  <2> HIDE DEF good, bad
  <2>5. Ans \in Seq(MapMsg) /\ toMap \in [Server -> Seq(MapMsg)]
      BY Parts DEF TInv, LinkTyped
  <2>6. CASE toMap' = [toMap EXCEPT ![s] = Append(@, good)]
    <3>1. Ans' = Append(Ans, good)
        BY <1>0, <2>5, <2>6 DEF Ans
    <3>2. Extended(Ans', Ans, good)
        BY <2>5, <3>1, AppendOf
    <3>3. IsAuth(Ask[1])
        BY <2>1 DEF IsAuth
    <3>4. good.login = Ask[1].login
        BY <2>1, <2>3
    <3> QED
        BY <1>1, <2>1, <2>2, <2>3, <3>2, <3>3, <3>4, LoginAccepted
  <2>7. CASE toMap' = [toMap EXCEPT ![s] = Append(@, bad)]
    <3>1. Ans' = Append(Ans, bad)
        BY <1>0, <2>5, <2>7 DEF Ans
    <3>2. Shifted(Ans', Ans, 0)
        BY <2>4, <2>5, <3>1, ShiftedQueues
    <3> QED
        BY <1>2, <2>1, <2>2, <3>2
  <2> QED
      BY <2>2, <2>6, <2>7
<1> QED
    BY <1>5, <1>6, <1>7, <1>8, <1>9, <1>10 DEF CharPacket

\* A save of the newest data is sent, or not.
LEMMA GrownQueues ==
    ASSUME NEW q \in Seq(CharMsg), NEW m, IsSave(m), m.data.ver = latest
    PROVE  Grown(Append(q, m), q) /\ Grown(q, q)
<1>1. Extended(Append(q, m), q, m)
    BY AppendOf
<1>2. Grown(Append(q, m), q)
    BY <1>1 DEF Grown, Extended
<1>3. Grown(q, q)
    BY DEF Grown
<1> QED
    BY <1>2, <1>3

\* Saves are saves.
LEMMA Saves ==
    \A d : /\ IsSave(Save(d)) /\ ~IsFinal(Save(d)) /\ Save(d).data = d
           /\ IsSave(FinalSave(d)) /\ FinalSave(d).data = d
    BY DEF IsSave, IsFinal, Save, FinalSave

\* map_quit of the active player.
LEMMA QuitKeeps ==
    ASSUME Server = {Home}, RInv, TInv, player[Home] # 0, MapQuit(Home), NEW b \in {0, 1},
           Shifted(Ans', Ans, b), UNCHANGED <<data, saved, latest>>
    PROVE  RInv'
<1> DEFINE m == FinalSave(data[Home])
<1>0. /\ player \in [Server -> 0..MaxLogins] /\ node \in [Server -> Node] /\ Ask \in Seq(CharMsg)
      /\ data[Home].ver = latest
    BY Parts DEF TInv, MapTyped, Newest
<1>1. IsSave(m) /\ m.data.ver = latest
    BY <1>0, Saves
<1>2. Ask' = Post(toChar, Home, m)[Home]
    BY DEF MapQuit, Ask
<1> HIDE DEF m
<1>3. Ask' = Append(Ask, m) \/ Ask' = Ask
    BY <1>2, Posted
<1>4. Grown(Ask', Ask)
    BY <1>0, <1>1, <1>3, GrownQueues
<1>5. player'[Home] = 0 /\ node'[Home].data = data[Home] /\ LoggingOut'
    BY <1>0 DEF MapQuit, LoggingOut
<1>6. InUse
    BY DEF InUse
<1>7. player'[Home] = 0 /\ LoggingOut' /\ node'[Home].data.ver = latest
    BY <1>0, <1>5
<1> QED
    BY <1>4, <1>6, <1>7, SaveSent

\* A node of the auth_db other than that of a player logging out is deleted, or
\* kept, while plain packets are sent and a packet may be taken.
LEMMA DropKeeps ==
    ASSUME Server = {Home}, RInv, TInv, NEW b \in {0, 1}, Shifted(Ask', Ask, 0), Shifted(Ans', Ans, b),
           node' = node \/ (node[Home].state \in {"login", "change"} /\ node' = [node EXCEPT ![Home] = NoNode]),
           UNCHANGED <<player, data, saved, latest>>,
           player[Home] = 0 => ticket' = ticket
    PROVE  RInv'
<1>1. node[Home].state # "change"
    BY Parts DEF NoChange
<1>2. \/ node'[Home] = node[Home]
      \/ node[Home].state = "login" /\ node'[Home] = NoNode
    BY <1>1 DEF TInv, MapTyped
<1> QED
    BY <1>2, Harmless

\* Clients at the map server.
LEMMA MapClientKeeps ==
    ASSUME Server = {Home}, RInv, TInv, NEW t \in Login, MapConnect(t) \/ MapEof(t)
    PROVE  RInv'
<1>0. /\ ticket \in [Login -> Server \cup {Nowhere, CharSrv, Spent}] /\ node \in [Server -> Node]
      /\ Ask \in Seq(CharMsg) /\ Shifted(Ask, Ask, 0) /\ Shifted(Ans, Ans, 0)
    BY Parts, Same DEF TInv, ClientTyped, MapTyped
<1>a. t # 0
    BY SessionBounds DEF Login
<1>1. CASE MapConnect(t)
  <2>1. /\ ticket[t] = Home /\ ticket[t] # Spent /\ ticket' = [ticket EXCEPT ![t] = Spent]
        /\ UNCHANGED <<player, data, saved, latest, toMap>>
      BY <1>1, ServerAssumption DEF MapConnect, charVars
  <2>2. /\ ticket'[t] = Spent /\ Ans' = Ans
        /\ \A x \in Login : ticket[x] = Spent => ticket'[x] = Spent
      BY <1>0, <2>1 DEF Ans
  <2>3. CASE UNCHANGED <<node, toChar>>
    <3>1. Ask' = Ask
        BY <2>3 DEF Ask
    <3> QED
        BY <1>0, <2>1, <2>2, <2>3, <3>1, Harmless
  <2>4. CASE ~UNCHANGED <<node, toChar>>
    <3> DEFINE m == [type |-> "auth", login |-> t]
    <3>1. /\ ~Blocked(Home) /\ up[Home]
          /\ node' = [node EXCEPT ![Home] = [NoNode EXCEPT !.state = "login", !.login = t]]
          /\ toChar' = Post(toChar, Home, m)
        BY <1>1, <2>1, <2>4 DEF MapConnect
    <3>2. IsAuth(m) /\ m.login = t
        BY DEF IsAuth
    <3> HIDE DEF m
    <3>3. Ask' = Append(Ask, m)
        BY <3>1, Posted DEF Ask
    <3>4. Extended(Ask', Ask, m)
        BY <1>0, <3>3, AppendOf
    <3>5. ~InUse
        BY <3>1 DEF Blocked, InUse, LoggingOut
    <3>6. node'[Home] = [NoNode EXCEPT !.state = "login", !.login = t]
        BY <1>0, <3>1
    <3> QED
        BY <2>1, <2>2, <3>2, <3>4, <3>5, <3>6, LoginSent
  <2> QED
      BY <2>3, <2>4
<1>2. CASE MapEof(t)
  <2>1. at[t] = Home /\ UNCHANGED <<ticket, data, saved, latest, toMap>>
      BY <1>2 DEF MapEof, charVars
  <2>2. Ans' = Ans
      BY <2>1 DEF Ans
  <2>3. CASE MapQuit(Home) /\ player[Home] = t
      BY <1>0, <1>a, <2>1, <2>2, <2>3, QuitKeeps
  <2>4. CASE /\ UNCHANGED <<player, toChar>>
             /\ \/ node' = node
                \/ node[Home].state \in {"login", "change"} /\ node' = [node EXCEPT ![Home] = NoNode]
    <3>1. Ask' = Ask
        BY <2>4 DEF Ask
    <3> QED
        BY <1>0, <2>1, <2>2, <2>4, <3>1, DropKeeps
  <2>5. CASE player[Home] # t
    <3>1. /\ node' = [node EXCEPT ![Home] = IF @.state \in {"login", "change"} THEN NoNode ELSE @]
          /\ UNCHANGED <<player, toChar>>
        BY <1>2, <2>1, <2>5 DEF MapEof
    <3>2. CASE node[Home].state \in {"login", "change"}
        BY <2>4, <3>1, <3>2
    <3>3. CASE node[Home].state \notin {"login", "change"}
      <4>1. node' = node
          BY <1>0, <3>1, <3>3
      <4> QED
          BY <2>4, <3>1, <4>1
    <3> QED
        BY <3>2, <3>3
  <2>6. CASE player[Home] = t
      BY <1>2, <2>1, <2>3, <2>4, <2>6 DEF MapEof
  <2> QED
      BY <2>5, <2>6
<1> QED
    BY <1>1, <1>2

\* Players and timers of the map server.
LEMMA MapStepKeeps ==
    ASSUME Server = {Home}, RInv, TInv, NEW s \in Server,
           \/ Play(s) \/ AutoSave(s) \/ Restart(s) \/ DelayQuit(s) \/ AuthDbCleanup(s)
           \/ \E d \in Server : ChangeServer(s, d)
    PROVE  RInv'
<1>0. /\ s = Home /\ Ask \in Seq(CharMsg) /\ Shifted(Ask, Ask, 0) /\ Shifted(Ans, Ans, 0)
      /\ data \in [Server -> Data] /\ latest \in Nat /\ NoChange
      /\ player[Home] # 0 => data[Home].ver = latest /\ ~LoggingOut
      /\ LoggingOut => node[Home].data.ver = latest /\ player[Home] = 0
    BY Parts, Same DEF TInv, MapTyped, OnePlace, Newest, LoggingOut, NoNode
<1>1. CASE Play(s)
  <2>1. /\ player[Home] # 0 /\ latest' = latest + 1 /\ data' = [data EXCEPT ![Home].ver = latest + 1]
        /\ UNCHANGED <<ticket, player, node, saved, toChar, toMap>>
      BY <1>0, <1>1 DEF Play, client, charVars, links
  <2>2. data'[Home].ver = latest'
      BY <1>0, <2>1 DEF Data
  <2>3. Ask' = Ask /\ Ans' = Ans
      BY <2>1 DEF Ask, Ans
  <2> QED
      BY <2>1, <2>2, <2>3, Played
<1>2. CASE AutoSave(s)
  <2> DEFINE m == Save(data[Home])
  <2>1. /\ player[Home] # 0 /\ up[Home] /\ toChar' = Post(toChar, Home, m)
        /\ UNCHANGED <<player, data, node, saved, latest, toMap>>
      BY <1>0, <1>2 DEF AutoSave, charVars, maps
  <2>2. IsSave(m) /\ ~IsFinal(m) /\ m.data.ver = latest
      BY <1>0, <2>1, Saves
  <2> HIDE DEF m
  <2>3. Ask' = Append(Ask, m) /\ Ans' = Ans
      BY <2>1, Posted DEF Ask, Ans
  <2>4. Grown(Ask', Ask)
      BY <1>0, <2>2, <2>3, GrownQueues
  <2>5. \A i \in DOMAIN Ask' : IsFinal(Ask'[i]) => i \in DOMAIN Ask /\ Ask'[i] = Ask[i]
    <3>1. Extended(Ask', Ask, m)
        BY <1>0, <2>3, AppendOf
    <3> QED
        BY <2>2, <3>1 DEF Extended
  <2>6. InUse
      BY <2>1 DEF InUse
  <2> QED
      BY <1>0, <2>1, <2>3, <2>4, <2>5, <2>6, SaveSent
<1>3. CASE Restart(s)
  <2> DEFINE m == [type |-> "charselect", login |-> player[Home]]
  <2>1. /\ toChar' = Post(toChar, Home, m)
        /\ UNCHANGED <<ticket, player, data, node, saved, latest, toMap>>
      BY <1>0, <1>3 DEF Restart, client, charVars, maps
  <2>2. Plain(m)
      BY PlainPackets
  <2> HIDE DEF m
  <2>3. Shifted(Ask', Ask, 0) /\ Ans' = Ans
      BY <2>1, <2>2, Posted DEF Ask, Ans
  <2> QED
      BY <1>0, <2>1, <2>3, DropKeeps
<1>4. CASE DelayQuit(s)
  <2>1. player[Home] # 0 /\ MapQuit(Home) /\ UNCHANGED <<data, saved, latest, toMap>>
      BY <1>0, <1>4 DEF DelayQuit, charVars
  <2>2. Ans' = Ans
      BY <2>1 DEF Ans
  <2> QED
      BY <1>0, <2>1, <2>2, QuitKeeps
<1>5. CASE AuthDbCleanup(s)
  <2>1. UNCHANGED <<ticket, player, data, saved, latest, toMap>>
      BY <1>5 DEF AuthDbCleanup, charVars
  <2>2. Ans' = Ans
      BY <2>1 DEF Ans
  <2>3. CASE node[Home].state = "logout"
    <3> DEFINE m == FinalSave(node[Home].data)
    <3>1. toChar' = Post(toChar, Home, m) /\ node' = node
        BY <1>0, <1>5, <2>3 DEF AuthDbCleanup
    <3>2. IsSave(m) /\ m.data.ver = latest
        BY <1>0, <2>3, Saves DEF LoggingOut
    <3> HIDE DEF m
    <3>3. Ask' = Append(Ask, m) \/ Ask' = Ask
        BY <3>1, Posted DEF Ask
    <3>4. Grown(Ask', Ask)
        BY <1>0, <3>2, <3>3, GrownQueues
    <3>5. InUse /\ player'[Home] = 0 /\ LoggingOut' /\ node'[Home].data.ver = latest
        BY <1>0, <2>1, <2>3, <3>1 DEF InUse, LoggingOut
    <3> QED
        BY <1>0, <2>1, <2>2, <3>4, <3>5, SaveSent
  <2>4. CASE node[Home].state # "logout"
    <3>1. /\ toChar' = Post(toChar, Home, [type |-> "offline"])
          /\ node[Home].state \in {"login", "change"} /\ node' = [node EXCEPT ![Home] = NoNode]
        BY <1>0, <1>5, <2>4 DEF AuthDbCleanup
    <3>2. Ask' = Post(toChar, Home, [type |-> "offline"])[Home]
        BY <3>1 DEF Ask
    <3>3. Shifted(Ask', Ask, 0)
        BY <3>2, Posted, PlainPackets
    <3> QED
        BY <1>0, <2>1, <2>2, <3>1, <3>3, DropKeeps
  <2> QED
      BY <2>3, <2>4
<1>6. ASSUME NEW d \in Server, ChangeServer(s, d) PROVE FALSE
    BY <1>0, <1>6 DEF ChangeServer, Leaves
<1> QED
    BY <1>1, <1>2, <1>3, <1>4, <1>5, <1>6

\* The map server handles a packet.
LEMMA MapPacketKeeps ==
    ASSUME Server = {Home}, RInv, TInv, NEW s \in Server, MapPacket(s)
    PROVE  RInv'
<1>0. /\ s = Home /\ Shifted(Ask, Ask, 0) /\ NoChange /\ node \in [Server -> Node]
      /\ player \in [Server -> 0..MaxLogins] /\ data \in [Server -> Data]
      /\ LoggingOut => player[Home] = 0
    BY Parts, Same DEF TInv, MapTyped, OnePlace, LoggingOut, NoNode
<1>a. UNCHANGED <<saved, latest>>
    BY DEF MapPacket, ReceiveAuthOk, ReceiveAuthFail, ReceiveSaveAck, ReceiveCharselectOk,
       ReceiveChangeAck, ReceiveKick, charVars, maps
<1>b. ASSUME toChar' = toChar PROVE Ask' = Ask
    BY <1>b DEF Ask
<1>c. ASSUME toChar' = Post(toChar, Home, [type |-> "offline"]) PROVE Shifted(Ask', Ask, 0)
  <2>1. Ask' = Post(toChar, Home, [type |-> "offline"])[Home]
      BY <1>c DEF Ask
  <2> QED
      BY <2>1, Posted, PlainPackets
<1>1. CASE ReceiveAuthOk(s)
  <2>1. /\ Tailed(Ans', Ans) /\ Shifted(Ans', Ans, 1) /\ Ans[1].type = "auth ok"
        /\ Ans[1] = Head(toMap[s]) /\ Ans[1] \in MapMsg
      BY <1>1, Taken DEF ReceiveAuthOk
  <2>2. ticket' = ticket
      BY <1>1 DEF ReceiveAuthOk
  <2>3. CASE player[Home] # 0 \/ node[Home].state # "login"
    <3>1. UNCHANGED <<player, data, node, toChar>>
        BY <1>0, <1>1, <2>3 DEF ReceiveAuthOk
    <3> QED
        BY <1>0, <1>a, <1>b, <2>1, <2>2, <3>1, DropKeeps
  <2>4. CASE player[Home] = 0 /\ node[Home].state = "login" /\ node[Home].login = Ans[1].login
    <3>1. /\ player' = [player EXCEPT ![Home] = Ans[1].login] /\ node' = [node EXCEPT ![Home] = NoNode]
          /\ data' = [data EXCEPT ![Home] = [ver |-> Ans[1].data.ver, home |-> Home]]
          /\ toChar' = toChar
        BY <1>0, <1>1, <2>1, <2>4 DEF ReceiveAuthOk
    <3>2. Ans[1].login \in Login /\ IsOk(Ans[1])
        BY <2>1, MapMsgFacts DEF IsOk
    <3>3. player'[Home] # 0 /\ node'[Home] = NoNode /\ data'[Home].ver = Ans[1].data.ver
        BY <1>0, <3>1, <3>2, SessionBounds DEF Login
    <3> QED
        BY <1>a, <1>b, <2>1, <2>2, <2>4, <3>1, <3>2, <3>3, LoginDone
  <2>5. CASE player[Home] = 0 /\ node[Home].state = "login" /\ node[Home].login # Ans[1].login
    <3>1. /\ UNCHANGED <<player, data>> /\ node' = [node EXCEPT ![Home] = NoNode]
          /\ toChar' = Post(toChar, Home, [type |-> "offline"])
        BY <1>0, <1>1, <2>1, <2>5 DEF ReceiveAuthOk
    <3> QED
        BY <1>a, <1>c, <2>1, <2>2, <2>5, <3>1, DropKeeps
  <2> QED
      BY <2>3, <2>4, <2>5
<1>2. CASE ReceiveAuthFail(s)
  <2>1. Shifted(Ans', Ans, 1)
      BY <1>2, Taken DEF ReceiveAuthFail
  <2>2. UNCHANGED <<ticket, player, data, toChar>>
      BY <1>2 DEF ReceiveAuthFail
  <2>3. node' = node \/ (node[Home].state \in {"login", "change"} /\ node' = [node EXCEPT ![Home] = NoNode])
    <3>1. \E b \in BOOLEAN : /\ node' = [node EXCEPT ![Home] = IF b THEN NoNode ELSE @]
                             /\ b => node[Home].state = "login"
        BY <1>0, <1>2 DEF ReceiveAuthFail
    <3> QED
        BY <1>0, <3>1
  <2> QED
      BY <1>0, <1>a, <1>b, <2>1, <2>2, <2>3, DropKeeps
<1>3. CASE ReceiveSaveAck(s)
  <2>1. Tailed(Ans', Ans) /\ Shifted(Ans', Ans, 1) /\ Ans[1].type = "save ack"
      BY <1>3, Taken DEF ReceiveSaveAck
  <2>2. /\ UNCHANGED <<ticket, player, data, toChar>>
        /\ node' = [node EXCEPT ![Home] = IF @.state = "logout" THEN NoNode ELSE @]
      BY <1>0, <1>3 DEF ReceiveSaveAck, client
  <2>3. CASE LoggingOut
    <3>1. IsAck(Ans[1]) /\ node'[Home] = NoNode
        BY <1>0, <2>1, <2>2, <2>3 DEF IsAck, LoggingOut
    <3> QED
        BY <1>0, <1>a, <1>b, <2>1, <2>2, <2>3, <3>1, LogoutDone
  <2>4. CASE ~LoggingOut
    <3>1. node' = node
        BY <1>0, <2>2, <2>4 DEF LoggingOut
    <3> QED
        BY <1>0, <1>a, <1>b, <2>1, <2>2, <3>1, DropKeeps
  <2> QED
      BY <2>3, <2>4
<1>4. CASE ReceiveCharselectOk(s)
  <2>1. Shifted(Ans', Ans, 1)
      BY <1>4, Taken DEF ReceiveCharselectOk
  <2>2. UNCHANGED <<player, data, node, toChar>> /\ (player[Home] = 0 => ticket' = ticket)
      BY <1>0, <1>4 DEF ReceiveCharselectOk, maps
  <2> QED
      BY <1>0, <1>a, <1>b, <2>1, <2>2, DropKeeps
<1>5. CASE ReceiveChangeAck(s)
  <2>1. Shifted(Ans', Ans, 1)
      BY <1>5, Taken DEF ReceiveChangeAck
  <2>2. UNCHANGED <<ticket, player, data, node, toChar>>
      BY <1>0, <1>5 DEF ReceiveChangeAck, NoChange
  <2> QED
      BY <1>0, <1>a, <1>b, <2>1, <2>2, DropKeeps
<1>6. CASE ReceiveKick(s)
  <2>1. Shifted(Ans', Ans, 1)
      BY <1>6, Taken DEF ReceiveKick
  <2>2. /\ UNCHANGED <<ticket, data>>
        /\ \/ player[Home] # 0 /\ MapQuit(Home)
           \/ /\ UNCHANGED <<player, toChar>>
              /\ \/ node' = node
                 \/ node[Home].state = "login" /\ node' = [node EXCEPT ![Home] = NoNode]
      BY <1>0, <1>6 DEF ReceiveKick
  <2>3. CASE player[Home] # 0 /\ MapQuit(Home)
      BY <1>a, <2>1, <2>2, <2>3, QuitKeeps
  <2>4. CASE /\ UNCHANGED <<player, toChar>>
             /\ \/ node' = node
                \/ node[Home].state = "login" /\ node' = [node EXCEPT ![Home] = NoNode]
      BY <1>0, <1>a, <1>b, <2>1, <2>2, <2>4, DropKeeps
  <2> QED
      BY <2>2, <2>3, <2>4
<1> QED
    BY <1>1, <1>2, <1>3, <1>4, <1>5, <1>6 DEF MapPacket

\* The link breaks, the char server starts again, the link comes back.
LEMMA LinkKeeps ==
    ASSUME Server = {Home}, RInv, TInv, CharRestart \/ \E s \in Server : LinkLost(s) \/ LinkReady(s)
    PROVE  RInv'
<1>0. /\ Ask \in Seq(CharMsg) /\ Ans \in Seq(MapMsg) /\ NoChange /\ node \in [Server -> Node]
      /\ Shifted(Ask, Ask, 0) /\ Shifted(Ans, Ans, 0)
      /\ Shifted(<<>>, Ask, 0) /\ Shifted(<<>>, Ans, 0)
      /\ toChar \in [Server -> Seq(CharMsg)]
      /\ LoggingOut => player[Home] = 0 /\ node[Home].data.ver = latest
    BY Parts, ShiftedQueues DEF TInv, MapTyped, LinkTyped, OnePlace, LoggingOut, NoNode, Newest
<1>1. CASE CharRestart \/ \E s \in Server : LinkLost(s)
  <2>1. UNCHANGED <<ticket, player, data, node, saved, latest>>
      BY <1>1 DEF CharRestart, LinkLost, client, maps
  <2>2. Ask' = <<>> /\ Ans' = <<>>
      BY <1>1 DEF CharRestart, LinkLost, LinkDown, Ask, Ans
  <2> QED
      BY <1>0, <2>1, <2>2, DropKeeps
<1>2. ASSUME NEW s \in Server, LinkReady(s) PROVE RInv'
  <2> DEFINE hello == [type |-> "users", online |-> player[Home] # 0]
  <2>1. /\ UNCHANGED <<ticket, player, data, saved, latest, toMap>>
        /\ ~up[Home] /\ toChar' = [toChar EXCEPT ![Home] = << hello >> \o Resent(Home)]
        /\ IF node[Home].state = "login" THEN node' = [node EXCEPT ![Home] = NoNode] ELSE node' = node
      BY <1>2 DEF LinkReady, charVars
  <2>2. Plain(hello)
      BY PlainPackets
  <2> HIDE DEF hello
  <2>3. /\ Ans' = Ans /\ Ask' = << hello >> \o Resent(Home)
      BY <1>0, <2>1 DEF Ans, Ask
  <2>4. CASE node[Home].state \in {"none", "login"}
    <3>1. Resent(Home) = <<>> \/ Resent(Home) = << [type |-> "offline"] >>
        BY <2>4 DEF Resent
    <3>2. \A i \in DOMAIN Ask' : i \in Nat /\ Plain(Ask'[i])
      <4>1. CASE Resent(Home) = <<>>
          BY <2>2, <2>3, <4>1
      <4>2. CASE Resent(Home) = << [type |-> "offline"] >>
        <5> DEFINE m == [type |-> "offline"]
        <5>1. Plain(m)
            BY PlainPackets
        <5>2. Ask' = << hello >> \o << m >>
            BY <2>3, <4>2
        <5> HIDE DEF m
        <5> QED
            BY <2>2, <5>1, <5>2
      <4> QED
          BY <3>1, <4>1, <4>2
    <3>3. Shifted(Ask', Ask, 0)
        BY <3>2 DEF Shifted
    <3> QED
        BY <1>0, <2>1, <2>3, <3>3, DropKeeps
  <2>5. CASE node[Home].state = "logout"
    <3> DEFINE m == FinalSave(node[Home].data)
    <3>1. Resent(Home) = << m >>
        BY <2>5 DEF Resent
    <3>2. IsSave(m) /\ m.data.ver = latest
        BY <1>0, <2>5, Saves DEF LoggingOut
    <3> HIDE DEF m
    <3>3. Ask = <<>>
        BY <2>1 DEF TInv, DownEmpty, Ask
    <3>4. Grown(Ask', Ask)
      <4>1. \A i \in DOMAIN (<< hello >> \o << m >>) :
               /\ i \in Nat
               /\ (<< hello >> \o << m >>)[i] = hello \/ (<< hello >> \o << m >>)[i] = m
          OBVIOUS
      <4>2. Ask' = << hello >> \o << m >>
          BY <2>3, <3>1
      <4> QED
          BY <2>2, <3>2, <3>3, <4>1, <4>2 DEF Grown
    <3>5. InUse /\ player'[Home] = 0 /\ LoggingOut' /\ node'[Home].data.ver = latest
        BY <1>0, <2>1, <2>5 DEF InUse, LoggingOut
    <3> QED
        BY <1>0, <2>1, <2>3, <3>4, <3>5, SaveSent
  <2>6. node[Home].state \in {"none", "login", "logout"}
      BY <1>0 DEF NoChange, Node
  <2> QED
      BY <2>4, <2>5, <2>6
<1> QED
    BY <1>1, <1>2

-----------------------------------------------------------------------------
(* The theorems.                                                           *)

\* The initial state: nothing is under way and version 0 is saved.
LEMMA DataInit == Init => RInv
<1> SUFFICES ASSUME Init PROVE RInv
    OBVIOUS
<1>1. Ask = <<>> /\ Ans = <<>> /\ player[Home] = 0 /\ node[Home] = NoNode /\ saved.ver = 0 /\ latest = 0
    BY SessionBounds DEF Init, Ask, Ans
<1> QED
    BY <1>1 DEF RInv, NoChange, NoStaleLogin, LastLogin, AskedIsSpent, Newest, AwayIsStored, AckIsStored,
       FinalIsNewest, NoLateFinal, Stored, InUse, LoggingOut, NoNode

\* Every step keeps the invariant.
LEMMA DataStep == ASSUME Server = {Home} PROVE TInv /\ RInv /\ [Next]_vars => RInv'
<1> SUFFICES ASSUME TInv, RInv, [Next]_vars PROVE RInv'
    OBVIOUS
<1>1. CASE UNCHANGED vars
  <2>1. UNCHANGED <<ticket, player, data, node, saved, latest, toChar, toMap>>
      BY <1>1 DEF vars, client, charVars, maps, links
  <2>2. Ask' = Ask /\ Ans' = Ans
      BY <2>1 DEF Ask, Ans
  <2> QED
      BY <2>1, <2>2, Same, DropKeeps
<1>2. CASE Connect \/ AskKick \/ WaitingDisconnect \/ OnlineDataCleanup
    BY <1>2, CharClientKeeps
<1>3. ASSUME NEW t \in Login, ClientStep(t) PROVE RInv'
    BY <1>3, CharClientKeeps, MapClientKeeps DEF ClientStep
<1>4. ASSUME NEW s \in Server, PlayerStep(s) \/ DelayQuit(s) \/ AuthDbCleanup(s) PROVE RInv'
    BY <1>4, MapStepKeeps DEF PlayerStep
<1>5. ASSUME NEW s \in Server, CharPacket(s) \/ MapPacket(s) \/ LinkLost(s) \/ LinkReady(s) PROVE RInv'
    BY <1>5, CharPacketKeeps, MapPacketKeeps, LinkKeeps
<1>6. CASE CharRestart
    BY <1>6, LinkKeeps
<1> QED
    BY <1>1, <1>2, <1>3, <1>4, <1>5, <1>6 DEF Next

\* With one map server a player in the game always has the newest data, for
\* any number of clients, changes of the data, lost connections and restarts of
\* the char server: a login reads the database only after the last save of the
\* session before has got there.
THEOREM NothingIsRolledBack ==
    ASSUME Server = {Home}
    PROVE  Spec => []NoRollback
<1>1. TInv /\ RInv => NoRollback
    BY DEF RInv, Newest, NoRollback
<1> QED
    BY TypeInit, TypeStep, DataInit, DataStep, <1>1, PTL DEF Spec

\* With one map server a logout is forgotten (chrif_save_ack) only when the
\* database has at least the version of the player who left, however often the
\* final save was lost, repeated and acknowledged.
THEOREM ForgottenIsSaved ==
    ASSUME Server = {Home}
    PROVE  Spec => []AckedIsSaved
<1>0. \A n \in Nat : n >= n
    OBVIOUS
<1>1. TInv /\ RInv => AckedIsSaved
  <2> SUFFICES ASSUME TInv, RInv, NEW i \in DOMAIN Ans,
                      \/ Ans[i].type = "save ack" /\ node[Home].state = "logout"
                      \/ Ans[i].type = "change ack" /\ node[Home].state = "change"
               PROVE  saved.ver >= node[Home].data.ver
      BY DEF AckedIsSaved, Ans
  <2>1. IsAck(Ans[i]) /\ LoggingOut
      BY DEF RInv, NoChange, IsAck, LoggingOut
  <2>2. saved.ver = latest /\ node[Home].data.ver = latest /\ latest \in Nat
      BY <2>1 DEF RInv, AckIsStored, Stored, Newest, TInv, MapTyped
  <2> QED
      BY <1>0, <2>2
<1> QED
    BY TypeInit, TypeStep, DataInit, DataStep, <1>1, PTL DEF Spec
=============================================================================
