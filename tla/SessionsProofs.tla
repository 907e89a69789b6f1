--------------------------- MODULE SessionsProofs ---------------------------
(***************************************************************************)
(* Proofs about the sessions of one account: their types, for any number   *)
(* of clients, servers and losses; then, for one client and links that     *)
(* hold, that it is on one of any number of map servers and that the char  *)
(* server knows which.                                                     *)
(***************************************************************************)
EXTENDS Sessions, SequenceTheorems, TLAPS

Data    == [ver : Nat, home : Server]
Entry   == [known : BOOLEAN, char : BOOLEAN, server : Server \cup {Offline, Unknown},
            waiting : BOOLEAN, fd : 0..MaxLogins]
Node    == [state : {"none", "login", "logout", "change"}, login : 0..MaxLogins, data : Data]

\* What a map server sends to the char server, and what it gets.
CharMsg ==
    [type : {"save"}, data : Data, final : BOOLEAN]
    \cup [type : {"charselect", "auth"}, login : Login]
    \cup [type : {"change"}, login : 0..MaxLogins, dest : Server]
    \cup [type : {"offline"}]
    \cup [type : {"users"}, online : BOOLEAN]
MapMsg ==
    [type : {"kick", "save ack", "charselect ok"}]
    \cup [type : {"change ack"}, ok : BOOLEAN]
    \cup [type : {"auth ok"}, login : Login, data : Data]
    \cup [type : {"auth fail"}, login : Login]

ClientTyped ==
    /\ logins \in 0..MaxLogins
    /\ ticket \in [Login -> Server \cup {Nowhere, CharSrv, Spent}]
    /\ at \in [Login -> Server \cup {Nowhere}]
CharTyped ==
    /\ selecting \subseteq Login
    /\ entry \in Entry
    /\ saved \in Data
MapTyped ==
    /\ player \in [Server -> 0..MaxLogins]
    /\ data \in [Server -> Data]
    /\ node \in [Server -> Node]
    /\ latest \in Nat
LinkTyped ==
    /\ up \in [Server -> BOOLEAN]
    /\ toChar \in [Server -> Seq(CharMsg)]
    /\ toMap \in [Server -> Seq(MapMsg)]

\* An active player has no node; an unconnected link carries nothing.
OnePlace  == \A s \in Server : player[s] # 0 => node[s] = NoNode
DownEmpty == \A s \in Server : up[s] \/ (toChar[s] = <<>> /\ toMap[s] = <<>>)

TInv == ClientTyped /\ CharTyped /\ MapTyped /\ LinkTyped /\ OnePlace /\ DownEmpty

\* The operations on an entry of online_char_db keep its type.
LEMMA EntryOps ==
    ASSUME NEW e \in Entry
    PROVE  /\ SetCharselect(e) \in Entry
           /\ SetOffline(e, TRUE) \in Entry /\ SetOffline(e, FALSE) \in Entry
           /\ SetOffline(e, e.char) \in Entry
           /\ [e EXCEPT !.waiting = TRUE] \in Entry
           /\ \A n \in 0..MaxLogins : [e EXCEPT !.fd = n] \in Entry
           /\ \A s \in Server \cup {Offline, Unknown} :
                 /\ SetOnline(e, s) \in Entry
                 /\ [e EXCEPT !.server = s] \in Entry
                 /\ [e EXCEPT !.known = TRUE, !.char = TRUE, !.server = s] \in Entry
<1>1. SetCharselect(e) \in Entry
    BY DEF SetCharselect, Entry
<1>2. /\ SetOffline(e, TRUE) \in Entry /\ SetOffline(e, FALSE) \in Entry
      /\ SetOffline(e, e.char) \in Entry
    BY DEF SetOffline, Entry
<1>3. [e EXCEPT !.waiting = TRUE] \in Entry
    BY DEF Entry
<1>4. ASSUME NEW n \in 0..MaxLogins PROVE [e EXCEPT !.fd = n] \in Entry
    BY DEF Entry
<1>5. ASSUME NEW s \in Server \cup {Offline, Unknown}
      PROVE  /\ SetOnline(e, s) \in Entry
             /\ [e EXCEPT !.server = s] \in Entry
             /\ [e EXCEPT !.known = TRUE, !.char = TRUE, !.server = s] \in Entry
    BY DEF SetOnline, Entry
<1> QED
    BY <1>1, <1>2, <1>3, <1>4, <1>5

\* What a packet to the char server carries.
LEMMA CharMsgFacts ==
    ASSUME NEW m \in CharMsg
    PROVE  /\ m.type = "save" => m.data \in Data /\ m.final \in BOOLEAN
           /\ m.type \in {"charselect", "auth"} => m.login \in Login
           /\ m.type = "change" => m.dest \in Server
    BY DEF CharMsg

\* What a packet to a map server carries.
LEMMA MapMsgFacts ==
    ASSUME NEW m \in MapMsg
    PROVE  /\ m.type \in {"auth ok", "auth fail"} => m.login \in Login
           /\ m.type = "auth ok" => m.data \in Data
    BY DEF MapMsg

-----------------------------------------------------------------------------
(* Types.                                                                  *)

\* Well-typed queues, empty where the link is down.
CharQ(q) == q \in [Server -> Seq(CharMsg)] /\ \A x \in Server : up[x] \/ q[x] = <<>>
MapQ(q)  == q \in [Server -> Seq(MapMsg)] /\ \A x \in Server : up[x] \/ q[x] = <<>>

\* Post keeps the type of a queue, and writes nothing to a link that is down.
LEMMA PostToMap ==
    ASSUME NEW q, MapQ(q), NEW s \in Server, NEW m \in MapMsg
    PROVE  MapQ(Post(q, s, m))
<1>1. Append(q[s], m) \in Seq(MapMsg)
    BY DEF MapQ
<1> QED
    BY <1>1 DEF Post, MapQ

\* The same for the other direction.
LEMMA PostToChar ==
    ASSUME NEW q, CharQ(q), NEW s \in Server, NEW m \in CharMsg
    PROVE  CharQ(Post(q, s, m))
<1>1. Append(q[s], m) \in Seq(CharMsg)
    BY DEF CharQ
<1> QED
    BY <1>1 DEF Post, CharQ

\* The queues of a state are well typed.
LEMMA Queues == TInv => CharQ(toChar) /\ MapQ(toMap)
    BY DEF TInv, LinkTyped, DownEmpty, CharQ, MapQ

\* Taking the first packet.
LEMMA TakeFacts ==
    ASSUME TInv, NEW s \in Server, NEW type, Take(s, type)
    PROVE  /\ toChar[s] # <<>> /\ up[s]
           /\ Head(toChar[s]) \in CharMsg /\ Head(toChar[s]).type = type
           /\ CharQ(toChar')
<1>1. toChar \in [Server -> Seq(CharMsg)] /\ \A x \in Server : up[x] \/ toChar[x] = <<>>
    BY Queues DEF CharQ
<1>2. toChar[s] \in Seq(CharMsg) /\ toChar[s] # <<>>
    BY <1>1 DEF Take
<1>3. Head(toChar[s]) \in CharMsg /\ Tail(toChar[s]) \in Seq(CharMsg)
    BY <1>2
<1> QED
    BY <1>1, <1>2, <1>3 DEF Take, CharQ

\* The same for a packet of the char server.
LEMMA ReceiveFacts ==
    ASSUME TInv, NEW s \in Server, NEW type, Receive(s, type)
    PROVE  /\ toMap[s] # <<>> /\ up[s]
           /\ Head(toMap[s]) \in MapMsg /\ Head(toMap[s]).type = type
           /\ MapQ(toMap')
<1>1. toMap \in [Server -> Seq(MapMsg)] /\ \A x \in Server : up[x] \/ toMap[x] = <<>>
    BY Queues DEF MapQ
<1>2. toMap[s] \in Seq(MapMsg) /\ toMap[s] # <<>>
    BY <1>1 DEF Receive
<1>3. Head(toMap[s]) \in MapMsg /\ Tail(toMap[s]) \in Seq(MapMsg)
    BY <1>2
<1> QED
    BY <1>1, <1>2, <1>3 DEF Receive, MapQ

\* A step of the char server, which leaves the map servers alone.
LEMMA CharSide ==
    ASSUME TInv, ClientTyped', CharTyped', UNCHANGED <<player, data, node, latest, up>>,
           CharQ(toChar'), MapQ(toMap')
    PROVE  TInv'
    BY DEF TInv, MapTyped, LinkTyped, OnePlace, DownEmpty, CharQ, MapQ

\* A step of a map server, which leaves the char server alone.
LEMMA MapSide ==
    ASSUME TInv, ClientTyped', MapTyped', OnePlace', UNCHANGED <<selecting, entry, auth, saved, up>>,
           CharQ(toChar'), MapQ(toMap')
    PROVE  TInv'
    BY DEF TInv, CharTyped, LinkTyped, DownEmpty, CharQ, MapQ

\* The initial state.
LEMMA TypeInit == Init => TInv
<1> SUFFICES ASSUME Init PROVE TInv
    OBVIOUS
<1>1. ClientTyped
    BY SessionBounds DEF Init, ClientTyped
<1>0. NoEntry \in Entry /\ NoNode \in Node
    BY SessionBounds DEF NoEntry, NoNode, Entry, Node, Data
<1>2. CharTyped
    BY <1>0, SessionBounds DEF Init, CharTyped, Data
<1>3. MapTyped
    BY <1>0, SessionBounds DEF Init, MapTyped, Data
<1>4. LinkTyped
  <2>1. up \in [Server -> BOOLEAN]
      BY Zenon DEF Init
  <2> QED
      BY <2>1 DEF Init, LinkTyped
<1>5. OnePlace /\ DownEmpty
    BY DEF Init, OnePlace, DownEmpty
<1> QED
    BY <1>1, <1>2, <1>3, <1>4, <1>5 DEF TInv

\* char_auth_ok
LEMMA AuthOkTyped ==
    ASSUME TInv, NEW t \in Login, AuthOk(t)
    PROVE  selecting' \subseteq Login /\ entry' \in Entry /\ MapQ(toMap')
<1>0. selecting \subseteq Login /\ entry \in Entry /\ MapQ(toMap) /\ Kick \in MapMsg
    BY Queues DEF TInv, CharTyped, Kick, MapMsg
<1>1. CASE entry.known /\ entry.server \in Server
  <2>1. /\ toMap' = Post(toMap, entry.server, Kick)
        /\ entry' = [entry EXCEPT !.waiting = TRUE] /\ selecting' = selecting
      BY <1>1 DEF AuthOk
  <2>2. entry' \in Entry
      BY <1>0, <2>1, EntryOps
  <2> QED
      BY <1>0, <1>1, <2>1, <2>2, PostToMap
<1>2. CASE ~(entry.known /\ entry.server \in Server)
  <2>0. t \in 0..MaxLogins /\ 0 \in 0..MaxLogins
      BY SessionBounds DEF Login
  <2>1. toMap' = toMap /\ selecting' \subseteq selecting \cup {t}
      BY <1>2 DEF AuthOk
  <2>2. \/ entry' = entry
        \/ entry' = SetCharselect([entry EXCEPT !.fd = IF entry.known THEN t ELSE 0])
      BY <1>2 DEF AuthOk
  <2>3. entry' \in Entry
    <3>1. [entry EXCEPT !.fd = IF entry.known THEN t ELSE 0] \in Entry
        BY <1>0, <2>0, EntryOps
    <3> QED
        BY <1>0, <2>2, <3>1, EntryOps
  <2> QED
      BY <1>0, <2>1, <2>3
<1> QED
    BY <1>1, <1>2

\* Steps of clients at the char server, and its timers.
LEMMA CharClientTyped ==
    ASSUME TInv,
           \/ Connect \/ AskKick \/ WaitingDisconnect \/ OnlineDataCleanup
           \/ \E t \in Login : Reconnect(t) \/ CharEof(t)
           \/ \E t \in Login, s \in Server : CharSelect(t, s)
    PROVE  TInv'
<1>0. /\ selecting \subseteq Login /\ entry \in Entry /\ saved \in Data
      /\ MapQ(toMap) /\ CharQ(toChar) /\ Kick \in MapMsg
      /\ logins \in 0..MaxLogins /\ 0 \in 0..MaxLogins
      /\ ticket \in [Login -> Server \cup {Nowhere, CharSrv, Spent}]
      /\ at \in [Login -> Server \cup {Nowhere}]
    BY Queues, SessionBounds DEF TInv, CharTyped, ClientTyped, Kick, MapMsg
<1>a. /\ entry.server \in Server \cup {Offline, Unknown} /\ entry.char \in BOOLEAN
      /\ \A n \in 0..MaxLogins : [entry EXCEPT !.fd = n] \in Entry
      /\ entry.fd \in 0..MaxLogins
    BY <1>0 DEF Entry
<1>b. \A t \in Login : LET e == [entry EXCEPT !.fd = IF @ = t THEN 0 ELSE @]
                       IN  e \in Entry /\ SetOffline(e, FALSE) \in Entry
  <2> TAKE t \in Login
  <2> DEFINE e == [entry EXCEPT !.fd = IF @ = t THEN 0 ELSE @]
  <2>1. e \in Entry
      BY <1>0 DEF Entry
  <2> QED
      BY <2>1, EntryOps
<1>1. CASE Connect
  <2>1. /\ logins + 1 \in Login /\ logins' = logins + 1 /\ AuthOk(logins + 1)
        /\ UNCHANGED <<ticket, at, auth, saved, player, data, node, latest, up, toChar>>
      BY <1>0, <1>1, SessionBounds DEF Connect, Login, maps
  <2>2. selecting' \subseteq Login /\ entry' \in Entry /\ MapQ(toMap')
      BY <2>1, AuthOkTyped
  <2>3. ClientTyped' /\ CharTyped'
      BY <1>0, <2>1, <2>2, SessionBounds DEF ClientTyped, CharTyped, Login
  <2> QED
      BY <1>0, <2>1, <2>2, <2>3, CharSide
<1>2. ASSUME NEW t \in Login, Reconnect(t) PROVE TInv'
  <2>1. /\ ticket' = [ticket EXCEPT ![t] = Nowhere]
        /\ UNCHANGED <<logins, at, saved, player, data, node, latest, up, toChar>>
        /\ AuthOk(t) \/ UNCHANGED <<selecting, entry, toMap>>
      BY <1>2 DEF Reconnect, maps
  <2>2. selecting' \subseteq Login /\ entry' \in Entry /\ MapQ(toMap')
      BY <1>0, <2>1, AuthOkTyped
  <2>3. ClientTyped' /\ CharTyped'
      BY <1>0, <2>1, <2>2 DEF ClientTyped, CharTyped
  <2> QED
      BY <1>0, <2>1, <2>2, <2>3, CharSide
<1>3. ASSUME NEW t \in Login, NEW s \in Server, CharSelect(t, s) PROVE TInv'
  <2>1. /\ ticket' = [ticket EXCEPT ![t] = s] /\ entry' = SetOnline(entry, Unknown)
        /\ UNCHANGED <<logins, at, selecting, saved, player, data, node, latest, up, toChar>>
        /\ \/ toMap' = toMap
           \/ entry.server \in Server /\ toMap' = Post(toMap, entry.server, Kick)
      BY <1>3 DEF CharSelect, OnlineConflict, maps
  <2>2. entry' \in Entry /\ MapQ(toMap')
    <3>1. entry' \in Entry
        BY <1>0, <2>1, EntryOps
    <3>2. CASE toMap' = toMap
        BY <1>0, <3>1, <3>2
    <3>3. CASE entry.server \in Server /\ toMap' = Post(toMap, entry.server, Kick)
      <4>1. MapQ(Post(toMap, entry.server, Kick))
          BY <1>0, <3>3, PostToMap
      <4> QED
          BY <3>1, <3>3, <4>1
    <3> QED
        BY <2>1, <3>2, <3>3
  <2>3. ClientTyped' /\ CharTyped'
      BY <1>0, <2>1, <2>2 DEF ClientTyped, CharTyped
  <2> QED
      BY <1>0, <2>1, <2>2, <2>3, CharSide
<1>4. ASSUME NEW t \in Login, CharEof(t) PROVE TInv'
  <2>1. /\ selecting' \subseteq Login /\ entry' \in Entry
        /\ UNCHANGED <<logins, ticket, at, saved, player, data, node, latest, up, toChar, toMap>>
      BY <1>0, <1>b, <1>4 DEF CharEof, client, maps, links
  <2>2. ClientTyped' /\ CharTyped'
      BY <1>0, <2>1 DEF ClientTyped, CharTyped
  <2> QED
      BY <1>0, <2>1, <2>2, CharSide
<1>5. CASE AskKick
  <2>1. UNCHANGED <<logins, ticket, at, saved, player, data, node, latest, up, toChar>>
      BY <1>5 DEF AskKick, client, maps
  <2>2. selecting' \subseteq Login /\ entry' \in Entry /\ MapQ(toMap')
    <3>1. CASE entry.server \in Server
      <4>1. /\ toMap' = Post(toMap, entry.server, Kick) /\ selecting' = selecting
            /\ entry' = [entry EXCEPT !.waiting = TRUE]
          BY <1>5, <3>1 DEF AskKick
      <4>2. entry' \in Entry
          BY <1>0, <4>1, EntryOps
      <4> QED
          BY <1>0, <3>1, <4>1, <4>2, PostToMap
    <3>2. CASE entry.server \notin Server
      <4>1. MapQ(toMap') /\ selecting' \subseteq Login
          BY <1>0, <1>5, <3>2 DEF AskKick
      <4>2. \/ entry' = SetOffline(entry, FALSE)
            \/ \E t \in selecting : LET e == [entry EXCEPT !.fd = IF @ = t THEN 0 ELSE @]
                                    IN  entry' = IF e.server = Offline THEN SetOffline(e, FALSE) ELSE e
          BY <1>5, <3>2 DEF AskKick
      <4>3. SetOffline(entry, FALSE) \in Entry
          BY <1>0, EntryOps
      <4> QED
          BY <1>0, <1>b, <4>1, <4>2, <4>3
    <3> QED
        BY <3>1, <3>2
  <2>3. ClientTyped' /\ CharTyped'
      BY <1>0, <2>1, <2>2 DEF ClientTyped, CharTyped
  <2> QED
      BY <1>0, <2>1, <2>2, <2>3, CharSide
<1>6. CASE WaitingDisconnect \/ OnlineDataCleanup
  <2>1. UNCHANGED <<logins, ticket, at, selecting, saved, player, data, node, latest, up, toChar, toMap>>
      BY <1>6 DEF WaitingDisconnect, OnlineDataCleanup, client, maps, links
  <2>2. entry' \in Entry
    <3>1. NoEntry \in Entry
        BY <1>0 DEF NoEntry, Entry
    <3>2. SetOffline(entry, entry.char) \in Entry
        BY <1>0, EntryOps
    <3> QED
        BY <1>6, <3>1, <3>2 DEF WaitingDisconnect, OnlineDataCleanup
  <2>3. ClientTyped' /\ CharTyped'
      BY <1>0, <2>1, <2>2 DEF ClientTyped, CharTyped
  <2> QED
      BY <1>0, <2>1, <2>3, CharSide
<1> QED
    BY <1>1, <1>2, <1>3, <1>4, <1>5, <1>6

\* The char server handles a packet.
LEMMA CharPacketTyped ==
    ASSUME TInv, NEW s \in Server, CharPacket(s)
    PROVE  TInv'
<1> DEFINE m == Head(toChar[s])
<1>0. /\ selecting \subseteq Login /\ entry \in Entry /\ saved \in Data
      /\ MapQ(toMap) /\ Kick \in MapMsg
      /\ [type |-> "save ack"] \in MapMsg /\ [type |-> "charselect ok"] \in MapMsg
      /\ ClientTyped /\ SetOffline(entry, TRUE) \in Entry
    BY Queues, EntryOps DEF TInv, CharTyped, Kick, MapMsg
<1>a. CharPacket(s) => UNCHANGED <<logins, ticket, at, selecting, player, data, node, latest, up>>
    BY DEF CharPacket, HandleSave, HandleCharselect, HandleChange, HandleOffline, HandleAuth,
       HandleUsers, client, maps
<1>b. ClientTyped'
    BY <1>0, <1>a DEF ClientTyped
<1>c. ASSUME CharQ(toChar'), saved' \in Data, entry' \in Entry, MapQ(toMap') PROVE TInv'
  <2>1. CharTyped'
      BY <1>0, <1>a, <1>c DEF CharTyped
  <2> QED
      BY <1>a, <1>b, <1>c, <2>1, CharSide
<1>1. CASE HandleSave(s)
  <2>1. m \in CharMsg /\ m.type = "save" /\ CharQ(toChar')
      BY <1>1, TakeFacts DEF HandleSave
  <2>2. saved' \in Data
      BY <1>1, <2>1, CharMsgFacts DEF HandleSave
  <2>3. \/ entry' = SetOffline(entry, TRUE) /\ toMap' = Post(toMap, s, [type |-> "save ack"])
        \/ UNCHANGED <<entry, toMap>>
      BY <1>1 DEF HandleSave, SaveHandled
  <2>4. entry' \in Entry /\ MapQ(toMap')
      BY <1>0, <2>3, PostToMap
  <2> QED
      BY <1>c, <2>1, <2>2, <2>4
<1>2. CASE HandleCharselect(s)
  <2>1. CharQ(toChar')
      BY <1>2, TakeFacts DEF HandleCharselect
  <2>2. /\ entry' = SetCharselect(entry) /\ saved' = saved
        /\ toMap' = Post(toMap, s, [type |-> "charselect ok"])
      BY <1>2 DEF HandleCharselect
  <2>3. entry' \in Entry
      BY <1>0, <2>2, EntryOps
  <2> QED
      BY <1>0, <1>c, <2>1, <2>2, <2>3, PostToMap
<1>3. CASE HandleChange(s)
  <2>1. m \in CharMsg /\ m.type = "change" /\ CharQ(toChar')
      BY <1>3, TakeFacts DEF HandleChange
  <2>2. m.dest \in Server
      BY <2>1, CharMsgFacts
  <2>3. [type |-> "change ack", ok |-> up[m.dest]] \in MapMsg
      BY <2>2 DEF TInv, LinkTyped, MapMsg
  <2>4. /\ toMap' = Post(toMap, s, [type |-> "change ack", ok |-> up[m.dest]]) /\ saved' = saved
        /\ \/ entry' = entry
           \/ entry' = [entry EXCEPT !.known = TRUE, !.char = TRUE, !.server = m.dest]
      BY <1>3 DEF HandleChange
  <2>5. entry' \in Entry
      BY <1>0, <2>2, <2>4, EntryOps
  <2> QED
      BY <1>0, <1>c, <2>1, <2>3, <2>4, <2>5, PostToMap
<1>4. CASE HandleOffline(s)
  <2>1. CharQ(toChar')
      BY <1>4, TakeFacts DEF HandleOffline
  <2> QED
      BY <1>0, <1>4, <1>c, <2>1 DEF HandleOffline
<1>5. CASE HandleAuth(s)
  <2>1. m \in CharMsg /\ m.type = "auth" /\ CharQ(toChar') /\ up[s]
      BY <1>5, TakeFacts DEF HandleAuth
  <2>2. m.login \in Login
      BY <2>1, CharMsgFacts
  <2> DEFINE good == [type |-> "auth ok", login |-> m.login, data |-> saved]
             bad  == [type |-> "auth fail", login |-> m.login]
  <2>3. good \in MapMsg /\ bad \in MapMsg
      BY <1>0, <2>2 DEF MapMsg
  <2> HIDE DEF good, bad
  <2>4. ASSUME NEW r \in MapMsg PROVE MapQ([toMap EXCEPT ![s] = Append(@, r)])
    <3>0. toMap \in [Server -> Seq(MapMsg)] /\ \A x \in Server : up[x] \/ toMap[x] = <<>>
        BY <1>0 DEF MapQ
    <3>1. Append(toMap[s], r) \in Seq(MapMsg)
        BY <3>0
    <3> QED
        BY <2>1, <3>0, <3>1 DEF MapQ
  <2>5. \/ toMap' = [toMap EXCEPT ![s] = Append(@, good)]
        \/ toMap' = [toMap EXCEPT ![s] = Append(@, bad)]
        \/ entry.server \in Server /\ toMap' = Post([toMap EXCEPT ![s] = Append(@, good)], entry.server, Kick)
      BY <1>5 DEF HandleAuth, OnlineConflict, good, bad
  <2>6. MapQ(toMap')
    <3>1. MapQ([toMap EXCEPT ![s] = Append(@, good)]) /\ MapQ([toMap EXCEPT ![s] = Append(@, bad)])
        BY <2>3, <2>4
    <3>2. ASSUME NEW q, MapQ(q), NEW x \in Server PROVE MapQ(Post(q, x, Kick))
        BY <1>0, <3>2, PostToMap
    <3> QED
        BY <2>5, <3>1, <3>2
  <2>7. (entry' = entry \/ entry' = SetOnline(entry, s)) /\ saved' = saved
      BY <1>5 DEF HandleAuth
  <2>8. entry' \in Entry
      BY <1>0, <2>7, EntryOps
  <2> QED
      BY <1>0, <1>c, <2>1, <2>6, <2>7, <2>8
<1>6. CASE HandleUsers(s)
  <2> DEFINE e == [entry EXCEPT !.server = IF @ = s THEN Unknown ELSE @]
  <2>1. CharQ(toChar')
      BY <1>6, TakeFacts DEF HandleUsers
  <2>2. e \in Entry
    <3>1. entry.server \in Server \cup {Offline, Unknown}
        BY <1>0 DEF Entry
    <3> DEFINE x == IF entry.server = s THEN Unknown ELSE entry.server
    <3>2. e = [entry EXCEPT !.server = x]
        OBVIOUS
    <3>3. x \in Server \cup {Offline, Unknown}
        BY <3>1
    <3> HIDE DEF x, e
    <3> QED
        BY <1>0, <3>2, <3>3, EntryOps
  <2>3. /\ saved' = saved
        /\ entry' = e \/ entry' = [e EXCEPT !.known = TRUE, !.char = TRUE, !.server = s]
      BY <1>6 DEF HandleUsers
  <2>4. MapQ(toMap')
    <3>1. toMap' = toMap \/ \E x \in Server : toMap' = Post(toMap, x, Kick)
        BY <1>6 DEF HandleUsers
    <3> QED
        BY <1>0, <3>1, PostToMap
  <2> HIDE DEF e
  <2>5. entry' \in Entry
      BY <2>2, <2>3, EntryOps
  <2> QED
      BY <1>0, <1>c, <2>1, <2>3, <2>4, <2>5
<1> QED
    BY <1>1, <1>2, <1>3, <1>4, <1>5, <1>6 DEF CharPacket

\* map_quit of the active player.
LEMMA MapQuitTyped ==
    ASSUME TInv, NEW s \in Server, MapQuit(s), UNCHANGED <<data, latest>>
    PROVE  MapTyped' /\ OnePlace' /\ CharQ(toChar')
<1> DEFINE new == [state |-> "logout", login |-> player[s], data |-> data[s]]
<1>0. /\ player \in [Server -> 0..MaxLogins] /\ data \in [Server -> Data] /\ node \in [Server -> Node]
      /\ latest \in Nat /\ OnePlace /\ CharQ(toChar) /\ 0 \in 0..MaxLogins
    BY Queues, SessionBounds DEF TInv, MapTyped
<1>1. new \in Node /\ FinalSave(data[s]) \in CharMsg
    BY <1>0 DEF Node, FinalSave, CharMsg
<1> HIDE DEF new
<1>2. /\ player' = [player EXCEPT ![s] = 0] /\ node' = [node EXCEPT ![s] = new]
      /\ toChar' = Post(toChar, s, FinalSave(data[s]))
    BY DEF MapQuit, new
<1>3. CharQ(toChar')
    BY <1>0, <1>1, <1>2, PostToChar
<1> QED
    BY <1>0, <1>1, <1>2, <1>3 DEF MapTyped, OnePlace

\* A node of the auth_db is deleted.
LEMMA NodeDropped ==
    ASSUME TInv, NEW s \in Server, UNCHANGED <<player, data, latest>>,
           node' = node \/ node' = [node EXCEPT ![s] = NoNode]
    PROVE  MapTyped' /\ OnePlace'
<1>1. NoNode \in Node
    BY SessionBounds DEF NoNode, Node, Data
<1>2. CASE node' = node
    BY <1>2 DEF TInv, MapTyped, OnePlace
<1>3. CASE node' = [node EXCEPT ![s] = NoNode]
    BY <1>1, <1>3 DEF TInv, MapTyped, OnePlace
<1> QED
    BY <1>2, <1>3

\* Clients at a map server.
LEMMA MapClientTyped ==
    ASSUME TInv, NEW t \in Login, MapConnect(t) \/ MapEof(t)
    PROVE  TInv'
<1>0. /\ ticket \in [Login -> Server \cup {Nowhere, CharSrv, Spent}]
      /\ at \in [Login -> Server \cup {Nowhere}] /\ t \in 0..MaxLogins
      /\ logins \in 0..MaxLogins /\ CharQ(toChar) /\ MapQ(toMap)
      /\ MapTyped /\ OnePlace /\ NoNode \in Node
      /\ player \in [Server -> 0..MaxLogins] /\ data \in [Server -> Data] /\ node \in [Server -> Node]
  <2>1. CharQ(toChar) /\ MapQ(toMap)
      BY Queues
  <2>2. MapTyped /\ ClientTyped /\ OnePlace
      BY DEF TInv
  <2>3. NoNode \in Node
      BY SessionBounds DEF NoNode, Node, Data
  <2>4. t \in 0..MaxLogins
      BY SessionBounds DEF Login
  <2> QED
      BY <2>1, <2>2, <2>3, <2>4 DEF ClientTyped, MapTyped
<1>1. CASE MapConnect(t)
  <2> DEFINE s == ticket[t]
             new == [NoNode EXCEPT !.state = "login", !.login = t]
             ask == [type |-> "auth", login |-> t]
  <2>1. /\ s \in Server /\ ticket' = [ticket EXCEPT ![t] = Spent]
        /\ at' = at \/ at' = [at EXCEPT ![t] = s]
        /\ UNCHANGED <<logins, selecting, entry, auth, saved, player, data, latest, up, toMap>>
      BY <1>1 DEF MapConnect, charVars
  <2>2. new \in Node /\ ask \in CharMsg
      BY <1>0 DEF Node, NoNode, CharMsg
  <2> HIDE DEF new, ask
  <2>3. \/ UNCHANGED <<node, toChar>>
        \/ player[s] = 0 /\ node' = [node EXCEPT ![s] = new] /\ toChar' = Post(toChar, s, ask)
      BY <1>1 DEF MapConnect, Blocked, new, ask
  <2>4. ClientTyped'
      BY <1>0, <2>1 DEF ClientTyped
  <2>5. MapTyped' /\ OnePlace'
      BY <1>0, <2>1, <2>2, <2>3 DEF MapTyped, OnePlace
  <2>6. CharQ(toChar')
      BY <1>0, <2>1, <2>2, <2>3, PostToChar
  <2> QED
      BY <1>0, <2>1, <2>4, <2>5, <2>6, MapSide
<1>2. CASE MapEof(t)
  <2> DEFINE s == at[t]
  <2>1. /\ s \in Server /\ at' = [at EXCEPT ![t] = Nowhere]
        /\ UNCHANGED <<logins, ticket, selecting, entry, auth, saved, data, latest, up, toMap>>
      BY <1>2 DEF MapEof, charVars
  <2>3. \/ MapQuit(s)
        \/ /\ UNCHANGED <<player, toChar>>
           /\ node' = node \/ node' = [node EXCEPT ![s] = NoNode]
    <3>1. CASE player[s] = t
        BY <1>2, <3>1 DEF MapEof
    <3>2. CASE player[s] # t
      <4>1. /\ node' = [node EXCEPT ![s] = IF @.state \in {"login", "change"} THEN NoNode ELSE @]
            /\ UNCHANGED <<player, toChar>>
          BY <1>2, <3>2 DEF MapEof
      <4> QED
          BY <1>0, <2>1, <4>1
    <3> QED
        BY <3>1, <3>2
  <2>4. ClientTyped'
      BY <1>0, <2>1 DEF ClientTyped
  <2>5. MapTyped' /\ OnePlace' /\ CharQ(toChar')
      BY <1>0, <2>1, <2>3, MapQuitTyped, NodeDropped
  <2> QED
      BY <1>0, <2>1, <2>4, <2>5, MapSide
<1> QED
    BY <1>1, <1>2

\* What players and timers of a map server do.
LEMMA MapStepTyped ==
    ASSUME TInv, NEW s \in Server,
           \/ Play(s) \/ AutoSave(s) \/ Restart(s) \/ DelayQuit(s) \/ AuthDbCleanup(s)
           \/ \E d \in Server : ChangeServer(s, d)
    PROVE  TInv'
<1>0. /\ ClientTyped /\ CharQ(toChar) /\ MapQ(toMap) /\ MapTyped /\ OnePlace
      /\ at \in [Login -> Server \cup {Nowhere}]
      /\ player \in [Server -> 0..MaxLogins] /\ data \in [Server -> Data] /\ node \in [Server -> Node]
      /\ latest \in Nat /\ data[s] \in Data /\ node[s] \in Node /\ node[s].data \in Data
      /\ [type |-> "offline"] \in CharMsg
    BY Queues DEF TInv, ClientTyped, MapTyped, Node, CharMsg
<1>a. ASSUME player[s] # 0 PROVE player[s] \in Login
    BY <1>0, <1>a, SessionBounds DEF Login
<1>b. \A d \in Data : Save(d) \in CharMsg /\ FinalSave(d) \in CharMsg
    BY DEF Save, FinalSave, CharMsg
<1>1. CASE Play(s)
  <2>1. /\ latest' = latest + 1 /\ data' = [data EXCEPT ![s].ver = latest + 1]
        /\ UNCHANGED <<logins, ticket, at, selecting, entry, auth, saved, player, node, up, toChar, toMap>>
      BY <1>1 DEF Play, client, charVars, links
  <2>2. data' \in [Server -> Data]
      BY <1>0, <2>1 DEF Data
  <2>3. ClientTyped' /\ MapTyped' /\ OnePlace'
      BY <1>0, <2>1, <2>2 DEF ClientTyped, MapTyped, OnePlace
  <2> QED
      BY <1>0, <2>1, <2>3, MapSide
<1>2. CASE AutoSave(s) \/ Restart(s)
  <2>1. UNCHANGED <<logins, ticket, at, selecting, entry, auth, saved, player, data, node, latest, up, toMap>>
      BY <1>2 DEF AutoSave, Restart, client, charVars, maps
  <2>2. CharQ(toChar')
    <3>1. CASE AutoSave(s)
        BY <1>0, <1>b, <3>1, PostToChar DEF AutoSave
    <3>2. CASE Restart(s)
      <4>1. [type |-> "charselect", login |-> player[s]] \in CharMsg
          BY <1>a, <3>2 DEF Restart, CharMsg
      <4> QED
          BY <1>0, <3>2, <4>1, PostToChar DEF Restart
    <3> QED
        BY <1>2, <3>1, <3>2
  <2>3. ClientTyped' /\ MapTyped' /\ OnePlace'
      BY <1>0, <2>1 DEF ClientTyped, MapTyped, OnePlace
  <2> QED
      BY <1>0, <2>1, <2>2, <2>3, MapSide
<1>3. CASE DelayQuit(s)
  <2>1. /\ UNCHANGED <<logins, ticket, at, selecting, entry, auth, saved, data, latest, up, toMap>>
        /\ MapQuit(s)
      BY <1>3 DEF DelayQuit, client, charVars
  <2>2. ClientTyped'
      BY <1>0, <2>1 DEF ClientTyped
  <2> QED
      BY <1>0, <2>1, <2>2, MapQuitTyped, MapSide
<1>4. CASE AuthDbCleanup(s)
  <2>1. UNCHANGED <<logins, ticket, selecting, entry, auth, saved, player, data, latest, up, toMap>>
      BY <1>4 DEF AuthDbCleanup, charVars
  <2>2. /\ node' = node \/ node' = [node EXCEPT ![s] = NoNode]
        /\ at' = at \/ at' = [at EXCEPT ![node[s].login] = Nowhere]
        /\ \/ toChar' = Post(toChar, s, FinalSave(node[s].data))
           \/ toChar' = Post(toChar, s, [type |-> "offline"])
      BY <1>4 DEF AuthDbCleanup
  <2>3. CharQ(toChar')
      BY <1>0, <1>b, <2>2, PostToChar
  <2>4. ClientTyped'
      BY <1>0, <2>1, <2>2 DEF ClientTyped
  <2> QED
      BY <1>0, <2>1, <2>2, <2>3, <2>4, NodeDropped, MapSide
<1>5. ASSUME NEW d \in Server, ChangeServer(s, d) PROVE TInv'
  <2> DEFINE new == [state |-> "change", login |-> player[s], data |-> Moved(s, d)]
             one == Save(Moved(s, d))
             two == ChangeRequest(player[s], d)
  <2>1. /\ player[s] # 0 /\ up[s] /\ player' = [player EXCEPT ![s] = 0]
        /\ node' = [node EXCEPT ![s] = new]
        /\ toChar' = [toChar EXCEPT ![s] = @ \o << one, two >>]
        /\ UNCHANGED <<logins, ticket, at, selecting, entry, auth, saved, data, latest, up, toMap>>
      BY <1>5 DEF ChangeServer, Leaves, client, charVars
  <2>2. Moved(s, d) \in Data
      BY <1>0 DEF Moved, Data
  <2>3. new \in Node /\ one \in CharMsg /\ two \in CharMsg
      BY <1>0, <1>a, <1>b, <2>1, <2>2 DEF Node, ChangeRequest, CharMsg
  <2> HIDE DEF new, one, two
  <2>4. CharQ(toChar')
    <3>0. toChar \in [Server -> Seq(CharMsg)] /\ \A x \in Server : up[x] \/ toChar[x] = <<>>
        BY <1>0 DEF CharQ
    <3>1. toChar[s] \o << one, two >> \in Seq(CharMsg)
        BY <2>3, <3>0
    <3> QED
        BY <2>1, <3>0, <3>1 DEF CharQ
  <2>5. MapTyped' /\ OnePlace'
    <3>1. 0 \in 0..MaxLogins
        BY SessionBounds
    <3> QED
        BY <1>0, <2>1, <2>3, <3>1 DEF MapTyped, OnePlace
  <2>6. ClientTyped'
      BY <1>0, <2>1 DEF ClientTyped
  <2> QED
      BY <1>0, <2>1, <2>4, <2>5, <2>6, MapSide
<1> QED
    BY <1>1, <1>2, <1>3, <1>4, <1>5

\* A map server handles a packet.
LEMMA MapPacketTyped ==
    ASSUME TInv, NEW s \in Server, MapPacket(s)
    PROVE  TInv'
<1> DEFINE m == Head(toMap[s])
<1>0. /\ ClientTyped /\ CharQ(toChar) /\ MapTyped /\ OnePlace
      /\ at \in [Login -> Server \cup {Nowhere}]
      /\ ticket \in [Login -> Server \cup {Nowhere, CharSrv, Spent}]
      /\ player \in [Server -> 0..MaxLogins] /\ data \in [Server -> Data] /\ node \in [Server -> Node]
      /\ latest \in Nat /\ node[s] \in Node /\ node[s].data.home \in Server
      /\ [type |-> "offline"] \in CharMsg /\ NoNode \in Node
    BY Queues, SessionBounds DEF TInv, ClientTyped, MapTyped, Node, Data, CharMsg, NoNode
<1>a. MapPacket(s) => UNCHANGED <<logins, selecting, entry, auth, saved, latest, up>>
    BY DEF MapPacket, ReceiveAuthOk, ReceiveAuthFail, ReceiveSaveAck, ReceiveCharselectOk,
       ReceiveChangeAck, ReceiveKick, client, charVars, maps
<1>b. CharQ(Post(toChar, s, [type |-> "offline"]))
    BY <1>0, PostToChar
<1>c. \A t : [at EXCEPT ![t] = Nowhere] \in [Login -> Server \cup {Nowhere}]
    BY <1>0
<1>1. CASE ReceiveAuthOk(s)
  <2>1. m \in MapMsg /\ m.type = "auth ok" /\ MapQ(toMap')
      BY <1>1, ReceiveFacts DEF ReceiveAuthOk
  <2>2. m.login \in 0..MaxLogins /\ [ver |-> m.data.ver, home |-> s] \in Data
    <3>1. m.login \in Login /\ m.data \in Data
        BY <2>1, MapMsgFacts
    <3> QED
        BY <3>1, SessionBounds DEF Login, Data
  <2>3. CASE UNCHANGED <<at, player, data, node, toChar>>
    <3>1. ClientTyped' /\ MapTyped' /\ OnePlace'
        BY <1>0, <1>1, <1>a, <2>3 DEF ClientTyped, MapTyped, OnePlace, ReceiveAuthOk
    <3> QED
        BY <1>0, <1>a, <2>1, <2>3, <3>1, MapSide
  <2>4. CASE /\ node' = [node EXCEPT ![s] = NoNode]
             /\ player' = [player EXCEPT ![s] = m.login]
             /\ data' = [data EXCEPT ![s] = [ver |-> m.data.ver, home |-> s]]
             /\ UNCHANGED <<at, toChar>>
    <3>1. ClientTyped'
        BY <1>0, <1>1, <1>a, <2>4 DEF ClientTyped, ReceiveAuthOk
    <3>2. MapTyped' /\ OnePlace'
        BY <1>0, <1>a, <2>2, <2>4 DEF MapTyped, OnePlace
    <3> QED
        BY <1>0, <1>a, <2>1, <2>4, <3>1, <3>2, MapSide
  <2>5. CASE /\ node' = [node EXCEPT ![s] = NoNode]
             /\ toChar' = Post(toChar, s, [type |-> "offline"])
             /\ at' = [at EXCEPT ![node[s].login] = Nowhere]
             /\ UNCHANGED <<player, data>>
    <3>1. ClientTyped'
        BY <1>0, <1>1, <1>a, <1>c, <2>5 DEF ClientTyped, ReceiveAuthOk
    <3>2. MapTyped' /\ OnePlace'
        BY <1>a, <2>5, NodeDropped
    <3> QED
        BY <1>0, <1>a, <1>b, <2>1, <2>5, <3>1, <3>2, MapSide
  <2> QED
      BY <1>1, <2>3, <2>4, <2>5 DEF ReceiveAuthOk
<1>2. CASE ReceiveAuthFail(s) \/ ReceiveSaveAck(s)
  <2>1. MapQ(toMap')
      BY <1>2, ReceiveFacts DEF ReceiveAuthFail, ReceiveSaveAck
  <2>2. /\ UNCHANGED <<ticket, player, data, toChar>>
        /\ at' = at \/ \E t : at' = [at EXCEPT ![t] = Nowhere]
      BY <1>2 DEF ReceiveAuthFail, ReceiveSaveAck, client
  <2>3. node' = node \/ node' = [node EXCEPT ![s] = NoNode]
    <3>1. \E b \in BOOLEAN : node' = [node EXCEPT ![s] = IF b THEN NoNode ELSE @]
        BY <1>2 DEF ReceiveAuthFail, ReceiveSaveAck
    <3> QED
        BY <1>0, <3>1
  <2>4. ClientTyped'
      BY <1>0, <1>a, <1>c, <2>2 DEF ClientTyped
  <2> QED
      BY <1>0, <1>a, <2>1, <2>2, <2>3, <2>4, NodeDropped, MapSide
<1>3. CASE ReceiveCharselectOk(s)
  <2>1. MapQ(toMap')
      BY <1>3, ReceiveFacts DEF ReceiveCharselectOk
  <2>2. UNCHANGED <<player, data, node, toChar>>
      BY <1>3 DEF ReceiveCharselectOk, maps
  <2>3. ClientTyped'
      BY <1>0, <1>3, <1>a, <1>c DEF ReceiveCharselectOk, ClientTyped
  <2> QED
      BY <1>0, <1>a, <2>1, <2>2, <2>3, NodeDropped, MapSide
<1>4. CASE ReceiveChangeAck(s)
  <2>1. MapQ(toMap')
      BY <1>4, ReceiveFacts DEF ReceiveChangeAck
  <2>2. /\ UNCHANGED <<player, data>>
        /\ node' = node \/ node' = [node EXCEPT ![s] = NoNode]
        /\ at' = at \/ at' = [at EXCEPT ![node[s].login] = Nowhere]
        /\ ticket' = ticket \/ ticket' = [ticket EXCEPT ![node[s].login] = node[s].data.home]
        /\ toChar' = toChar \/ toChar' = Post(toChar, s, [type |-> "offline"])
      BY <1>4 DEF ReceiveChangeAck
  <2>3. ClientTyped'
      BY <1>0, <1>a, <1>c, <2>2 DEF ClientTyped
  <2> QED
      BY <1>0, <1>a, <1>b, <2>1, <2>2, <2>3, NodeDropped, MapSide
<1>5. CASE ReceiveKick(s)
  <2>1. MapQ(toMap')
      BY <1>5, ReceiveFacts DEF ReceiveKick
  <2>2. /\ UNCHANGED <<ticket, data>>
        /\ at' = at \/ \E t : at' = [at EXCEPT ![t] = Nowhere]
        /\ \/ MapQuit(s)
           \/ /\ UNCHANGED <<player, toChar>>
              /\ node' = node \/ node' = [node EXCEPT ![s] = NoNode]
      BY <1>5 DEF ReceiveKick
  <2>3. ClientTyped'
      BY <1>0, <1>a, <1>c, <2>2 DEF ClientTyped
  <2>4. MapTyped' /\ OnePlace' /\ CharQ(toChar')
      BY <1>0, <1>a, <2>2, MapQuitTyped, NodeDropped
  <2> QED
      BY <1>a, <2>1, <2>2, <2>3, <2>4, MapSide
<1> QED
    BY <1>1, <1>2, <1>3, <1>4, <1>5 DEF MapPacket

\* The links break and come back.
LEMMA LinkTypedSteps ==
    ASSUME TInv, CharRestart \/ \E s \in Server : LinkLost(s) \/ LinkReady(s)
    PROVE  TInv'
<1>0. /\ ClientTyped /\ MapTyped /\ OnePlace /\ CharTyped /\ entry \in Entry
      /\ selecting \subseteq Login /\ saved \in Data
      /\ CharQ(toChar) /\ MapQ(toMap)
      /\ up \in [Server -> BOOLEAN]
      /\ toChar \in [Server -> Seq(CharMsg)] /\ toMap \in [Server -> Seq(MapMsg)]
    BY Queues DEF TInv, CharTyped, LinkTyped
<1>1. ASSUME NEW S, LinkDown(S) PROVE LinkTyped' /\ DownEmpty'
  <2>1. /\ up' = [s \in Server |-> up[s] /\ s \notin S]
        /\ toChar' = [s \in Server |-> IF s \in S THEN <<>> ELSE toChar[s]]
        /\ toMap' = [s \in Server |-> IF s \in S THEN <<>> ELSE toMap[s]]
      BY <1>1 DEF LinkDown
  <2>2. up' \in [Server -> BOOLEAN]
      BY <2>1, Zenon
  <2>3. toChar' \in [Server -> Seq(CharMsg)] /\ toMap' \in [Server -> Seq(MapMsg)]
      BY <1>0, <2>1
  <2>4. DownEmpty'
      BY <2>1 DEF DownEmpty, TInv
  <2> QED
      BY <2>2, <2>3, <2>4 DEF LinkTyped
<1>2. CASE CharRestart
  <2>1. LinkTyped' /\ DownEmpty'
      BY <1>1, <1>2 DEF CharRestart
  <2>2. NoEntry \in Entry
      BY SessionBounds DEF NoEntry, Entry
  <2>3. /\ UNCHANGED <<logins, ticket, at, saved, player, data, node, latest>>
        /\ selecting' = {} /\ entry' = NoEntry
      BY <1>2 DEF CharRestart, client, maps
  <2> QED
      BY <1>0, <2>1, <2>2, <2>3 DEF TInv, ClientTyped, CharTyped, MapTyped, OnePlace
<1>3. ASSUME NEW s \in Server, LinkLost(s) PROVE TInv'
  <2>1. LinkTyped' /\ DownEmpty'
      BY <1>1, <1>3 DEF LinkLost
  <2> DEFINE x == IF entry.server = s THEN Unknown ELSE entry.server
  <2>2. /\ UNCHANGED <<logins, ticket, at, selecting, saved, player, data, node, latest>>
        /\ entry' = [entry EXCEPT !.server = x]
      BY <1>3 DEF LinkLost, client, maps
  <2>3. x \in Server \cup {Offline, Unknown}
      BY <1>0 DEF Entry
  <2> HIDE DEF x
  <2>4. entry' \in Entry
      BY <1>0, <2>2, <2>3, EntryOps
  <2> QED
      BY <1>0, <2>1, <2>2, <2>4 DEF TInv, ClientTyped, CharTyped, MapTyped, OnePlace
<1>4. ASSUME NEW s \in Server, LinkReady(s) PROVE TInv'
  <2>0. /\ player \in [Server -> 0..MaxLogins] /\ node \in [Server -> Node] /\ node[s] \in Node
        /\ at \in [Login -> Server \cup {Nowhere}]
      BY <1>0 DEF MapTyped, ClientTyped
  <2> DEFINE hello == [type |-> "users", online |-> player[s] # 0]
  <2>1. /\ up' = [up EXCEPT ![s] = TRUE] /\ ~up[s]
        /\ toChar' = [toChar EXCEPT ![s] = << hello >> \o Resent(s)]
        /\ node' = node \/ node' = [node EXCEPT ![s] = NoNode]
        /\ at' = at \/ at' = [at EXCEPT ![node[s].login] = Nowhere]
        /\ UNCHANGED <<logins, ticket, selecting, entry, auth, saved, player, data, latest, toMap>>
      BY <1>4 DEF LinkReady, charVars
  <2>2. hello \in CharMsg
      BY DEF CharMsg
  <2>3. Resent(s) \in Seq(CharMsg)
    <3>1. CASE node[s].state = "none"
        BY <3>1 DEF Resent
    <3>2. CASE node[s].state = "login"
        BY <3>2 DEF Resent, CharMsg
    <3>3. CASE node[s].state = "logout"
      <4>1. FinalSave(node[s].data) \in CharMsg
          BY <2>0 DEF Node, FinalSave, CharMsg
      <4> QED
          BY <3>3, <4>1 DEF Resent
    <3>4. CASE node[s].state = "change"
      <4>1. ChangeRequest(node[s].login, node[s].data.home) \in CharMsg
          BY <2>0, <3>4 DEF Node, Data, ChangeRequest, CharMsg
      <4> QED
          BY <3>4, <4>1 DEF Resent
    <3> QED
        BY <2>0, <3>1, <3>2, <3>3, <3>4 DEF Node
  <2>4. up' \in [Server -> BOOLEAN]
      BY <1>0, <2>1, Zenon
  <2> HIDE DEF hello
  <2>5. toChar' \in [Server -> Seq(CharMsg)]
    <3>1. << hello >> \o Resent(s) \in Seq(CharMsg)
        BY <2>2, <2>3
    <3> QED
        BY <1>0, <2>1, <3>1
  <2>6. LinkTyped' /\ DownEmpty'
      BY <1>0, <2>1, <2>4, <2>5 DEF LinkTyped, DownEmpty, TInv
  <2>7. MapTyped' /\ OnePlace'
      BY <2>1, NodeDropped
  <2>8. ClientTyped'
      BY <1>0, <2>0, <2>1 DEF ClientTyped
  <2> QED
      BY <1>0, <2>1, <2>6, <2>7, <2>8 DEF TInv, CharTyped
<1> QED
    BY <1>2, <1>3, <1>4

\* Every step keeps the types.
LEMMA TypeStep == TInv /\ [Next]_vars => TInv'
<1> SUFFICES ASSUME TInv, [Next]_vars PROVE TInv'
    OBVIOUS
<1>1. CASE UNCHANGED vars
    BY <1>1 DEF vars, client, charVars, maps, links, TInv, ClientTyped, CharTyped, MapTyped, LinkTyped,
       OnePlace, DownEmpty
<1>2. CASE Connect \/ AskKick \/ WaitingDisconnect \/ OnlineDataCleanup
    BY <1>2, CharClientTyped
<1>3. ASSUME NEW t \in Login, ClientStep(t) PROVE TInv'
    BY <1>3, CharClientTyped, MapClientTyped DEF ClientStep
<1>4. ASSUME NEW s \in Server, PlayerStep(s) \/ DelayQuit(s) \/ AuthDbCleanup(s) PROVE TInv'
    BY <1>4, MapStepTyped DEF PlayerStep
<1>5. ASSUME NEW s \in Server, CharPacket(s) \/ MapPacket(s) \/ LinkLost(s) \/ LinkReady(s) PROVE TInv'
    BY <1>5, CharPacketTyped, MapPacketTyped, LinkTypedSteps
<1>6. CASE CharRestart
    BY <1>6, LinkTypedSteps
<1> QED
    BY <1>1, <1>2, <1>3, <1>4, <1>5, <1>6 DEF Next

\* SessionTypeOK holds for any number of map servers, clients, versions, lost
\* connections and packets: in particular a map server never has the character
\* both in the game and in its auth_db.
THEOREM SessionsAreTyped == Spec => []SessionTypeOK
<1>1. TInv => SessionTypeOK
    BY DEF TInv, ClientTyped, CharTyped, MapTyped, Node, Entry, OnePlace, DownEmpty, SessionTypeOK
<1> QED
    BY TypeInit, TypeStep, <1>1, PTL DEF Spec

-----------------------------------------------------------------------------
(* One login and no loss, on any number of map servers.                    *)

\* One client, and no connection between servers is lost.
Lone == MaxLogins = 1 /\ MaxLosses = 0

\* Final saves are a kind of their own.
Kind(m) == IF m.type = "save" THEN IF m.final THEN "final" ELSE "save" ELSE m.type

\* The packets of a kind in a queue: there is one, there is at most one, and
\* those of one kind are ahead of those of another.
Has(q, k)       == \E i \in DOMAIN q : Kind(q[i]) = k
Once(q, k)      == \A i, j \in DOMAIN q : Kind(q[i]) = k /\ Kind(q[j]) = k => i = j
Ahead(q, k, l)  == \A i, j \in DOMAIN q : Kind(q[i]) = k /\ Kind(q[j]) = l => i < j

\* All saves are of a player on s.
SavesHome(q, s) == \A i \in DOMAIN q : q[i].type = "save" => q[i].data.home = s

\* When the request to change the server is handled, the position is h; now it
\* is the one given.
Lands(q, now, h) ==
    \A i \in DOMAIN q : q[i].type = "change" =>
        IF i = 1 THEN now = h ELSE q[i - 1].type = "save" /\ q[i - 1].data.home = h

\* All changes are granted.
Granted(q) == \A i \in DOMAIN q : q[i].type = "change ack" => q[i].ok

\* What becomes of this when m is put at the end of q.
Pushed(r, q, m) ==
    /\ \A k : Has(r, k) <=> Has(q, k) \/ Kind(m) = k
    /\ \A k : Once(q, k) /\ ~(Has(q, k) /\ Kind(m) = k) => Once(r, k)
    /\ \A k, l : Ahead(q, k, l) /\ k # l /\ ~(Kind(m) = k /\ Has(q, l)) => Ahead(r, k, l)
    /\ \A s : SavesHome(q, s) /\ (m.type = "save" => m.data.home = s) => SavesHome(r, s)
    /\ \A now, h : Lands(q, now, h) /\ m.type # "change" => Lands(r, now, h)
    /\ Granted(q) /\ (m.type = "change ack" => m.ok) => Granted(r)

\* Append does just that.
LEMMA PushedQueue ==
    ASSUME NEW T, NEW q \in Seq(T), NEW m
    PROVE  Pushed(Append(q, m), q, m)
<1> DEFINE r == Append(q, m)
           n == Len(q) + 1
<1>1. /\ n \in Nat /\ n \in DOMAIN r /\ r[n] = m
      /\ \A i \in DOMAIN q : i \in Nat /\ i < n /\ i \in DOMAIN r /\ r[i] = q[i]
      /\ \A i \in DOMAIN r : i = n \/ i \in DOMAIN q
      /\ \A i \in DOMAIN r : i \in Nat /\ (i = 1 \/ i - 1 \in DOMAIN q)
    OBVIOUS
<1> HIDE DEF r, n
<1>2. ASSUME NEW k PROVE Has(r, k) <=> Has(q, k) \/ Kind(m) = k
    BY <1>1 DEF Has
<1>3. ASSUME NEW k, Once(q, k), ~(Has(q, k) /\ Kind(m) = k) PROVE Once(r, k)
    BY <1>1, <1>3 DEF Once, Has
<1>4. ASSUME NEW k, NEW l, Ahead(q, k, l), k # l, ~(Kind(m) = k /\ Has(q, l)) PROVE Ahead(r, k, l)
  <2> SUFFICES ASSUME NEW i \in DOMAIN r, NEW j \in DOMAIN r, Kind(r[i]) = k, Kind(r[j]) = l PROVE i < j
      BY DEF Ahead
  <2>1. CASE i \in DOMAIN q /\ j \in DOMAIN q
      BY <1>1, <1>4, <2>1 DEF Ahead
  <2>2. CASE i \in DOMAIN q /\ j = n
      BY <1>1, <2>2
  <2>3. CASE i = n /\ j \in DOMAIN q
      BY <1>1, <1>4, <2>3 DEF Has
  <2> QED
      BY <1>1, <1>4, <2>1, <2>2, <2>3
<1>5. ASSUME NEW s, SavesHome(q, s), m.type = "save" => m.data.home = s PROVE SavesHome(r, s)
    BY <1>1, <1>5 DEF SavesHome
<1>6. ASSUME NEW now, NEW h, Lands(q, now, h), m.type # "change" PROVE Lands(r, now, h)
  <2> SUFFICES ASSUME NEW i \in DOMAIN r, r[i].type = "change"
               PROVE  IF i = 1 THEN now = h ELSE r[i - 1].type = "save" /\ r[i - 1].data.home = h
      BY DEF Lands
  <2>1. i \in DOMAIN q /\ q[i].type = "change"
      BY <1>1, <1>6
  <2>2. i # 1 => i - 1 \in DOMAIN q /\ r[i - 1] = q[i - 1]
      BY <1>1
  <2> QED
      BY <1>6, <2>1, <2>2 DEF Lands
<1>7. ASSUME Granted(q), m.type = "change ack" => m.ok PROVE Granted(r)
    BY <1>1, <1>7 DEF Granted
<1> QED
    BY <1>2, <1>3, <1>4, <1>5, <1>6, <1>7 DEF r, Pushed

\* What becomes of it when m, the first packet, is taken out of q.
Popped(r, q, m) ==
    /\ \A k : Has(q, k) <=> Has(r, k) \/ Kind(m) = k
    /\ \A k : Once(q, k) => Once(r, k) /\ ~(Has(r, k) /\ Kind(m) = k)
    /\ \A k, l : Ahead(q, k, l) => Ahead(r, k, l) /\ ~(Has(r, k) /\ Kind(m) = l)
    /\ \A s : SavesHome(q, s) => SavesHome(r, s) /\ (m.type = "save" => m.data.home = s)
    /\ \A now, h : Lands(q, now, h) =>
          /\ m.type = "change" => now = h
          /\ Lands(r, IF m.type = "save" THEN m.data.home ELSE now, h)
    /\ Granted(q) => Granted(r) /\ (m.type = "change ack" => m.ok)

\* Head and Tail do just that.
LEMMA PoppedQueue ==
    ASSUME NEW T, NEW q \in Seq(T), q # <<>>
    PROVE  Popped(Tail(q), q, Head(q))
<1> DEFINE r == Tail(q)
           m == Head(q)
<1>1. /\ 1 \in DOMAIN q /\ q[1] = m
      /\ \A i \in DOMAIN q : i \in Nat /\ (i = 1 \/ (i > 1 /\ i - 1 \in DOMAIN r /\ r[i - 1] = q[i]))
      /\ \A i \in DOMAIN r : i \in Nat /\ i >= 1 /\ i + 1 \in DOMAIN q /\ r[i] = q[i + 1]
    OBVIOUS
<1> HIDE DEF r, m
<1>2. ASSUME NEW k PROVE Has(q, k) <=> Has(r, k) \/ Kind(m) = k
  <2>1. Has(q, k) => Has(r, k) \/ Kind(m) = k
      BY <1>1 DEF Has
  <2>2. Has(r, k) \/ Kind(m) = k => Has(q, k)
      BY <1>1 DEF Has
  <2> QED
      BY <2>1, <2>2
<1>3. ASSUME NEW k, Once(q, k) PROVE Once(r, k) /\ ~(Has(r, k) /\ Kind(m) = k)
  <2>1. Once(r, k)
    <3> SUFFICES ASSUME NEW i \in DOMAIN r, NEW j \in DOMAIN r, Kind(r[i]) = k, Kind(r[j]) = k PROVE i = j
        BY DEF Once
    <3>1. i + 1 = j + 1
        BY <1>1, <1>3 DEF Once
    <3> QED
        BY <1>1, <3>1
  <2>2. ASSUME NEW i \in DOMAIN r, Kind(r[i]) = k, Kind(m) = k PROVE FALSE
    <3>1. i + 1 = 1
        BY <1>1, <1>3, <2>2 DEF Once
    <3> QED
        BY <1>1, <3>1
  <2> QED
      BY <2>1, <2>2 DEF Has
<1>4. ASSUME NEW k, NEW l, Ahead(q, k, l) PROVE Ahead(r, k, l) /\ ~(Has(r, k) /\ Kind(m) = l)
  <2>1. Ahead(r, k, l)
    <3> SUFFICES ASSUME NEW i \in DOMAIN r, NEW j \in DOMAIN r, Kind(r[i]) = k, Kind(r[j]) = l PROVE i < j
        BY DEF Ahead
    <3>1. i + 1 < j + 1
        BY <1>1, <1>4 DEF Ahead
    <3> QED
        BY <1>1, <3>1
  <2>2. ASSUME NEW i \in DOMAIN r, Kind(r[i]) = k, Kind(m) = l PROVE FALSE
    <3>1. i + 1 < 1
        BY <1>1, <1>4, <2>2 DEF Ahead
    <3> QED
        BY <1>1, <3>1
  <2> QED
      BY <2>1, <2>2 DEF Has
<1>5. ASSUME NEW s, SavesHome(q, s) PROVE SavesHome(r, s) /\ (m.type = "save" => m.data.home = s)
    BY <1>1, <1>5 DEF SavesHome
<1>6. ASSUME NEW now, NEW h, Lands(q, now, h)
      PROVE  /\ m.type = "change" => now = h
             /\ Lands(r, IF m.type = "save" THEN m.data.home ELSE now, h)
  <2>1. m.type = "change" => now = h
      BY <1>1, <1>6 DEF Lands
  <2>2. ASSUME NEW i \in DOMAIN r, r[i].type = "change"
        PROVE  IF i = 1 THEN m.type = "save" /\ m.data.home = h ELSE r[i - 1].type = "save" /\ r[i - 1].data.home = h
    <3>1. i + 1 # 1 /\ i + 1 \in DOMAIN q /\ q[i + 1].type = "change" /\ (i + 1) - 1 = i
        BY <1>1, <2>2
    <3>2. q[i].type = "save" /\ q[i].data.home = h
        BY <1>6, <3>1 DEF Lands
    <3>3. i # 1 => i - 1 \in DOMAIN r /\ r[i - 1] = q[i]
      <4>1. i \in Nat /\ i >= 1 /\ i + 1 \in DOMAIN q
          BY <1>1
      <4>2. i \in DOMAIN q
          BY <4>1
      <4> QED
          BY <1>1, <4>1, <4>2
    <3> QED
        BY <1>1, <3>2, <3>3
  <2> QED
      BY <2>1, <2>2 DEF Lands
<1>7. ASSUME Granted(q) PROVE Granted(r) /\ (m.type = "change ack" => m.ok)
    BY <1>1, <1>7 DEF Granted
<1> QED
    BY <1>2, <1>3, <1>4, <1>5, <1>6, <1>7 DEF r, m, Popped

\* Without saves none of them is of another server.
LEMMA NoSaves ==
    ASSUME NEW q, ~Has(q, "save"), ~Has(q, "final"), NEW s
    PROVE  SavesHome(q, s)
    BY DEF Has, Kind, SavesHome

\* A save with the new position is sent just ahead of the request.
LEMMA MoveLands ==
    ASSUME NEW T, NEW q \in Seq(T), ~Has(q, "change"), NEW m, NEW n, NEW now, NEW h,
           m.type = "save", m.data.home = h
    PROVE  Lands(Append(Append(q, m), n), now, h)
<1> DEFINE r == Append(Append(q, m), n)
<1>1. /\ \A i \in DOMAIN r : i \in 1..(Len(q) + 2)
      /\ r[Len(q) + 1] = m
      /\ \A i \in DOMAIN q : r[i] = q[i]
      /\ \A i \in 1..(Len(q) + 2) : i \in DOMAIN q \/ i = Len(q) + 1 \/ i = Len(q) + 2
      /\ Len(q) \in Nat
    OBVIOUS
<1>2. \A i \in DOMAIN q : q[i].type # "change"
    BY DEF Has, Kind
<1> HIDE DEF r
<1> SUFFICES ASSUME NEW i \in DOMAIN r, r[i].type = "change"
             PROVE  IF i = 1 THEN now = h ELSE r[i - 1].type = "save" /\ r[i - 1].data.home = h
    BY DEF Lands, r
<1>3. i = Len(q) + 2
    BY <1>1, <1>2
<1>4. i # 1 /\ i - 1 = Len(q) + 1
    BY <1>1, <1>3
<1> QED
    BY <1>1, <1>4

-----------------------------------------------------------------------------
(* The invariant.                                                          *)

\* The character is on s: in the game, in its auth_db, on its way to it, or it
\* has left something for the char server to do.
Busy(s) ==
    \/ player[s] # 0 \/ node[s].state # "none" \/ ticket[1] = s
    \/ Has(toChar[s], "save") \/ Has(toChar[s], "final") \/ Has(toChar[s], "charselect")

\* It is changing from s to another server, or is asking to enter s.
Moving(s) == Has(toChar[s], "change") \/ Has(toMap[s], "change ack")
Asking(s) == Has(toChar[s], "auth") \/ Has(toMap[s], "auth ok")

\* The links hold.
LinkHolds == losses = 0 /\ \A s \in Server : up[s] /\ ~Has(toChar[s], "users")

\* Before the login nobody is anywhere.
NotStarted == logins = 0 => ticket[1] = Nowhere /\ selecting = {}

\* A client connected to a map server has been let in; it is the player or the
\* one a node waits for.
Seats ==
    /\ at[1] \in Server => ticket[1] = Spent
    /\ \A s \in Server :
          /\ at[1] = s => player[s] # 0 \/ node[s].state \in {"login", "change"}
          /\ data[s].home = s
          /\ node[s].state = "logout" => node[s].data.home = s
          /\ node[s].state = "change" => node[s].data.home # s /\ Moving(s)
          /\ node[s].state \in {"login", "change"} => at[1] = s /\ node[s].login = 1

\* A client that was given up does not come back.
OfflineIsDead == \A s \in Server : Has(toChar[s], "offline") => ticket[1] = Spent /\ at[1] = Nowhere

\* The character is on one server; unless it is leaving, the database says so.
BusyOnce   == \A s, d \in Server : Busy(s) /\ Busy(d) => s = d
BusyIsHome == \A s \in Server : Busy(s) /\ ~Moving(s) => saved.home = s /\ SavesHome(toChar[s], s)

\* There is one change of the server at a time, and nobody is in the game
\* meanwhile; the same for a login.
MovesAlone ==
    \A s \in Server : Moving(s) =>
        /\ ticket[1] = Spent
        /\ \A x \in Server : player[x] = 0 /\ node[x].state \in {"none", "change"} /\ (Moving(x) => x = s)
        /\ Once(toChar[s], "change") /\ Once(toMap[s], "change ack")
        /\ ~(Has(toChar[s], "change") /\ Has(toMap[s], "change ack"))
AsksAlone ==
    \A s \in Server : Asking(s) =>
        /\ ticket[1] = Spent
        /\ \A x \in Server : player[x] = 0 /\ node[x].state \in {"none", "login"} /\ (Asking(x) => x = s)
        /\ Once(toChar[s], "auth") /\ Once(toMap[s], "auth ok")
        /\ ~(Has(toChar[s], "auth") /\ Has(toMap[s], "auth ok"))

\* Whoever changes the server leaves nothing behind the request, and the
\* database has its new position when it is handled.
MoveIsSaved ==
    \A s \in Server :
        /\ \A k \in {"save", "final", "charselect"} : Ahead(toChar[s], k, "change")
        /\ node[s].state = "change" => Lands(toChar[s], saved.home, node[s].data.home)
        /\ Granted(toMap[s])
        /\ Has(toMap[s], "change ack") =>
              /\ \A k \in {"save", "final", "charselect"} : ~Has(toChar[s], k)
              /\ node[s].state = "change" => saved.home = node[s].data.home

\* A login is handled after all that was left by the session before, and its
\* server is the one that the char server knows.
AskIsLast ==
    \A s \in Server :
        /\ \A k \in {"final", "charselect"} : Ahead(toChar[s], k, "auth")
        /\ Ahead(toMap[s], "charselect ok", "auth ok")
        /\ Has(toMap[s], "auth ok") =>
              /\ \A k \in {"final", "charselect"} : ~Has(toChar[s], k)
              /\ node[s].state = "login" => entry.server = s

\* So is that of a player, until it is on its way back to the selection.
PlayerKnown ==
    \A s \in Server : player[s] # 0 =>
        /\ ~Has(toChar[s], "final")
        /\ at[1] = s => IF Has(toMap[s], "charselect ok") THEN entry.server \notin Server ELSE entry.server = s

\* Who may select a character is on no server.
SelectsOffline == ~entry.waiting /\ (ticket[1] \in {CharSrv, Nowhere} => entry.server \notin Server)

\* The inductive invariant.
LoneInv ==
    /\ LinkHolds /\ NotStarted /\ Seats /\ OfflineIsDead /\ BusyOnce /\ BusyIsHome
    /\ MovesAlone /\ AsksAlone /\ MoveIsSaved /\ AskIsLast /\ PlayerKnown /\ SelectsOffline

-----------------------------------------------------------------------------
(* Queues in a step.                                                       *)

\* A packet is put into a queue, or taken out of it.
CharPush(s, m) == Pushed(toChar'[s], toChar[s], m) /\ \A x \in Server \ {s} : toChar'[x] = toChar[x]
CharPop(s, m)  == Popped(toChar'[s], toChar[s], m) /\ \A x \in Server \ {s} : toChar'[x] = toChar[x]
MapPush(s, m)  == Pushed(toMap'[s], toMap[s], m) /\ \A x \in Server \ {s} : toMap'[x] = toMap[x]
MapPop(s, m)   == Popped(toMap'[s], toMap[s], m) /\ \A x \in Server \ {s} : toMap'[x] = toMap[x]

\* A map server sends a packet.
LEMMA CharPosted ==
    ASSUME TInv, LinkHolds, NEW s \in Server, NEW m, toChar' = Post(toChar, s, m)
    PROVE  CharPush(s, m)
<1>1. toChar \in [Server -> Seq(CharMsg)] /\ up[s]
    BY DEF TInv, LinkTyped, LinkHolds
<1>2. toChar'[s] = Append(toChar[s], m) /\ \A x \in Server \ {s} : toChar'[x] = toChar[x]
    BY <1>1 DEF Post
<1>3. Pushed(Append(toChar[s], m), toChar[s], m)
    BY <1>1, PushedQueue
<1> QED
    BY <1>2, <1>3 DEF CharPush

\* The char server sends a packet.
LEMMA MapPosted ==
    ASSUME TInv, LinkHolds, NEW s \in Server, NEW m, toMap' = Post(toMap, s, m)
    PROVE  MapPush(s, m)
<1>1. toMap \in [Server -> Seq(MapMsg)] /\ up[s]
    BY DEF TInv, LinkTyped, LinkHolds
<1>2. toMap'[s] = Append(toMap[s], m) /\ \A x \in Server \ {s} : toMap'[x] = toMap[x]
    BY <1>1 DEF Post
<1>3. Pushed(Append(toMap[s], m), toMap[s], m)
    BY <1>1, PushedQueue
<1> QED
    BY <1>2, <1>3 DEF MapPush

\* The char server takes a packet.
LEMMA CharTaken ==
    ASSUME TInv, NEW s \in Server, NEW type, Take(s, type)
    PROVE  /\ CharPop(s, Head(toChar[s])) /\ Head(toChar[s]) \in CharMsg /\ Head(toChar[s]).type = type
           /\ type # "save" => Kind(Head(toChar[s])) = type
           /\ type = "save" => Kind(Head(toChar[s])) = IF Head(toChar[s]).final THEN "final" ELSE "save"
<1>1. toChar \in [Server -> Seq(CharMsg)] /\ toChar[s] # <<>> /\ Head(toChar[s]) \in CharMsg
    BY TakeFacts DEF TInv, LinkTyped
<1>2. toChar'[s] = Tail(toChar[s]) /\ \A x \in Server \ {s} : toChar'[x] = toChar[x]
    BY <1>1 DEF Take
<1>3. Popped(Tail(toChar[s]), toChar[s], Head(toChar[s]))
    BY <1>1, PoppedQueue
<1> QED
    BY <1>1, <1>2, <1>3 DEF CharPop, Take, Kind

\* A map server takes a packet.
LEMMA MapTaken ==
    ASSUME TInv, NEW s \in Server, NEW type, Receive(s, type), type # "save"
    PROVE  /\ MapPop(s, Head(toMap[s])) /\ Head(toMap[s]) \in MapMsg /\ Head(toMap[s]).type = type
           /\ Kind(Head(toMap[s])) = type
<1>1. toMap \in [Server -> Seq(MapMsg)] /\ toMap[s] # <<>> /\ Head(toMap[s]) \in MapMsg
    BY ReceiveFacts DEF TInv, LinkTyped
<1>2. toMap'[s] = Tail(toMap[s]) /\ \A x \in Server \ {s} : toMap'[x] = toMap[x]
    BY <1>1 DEF Receive
<1>3. Popped(Tail(toMap[s]), toMap[s], Head(toMap[s]))
    BY <1>1, PoppedQueue
<1> QED
    BY <1>1, <1>2, <1>3 DEF MapPop, Receive, Kind

\* Packets that change no more than the node they are for.
PlainAnswer == {"kick", "save ack", "auth fail"}

\* The answers under way stay the same but for plain packets.
SameAnswers(r, q) ==
    /\ \A k \in {"auth ok", "change ack", "charselect ok"} :
          (Has(r, k) <=> Has(q, k)) /\ (Once(q, k) => Once(r, k))
    /\ Ahead(q, "charselect ok", "auth ok") => Ahead(r, "charselect ok", "auth ok")
    /\ Granted(q) => Granted(r)
AnswersStay == \A x \in Server : SameAnswers(toMap'[x], toMap[x])

\* So it is in steps that send or take a plain packet, or none.
LEMMA PlainPacket ==
    ASSUME NEW r, NEW q, NEW m, r = q \/ (Kind(m) \in PlainAnswer /\ (Pushed(r, q, m) \/ Popped(r, q, m)))
    PROVE  SameAnswers(r, q)
<1>1. CASE r = q
    BY <1>1 DEF SameAnswers
<1>2. CASE Kind(m) \in PlainAnswer /\ Pushed(r, q, m)
  <2>1. m.type # "change ack"
      BY <1>2 DEF Kind, PlainAnswer
  <2> QED
      BY <1>2, <2>1 DEF Pushed, SameAnswers, PlainAnswer
<1>3. CASE Kind(m) \in PlainAnswer /\ Popped(r, q, m)
    BY <1>3 DEF Popped, SameAnswers, PlainAnswer
<1> QED
    BY <1>1, <1>2, <1>3

\* So it is for all servers.
LEMMA PlainAnswers ==
    /\ toMap' = toMap => AnswersStay
    /\ \A s \in Server : \A m : Kind(m) \in PlainAnswer /\ (MapPush(s, m) \/ MapPop(s, m)) => AnswersStay
<1>1. toMap' = toMap => AnswersStay
    BY PlainPacket DEF AnswersStay
<1>2. ASSUME NEW s \in Server, NEW m, Kind(m) \in PlainAnswer, MapPush(s, m) \/ MapPop(s, m), NEW x \in Server
      PROVE  SameAnswers(toMap'[x], toMap[x])
    BY <1>2, PlainPacket DEF MapPush, MapPop
<1> QED
    BY <1>1, <1>2 DEF AnswersStay

-----------------------------------------------------------------------------
(* Steps of the char server for clients.                                   *)

\* The client is the first and only one.
LEMMA OneLogin == Lone => Login = {1} /\ 0..MaxLogins = {0, 1}
    BY DEF Lone, Login

\* Steps of the selection that send nobody to a map server.
SelectStep ==
    /\ UNCHANGED <<at, saved, player, data, node, up, toChar, toMap, losses>>
    /\ ticket' = ticket \/ (ticket[1] = CharSrv /\ ticket'[1] = Nowhere)
    /\ ~entry'.waiting
    /\ entry'.server = entry.server \/ (entry.server \notin Server /\ entry'.server \notin Server)
    /\ logins' = 0 => logins = 0 /\ selecting' \subseteq selecting /\ ticket' = ticket

\* They keep the invariant.
LEMMA SelectKeeps ==
    ASSUME Lone, TInv, TInv', LoneInv, SelectStep
    PROVE  LoneInv'
<1>0. /\ LinkHolds /\ NotStarted /\ Seats /\ OfflineIsDead /\ BusyOnce /\ BusyIsHome
      /\ MovesAlone /\ AsksAlone /\ MoveIsSaved /\ AskIsLast /\ PlayerKnown /\ SelectsOffline
    BY DEF LoneInv
<1>1. /\ UNCHANGED <<at, saved, player, data, node, up, toChar, toMap, losses>>
      /\ ticket' = ticket \/ (ticket[1] = CharSrv /\ ticket'[1] = Nowhere)
      /\ ~entry'.waiting /\ (entry'.server = entry.server \/ (entry.server \notin Server /\ entry'.server \notin Server))
      /\ logins' = 0 => logins = 0 /\ selecting' \subseteq selecting /\ ticket' = ticket
    BY DEF SelectStep
<1>2. \A s \in Server : ticket'[1] = s => ticket[1] = s
    BY <1>1, ServerAssumption
<1>3. /\ ticket[1] = Spent => ticket' = ticket
      /\ \A s \in Server : (Busy(s)' => Busy(s)) /\ (Moving(s)' <=> Moving(s)) /\ (Asking(s)' <=> Asking(s))
    BY <1>1, <1>2, ServerAssumption DEF Busy, Moving, Asking, CharSrv, Spent
<1>4. LinkHolds'
    BY <1>0, <1>1, <1>3 DEF LinkHolds
<1>5. NotStarted'
    BY <1>0, <1>1, <1>3 DEF NotStarted
<1>6. Seats'
    BY <1>0, <1>1, <1>3 DEF Seats
<1>7. OfflineIsDead'
    BY <1>0, <1>1, <1>3 DEF OfflineIsDead
<1>8. BusyOnce'
    BY <1>0, <1>3 DEF BusyOnce
<1>9. BusyIsHome'
    BY <1>0, <1>1, <1>3 DEF BusyIsHome
<1>10. MovesAlone'
    BY <1>0, <1>1, <1>3 DEF MovesAlone
<1>11. AsksAlone'
    BY <1>0, <1>1, <1>3 DEF AsksAlone
<1>12. MoveIsSaved'
    BY <1>0, <1>1, <1>3 DEF MoveIsSaved
<1>13. AskIsLast'
    BY <1>0, <1>1, <1>3 DEF AskIsLast
<1>14. PlayerKnown'
    BY <1>0, <1>1, <1>3 DEF PlayerKnown
<1>15. SelectsOffline'
    BY <1>0, <1>1, <1>3 DEF SelectsOffline
<1> QED
    BY <1>4, <1>5, <1>6, <1>7, <1>8, <1>9, <1>10, <1>11, <1>12, <1>13, <1>14, <1>15 DEF LoneInv

\* No client may select while the character is on a map server, so that
\* nobody is kicked.
LEMMA SelectSteps ==
    ASSUME Lone, TInv, LoneInv,
           Connect \/ AskKick \/ WaitingDisconnect \/ OnlineDataCleanup \/ \E t \in Login : Reconnect(t) \/ CharEof(t)
    PROVE  SelectStep
<1>0. /\ NotStarted /\ SelectsOffline /\ entry \in Entry /\ logins \in {0, 1}
      /\ ticket \in [Login -> Server \cup {Nowhere, CharSrv, Spent}] /\ Login = {1}
    BY OneLogin DEF LoneInv, TInv, ClientTyped, CharTyped
<1>1. ASSUME NEW t \in Login, entry.server \notin Server, AuthOk(t)
      PROVE  /\ ~entry'.waiting /\ entry'.server \notin Server /\ toMap' = toMap
    BY <1>0, <1>1, ServerAssumption DEF AuthOk, SelectsOffline, SetCharselect, Offline
<1>2. ASSUME NEW e \in Entry, ~e.waiting, e.server \notin Server
      PROVE  /\ ~SetOffline(e, FALSE).waiting /\ SetOffline(e, FALSE).server \notin Server
    BY <1>2, ServerAssumption DEF SetOffline, Entry, Offline
<1>3. CASE Connect
  <2>1. logins = 0 /\ logins' = 1 /\ 1 \in Login /\ AuthOk(1)
      BY <1>0, <1>3 DEF Connect, Lone
  <2>2. entry.server \notin Server
      BY <1>0, <2>1 DEF NotStarted, SelectsOffline
  <2>3. ~entry'.waiting /\ entry'.server \notin Server /\ toMap' = toMap
      BY <1>1, <2>1, <2>2
  <2> QED
      BY <1>3, <2>1, <2>2, <2>3 DEF Connect, SelectStep, maps
<1>4. CASE AskKick
  <2>1. logins = 0 /\ ticket[1] = Nowhere /\ entry.server \notin Server
      BY <1>0, <1>4 DEF AskKick, Lone, NotStarted, SelectsOffline
  <2>2. ASSUME NEW n \in {entry.fd, 0} PROVE [entry EXCEPT !.fd = n] \in Entry
      BY <1>0, <2>2 DEF Entry, SessionBounds, Lone
  <2>3. selecting = {} /\ entry' = SetOffline(entry, FALSE) /\ selecting' = selecting /\ toMap' = toMap
      BY <1>0, <1>4, <2>1 DEF AskKick, NotStarted
  <2>4. ~entry'.waiting /\ entry'.server \notin Server
      BY <1>0, <1>2, <2>1, <2>3 DEF SelectsOffline
  <2> QED
      BY <1>4, <2>1, <2>3, <2>4 DEF AskKick, SelectStep, client, maps
<1>5. CASE WaitingDisconnect
    BY <1>0, <1>5 DEF WaitingDisconnect, SelectsOffline
<1>6. CASE OnlineDataCleanup
    BY <1>0, <1>6, ServerAssumption DEF OnlineDataCleanup, NoEntry, Offline, SelectStep, client, maps, links
<1>7. ASSUME NEW t \in Login, Reconnect(t) PROVE SelectStep
  <2>1. t = 1 /\ ticket[1] = CharSrv /\ ticket'[1] = Nowhere /\ logins' = logins /\ logins # 0 /\ entry.server \notin Server
      BY <1>0, <1>7, ServerAssumption DEF Reconnect, NotStarted, SelectsOffline, CharSrv, Nowhere
  <2>2. ~entry'.waiting /\ entry'.server \notin Server /\ toMap' = toMap
    <3>1. CASE auth.login = t
        BY <1>1, <1>7, <2>1, <3>1 DEF Reconnect
    <3>2. CASE auth.login # t
        BY <1>0, <1>7, <2>1, <3>2 DEF Reconnect, SelectsOffline
    <3> QED
        BY <3>1, <3>2
  <2> QED
      BY <1>7, <2>1, <2>2 DEF Reconnect, SelectStep, maps
<1>8. ASSUME NEW t \in Login, CharEof(t) PROVE SelectStep
  <2>1. logins # 0
      BY <1>0, <1>8 DEF CharEof, NotStarted
  <2> DEFINE e == [entry EXCEPT !.fd = IF @ = t THEN 0 ELSE @]
  <2>2. e \in Entry /\ ~e.waiting /\ e.server = entry.server
      BY <1>0 DEF Entry, SelectsOffline, SessionBounds, Lone
  <2>3. entry' = IF e.server = Offline THEN SetOffline(e, FALSE) ELSE e
      BY <1>8 DEF CharEof
  <2> HIDE DEF e
  <2>4. ~entry'.waiting /\ (entry'.server = entry.server \/ (entry.server \notin Server /\ entry'.server \notin Server))
      BY <1>2, <2>2, <2>3, ServerAssumption DEF Offline
  <2> QED
      BY <1>8, <2>1, <2>4 DEF CharEof, SelectStep, client, maps, links
<1> QED
    BY <1>3, <1>4, <1>5, <1>6, <1>7, <1>8

\* A client is sent to the server where the character was last.
LEMMA CharSelectKeeps ==
    ASSUME Lone, TInv, TInv', LoneInv, NEW s \in Server, NEW t \in Login, CharSelect(t, s)
    PROVE  LoneInv'
<1>0. /\ LinkHolds /\ NotStarted /\ Seats /\ OfflineIsDead /\ BusyOnce /\ BusyIsHome
      /\ MovesAlone /\ AsksAlone /\ MoveIsSaved /\ AskIsLast /\ PlayerKnown /\ SelectsOffline
    BY DEF LoneInv
<1>1. t = 1 /\ ticket[1] = Nowhere /\ ticket'[1] = s /\ s = saved.home /\ logins # 0
    BY <1>0, OneLogin DEF CharSelect, LinkHolds, NotStarted, TInv, ClientTyped, CharTyped, Data
<1>2. entry.server \notin Server /\ ~entry'.waiting
    BY <1>0, <1>1 DEF CharSelect, SelectsOffline, SetOnline
<1>3. UNCHANGED <<logins, at, selecting, saved, player, data, node, up, toChar, toMap, losses>>
    BY <1>2 DEF CharSelect, OnlineConflict, maps
<1>4. /\ \A x \in Server : ~Moving(x) /\ ~Asking(x) /\ ~Moving(x)' /\ ~Asking(x)' /\ at[1] # x /\ ~Has(toChar[x], "offline")
      /\ s \notin {Nowhere, CharSrv, Spent}
    BY <1>0, <1>1, <1>3, ServerAssumption DEF MovesAlone, AsksAlone, Moving, Asking, Seats, OfflineIsDead, Nowhere, Spent
<1>5. \A x \in Server : Busy(x) => x = s
    BY <1>0, <1>1, <1>4 DEF BusyIsHome
<1>6. \A x \in Server : Busy(x)' => x = s
    BY <1>1, <1>3, <1>5 DEF Busy
<1>7. SavesHome(toChar[s], s)
    BY <1>0, <1>4, NoSaves DEF BusyIsHome, Busy
<1>8. LinkHolds'
    BY <1>0, <1>1, <1>2, <1>3, <1>4 DEF LinkHolds
<1>9. NotStarted'
    BY <1>0, <1>1, <1>2, <1>3, <1>4 DEF NotStarted
<1>10. Seats'
    BY <1>0, <1>3, <1>4 DEF Seats, Moving
<1>11. OfflineIsDead'
    BY <1>0, <1>1, <1>2, <1>3, <1>4 DEF OfflineIsDead
<1>12. BusyOnce'
    BY <1>6 DEF BusyOnce
<1>13. BusyIsHome'
    BY <1>1, <1>3, <1>6, <1>7 DEF BusyIsHome
<1>14. MovesAlone'
    BY <1>4 DEF MovesAlone
<1>15. AsksAlone'
    BY <1>4 DEF AsksAlone
<1>16. MoveIsSaved'
    BY <1>0, <1>1, <1>2, <1>3, <1>4 DEF MoveIsSaved
<1>17. AskIsLast'
    BY <1>0, <1>3, <1>4 DEF AskIsLast, Asking
<1>18. PlayerKnown'
    BY <1>0, <1>1, <1>2, <1>3, <1>4 DEF PlayerKnown
<1>19. SelectsOffline'
    BY <1>0, <1>1, <1>2, <1>3, <1>4 DEF SelectsOffline
<1> QED
    BY <1>8, <1>9, <1>10, <1>11, <1>12, <1>13, <1>14, <1>15, <1>16, <1>17, <1>18, <1>19 DEF LoneInv

-----------------------------------------------------------------------------
(* Packets of the map servers.                                             *)

\* A save is of the server where the character is.
LEMMA SaveHandledKeeps ==
    ASSUME Lone, TInv, TInv', LoneInv, NEW s \in Server, HandleSave(s)
    PROVE  LoneInv'
<1>0. /\ LinkHolds /\ NotStarted /\ Seats /\ OfflineIsDead /\ BusyOnce /\ BusyIsHome
      /\ MovesAlone /\ AsksAlone /\ MoveIsSaved /\ AskIsLast /\ PlayerKnown /\ SelectsOffline
    BY DEF LoneInv
<1>1. UNCHANGED <<logins, ticket, at, selecting, player, data, node, up, losses>>
    BY DEF HandleSave, client, maps
<1>2. PICK m : m = Head(toChar[s])
    OBVIOUS
<1>3. /\ CharPop(s, m) /\ m \in CharMsg /\ m.type = "save" /\ Kind(m) = IF m.final THEN "final" ELSE "save"
      /\ saved' = m.data
    BY <1>2, CharTaken DEF HandleSave
<1>4. AnswersStay
  <2>1. CASE m.final
    <3>1. MapPush(s, [type |-> "save ack"])
        BY <1>0, <1>2, <2>1, MapPosted DEF HandleSave, SaveHandled
    <3> QED
        BY <3>1, PlainAnswers DEF Kind, PlainAnswer
  <2>2. CASE ~m.final
      BY <1>2, <2>2, PlainAnswers DEF HandleSave, SaveHandled
  <2> QED
      BY <2>1, <2>2
<1>5. Busy(s) /\ \A x \in Server : Busy(x) => x = s
    BY <1>0, <1>3 DEF CharPop, Popped, Busy, BusyOnce
<1>6. /\ ~entry'.waiting /\ entry'.server \in {entry.server, Offline}
      /\ entry'.server # entry.server => Has(toChar[s], "final")
    BY <1>0, <1>2, <1>3 DEF HandleSave, SaveHandled, SetOffline, SelectsOffline, TInv, CharTyped, Entry, CharPop, Popped
<1>7. \A x \in Server : (Busy(x)' => Busy(x)) /\ (Moving(x)' <=> Moving(x)) /\ (Asking(x)' <=> Asking(x))
    BY <1>1, <1>3, <1>4 DEF CharPop, Popped, AnswersStay, SameAnswers, Busy, Moving, Asking
<1>8. LinkHolds'
    BY <1>0, <1>1, <1>3, <1>4 DEF LinkHolds, CharPop, Popped
<1>9. NotStarted'
    BY <1>0, <1>1, <1>3, <1>4 DEF NotStarted
<1>10. Seats'
    BY <1>0, <1>1, <1>7 DEF Seats
<1>11. OfflineIsDead'
    BY <1>0, <1>1, <1>3, <1>4 DEF OfflineIsDead, CharPop, Popped
<1>12. BusyOnce'
    BY <1>0, <1>7 DEF BusyOnce
<1>13. BusyIsHome'
    BY <1>0, <1>3, <1>5, <1>7 DEF BusyIsHome, CharPop, Popped
<1>14. MovesAlone'
    BY <1>0, <1>1, <1>3, <1>4, <1>7 DEF MovesAlone, CharPop, Popped, AnswersStay, SameAnswers
<1>15. AsksAlone'
    BY <1>0, <1>1, <1>3, <1>4, <1>7 DEF AsksAlone, CharPop, Popped, AnswersStay, SameAnswers
<1>16. MoveIsSaved'
  <2> SUFFICES ASSUME NEW x \in Server
               PROVE  /\ \A k \in {"save", "final", "charselect"} : Ahead(toChar'[x], k, "change")
                      /\ node[x].state = "change" => Lands(toChar'[x], saved'.home, node[x].data.home)
                      /\ Granted(toMap'[x])
                      /\ Has(toMap'[x], "change ack") =>
                            /\ \A k \in {"save", "final", "charselect"} : ~Has(toChar'[x], k)
                            /\ node[x].state = "change" => saved'.home = node[x].data.home
      BY <1>1 DEF MoveIsSaved
  <2>1. CASE x # s
    <3>1. node[x].state = "none" /\ toChar'[x] = toChar[x]
        BY <1>3, <1>5, <2>1 DEF Busy, CharPop
    <3> QED
        BY <1>0, <1>4, <3>1 DEF MoveIsSaved, AnswersStay, SameAnswers
  <2>2. CASE x = s
    <3>1. /\ \A k \in {"save", "final", "charselect"} : Ahead(toChar'[s], k, "change")
          /\ node[s].state = "change" => Lands(toChar'[s], saved'.home, node[s].data.home)
        BY <1>0, <1>3 DEF MoveIsSaved, CharPop, Popped
    <3>2. ~Has(toMap'[s], "change ack")
        BY <1>0, <1>3, <1>4 DEF MoveIsSaved, CharPop, Popped, AnswersStay, SameAnswers
    <3> QED
        BY <1>0, <1>4, <2>2, <3>1, <3>2 DEF MoveIsSaved, AnswersStay, SameAnswers
  <2> QED
      BY <2>1, <2>2
<1>17. AskIsLast'
  <2> SUFFICES ASSUME NEW x \in Server
               PROVE  /\ \A k \in {"final", "charselect"} : Ahead(toChar'[x], k, "auth")
                      /\ Ahead(toMap'[x], "charselect ok", "auth ok")
                      /\ Has(toMap'[x], "auth ok") =>
                            /\ \A k \in {"final", "charselect"} : ~Has(toChar'[x], k)
                            /\ node[x].state = "login" => entry'.server = x
      BY <1>1 DEF AskIsLast
  <2>1. /\ \A k \in {"final", "charselect"} : Ahead(toChar[x], k, "auth")
        /\ Ahead(toMap[x], "charselect ok", "auth ok")
        /\ Has(toMap[x], "auth ok") =>
              /\ ~Has(toChar[x], "final") /\ ~Has(toChar[x], "charselect")
              /\ node[x].state = "login" => entry.server = x
      BY <1>0 DEF AskIsLast
  <2>2. /\ Has(toMap'[x], "auth ok") => Has(toMap[x], "auth ok")
        /\ Ahead(toMap'[x], "charselect ok", "auth ok")
      BY <1>4, <2>1 DEF AnswersStay, SameAnswers
  <2>3. \A k \in {"final", "charselect"} :
           Ahead(toChar'[x], k, "auth") /\ (Has(toChar'[x], k) => Has(toChar[x], k))
      BY <1>3, <2>1 DEF CharPop, Popped
  <2>4. Has(toMap[x], "auth ok") /\ node[x].state = "login" => entry'.server = x
    <3>1. node[x].state = "login" => x = s
        BY <1>5 DEF Busy
    <3> QED
        BY <1>6, <2>1, <3>1
  <2> QED
      BY <2>1, <2>2, <2>3, <2>4
<1>18. PlayerKnown'
    BY <1>0, <1>1, <1>3, <1>4, <1>5, <1>6 DEF PlayerKnown, Busy, CharPop, Popped, AnswersStay, SameAnswers
<1>19. SelectsOffline'
    BY <1>0, <1>1, <1>6, ServerAssumption DEF SelectsOffline, Offline
<1> QED
    BY <1>8, <1>9, <1>10, <1>11, <1>12, <1>13, <1>14, <1>15, <1>16, <1>17, <1>18, <1>19 DEF LoneInv

\* A player returns to the selection.
LEMMA CharselectKeeps ==
    ASSUME Lone, TInv, TInv', LoneInv, NEW s \in Server, HandleCharselect(s)
    PROVE  LoneInv'
<1>0. /\ LinkHolds /\ NotStarted /\ Seats /\ OfflineIsDead /\ BusyOnce /\ BusyIsHome
      /\ MovesAlone /\ AsksAlone /\ MoveIsSaved /\ AskIsLast /\ PlayerKnown /\ SelectsOffline
    BY DEF LoneInv
<1>1. UNCHANGED <<logins, ticket, at, selecting, player, data, node, up, losses>> /\ saved' = saved
    BY DEF HandleCharselect, client, maps
<1>2. PICK m : m = Head(toChar[s])
    OBVIOUS
<1>3. CharPop(s, m) /\ m.type = "charselect" /\ Kind(m) = "charselect"
    BY <1>2, CharTaken DEF HandleCharselect
<1>4. PICK r : r = [type |-> "charselect ok"]
    OBVIOUS
<1>5. MapPush(s, r) /\ Kind(r) = "charselect ok" /\ r.type = "charselect ok"
    BY <1>0, <1>4, MapPosted DEF HandleCharselect, Kind
<1>6. Busy(s) /\ \A x \in Server : Busy(x) => x = s
    BY <1>0, <1>3 DEF CharPop, Popped, Busy, BusyOnce
<1>7. ~entry'.waiting /\ entry'.server \notin Server
    BY ServerAssumption DEF HandleCharselect, SetCharselect, Offline
<1>8. \A x \in Server : (Busy(x)' => Busy(x)) /\ (Moving(x)' <=> Moving(x)) /\ (Asking(x)' <=> Asking(x))
    BY <1>1, <1>3, <1>5 DEF CharPop, Popped, MapPush, Pushed, Busy, Moving, Asking
<1>9. Has(toChar[s], "charselect")
    BY <1>3 DEF CharPop, Popped
<1>10. LinkHolds'
    BY <1>0, <1>1, <1>3, <1>5 DEF LinkHolds, CharPop, Popped
<1>11. NotStarted'
    BY <1>0, <1>1, <1>3, <1>5 DEF NotStarted
<1>12. Seats'
    BY <1>0, <1>1, <1>8 DEF Seats
<1>13. OfflineIsDead'
    BY <1>0, <1>1, <1>3, <1>5 DEF OfflineIsDead, CharPop, Popped
<1>14. BusyOnce'
    BY <1>0, <1>8 DEF BusyOnce
<1>15. BusyIsHome'
    BY <1>0, <1>1, <1>3, <1>6, <1>8 DEF BusyIsHome, CharPop, Popped
<1>16. MovesAlone'
    BY <1>0, <1>1, <1>3, <1>5, <1>8 DEF MovesAlone, Moving, CharPop, Popped, MapPush, Pushed
<1>17. AsksAlone'
    BY <1>0, <1>1, <1>3, <1>5, <1>8 DEF AsksAlone, Asking, CharPop, Popped, MapPush, Pushed
<1>18. MoveIsSaved'
    BY <1>0, <1>1, <1>3, <1>5 DEF MoveIsSaved, CharPop, Popped, MapPush, Pushed
<1>19. AskIsLast'
    BY <1>0, <1>1, <1>3, <1>5, <1>6, <1>9 DEF AskIsLast, Busy, CharPop, Popped, MapPush, Pushed
<1>20. PlayerKnown'
    BY <1>0, <1>1, <1>3, <1>5, <1>6, <1>7 DEF PlayerKnown, Busy, CharPop, Popped, MapPush, Pushed
<1>21. SelectsOffline'
    BY <1>0, <1>1, <1>7 DEF SelectsOffline
<1> QED
    BY <1>10, <1>11, <1>12, <1>13, <1>14, <1>15, <1>16, <1>17, <1>18, <1>19, <1>20, <1>21 DEF LoneInv

\* The char server grants a change of the server: the new position is saved.
LEMMA ChangeKeeps ==
    ASSUME Lone, TInv, TInv', LoneInv, NEW s \in Server, HandleChange(s)
    PROVE  LoneInv'
<1>0. /\ LinkHolds /\ NotStarted /\ Seats /\ OfflineIsDead /\ BusyOnce /\ BusyIsHome
      /\ MovesAlone /\ AsksAlone /\ MoveIsSaved /\ AskIsLast /\ PlayerKnown /\ SelectsOffline
    BY DEF LoneInv
<1>1. UNCHANGED <<logins, ticket, at, selecting, player, data, node, up, losses>> /\ saved' = saved
    BY DEF HandleChange, client, maps
<1>2. PICK m : m = Head(toChar[s])
    OBVIOUS
<1>3. CharPop(s, m) /\ m.type = "change" /\ Kind(m) = "change" /\ m.dest \in Server
  <2>1. Take(s, "change")
      BY DEF HandleChange
  <2> QED
      BY <1>2, <2>1, CharTaken, CharMsgFacts
<1>4. PICK r : r = [type |-> "change ack", ok |-> TRUE]
    OBVIOUS
<1>5. MapPush(s, r) /\ Kind(r) = "change ack" /\ r.type = "change ack" /\ r.ok = TRUE
  <2>1. toMap' = Post(toMap, s, r)
      BY <1>0, <1>2, <1>3, <1>4 DEF HandleChange, TInv, LinkTyped, LinkHolds
  <2> QED
      BY <1>0, <1>4, <2>1, MapPosted DEF Kind
<1>6. Moving(s) /\ Moving(s)' /\ ~Has(toMap[s], "change ack") /\ ~Has(toChar'[s], "change")
    BY <1>0, <1>3, <1>5 DEF CharPop, Popped, MapPush, Pushed, Moving, MovesAlone
<1>7. \A x \in Server : (Busy(x)' => Busy(x)) /\ (Moving(x)' <=> Moving(x)) /\ (Asking(x)' <=> Asking(x))
    BY <1>1, <1>3, <1>5, <1>6 DEF CharPop, Popped, MapPush, Pushed, Busy, Moving, Asking
<1>8. ~entry'.waiting
    BY <1>0, <1>2, <1>3 DEF HandleChange, SelectsOffline, TInv, CharTyped, Entry
<1>9. ticket[1] = Spent /\ \A x \in Server : player[x] = 0 /\ node[x].state \in {"none", "change"}
    BY <1>0, <1>6 DEF MovesAlone
<1>10. LinkHolds'
    BY <1>0, <1>1, <1>3, <1>5 DEF LinkHolds, CharPop, Popped
<1>11. NotStarted'
    BY <1>0, <1>1, <1>3, <1>5 DEF NotStarted
<1>12. Seats'
    BY <1>0, <1>1, <1>7 DEF Seats
<1>13. OfflineIsDead'
    BY <1>0, <1>1, <1>3, <1>5 DEF OfflineIsDead, CharPop, Popped
<1>14. BusyOnce'
    BY <1>0, <1>7 DEF BusyOnce
<1>15. BusyIsHome'
    BY <1>0, <1>1, <1>3, <1>6, <1>7 DEF BusyIsHome, CharPop, Popped
<1>16. MovesAlone'
    BY <1>0, <1>1, <1>3, <1>5, <1>6, <1>7 DEF MovesAlone, CharPop, Popped, MapPush, Pushed
<1>17. AsksAlone'
    BY <1>0, <1>1, <1>3, <1>5, <1>7 DEF AsksAlone, Asking, CharPop, Popped, MapPush, Pushed
<1>18. MoveIsSaved'
  <2> SUFFICES ASSUME NEW x \in Server
               PROVE  /\ \A k \in {"save", "final", "charselect"} : Ahead(toChar'[x], k, "change")
                      /\ node[x].state = "change" => Lands(toChar'[x], saved.home, node[x].data.home)
                      /\ Granted(toMap'[x])
                      /\ Has(toMap'[x], "change ack") =>
                            /\ \A k \in {"save", "final", "charselect"} : ~Has(toChar'[x], k)
                            /\ node[x].state = "change" => saved.home = node[x].data.home
      BY <1>1 DEF MoveIsSaved
  <2>1. CASE x # s
      BY <1>0, <1>3, <1>5, <2>1 DEF MoveIsSaved, CharPop, MapPush
  <2>2. CASE x = s
    <3>1. /\ \A k \in {"save", "final", "charselect"} : Ahead(toChar'[s], k, "change") /\ ~Has(toChar'[s], k)
          /\ node[s].state = "change" => Lands(toChar'[s], saved.home, node[s].data.home) /\ saved.home = node[s].data.home
        BY <1>0, <1>3 DEF MoveIsSaved, CharPop, Popped
    <3>2. Granted(toMap'[s])
        BY <1>0, <1>5 DEF MoveIsSaved, MapPush, Pushed
    <3> QED
        BY <2>2, <3>1, <3>2
  <2> QED
      BY <2>1, <2>2
<1>19. AskIsLast'
    BY <1>0, <1>1, <1>3, <1>5, <1>9 DEF AskIsLast, CharPop, Popped, MapPush, Pushed
<1>20. PlayerKnown'
    BY <1>1, <1>9 DEF PlayerKnown
<1>21. SelectsOffline'
    BY <1>1, <1>8, <1>9, ServerAssumption DEF SelectsOffline, Spent, Nowhere, CharSrv
<1> QED
    BY <1>10, <1>11, <1>12, <1>13, <1>14, <1>15, <1>16, <1>17, <1>18, <1>19, <1>20, <1>21 DEF LoneInv

\* Somebody was given up.
LEMMA OfflineKeeps ==
    ASSUME Lone, TInv, TInv', LoneInv, NEW s \in Server, HandleOffline(s)
    PROVE  LoneInv'
<1>0. /\ LinkHolds /\ NotStarted /\ Seats /\ OfflineIsDead /\ BusyOnce /\ BusyIsHome
      /\ MovesAlone /\ AsksAlone /\ MoveIsSaved /\ AskIsLast /\ PlayerKnown /\ SelectsOffline
    BY DEF LoneInv
<1>1. UNCHANGED <<logins, ticket, at, selecting, player, data, node, up, losses>> /\ saved' = saved /\ toMap' = toMap
    BY DEF HandleOffline, client, maps
<1>2. PICK m : m = Head(toChar[s])
    OBVIOUS
<1>3. CharPop(s, m) /\ m.type = "offline" /\ Kind(m) = "offline"
    BY <1>2, CharTaken DEF HandleOffline
<1>4. ticket[1] = Spent /\ \A x \in Server : at[1] # x /\ node[x].state # "login"
    BY <1>0, <1>3, ServerAssumption DEF CharPop, Popped, OfflineIsDead, Seats, Nowhere
<1>5. \A x \in Server : (Busy(x)' => Busy(x)) /\ (Moving(x)' <=> Moving(x)) /\ (Asking(x)' <=> Asking(x))
    BY <1>1, <1>3 DEF CharPop, Popped, Busy, Moving, Asking
<1>6. ~entry'.waiting
    BY DEF HandleOffline, SetOffline, TInv, CharTyped, Entry
<1>7. LinkHolds'
    BY <1>0, <1>1, <1>3 DEF LinkHolds, CharPop, Popped
<1>8. NotStarted'
    BY <1>0, <1>1, <1>3 DEF NotStarted
<1>9. Seats'
    BY <1>0, <1>1, <1>5 DEF Seats
<1>10. OfflineIsDead'
    BY <1>0, <1>1, <1>3 DEF OfflineIsDead, CharPop, Popped
<1>11. BusyOnce'
    BY <1>0, <1>5 DEF BusyOnce
<1>12. BusyIsHome'
    BY <1>0, <1>1, <1>3, <1>5 DEF BusyIsHome, CharPop, Popped
<1>13. MovesAlone'
    BY <1>0, <1>1, <1>3, <1>5 DEF MovesAlone, CharPop, Popped
<1>14. AsksAlone'
    BY <1>0, <1>1, <1>3, <1>5 DEF AsksAlone, CharPop, Popped
<1>15. MoveIsSaved'
    BY <1>0, <1>1, <1>3 DEF MoveIsSaved, CharPop, Popped
<1>16. AskIsLast'
    BY <1>0, <1>1, <1>3, <1>4 DEF AskIsLast, CharPop, Popped
<1>17. PlayerKnown'
    BY <1>0, <1>1, <1>3, <1>4 DEF PlayerKnown, CharPop, Popped
<1>18. SelectsOffline'
    BY <1>1, <1>4, <1>6, ServerAssumption DEF SelectsOffline, Spent, Nowhere, CharSrv
<1> QED
    BY <1>7, <1>8, <1>9, <1>10, <1>11, <1>12, <1>13, <1>14, <1>15, <1>16, <1>17, <1>18 DEF LoneInv

\* The answer to a login, and the kick of a player on another server.
LEMMA LoginAnswered ==
    ASSUME TInv, LinkHolds, NEW s \in Server, HandleAuth(s), auth = [login |-> Head(toChar[s]).login, char |-> TRUE]
    PROVE  \E r : /\ r.type = "auth ok" /\ Kind(r) = "auth ok" /\ Pushed(toMap'[s], toMap[s], r)
                  /\ \A x \in Server \ {s} : SameAnswers(toMap'[x], toMap[x])
<1> DEFINE r == [type |-> "auth ok", login |-> Head(toChar[s]).login, data |-> saved]
           q == [toMap EXCEPT ![s] = Append(@, r)]
<1>1. toMap \in [Server -> Seq(MapMsg)] /\ \A x \in Server : up[x]
    BY DEF TInv, LinkTyped, LinkHolds
<1>2. toMap' = IF OnlineConflict(entry, s) THEN Post(q, entry.server, Kick) ELSE q
    BY DEF HandleAuth
<1>3. r.type = "auth ok" /\ Kind(r) = "auth ok"
    BY DEF Kind
<1> HIDE DEF r
<1>4. q[s] = Append(toMap[s], r) /\ \A x \in Server \ {s} : q[x] = toMap[x]
    BY <1>1
<1>5. DOMAIN q = Server
    BY <1>1
<1> HIDE DEF q
<1>6. /\ toMap'[s] = Append(toMap[s], r)
      /\ \A x \in Server \ {s} : toMap'[x] = toMap[x] \/ toMap'[x] = Append(toMap[x], Kick)
    BY <1>1, <1>2, <1>4, <1>5 DEF OnlineConflict, Post
<1>7. Pushed(toMap'[s], toMap[s], r)
    BY <1>1, <1>6, PushedQueue
<1>8. ASSUME NEW x \in Server \ {s} PROVE SameAnswers(toMap'[x], toMap[x])
  <2>1. Kind(Kick) \in PlainAnswer /\ Pushed(Append(toMap[x], Kick), toMap[x], Kick)
      BY <1>1, PushedQueue DEF Kind, Kick, PlainAnswer
  <2> QED
      BY <1>6, <2>1, PlainPacket
<1> QED
    BY <1>3, <1>7, <1>8

\* A login is granted: nothing of the session before is left to handle.
LEMMA LoginGranted ==
    ASSUME Lone, TInv, TInv', LoneInv, NEW s \in Server, HandleAuth(s), auth = [login |-> Head(toChar[s]).login, char |-> TRUE]
    PROVE  LoneInv'
<1>0. /\ LinkHolds /\ NotStarted /\ Seats /\ OfflineIsDead /\ BusyOnce /\ BusyIsHome
      /\ MovesAlone /\ AsksAlone /\ MoveIsSaved /\ AskIsLast /\ PlayerKnown /\ SelectsOffline
    BY DEF LoneInv
<1>1. UNCHANGED <<logins, ticket, at, selecting, saved, player, data, node, up, losses>>
    BY DEF HandleAuth, client, maps
<1>2. PICK m : m = Head(toChar[s])
    OBVIOUS
<1>3. CharPop(s, m) /\ m.type = "auth" /\ Kind(m) = "auth"
    BY <1>2, CharTaken DEF HandleAuth
<1>4. PICK r : /\ r.type = "auth ok" /\ Kind(r) = "auth ok" /\ Pushed(toMap'[s], toMap[s], r)
               /\ \A x \in Server \ {s} : SameAnswers(toMap'[x], toMap[x])
    BY <1>0, LoginAnswered
<1>5. Asking(s) /\ Asking(s)' /\ ~Has(toMap[s], "auth ok") /\ ~Has(toChar'[s], "auth")
    BY <1>0, <1>3, <1>4 DEF CharPop, Popped, Pushed, Asking, AsksAlone
<1>6. \A x \in Server : (Busy(x)' => Busy(x)) /\ (Moving(x)' <=> Moving(x)) /\ (Asking(x)' <=> Asking(x))
    BY <1>1, <1>3, <1>4, <1>5 DEF CharPop, Popped, Pushed, SameAnswers, Busy, Moving, Asking
<1>7. ~entry'.waiting /\ entry'.server = s
  <2>1. entry' = SetOnline(entry, s)
      BY DEF HandleAuth
  <2> QED
      BY <2>1 DEF SetOnline
<1>8. ticket[1] = Spent /\ \A x \in Server : player[x] = 0 /\ node[x].state \in {"none", "login"} /\ (Asking(x) => x = s)
    BY <1>0, <1>5 DEF AsksAlone
<1>9. LinkHolds'
    BY <1>0, <1>1, <1>3 DEF LinkHolds, CharPop, Popped
<1>10. NotStarted'
    BY <1>0, <1>1 DEF NotStarted
<1>11. Seats'
    BY <1>0, <1>1, <1>6 DEF Seats
<1>12. OfflineIsDead'
    BY <1>0, <1>1, <1>3 DEF OfflineIsDead, CharPop, Popped
<1>13. BusyOnce'
    BY <1>0, <1>6 DEF BusyOnce
<1>14. BusyIsHome'
    BY <1>0, <1>1, <1>3, <1>6 DEF BusyIsHome, CharPop, Popped
<1>15. MovesAlone'
  <2>1. \A x \in Server :
           /\ Has(toMap'[x], "change ack") <=> Has(toMap[x], "change ack")
           /\ Once(toMap[x], "change ack") => Once(toMap'[x], "change ack")
           /\ Has(toChar'[x], "change") <=> Has(toChar[x], "change")
           /\ Once(toChar[x], "change") => Once(toChar'[x], "change")
      BY <1>3, <1>4 DEF CharPop, Popped, Pushed, SameAnswers
  <2> QED
      BY <1>0, <1>1, <1>6, <2>1 DEF MovesAlone
<1>16. AsksAlone'
    BY <1>0, <1>1, <1>3, <1>4, <1>5, <1>6, <1>8 DEF AsksAlone, CharPop, Popped, Pushed
<1>17. MoveIsSaved'
  <2>1. \A x \in Server :
           /\ Has(toMap'[x], "change ack") <=> Has(toMap[x], "change ack")
           /\ Granted(toMap[x]) => Granted(toMap'[x])
      BY <1>4 DEF Pushed, SameAnswers
  <2>2. \A x \in Server :
           /\ \A k \in {"save", "final", "charselect"} :
                 /\ Ahead(toChar[x], k, "change") => Ahead(toChar'[x], k, "change")
                 /\ Has(toChar'[x], k) <=> Has(toChar[x], k)
           /\ \A now, h : Lands(toChar[x], now, h) => Lands(toChar'[x], now, h)
      BY <1>3 DEF CharPop, Popped
  <2> QED
      BY <1>0, <1>1, <2>1, <2>2 DEF MoveIsSaved
<1>18. AskIsLast'
  <2>1. ASSUME NEW x \in Server, x # s
        PROVE  /\ \A k \in {"final", "charselect"} : Ahead(toChar'[x], k, "auth")
               /\ Ahead(toMap'[x], "charselect ok", "auth ok") /\ ~Has(toMap'[x], "auth ok")
    <3>1. toChar'[x] = toChar[x] /\ SameAnswers(toMap'[x], toMap[x])
        BY <1>3, <1>4, <2>1 DEF CharPop
    <3> QED
        BY <1>0, <1>8, <2>1, <3>1 DEF AskIsLast, SameAnswers, Asking
  <2>2. /\ \A k \in {"final", "charselect"} : Ahead(toChar'[s], k, "auth") /\ ~Has(toChar'[s], k)
        /\ Ahead(toMap'[s], "charselect ok", "auth ok")
      BY <1>0, <1>3, <1>4 DEF AskIsLast, CharPop, Popped, Pushed
  <2> QED
      BY <1>7, <2>1, <2>2 DEF AskIsLast
<1>19. PlayerKnown'
    BY <1>1, <1>8 DEF PlayerKnown
<1>20. SelectsOffline'
    BY <1>1, <1>7, <1>8, ServerAssumption DEF SelectsOffline, Spent, Nowhere, CharSrv
<1> QED
    BY <1>9, <1>10, <1>11, <1>12, <1>13, <1>14, <1>15, <1>16, <1>17, <1>18, <1>19, <1>20 DEF LoneInv

\* A login is refused.
LEMMA LoginRefused ==
    ASSUME Lone, TInv, TInv', LoneInv, NEW s \in Server, HandleAuth(s), auth # [login |-> Head(toChar[s]).login, char |-> TRUE]
    PROVE  LoneInv'
<1>0. /\ LinkHolds /\ NotStarted /\ Seats /\ OfflineIsDead /\ BusyOnce /\ BusyIsHome
      /\ MovesAlone /\ AsksAlone /\ MoveIsSaved /\ AskIsLast /\ PlayerKnown /\ SelectsOffline
    BY DEF LoneInv
<1>1. UNCHANGED <<logins, ticket, at, selecting, saved, player, data, node, up, losses>> /\ entry' = entry
    BY DEF HandleAuth, client, maps
<1>2. PICK m : m = Head(toChar[s])
    OBVIOUS
<1>3. CharPop(s, m) /\ m.type = "auth" /\ Kind(m) = "auth"
    BY <1>2, CharTaken DEF HandleAuth
<1>4. AnswersStay
  <2> DEFINE r == [type |-> "auth fail", login |-> Head(toChar[s]).login]
  <2>1. toMap \in [Server -> Seq(MapMsg)] /\ toMap' = [toMap EXCEPT ![s] = Append(@, r)]
      BY DEF HandleAuth, TInv, LinkTyped
  <2>2. Kind(r) \in PlainAnswer
      BY DEF Kind, PlainAnswer
  <2> HIDE DEF r
  <2>3. MapPush(s, r)
    <3>1. Pushed(Append(toMap[s], r), toMap[s], r)
        BY <2>1, PushedQueue
    <3> QED
        BY <2>1, <3>1 DEF MapPush
  <2> QED
      BY <2>2, <2>3, PlainAnswers
<1>5. \A x \in Server : (Busy(x)' => Busy(x)) /\ (Moving(x)' <=> Moving(x)) /\ (Asking(x)' => Asking(x))
    BY <1>1, <1>3, <1>4 DEF CharPop, Popped, AnswersStay, SameAnswers, Busy, Moving, Asking
<1>6. LinkHolds'
    BY <1>0, <1>1, <1>3 DEF LinkHolds, CharPop, Popped
<1>7. NotStarted'
    BY <1>0, <1>1 DEF NotStarted
<1>8. Seats'
    BY <1>0, <1>1, <1>5 DEF Seats
<1>9. OfflineIsDead'
    BY <1>0, <1>1, <1>3 DEF OfflineIsDead, CharPop, Popped
<1>10. BusyOnce'
    BY <1>0, <1>5 DEF BusyOnce
<1>11. BusyIsHome'
    BY <1>0, <1>1, <1>3, <1>5 DEF BusyIsHome, CharPop, Popped
<1>12. MovesAlone'
    BY <1>0, <1>1, <1>3, <1>4, <1>5 DEF MovesAlone, CharPop, Popped, AnswersStay, SameAnswers
<1>13. AsksAlone'
    BY <1>0, <1>1, <1>3, <1>4, <1>5 DEF AsksAlone, CharPop, Popped, AnswersStay, SameAnswers
<1>14. MoveIsSaved'
    BY <1>0, <1>1, <1>3, <1>4 DEF MoveIsSaved, CharPop, Popped, AnswersStay, SameAnswers
<1>15. AskIsLast'
    BY <1>0, <1>1, <1>3, <1>4 DEF AskIsLast, CharPop, Popped, AnswersStay, SameAnswers
<1>16. PlayerKnown'
    BY <1>0, <1>1, <1>3, <1>4 DEF PlayerKnown, CharPop, Popped, AnswersStay, SameAnswers
<1>17. SelectsOffline'
    BY <1>0, <1>1 DEF SelectsOffline
<1> QED
    BY <1>6, <1>7, <1>8, <1>9, <1>10, <1>11, <1>12, <1>13, <1>14, <1>15, <1>16, <1>17 DEF LoneInv

-----------------------------------------------------------------------------
(* Steps of the map servers.                                               *)

\* Nothing of interest changes.
QuietStep ==
    /\ UNCHANGED <<logins, ticket, at, selecting, entry, saved, player, up, toChar, losses>>
    /\ \A x \in Server :
          /\ data'[x].home = data[x].home
          /\ node'[x] = node[x] \/ (node[x].state = "logout" /\ node'[x].state = "none")
    /\ AnswersStay

\* Such a step keeps the invariant.
LEMMA QuietKeeps ==
    ASSUME Lone, TInv, TInv', LoneInv, QuietStep
    PROVE  LoneInv'
<1>0. /\ LinkHolds /\ NotStarted /\ Seats /\ OfflineIsDead /\ BusyOnce /\ BusyIsHome
      /\ MovesAlone /\ AsksAlone /\ MoveIsSaved /\ AskIsLast /\ PlayerKnown /\ SelectsOffline
    BY DEF LoneInv
<1>1. UNCHANGED <<logins, ticket, at, selecting, entry, saved, player, up, toChar, losses>>
    BY DEF QuietStep
<1>2. /\ AnswersStay
      /\ \A x \in Server : /\ data'[x].home = data[x].home
                           /\ node'[x] = node[x] \/ (node[x].state = "logout" /\ node'[x].state = "none")
    BY DEF QuietStep
<1>3. \A x \in Server : (Busy(x)' => Busy(x)) /\ (Moving(x)' <=> Moving(x)) /\ (Asking(x)' <=> Asking(x))
    BY <1>1, <1>2 DEF AnswersStay, SameAnswers, Busy, Moving, Asking
<1>4. LinkHolds'
    BY <1>0, <1>1 DEF LinkHolds
<1>5. NotStarted'
    BY <1>0, <1>1 DEF NotStarted
<1>6. Seats'
  <2>1. at'[1] \in Server => ticket'[1] = Spent
      BY <1>0, <1>1 DEF Seats
  <2>2. ASSUME NEW x \in Server
        PROVE  /\ at'[1] = x => player'[x] # 0 \/ node'[x].state \in {"login", "change"}
               /\ data'[x].home = x
               /\ node'[x].state = "logout" => node'[x].data.home = x
               /\ node'[x].state = "change" => node'[x].data.home # x /\ Moving(x)'
               /\ node'[x].state \in {"login", "change"} => at'[1] = x /\ node'[x].login = 1
    <3>1. CASE node'[x] = node[x]
        BY <1>0, <1>1, <1>2, <1>3, <3>1 DEF Seats
    <3>2. CASE node[x].state = "logout" /\ node'[x].state = "none"
      <4>1. at'[1] = x => player'[x] # 0
          BY <1>0, <1>1, <3>2 DEF Seats
      <4>2. data'[x].home = x
          BY <1>0, <1>2 DEF Seats
      <4> QED
          BY <3>2, <4>1, <4>2
    <3> QED
        BY <1>2, <3>1, <3>2
  <2> QED
      BY <2>1, <2>2 DEF Seats
<1>7. OfflineIsDead'
    BY <1>0, <1>1 DEF OfflineIsDead
<1>8. BusyOnce'
    BY <1>0, <1>3 DEF BusyOnce
<1>9. BusyIsHome'
    BY <1>0, <1>1, <1>3 DEF BusyIsHome
<1>10. MovesAlone'
    BY <1>0, <1>1, <1>2, <1>3 DEF MovesAlone, AnswersStay, SameAnswers
<1>11. AsksAlone'
    BY <1>0, <1>1, <1>2, <1>3 DEF AsksAlone, AnswersStay, SameAnswers
<1>12. MoveIsSaved'
    BY <1>0, <1>1, <1>2 DEF MoveIsSaved, AnswersStay, SameAnswers
<1>13. AskIsLast'
    BY <1>0, <1>1, <1>2 DEF AskIsLast, AnswersStay, SameAnswers
<1>14. PlayerKnown'
    BY <1>0, <1>1, <1>2 DEF PlayerKnown, AnswersStay, SameAnswers
<1>15. SelectsOffline'
    BY <1>0, <1>1 DEF SelectsOffline
<1> QED
    BY <1>4, <1>5, <1>6, <1>7, <1>8, <1>9, <1>10, <1>11, <1>12, <1>13, <1>14, <1>15 DEF LoneInv

\* The player on s, or one who is logging out there, sends m.
PostStep(s, m) ==
    /\ UNCHANGED <<logins, ticket, at, selecting, entry, saved, player, data, node, up, toMap, losses>>
    /\ CharPush(s, m)
    /\ player[s] # 0 \/ node[s].state = "logout"
    /\ Kind(m) \in {"save", "final", "charselect"} /\ (m.type = "save" => m.data.home = s)
    /\ Kind(m) = "final" => player[s] = 0
    /\ m.type # "change"

\* Such a step keeps the invariant.
LEMMA PostKeeps ==
    ASSUME Lone, TInv, TInv', LoneInv, NEW s \in Server, NEW m, PostStep(s, m)
    PROVE  LoneInv'
<1>0. /\ LinkHolds /\ NotStarted /\ Seats /\ OfflineIsDead /\ BusyOnce /\ BusyIsHome
      /\ MovesAlone /\ AsksAlone /\ MoveIsSaved /\ AskIsLast /\ PlayerKnown /\ SelectsOffline
    BY DEF LoneInv
<1>1. UNCHANGED <<logins, ticket, at, selecting, entry, saved, player, data, node, up, toMap, losses>>
    BY DEF PostStep
<1>2. /\ CharPush(s, m) /\ (player[s] # 0 \/ node[s].state = "logout")
      /\ Kind(m) \in {"save", "final", "charselect"} /\ (m.type = "save" => m.data.home = s)
      /\ (Kind(m) = "final" => player[s] = 0) /\ m.type # "change"
    BY DEF PostStep
<1>3. Busy(s) /\ \A x \in Server : ~Moving(x) /\ ~Asking(x)
    BY <1>0, <1>2 DEF Busy, MovesAlone, AsksAlone
<1>4. \A x \in Server : (Busy(x)' <=> Busy(x)) /\ ~Moving(x)' /\ ~Asking(x)'
    BY <1>1, <1>2, <1>3 DEF CharPush, Pushed, Busy, Moving, Asking
<1>5. \A x \in Server : ~Has(toMap[x], "change ack") /\ ~Has(toMap[x], "auth ok") /\ ~Has(toChar[x], "auth") /\ ~Has(toChar[x], "change")
    BY <1>3 DEF Moving, Asking
<1>6. LinkHolds'
    BY <1>0, <1>1, <1>2 DEF LinkHolds, CharPush, Pushed
<1>7. NotStarted'
    BY <1>0, <1>1 DEF NotStarted
<1>8. Seats'
    BY <1>0, <1>1, <1>3 DEF Seats
<1>9. OfflineIsDead'
    BY <1>0, <1>1, <1>2 DEF OfflineIsDead, CharPush, Pushed
<1>10. BusyOnce'
    BY <1>0, <1>4 DEF BusyOnce
<1>11. BusyIsHome'
    BY <1>0, <1>1, <1>2, <1>3, <1>4 DEF BusyIsHome, CharPush, Pushed
<1>12. MovesAlone'
    BY <1>4 DEF MovesAlone
<1>13. AsksAlone'
    BY <1>4 DEF AsksAlone
<1>14. MoveIsSaved'
  <2>1. \A x \in Server : node[x].state # "change"
      BY <1>0, <1>3 DEF Seats
  <2>2. \A x \in Server : \A k \in {"save", "final", "charselect"} : Ahead(toChar'[x], k, "change")
      BY <1>0, <1>2, <1>5 DEF MoveIsSaved, CharPush, Pushed
  <2> QED
      BY <1>0, <1>1, <1>5, <2>1, <2>2 DEF MoveIsSaved
<1>15. AskIsLast'
    BY <1>0, <1>1, <1>2, <1>5 DEF AskIsLast, CharPush, Pushed
<1>16. PlayerKnown'
    BY <1>0, <1>1, <1>2 DEF PlayerKnown, CharPush, Pushed
<1>17. SelectsOffline'
    BY <1>0, <1>1 DEF SelectsOffline
<1> QED
    BY <1>6, <1>7, <1>8, <1>9, <1>10, <1>11, <1>12, <1>13, <1>14, <1>15, <1>16, <1>17 DEF LoneInv

\* map_quit of the player on s, whose connection has ended.
QuitStep(s) ==
    /\ UNCHANGED <<logins, ticket, selecting, entry, saved, data, up, losses>>
    /\ player[s] # 0 /\ player' = [player EXCEPT ![s] = 0]
    /\ node' = [node EXCEPT ![s] = [state |-> "logout", login |-> player[s], data |-> data[s]]]
    /\ toChar' = Post(toChar, s, FinalSave(data[s]))
    /\ at'[1] \in {at[1], Nowhere} \ {s}
    /\ AnswersStay

\* Such a step keeps the invariant.
LEMMA LoneQuitKeeps ==
    ASSUME Lone, TInv, TInv', LoneInv, NEW s \in Server, QuitStep(s)
    PROVE  LoneInv'
<1>0. /\ LinkHolds /\ NotStarted /\ Seats /\ OfflineIsDead /\ BusyOnce /\ BusyIsHome
      /\ MovesAlone /\ AsksAlone /\ MoveIsSaved /\ AskIsLast /\ PlayerKnown /\ SelectsOffline
    BY DEF LoneInv
<1>1. UNCHANGED <<logins, ticket, selecting, entry, saved, data, up, losses>> /\ AnswersStay /\ player[s] # 0
    BY DEF QuitStep
<1>2. /\ player'[s] = 0 /\ node'[s].state = "logout" /\ node'[s].data = data[s]
      /\ \A x \in Server \ {s} : player'[x] = player[x] /\ node'[x] = node[x]
      /\ at'[1] # s /\ \A x \in Server : at'[1] = x => at[1] = x
    BY ServerAssumption DEF QuitStep, TInv, MapTyped, Nowhere
<1>3. PICK m : m = FinalSave(data[s])
    OBVIOUS
<1>4. CharPush(s, m) /\ Kind(m) = "final" /\ m.type = "save" /\ m.data.home = s
    BY <1>0, <1>3, CharPosted DEF QuitStep, FinalSave, Kind, Seats
<1>5. Busy(s) /\ \A x \in Server : ~Moving(x) /\ ~Asking(x) /\ (Busy(x) => x = s)
    BY <1>0, <1>1 DEF Busy, BusyOnce, MovesAlone, AsksAlone
<1>6. \A x \in Server : (Busy(x)' => Busy(x)) /\ ~Moving(x)' /\ ~Asking(x)'
  <2>1. ASSUME NEW x \in Server, x # s, Busy(x)' PROVE Busy(x)
      BY <1>1, <1>2, <1>4, <2>1 DEF CharPush, Busy
  <2>2. ASSUME NEW x \in Server PROVE ~Moving(x)' /\ ~Asking(x)'
    <3>1. /\ Has(toMap'[x], "change ack") <=> Has(toMap[x], "change ack")
          /\ Has(toMap'[x], "auth ok") <=> Has(toMap[x], "auth ok")
        BY <1>1 DEF AnswersStay, SameAnswers
    <3>2. /\ Has(toChar'[x], "change") <=> Has(toChar[x], "change")
          /\ Has(toChar'[x], "auth") <=> Has(toChar[x], "auth")
        BY <1>4 DEF CharPush, Pushed
    <3> QED
        BY <1>5, <3>1, <3>2 DEF Moving, Asking
  <2> QED
      BY <1>5, <2>1, <2>2
<1>7. \A x \in Server : ~Has(toMap'[x], "change ack") /\ ~Has(toMap'[x], "auth ok") /\ ~Has(toChar[x], "auth") /\ ~Has(toChar[x], "change")
    BY <1>5, <1>6 DEF Moving, Asking
<1>8. \A x \in Server \ {s} : player[x] = 0 /\ node[x].state = "none"
    BY <1>5 DEF Busy
<1>9. LinkHolds'
    BY <1>0, <1>1, <1>4 DEF LinkHolds, CharPush, Pushed
<1>10. NotStarted'
    BY <1>0, <1>1 DEF NotStarted
<1>11. Seats'
    BY <1>0, <1>1, <1>2, <1>8 DEF Seats
<1>12. OfflineIsDead'
  <2>1. at'[1] \in {at[1], Nowhere} /\ \A x \in Server : Has(toChar'[x], "offline") <=> Has(toChar[x], "offline")
      BY <1>4 DEF CharPush, Pushed, QuitStep
  <2> QED
      BY <1>0, <1>1, <2>1 DEF OfflineIsDead
<1>13. BusyOnce'
    BY <1>0, <1>6 DEF BusyOnce
<1>14. BusyIsHome'
    BY <1>0, <1>1, <1>4, <1>5, <1>6 DEF BusyIsHome, CharPush, Pushed
<1>15. MovesAlone'
    BY <1>6 DEF MovesAlone
<1>16. AsksAlone'
    BY <1>6 DEF AsksAlone
<1>17. MoveIsSaved'
  <2>1. \A x \in Server : node'[x].state # "change"
      BY <1>2, <1>8
  <2>2. \A x \in Server : \A k \in {"save", "final", "charselect"} : Ahead(toChar'[x], k, "change")
      BY <1>0, <1>4, <1>7 DEF MoveIsSaved, CharPush, Pushed
  <2>3. \A x \in Server : Granted(toMap'[x])
      BY <1>0, <1>1 DEF MoveIsSaved, AnswersStay, SameAnswers
  <2> QED
      BY <1>7, <2>1, <2>2, <2>3 DEF MoveIsSaved
<1>18. AskIsLast'
  <2>1. \A x \in Server : \A k \in {"final", "charselect"} : Ahead(toChar'[x], k, "auth")
      BY <1>0, <1>4, <1>7 DEF AskIsLast, CharPush, Pushed
  <2>2. \A x \in Server : Ahead(toMap'[x], "charselect ok", "auth ok")
      BY <1>0, <1>1 DEF AskIsLast, AnswersStay, SameAnswers
  <2> QED
      BY <1>7, <2>1, <2>2 DEF AskIsLast
<1>19. PlayerKnown'
    BY <1>2, <1>8 DEF PlayerKnown
<1>20. SelectsOffline'
    BY <1>0, <1>1 DEF SelectsOffline
<1> QED
    BY <1>9, <1>10, <1>11, <1>12, <1>13, <1>14, <1>15, <1>16, <1>17, <1>18, <1>19, <1>20 DEF LoneInv

\* A connection ends; a login or a change of the server ends with it.
DropStep ==
    /\ UNCHANGED <<logins, ticket, selecting, entry, saved, player, data, up, losses>>
    /\ at[1] \in Server /\ at'[1] = Nowhere
    /\ \A x \in Server :
          \/ node'[x] = node[x] /\ node[x].state \notin {"login", "change"}
          \/ node[x].state \in {"login", "change"} /\ node'[x].state = "none"
    /\ toChar' = toChar \/ \E s \in Server : CharPush(s, [type |-> "offline"])
    /\ AnswersStay

\* Such a step keeps the invariant.
LEMMA LoneDropKeeps ==
    ASSUME Lone, TInv, TInv', LoneInv, DropStep
    PROVE  LoneInv'
<1>0. /\ LinkHolds /\ NotStarted /\ Seats /\ OfflineIsDead /\ BusyOnce /\ BusyIsHome
      /\ MovesAlone /\ AsksAlone /\ MoveIsSaved /\ AskIsLast /\ PlayerKnown /\ SelectsOffline
    BY DEF LoneInv
<1>1. UNCHANGED <<logins, ticket, selecting, entry, saved, player, data, up, losses>> /\ AnswersStay
    BY DEF DropStep
<1>2. /\ \A x \in Server : /\ at'[1] # x /\ node'[x].state \notin {"login", "change"}
                           /\ node'[x].state # "none" => node'[x] = node[x]
      /\ at'[1] = Nowhere /\ ticket[1] = Spent
    BY <1>0, ServerAssumption DEF DropStep, Seats, Nowhere
<1>3. \A x \in Server : toChar'[x] = toChar[x] \/ Pushed(toChar'[x], toChar[x], [type |-> "offline"])
    BY DEF DropStep, CharPush
<1>4. PICK m : m = [type |-> "offline"] /\ Kind(m) = "offline" /\ m.type = "offline"
  <2>1. Kind([type |-> "offline"]) = "offline"
      BY DEF Kind
  <2> QED
      BY <2>1
<1>5. \A x \in Server :
         /\ \A k \in {"save", "final", "charselect", "change", "auth", "users"} : Has(toChar'[x], k) <=> Has(toChar[x], k)
         /\ \A k \in {"change", "auth"} : Once(toChar[x], k) => Once(toChar'[x], k)
         /\ \A k \in {"save", "final", "charselect"}, l \in {"change", "auth"} : Ahead(toChar[x], k, l) => Ahead(toChar'[x], k, l)
         /\ SavesHome(toChar[x], x) => SavesHome(toChar'[x], x)
    BY <1>3, <1>4 DEF Pushed
<1>6. \A x \in Server : (Busy(x)' => Busy(x)) /\ (Moving(x)' <=> Moving(x)) /\ (Asking(x)' <=> Asking(x))
    BY <1>1, <1>2, <1>5 DEF AnswersStay, SameAnswers, Busy, Moving, Asking
<1>7. LinkHolds'
    BY <1>0, <1>1, <1>5 DEF LinkHolds
<1>8. NotStarted'
    BY <1>0, <1>1 DEF NotStarted
<1>9. Seats'
    BY <1>0, <1>1, <1>2, ServerAssumption DEF Seats, Nowhere
<1>10. OfflineIsDead'
    BY <1>1, <1>2 DEF OfflineIsDead
<1>11. BusyOnce'
    BY <1>0, <1>6 DEF BusyOnce
<1>12. BusyIsHome'
    BY <1>0, <1>1, <1>5, <1>6 DEF BusyIsHome
<1>13. MovesAlone'
    BY <1>0, <1>1, <1>2, <1>5, <1>6 DEF MovesAlone, AnswersStay, SameAnswers
<1>14. AsksAlone'
    BY <1>0, <1>1, <1>2, <1>5, <1>6 DEF AsksAlone, AnswersStay, SameAnswers
<1>15. MoveIsSaved'
    BY <1>0, <1>1, <1>2, <1>5 DEF MoveIsSaved, AnswersStay, SameAnswers
<1>16. AskIsLast'
    BY <1>0, <1>1, <1>2, <1>5 DEF AskIsLast, AnswersStay, SameAnswers
<1>17. PlayerKnown'
    BY <1>0, <1>1, <1>2, <1>5 DEF PlayerKnown
<1>18. SelectsOffline'
    BY <1>0, <1>1 DEF SelectsOffline
<1> QED
    BY <1>7, <1>8, <1>9, <1>10, <1>11, <1>12, <1>13, <1>14, <1>15, <1>16, <1>17, <1>18 DEF LoneInv

\* A client arrives at a map server that still knows the last connection.
LEMMA EntryRefused ==
    ASSUME Lone, TInv, TInv', LoneInv, MapConnect(1), Blocked(ticket[1])
    PROVE  LoneInv'
<1>0. /\ LinkHolds /\ NotStarted /\ Seats /\ OfflineIsDead /\ BusyOnce /\ BusyIsHome
      /\ MovesAlone /\ AsksAlone /\ MoveIsSaved /\ AskIsLast /\ PlayerKnown /\ SelectsOffline
    BY DEF LoneInv
<1>1. ticket[1] \in Server /\ ticket'[1] = Spent
    BY OneLogin DEF MapConnect, TInv, ClientTyped
<1>2. UNCHANGED <<logins, at, selecting, entry, saved, player, data, node, up, toChar, toMap, losses>>
    BY DEF MapConnect, charVars
<1>3. \A x \in Server : at[1] # x /\ ~Moving(x) /\ ~Asking(x) /\ ~Has(toChar[x], "offline")
    BY <1>0, <1>1, ServerAssumption DEF Seats, MovesAlone, AsksAlone, OfflineIsDead, Spent
<1>4. \A x \in Server : (Busy(x)' => Busy(x)) /\ ~Moving(x)' /\ ~Asking(x)'
    BY <1>1, <1>2, <1>3, ServerAssumption DEF Busy, Moving, Asking, Spent
<1>5. LinkHolds'
    BY <1>0, <1>2 DEF LinkHolds
<1>6. NotStarted'
    BY <1>0, <1>1, <1>2, ServerAssumption DEF NotStarted, Nowhere
<1>7. Seats'
    BY <1>0, <1>1, <1>2, <1>3 DEF Seats
<1>8. OfflineIsDead'
    BY <1>2, <1>3 DEF OfflineIsDead
<1>9. BusyOnce'
    BY <1>0, <1>4 DEF BusyOnce
<1>10. BusyIsHome'
    BY <1>0, <1>2, <1>3, <1>4 DEF BusyIsHome
<1>11. MovesAlone'
    BY <1>4 DEF MovesAlone
<1>12. AsksAlone'
    BY <1>4 DEF AsksAlone
<1>13. MoveIsSaved'
    BY <1>0, <1>2 DEF MoveIsSaved
<1>14. AskIsLast'
    BY <1>0, <1>2 DEF AskIsLast
<1>15. PlayerKnown'
    BY <1>0, <1>2 DEF PlayerKnown
<1>16. SelectsOffline'
    BY <1>0, <1>1, <1>2 DEF SelectsOffline, Spent, CharSrv, Nowhere
<1> QED
    BY <1>5, <1>6, <1>7, <1>8, <1>9, <1>10, <1>11, <1>12, <1>13, <1>14, <1>15, <1>16 DEF LoneInv

\* A client arrives at a map server, which asks the char server.
LEMMA EntryAdmitted ==
    ASSUME Lone, TInv, TInv', LoneInv, MapConnect(1), ~Blocked(ticket[1])
    PROVE  LoneInv'
<1>0. /\ LinkHolds /\ NotStarted /\ Seats /\ OfflineIsDead /\ BusyOnce /\ BusyIsHome
      /\ MovesAlone /\ AsksAlone /\ MoveIsSaved /\ AskIsLast /\ PlayerKnown /\ SelectsOffline
    BY DEF LoneInv
<1>1. PICK s \in Server : s = ticket[1]
    BY DEF MapConnect
<1>2. \A x \in Server : at[1] # x /\ ~Moving(x) /\ ~Asking(x) /\ ~Has(toChar[x], "offline")
    BY <1>0, <1>1, ServerAssumption DEF Seats, MovesAlone, AsksAlone, OfflineIsDead, Spent
<1>3. player[s] = 0 /\ node[s].state = "none" /\ up[s] = TRUE
  <2>1. player[s] = 0 /\ node[s].state \notin {"logout", "change"}
      BY <1>1 DEF Blocked
  <2>2. node[s].state # "login" /\ node[s].state \in {"none", "login", "logout", "change"}
      BY <1>0, <1>2 DEF Seats, TInv, MapTyped, Node
  <2>3. up[s] = TRUE
      BY <1>0 DEF LinkHolds, TInv, LinkTyped
  <2> QED
      BY <2>1, <2>2, <2>3
<1>4. Busy(s) /\ \A x \in Server : Busy(x) => x = s
    BY <1>0, <1>1 DEF Busy, BusyOnce
<1>5. UNCHANGED <<logins, selecting, entry, saved, player, data, up, toMap, losses>>
    BY DEF MapConnect, charVars
<1>6. /\ ticket'[1] = Spent /\ at'[1] = s
      /\ node'[s].state = "login" /\ node'[s].login = 1
      /\ \A x \in Server \ {s} : node'[x] = node[x]
      /\ toChar' = Post(toChar, s, [type |-> "auth", login |-> 1])
  <2>1. /\ ticket' = [ticket EXCEPT ![1] = Spent] /\ at' = [at EXCEPT ![1] = s]
        /\ IF node[s].state = "none" /\ up[s]
           THEN /\ node' = [node EXCEPT ![s] = [NoNode EXCEPT !.state = "login", !.login = 1]]
                /\ toChar' = Post(toChar, s, [type |-> "auth", login |-> 1])
           ELSE UNCHANGED <<node, toChar>>
      BY <1>1 DEF MapConnect
  <2>2. /\ node' = [node EXCEPT ![s] = [NoNode EXCEPT !.state = "login", !.login = 1]]
        /\ toChar' = Post(toChar, s, [type |-> "auth", login |-> 1])
      BY <1>3, <2>1
  <2>3. ticket'[1] = Spent /\ at'[1] = s
      BY <2>1, OneLogin DEF TInv, ClientTyped
  <2>4. node'[s].state = "login" /\ node'[s].login = 1 /\ \A x \in Server \ {s} : node'[x] = node[x]
      BY <2>2 DEF TInv, MapTyped, NoNode
  <2> QED
      BY <2>2, <2>3, <2>4
<1>7. PICK m : m = [type |-> "auth", login |-> 1]
    OBVIOUS
<1>8. CharPush(s, m) /\ m.type = "auth" /\ Kind(m) = "auth"
    BY <1>0, <1>6, <1>7, CharPosted DEF Kind
<1>9. /\ \A x \in Server : (Busy(x)' => x = s) /\ ~Moving(x)' /\ (Asking(x)' => x = s)
      /\ \A x \in Server : ~Has(toMap[x], "auth ok") /\ ~Has(toChar[x], "auth") /\ ~Has(toMap[x], "change ack")
  <2>1. ASSUME NEW x \in Server PROVE ~Has(toMap[x], "auth ok") /\ ~Has(toChar[x], "auth") /\ ~Has(toMap[x], "change ack") /\ ~Has(toChar[x], "change")
      BY <1>2 DEF Moving, Asking
  <2>2. ASSUME NEW x \in Server PROVE ~Moving(x)'
      BY <1>5, <1>8, <2>1 DEF Moving, CharPush, Pushed
  <2>3. ASSUME NEW x \in Server, x # s PROVE ~Busy(x)' /\ ~Asking(x)'
      BY <1>1, <1>4, <1>5, <1>6, <1>8, <2>1, <2>3, ServerAssumption DEF Busy, Asking, CharPush, Spent
  <2> QED
      BY <2>1, <2>2, <2>3
<1>10. \A x \in Server \ {s} : player[x] = 0 /\ node[x].state = "none"
    BY <1>4 DEF Busy
<1>11. LinkHolds'
    BY <1>0, <1>5, <1>8 DEF LinkHolds, CharPush, Pushed
<1>12. NotStarted'
    BY <1>0, <1>1, <1>5, ServerAssumption DEF NotStarted, Nowhere
<1>13. Seats'
  <2>1. ASSUME NEW x \in Server
        PROVE  /\ at'[1] = x => player'[x] # 0 \/ node'[x].state \in {"login", "change"}
               /\ data'[x].home = x
               /\ node'[x].state = "logout" => node'[x].data.home = x
               /\ node'[x].state = "change" => node'[x].data.home # x /\ Moving(x)'
               /\ node'[x].state \in {"login", "change"} => at'[1] = x /\ node'[x].login = 1
      BY <1>0, <1>5, <1>6, <1>10 DEF Seats
  <2> QED
      BY <1>6, <2>1 DEF Seats
<1>14. OfflineIsDead'
    BY <1>2, <1>8 DEF OfflineIsDead, CharPush, Pushed
<1>15. BusyOnce'
    BY <1>9 DEF BusyOnce
<1>16. BusyIsHome'
    BY <1>0, <1>2, <1>4, <1>5, <1>8, <1>9 DEF BusyIsHome, CharPush, Pushed
<1>17. MovesAlone'
    BY <1>9 DEF MovesAlone
<1>18. AsksAlone'
  <2>1. Once(toChar'[s], "auth") /\ Once(toMap[s], "auth ok")
    <3>1. Once(toChar[s], "auth") /\ Once(toMap[s], "auth ok")
        BY <1>9 DEF Once, Has
    <3> QED
        BY <1>8, <1>9, <3>1 DEF CharPush, Pushed
  <2>2. ticket'[1] = Spent /\ ~Has(toMap'[s], "auth ok") /\ toMap' = toMap
      BY <1>5, <1>6, <1>9
  <2>3. \A x \in Server : player'[x] = 0 /\ node'[x].state \in {"none", "login"}
      BY <1>3, <1>5, <1>6, <1>10
  <2> SUFFICES ASSUME NEW x \in Server, Asking(x)'
               PROVE  /\ Once(toChar'[x], "auth") /\ Once(toMap'[x], "auth ok")
                      /\ ~(Has(toChar'[x], "auth") /\ Has(toMap'[x], "auth ok"))
                      /\ \A y \in Server : Asking(y)' => y = x
      BY <2>2, <2>3 DEF AsksAlone
  <2> QED
      BY <1>9, <2>1, <2>2
<1>19. MoveIsSaved'
  <2>1. \A x \in Server : node'[x].state # "change"
      BY <1>6, <1>10
  <2>2. \A x \in Server : \A k \in {"save", "final", "charselect"} : Ahead(toChar'[x], k, "change")
      BY <1>0, <1>8 DEF MoveIsSaved, CharPush, Pushed
  <2> QED
      BY <1>0, <1>5, <1>9, <2>1, <2>2 DEF MoveIsSaved
<1>20. AskIsLast'
  <2>1. \A x \in Server : \A k \in {"final", "charselect"} : Ahead(toChar'[x], k, "auth")
      BY <1>0, <1>8 DEF AskIsLast, CharPush, Pushed
  <2> QED
      BY <1>0, <1>5, <1>9, <2>1 DEF AskIsLast
<1>21. PlayerKnown'
    BY <1>3, <1>5, <1>10 DEF PlayerKnown
<1>22. SelectsOffline'
    BY <1>0, <1>5, <1>6 DEF SelectsOffline, Spent, CharSrv, Nowhere
<1> QED
    BY <1>11, <1>12, <1>13, <1>14, <1>15, <1>16, <1>17, <1>18, <1>19, <1>20, <1>21, <1>22 DEF LoneInv

\* A player leaves for another map server.
LEMMA LeaveKeeps ==
    ASSUME Lone, TInv, TInv', LoneInv, NEW s \in Server, NEW d \in Server, ChangeServer(s, d)
    PROVE  LoneInv'
<1>0. /\ LinkHolds /\ NotStarted /\ Seats /\ OfflineIsDead /\ BusyOnce /\ BusyIsHome
      /\ MovesAlone /\ AsksAlone /\ MoveIsSaved /\ AskIsLast /\ PlayerKnown /\ SelectsOffline
    BY DEF LoneInv
<1>1. /\ player[s] = 1 /\ at[1] = s /\ d # s
      /\ UNCHANGED <<logins, ticket, at, selecting, entry, saved, data, up, toMap, losses>>
  <2>1. player[s] # 0 /\ at[player[s]] = s /\ d # s
      BY DEF ChangeServer, Leaves
  <2>2. player[s] \in {0, 1}
      BY OneLogin DEF TInv, MapTyped
  <2> QED
      BY <2>1, <2>2 DEF ChangeServer, Leaves, client, charVars
<1>2. /\ player'[s] = 0 /\ node'[s].state = "change" /\ node'[s].login = 1 /\ node'[s].data.home = d
      /\ \A x \in Server \ {s} : player'[x] = player[x] /\ node'[x] = node[x]
    BY <1>1 DEF ChangeServer, Leaves, Moved, TInv, MapTyped
<1>3. Busy(s) /\ ticket[1] = Spent /\ \A x \in Server : (Busy(x) => x = s) /\ ~Moving(x) /\ ~Asking(x)
  <2>1. Busy(s) /\ ticket[1] = Spent
      BY <1>0, <1>1 DEF Busy, Seats
  <2>2. ASSUME NEW x \in Server PROVE Busy(x) => x = s
      BY <1>0, <2>1 DEF BusyOnce
  <2>3. ASSUME NEW x \in Server PROVE ~Moving(x) /\ ~Asking(x)
    <3>1. player[s] # 0
        BY <1>1
    <3>2. ~Moving(x)
        BY <1>0, <3>1 DEF MovesAlone
    <3>3. ~Asking(x)
        BY <1>0, <3>1 DEF AsksAlone
    <3> QED
        BY <3>2, <3>3
  <2> QED
      BY <2>1, <2>2, <2>3
<1>4. PICK m, n : m = Save(Moved(s, d)) /\ n = ChangeRequest(player[s], d)
    OBVIOUS
<1>5. m.type = "save" /\ m.data.home = d /\ Kind(m) = "save" /\ n.type = "change" /\ Kind(n) = "change"
    BY <1>4 DEF Save, Moved, ChangeRequest, Kind
<1>6. PICK q \in Seq(CharMsg) : /\ q = Append(toChar[s], m) /\ toChar'[s] = Append(q, n)
                             /\ \A x \in Server \ {s} : toChar'[x] = toChar[x]
  <2>1. toChar \in [Server -> Seq(CharMsg)] /\ toChar' = [toChar EXCEPT ![s] = @ \o <<m, n>>]
      BY <1>4 DEF ChangeServer, Leaves, TInv, LinkTyped
  <2>2. m \in CharMsg
    <3>1. Moved(s, d) \in Data
        BY DEF Moved, Data, TInv, MapTyped
    <3> QED
        BY <1>4, <3>1 DEF Save, CharMsg
  <2>3. Append(toChar[s], m) \in Seq(CharMsg) /\ toChar[s] \o <<m, n>> = Append(Append(toChar[s], m), n)
      BY <2>1, <2>2
  <2> QED
      BY <2>1, <2>3
<1>7. Pushed(q, toChar[s], m) /\ Pushed(toChar'[s], q, n)
  <2>1. toChar[s] \in Seq(CharMsg)
      BY DEF TInv, LinkTyped
  <2> QED
      BY <1>6, <2>1, PushedQueue
<1>8. \A x \in Server : ~Has(toMap[x], "auth ok") /\ ~Has(toChar[x], "auth") /\ ~Has(toMap[x], "change ack") /\ ~Has(toChar[x], "change")
    BY <1>3 DEF Moving, Asking
<1>9. /\ Has(toChar'[s], "change") /\ Once(toChar'[s], "change") /\ ~Has(toChar'[s], "auth")
      /\ \A k \in {"final", "charselect", "users", "offline"} : Has(toChar'[s], k) <=> Has(toChar[s], k)
      /\ \A k \in {"save", "final", "charselect"} : Ahead(toChar[s], k, "change") => Ahead(toChar'[s], k, "change")
      /\ \A k \in {"final", "charselect"} : Ahead(toChar[s], k, "auth") => Ahead(toChar'[s], k, "auth")
  <2>1. ~Has(q, "change") /\ ~Has(q, "auth") /\ Once(q, "change")
    <3>1. Once(toChar[s], "change")
        BY <1>8 DEF Once, Has
    <3> QED
        BY <1>5, <1>7, <1>8, <3>1 DEF Pushed
  <2>2. /\ \A k \in {"final", "charselect", "users", "offline"} : Has(q, k) <=> Has(toChar[s], k)
        /\ \A k \in {"save", "final", "charselect"} : Ahead(toChar[s], k, "change") => Ahead(q, k, "change")
        /\ \A k \in {"final", "charselect"} : Ahead(toChar[s], k, "auth") => Ahead(q, k, "auth")
      BY <1>5, <1>7, <1>8 DEF Pushed
  <2> QED
      BY <1>5, <1>7, <2>1, <2>2 DEF Pushed
<1>10. /\ Moving(s)' /\ \A x \in Server : ~Asking(x)' /\ (Busy(x)' => x = s) /\ (Moving(x)' => x = s)
  <2>1. Moving(s)' /\ ~Asking(s)'
      BY <1>1, <1>8, <1>9 DEF Moving, Asking
  <2>2. ASSUME NEW x \in Server, x # s PROVE ~Asking(x)' /\ ~Moving(x)'
      BY <1>1, <1>6, <1>8, <2>2 DEF Moving, Asking
  <2>3. ASSUME NEW x \in Server, x # s PROVE ~Busy(x)'
      BY <1>1, <1>2, <1>3, <1>6, <2>3 DEF Busy
  <2> QED
      BY <2>1, <2>2, <2>3
<1>11. \A x \in Server : player'[x] = 0 /\ (x # s => node'[x].state = "none")
    BY <1>2, <1>3 DEF Busy
<1>12. LinkHolds'
    BY <1>0, <1>1, <1>6, <1>9 DEF LinkHolds
<1>13. NotStarted'
    BY <1>0, <1>1 DEF NotStarted
<1>14. Seats'
  <2>1. ASSUME NEW x \in Server
        PROVE  /\ at'[1] = x => player'[x] # 0 \/ node'[x].state \in {"login", "change"}
               /\ data'[x].home = x
               /\ node'[x].state = "logout" => node'[x].data.home = x
               /\ node'[x].state = "change" => node'[x].data.home # x /\ Moving(x)'
               /\ node'[x].state \in {"login", "change"} => at'[1] = x /\ node'[x].login = 1
      BY <1>0, <1>1, <1>2, <1>10, <1>11 DEF Seats
  <2> QED
      BY <1>1, <1>3, <2>1 DEF Seats
<1>15. OfflineIsDead'
    BY <1>0, <1>1, <1>6, <1>9 DEF OfflineIsDead
<1>16. BusyOnce'
    BY <1>10 DEF BusyOnce
<1>17. BusyIsHome'
    BY <1>10 DEF BusyIsHome
<1>18. MovesAlone'
  <2>1. Once(toMap[s], "change ack")
      BY <1>8 DEF Once, Has
  <2> QED
      BY <1>1, <1>2, <1>3, <1>8, <1>9, <1>10, <1>11, <2>1 DEF MovesAlone
<1>19. AsksAlone'
    BY <1>10 DEF AsksAlone
<1>20. MoveIsSaved'
  <2>1. Lands(toChar'[s], saved.home, d)
    <3>1. toChar[s] \in Seq(CharMsg)
        BY DEF TInv, LinkTyped
    <3> QED
        BY <1>5, <1>6, <1>8, <3>1, MoveLands
  <2>2. \A x \in Server : \A k \in {"save", "final", "charselect"} : Ahead(toChar'[x], k, "change")
      BY <1>0, <1>6, <1>9 DEF MoveIsSaved
  <2>3. \A x \in Server : node'[x].state = "change" => Lands(toChar'[x], saved'.home, node'[x].data.home)
      BY <1>1, <1>2, <1>11, <2>1
  <2> QED
      BY <1>0, <1>1, <1>8, <2>2, <2>3 DEF MoveIsSaved
<1>21. AskIsLast'
  <2>1. \A x \in Server : \A k \in {"final", "charselect"} : Ahead(toChar'[x], k, "auth")
      BY <1>0, <1>6, <1>9 DEF AskIsLast
  <2> QED
      BY <1>0, <1>1, <1>8, <2>1 DEF AskIsLast
<1>22. PlayerKnown'
    BY <1>11 DEF PlayerKnown
<1>23. SelectsOffline'
    BY <1>0, <1>1 DEF SelectsOffline
<1> QED
    BY <1>12, <1>13, <1>14, <1>15, <1>16, <1>17, <1>18, <1>19, <1>20, <1>21, <1>22, <1>23 DEF LoneInv

\* A login succeeds: the char server knows the server of the new player, and
\* nothing on its way takes that back.
LEMMA PlayerEnters ==
    ASSUME Lone, TInv, TInv', LoneInv, NEW s \in Server, ReceiveAuthOk(s), node[s].state = "login", player[s] = 0
    PROVE  LoneInv'
<1>0. /\ LinkHolds /\ NotStarted /\ Seats /\ OfflineIsDead /\ BusyOnce /\ BusyIsHome
      /\ MovesAlone /\ AsksAlone /\ MoveIsSaved /\ AskIsLast /\ PlayerKnown /\ SelectsOffline
    BY DEF LoneInv
<1>1. UNCHANGED <<logins, ticket, at, selecting, entry, saved, up, toChar, losses>> /\ node[s].login = 1
  <2>1. node[s].login = 1
      BY <1>0 DEF Seats
  <2>2. Receive(s, "auth ok")
      BY DEF ReceiveAuthOk
  <2>3. Head(toMap[s]).login = 1
    <3>1. Head(toMap[s]) \in MapMsg /\ Head(toMap[s]).type = "auth ok"
        BY <2>2, ReceiveFacts
    <3> QED
        BY <3>1, MapMsgFacts, OneLogin
  <2> QED
      BY <2>1, <2>3 DEF ReceiveAuthOk, charVars
<1>2. /\ player'[s] = 1 /\ data'[s].home = s /\ node'[s].state = "none"
      /\ \A x \in Server \ {s} : player'[x] = player[x] /\ data'[x] = data[x] /\ node'[x] = node[x]
  <2>1. Head(toMap[s]).login = 1
    <3>1. Receive(s, "auth ok")
        BY DEF ReceiveAuthOk
    <3>2. Head(toMap[s]) \in MapMsg /\ Head(toMap[s]).type = "auth ok"
        BY <3>1, ReceiveFacts
    <3> QED
        BY <3>2, MapMsgFacts, OneLogin
  <2>2. /\ player' = [player EXCEPT ![s] = 1] /\ node' = [node EXCEPT ![s] = NoNode]
        /\ data' = [data EXCEPT ![s] = [ver |-> Head(toMap[s]).data.ver, home |-> s]]
      BY <1>1, <2>1 DEF ReceiveAuthOk
  <2>3. player'[s] = 1 /\ \A x \in Server \ {s} : player'[x] = player[x]
      BY <2>2 DEF TInv, MapTyped
  <2>4. data'[s].home = s /\ \A x \in Server \ {s} : data'[x] = data[x]
      BY <2>2 DEF TInv, MapTyped
  <2>5. node'[s].state = "none" /\ \A x \in Server \ {s} : node'[x] = node[x]
      BY <2>2 DEF TInv, MapTyped, NoNode
  <2> QED
      BY <2>3, <2>4, <2>5
<1>3. PICK m : m = Head(toMap[s])
    OBVIOUS
<1>4. MapPop(s, m) /\ Kind(m) = "auth ok"
    BY <1>3, MapTaken DEF ReceiveAuthOk
<1>5. Has(toMap[s], "auth ok") /\ Asking(s)
    BY <1>4 DEF MapPop, Popped, Asking
<1>6. /\ ticket[1] = Spent /\ ~Has(toMap'[s], "auth ok") /\ ~Has(toChar[s], "auth")
      /\ \A x \in Server : player[x] = 0 /\ ~Moving(x) /\ (Asking(x) => x = s)
  <2>1. ~Moving(s) /\ \A x \in Server : ~Moving(x)
      BY <1>0 DEF MovesAlone
  <2>2. /\ ticket[1] = Spent /\ Once(toMap[s], "auth ok") /\ ~Has(toChar[s], "auth")
        /\ \A x \in Server : player[x] = 0 /\ (Asking(x) => x = s)
      BY <1>0, <1>5 DEF AsksAlone
  <2> QED
      BY <1>4, <2>1, <2>2 DEF MapPop, Popped
<1>7. at[1] = s /\ Busy(s) /\ \A x \in Server : Busy(x) => x = s
    BY <1>0 DEF Seats, Busy, BusyOnce
<1>8. \A x \in Server : (Busy(x)' => Busy(x)) /\ ~Moving(x)' /\ ~Asking(x)'
  <2>1. ASSUME NEW x \in Server PROVE ~Moving(x)' /\ ~Asking(x)'
      BY <1>1, <1>4, <1>6 DEF Moving, Asking, MapPop, Popped
  <2>2. ASSUME NEW x \in Server, x # s, Busy(x)' PROVE Busy(x)
      BY <1>1, <1>2, <2>2 DEF Busy
  <2> QED
      BY <1>7, <2>1, <2>2
<1>9. \A x \in Server \ {s} : node'[x].state = "none" /\ at[1] # x
    BY <1>2, <1>7 DEF Busy
<1>10. LinkHolds'
    BY <1>0, <1>1 DEF LinkHolds
<1>11. NotStarted'
    BY <1>0, <1>1 DEF NotStarted
<1>12. Seats'
  <2>1. ASSUME NEW x \in Server
        PROVE  /\ at'[1] = x => player'[x] # 0 \/ node'[x].state \in {"login", "change"}
               /\ data'[x].home = x
               /\ node'[x].state = "logout" => node'[x].data.home = x
               /\ node'[x].state = "change" => node'[x].data.home # x /\ Moving(x)'
               /\ node'[x].state \in {"login", "change"} => at'[1] = x /\ node'[x].login = 1
    <3>1. CASE x = s
        BY <1>2, <3>1
    <3>2. CASE x # s
        BY <1>0, <1>1, <1>2, <1>9, <3>2 DEF Seats
    <3> QED
        BY <3>1, <3>2
  <2> QED
      BY <1>1, <1>6, <2>1 DEF Seats
<1>13. OfflineIsDead'
    BY <1>0, <1>1 DEF OfflineIsDead
<1>14. BusyOnce'
    BY <1>0, <1>8 DEF BusyOnce
<1>15. BusyIsHome'
    BY <1>0, <1>1, <1>6, <1>8 DEF BusyIsHome
<1>16. MovesAlone'
    BY <1>8 DEF MovesAlone
<1>17. AsksAlone'
    BY <1>8 DEF AsksAlone
<1>18. MoveIsSaved'
  <2>1. \A x \in Server : ~Has(toMap'[x], "change ack") /\ node'[x].state # "change"
      BY <1>2, <1>8, <1>9 DEF Moving
  <2>2. \A x \in Server : Granted(toMap'[x])
      BY <1>0, <1>4 DEF MoveIsSaved, MapPop, Popped
  <2> QED
      BY <1>0, <1>1, <2>1, <2>2 DEF MoveIsSaved
<1>19. AskIsLast'
  <2>1. \A x \in Server : ~Has(toMap'[x], "auth ok")
      BY <1>8 DEF Asking
  <2>2. \A x \in Server : Ahead(toMap'[x], "charselect ok", "auth ok")
      BY <1>0, <1>4 DEF AskIsLast, MapPop, Popped
  <2> QED
      BY <1>0, <1>1, <2>1, <2>2 DEF AskIsLast
<1>20. PlayerKnown'
  <2>1. ~Has(toChar[s], "final") /\ entry.server = s /\ ~Has(toMap'[s], "charselect ok")
      BY <1>0, <1>4, <1>5 DEF AskIsLast, MapPop, Popped
  <2>2. \A x \in Server \ {s} : player'[x] = 0
      BY <1>2, <1>6
  <2> QED
      BY <1>1, <2>1, <2>2 DEF PlayerKnown
<1>21. SelectsOffline'
    BY <1>0, <1>1 DEF SelectsOffline
<1> QED
    BY <1>10, <1>11, <1>12, <1>13, <1>14, <1>15, <1>16, <1>17, <1>18, <1>19, <1>20, <1>21 DEF LoneInv

\* The answer finds no login to succeed.
LEMMA LoginGone ==
    ASSUME Lone, TInv, TInv', LoneInv, NEW s \in Server, ReceiveAuthOk(s), ~(node[s].state = "login" /\ player[s] = 0)
    PROVE  LoneInv'
<1>0. /\ LinkHolds /\ NotStarted /\ Seats /\ OfflineIsDead /\ BusyOnce /\ BusyIsHome
      /\ MovesAlone /\ AsksAlone /\ MoveIsSaved /\ AskIsLast /\ PlayerKnown /\ SelectsOffline
    BY DEF LoneInv
<1>1. UNCHANGED <<logins, ticket, at, selecting, entry, saved, player, data, node, up, toChar, losses>>
    BY DEF ReceiveAuthOk, charVars
<1>2. PICK m : m = Head(toMap[s])
    OBVIOUS
<1>3. MapPop(s, m) /\ Kind(m) = "auth ok"
    BY <1>2, MapTaken DEF ReceiveAuthOk
<1>4. \A x \in Server : (Busy(x)' <=> Busy(x)) /\ (Moving(x)' <=> Moving(x)) /\ (Asking(x)' => Asking(x))
    BY <1>1, <1>3 DEF Busy, Moving, Asking, MapPop, Popped
<1>5. LinkHolds'
    BY <1>0, <1>1 DEF LinkHolds
<1>6. NotStarted'
    BY <1>0, <1>1 DEF NotStarted
<1>7. Seats'
    BY <1>0, <1>1, <1>4 DEF Seats
<1>8. OfflineIsDead'
    BY <1>0, <1>1 DEF OfflineIsDead
<1>9. BusyOnce'
    BY <1>0, <1>4 DEF BusyOnce
<1>10. BusyIsHome'
    BY <1>0, <1>1, <1>4 DEF BusyIsHome
<1>11. MovesAlone'
    BY <1>0, <1>1, <1>3, <1>4 DEF MovesAlone, MapPop, Popped
<1>12. AsksAlone'
    BY <1>0, <1>1, <1>3, <1>4 DEF AsksAlone, MapPop, Popped
<1>13. MoveIsSaved'
    BY <1>0, <1>1, <1>3 DEF MoveIsSaved, MapPop, Popped
<1>14. AskIsLast'
    BY <1>0, <1>1, <1>3 DEF AskIsLast, MapPop, Popped
<1>15. PlayerKnown'
    BY <1>0, <1>1, <1>3 DEF PlayerKnown, MapPop, Popped
<1>16. SelectsOffline'
    BY <1>0, <1>1 DEF SelectsOffline
<1> QED
    BY <1>5, <1>6, <1>7, <1>8, <1>9, <1>10, <1>11, <1>12, <1>13, <1>14, <1>15, <1>16 DEF LoneInv

\* A player goes back to the selection, where the char server has it already.
LEMMA PlayerReturns ==
    ASSUME Lone, TInv, TInv', LoneInv, NEW s \in Server, ReceiveCharselectOk(s), player[s] # 0, at[player[s]] = s
    PROVE  LoneInv'
<1>0. /\ LinkHolds /\ NotStarted /\ Seats /\ OfflineIsDead /\ BusyOnce /\ BusyIsHome
      /\ MovesAlone /\ AsksAlone /\ MoveIsSaved /\ AskIsLast /\ PlayerKnown /\ SelectsOffline
    BY DEF LoneInv
<1>1. player[s] = 1 /\ at[1] = s
  <2>1. player[s] \in {0, 1}
      BY OneLogin DEF TInv, MapTyped
  <2> QED
      BY <2>1
<1>2. /\ UNCHANGED <<logins, selecting, entry, saved, player, data, node, up, toChar, losses>>
      /\ ticket'[1] = CharSrv /\ at'[1] = Nowhere
  <2>1. UNCHANGED <<logins, selecting, entry, saved, player, data, node, up, toChar, losses>>
      BY DEF ReceiveCharselectOk, charVars, maps
  <2>2. ticket' = [ticket EXCEPT ![1] = CharSrv] /\ at' = [at EXCEPT ![1] = Nowhere]
      BY <1>1 DEF ReceiveCharselectOk
  <2>3. ticket'[1] = CharSrv /\ at'[1] = Nowhere
      BY <2>2, OneLogin DEF TInv, ClientTyped
  <2> QED
      BY <2>1, <2>3
<1>3. PICK m : m = Head(toMap[s])
    OBVIOUS
<1>4. MapPop(s, m) /\ Kind(m) = "charselect ok" /\ Has(toMap[s], "charselect ok")
  <2>1. MapPop(s, m) /\ Kind(m) = "charselect ok"
      BY <1>3, MapTaken DEF ReceiveCharselectOk
  <2> QED
      BY <2>1 DEF MapPop, Popped
<1>5. /\ ticket[1] = Spent /\ Busy(s) /\ entry.server \notin Server
      /\ \A x \in Server : (Busy(x) => x = s) /\ ~Moving(x) /\ ~Asking(x) /\ ~Has(toChar[x], "offline")
  <2>1. ticket[1] = Spent /\ Busy(s) /\ entry.server \notin Server
      BY <1>0, <1>1, <1>4 DEF Seats, Busy, PlayerKnown
  <2>2. ASSUME NEW x \in Server PROVE ~Moving(x) /\ ~Asking(x)
      BY <1>0 DEF MovesAlone, AsksAlone
  <2>3. ASSUME NEW x \in Server PROVE ~Has(toChar[x], "offline") /\ (Busy(x) => x = s)
      BY <1>0, <1>1, <2>1, ServerAssumption DEF OfflineIsDead, BusyOnce, Nowhere
  <2> QED
      BY <2>1, <2>2, <2>3
<1>6. \A x \in Server : at'[1] # x /\ ticket'[1] # x /\ (Busy(x)' => Busy(x)) /\ ~Moving(x)' /\ ~Asking(x)'
  <2>1. \A x \in Server : at'[1] # x /\ ticket'[1] # x
      BY <1>2, ServerAssumption DEF Nowhere, CharSrv
  <2> QED
      BY <1>2, <1>4, <1>5, <2>1 DEF Busy, Moving, Asking, MapPop, Popped
<1>7. \A x \in Server : node[x].state \notin {"login", "change"}
  <2>1. node[s].state = "none"
      BY DEF TInv, OnePlace, NoNode
  <2>2. \A x \in Server \ {s} : node[x].state = "none"
      BY <1>5 DEF Busy
  <2> QED
      BY <2>1, <2>2
<1>8. LinkHolds'
    BY <1>0, <1>2 DEF LinkHolds
<1>9. NotStarted'
    BY <1>0, <1>2, <1>5 DEF NotStarted, Spent, Nowhere
<1>10. Seats'
  <2>1. ASSUME NEW x \in Server
        PROVE  /\ at'[1] = x => player'[x] # 0 \/ node'[x].state \in {"login", "change"}
               /\ data'[x].home = x
               /\ node'[x].state = "logout" => node'[x].data.home = x
               /\ node'[x].state = "change" => node'[x].data.home # x /\ Moving(x)'
               /\ node'[x].state \in {"login", "change"} => at'[1] = x /\ node'[x].login = 1
      BY <1>0, <1>2, <1>6, <1>7 DEF Seats
  <2> QED
      BY <1>6, <2>1 DEF Seats
<1>11. OfflineIsDead'
    BY <1>2, <1>5 DEF OfflineIsDead
<1>12. BusyOnce'
    BY <1>0, <1>6 DEF BusyOnce
<1>13. BusyIsHome'
    BY <1>0, <1>2, <1>5, <1>6 DEF BusyIsHome
<1>14. MovesAlone'
    BY <1>6 DEF MovesAlone
<1>15. AsksAlone'
    BY <1>6 DEF AsksAlone
<1>16. MoveIsSaved'
    BY <1>0, <1>2, <1>4 DEF MoveIsSaved, MapPop, Popped
<1>17. AskIsLast'
    BY <1>0, <1>2, <1>4 DEF AskIsLast, MapPop, Popped
<1>18. PlayerKnown'
    BY <1>0, <1>2, <1>6 DEF PlayerKnown
<1>19. SelectsOffline'
    BY <1>0, <1>2, <1>5 DEF SelectsOffline
<1> QED
    BY <1>8, <1>9, <1>10, <1>11, <1>12, <1>13, <1>14, <1>15, <1>16, <1>17, <1>18, <1>19 DEF LoneInv

\* The answer finds no player with a connection.
LEMMA ReturnGone ==
    ASSUME Lone, TInv, TInv', LoneInv, NEW s \in Server, ReceiveCharselectOk(s), ~(player[s] # 0 /\ at[player[s]] = s)
    PROVE  LoneInv'
<1>0. /\ LinkHolds /\ NotStarted /\ Seats /\ OfflineIsDead /\ BusyOnce /\ BusyIsHome
      /\ MovesAlone /\ AsksAlone /\ MoveIsSaved /\ AskIsLast /\ PlayerKnown /\ SelectsOffline
    BY DEF LoneInv
<1>1. UNCHANGED <<logins, ticket, at, selecting, entry, saved, player, data, node, up, toChar, losses>>
    BY DEF ReceiveCharselectOk, charVars, maps
<1>2. PICK m : m = Head(toMap[s])
    OBVIOUS
<1>3. MapPop(s, m) /\ Kind(m) = "charselect ok"
    BY <1>2, MapTaken DEF ReceiveCharselectOk
<1>4. \A x \in Server : (Busy(x)' <=> Busy(x)) /\ (Moving(x)' <=> Moving(x)) /\ (Asking(x)' <=> Asking(x))
    BY <1>1, <1>3 DEF Busy, Moving, Asking, MapPop, Popped
<1>5. LinkHolds'
    BY <1>0, <1>1 DEF LinkHolds
<1>6. NotStarted'
    BY <1>0, <1>1 DEF NotStarted
<1>7. Seats'
    BY <1>0, <1>1, <1>4 DEF Seats
<1>8. OfflineIsDead'
    BY <1>0, <1>1 DEF OfflineIsDead
<1>9. BusyOnce'
    BY <1>0, <1>4 DEF BusyOnce
<1>10. BusyIsHome'
    BY <1>0, <1>1, <1>4 DEF BusyIsHome
<1>11. MovesAlone'
    BY <1>0, <1>1, <1>3, <1>4 DEF MovesAlone, MapPop, Popped
<1>12. AsksAlone'
    BY <1>0, <1>1, <1>3, <1>4 DEF AsksAlone, MapPop, Popped
<1>13. MoveIsSaved'
    BY <1>0, <1>1, <1>3 DEF MoveIsSaved, MapPop, Popped
<1>14. AskIsLast'
    BY <1>0, <1>1, <1>3 DEF AskIsLast, MapPop, Popped
<1>15. PlayerKnown'
  <2>1. player[s] # 0 => at[1] # s
    <3>1. player[s] \in {0, 1}
        BY OneLogin DEF TInv, MapTyped
    <3> QED
        BY <3>1
  <2> QED
      BY <1>0, <1>1, <1>3, <2>1 DEF PlayerKnown, MapPop
<1>16. SelectsOffline'
    BY <1>0, <1>1 DEF SelectsOffline
<1> QED
    BY <1>5, <1>6, <1>7, <1>8, <1>9, <1>10, <1>11, <1>12, <1>13, <1>14, <1>15, <1>16 DEF LoneInv

\* A client is sent to the other map server: everything it left has been handled,
\* and the database has its new position.
LEMMA PlayerMoves ==
    ASSUME Lone, TInv, TInv', LoneInv, NEW s \in Server, ReceiveChangeAck(s), node[s].state = "change"
    PROVE  LoneInv'
<1>0. /\ LinkHolds /\ NotStarted /\ Seats /\ OfflineIsDead /\ BusyOnce /\ BusyIsHome
      /\ MovesAlone /\ AsksAlone /\ MoveIsSaved /\ AskIsLast /\ PlayerKnown /\ SelectsOffline
    BY DEF LoneInv
<1>1. PICK m : m = Head(toMap[s])
    OBVIOUS
<1>2. MapPop(s, m) /\ Kind(m) = "change ack" /\ m.type = "change ack" /\ Has(toMap[s], "change ack")
  <2>1. MapPop(s, m) /\ Kind(m) = "change ack" /\ m.type = "change ack"
      BY <1>1, MapTaken DEF ReceiveChangeAck
  <2> QED
      BY <2>1 DEF MapPop, Popped
<1>3. PICK h \in Server : h = node[s].data.home
    BY DEF TInv, MapTyped, Node, Data
<1>4. h # s /\ node[s].login = 1 /\ at[1] = s /\ saved.home = h /\ Moving(s) /\ Busy(s)
  <2>1. h # s /\ node[s].login = 1 /\ at[1] = s /\ Moving(s)
      BY <1>0, <1>3 DEF Seats
  <2>2. saved.home = h
      BY <1>0, <1>2, <1>3 DEF MoveIsSaved
  <2> QED
      BY <2>1, <2>2 DEF Busy
<1>5. /\ UNCHANGED <<logins, selecting, entry, saved, player, data, up, toChar, losses>>
      /\ ticket'[1] = h /\ at'[1] = Nowhere /\ node'[s].state = "none"
      /\ \A x \in Server \ {s} : node'[x] = node[x]
  <2>1. m.ok
      BY <1>0, <1>2 DEF MoveIsSaved, MapPop, Popped
  <2>2. UNCHANGED <<logins, selecting, entry, saved, player, data, up, losses>>
      BY DEF ReceiveChangeAck, charVars
  <2>3. /\ node' = [node EXCEPT ![s] = NoNode] /\ at' = [at EXCEPT ![1] = Nowhere]
        /\ ticket' = [ticket EXCEPT ![1] = h] /\ toChar' = toChar
      BY <1>1, <1>3, <1>4, <2>1 DEF ReceiveChangeAck
  <2>4. ticket'[1] = h /\ at'[1] = Nowhere
      BY <2>3, OneLogin DEF TInv, ClientTyped
  <2>5. node'[s].state = "none" /\ \A x \in Server \ {s} : node'[x] = node[x]
      BY <2>3 DEF TInv, MapTyped, NoNode
  <2> QED
      BY <2>2, <2>3, <2>4, <2>5
<1>6. /\ ticket[1] = Spent /\ ~Has(toMap'[s], "change ack") /\ ~Has(toChar[s], "change")
      /\ \A x \in Server : player[x] = 0 /\ (x # s => node[x].state = "none") /\ (Moving(x) => x = s)
      /\ \A x \in Server : ~Asking(x) /\ (Busy(x) => x = s) /\ ~Has(toChar[x], "offline")
  <2>1. /\ ticket[1] = Spent /\ Once(toMap[s], "change ack") /\ ~Has(toChar[s], "change")
        /\ \A x \in Server : player[x] = 0 /\ (Moving(x) => x = s)
      BY <1>0, <1>2, <1>4 DEF MovesAlone
  <2>2. ~Has(toMap'[s], "change ack")
      BY <1>2, <2>1 DEF MapPop, Popped
  <2>3. \A x \in Server : ~Asking(x)
      BY <1>0 DEF AsksAlone
  <2>4. \A x \in Server : Busy(x) => x = s
      BY <1>0, <1>4 DEF BusyOnce
  <2>5. \A x \in Server : x # s => node[x].state = "none"
      BY <2>4 DEF Busy
  <2>6. \A x \in Server : ~Has(toChar[x], "offline")
      BY <1>0, <1>4, ServerAssumption DEF OfflineIsDead, Nowhere
  <2> QED
      BY <2>1, <2>2, <2>3, <2>4, <2>5, <2>6
<1>7. /\ ~Has(toChar[s], "save") /\ ~Has(toChar[s], "final") /\ ~Has(toChar[s], "charselect")
      /\ ~Has(toChar[h], "save") /\ ~Has(toChar[h], "final")
    BY <1>0, <1>2, <1>4, <1>6 DEF MoveIsSaved, Busy
<1>8. \A x \in Server : at'[1] # x /\ (Busy(x)' => x = h) /\ ~Moving(x)' /\ ~Asking(x)' /\ node'[x].state = "none"
  <2>1. ASSUME NEW x \in Server PROVE at'[1] # x /\ node'[x].state = "none"
      BY <1>5, <1>6, ServerAssumption DEF Nowhere
  <2>2. ASSUME NEW x \in Server PROVE ~Moving(x)' /\ ~Asking(x)'
      BY <1>2, <1>5, <1>6 DEF Moving, Asking, MapPop, Popped
  <2>3. ~Busy(s)'
      BY <1>4, <1>5, <1>6, <1>7 DEF Busy
  <2>4. ASSUME NEW x \in Server, x # s, x # h PROVE ~Busy(x)'
      BY <1>5, <1>6, <2>4 DEF Busy
  <2> QED
      BY <2>1, <2>2, <2>3, <2>4
<1>9. LinkHolds'
    BY <1>0, <1>5 DEF LinkHolds
<1>10. NotStarted'
    BY <1>0, <1>5, <1>6 DEF NotStarted, Spent, Nowhere
<1>11. Seats'
  <2>1. ASSUME NEW x \in Server
        PROVE  /\ at'[1] = x => player'[x] # 0 \/ node'[x].state \in {"login", "change"}
               /\ data'[x].home = x
               /\ node'[x].state = "logout" => node'[x].data.home = x
               /\ node'[x].state = "change" => node'[x].data.home # x /\ Moving(x)'
               /\ node'[x].state \in {"login", "change"} => at'[1] = x /\ node'[x].login = 1
      BY <1>0, <1>5, <1>8 DEF Seats
  <2> QED
      BY <1>8, <2>1 DEF Seats
<1>12. OfflineIsDead'
    BY <1>5, <1>6 DEF OfflineIsDead
<1>13. BusyOnce'
    BY <1>8 DEF BusyOnce
<1>14. BusyIsHome'
    BY <1>4, <1>5, <1>7, <1>8, NoSaves DEF BusyIsHome
<1>15. MovesAlone'
    BY <1>8 DEF MovesAlone
<1>16. AsksAlone'
    BY <1>8 DEF AsksAlone
<1>17. MoveIsSaved'
  <2>1. \A x \in Server : ~Has(toMap'[x], "change ack")
      BY <1>8 DEF Moving
  <2>2. \A x \in Server : Granted(toMap'[x])
      BY <1>0, <1>2 DEF MoveIsSaved, MapPop, Popped
  <2> QED
      BY <1>0, <1>5, <1>8, <2>1, <2>2 DEF MoveIsSaved
<1>18. AskIsLast'
  <2>1. \A x \in Server : ~Has(toMap'[x], "auth ok")
      BY <1>8 DEF Asking
  <2>2. \A x \in Server : Ahead(toMap'[x], "charselect ok", "auth ok")
      BY <1>0, <1>2 DEF AskIsLast, MapPop, Popped
  <2> QED
      BY <1>0, <1>5, <2>1, <2>2 DEF AskIsLast
<1>19. PlayerKnown'
    BY <1>5, <1>6 DEF PlayerKnown
<1>20. SelectsOffline'
    BY <1>0, <1>5, ServerAssumption DEF SelectsOffline, Nowhere, CharSrv
<1> QED
    BY <1>9, <1>10, <1>11, <1>12, <1>13, <1>14, <1>15, <1>16, <1>17, <1>18, <1>19, <1>20 DEF LoneInv

\* The answer finds nobody who changes the server.
LEMMA MoveGone ==
    ASSUME Lone, TInv, TInv', LoneInv, NEW s \in Server, ReceiveChangeAck(s), node[s].state # "change"
    PROVE  LoneInv'
<1>0. /\ LinkHolds /\ NotStarted /\ Seats /\ OfflineIsDead /\ BusyOnce /\ BusyIsHome
      /\ MovesAlone /\ AsksAlone /\ MoveIsSaved /\ AskIsLast /\ PlayerKnown /\ SelectsOffline
    BY DEF LoneInv
<1>1. UNCHANGED <<logins, ticket, at, selecting, entry, saved, player, data, node, up, toChar, losses>>
    BY DEF ReceiveChangeAck, charVars
<1>2. PICK m : m = Head(toMap[s])
    OBVIOUS
<1>3. MapPop(s, m) /\ Kind(m) = "change ack"
    BY <1>2, MapTaken DEF ReceiveChangeAck
<1>4. Moving(s) /\ Has(toMap[s], "change ack") /\ \A x \in Server : Moving(x) => x = s
    BY <1>0, <1>3 DEF Moving, MovesAlone, MapPop, Popped
<1>5. \A x \in Server : (Busy(x)' <=> Busy(x)) /\ (Moving(x)' => Moving(x)) /\ (Asking(x)' <=> Asking(x))
    BY <1>1, <1>3 DEF Busy, Moving, Asking, MapPop, Popped
<1>6. ~Busy(s) /\ \A x \in Server \ {s} : node[x].state # "change"
  <2>1. player[s] = 0 /\ node[s].state = "none" /\ ticket[1] = Spent
      BY <1>0, <1>4 DEF MovesAlone
  <2>2. ~Has(toChar[s], "save") /\ ~Has(toChar[s], "final") /\ ~Has(toChar[s], "charselect")
      BY <1>0, <1>4 DEF MoveIsSaved
  <2>3. \A x \in Server \ {s} : node[x].state # "change"
      BY <1>0, <1>4 DEF Seats
  <2> QED
      BY <2>1, <2>2, <2>3, ServerAssumption DEF Busy, Spent
<1>7. LinkHolds'
    BY <1>0, <1>1 DEF LinkHolds
<1>8. NotStarted'
    BY <1>0, <1>1 DEF NotStarted
<1>9. Seats'
    BY <1>0, <1>1, <1>6 DEF Seats
<1>10. OfflineIsDead'
    BY <1>0, <1>1 DEF OfflineIsDead
<1>11. BusyOnce'
    BY <1>0, <1>5 DEF BusyOnce
<1>12. BusyIsHome'
    BY <1>0, <1>1, <1>4, <1>5, <1>6 DEF BusyIsHome
<1>13. MovesAlone'
    BY <1>0, <1>1, <1>3, <1>5 DEF MovesAlone, MapPop, Popped
<1>14. AsksAlone'
    BY <1>0, <1>1, <1>3, <1>5 DEF AsksAlone, MapPop, Popped
<1>15. MoveIsSaved'
    BY <1>0, <1>1, <1>3, <1>6 DEF MoveIsSaved, MapPop, Popped
<1>16. AskIsLast'
    BY <1>0, <1>1, <1>3 DEF AskIsLast, MapPop, Popped
<1>17. PlayerKnown'
    BY <1>0, <1>1, <1>3 DEF PlayerKnown, MapPop, Popped
<1>18. SelectsOffline'
    BY <1>0, <1>1 DEF SelectsOffline
<1> QED
    BY <1>7, <1>8, <1>9, <1>10, <1>11, <1>12, <1>13, <1>14, <1>15, <1>16, <1>17, <1>18 DEF LoneInv

\* A client arrives at a map server.
LEMMA MapConnectKeeps ==
    ASSUME Lone, TInv, TInv', LoneInv, NEW t \in Login, MapConnect(t)
    PROVE  LoneInv'
<1>1. t = 1
    BY OneLogin
<1> QED
    BY <1>1, EntryRefused, EntryAdmitted

\* A map server takes a packet that changes no more than its node.
LEMMA PlainTaken ==
    ASSUME TInv, NEW s \in Server, NEW type \in PlainAnswer, Receive(s, type)
    PROVE  AnswersStay
<1>1. PICK m : m = Head(toMap[s])
    OBVIOUS
<1>2. MapPop(s, m) /\ Kind(m) \in PlainAnswer
    BY <1>1, MapTaken DEF PlainAnswer
<1> QED
    BY <1>2, PlainAnswers

\* The player on a server is the one client and has no node there.
LEMMA LonePlayer ==
    ASSUME Lone, TInv, NEW s \in Server, player[s] # 0
    PROVE  player[s] = 1 /\ node[s] = NoNode
<1>1. player[s] \in {0, 1}
    BY OneLogin DEF TInv, MapTyped
<1> QED
    BY <1>1 DEF TInv, OnePlace

\* A connection has ended and the player, if there is one, stays.
LEMMA DropIsStep ==
    ASSUME Lone, TInv, LoneInv, NEW s \in Server, at[1] = s,
           UNCHANGED <<logins, ticket, selecting, entry, saved, player, data, up, losses>>,
           at' = [at EXCEPT ![1] = Nowhere],
           \/ node' = node /\ node[s].state \notin {"login", "change"}
           \/ node' = [node EXCEPT ![s] = NoNode] /\ node[s].state \in {"login", "change"},
           toChar' = toChar \/ toChar' = Post(toChar, s, [type |-> "offline"]),
           AnswersStay
    PROVE  DropStep
<1>0. LinkHolds /\ Seats
    BY DEF LoneInv
<1>1. at'[1] = Nowhere
    BY OneLogin DEF TInv, ClientTyped
<1>2. ASSUME NEW x \in Server
      PROVE  \/ node'[x] = node[x] /\ node[x].state \notin {"login", "change"}
             \/ node[x].state \in {"login", "change"} /\ node'[x].state = "none"
  <2>1. CASE x = s
      BY <2>1 DEF TInv, MapTyped, NoNode
  <2>2. CASE x # s
    <3>1. node[x].state \notin {"login", "change"}
        BY <1>0, <2>2 DEF Seats
    <3>2. node'[x] = node[x]
        BY <2>2 DEF TInv, MapTyped
    <3> QED
        BY <3>1, <3>2
  <2> QED
      BY <2>1, <2>2
<1>3. toChar' = toChar \/ CharPush(s, [type |-> "offline"])
    BY <1>0, CharPosted
<1> QED
    BY <1>1, <1>2, <1>3 DEF DropStep

\* The connection of a client to a map server ends.
LEMMA MapEofKeeps ==
    ASSUME Lone, TInv, TInv', LoneInv, NEW t \in Login, MapEof(t)
    PROVE  LoneInv'
<1>0. Seats
    BY DEF LoneInv
<1>1. t = 1
    BY OneLogin
<1>2. PICK s \in Server : s = at[1]
    BY <1>1 DEF MapEof
<1>3. /\ UNCHANGED <<logins, ticket, selecting, entry, saved, data, up, losses>> /\ toMap' = toMap
      /\ at' = [at EXCEPT ![1] = Nowhere]
    BY <1>1 DEF MapEof, charVars
<1>4. AnswersStay
    BY <1>3, PlainAnswers
<1>5. at'[1] = Nowhere /\ Nowhere # s
    BY <1>3, OneLogin, ServerAssumption DEF TInv, ClientTyped, Nowhere
<1>6. CASE player[s] = 1 /\ MapQuit(s)
  <2>1. QuitStep(s)
      BY <1>3, <1>4, <1>5, <1>6 DEF QuitStep, MapQuit
  <2> QED
      BY <2>1, LoneQuitKeeps
<1>7. CASE player[s] = 1 /\ UNCHANGED <<player, node, toChar>>
  <2>1. node[s].state \notin {"login", "change"}
      BY <1>7, LonePlayer DEF NoNode
  <2>2. DropStep
      BY <1>2, <1>3, <1>4, <1>7, <2>1, DropIsStep
  <2> QED
      BY <2>2, LoneDropKeeps
<1>8. CASE player[s] # 1
  <2>1. player[s] = 0
      BY <1>8, LonePlayer
  <2>2. node[s].state \in {"login", "change"}
      BY <1>0, <1>2, <2>1 DEF Seats
  <2>3. /\ node' = [node EXCEPT ![s] = IF @.state \in {"login", "change"} THEN NoNode ELSE @]
        /\ UNCHANGED <<player, toChar>>
      BY <1>1, <1>2, <1>8 DEF MapEof
  <2>4. node' = [node EXCEPT ![s] = NoNode]
      BY <2>2, <2>3
  <2>5. DropStep
      BY <1>2, <1>3, <1>4, <2>2, <2>3, <2>4, DropIsStep
  <2> QED
      BY <2>5, LoneDropKeeps
<1> QED
    BY <1>1, <1>2, <1>6, <1>7, <1>8 DEF MapEof

\* What a player does, and the end of one without a connection.
LEMMA PlayKeeps ==
    ASSUME Lone, TInv, TInv', LoneInv, NEW s \in Server,
           Play(s) \/ AutoSave(s) \/ Restart(s) \/ DelayQuit(s)
    PROVE  LoneInv'
<1>0. LinkHolds /\ Seats
    BY DEF LoneInv
<1>1. player[s] = 1 /\ data[s].home = s
  <2>1. player[s] # 0
      BY DEF Play, AutoSave, Restart, DelayQuit
  <2> QED
      BY <1>0, <2>1, LonePlayer DEF Seats
<1>2. CASE Play(s)
  <2>1. /\ UNCHANGED <<logins, ticket, at, selecting, entry, saved, player, node, up, toChar, toMap, losses>>
        /\ data' = [data EXCEPT ![s].ver = latest + 1]
      BY <1>2 DEF Play, client, charVars, links
  <2>2. \A x \in Server : data'[x].home = data[x].home
      BY <2>1 DEF TInv, MapTyped, Data
  <2>3. QuietStep
      BY <2>1, <2>2, PlainAnswers DEF QuietStep
  <2> QED
      BY <2>3, QuietKeeps
<1>3. CASE AutoSave(s)
  <2>1. PICK m : m = Save(data[s])
      OBVIOUS
  <2>2. m.type = "save" /\ m.data.home = s /\ Kind(m) = "save"
      BY <1>1, <2>1 DEF Save, Kind
  <2>3. CharPush(s, m)
      BY <1>0, <1>3, <2>1, CharPosted DEF AutoSave
  <2>4. PostStep(s, m)
      BY <1>1, <1>3, <2>2, <2>3 DEF AutoSave, client, charVars, maps, PostStep
  <2> QED
      BY <2>4, PostKeeps
<1>4. CASE Restart(s)
  <2>1. PICK m : m = [type |-> "charselect", login |-> player[s]]
      OBVIOUS
  <2>2. m.type = "charselect" /\ Kind(m) = "charselect"
      BY <2>1 DEF Kind
  <2>3. CharPush(s, m)
      BY <1>0, <1>4, <2>1, CharPosted DEF Restart
  <2>4. PostStep(s, m)
      BY <1>1, <1>4, <2>2, <2>3 DEF Restart, client, charVars, maps, PostStep
  <2> QED
      BY <2>4, PostKeeps
<1>5. CASE DelayQuit(s)
  <2>1. UNCHANGED <<logins, ticket, at, selecting, entry, saved, data, up, toMap, losses>> /\ at[1] # s
      BY <1>1, <1>5 DEF DelayQuit, client, charVars
  <2>2. AnswersStay
      BY <2>1, PlainAnswers
  <2>3. QuitStep(s)
      BY <1>1, <1>5, <2>1, <2>2 DEF DelayQuit, MapQuit, QuitStep
  <2> QED
      BY <2>3, LoneQuitKeeps
<1> QED
    BY <1>2, <1>3, <1>4, <1>5

\* auth_db_cleanup
LEMMA CleanupKeeps ==
    ASSUME Lone, TInv, TInv', LoneInv, NEW s \in Server, AuthDbCleanup(s)
    PROVE  LoneInv'
<1>0. LinkHolds /\ Seats
    BY DEF LoneInv
<1>1. UNCHANGED <<logins, ticket, selecting, entry, saved, player, data, up, toMap, losses>>
    BY DEF AuthDbCleanup, charVars
<1>2. CASE node[s].state = "logout"
  <2>1. PICK m : m = FinalSave(node[s].data)
      OBVIOUS
  <2>2. m.type = "save" /\ m.data.home = s /\ Kind(m) = "final"
      BY <1>0, <1>2, <2>1 DEF FinalSave, Kind, Seats
  <2>3. toChar' = Post(toChar, s, m) /\ UNCHANGED <<node, at>>
      BY <1>2, <2>1 DEF AuthDbCleanup
  <2>4. CharPush(s, m)
      BY <1>0, <2>3, CharPosted
  <2>5. player[s] = 0
      BY <1>2, LonePlayer DEF NoNode
  <2>6. PostStep(s, m)
      BY <1>1, <1>2, <2>2, <2>3, <2>4, <2>5 DEF PostStep
  <2> QED
      BY <2>6, PostKeeps
<1>3. CASE node[s].state \in {"login", "change"}
  <2>1. node[s].login = 1 /\ at[1] = s
      BY <1>0, <1>3 DEF Seats
  <2>2. /\ node' = [node EXCEPT ![s] = NoNode] /\ at' = [at EXCEPT ![1] = Nowhere]
        /\ toChar' = Post(toChar, s, [type |-> "offline"])
      BY <1>3, <2>1 DEF AuthDbCleanup
  <2>3. DropStep
      BY <1>1, <1>3, <2>1, <2>2, DropIsStep, PlainAnswers
  <2> QED
      BY <2>3, LoneDropKeeps
<1> QED
    BY <1>2, <1>3 DEF AuthDbCleanup

\* Packets of the char server that change no more than the node.
LEMMA PlainPacketKeeps ==
    ASSUME Lone, TInv, TInv', LoneInv, NEW s \in Server, ReceiveSaveAck(s) \/ ReceiveAuthFail(s) \/ ReceiveKick(s)
    PROVE  LoneInv'
<1>0. LinkHolds /\ Seats
    BY DEF LoneInv
<1>1. UNCHANGED <<logins, ticket, selecting, entry, saved, data, up, losses>>
    BY DEF ReceiveSaveAck, ReceiveAuthFail, ReceiveKick, client, charVars
<1>2. AnswersStay
  <2>1. Receive(s, "save ack") \/ Receive(s, "auth fail") \/ Receive(s, "kick")
      BY DEF ReceiveSaveAck, ReceiveAuthFail, ReceiveKick
  <2> QED
      BY <2>1, PlainTaken DEF PlainAnswer
<1>3. ASSUME UNCHANGED <<at, player, node, toChar>> PROVE LoneInv'
  <2>1. QuietStep
      BY <1>1, <1>2, <1>3 DEF QuietStep
  <2> QED
      BY <2>1, QuietKeeps
<1>4. CASE ReceiveSaveAck(s)
  <2>1. /\ UNCHANGED <<at, player, toChar>>
        /\ node' = [node EXCEPT ![s] = IF @.state = "logout" THEN NoNode ELSE @]
      BY <1>4 DEF ReceiveSaveAck, client
  <2>2. \A x \in Server : node'[x] = node[x] \/ (node[x].state = "logout" /\ node'[x].state = "none")
      BY <2>1 DEF TInv, MapTyped, NoNode
  <2>3. QuietStep
      BY <1>1, <1>2, <2>1, <2>2 DEF QuietStep
  <2> QED
      BY <2>3, QuietKeeps
<1>5. CASE ReceiveAuthFail(s)
  <2>1. Receive(s, "auth fail")
      BY <1>5 DEF ReceiveAuthFail
  <2>2. Head(toMap[s]).login = 1
    <3>1. Head(toMap[s]) \in MapMsg /\ Head(toMap[s]).type = "auth fail"
        BY <2>1, ReceiveFacts
    <3> QED
        BY <3>1, MapMsgFacts, OneLogin
  <2>3. CASE node[s].state = "login"
    <3>1. node[s].login = 1 /\ at[1] = s
        BY <1>0, <2>3 DEF Seats
    <3>2. /\ node' = [node EXCEPT ![s] = NoNode] /\ at' = [at EXCEPT ![1] = Nowhere]
          /\ UNCHANGED <<player, toChar>>
        BY <1>5, <2>2, <2>3, <3>1 DEF ReceiveAuthFail
    <3>3. DropStep
        BY <1>1, <1>2, <2>3, <3>1, <3>2, DropIsStep
    <3> QED
        BY <3>3, LoneDropKeeps
  <2>4. CASE node[s].state # "login"
    <3>1. UNCHANGED <<at, player, node, toChar>>
      <4>1. UNCHANGED <<at, player, toChar>> /\ node' = [node EXCEPT ![s] = node[s]]
          BY <1>5, <2>4 DEF ReceiveAuthFail
      <4> QED
          BY <4>1 DEF TInv, MapTyped
    <3> QED
        BY <1>3, <3>1
  <2> QED
      BY <2>3, <2>4
<1>6. CASE ReceiveKick(s)
  <2>1. CASE player[s] # 0 /\ at[player[s]] = s
    <3>1. player[s] = 1 /\ at[1] = s /\ node[s].state = "none"
        BY <2>1, LonePlayer DEF NoNode
    <3>2. at' = [at EXCEPT ![1] = Nowhere] /\ (MapQuit(s) \/ UNCHANGED <<player, node, toChar>>)
        BY <1>6, <2>1, <3>1 DEF ReceiveKick
    <3>3. at'[1] = Nowhere /\ Nowhere # s
        BY <3>2, OneLogin, ServerAssumption DEF TInv, ClientTyped, Nowhere
    <3>4. CASE MapQuit(s)
      <4>1. QuitStep(s)
          BY <1>1, <1>2, <2>1, <3>3, <3>4 DEF QuitStep, MapQuit
      <4> QED
          BY <4>1, LoneQuitKeeps
    <3>5. CASE UNCHANGED <<player, node, toChar>>
      <4>1. DropStep
          BY <1>1, <1>2, <3>1, <3>2, <3>5, DropIsStep
      <4> QED
          BY <4>1, LoneDropKeeps
    <3> QED
        BY <3>2, <3>4, <3>5
  <2>2. CASE player[s] = 0 /\ node[s].state = "login"
    <3>1. node[s].login = 1 /\ at[1] = s
        BY <1>0, <2>2 DEF Seats
    <3>2. /\ node' = [node EXCEPT ![s] = NoNode] /\ at' = [at EXCEPT ![1] = Nowhere]
          /\ UNCHANGED <<player, toChar>>
        BY <1>6, <2>2, <3>1 DEF ReceiveKick
    <3>3. DropStep
        BY <1>1, <1>2, <2>2, <3>1, <3>2, DropIsStep
    <3> QED
        BY <3>3, LoneDropKeeps
  <2>3. CASE ~(player[s] # 0 /\ at[player[s]] = s) /\ ~(player[s] = 0 /\ node[s].state = "login")
    <3>1. UNCHANGED <<at, player, node, toChar>>
        BY <1>6, <2>3 DEF ReceiveKick
    <3> QED
        BY <1>3, <3>1
  <2> QED
      BY <2>1, <2>2, <2>3
<1> QED
    BY <1>4, <1>5, <1>6

\* Nothing is lost, so that nothing has to come back.
LEMMA NothingLost ==
    ASSUME Lone, TInv, LoneInv, NEW s \in Server
    PROVE  ~LinkLost(s) /\ ~CharRestart /\ ~LinkReady(s) /\ ~HandleUsers(s)
<1>0. losses = 0 /\ up[s] /\ ~Has(toChar[s], "users")
    BY DEF LoneInv, LinkHolds
<1>1. ~(losses < MaxLosses)
    BY <1>0 DEF Lone
<1>2. ~LinkLost(s) /\ ~CharRestart
    BY <1>1 DEF LinkLost, CharRestart, LinkDown
<1>3. ~LinkReady(s)
    BY <1>0 DEF LinkReady
<1>4. ASSUME Take(s, "users") PROVE FALSE
  <2>1. PICK m : m = Head(toChar[s])
      OBVIOUS
  <2>2. CharPop(s, m) /\ Kind(m) = "users"
      BY <1>4, <2>1, CharTaken
  <2> QED
      BY <1>0, <2>2 DEF CharPop, Popped
<1>5. ~HandleUsers(s)
    BY <1>4 DEF HandleUsers
<1> QED
    BY <1>2, <1>3, <1>5

\* The invariant holds at the start.
LEMMA LoneInit == ASSUME Lone PROVE Init => LoneInv
<1> SUFFICES ASSUME Init PROVE LoneInv
    OBVIOUS
<1>1. /\ ticket[1] = Nowhere /\ at[1] = Nowhere /\ logins = 0 /\ selecting = {} /\ losses = 0
      /\ ~entry.waiting /\ entry.server = Offline
    BY OneLogin DEF Init, NoEntry
<1>2. \A s \in Server : /\ toChar[s] = <<>> /\ toMap[s] = <<>> /\ player[s] = 0 /\ node[s].state = "none"
                        /\ up[s] = TRUE /\ data[s].home = s
    BY DEF Init, NoNode
<1>3. /\ \A k : ~Has(<<>>, k) /\ Once(<<>>, k)
      /\ \A k, l : Ahead(<<>>, k, l)
      /\ Granted(<<>>)
  <2>1. DOMAIN <<>> = {}
      OBVIOUS
  <2> QED
      BY <2>1 DEF Has, Once, Ahead, Granted
<1>4. \A s \in Server : /\ at[1] # s /\ ticket[1] # s
                        /\ ~Has(toChar[s], "users") /\ ~Has(toChar[s], "offline")
    BY <1>1, <1>2, <1>3, ServerAssumption DEF Nowhere
<1>5. \A s \in Server : ~Busy(s) /\ ~Moving(s) /\ ~Asking(s)
    BY <1>2, <1>3, <1>4 DEF Busy, Moving, Asking
<1>6. LinkHolds /\ NotStarted /\ OfflineIsDead
    BY <1>1, <1>2, <1>4 DEF LinkHolds, NotStarted, OfflineIsDead
<1>7. Seats
    BY <1>2, <1>4 DEF Seats
<1>8. BusyOnce /\ BusyIsHome /\ MovesAlone /\ AsksAlone
    BY <1>5 DEF BusyOnce, BusyIsHome, MovesAlone, AsksAlone
<1>9. MoveIsSaved /\ AskIsLast /\ PlayerKnown
    BY <1>2, <1>3 DEF MoveIsSaved, AskIsLast, PlayerKnown
<1>10. SelectsOffline
    BY <1>1, ServerAssumption DEF SelectsOffline, Offline
<1> QED
    BY <1>6, <1>7, <1>8, <1>9, <1>10 DEF LoneInv

\* Every step keeps it.
LEMMA LoneStep == ASSUME Lone PROVE TInv /\ TInv' /\ LoneInv /\ [Next]_vars => LoneInv'
<1> SUFFICES ASSUME TInv, TInv', LoneInv, [Next]_vars PROVE LoneInv'
    OBVIOUS
<1>1. CASE UNCHANGED vars
  <2>1. QuietStep
      BY <1>1, PlainAnswers DEF vars, client, charVars, maps, links, QuietStep
  <2> QED
      BY <2>1, QuietKeeps
<1>2. CASE Connect \/ AskKick \/ WaitingDisconnect \/ OnlineDataCleanup
    BY <1>2, SelectSteps, SelectKeeps
<1>3. ASSUME NEW t \in Login, ClientStep(t) PROVE LoneInv'
  <2>1. CASE Reconnect(t) \/ CharEof(t)
    <3>1. \E x \in Login : Reconnect(x) \/ CharEof(x)
        BY <2>1
    <3> QED
        BY <3>1, SelectSteps, SelectKeeps
  <2>2. CASE \E s \in Server : CharSelect(t, s)
      BY <2>2, CharSelectKeeps
  <2>3. CASE MapConnect(t) \/ MapEof(t)
      BY <2>3, MapConnectKeeps, MapEofKeeps
  <2> QED
      BY <1>3, <2>1, <2>2, <2>3 DEF ClientStep
<1>4. ASSUME NEW s \in Server, PlayerStep(s) \/ DelayQuit(s) \/ AuthDbCleanup(s) PROVE LoneInv'
    BY <1>4, PlayKeeps, LeaveKeeps, CleanupKeeps DEF PlayerStep
<1>5. ASSUME NEW s \in Server, CharPacket(s) PROVE LoneInv'
    BY <1>5, NothingLost, SaveHandledKeeps, CharselectKeeps, ChangeKeeps, OfflineKeeps, LoginGranted, LoginRefused
       DEF CharPacket
<1>6. ASSUME NEW s \in Server, MapPacket(s) PROVE LoneInv'
    BY <1>6, PlayerEnters, LoginGone, PlayerReturns, ReturnGone, PlayerMoves, MoveGone, PlainPacketKeeps DEF MapPacket
<1>7. ASSUME NEW s \in Server PROVE ~LinkLost(s) /\ ~LinkReady(s) /\ ~CharRestart
    BY NothingLost
<1> QED
    BY <1>1, <1>2, <1>3, <1>4, <1>5, <1>6, <1>7, SessionBounds DEF Next

\* With one client and links that hold, the character is in the game on one map
\* server at most, for any number of map servers, of changes between them, of
\* returns to the selection and of timeouts: a map server lets a player go
\* (pc_setpos, map_quit) before a client gets the address of another one, and the
\* char server sends it only where the last save that reached it says.
THEOREM PlayerIsAlone ==
    ASSUME MaxLogins = 1, MaxLosses = 0
    PROVE  Spec => []OneActive
<1>0. Lone
    BY DEF Lone
<1>1. LoneInv => OneActive
    BY DEF LoneInv, BusyOnce, Busy, OneActive
<1> QED
    BY <1>0, <1>1, TypeInit, TypeStep, LoneInit, LoneStep, PTL DEF Spec

\* With one client and links that hold, online_char_db has the map server of a
\* connected player when nothing is under way: no final save, no return to the
\* selection and no request given up (chmapif_parse_setcharoffline) is handled
\* after the login that made the player active.
THEOREM PlayerIsKnown ==
    ASSUME MaxLogins = 1, MaxLosses = 0
    PROVE  Spec => []CharKnowsPlayer
<1>0. Lone
    BY DEF Lone
<1>1. TInv /\ LoneInv => CharKnowsPlayer
  <2> SUFFICES ASSUME TInv, LoneInv, NEW s \in Server, player[s] # 0, at[player[s]] = s, Quiet
               PROVE  entry.server = s
      BY DEF CharKnowsPlayer
  <2>1. player[s] = 1 /\ PlayerKnown
      BY <1>0, LonePlayer DEF LoneInv
  <2>2. toMap[s] = <<>>
      BY DEF Quiet
  <2>3. ~Has(toMap[s], "charselect ok")
      BY <2>2 DEF Has
  <2> QED
      BY <2>1, <2>3 DEF PlayerKnown
<1> QED
    BY <1>0, <1>1, TypeInit, TypeStep, LoneInit, LoneStep, PTL DEF Spec
=============================================================================
