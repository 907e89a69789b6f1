------------------------------ MODULE Sessions ------------------------------
(***************************************************************************)
(* One account with one character on its way through the char server and   *)
(* the map servers (char.cpp, char_clif.cpp, char_mapif.cpp; chrif.cpp,    *)
(* clif.cpp, map.cpp): character selection, authentication by a map        *)
(* server, saving, change of the map server, return to the selection,      *)
(* kicks, timeouts and lost connections between the servers.               *)
(*                                                                         *)
(* A server is single-threaded and handles one packet at a time.  Links    *)
(* between servers are TCP: FIFO, and what is under way is lost with the   *)
(* connection.  The data of the character is a version number and the map  *)
(* server of its position.  A login is a number (login_id1); each one is a *)
(* new client, the login server has accepted it.  Timers fire at any time  *)
(* after they were set.                                                    *)
(***************************************************************************)
EXTENDS Integers, Sequences, FiniteSets

CONSTANTS
    Server,       \* the map servers
    Home,         \* where the character stands at the start
    MaxLogins,    \* bound on the logins
    MaxVersion,   \* bound on the changes of the data
    MaxLosses,    \* bound on lost connections and restarts of the char server
    MaxQueue      \* bound on packets under way to and from a map server,
                  \* for steps that no packet or connection forces

ASSUME SessionBounds ==
    /\ Home \in Server
    /\ MaxLogins \in Nat /\ MaxVersion \in Nat /\ MaxLosses \in Nat /\ MaxQueue \in Nat \ {0}

VARIABLES
    \* clients
    logins,     \* number of logins so far
    ticket,     \* [login -> the server the client was sent to]
    at,         \* [login -> the map server it is connected to]
    \* char server
    selecting,  \* authenticated logins connected to the char server
    entry,      \* online_char_db[account]
    auth,       \* auth_db[account]
    saved,      \* the data in the database
    \* map servers
    player,     \* [server -> login of the active player or 0]
    data,       \* [server -> data of that player]
    node,       \* [server -> auth_db[account] of the map server]
    \* links
    up,         \* [server -> connected]
    toChar, toMap,
    losses,
    latest      \* history: the newest version any map server has made

client == <<logins, ticket, at>>
charVars == <<selecting, entry, auth, saved>>
maps   == <<player, data, node, latest>>
links  == <<up, toChar, toMap, losses>>
vars   == <<client, charVars, maps, links>>

Login    == 1..MaxLogins
Nowhere  == "nowhere"      \* a client without a connection or a destination
CharSrv  == "char server"
Spent    == "spent"        \* a client that has gone where it was sent
Offline  == "offline"      \* server -1
Unknown  == "unknown"      \* server -2: moving, or on a map server out of reach
ASSUME ServerAssumption == Server \cap {Nowhere, CharSrv, Spent, Offline, Unknown} = {}

NoAuth   == [login |-> 0, char |-> FALSE]
NoNode   == [state |-> "none", login |-> 0, data |-> [ver |-> 0, home |-> Home]]
NoEntry  == [known |-> FALSE, char |-> FALSE, server |-> Offline, waiting |-> FALSE, fd |-> 0]

\* Packets to a server that is not connected are not written.
Post(q, s, m) == [q EXCEPT ![s] = IF up[s] THEN Append(@, m) ELSE @]
Room(s)       == Len(toChar[s]) + Len(toMap[s]) < MaxQueue
Kick          == [type |-> "kick"]

-----------------------------------------------------------------------------
\* char_set_charselect
SetCharselect(e) ==
    [known |-> TRUE, char |-> FALSE, server |-> Offline, waiting |-> FALSE, fd |-> e.fd]

\* Mutant of SetOnline: who is online already stays where it was.
SetOnlineOnce(e, s) ==
    [known |-> TRUE, char |-> TRUE, server |-> IF e.char THEN e.server ELSE s, waiting |-> FALSE, fd |-> e.fd]

\* char_set_char_online
SetOnline(e, s) ==
    [known |-> TRUE, char |-> TRUE, server |-> s, waiting |-> FALSE, fd |-> e.fd]

\* It kicks the player from another map server.
OnlineConflict(e, s) == e.char /\ e.server \in Server /\ e.server # s

\* char_set_char_offline for the character (char = TRUE) or the account.
SetOffline(e, char) ==
    IF e.char = char THEN [e EXCEPT !.waiting = FALSE, !.char = FALSE, !.server = Offline]
                     ELSE [e EXCEPT !.waiting = FALSE]

\* char_auth_ok: kick a player who is on a map server and refuse, refuse next
\* to another connection, or let the client select.  The connection is only
\* noted in an entry that existed.
AuthOk(t) ==
    IF entry.known /\ entry.server \in Server
    THEN /\ toMap' = Post(toMap, entry.server, Kick)
         /\ entry' = [entry EXCEPT !.waiting = TRUE]
         /\ UNCHANGED selecting
    ELSE /\ \/ /\ entry.known /\ entry.fd \in selecting \ {t}
               /\ UNCHANGED <<selecting, entry>>
            \/ /\ ~(entry.known /\ entry.fd \in selecting \ {t})
               /\ selecting' = selecting \cup {t}
               /\ entry' = SetCharselect([entry EXCEPT !.fd = IF entry.known THEN t ELSE 0])
         /\ UNCHANGED toMap

\* A new client arrives, chlogif_parse_ackaccreq with result 0.
Connect ==
    /\ logins < MaxLogins
    /\ entry.server \in Server => Room(entry.server)
    /\ logins' = logins + 1
    /\ AuthOk(logins + 1)
    /\ UNCHANGED <<ticket, at, auth, saved, maps, up, toChar, losses>>

\* chclif_parse_reqtoconnect of a client that comes back from a map server.
\* Without its auth node the login server would be asked, which has used up
\* the login already.
Reconnect(t) ==
    /\ ticket[t] = CharSrv
    /\ entry.server \in Server => Room(entry.server)
    /\ ticket' = [ticket EXCEPT ![t] = Nowhere]
    /\ IF auth.login = t
       THEN auth' = NoAuth /\ AuthOk(t)
       ELSE UNCHANGED <<auth, selecting, entry, toMap>>
    /\ UNCHANGED <<logins, at, saved, maps, up, toChar, losses>>

\* chclif_parse_charselect, chclif_parse_select_accessible_map: the client is
\* sent to the map server of the saved position or, if that one is not
\* connected, to one with an accessible map.
CharSelect(t, s) ==
    /\ t \in selecting /\ ticket[t] = Nowhere
    /\ up[s] /\ (s = saved.home \/ ~up[saved.home])
    /\ OnlineConflict(entry, Unknown) => Room(entry.server)
    /\ toMap' = IF OnlineConflict(entry, Unknown) THEN Post(toMap, entry.server, Kick) ELSE toMap
    /\ entry' = SetOnline(entry, Unknown)
    /\ auth' = [login |-> t, char |-> TRUE]
    /\ ticket' = [ticket EXCEPT ![t] = s]
    /\ UNCHANGED <<logins, at, selecting, saved, maps, up, toChar, losses>>

\* The connection of a client to the char server ends (chclif_parse, eof).
CharEof(t) ==
    LET e == [entry EXCEPT !.fd = IF @ = t THEN 0 ELSE @]
    IN  /\ t \in selecting
        /\ selecting' = selecting \ {t}
        /\ entry' = IF e.server = Offline THEN SetOffline(e, FALSE) ELSE e
        /\ UNCHANGED <<client, auth, saved, maps, links>>

\* chlogif_parse_askkick: the login server reports a second login.
AskKick ==
    /\ logins < MaxLogins
    /\ entry.known
    /\ auth' = NoAuth
    /\ IF entry.server \in Server
       THEN /\ Room(entry.server)
            /\ toMap' = Post(toMap, entry.server, Kick)
            /\ entry' = [entry EXCEPT !.waiting = TRUE]
            /\ UNCHANGED selecting
       ELSE \/ /\ selecting = {}
               /\ entry' = SetOffline(entry, FALSE)
               /\ UNCHANGED <<selecting, toMap>>
            \/ \E t \in selecting :
                  LET e == [entry EXCEPT !.fd = IF @ = t THEN 0 ELSE @]
                  IN  /\ selecting' = selecting \ {t}
                      /\ entry' = IF e.server = Offline THEN SetOffline(e, FALSE) ELSE e
                      /\ UNCHANGED toMap
    /\ UNCHANGED <<client, saved, maps, up, toChar, losses>>

\* char_chardb_waiting_disconnect
WaitingDisconnect ==
    /\ entry.waiting
    /\ entry' = SetOffline(entry, entry.char)
    /\ UNCHANGED <<client, selecting, auth, saved, maps, links>>

\* char_online_data_cleanup
OnlineDataCleanup ==
    /\ entry.known /\ entry.fd = 0 /\ entry.server \notin Server
    /\ entry' = NoEntry
    /\ UNCHANGED <<client, selecting, auth, saved, maps, links>>

-----------------------------------------------------------------------------
\* The char server takes the next packet of map server s.
Take(s, type) ==
    /\ toChar[s] # <<>> /\ Head(toChar[s]).type = type
    /\ toChar' = [toChar EXCEPT ![s] = Tail(@)]

\* What a save does to the entry, and its reply.
SaveHandled(s, final) ==
    IF final
    THEN /\ entry' = SetOffline(entry, TRUE)
         /\ toMap' = Post(toMap, s, [type |-> "save ack"])
    ELSE UNCHANGED <<entry, toMap>>

\* Mutant of HandleSave: a character that is not online is not saved.
HandleSaveOnline(s) ==
    LET m == Head(toChar[s])
    IN  /\ Take(s, "save")
        /\ saved' = IF entry.char THEN m.data ELSE saved
        /\ SaveHandled(s, m.final)
        /\ UNCHANGED <<client, selecting, auth, maps, up, losses>>

\* chmapif_parse_reqsavechar.  The byte it tests beside the final flag is the
\* first one of the data, part of the character's id and almost never 0, so
\* that every save is accepted.
HandleSave(s) ==
    LET m == Head(toChar[s])
    IN  /\ Take(s, "save")
        /\ saved' = m.data
        /\ SaveHandled(s, m.final)
        /\ UNCHANGED <<client, selecting, auth, maps, up, losses>>

\* chmapif_parse_authok: a player returns to the character selection.
HandleCharselect(s) ==
    LET m == Head(toChar[s])
    IN  /\ Take(s, "charselect")
        /\ auth' = [login |-> m.login, char |-> FALSE]
        /\ entry' = SetCharselect(entry)
        /\ toMap' = Post(toMap, s, [type |-> "charselect ok"])
        /\ UNCHANGED <<client, selecting, saved, maps, up, losses>>

\* chmapif_parse_reqchangemapserv
HandleChange(s) ==
    LET m == Head(toChar[s])
        ok == up[m.dest]
    IN  /\ Take(s, "change")
        /\ toMap' = Post(toMap, s, [type |-> "change ack", ok |-> ok])
        /\ IF ok
           THEN /\ auth' = [login |-> m.login, char |-> TRUE]
                /\ entry' = [entry EXCEPT !.known = TRUE, !.char = TRUE, !.server = m.dest]
           ELSE UNCHANGED <<auth, entry>>
        /\ UNCHANGED <<client, selecting, saved, maps, up, losses>>

\* chmapif_parse_setcharoffline
HandleOffline(s) ==
    /\ Take(s, "offline")
    /\ entry' = SetOffline(entry, TRUE)
    /\ UNCHANGED <<client, selecting, auth, saved, maps, up, toMap, losses>>

\* chmapif_parse_reqauth: a map server asks for the data of the character.
HandleAuth(s) ==
    LET m == Head(toChar[s])
        kicked == OnlineConflict(entry, s)
        reply(r) == [toMap EXCEPT ![s] = Append(@, r)]
    IN  /\ Take(s, "auth")
        /\ IF auth = [login |-> m.login, char |-> TRUE]
           THEN /\ toMap' = LET q == reply([type |-> "auth ok", login |-> m.login, data |-> saved])
                            IN  IF kicked THEN Post(q, entry.server, Kick) ELSE q
                /\ auth' = NoAuth
                /\ entry' = SetOnline(entry, s)
           ELSE /\ toMap' = reply([type |-> "auth fail", login |-> m.login])
                /\ UNCHANGED <<auth, entry>>
        /\ UNCHANGED <<client, selecting, saved, maps, up, losses>>

\* chmapif_parse_regmapuser: all players of a map server that is back.
HandleUsers(s) ==
    LET m == Head(toChar[s])
        e == [entry EXCEPT !.server = IF @ = s THEN Unknown ELSE @]
    IN  /\ Take(s, "users")
        /\ IF m.online
           THEN /\ toMap' = IF e.known /\ e.server \in Server THEN Post(toMap, e.server, Kick) ELSE toMap
                /\ entry' = [e EXCEPT !.known = TRUE, !.char = TRUE, !.server = s]
           ELSE /\ entry' = e
                /\ UNCHANGED toMap
        /\ UNCHANGED <<client, selecting, auth, saved, maps, up, losses>>

-----------------------------------------------------------------------------
Save(d)             == [type |-> "save", data |-> d, final |-> FALSE]
FinalSave(d)        == [type |-> "save", data |-> d, final |-> TRUE]
ChangeRequest(t, d) == [type |-> "change", login |-> t, dest |-> d]
Moved(s, d)         == [ver |-> data[s].ver, home |-> d]

\* Mutant of Blocked: an active player is not looked for.
BlockedByNode(s) == node[s].state \in {"logout", "change"}

\* clif_parse_WantToConnection: "still recognizes last connection".
Blocked(s) == player[s] # 0 \/ node[s].state \in {"logout", "change"}

\* clif_parse_WantToConnection and chrif_authreq.  A second login of the
\* character gets past the first test and is cut off by the second.
MapConnect(t) ==
    LET s == ticket[t]
    IN  /\ s \in Server
        /\ ticket' = [ticket EXCEPT ![t] = Spent]
        /\ IF Blocked(s)
           THEN UNCHANGED <<at, node, toChar>>
           ELSE /\ at' = [at EXCEPT ![t] = s]
                /\ IF node[s].state = "none" /\ up[s]
                   THEN /\ node' = [node EXCEPT ![s] = [NoNode EXCEPT !.state = "login", !.login = t]]
                        /\ toChar' = Post(toChar, s, [type |-> "auth", login |-> t])
                   ELSE UNCHANGED <<node, toChar>>
        /\ UNCHANGED <<logins, charVars, player, data, latest, up, toMap, losses>>

\* map_quit of the active player: chrif_save moves it to the auth_db, where it
\* stays until the final save is acknowledged.
MapQuit(s) ==
    /\ player' = [player EXCEPT ![s] = 0]
    /\ node' = [node EXCEPT ![s] = [state |-> "logout", login |-> player[s], data |-> data[s]]]
    /\ toChar' = Post(toChar, s, FinalSave(data[s]))

\* The connection of a client to a map server ends (clif_parse, eof).  An
\* active player may stay for a while (prevent_logout); one that is not active
\* takes along a login or map change under way, without a word to the char
\* server.
MapEof(t) ==
    LET s == at[t]
    IN  /\ s \in Server
        /\ at' = [at EXCEPT ![t] = Nowhere]
        /\ IF player[s] = t
           THEN MapQuit(s) \/ UNCHANGED <<player, node, toChar>>
           ELSE /\ node' = [node EXCEPT ![s] = IF @.state \in {"login", "change"} THEN NoNode ELSE @]
                /\ UNCHANGED <<player, toChar>>
        /\ UNCHANGED <<logins, ticket, charVars, data, latest, up, toMap, losses>>

\* clif_delayquit, or the end of a connection the client has closed.
DelayQuit(s) ==
    /\ player[s] # 0 /\ at[player[s]] # s
    /\ MapQuit(s)
    /\ UNCHANGED <<client, charVars, data, latest, up, toMap, losses>>

\* Something happens to the character.
Play(s) ==
    /\ player[s] # 0
    /\ latest < MaxVersion
    /\ latest' = latest + 1
    /\ data' = [data EXCEPT ![s].ver = latest + 1]
    /\ UNCHANGED <<client, charVars, player, node, links>>

\* chrif_save without a final flag, by the autosave timer.
AutoSave(s) ==
    /\ player[s] # 0
    /\ up[s] /\ Room(s)
    /\ toChar' = Post(toChar, s, Save(data[s]))
    /\ UNCHANGED <<client, charVars, maps, up, toMap, losses>>

\* clif_parse_Restart, chrif_charselectreq
Restart(s) ==
    /\ player[s] # 0 /\ at[player[s]] = s
    /\ up[s] /\ Room(s)
    /\ toChar' = Post(toChar, s, [type |-> "charselect", login |-> player[s]])
    /\ UNCHANGED <<client, charVars, maps, up, toMap, losses>>

\* pc_setpos to a map of another server.  Positions on other servers are known
\* while the char server is connected.
Leaves(s, d, packets) ==
    /\ player[s] # 0 /\ at[player[s]] = s /\ d # s
    /\ up[s] /\ up[d] /\ Room(s)
    /\ player' = [player EXCEPT ![s] = 0]
    /\ node' = [node EXCEPT ![s] = [state |-> "change", login |-> player[s], data |-> Moved(s, d)]]
    /\ toChar' = [toChar EXCEPT ![s] = @ \o packets]
    /\ UNCHANGED <<client, charVars, data, latest, up, toMap, losses>>

\* Mutant of ChangeServer: the request overtakes the save.
ChangeServerUnsaved(s, d) == Leaves(s, d, << ChangeRequest(player[s], d), Save(Moved(s, d)) >>)

\* Mutant of ChangeServer: the save comes before the new position is assigned.
ChangeServerOldPlace(s, d) == Leaves(s, d, << Save(data[s]), ChangeRequest(player[s], d) >>)

\* chrif_save with the new position, then chrif_changemapserver.
ChangeServer(s, d) == Leaves(s, d, << Save(Moved(s, d)), ChangeRequest(player[s], d) >>)

\* auth_db_cleanup: repeat the final save, give up everything else.
AuthDbCleanup(s) ==
    /\ up[s] /\ Room(s)
    /\ \/ /\ node[s].state = "logout"
          /\ toChar' = Post(toChar, s, FinalSave(node[s].data))
          /\ UNCHANGED <<node, at>>
       \/ /\ node[s].state \in {"login", "change"}
          /\ toChar' = Post(toChar, s, [type |-> "offline"])
          /\ node' = [node EXCEPT ![s] = NoNode]
          /\ at' = [at EXCEPT ![node[s].login] = Nowhere]
    /\ UNCHANGED <<logins, ticket, charVars, player, data, latest, up, toMap, losses>>

-----------------------------------------------------------------------------
\* Map server s takes the next packet of the char server.
Receive(s, type) ==
    /\ toMap[s] # <<>> /\ Head(toMap[s]).type = type
    /\ toMap' = [toMap EXCEPT ![s] = Tail(@)]

\* chrif_authok, up to chrif_auth_finished: the player becomes active, or the
\* login under way belongs to somebody else and fails.
ReceiveAuthOk(s) ==
    LET m == Head(toMap[s])
    IN  /\ Receive(s, "auth ok")
        /\ IF player[s] # 0 \/ node[s].state # "login"
           THEN UNCHANGED <<at, player, data, node, toChar>>
           ELSE /\ node' = [node EXCEPT ![s] = NoNode]
                /\ IF node[s].login = m.login
                   THEN /\ player' = [player EXCEPT ![s] = m.login]
                        /\ data' = [data EXCEPT ![s] = [ver |-> m.data.ver, home |-> s]]
                        /\ UNCHANGED <<at, toChar>>
                   ELSE /\ toChar' = Post(toChar, s, [type |-> "offline"])
                        /\ at' = [at EXCEPT ![node[s].login] = Nowhere]
                        /\ UNCHANGED <<player, data>>
        /\ UNCHANGED <<logins, ticket, charVars, latest, up, losses>>

\* chrif_authfail
ReceiveAuthFail(s) ==
    LET m == Head(toMap[s])
        hit == node[s].state = "login" /\ node[s].login = m.login
    IN  /\ Receive(s, "auth fail")
        /\ node' = [node EXCEPT ![s] = IF hit THEN NoNode ELSE @]
        /\ at' = IF hit THEN [at EXCEPT ![m.login] = Nowhere] ELSE at
        /\ UNCHANGED <<logins, ticket, charVars, player, data, latest, up, toChar, losses>>

\* chrif_save_ack
ReceiveSaveAck(s) ==
    /\ Receive(s, "save ack")
    /\ node' = [node EXCEPT ![s] = IF @.state = "logout" THEN NoNode ELSE @]
    /\ UNCHANGED <<client, charVars, player, data, latest, up, toChar, losses>>

\* clif_charselectok: the client closes the connection and goes to the char
\* server; the map server will notice (DelayQuit).
ReceiveCharselectOk(s) ==
    /\ Receive(s, "charselect ok")
    /\ IF player[s] # 0 /\ at[player[s]] = s
       THEN /\ ticket' = [ticket EXCEPT ![player[s]] = CharSrv]
            /\ at' = [at EXCEPT ![player[s]] = Nowhere]
       ELSE UNCHANGED <<ticket, at>>
    /\ UNCHANGED <<logins, charVars, maps, up, toChar, losses>>

\* chrif_changemapserverack
ReceiveChangeAck(s) ==
    LET m == Head(toMap[s])
        t == node[s].login
    IN  /\ Receive(s, "change ack")
        /\ IF node[s].state # "change"
           THEN UNCHANGED <<ticket, at, node, toChar>>
           ELSE /\ node' = [node EXCEPT ![s] = NoNode]
                /\ at' = [at EXCEPT ![t] = Nowhere]
                /\ IF m.ok
                   THEN /\ ticket' = [ticket EXCEPT ![t] = node[s].data.home]
                        /\ UNCHANGED toChar
                   ELSE /\ toChar' = Post(toChar, s, [type |-> "offline"])
                        /\ UNCHANGED ticket
        /\ UNCHANGED <<logins, charVars, player, data, latest, up, losses>>

\* chrif_disconnectplayer: a player without a connection is left to its timer,
\* a login under way is deleted, one that changes the server is not found.
ReceiveKick(s) ==
    LET t == player[s]
    IN  /\ Receive(s, "kick")
        /\ IF t # 0 /\ at[t] = s
           THEN /\ at' = [at EXCEPT ![t] = Nowhere]
                /\ MapQuit(s) \/ UNCHANGED <<player, node, toChar>>
           ELSE /\ IF t = 0 /\ node[s].state = "login"
                   THEN /\ node' = [node EXCEPT ![s] = NoNode]
                        /\ at' = [at EXCEPT ![node[s].login] = Nowhere]
                   ELSE UNCHANGED <<node, at>>
                /\ UNCHANGED <<player, toChar>>
        /\ UNCHANGED <<logins, ticket, charVars, data, latest, up, losses>>

-----------------------------------------------------------------------------
\* chmapif_on_disconnect and chrif_on_disconnect
LinkDown(S) ==
    /\ up' = [s \in Server |-> up[s] /\ s \notin S]
    /\ toChar' = [s \in Server |-> IF s \in S THEN <<>> ELSE toChar[s]]
    /\ toMap' = [s \in Server |-> IF s \in S THEN <<>> ELSE toMap[s]]
    /\ losses < MaxLosses
    /\ losses' = losses + 1

LinkLost(s) ==
    /\ up[s]
    /\ LinkDown({s})
    /\ entry' = [entry EXCEPT !.server = IF @ = s THEN Unknown ELSE @]
    /\ UNCHANGED <<client, selecting, auth, saved, maps>>

\* The char server stops and starts again; only the database remains.
CharRestart ==
    /\ LinkDown(Server)
    /\ selecting' = {}
    /\ entry' = NoEntry
    /\ auth' = NoAuth
    /\ UNCHANGED <<client, saved, maps>>

\* Mutant of Resent: a logout that waits for its ack is not saved again.
ResentNothing(s) == <<>>

\* chrif_reconnect for the auth_db of the map server: fail logins, save again
\* who is logging out, repeat the request of who is changing the server.
Resent(s) ==
    CASE node[s].state = "login"  -> << [type |-> "offline"] >>
      [] node[s].state = "logout" -> << FinalSave(node[s].data) >>
      [] node[s].state = "change" ->
            << ChangeRequest(node[s].login, node[s].data.home) >>
      [] OTHER -> <<>>

\* chrif_on_ready: the players online, then the auth_db.
LinkReady(s) ==
    LET t == node[s].login
    IN  /\ ~up[s]
        /\ up' = [up EXCEPT ![s] = TRUE]
        /\ toChar' = [toChar EXCEPT ![s] = <<[type |-> "users", online |-> player[s] # 0]>> \o Resent(s)]
        /\ IF node[s].state = "login"
           THEN node' = [node EXCEPT ![s] = NoNode] /\ at' = [at EXCEPT ![t] = Nowhere]
           ELSE UNCHANGED <<node, at>>
        /\ UNCHANGED <<logins, ticket, charVars, player, data, latest, toMap, losses>>

-----------------------------------------------------------------------------
Init ==
    /\ logins = 0
    /\ ticket = [t \in Login |-> Nowhere]
    /\ at = [t \in Login |-> Nowhere]
    /\ selecting = {}
    /\ entry = NoEntry
    /\ auth = NoAuth
    /\ saved = [ver |-> 0, home |-> Home]
    /\ player = [s \in Server |-> 0]
    /\ data = [s \in Server |-> [ver |-> 0, home |-> s]]
    /\ node = [s \in Server |-> NoNode]
    /\ latest = 0
    /\ up = [s \in Server |-> TRUE]
    /\ toChar = [s \in Server |-> <<>>]
    /\ toMap = [s \in Server |-> <<>>]
    /\ losses = 0

CharPacket(s) ==
    \/ HandleSave(s)
    \/ HandleCharselect(s)
    \/ HandleChange(s)
    \/ HandleOffline(s)
    \/ HandleAuth(s)
    \/ HandleUsers(s)

MapPacket(s) ==
    \/ ReceiveAuthOk(s)
    \/ ReceiveAuthFail(s)
    \/ ReceiveSaveAck(s)
    \/ ReceiveCharselectOk(s)
    \/ ReceiveChangeAck(s)
    \/ ReceiveKick(s)

ClientStep(t) ==
    \/ Reconnect(t)
    \/ \E s \in Server : CharSelect(t, s)
    \/ CharEof(t)
    \/ MapConnect(t)
    \/ MapEof(t)

PlayerStep(s) ==
    \/ Play(s)
    \/ AutoSave(s)
    \/ Restart(s)
    \/ \E d \in Server : ChangeServer(s, d)

Next ==
    \/ Connect
    \/ AskKick
    \/ WaitingDisconnect
    \/ OnlineDataCleanup
    \/ CharRestart
    \/ \E t \in Login : ClientStep(t)
    \/ \E s \in Server :
          \/ PlayerStep(s)
          \/ DelayQuit(s)
          \/ AuthDbCleanup(s)
          \/ CharPacket(s)
          \/ MapPacket(s)
          \/ LinkLost(s)
          \/ LinkReady(s)

Spec == Init /\ [][Next]_vars

\* The event loops of the servers handle what has arrived, reconnect and run
\* their timers; clients and players owe nothing.
FairSpec ==
    /\ Spec
    /\ WF_vars(WaitingDisconnect)
    /\ \A s \in Server :
          /\ WF_vars(CharPacket(s))
          /\ WF_vars(MapPacket(s))
          /\ WF_vars(LinkReady(s))
          /\ WF_vars(DelayQuit(s))

-----------------------------------------------------------------------------
\* Types, and the two places where a map server keeps a character exclude each
\* other: an active player has no node in the auth_db, because a connection is
\* refused while either exists (clif_parse_WantToConnection, chrif_authreq).
SessionTypeOK ==
    /\ logins \in 0..MaxLogins
    /\ ticket \in [Login -> Server \cup {Nowhere, CharSrv, Spent}]
    /\ at \in [Login -> Server \cup {Nowhere}]
    /\ selecting \subseteq Login
    /\ entry \in [known : BOOLEAN, char : BOOLEAN, server : Server \cup {Offline, Unknown},
                  waiting : BOOLEAN, fd : 0..MaxLogins]
    /\ player \in [Server -> 0..MaxLogins]
    /\ \A s \in Server :
          /\ node[s].state \in {"none", "login", "logout", "change"}
          /\ player[s] # 0 => node[s] = NoNode
          /\ up[s] \/ (toChar[s] = <<>> /\ toMap[s] = <<>>)

\* A player in the game never has older data than the character ever had on a
\* map server: a login never reads the database before the last session's save
\* has got there, whatever was kicked, timed out or disconnected meanwhile.
NoRollback == \A s \in Server : player[s] # 0 => data[s].ver = latest

\* The character is in the game on one map server at most, although the old one
\* lets it go before the new one has heard of it and a client may go back to the
\* selection while its player is still there.
OneActive == \A s, d \in Server : player[s] # 0 /\ player[d] # 0 => s = d

\* What a map server forgets when chrif_save_ack or chrif_changemapserverack
\* arrives is in the database ("player has been saved already, remove him from
\* memory"), also when final saves are repeated and acknowledged twice.
AckedIsSaved ==
    \A s \in Server : \A i \in DOMAIN toMap[s] :
        /\ \/ toMap[s][i].type = "save ack" /\ node[s].state = "logout"
           \/ toMap[s][i].type = "change ack" /\ node[s].state = "change"
        => saved.ver >= node[s].data.ver

\* When nothing is under way, online_char_db names the map server of a connected
\* player, which is the one a kick goes to.
Quiet == \A s \in Server : up[s] /\ toChar[s] = <<>> /\ toMap[s] = <<>> /\ node[s].state = "none"
CharKnowsPlayer ==
    \A s \in Server : player[s] # 0 /\ at[player[s]] = s /\ Quiet => entry.server = s

\* What a player without a connection has achieved reaches the database, even if
\* its final save or the acknowledgement is lost (chrif_reconnect saves again).
LeaverIsSaved ==
    \A s \in Server : \A v \in 1..MaxVersion :
        player[s] # 0 /\ at[player[s]] # s /\ data[s].ver = v ~> saved.ver >= v

\* A login, a logout or a change of the map server under way comes to an end:
\* no node stays in the auth_db to refuse the character's next login for ever.
PendingEnds == \A s \in Server : node[s].state # "none" ~> node[s].state = "none"
=============================================================================
