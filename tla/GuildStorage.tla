---------------------------- MODULE GuildStorage ----------------------------
(***************************************************************************)
(* The storage of one guild between a map server, which keeps it in memory *)
(* and lets one member at a time work on it, and the char server, which    *)
(* keeps it in the database next to the inventories of the members         *)
(* (map/storage.cpp, map/intif.cpp, map/guild.cpp, char/int_storage.cpp).  *)
(*                                                                         *)
(* Items are guild-bound and do not stack, so that an inventory and the    *)
(* storage are numbers of items.  The link is a FIFO that loses what is    *)
(* under way when it breaks.  Acknowledgements arrive within AUTH_TIMEOUT  *)
(* (the repeated final save is in module Sessions); the level of the       *)
(* guild's storage skill does not change.                                  *)
(***************************************************************************)
EXTENDS Integers, Sequences, FiniteSets

CONSTANTS
    Member,       \* members of the guild
    Owned,        \* items each of them has at the start
    Stored,       \* items in the storage at the start
    Slots,        \* places in the storage at the guild's skill level
    MaxLosses,    \* bound on lost connections
    MaxQueue      \* bound on packets under way, for steps that nothing forces

ASSUME StorageBounds ==
    /\ IsFiniteSet(Member)
    /\ Owned \in Nat /\ Stored \in Nat /\ Slots \in Nat \ {0} /\ Stored <= Slots
    /\ MaxLosses \in Nat /\ MaxQueue \in Nat \ {0}

VARIABLES
    \* map server
    session,    \* [member -> "in", "loading", "logout" (final save not acknowledged), "out"]
    member,     \* who is in the guild
    inv,        \* [member -> inventory in memory]
    open,       \* who has the storage open (state.storage_flag = 2)
    stor,       \* guild_storage_db[guild_id]
    \* char server
    dbInv, dbGuild,
    \* the link
    up, toChar, toMap, losses,
    discarded   \* history: items deleted that nobody has got

mapVars  == <<session, member, inv, open, stor>>
dbVars   == <<dbInv, dbGuild>>
linkVars == <<up, toChar, toMap, losses>>
vars     == <<mapVars, dbVars, linkVars, discarded>>

NotLoaded == -1
Total     == Owned * Cardinality(Member) + Stored

\* guild2storage creates an entry without places; OFFICIAL_GUILD_STORAGE makes
\* the next opening load it.
NoStorage == [known |-> FALSE, items |-> 0, max |-> 0, status |-> FALSE, dirty |-> FALSE, lock |-> FALSE]
Found     == [stor EXCEPT !.known = TRUE]

Room    == Len(toChar) + Len(toMap) < MaxQueue
Send(m) == toChar' = IF up THEN toChar \o m ELSE toChar

-----------------------------------------------------------------------------
\* Packets to the char server
SaveInventory(p) == [type |-> "inventory", who |-> p, items |-> inv[p]]
SaveStorage      == [type |-> "storage", items |-> stor.items]
Final(p)         == << SaveInventory(p), [type |-> "final", who |-> p] >>

\* chrif_save with the inventory; the storage goes along while it is open.
Save(p) ==
    IF p \in open /\ stor.dirty THEN << SaveInventory(p), SaveStorage >> ELSE << SaveInventory(p) >>

\* storage_guild_storageopen: the storage has to be loaded first, is in use,
\* or opens.
Opened(p, st) ==
    IF ~st.known \/ st.max # Slots
    THEN /\ stor' = st
         /\ Send(<< [type |-> "load", who |-> p] >>)
         /\ UNCHANGED open
    ELSE /\ UNCHANGED toChar
         /\ IF st.status \/ st.lock
            THEN stor' = st /\ UNCHANGED open
            ELSE stor' = [st EXCEPT !.status = TRUE] /\ open' = open \cup {p}

Open(p) ==
    /\ session[p] = "in" /\ p \in member /\ p \notin open
    /\ Room
    /\ Opened(p, stor)
    /\ UNCHANGED <<session, member, inv, dbVars, up, toMap, losses, discarded>>

\* storage_guild_storageclose, and storage_guild_storage_quit of a warp.
Closed(p) ==
    /\ Send(IF stor.status THEN Save(p) ELSE <<>>)
    /\ stor' = [stor EXCEPT !.status = FALSE]
    /\ open' = open \ {p}

Close(p) ==
    /\ p \in open
    /\ Room
    /\ Closed(p)
    /\ UNCHANGED <<session, member, inv, dbVars, up, toMap, losses, discarded>>

\* storage_guild_storageadd, one item.
StorageAdd(p) ==
    /\ p \in open /\ stor.status /\ inv[p] > 0
    /\ IF stor.lock
       THEN Closed(p) /\ UNCHANGED inv
       ELSE /\ stor.items < stor.max
            /\ stor' = [stor EXCEPT !.items = @ + 1, !.dirty = TRUE]
            /\ inv' = [inv EXCEPT ![p] = @ - 1]
            /\ UNCHANGED <<open, toChar>>
    /\ UNCHANGED <<session, member, dbVars, up, toMap, losses, discarded>>

\* storage_guild_storageget, one item.
StorageGet(p) ==
    /\ p \in open /\ stor.status /\ stor.items > 0
    /\ IF stor.lock
       THEN Closed(p) /\ UNCHANGED inv
       ELSE /\ stor' = [stor EXCEPT !.items = @ - 1, !.dirty = TRUE]
            /\ inv' = [inv EXCEPT ![p] = @ + 1]
            /\ UNCHANGED <<open, toChar>>
    /\ UNCHANGED <<session, member, dbVars, up, toMap, losses, discarded>>

\* pc_autosave
AutoSave(p) ==
    /\ session[p] = "in"
    /\ up /\ Room
    /\ Send(Save(p))
    /\ UNCHANGED <<mapVars, dbVars, up, toMap, losses, discarded>>

\* map_quit: the storage is closed, then comes the final save.  It may happen
\* before the inventory has arrived.
Quit(p) ==
    /\ session[p] \in {"in", "loading"}
    /\ Room
    /\ session' = [session EXCEPT ![p] = "logout"]
    /\ IF p \in open
       THEN /\ stor' = [stor EXCEPT !.status = FALSE]
            /\ Send((IF stor.status THEN Save(p) ELSE <<>>) \o Final(p))
       ELSE Send(Final(p)) /\ UNCHANGED stor
    /\ open' = open \ {p}
    /\ UNCHANGED <<member, inv, dbVars, up, toMap, losses, discarded>>

\* pc_reg_received: the player is active and its inventory on the way.
Login(p) ==
    /\ session[p] = "out"
    /\ up /\ Room
    /\ session' = [session EXCEPT ![p] = "loading"]
    /\ inv' = [inv EXCEPT ![p] = NotLoaded]
    /\ Send(<< [type |-> "request", who |-> p] >>)
    /\ UNCHANGED <<member, open, stor, dbVars, up, toMap, losses, discarded>>

\* Mutant of Kept: the number of places is not looked at.
KeptAll(n) == n

\* storage_guild_additem, storage_guild_additem2 of n items: as many as fit.
Kept(n) == IF n <= stor.max - stor.items THEN n ELSE stor.max - stor.items
Deposit(n) == [Found EXCEPT !.items = @ + Kept(n), !.dirty = @ \/ Kept(n) > 0, !.status = FALSE]

\* The visitor guild_retrieveitembound sends away.
Visitors == IF stor.status THEN open ELSE {}
SendAway == IF Visitors = {} THEN <<>> ELSE Save(CHOOSE p \in Visitors : TRUE)

\* guild_member_withdraw: the guild takes back the items of who leaves it.
\* The storage of an online member is changed at once, the inventory of one
\* who is not is left to the char server, with the storage locked meanwhile.
\* (With nobody online the map server keeps its list of members, but the char
\* server has taken this one out already.)
Withdraw(p) ==
    /\ p \in member
    /\ Room
    /\ member' = member \ {p}
    /\ \/ /\ session[p] \in {"in", "loading"} /\ inv[p] > 0
          /\ Send(SendAway)
          /\ stor' = Deposit(inv[p])
          /\ inv' = [inv EXCEPT ![p] = 0]
          /\ open' = open \ (Visitors \cup {p})
          /\ discarded' = discarded + inv[p] - Kept(inv[p])
       \/ /\ session[p] \in {"in", "loading"} /\ inv[p] <= 0
          /\ IF p \in open THEN Closed(p) ELSE UNCHANGED <<stor, open, toChar>>
          /\ UNCHANGED <<inv, discarded>>
       \/ /\ session[p] \in {"logout", "out"}
          /\ Send(SendAway \o << [type |-> "retrieve", who |-> p] >>)
          /\ stor' = [stor EXCEPT !.status = FALSE, !.lock = @ \/ (up /\ stor.known)]
          /\ open' = open \ Visitors
          /\ UNCHANGED <<inv, discarded>>
    /\ UNCHANGED <<session, dbVars, up, toMap, losses>>

-----------------------------------------------------------------------------
\* The char server takes the next packet and replies.
Take(type) == toChar # <<>> /\ Head(toChar).type = type /\ toChar' = Tail(toChar)
Reply(m)   == toMap' = Append(toMap, m)

\* Mutant of HandleInventory: an inventory that was not loaded is saved as empty.
HandleInventoryUnloaded ==
    LET m == Head(toChar)
    IN  /\ Take("inventory")
        /\ dbInv' = [dbInv EXCEPT ![m.who] = IF m.items = NotLoaded THEN 0 ELSE m.items]
        /\ UNCHANGED <<dbGuild, toMap>>

\* mapif_parse_StorageSave: what was never loaded has no table type and is
\* not saved.
HandleInventory ==
    LET m == Head(toChar)
    IN  /\ Take("inventory")
        /\ dbInv' = IF m.items = NotLoaded THEN dbInv ELSE [dbInv EXCEPT ![m.who] = m.items]
        /\ UNCHANGED <<dbGuild, toMap>>

\* mapif_parse_SaveGuildStorage
HandleStorage ==
    /\ Take("storage")
    /\ dbGuild' = Head(toChar).items
    /\ Reply([type |-> "stored"])
    /\ UNCHANGED dbInv

\* chmapif_parse_reqsavechar with the final flag
HandleFinal ==
    /\ Take("final")
    /\ Reply([type |-> "ack", who |-> Head(toChar).who])
    /\ UNCHANGED dbVars

\* mapif_parse_StorageLoad
HandleRequest ==
    LET p == Head(toChar).who
    IN  /\ Take("request")
        /\ Reply([type |-> "inventory", who |-> p, items |-> dbInv[p]])
        /\ UNCHANGED dbVars

\* mapif_parse_LoadGuildStorage
HandleLoad ==
    /\ Take("load")
    /\ Reply([type |-> "load", who |-> Head(toChar).who, items |-> dbGuild])
    /\ UNCHANGED dbVars

\* mapif_parse_itembound_retrieve.  (The packet with the items does not name
\* their owner; the field who is history.)
HandleRetrieve ==
    LET p == Head(toChar).who
    IN  /\ Take("retrieve")
        /\ dbInv' = [dbInv EXCEPT ![p] = 0]
        /\ Reply(IF dbInv[p] = 0 THEN [type |-> "unlock"] ELSE [type |-> "bound", who |-> p, items |-> dbInv[p]])
        /\ UNCHANGED dbGuild

CharPacket ==
    /\ \/ HandleInventory
       \/ HandleStorage
       \/ HandleFinal
       \/ HandleRequest
       \/ HandleLoad
       \/ HandleRetrieve
    /\ UNCHANGED <<mapVars, up, losses, discarded>>

-----------------------------------------------------------------------------
\* The map server takes the next packet.
Receive(type) == toMap # <<>> /\ Head(toMap).type = type /\ toMap' = Tail(toMap)

\* Mutant of Replaceable: a storage that is not saved yet is replaced.
ReplaceableClosed(p) == session[p] \in {"in", "loading"} /\ ~stor.status

\* A load that p asked for is not taken over a storage that is open or modified.
Replaceable(p) == session[p] \in {"in", "loading"} /\ ~stor.status /\ ~stor.dirty

\* intif_parse_LoadGuildStorage.  The player may have left the guild meanwhile.
ReceiveLoad ==
    LET m == Head(toMap)
        fresh == [Found EXCEPT !.items = m.items, !.max = Slots, !.lock = FALSE]
    IN  /\ Receive("load")
        /\ IF Replaceable(m.who)
           THEN IF m.who \in member /\ m.who \notin open
                THEN Opened(m.who, fresh)
                ELSE stor' = fresh /\ UNCHANGED <<open, toChar>>
           ELSE UNCHANGED <<stor, open, toChar>>
        /\ UNCHANGED <<session, inv, discarded>>

\* storage_guild_storagesaved
ReceiveStored ==
    /\ Receive("stored")
    /\ stor' = [stor EXCEPT !.dirty = @ /\ stor.status]
    /\ UNCHANGED <<session, inv, open, toChar, discarded>>

\* chrif_save_ack
ReceiveSaveAck ==
    LET p == Head(toMap).who
    IN  /\ Receive("ack")
        /\ session' = [session EXCEPT ![p] = IF @ = "logout" THEN "out" ELSE @]
        /\ UNCHANGED <<inv, open, stor, toChar, discarded>>

\* intif_parse_StorageReceived
ReceiveInventory ==
    LET m == Head(toMap)
    IN  /\ Receive("inventory")
        /\ IF session[m.who] = "loading"
           THEN /\ session' = [session EXCEPT ![m.who] = "in"]
                /\ inv' = [inv EXCEPT ![m.who] = m.items]
           ELSE UNCHANGED <<session, inv>>
        /\ UNCHANGED <<open, stor, toChar, discarded>>

\* intif_parse_itembound_ack
ReceiveUnlock ==
    /\ Receive("unlock")
    /\ stor' = [stor EXCEPT !.lock = FALSE]
    /\ UNCHANGED <<session, inv, open, toChar, discarded>>

\* Mutant of ReceiveBoundItems: only the empty answer unlocks the storage.
ReceiveBoundItemsLocked ==
    LET n == Head(toMap).items
    IN  /\ Receive("bound")
        /\ stor' = Deposit(n)
        /\ discarded' = discarded + n - Kept(n)
        /\ UNCHANGED <<session, inv, open, toChar>>

\* intif_parse_itembound_store2gstorage
ReceiveBoundItems ==
    LET n == Head(toMap).items
    IN  /\ Receive("bound")
        /\ stor' = [Deposit(n) EXCEPT !.lock = FALSE]
        /\ discarded' = discarded + n - Kept(n)
        /\ UNCHANGED <<session, inv, open, toChar>>

MapPacket ==
    /\ \/ ReceiveLoad
       \/ ReceiveStored
       \/ ReceiveSaveAck
       \/ ReceiveInventory
       \/ ReceiveUnlock
       \/ ReceiveBoundItems
    /\ UNCHANGED <<member, dbVars, up, losses>>

-----------------------------------------------------------------------------
\* The link breaks and the packets under way are lost (chrif_on_disconnect).
LinkLost ==
    /\ up
    /\ losses < MaxLosses
    /\ losses' = losses + 1
    /\ up' = FALSE
    /\ toChar' = <<>>
    /\ toMap' = <<>>
    /\ UNCHANGED <<mapVars, dbVars, discarded>>

\* Mutant of Repeated: who waits for the acknowledgement goes on waiting.
RepeatedNothing(leaving) == <<>>

\* chrif_reconnect: the final saves of who is leaving once more.
Leaving   == {p \in Member : session[p] = "logout"}
Orders(S) == {f \in [1..Cardinality(S) -> S] : \A i, j \in DOMAIN f : f[i] = f[j] => i = j}
Repeated(leaving) ==
    [i \in 1..(2 * Len(leaving)) |-> Final(leaving[(i + 1) \div 2])[IF i % 2 = 1 THEN 1 ELSE 2]]

\* chrif_on_ready: the auth_db is read in the order of its hash table, after
\* these comes a modified storage that is closed (do_reconnect_storage).
LinkReady ==
    /\ ~up
    /\ up' = TRUE
    /\ \E leaving \in Orders(Leaving) :
          toChar' = Repeated(leaving) \o (IF stor.dirty /\ ~stor.status THEN << SaveStorage >> ELSE <<>>)
    /\ UNCHANGED <<mapVars, dbVars, toMap, losses, discarded>>

Init ==
    /\ session = [p \in Member |-> "out"]
    /\ member = Member
    /\ inv = [p \in Member |-> NotLoaded]
    /\ open = {}
    /\ stor = NoStorage
    /\ dbInv = [p \in Member |-> Owned]
    /\ dbGuild = Stored
    /\ up = TRUE
    /\ toChar = <<>>
    /\ toMap = <<>>
    /\ losses = 0
    /\ discarded = 0

PlayerStep(p) ==
    \/ Login(p)
    \/ Open(p)
    \/ StorageAdd(p)
    \/ StorageGet(p)
    \/ Close(p)
    \/ AutoSave(p)
    \/ Quit(p)
    \/ Withdraw(p)

Next ==
    \/ \E p \in Member : PlayerStep(p)
    \/ CharPacket
    \/ MapPacket
    \/ LinkLost
    \/ LinkReady

Spec == Init /\ [][Next]_vars

\* The event loops of both servers take the packets that have arrived, and
\* the map server reconnects.
FairSpec == Spec /\ WF_vars(CharPacket) /\ WF_vars(MapPacket) /\ WF_vars(LinkReady)

-----------------------------------------------------------------------------
\* Types; only members who are in the game have the storage open, and it never
\* has more items than places, although it is filled by its visitor, by members
\* who are expelled and by answers of the char server.
StorageTypeOK ==
    /\ session \in [Member -> {"in", "loading", "logout", "out"}]
    /\ member \subseteq Member
    /\ inv \in [Member -> {NotLoaded} \cup Nat]
    /\ open \subseteq {p \in member : session[p] = "in"}
    /\ stor \in [known : BOOLEAN, items : 0..Slots, max : {0, Slots},
                 status : BOOLEAN, dirty : BOOLEAN, lock : BOOLEAN]
    /\ dbInv \in [Member -> Nat] /\ dbGuild \in 0..Slots
    /\ up \in BOOLEAN /\ losses \in 0..MaxLosses
    /\ discarded \in Nat

\* Nobody ever has more items than there were.  When no packet is under way, the
\* items on the map server and those in the database of who is not there are
\* never more than there were, and exactly as many while no connection was lost,
\* up to those that did not fit into the storage: storage and inventories are
\* saved by separate packets, a retrieval goes through both servers, and a member
\* may quit before its inventory came.  (Pieces(f) has one element for every item
\* when p has f[p] of them.)
Inventory(p) == IF session[p] = "in" THEN inv[p] ELSE dbInv[p]
InStorage    == IF stor.max = 0 THEN dbGuild ELSE stor.items
Quiet        == up /\ toChar = <<>> /\ toMap = <<>>
Pieces(f)    == UNION {{p} \X (1..f[p]) : p \in Member}
ItemsConserved ==
    LET held == Cardinality(Pieces([p \in Member |-> Inventory(p)])) + InStorage
    IN  /\ \A p \in Member : inv[p] <= Total /\ dbInv[p] <= Total
        /\ discarded <= Total
        /\ Quiet => held <= Total /\ (losses = 0 => held + discarded = Total)

\* An answer to a load leaves the items of a storage in memory as they are: the
\* answer to a second member who asked before the first one arrived does not undo
\* what was done with the storage since (intif_parse_LoadGuildStorage).
LoadKeepsItems ==
    [][toMap # <<>> /\ Head(toMap).type = "load" /\ toMap' = Tail(toMap) /\ stor.max # 0
         => stor'.items = stor.items]_vars

\* "Close and save the storage" (guild.cpp) and "storage has been correctly
\* saved" (storage.cpp): as long as the link holds, a storage that is not dirty
\* is in the database when the saves under way have been handled.
Coming == SelectSeq(toChar, LAMBDA m : m.type = "storage")
CleanIsStored ==
    losses = 0 /\ stor.max # 0 /\ ~stor.dirty
    => stor.items = IF Coming = <<>> THEN dbGuild ELSE Coming[Len(Coming)].items

\* Every logout ends, although the final save or its acknowledgement may be
\* lost: chrif_reconnect repeats it.
LogoutEnds == \A p \in Member : session[p] = "logout" ~> session[p] = "out"

\* As long as the link holds, the storage does not stay locked after a retrieval
\* of bound items: both answers of the char server unlock it.
LockIsReleased == stor.lock /\ losses = 0 ~> ~stor.lock \/ losses > 0
=============================================================================
