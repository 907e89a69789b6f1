------------------------- MODULE GuildStorageProofs -------------------------
(***************************************************************************)
(* Proofs about the storage of a guild, for any members, any number of     *)
(* items, places, packets under way and lost connections: types and limits *)
(* (StorageTypeOK), that the answer to a load never changes the items of a *)
(* storage in memory (LoadKeepsItems), and that items are neither made nor *)
(* lost on the way between inventories and storage (ItemsConserved).       *)
(***************************************************************************)
EXTENDS GuildStorage, FiniteSetTheorems, SequenceTheorems, TLAPS

\* Packets to the char server, and to the map server.
CharMsg ==
    [type : {"inventory"}, who : Member, items : {NotLoaded} \cup Nat]
    \cup [type : {"storage"}, items : 0..Slots]
    \cup [type : {"final", "load", "request", "retrieve"}, who : Member]
MapMsg ==
    [type : {"stored", "unlock"}]
    \cup [type : {"ack"}, who : Member]
    \cup [type : {"inventory"}, who : Member, items : Nat]
    \cup [type : {"load"}, who : Member, items : 0..Slots]
    \cup [type : {"bound"}, who : Member, items : Nat]

\* Kinds of packets.
IsLoad(m)    == m.type = "load"
IsStorage(m) == m.type = "storage"
IsStored(m)  == m.type = "stored"
IsFinal(m)   == m.type = "final"
IsAck(m)     == m.type = "ack"

\* Types of the players and of the database; a broken link is empty.
PlayersTyped ==
    /\ session \in [Member -> {"in", "loading", "logout", "out"}]
    /\ member \subseteq Member
    /\ open \subseteq Member
    /\ inv \in [Member -> {NotLoaded} \cup Nat]
    /\ dbInv \in [Member -> Nat]
    /\ dbGuild \in 0..Slots
    /\ losses \in 0..MaxLosses
    /\ discarded \in Nat
\* Types of the link.
LinkTyped ==
    /\ up \in BOOLEAN
    /\ toChar \in Seq(CharMsg)
    /\ toMap \in Seq(MapMsg)
    /\ ~up => toChar = <<>> /\ toMap = <<>>

\* A storage that is not loaded is empty, closed and not modified.
Storage ==
    [known : BOOLEAN, items : 0..Slots, max : {0, Slots}, status : BOOLEAN, dirty : BOOLEAN, lock : BOOLEAN]
StorTyped ==
    /\ stor \in Storage
    /\ stor.max # 0 => stor.known
    /\ stor.max = 0 => stor.items = 0 /\ ~stor.status /\ ~stor.dirty
TInv == PlayersTyped /\ LinkTyped /\ StorTyped

\* Nothing is saved before it is loaded.
NothingSaved ==
    stor.max = 0 => /\ \A i \in DOMAIN toChar : ~IsStorage(toChar[i])
                    /\ \A i \in DOMAIN toMap : ~IsStored(toMap[i])

\* All loads were asked for before the first save.
LoadsFirst ==
    /\ \A i, j \in DOMAIN toChar : IsStorage(toChar[i]) /\ IsLoad(toChar[j]) => j < i
    /\ \A i, j \in DOMAIN toMap : IsStored(toMap[i]) /\ IsLoad(toMap[j]) => j < i
    /\ \A i \in DOMAIN toMap, j \in DOMAIN toChar : IsStored(toMap[i]) => ~IsLoad(toChar[j])

\* While a load is under way, a storage that is not modified has the items it
\* will bring.
LoadsAgree ==
    ~stor.dirty => /\ \A i \in DOMAIN toMap : IsLoad(toMap[i]) => toMap[i].items = InStorage
                   /\ \A i \in DOMAIN toChar : IsLoad(toChar[i]) => dbGuild = InStorage
ItemInv == NothingSaved /\ LoadsFirst /\ LoadsAgree

\* A final save or its acknowledgement is under way at most once for a member,
\* and only until the logout ends.
LogoutOnce ==
    /\ \A i \in DOMAIN toChar : IsFinal(toChar[i]) => session[toChar[i].who] = "logout"
    /\ \A i \in DOMAIN toMap : IsAck(toMap[i]) => session[toMap[i].who] = "logout"
    /\ \A i, j \in DOMAIN toChar :
          IsFinal(toChar[i]) /\ IsFinal(toChar[j]) /\ i # j => toChar[i].who # toChar[j].who
    /\ \A i, j \in DOMAIN toMap :
          IsAck(toMap[i]) /\ IsAck(toMap[j]) /\ i # j => toMap[i].who # toMap[j].who
    /\ \A i \in DOMAIN toMap, j \in DOMAIN toChar :
          IsAck(toMap[i]) /\ IsFinal(toChar[j]) => toMap[i].who # toChar[j].who

\* The loads a member has asked for are ahead of its final save.
LoadsBeforeLogout ==
    /\ \A i, j \in DOMAIN toChar :
          IsFinal(toChar[i]) /\ IsLoad(toChar[j]) /\ toChar[i].who = toChar[j].who => j < i
    /\ \A i, j \in DOMAIN toMap :
          IsAck(toMap[i]) /\ IsLoad(toMap[j]) /\ toMap[i].who = toMap[j].who => j < i
    /\ \A i \in DOMAIN toMap, j \in DOMAIN toChar :
          IsAck(toMap[i]) /\ IsLoad(toChar[j]) => toMap[i].who # toChar[j].who

\* So who has a load under way is still the session that asked for it.
LoadersPlayed ==
    /\ \A i \in DOMAIN toChar : IsLoad(toChar[i]) => session[toChar[i].who] \in {"in", "logout"}
    /\ \A i \in DOMAIN toMap : IsLoad(toMap[i]) => session[toMap[i].who] \in {"in", "logout"}
\* The storage is open only to members of the guild who are in the game.
OpenInGame == open \subseteq {p \in member : session[p] = "in"}
PlayInv == LogoutOnce /\ LoadsBeforeLogout /\ LoadersPlayed

-----------------------------------------------------------------------------
(* Packets and queues.                                                     *)

\* What the packets carry.
LEMMA CharMsgFacts ==
    \A m \in CharMsg : /\ m.type = "inventory" => m.who \in Member /\ m.items \in {NotLoaded} \cup Nat
                       /\ IsStorage(m) => m.items \in 0..Slots
                       /\ m.type \in {"final", "load", "request", "retrieve"} => m.who \in Member
                       /\ ~IsStored(m) /\ ~IsAck(m)
    BY DEF CharMsg, IsStorage, IsStored, IsAck
\* What the packets to the map server carry.
LEMMA MapMsgFacts ==
    \A m \in MapMsg : /\ m.type = "inventory" => m.who \in Member /\ m.items \in Nat
                      /\ m.type = "ack" => m.who \in Member
                      /\ IsLoad(m) => m.who \in Member /\ m.items \in 0..Slots
                      /\ m.type = "bound" => m.who \in Member /\ m.items \in Nat
                      /\ ~IsStorage(m) /\ ~IsFinal(m)
    BY DEF MapMsg, IsLoad, IsStorage, IsFinal

\* Every packet of r is in q, d places ahead, or is one of S behind all of q.
Behind(r, q, d, S) ==
    \A i \in DOMAIN r :
        /\ i \in Nat
        /\ \/ i + d \in DOMAIN q /\ r[i] = q[i + d]
           \/ r[i] \in S /\ \A j \in DOMAIN q : j \in Nat /\ j < i + d

\* The queue stays, is emptied, loses its first packet, or gets new ones.
LEMMA QueueSteps ==
    ASSUME NEW T, NEW q \in Seq(T), NEW S
    PROVE  /\ Behind(q, q, 0, S)
           /\ Behind(<< >>, q, 0, S)
           /\ q # <<>> => Behind(Tail(q), q, 1, S)
           /\ \A m \in S : Behind(Append(q, m), q, 0, S)
           /\ \A m \in Seq(S) : Behind(q \o m, q, 0, S)
<1>1. Behind(q, q, 0, S) /\ Behind(<< >>, q, 0, S)
    BY DEF Behind
<1>2. ASSUME q # <<>> PROVE Behind(Tail(q), q, 1, S)
    BY <1>2 DEF Behind
<1>3. ASSUME NEW m \in S PROVE Behind(Append(q, m), q, 0, S)
    BY <1>3 DEF Behind
<1>4. ASSUME NEW m \in Seq(S) PROVE Behind(q \o m, q, 0, S)
    BY <1>4 DEF Behind
<1> QED
    BY <1>1, <1>2, <1>3, <1>4

\* Short lists.
LEMMA ShortLists ==
    ASSUME NEW S, NEW a \in S, NEW b \in S
    PROVE  <<>> \in Seq(S) /\ <<a>> \in Seq(S) /\ <<a, b>> \in Seq(S)
    OBVIOUS

\* The types of what Send leaves in the queue.
LEMMA SendTyped ==
    ASSUME LinkTyped, NEW S \in SUBSET CharMsg, NEW m \in Seq(S), Send(m)
    PROVE  /\ toChar' \in Seq(CharMsg)
           /\ ~up => toChar' = <<>>
           /\ Behind(toChar', toChar, 0, S)
<1>1. m \in Seq(CharMsg)
    OBVIOUS
<1>2. toChar \in Seq(CharMsg)
    BY DEF LinkTyped
<1>3. CASE up
    BY <1>1, <1>2, <1>3, QueueSteps, ConcatProperties DEF Send
<1>4. CASE ~up
    BY <1>2, <1>4, QueueSteps DEF Send, LinkTyped
<1> QED
    BY <1>3, <1>4

-----------------------------------------------------------------------------
(* What a step does to the storage and to the queues.                      *)

\* Packets of members that neither load nor log out; a storage among them has
\* been modified.
Saving == {m \in CharMsg : ~IsLoad(m) /\ ~IsFinal(m) /\ (IsStorage(m) => stor.dirty)}

\* The packets of the map server.
LEMMA Packets ==
    ASSUME TInv, NEW p \in Member
    PROVE  /\ SaveInventory(p) \in Saving
           /\ stor.dirty => SaveStorage \in Saving
           /\ [type |-> "request", who |-> p] \in Saving
           /\ [type |-> "retrieve", who |-> p] \in Saving
           /\ Save(p) \in Seq(Saving)
           /\ SendAway \in Seq(Saving)
           /\ [type |-> "load", who |-> p] \in CharMsg
           /\ [type |-> "final", who |-> p] \in CharMsg
<1>1. ASSUME NEW q \in Member PROVE SaveInventory(q) \in Saving
    BY <1>1 DEF TInv, PlayersTyped, SaveInventory, Saving, CharMsg, IsLoad, IsFinal, IsStorage
<1>2. ASSUME stor.dirty PROVE SaveStorage \in Saving
    BY <1>2 DEF TInv, StorTyped, Storage, SaveStorage, Saving, CharMsg, IsLoad, IsFinal, IsStorage
<1>3. /\ [type |-> "request", who |-> p] \in Saving
      /\ [type |-> "retrieve", who |-> p] \in Saving
      /\ [type |-> "load", who |-> p] \in CharMsg
      /\ [type |-> "final", who |-> p] \in CharMsg
    BY DEF Saving, CharMsg, IsLoad, IsFinal, IsStorage
<1>4. ASSUME NEW q \in Member PROVE Save(q) \in Seq(Saving)
    BY <1>1, <1>2, <1>4, ShortLists DEF Save
<1>5. SendAway \in Seq(Saving)
  <2>1. Visitors # {} => (CHOOSE q \in Visitors : TRUE) \in Member
      BY DEF Visitors, TInv, PlayersTyped
  <2> QED
      BY <1>1, <1>4, <2>1, ShortLists DEF SendAway
<1> QED
    BY <1>1, <1>2, <1>3, <1>4, <1>5

\* The storage stays loaded or not loaded, and is modified when its items change.
Kindly ==
    /\ StorTyped'
    /\ stor'.max = stor.max
    /\ stor.dirty => stor'.dirty
    /\ stor'.items = stor.items \/ stor'.dirty

\* The link when nothing is received and packets of S are sent.
Sends(S) ==
    /\ LinkTyped'
    /\ Behind(toChar', toChar, 0, S)
    /\ toMap' = toMap

\* Packets that save are sent.
LEMMA SendSends ==
    ASSUME TInv, NEW m \in Seq(Saving), Send(m), UNCHANGED <<up, toMap>>
    PROVE  Sends(Saving)
<1>1. Saving \in SUBSET CharMsg
    BY DEF Saving
<1> QED
    BY <1>1, SendTyped DEF TInv, LinkTyped, Sends

\* Nothing is sent.
LEMMA QuietSends ==
    ASSUME TInv, UNCHANGED <<up, toChar, toMap>>
    PROVE  Sends(Saving)
    BY QueueSteps DEF TInv, LinkTyped, Sends

\* The fields of the storage and how they change.
LEMMA StorSteps ==
    ASSUME TInv
    PROVE  /\ stor' = stor => Kindly
           /\ stor' = [stor EXCEPT !.status = FALSE] => Kindly
           /\ stor' = Found => Kindly
           /\ stor.max # 0 /\ stor' = [stor EXCEPT !.status = TRUE] => Kindly
           /\ \A b \in BOOLEAN : stor' = [stor EXCEPT !.lock = b] => Kindly
           /\ \A b \in BOOLEAN : stor' = [stor EXCEPT !.status = FALSE, !.lock = b] => Kindly
    BY StorageBounds DEF TInv, StorTyped, Storage, Kindly, Found

\* A storage with k more items, closed.
More(f, k) == [f EXCEPT !.items = @ + k, !.dirty = @ \/ k > 0, !.status = FALSE]
\* Its fields.
LEMMA MoreFields ==
    ASSUME NEW f \in Storage, NEW k \in Nat, f.items + k \in 0..Slots
    PROVE  /\ More(f, k) \in Storage
           /\ More(f, k).known = f.known
           /\ More(f, k).items = f.items + k
           /\ More(f, k).max = f.max
           /\ More(f, k).status = FALSE
           /\ More(f, k).dirty <=> f.dirty \/ k > 0
<1>1. (f.dirty \/ k > 0) \in BOOLEAN
    OBVIOUS
<1>2. ASSUME NEW b \in BOOLEAN, b <=> f.dirty \/ k > 0, NEW g, g = [f EXCEPT !.items = f.items + k, !.dirty = b, !.status = FALSE]
      PROVE  /\ g \in Storage /\ g.known = f.known /\ g.items = f.items + k /\ g.max = f.max
             /\ g.status = FALSE /\ g.dirty = b
    BY <1>2 DEF Storage
<1> QED
    BY <1>1, <1>2 DEF More

\* The items that go into the storage fit, and it keeps its limit.
LEMMA DepositFits ==
    ASSUME TInv, NEW n \in Nat
    PROVE  /\ Kept(n) \in 0..n
           /\ stor' = Deposit(n) => Kindly
           /\ stor' = [Deposit(n) EXCEPT !.lock = FALSE] => Kindly
           /\ stor' \in {Deposit(n), [Deposit(n) EXCEPT !.lock = FALSE]} /\ dbGuild' = dbGuild
              => InStorage' = InStorage + Kept(n)
<1>1. /\ Kept(n) \in 0..n /\ Kept(n) \in Nat
      /\ stor.items + Kept(n) \in 0..Slots
      /\ stor.max = 0 => Kept(n) = 0
    BY StorageBounds DEF TInv, StorTyped, Storage, Kept
<1>2. Found \in Storage /\ Found.items = stor.items /\ Found.max = stor.max /\ Found.known /\ (Found.dirty <=> stor.dirty)
    BY DEF TInv, StorTyped, Storage, Found
<1>3. Deposit(n) = More(Found, Kept(n))
    BY DEF Deposit, More
<1>4. /\ Deposit(n) \in Storage
      /\ Deposit(n).known
      /\ Deposit(n).items = stor.items + Kept(n)
      /\ Deposit(n).max = stor.max
      /\ ~Deposit(n).status
      /\ Deposit(n).dirty <=> stor.dirty \/ Kept(n) > 0
  <2>1. Found.items + Kept(n) \in 0..Slots
      BY <1>1, <1>2
  <2>2. /\ More(Found, Kept(n)) \in Storage
        /\ More(Found, Kept(n)).known = Found.known
        /\ More(Found, Kept(n)).items = Found.items + Kept(n)
        /\ More(Found, Kept(n)).max = Found.max
        /\ More(Found, Kept(n)).status = FALSE
        /\ More(Found, Kept(n)).dirty <=> Found.dirty \/ Kept(n) > 0
      BY <1>1, <1>2, <2>1, MoreFields, Zenon
  <2> QED
      BY <1>2, <1>3, <2>2, Zenon
<1>5. ASSUME NEW d \in Storage, d.known, d.items = stor.items + Kept(n), d.max = stor.max, ~d.status,
             d.dirty <=> stor.dirty \/ Kept(n) > 0, stor' = d \/ stor' = [d EXCEPT !.lock = FALSE]
      PROVE  Kindly /\ (dbGuild' = dbGuild => InStorage' = InStorage + Kept(n))
  <2>1. /\ stor' \in Storage /\ stor'.known /\ stor'.items = stor.items + Kept(n) /\ stor'.max = stor.max
        /\ ~stor'.status /\ (stor'.dirty <=> d.dirty)
      BY <1>5 DEF Storage
  <2>2. stor.items \in Int /\ (stor.max = 0 => stor.items = 0 /\ ~stor.dirty)
      BY DEF TInv, StorTyped, Storage
  <2>3. dbGuild \in Int
      BY DEF TInv, PlayersTyped
  <2> QED
      BY <1>1, <1>5, <2>1, <2>2, <2>3 DEF StorTyped, Kindly, InStorage
<1> QED
    BY <1>1, <1>4, <1>5

-----------------------------------------------------------------------------
(* The steps of the players.                                               *)

\* A step that neither asks for the storage nor logs anybody out.
Mild ==
    /\ PlayersTyped' /\ OpenInGame'
    /\ Kindly
    /\ Sends(Saving)
    /\ dbGuild' = dbGuild
    /\ \A p \in Member : session[p] \in {"in", "logout"} => session'[p] = session[p]

\* The storage is closed and, when it was modified, saved.
LEMMA CloseIsKind ==
    ASSUME TInv, NEW p \in Member, Closed(p), UNCHANGED <<up, toMap>>
    PROVE  Kindly /\ Sends(Saving) /\ open' = open \ {p}
<1>1. Kindly
    BY StorSteps DEF Closed
<1>2. (IF stor.status THEN Save(p) ELSE <<>>) \in Seq(Saving)
  <2>1. Save(p) \in Seq(Saving)
      BY Packets
  <2> QED
      BY <2>1
<1>3. Sends(Saving)
    BY <1>2, SendSends DEF Closed
<1> QED
    BY <1>1, <1>3 DEF Closed

\* storage_guild_storageopen of a storage that is not loaded asks for it, of
\* another one it opens it or not.
Asks(p) ==
    /\ session[p] = "in" /\ stor.max = 0
    /\ stor' = stor
    /\ Send(<< [type |-> "load", who |-> p] >>)
    /\ UNCHANGED <<session, member, inv, open, dbVars, up, toMap, losses, discarded>>

\* A member opens the storage or asks for it.
LEMMA OpenStep ==
    ASSUME TInv, OpenInGame, NEW p \in Member, Open(p)
    PROVE  Asks(p) \/ Mild
<1>1. CASE ~stor.known \/ stor.max # Slots
    BY <1>1 DEF Open, Opened, Asks, TInv, StorTyped, Storage
<1>2. CASE ~(~stor.known \/ stor.max # Slots)
  <2>1. Sends(Saving)
      BY <1>2, QuietSends DEF Open, Opened
  <2>2. stor.max # 0
      BY <1>2, StorageBounds
  <2>3. Kindly
      BY <1>2, <2>2, StorSteps DEF Open, Opened
  <2>4. open' \subseteq open \cup {p}
      BY <1>2 DEF Open, Opened
  <2>5. PlayersTyped' /\ OpenInGame'
      BY <2>4 DEF Open, TInv, PlayersTyped, OpenInGame, dbVars
  <2> QED
      BY <2>1, <2>3, <2>5 DEF Mild, Open, dbVars
<1> QED
    BY <1>1, <1>2

\* The visitor closes it.
LEMMA CloseStep ==
    ASSUME TInv, OpenInGame, NEW p \in Member, Close(p)
    PROVE  Mild
<1>1. Kindly /\ Sends(Saving) /\ open' = open \ {p}
    BY CloseIsKind DEF Close
<1>2. PlayersTyped' /\ OpenInGame'
    BY <1>1 DEF Close, TInv, PlayersTyped, OpenInGame, dbVars
<1> QED
    BY <1>1, <1>2 DEF Mild, Close, dbVars

\* A visitor puts an item in or takes one out, unless the storage is locked.
LEMMA ItemStep ==
    ASSUME TInv, OpenInGame, NEW p \in Member, StorageAdd(p) \/ StorageGet(p)
    PROVE  Mild
<1>1. CASE stor.lock
  <2>1. Closed(p) /\ UNCHANGED <<session, member, inv, dbVars, up, toMap, losses, discarded>>
      BY <1>1 DEF StorageAdd, StorageGet
  <2>2. Kindly /\ Sends(Saving) /\ open' = open \ {p}
      BY <2>1, CloseIsKind
  <2>3. PlayersTyped' /\ OpenInGame'
      BY <2>1, <2>2 DEF TInv, PlayersTyped, OpenInGame, dbVars
  <2> QED
      BY <2>1, <2>2, <2>3 DEF Mild, dbVars
<1>2. CASE ~stor.lock
  <2>1. /\ stor.status
        /\ UNCHANGED <<session, member, open, toChar, dbVars, up, toMap, losses, discarded>>
        /\ \/ /\ inv[p] > 0 /\ stor.items < stor.max
              /\ stor' = [stor EXCEPT !.items = @ + 1, !.dirty = TRUE]
              /\ inv' = [inv EXCEPT ![p] = @ - 1]
           \/ /\ stor.items > 0
              /\ stor' = [stor EXCEPT !.items = @ - 1, !.dirty = TRUE]
              /\ inv' = [inv EXCEPT ![p] = @ + 1]
      BY <1>2 DEF StorageAdd, StorageGet
  <2>2. Kindly
    <3>1. stor.items \in 0..Slots /\ stor.max \in {0, Slots} /\ stor.max # 0
        BY <2>1 DEF TInv, StorTyped, Storage
    <3>2. stor.items < stor.max => stor.items + 1 \in 0..Slots
        BY <3>1, StorageBounds
    <3>3. stor.items > 0 => stor.items - 1 \in 0..Slots
        BY <3>1, StorageBounds
    <3>4. \E k \in 0..Slots : stor' = [stor EXCEPT !.items = k, !.dirty = TRUE]
      <4>1. CASE stor.items < stor.max /\ stor' = [stor EXCEPT !.items = @ + 1, !.dirty = TRUE]
          BY <3>2, <4>1, Zenon
      <4>2. CASE stor.items > 0 /\ stor' = [stor EXCEPT !.items = @ - 1, !.dirty = TRUE]
          BY <3>3, <4>2, Zenon
      <4> QED
          BY <2>1, <4>1, <4>2
    <3> QED
        BY <3>1, <3>4 DEF TInv, StorTyped, Storage, Kindly
  <2>3. inv' \in [Member -> {NotLoaded} \cup Nat]
      BY <2>1 DEF TInv, PlayersTyped, NotLoaded
  <2>4. PlayersTyped' /\ OpenInGame'
      BY <2>1, <2>3 DEF TInv, PlayersTyped, OpenInGame, dbVars
  <2>5. Sends(Saving)
      BY <2>1, QuietSends
  <2> QED
      BY <2>1, <2>2, <2>4, <2>5 DEF Mild, dbVars
<1> QED
    BY <1>1, <1>2

\* A player is saved.
LEMMA AutoSaveStep ==
    ASSUME TInv, OpenInGame, NEW p \in Member, AutoSave(p)
    PROVE  Mild
<1>1. Sends(Saving)
    BY Packets, SendSends DEF AutoSave
<1>2. Kindly
    BY StorSteps DEF AutoSave, mapVars
<1>3. PlayersTyped' /\ OpenInGame'
    BY DEF AutoSave, TInv, PlayersTyped, OpenInGame, mapVars, dbVars
<1> QED
    BY <1>1, <1>2, <1>3 DEF Mild, AutoSave, mapVars, dbVars

\* A player comes and asks for its inventory.
LEMMA LoginStep ==
    ASSUME TInv, OpenInGame, NEW p \in Member, Login(p)
    PROVE  Mild
<1>1. << [type |-> "request", who |-> p] >> \in Seq(Saving)
    BY Packets, ShortLists
<1>2. Sends(Saving)
    BY <1>1, SendSends DEF Login
<1>3. Kindly
    BY StorSteps DEF Login
<1>4. PlayersTyped' /\ OpenInGame'
    BY DEF Login, TInv, PlayersTyped, OpenInGame, dbVars, NotLoaded
<1>5. \A q \in Member : session[q] \in {"in", "logout"} => session'[q] = session[q]
    BY DEF Login, TInv, PlayersTyped
<1> QED
    BY <1>2, <1>3, <1>4, <1>5 DEF Mild, Login, dbVars

\* Who leaves the guild loses the storage and its bound items.
LEMMA WithdrawStep ==
    ASSUME TInv, OpenInGame, NEW p \in Member, Withdraw(p)
    PROVE  Mild
<1>0. UNCHANGED <<session, dbVars, up, toMap, losses>> /\ member' = member \ {p}
    BY DEF Withdraw
<1>1. ASSUME session[p] \in {"in", "loading"}, inv[p] > 0,
             Send(SendAway), stor' = Deposit(inv[p]), inv' = [inv EXCEPT ![p] = 0],
             open' = open \ (Visitors \cup {p}), discarded' = discarded + inv[p] - Kept(inv[p])
      PROVE  Mild
  <2>1. inv[p] \in Nat
      BY <1>1 DEF TInv, PlayersTyped, NotLoaded
  <2>2. Kindly /\ Kept(inv[p]) \in 0..inv[p]
      BY <1>1, <2>1, DepositFits
  <2>3. Sends(Saving)
      BY <1>0, <1>1, Packets, SendSends
  <2>4. discarded' \in Nat
      BY <1>1, <2>1, <2>2 DEF TInv, PlayersTyped
  <2>5. PlayersTyped' /\ OpenInGame'
      BY <1>0, <1>1, <2>4 DEF TInv, PlayersTyped, OpenInGame, dbVars
  <2> QED
      BY <1>0, <2>2, <2>3, <2>5 DEF Mild, dbVars
<1>2. ASSUME IF p \in open THEN Closed(p) ELSE UNCHANGED <<stor, open, toChar>>, UNCHANGED <<inv, discarded>>
      PROVE  Mild
  <2>1. Kindly /\ Sends(Saving) /\ open' = open \ {p}
    <3>1. CASE p \in open
        BY <1>0, <1>2, <3>1, CloseIsKind
    <3>2. CASE p \notin open
        BY <1>0, <1>2, <3>2, StorSteps, QuietSends
    <3> QED
        BY <3>1, <3>2
  <2>2. PlayersTyped' /\ OpenInGame'
      BY <1>0, <1>2, <2>1 DEF TInv, PlayersTyped, OpenInGame, dbVars
  <2> QED
      BY <1>0, <2>1, <2>2 DEF Mild, dbVars
<1>3. ASSUME session[p] \in {"logout", "out"},
             Send(SendAway \o << [type |-> "retrieve", who |-> p] >>),
             stor' = [stor EXCEPT !.status = FALSE, !.lock = @ \/ (up /\ stor.known)],
             open' = open \ Visitors, UNCHANGED <<inv, discarded>>
      PROVE  Mild
  <2>1. (SendAway \o << [type |-> "retrieve", who |-> p] >>) \in Seq(Saving)
      BY Packets, ShortLists, ConcatProperties
  <2>2. Sends(Saving)
      BY <1>0, <1>3, <2>1, SendSends
  <2>3. (stor.lock \/ (up /\ stor.known)) \in BOOLEAN
      BY DEF TInv, StorTyped, Storage, LinkTyped
  <2>4. Kindly
      BY <1>3, <2>3, StorSteps
  <2>5. PlayersTyped' /\ OpenInGame'
      BY <1>0, <1>3 DEF TInv, PlayersTyped, OpenInGame, dbVars
  <2> QED
      BY <1>0, <2>2, <2>4, <2>5 DEF Mild, dbVars
<1> QED
    BY <1>1, <1>2, <1>3 DEF Withdraw

-----------------------------------------------------------------------------
(* Steps that leave loads, saves of the storage and logouts alone.         *)

\* The members named in packets.
LEMMA Named ==
    ASSUME TInv
    PROVE  /\ \A i \in DOMAIN toChar : toChar[i] \in CharMsg /\ (IsLoad(toChar[i]) \/ IsFinal(toChar[i]) => toChar[i].who \in Member)
           /\ \A i \in DOMAIN toMap : toMap[i] \in MapMsg /\ (IsLoad(toMap[i]) \/ IsAck(toMap[i]) => toMap[i].who \in Member)
<1>1. toChar \in Seq(CharMsg) /\ toMap \in Seq(MapMsg)
    BY DEF TInv, LinkTyped
<1>2. \A i \in DOMAIN toChar : toChar[i] \in CharMsg
    BY <1>1
<1>3. \A i \in DOMAIN toMap : toMap[i] \in MapMsg
    BY <1>1
<1> QED
    BY <1>2, <1>3, CharMsgFacts, MapMsgFacts DEF IsLoad, IsFinal, IsAck

\* The queues lose packets or get others behind them, and the items in memory
\* change only with a mark that they did: loads still agree.
LEMMA ItemsKept ==
    ASSUME ItemInv, dbGuild' = dbGuild, stor'.max = 0 => stor.max = 0,
           ~stor'.dirty => ~stor.dirty /\ InStorage' = InStorage,
           NEW a \in {0, 1}, NEW S, Behind(toChar', toChar, a, S),
           \A m \in S : ~IsLoad(m) /\ (IsStorage(m) => stor.max # 0),
           NEW b \in {0, 1}, NEW R, Behind(toMap', toMap, b, R),
           \A m \in R : ~IsLoad(m) /\ ~IsStored(m)
    PROVE  ItemInv'
<1>1. \A i \in DOMAIN toChar' :
        /\ i \in Nat
        /\ \/ i + a \in DOMAIN toChar /\ toChar'[i] = toChar[i + a]
           \/ /\ ~IsLoad(toChar'[i]) /\ (IsStorage(toChar'[i]) => stor.max # 0)
              /\ \A j \in DOMAIN toChar : j \in Nat /\ j < i + a
    BY DEF Behind
<1>2. \A i \in DOMAIN toMap' :
        /\ i \in Nat
        /\ \/ i + b \in DOMAIN toMap /\ toMap'[i] = toMap[i + b]
           \/ ~IsLoad(toMap'[i]) /\ ~IsStored(toMap'[i])
    BY DEF Behind
<1>3. NothingSaved'
    BY <1>1, <1>2 DEF ItemInv, NothingSaved
<1>4. LoadsFirst'
  <2>1. (\A i, j \in DOMAIN toChar : IsStorage(toChar[i]) /\ IsLoad(toChar[j]) => j < i)'
      BY <1>1 DEF ItemInv, LoadsFirst
  <2>2. (\A i, j \in DOMAIN toMap : IsStored(toMap[i]) /\ IsLoad(toMap[j]) => j < i)'
      BY <1>2 DEF ItemInv, LoadsFirst
  <2>3. (\A i \in DOMAIN toMap, j \in DOMAIN toChar : IsStored(toMap[i]) => ~IsLoad(toChar[j]))'
      BY <1>1, <1>2 DEF ItemInv, LoadsFirst
  <2> QED
      BY <2>1, <2>2, <2>3 DEF LoadsFirst
<1>5. LoadsAgree'
  <2> SUFFICES ASSUME ~stor'.dirty
               PROVE  /\ \A i \in DOMAIN toMap' : IsLoad(toMap'[i]) => toMap'[i].items = InStorage'
                      /\ \A i \in DOMAIN toChar' : IsLoad(toChar'[i]) => dbGuild' = InStorage'
      BY DEF LoadsAgree
  <2> QED
      BY <1>1, <1>2 DEF ItemInv, LoadsAgree
<1> QED
    BY <1>3, <1>4, <1>5 DEF ItemInv

\* Nobody logs out, and no load or final save is sent or answered: what is
\* under way for a session stays in order.
LEMMA PlayKept ==
    ASSUME TInv, PlayInv,
           \A p \in Member : session[p] \in {"in", "logout"} => session'[p] = session[p],
           NEW a \in {0, 1}, NEW S, Behind(toChar', toChar, a, S),
           \A m \in S : ~IsLoad(m) /\ ~IsFinal(m),
           NEW b \in {0, 1}, NEW R, Behind(toMap', toMap, b, R),
           \A m \in R : ~IsLoad(m) /\ ~IsAck(m)
    PROVE  PlayInv'
<1>1. \A i \in DOMAIN toChar' :
        /\ i \in Nat
        /\ \/ i + a \in DOMAIN toChar /\ toChar'[i] = toChar[i + a]
           \/ ~IsLoad(toChar'[i]) /\ ~IsFinal(toChar'[i])
    BY DEF Behind
<1>2. \A i \in DOMAIN toMap' :
        /\ i \in Nat
        /\ \/ i + b \in DOMAIN toMap /\ toMap'[i] = toMap[i + b]
           \/ ~IsLoad(toMap'[i]) /\ ~IsAck(toMap'[i])
    BY DEF Behind
<1>3. LogoutOnce'
  <2>1. (\A i \in DOMAIN toChar : IsFinal(toChar[i]) => session[toChar[i].who] = "logout")'
      BY <1>1, Named DEF PlayInv, LogoutOnce
  <2>2. (\A i \in DOMAIN toMap : IsAck(toMap[i]) => session[toMap[i].who] = "logout")'
      BY <1>2, Named DEF PlayInv, LogoutOnce
  <2>3. (\A i, j \in DOMAIN toChar :
          IsFinal(toChar[i]) /\ IsFinal(toChar[j]) /\ i # j => toChar[i].who # toChar[j].who)'
      BY <1>1 DEF PlayInv, LogoutOnce
  <2>4. (\A i, j \in DOMAIN toMap :
          IsAck(toMap[i]) /\ IsAck(toMap[j]) /\ i # j => toMap[i].who # toMap[j].who)'
      BY <1>2 DEF PlayInv, LogoutOnce
  <2>5. (\A i \in DOMAIN toMap, j \in DOMAIN toChar :
          IsAck(toMap[i]) /\ IsFinal(toChar[j]) => toMap[i].who # toChar[j].who)'
      BY <1>1, <1>2 DEF PlayInv, LogoutOnce
  <2> QED
      BY <2>1, <2>2, <2>3, <2>4, <2>5 DEF LogoutOnce
<1>4. LoadsBeforeLogout'
  <2>1. (\A i, j \in DOMAIN toChar :
          IsFinal(toChar[i]) /\ IsLoad(toChar[j]) /\ toChar[i].who = toChar[j].who => j < i)'
      BY <1>1 DEF PlayInv, LoadsBeforeLogout
  <2>2. (\A i, j \in DOMAIN toMap :
          IsAck(toMap[i]) /\ IsLoad(toMap[j]) /\ toMap[i].who = toMap[j].who => j < i)'
      BY <1>2 DEF PlayInv, LoadsBeforeLogout
  <2>3. (\A i \in DOMAIN toMap, j \in DOMAIN toChar :
          IsAck(toMap[i]) /\ IsLoad(toChar[j]) => toMap[i].who # toChar[j].who)'
      BY <1>1, <1>2 DEF PlayInv, LoadsBeforeLogout
  <2> QED
      BY <2>1, <2>2, <2>3 DEF LoadsBeforeLogout
<1>5. LoadersPlayed'
    BY <1>1, <1>2, Named DEF PlayInv, LoadersPlayed
<1> QED
    BY <1>3, <1>4, <1>5 DEF PlayInv

\* Everything together.
Inv == TInv /\ ItemInv /\ PlayInv /\ OpenInGame

\* What a kind step means for the items in memory.
LEMMA KindlyMeans ==
    ASSUME Kindly, dbGuild' = dbGuild
    PROVE  (stor'.max = 0 => stor.max = 0) /\ (~stor'.dirty => ~stor.dirty /\ InStorage' = InStorage)
    BY DEF Kindly, InStorage

\* Mild steps keep the invariant.
LEMMA MildKeeps ==
    ASSUME Inv, Mild
    PROVE  Inv'
<1>1. Behind(toChar', toChar, 0, Saving) /\ toMap' = toMap /\ LinkTyped'
    BY DEF Mild, Sends
<1>2. Behind(toMap', toMap, 0, {})
    BY <1>1, QueueSteps DEF Inv, TInv, LinkTyped
<1>3. \A m \in Saving : ~IsLoad(m) /\ ~IsFinal(m) /\ (IsStorage(m) => stor.max # 0)
    BY DEF Saving, Inv, TInv, StorTyped
<1>4. ItemInv'
    BY <1>1, <1>2, <1>3, KindlyMeans, ItemsKept DEF Mild, Inv
<1>5. PlayInv'
    BY <1>1, <1>2, <1>3, PlayKept DEF Mild, Inv
<1> QED
    BY <1>1, <1>4, <1>5 DEF Mild, Kindly, Inv, TInv

-----------------------------------------------------------------------------
(* Asking for the storage, and the logout.                                 *)

\* A load is asked for only before the storage is in memory, so that there is
\* nothing to save yet.
LEMMA AsksKeeps ==
    ASSUME Inv, NEW p \in Member, Asks(p)
    PROVE  Inv'
<1> DEFINE m == [type |-> "load", who |-> p]
<1>0. TInv /\ ItemInv /\ PlayInv /\ OpenInGame
    BY DEF Inv
<1>1. m \in CharMsg /\ m.who = p /\ IsLoad(m) /\ ~IsFinal(m) /\ ~IsStorage(m)
    BY <1>0, Packets DEF IsLoad, IsFinal, IsStorage
<1> HIDE DEF m
<1>2. {m} \in SUBSET CharMsg /\ <<m>> \in Seq({m})
    BY <1>1
<1>3. /\ toChar' \in Seq(CharMsg)
      /\ ~up => toChar' = <<>>
      /\ Behind(toChar', toChar, 0, {m})
    BY <1>0, <1>2, SendTyped DEF Asks, TInv, m
<1>4. TInv' /\ OpenInGame'
    BY <1>0, <1>3 DEF Asks, TInv, PlayersTyped, StorTyped, LinkTyped, OpenInGame, dbVars
<1>5. \A i \in DOMAIN toChar' :
        /\ i \in Nat
        /\ \/ i \in DOMAIN toChar /\ toChar'[i] = toChar[i]
           \/ toChar'[i] = m
    BY <1>3 DEF Behind
<1>6. stor.max = 0 /\ stor' = stor /\ toMap' = toMap /\ dbGuild' = dbGuild /\ session' = session /\ session[p] = "in"
    BY DEF Asks, dbVars
<1>7. ItemInv'
  <2>1. /\ \A i \in DOMAIN toChar' : ~IsStorage(toChar'[i])
        /\ \A i \in DOMAIN toMap' : ~IsStored(toMap'[i])
      BY <1>0, <1>1, <1>5, <1>6 DEF ItemInv, NothingSaved
  <2>2. NothingSaved' /\ LoadsFirst'
      BY <2>1 DEF NothingSaved, LoadsFirst
  <2>3. LoadsAgree'
      BY <1>0, <1>6 DEF ItemInv, LoadsAgree, InStorage
  <2> QED
      BY <2>2, <2>3 DEF ItemInv
<1>8. PlayInv'
  <2>1. /\ \A i \in DOMAIN toChar : IsFinal(toChar[i]) => toChar[i].who # p
        /\ \A i \in DOMAIN toMap : IsAck(toMap[i]) => toMap[i].who # p
      BY <1>0, <1>6 DEF PlayInv, LogoutOnce
  <2>2. LogoutOnce'
      BY <1>0, <1>1, <1>5, <1>6 DEF PlayInv, LogoutOnce
  <2>3. LoadsBeforeLogout'
      BY <1>0, <1>1, <1>5, <1>6, <2>1 DEF PlayInv, LoadsBeforeLogout
  <2>4. LoadersPlayed'
      BY <1>0, <1>1, <1>5, <1>6 DEF PlayInv, LoadersPlayed
  <2> QED
      BY <2>2, <2>3, <2>4 DEF PlayInv
<1> QED
    BY <1>4, <1>7, <1>8 DEF Inv

\* Two packets at the end of a list.
LEMMA LastOfTwo ==
    ASSUME NEW T, NEW q \in Seq(T), NEW S, NEW l \in Seq(S), NEW x \in S, NEW y
    PROVE  /\ Append(l, x) \in Seq(S)
           /\ q \o (l \o <<x, y>>) = Append(q \o Append(l, x), y)
    OBVIOUS

\* r is q, with packets of S and then y behind it.
EndsWith(r, q, S, y) ==
    \A i \in DOMAIN r :
        /\ i \in Nat
        /\ \/ i \in DOMAIN q /\ r[i] = q[i]
           \/ r[i] \in S /\ \A j \in DOMAIN q : j \in Nat /\ j < i
           \/ i = Len(r) /\ r[i] = y /\ \A j \in DOMAIN q : j \in Nat /\ j < i
\* What such a list holds.
LEMMA BehindAndLast ==
    ASSUME NEW T, NEW q \in Seq(T), NEW S, NEW l \in Seq(S), NEW y
    PROVE  EndsWith(Append(q \o l, y), q, S, y)
    BY DEF EndsWith

\* The final save is behind all loads of its player.
LEMMA QuitKeeps ==
    ASSUME Inv, NEW p \in Member, Quit(p)
    PROVE  Inv'
<1> DEFINE f == [type |-> "final", who |-> p]
<1>0. TInv /\ ItemInv /\ PlayInv /\ OpenInGame
    BY DEF Inv
<1>1. f \in CharMsg /\ f.who = p /\ IsFinal(f) /\ ~IsLoad(f) /\ ~IsStorage(f)
    BY <1>0, Packets DEF IsLoad, IsFinal, IsStorage
<1>2. toChar \in Seq(CharMsg)
    BY <1>0 DEF TInv, LinkTyped
<1>3. \E l \in Seq(Saving) : toChar' = IF up THEN Append(toChar \o l, f) ELSE toChar
  <2>1. \E l \in Seq(Saving) : Send(l \o <<SaveInventory(p), f>>)
    <3>0. Save(p) \in Seq(Saving)
        BY <1>0, Packets
    <3>1. Save(p) \in Seq(Saving) /\ <<>> \in Seq(Saving)
        BY <3>0
    <3>2. <<SaveInventory(p), f>> = <<>> \o <<SaveInventory(p), f>>
        OBVIOUS
    <3>3. CASE p \in open /\ stor.status
        BY <3>1, <3>3 DEF Quit, Final
    <3>4. CASE p \in open /\ ~stor.status
        BY <3>1, <3>4 DEF Quit, Final
    <3>5. CASE p \notin open
        BY <3>1, <3>2, <3>5 DEF Quit, Final
    <3> QED
        BY <3>3, <3>4, <3>5
  <2>2. PICK l \in Seq(Saving) : Send(l \o <<SaveInventory(p), f>>)
      BY <2>1
  <2>3. SaveInventory(p) \in Saving
      BY <1>0, Packets
  <2> HIDE DEF f
  <2>4. Append(l, SaveInventory(p)) \in Seq(Saving) 
      BY <2>3, LastOfTwo, <1>2
  <2>5. toChar \o (l \o <<SaveInventory(p), f>>) = Append(toChar \o Append(l, SaveInventory(p)), f)
      BY <1>2, <2>3, LastOfTwo
  <2> QED
      BY <2>2, <2>4, <2>5 DEF Send
<1> HIDE DEF f
<1>4. PICK l \in Seq(Saving) : toChar' = IF up THEN Append(toChar \o l, f) ELSE toChar
    BY <1>3
<1>5. \A i \in DOMAIN toChar' :
        /\ i \in Nat
        /\ \/ i \in DOMAIN toChar /\ toChar'[i] = toChar[i]
           \/ toChar'[i] \in Saving /\ \A j \in DOMAIN toChar : j \in Nat /\ j < i
           \/ i = Len(toChar') /\ toChar'[i] = f /\ \A j \in DOMAIN toChar : j \in Nat /\ j < i
  <2>1. CASE up
    <3>1. EndsWith(toChar', toChar, Saving, f)
        BY <1>2, <1>4, <2>1, BehindAndLast
    <3> QED
        BY <3>1 DEF EndsWith
  <2>2. CASE ~up
      BY <1>2, <1>4, <2>2
  <2> QED
      BY <2>1, <2>2
<1>6. toChar' \in Seq(CharMsg) /\ (~up => toChar' = <<>>)
  <2>1. l \in Seq(CharMsg)
    <3>1. Saving \subseteq CharMsg
        BY DEF Saving
    <3> QED
        BY <3>1
  <2>2. toChar \o l \in Seq(CharMsg)
      BY <1>2, <2>1, ConcatProperties
  <2>3. Append(toChar \o l, f) \in Seq(CharMsg)
      BY <1>1, <2>2, AppendProperties
  <2> QED
      BY <1>0, <1>2, <1>4, <2>3 DEF TInv, LinkTyped
<1>7. /\ session' = [session EXCEPT ![p] = "logout"] /\ session[p] \in {"in", "loading"}
      /\ open' = open \ {p} /\ UNCHANGED <<member, inv, dbVars, up, toMap, losses, discarded>>
      /\ stor' = stor \/ stor' = [stor EXCEPT !.status = FALSE]
    BY DEF Quit
<1>8. Kindly /\ dbGuild' = dbGuild
    BY <1>0, <1>7, StorSteps DEF dbVars
<1>9. TInv' /\ OpenInGame'
    BY <1>0, <1>6, <1>7, <1>8 DEF TInv, PlayersTyped, LinkTyped, OpenInGame, Kindly, dbVars
<1>10. \A m \in Saving : ~IsLoad(m) /\ ~IsFinal(m) /\ (IsStorage(m) => stor.max # 0)
    BY <1>0 DEF Saving, TInv, StorTyped
<1>11. ItemInv'
  <2>1. Behind(toChar', toChar, 0, Saving \cup {f})
      BY <1>5 DEF Behind
  <2>2. Behind(toMap', toMap, 0, {})
      BY <1>0, <1>7, QueueSteps DEF TInv, LinkTyped
  <2>3. \A m \in Saving \cup {f} : ~IsLoad(m) /\ (IsStorage(m) => stor.max # 0)
      BY <1>1, <1>10
  <2> QED
      BY <1>0, <1>8, <2>1, <2>2, <2>3, KindlyMeans, ItemsKept
<1>12. PlayInv'
  <2>1. /\ \A i \in DOMAIN toChar : IsFinal(toChar[i]) => toChar[i].who # p
        /\ \A i \in DOMAIN toMap : IsAck(toMap[i]) => toMap[i].who # p
      BY <1>0, <1>7 DEF PlayInv, LogoutOnce
  <2>2. \A q \in Member : session'[q] = session[q] \/ q = p
      BY <1>0, <1>7 DEF TInv, PlayersTyped
  <2>3. session'[p] = "logout"
      BY <1>0, <1>7 DEF TInv, PlayersTyped
  <2>4. toMap' = toMap
      BY <1>7
  <2>5. LogoutOnce'
    <3>1. (\A i \in DOMAIN toChar : IsFinal(toChar[i]) => session[toChar[i].who] = "logout")'
        BY <1>0, <1>1, <1>5, <1>10, <2>2, <2>3, Named DEF PlayInv, LogoutOnce
    <3>2. (\A i \in DOMAIN toMap : IsAck(toMap[i]) => session[toMap[i].who] = "logout")'
        BY <1>0, <2>2, <2>3, <2>4, Named DEF PlayInv, LogoutOnce
    <3>3. (\A i, j \in DOMAIN toChar :
            IsFinal(toChar[i]) /\ IsFinal(toChar[j]) /\ i # j => toChar[i].who # toChar[j].who)'
        BY <1>0, <1>1, <1>5, <1>10, <2>1 DEF PlayInv, LogoutOnce
    <3>4. (\A i \in DOMAIN toMap, j \in DOMAIN toChar :
            IsAck(toMap[i]) /\ IsFinal(toChar[j]) => toMap[i].who # toChar[j].who)'
        BY <1>0, <1>1, <1>5, <1>10, <2>1, <2>4 DEF PlayInv, LogoutOnce
    <3> QED
        BY <1>0, <2>4, <3>1, <3>2, <3>3, <3>4 DEF PlayInv, LogoutOnce
  <2>6. LoadsBeforeLogout'
      BY <1>0, <1>1, <1>5, <1>10, <2>1, <2>4 DEF PlayInv, LoadsBeforeLogout
  <2>7. LoadersPlayed'
      BY <1>0, <1>1, <1>5, <1>10, <2>2, <2>3, <2>4, Named DEF PlayInv, LoadersPlayed
  <2> QED
      BY <2>5, <2>6, <2>7 DEF PlayInv
<1> QED
    BY <1>9, <1>11, <1>12 DEF Inv

-----------------------------------------------------------------------------
(* The char server.                                                        *)

\* A packet is taken, and answered or not.
LEMMA TakeTyped ==
    ASSUME TInv, toChar # <<>>, toChar' = Tail(toChar), up' = up,
           NEW R \in SUBSET MapMsg, toMap' = toMap \/ \E m \in R : toMap' = Append(toMap, m)
    PROVE  /\ LinkTyped'
           /\ Behind(toChar', toChar, 1, {})
           /\ Behind(toMap', toMap, 0, R)
           /\ 1 \in DOMAIN toChar /\ toChar[1] = Head(toChar) /\ Head(toChar) \in CharMsg
           /\ \A i \in DOMAIN toChar : i \in Nat /\ i >= 1
<1>1. toChar \in Seq(CharMsg) /\ toMap \in Seq(MapMsg) /\ up
    BY DEF TInv, LinkTyped
<1>2. Tail(toChar) \in Seq(CharMsg) /\ Behind(toChar', toChar, 1, {})
    BY <1>1, QueueSteps
<1>3. toMap' \in Seq(MapMsg) /\ Behind(toMap', toMap, 0, R)
  <2>1. CASE toMap' = toMap
      BY <1>1, <2>1, QueueSteps
  <2>2. ASSUME NEW m \in R, toMap' = Append(toMap, m)
        PROVE  toMap' \in Seq(MapMsg) /\ Behind(toMap', toMap, 0, R)
    <3>1. Append(toMap, m) \in Seq(MapMsg)
        BY <1>1, <2>2, AppendProperties
    <3>2. Behind(Append(toMap, m), toMap, 0, R)
        BY <1>1, <2>2, QueueSteps
    <3> QED
        BY <2>2, <3>1, <3>2
  <2> QED
      BY <2>1, <2>2
<1>4. /\ 1 \in DOMAIN toChar /\ toChar[1] = Head(toChar) /\ Head(toChar) \in CharMsg
      /\ \A i \in DOMAIN toChar : i \in Nat /\ i >= 1
    BY <1>1
<1>5. LinkTyped'
    BY <1>1, <1>2, <1>3 DEF LinkTyped, TInv
<1> QED
    BY <1>2, <1>3, <1>4, <1>5

\* Inventories are saved, read and emptied.
LEMMA InventoryHandled ==
    ASSUME Inv, HandleInventory \/ HandleRequest \/ HandleRetrieve, UNCHANGED <<mapVars, up, losses, discarded>>
    PROVE  Inv'
<1> DEFINE R == {m \in MapMsg : ~IsLoad(m) /\ ~IsStored(m) /\ ~IsAck(m)}
<1>0. TInv /\ ItemInv /\ PlayInv /\ OpenInGame
    BY DEF Inv
<1>1. toChar # <<>> /\ toChar' = Tail(toChar) /\ dbGuild' = dbGuild
    BY DEF HandleInventory, HandleRequest, HandleRetrieve, Take, dbVars
<1>2. Head(toChar) \in CharMsg
    BY <1>0, <1>1 DEF TInv, LinkTyped
<1>3. Head(toChar).type \in {"inventory", "request", "retrieve"} => Head(toChar).who \in Member
    BY <1>2, CharMsgFacts
<1>4. /\ dbInv' \in [Member -> Nat]
      /\ toMap' = toMap \/ \E m \in R : toMap' = Append(toMap, m)
  <2>0. dbInv \in [Member -> Nat]
      BY <1>0 DEF TInv, PlayersTyped
  <2>1. CASE HandleInventory
    <3>1. Head(toChar).items = NotLoaded \/ Head(toChar).items \in Nat
        BY <1>2, <2>1, CharMsgFacts DEF HandleInventory, Take
    <3> QED
        BY <1>3, <2>0, <2>1, <3>1 DEF HandleInventory, Take
  <2>2. CASE HandleRequest
    <3>1. [type |-> "inventory", who |-> Head(toChar).who, items |-> dbInv[Head(toChar).who]] \in R
        BY <1>3, <2>0, <2>2 DEF HandleRequest, Take, MapMsg, IsLoad, IsStored, IsAck
    <3> QED
        BY <2>0, <2>2, <3>1 DEF HandleRequest, Reply, dbVars
  <2>3. CASE HandleRetrieve
    <3>1. /\ [type |-> "unlock"] \in R
          /\ [type |-> "bound", who |-> Head(toChar).who, items |-> dbInv[Head(toChar).who]] \in R
        BY <1>3, <2>0, <2>3 DEF HandleRetrieve, Take, MapMsg, IsLoad, IsStored, IsAck
    <3> QED
        BY <1>3, <2>0, <2>3, <3>1 DEF HandleRetrieve, Take, Reply
  <2> QED
      BY <2>1, <2>2, <2>3
<1>5. LinkTyped' /\ Behind(toChar', toChar, 1, {}) /\ Behind(toMap', toMap, 0, R)
    BY <1>0, <1>1, <1>4, TakeTyped
<1>6. Kindly
    BY <1>0, StorSteps DEF mapVars
<1>7. TInv' /\ OpenInGame'
    BY <1>0, <1>1, <1>4, <1>5, <1>6 DEF TInv, PlayersTyped, OpenInGame, Kindly, mapVars
<1>8. ItemInv'
    BY <1>0, <1>1, <1>5, <1>6, KindlyMeans, ItemsKept
<1>9. PlayInv'
    BY <1>0, <1>5, PlayKept DEF mapVars
<1> QED
    BY <1>7, <1>8, <1>9 DEF Inv

\* The rest of the queue to the char server, and an answer behind the others.
Answered(m) ==
    /\ \A i \in DOMAIN toChar' : i \in Nat /\ i >= 1 /\ i + 1 \in DOMAIN toChar /\ toChar'[i] = toChar[i + 1]
    /\ \A i \in DOMAIN toMap' :
          /\ i \in Nat
          /\ \/ i \in DOMAIN toMap /\ toMap'[i] = toMap[i]
             \/ toMap'[i] = m /\ i = Len(toMap) + 1 /\ \A j \in DOMAIN toMap : j \in Nat /\ j < i

\* A packet is taken and answered.
LEMMA AnswerTyped ==
    ASSUME TInv, toChar # <<>>, toChar' = Tail(toChar), up' = up, NEW m \in MapMsg, toMap' = Append(toMap, m)
    PROVE  LinkTyped' /\ Answered(m)
<1>1. toChar \in Seq(CharMsg) /\ toMap \in Seq(MapMsg)
    BY DEF TInv, LinkTyped
<1>2. \A i \in DOMAIN toChar' : i \in Nat /\ i >= 1 /\ i + 1 \in DOMAIN toChar /\ toChar'[i] = toChar[i + 1]
    BY <1>1
<1>3. \A i \in DOMAIN toMap' :
          /\ i \in Nat
          /\ \/ i \in DOMAIN toMap /\ toMap'[i] = toMap[i]
             \/ toMap'[i] = m /\ i = Len(toMap) + 1 /\ \A j \in DOMAIN toMap : j \in Nat /\ j < i
    BY <1>1
<1>4. LinkTyped'
  <2>1. {m} \in SUBSET MapMsg /\ \E x \in {m} : toMap' = Append(toMap, x)
      OBVIOUS
  <2> QED
      BY <2>1, TakeTyped
<1> QED
    BY <1>2, <1>3, <1>4 DEF Answered

\* The storage is saved: all loads have been answered.
LEMMA StorageHandled ==
    ASSUME Inv, HandleStorage, UNCHANGED <<mapVars, up, losses, discarded>>
    PROVE  Inv'
<1> DEFINE m == [type |-> "stored"]
<1>0. TInv /\ ItemInv /\ PlayInv /\ OpenInGame
    BY DEF Inv
<1>1. m \in MapMsg /\ ~IsLoad(m) /\ ~IsAck(m) /\ IsStored(m)
    BY DEF MapMsg, IsLoad, IsAck, IsStored
<1> HIDE DEF m
<1>2. /\ toChar # <<>> /\ toChar' = Tail(toChar) /\ up' = up /\ toMap' = Append(toMap, m)
      /\ IsStorage(Head(toChar)) /\ dbGuild' = Head(toChar).items /\ dbInv' = dbInv
      /\ UNCHANGED mapVars
    BY DEF HandleStorage, Take, Reply, IsStorage, m
<1>3. /\ LinkTyped' /\ Answered(m)
      /\ 1 \in DOMAIN toChar /\ toChar[1] = Head(toChar) /\ Head(toChar) \in CharMsg
      /\ \A i \in DOMAIN toChar : i \in Nat /\ i >= 1
      /\ Behind(toChar', toChar, 1, {}) /\ Behind(toMap', toMap, 0, {m})
  <2>1. {m} \in SUBSET MapMsg /\ \E x \in {m} : toMap' = Append(toMap, x)
      BY <1>1, <1>2
  <2>2. LinkTyped' /\ Answered(m)
      BY <1>0, <1>1, <1>2, AnswerTyped
  <2> QED
      BY <1>0, <1>2, <2>1, <2>2, TakeTyped
<1>4. TInv' /\ OpenInGame'
  <2>1. dbGuild' \in 0..Slots
      BY <1>2, <1>3, CharMsgFacts
  <2> QED
      BY <1>0, <1>2, <1>3, <2>1 DEF TInv, PlayersTyped, StorTyped, OpenInGame, mapVars
<1>5. stor' = stor /\ stor.max # 0
    BY <1>0, <1>2, <1>3 DEF ItemInv, NothingSaved, mapVars
<1>6. \A i \in DOMAIN toChar : ~IsLoad(toChar[i])
  <2> SUFFICES ASSUME NEW i \in DOMAIN toChar, IsLoad(toChar[i]) PROVE FALSE
      OBVIOUS
  <2>1. i < 1 /\ i \in Nat /\ i >= 1
      BY <1>0, <1>2, <1>3 DEF ItemInv, LoadsFirst
  <2> QED
      BY <2>1
<1>7. \A i \in DOMAIN toChar' : ~IsLoad(toChar'[i])
    BY <1>3, <1>6 DEF Answered
<1>8. ItemInv'
  <2>1. NothingSaved'
      BY <1>5 DEF NothingSaved
  <2>2. LoadsFirst'
    <3>1. (\A i, j \in DOMAIN toMap : IsStored(toMap[i]) /\ IsLoad(toMap[j]) => j < i)'
        BY <1>0, <1>1, <1>3 DEF ItemInv, LoadsFirst, Answered
    <3> QED
        BY <1>7, <3>1 DEF LoadsFirst
  <2>3. LoadsAgree'
    <3>1. InStorage' = InStorage
        BY <1>5 DEF InStorage
    <3> QED
        BY <1>0, <1>1, <1>3, <1>5, <1>7, <3>1 DEF ItemInv, LoadsAgree, Answered
  <2> QED
      BY <2>1, <2>2, <2>3 DEF ItemInv
<1>9. PlayInv'
  <2>1. \A x \in {m} : ~IsLoad(x) /\ ~IsAck(x)
      BY <1>1
  <2>2. session' = session
      BY <1>2 DEF mapVars
  <2> QED
      BY <1>0, <1>3, <2>1, <2>2, PlayKept
<1> QED
    BY <1>4, <1>8, <1>9 DEF Inv

\* The final save is acknowledged: the loads of its player have been answered.
LEMMA FinalHandled ==
    ASSUME Inv, HandleFinal, UNCHANGED <<mapVars, up, losses, discarded>>
    PROVE  Inv'
<1> DEFINE p == Head(toChar).who
           m == [type |-> "ack", who |-> p]
<1>0. TInv /\ ItemInv /\ PlayInv /\ OpenInGame
    BY DEF Inv
<1>1. /\ toChar # <<>> /\ toChar' = Tail(toChar) /\ up' = up /\ toMap' = Append(toMap, m)
      /\ IsFinal(Head(toChar)) /\ UNCHANGED <<mapVars, dbVars>>
    BY DEF HandleFinal, Take, Reply, IsFinal
<1>2. p \in Member
  <2>1. toChar # <<>> /\ IsFinal(Head(toChar))
      BY <1>1
  <2>2. Head(toChar) \in CharMsg
      BY <1>0, <2>1 DEF TInv, LinkTyped
  <2> QED
      BY <2>1, <2>2, CharMsgFacts DEF IsFinal
<1>3. m \in MapMsg /\ ~IsLoad(m) /\ IsAck(m) /\ ~IsStored(m) /\ m.who = p
    BY <1>2 DEF MapMsg, IsLoad, IsAck, IsStored
<1> HIDE DEF m
<1>4. /\ LinkTyped' /\ Answered(m)
      /\ 1 \in DOMAIN toChar /\ toChar[1] = Head(toChar)
      /\ \A i \in DOMAIN toChar : i \in Nat /\ i >= 1
      /\ Behind(toChar', toChar, 1, {}) /\ Behind(toMap', toMap, 0, {m})
  <2>1. {m} \in SUBSET MapMsg /\ \E x \in {m} : toMap' = Append(toMap, x)
      BY <1>1, <1>3
  <2>2. LinkTyped' /\ Answered(m)
      BY <1>0, <1>1, <1>3, AnswerTyped
  <2> QED
      BY <1>0, <1>1, <2>1, <2>2, TakeTyped
<1>5. TInv' /\ OpenInGame'
    BY <1>0, <1>1, <1>4 DEF TInv, PlayersTyped, StorTyped, OpenInGame, mapVars, dbVars
<1>6. ItemInv'
  <2>1. \A x \in {m} : ~IsLoad(x) /\ ~IsStored(x)
      BY <1>3
  <2>2. Kindly /\ dbGuild' = dbGuild
      BY <1>0, <1>1, StorSteps DEF mapVars, dbVars
  <2> QED
      BY <1>0, <1>4, <2>1, <2>2, KindlyMeans, ItemsKept
<1>7. PlayInv'
  <2>0. session' = session /\ session[p] = "logout"
      BY <1>0, <1>1, <1>4 DEF PlayInv, LogoutOnce, mapVars
  <2>1. /\ \A i \in DOMAIN toChar : i # 1 /\ IsFinal(toChar[i]) => toChar[i].who # p
        /\ \A i \in DOMAIN toMap : IsAck(toMap[i]) => toMap[i].who # p
      BY <1>0, <1>1, <1>4 DEF PlayInv, LogoutOnce
  <2>2. \A i \in DOMAIN toChar : IsLoad(toChar[i]) => toChar[i].who # p
    <3> SUFFICES ASSUME NEW i \in DOMAIN toChar, IsLoad(toChar[i]), toChar[i].who = p PROVE FALSE
        OBVIOUS
    <3>1. i < 1 /\ i \in Nat /\ i >= 1
        BY <1>0, <1>1, <1>4 DEF PlayInv, LoadsBeforeLogout
    <3> QED
        BY <3>1
  <2> HIDE DEF p
  <2>3. \A i \in DOMAIN toChar' : /\ i + 1 \in DOMAIN toChar /\ toChar'[i] = toChar[i + 1] /\ i + 1 # 1 /\ i \in Nat
                                  /\ IsFinal(toChar'[i]) \/ IsLoad(toChar'[i]) => toChar'[i].who # p
      BY <1>4, <2>1, <2>2 DEF Answered
  <2>4. \A i \in DOMAIN toMap' : /\ i \in Nat
                                 /\ \/ i \in DOMAIN toMap /\ toMap'[i] = toMap[i]
                                    \/ toMap'[i] = m /\ i = Len(toMap) + 1 /\ \A j \in DOMAIN toMap : j \in Nat /\ j < i
      BY <1>4 DEF Answered
  <2>5. LogoutOnce'
    <3>1. (\A i \in DOMAIN toChar : IsFinal(toChar[i]) => session[toChar[i].who] = "logout")'
        BY <1>0, <2>0, <2>3 DEF PlayInv, LogoutOnce
    <3>2. (\A i \in DOMAIN toMap : IsAck(toMap[i]) => session[toMap[i].who] = "logout")'
        BY <1>0, <1>3, <2>0, <2>4 DEF PlayInv, LogoutOnce
    <3>3. (\A i, j \in DOMAIN toChar :
            IsFinal(toChar[i]) /\ IsFinal(toChar[j]) /\ i # j => toChar[i].who # toChar[j].who)'
        BY <1>0, <2>3 DEF PlayInv, LogoutOnce
    <3>4. (\A i, j \in DOMAIN toMap :
            IsAck(toMap[i]) /\ IsAck(toMap[j]) /\ i # j => toMap[i].who # toMap[j].who)'
        BY <1>0, <1>3, <2>1, <2>4 DEF PlayInv, LogoutOnce
    <3>5. (\A i \in DOMAIN toMap, j \in DOMAIN toChar :
            IsAck(toMap[i]) /\ IsFinal(toChar[j]) => toMap[i].who # toChar[j].who)'
        BY <1>0, <1>3, <2>3, <2>4 DEF PlayInv, LogoutOnce
    <3> QED
        BY <3>1, <3>2, <3>3, <3>4, <3>5 DEF LogoutOnce
  <2>6. LoadsBeforeLogout'
    <3>1. (\A i, j \in DOMAIN toChar :
            IsFinal(toChar[i]) /\ IsLoad(toChar[j]) /\ toChar[i].who = toChar[j].who => j < i)'
        BY <1>0, <2>3 DEF PlayInv, LoadsBeforeLogout
    <3>2. (\A i, j \in DOMAIN toMap :
            IsAck(toMap[i]) /\ IsLoad(toMap[j]) /\ toMap[i].who = toMap[j].who => j < i)'
        BY <1>0, <1>3, <2>4 DEF PlayInv, LoadsBeforeLogout
    <3>3. (\A i \in DOMAIN toMap, j \in DOMAIN toChar :
            IsAck(toMap[i]) /\ IsLoad(toChar[j]) => toMap[i].who # toChar[j].who)'
        BY <1>0, <1>3, <2>3, <2>4 DEF PlayInv, LoadsBeforeLogout
    <3> QED
        BY <3>1, <3>2, <3>3 DEF LoadsBeforeLogout
  <2>7. LoadersPlayed'
      BY <1>0, <1>3, <2>0, <2>3, <2>4 DEF PlayInv, LoadersPlayed
  <2> QED
      BY <2>5, <2>6, <2>7 DEF PlayInv
<1> QED
    BY <1>5, <1>6, <1>7 DEF Inv

\* A load is answered with the items of the database.
LEMMA LoadHandled ==
    ASSUME Inv, HandleLoad, UNCHANGED <<mapVars, up, losses, discarded>>
    PROVE  Inv'
<1> DEFINE p == Head(toChar).who
           m == [type |-> "load", who |-> p, items |-> dbGuild]
<1>0. TInv /\ ItemInv /\ PlayInv /\ OpenInGame
    BY DEF Inv
<1>1. /\ toChar # <<>> /\ toChar' = Tail(toChar) /\ up' = up /\ toMap' = Append(toMap, m)
      /\ IsLoad(Head(toChar)) /\ UNCHANGED <<mapVars, dbVars>>
    BY DEF HandleLoad, Take, Reply, IsLoad
<1>2. p \in Member /\ dbGuild \in 0..Slots
    BY <1>0, <1>1, CharMsgFacts DEF TInv, LinkTyped, PlayersTyped, IsLoad
<1>3. m \in MapMsg /\ IsLoad(m) /\ ~IsAck(m) /\ ~IsStored(m) /\ m.who = p /\ m.items = dbGuild
    BY <1>2 DEF MapMsg, IsLoad, IsAck, IsStored
<1> HIDE DEF m
<1>4. /\ LinkTyped' /\ Answered(m)
      /\ 1 \in DOMAIN toChar /\ toChar[1] = Head(toChar)
  <2>1. {m} \in SUBSET MapMsg /\ \E x \in {m} : toMap' = Append(toMap, x)
      BY <1>1, <1>3
  <2>2. LinkTyped' /\ Answered(m)
      BY <1>0, <1>1, <1>3, AnswerTyped
  <2> QED
      BY <1>0, <1>1, <2>1, <2>2, TakeTyped
<1>5. TInv' /\ OpenInGame'
    BY <1>0, <1>1, <1>4 DEF TInv, PlayersTyped, StorTyped, OpenInGame, mapVars, dbVars
<1>6. \A i \in DOMAIN toChar' : i + 1 \in DOMAIN toChar /\ toChar'[i] = toChar[i + 1] /\ i \in Nat
    BY <1>4 DEF Answered
<1>7. \A i \in DOMAIN toMap' : i \in Nat /\ ((i \in DOMAIN toMap /\ toMap'[i] = toMap[i]) \/ toMap'[i] = m)
    BY <1>4 DEF Answered
<1>8. ItemInv'
  <2>1. UNCHANGED <<stor, dbGuild>> /\ InStorage' = InStorage
      BY <1>1 DEF mapVars, dbVars, InStorage
  <2>2. NothingSaved'
      BY <1>0, <1>3, <1>6, <1>7, <2>1 DEF ItemInv, NothingSaved
  <2>3. \A i \in DOMAIN toMap : ~IsStored(toMap[i])
      BY <1>0, <1>1, <1>4 DEF ItemInv, LoadsFirst
  <2>4. \A i \in DOMAIN toMap' : ~IsStored(toMap'[i])
      BY <1>3, <1>7, <2>3
  <2>5. LoadsFirst'
    <3>1. (\A i, j \in DOMAIN toChar : IsStorage(toChar[i]) /\ IsLoad(toChar[j]) => j < i)'
        BY <1>0, <1>6 DEF ItemInv, LoadsFirst
    <3> QED
        BY <2>4, <3>1 DEF LoadsFirst
  <2>6. LoadsAgree'
    <3>1. ~stor.dirty => dbGuild = InStorage
        BY <1>0, <1>1, <1>4 DEF ItemInv, LoadsAgree
    <3> QED
        BY <1>0, <1>3, <1>6, <1>7, <2>1, <3>1 DEF ItemInv, LoadsAgree
  <2> QED
      BY <2>2, <2>5, <2>6 DEF ItemInv
<1>9. PlayInv'
  <2>0. session' = session /\ session[p] \in {"in", "logout"}
      BY <1>0, <1>1, <1>4 DEF PlayInv, LoadersPlayed, mapVars
  <2>1. \A i \in DOMAIN toMap : IsAck(toMap[i]) => toMap[i].who # p
      BY <1>0, <1>1, <1>4 DEF PlayInv, LoadsBeforeLogout
  <2> HIDE DEF p
  <2>2. LogoutOnce'
    <3>1. (\A i, j \in DOMAIN toChar :
            IsFinal(toChar[i]) /\ IsFinal(toChar[j]) /\ i # j => toChar[i].who # toChar[j].who)'
        BY <1>0, <1>6 DEF PlayInv, LogoutOnce
    <3>2. (\A i, j \in DOMAIN toMap :
            IsAck(toMap[i]) /\ IsAck(toMap[j]) /\ i # j => toMap[i].who # toMap[j].who)'
        BY <1>0, <1>3, <1>7 DEF PlayInv, LogoutOnce
    <3>3. (\A i \in DOMAIN toMap, j \in DOMAIN toChar :
            IsAck(toMap[i]) /\ IsFinal(toChar[j]) => toMap[i].who # toChar[j].who)'
        BY <1>0, <1>3, <1>6, <1>7 DEF PlayInv, LogoutOnce
    <3>4. (\A i \in DOMAIN toChar : IsFinal(toChar[i]) => session[toChar[i].who] = "logout")'
        BY <1>0, <1>6, <2>0 DEF PlayInv, LogoutOnce
    <3>5. (\A i \in DOMAIN toMap : IsAck(toMap[i]) => session[toMap[i].who] = "logout")'
        BY <1>0, <1>3, <1>7, <2>0 DEF PlayInv, LogoutOnce
    <3> QED
        BY <3>1, <3>2, <3>3, <3>4, <3>5 DEF LogoutOnce
  <2>3. LoadsBeforeLogout'
    <3>1. (\A i, j \in DOMAIN toChar :
            IsFinal(toChar[i]) /\ IsLoad(toChar[j]) /\ toChar[i].who = toChar[j].who => j < i)'
        BY <1>0, <1>6 DEF PlayInv, LoadsBeforeLogout
    <3>2. (\A i, j \in DOMAIN toMap :
            IsAck(toMap[i]) /\ IsLoad(toMap[j]) /\ toMap[i].who = toMap[j].who => j < i)'
        BY <1>0, <1>3, <1>7, <2>1 DEF PlayInv, LoadsBeforeLogout
    <3>3. (\A i \in DOMAIN toMap, j \in DOMAIN toChar :
            IsAck(toMap[i]) /\ IsLoad(toChar[j]) => toMap[i].who # toChar[j].who)'
        BY <1>0, <1>3, <1>6, <1>7 DEF PlayInv, LoadsBeforeLogout
    <3> QED
        BY <3>1, <3>2, <3>3 DEF LoadsBeforeLogout
  <2>4. LoadersPlayed'
      BY <1>0, <1>3, <1>6, <1>7, <2>0 DEF PlayInv, LoadersPlayed
  <2> QED
      BY <2>2, <2>3, <2>4 DEF PlayInv
<1> QED
    BY <1>5, <1>8, <1>9 DEF Inv

-----------------------------------------------------------------------------
(* The map server.                                                         *)

\* The first packet of the queue to the map server, and the rest.
LEMMA ReceiveTyped ==
    ASSUME TInv, toMap # <<>>, toMap' = Tail(toMap), UNCHANGED <<up, toChar>>
    PROVE  /\ LinkTyped'
           /\ Behind(toMap', toMap, 1, {}) /\ Behind(toChar', toChar, 0, {})
           /\ 1 \in DOMAIN toMap /\ toMap[1] = Head(toMap) /\ Head(toMap) \in MapMsg
           /\ \A i \in DOMAIN toMap : i \in Nat /\ i >= 1
           /\ \A i \in DOMAIN toMap' : i \in Nat /\ i >= 1 /\ i + 1 \in DOMAIN toMap /\ toMap'[i] = toMap[i + 1]
<1>1. toChar \in Seq(CharMsg) /\ toMap \in Seq(MapMsg) /\ up
    BY DEF TInv, LinkTyped
<1>2. Tail(toMap) \in Seq(MapMsg) /\ Behind(toMap', toMap, 1, {}) /\ Behind(toChar', toChar, 0, {})
    BY <1>1, QueueSteps
<1>3. /\ 1 \in DOMAIN toMap /\ toMap[1] = Head(toMap) /\ Head(toMap) \in MapMsg
      /\ \A i \in DOMAIN toMap : i \in Nat /\ i >= 1
      /\ \A i \in DOMAIN toMap' : i \in Nat /\ i >= 1 /\ i + 1 \in DOMAIN toMap /\ toMap'[i] = toMap[i + 1]
    BY <1>1
<1> QED
    BY <1>1, <1>2, <1>3 DEF LinkTyped

\* Packets that do not concern loads and logouts.
LEMMA ReceivedKindly ==
    ASSUME Inv, toMap # <<>>, toMap' = Tail(toMap), UNCHANGED <<up, toChar>>,
           PlayersTyped', OpenInGame', Kindly, dbGuild' = dbGuild,
           \A p \in Member : session[p] \in {"in", "logout"} => session'[p] = session[p]
    PROVE  Inv'
<1>0. TInv /\ ItemInv /\ PlayInv /\ OpenInGame
    BY DEF Inv
<1>1. LinkTyped' /\ Behind(toMap', toMap, 1, {}) /\ Behind(toChar', toChar, 0, {})
    BY <1>0, ReceiveTyped
<1>2. ItemInv'
    BY <1>0, <1>1, KindlyMeans, ItemsKept
<1>3. PlayInv'
    BY <1>0, <1>1, PlayKept
<1> QED
    BY <1>1, <1>2, <1>3 DEF Inv, TInv, Kindly

\* Inventories and bound items arrive, the storage is unlocked.
LEMMA InventoryReceived ==
    ASSUME Inv, ReceiveInventory \/ ReceiveUnlock \/ ReceiveBoundItems, UNCHANGED <<member, dbVars, up, losses>>
    PROVE  Inv'
<1>0. TInv /\ OpenInGame
    BY DEF Inv
<1>1. toMap # <<>> /\ toMap' = Tail(toMap) /\ UNCHANGED <<up, toChar>> /\ dbGuild' = dbGuild /\ open' = open
    BY DEF ReceiveInventory, ReceiveUnlock, ReceiveBoundItems, Receive, dbVars
<1>2. Head(toMap) \in MapMsg
    BY <1>0, <1>1, ReceiveTyped
<1>3. CASE ReceiveInventory
  <2>1. Head(toMap).who \in Member /\ Head(toMap).items \in Nat
      BY <1>2, <1>3, MapMsgFacts DEF ReceiveInventory, Receive
  <2>2. Kindly
      BY <1>0, <1>3, StorSteps DEF ReceiveInventory
  <2>3. /\ session' \in [Member -> {"in", "loading", "logout", "out"}]
        /\ inv' \in [Member -> {NotLoaded} \cup Nat]
        /\ \A p \in Member : session[p] \in {"in", "logout"} => session'[p] = session[p]
        /\ discarded' = discarded
      BY <1>0, <1>3, <2>1 DEF ReceiveInventory, TInv, PlayersTyped
  <2>4. PlayersTyped' /\ OpenInGame'
      BY <1>0, <1>1, <2>3 DEF TInv, PlayersTyped, OpenInGame, dbVars
  <2> QED
      BY <1>1, <2>2, <2>3, <2>4, ReceivedKindly
<1>4. CASE ReceiveUnlock
  <2>1. Kindly
      BY <1>0, <1>4, StorSteps DEF ReceiveUnlock
  <2>2. PlayersTyped' /\ OpenInGame' /\ session' = session
      BY <1>0, <1>4 DEF ReceiveUnlock, TInv, PlayersTyped, OpenInGame, dbVars
  <2> QED
      BY <1>1, <2>1, <2>2, ReceivedKindly
<1>5. CASE ReceiveBoundItems
  <2>1. Head(toMap).items \in Nat
      BY <1>2, <1>5, MapMsgFacts DEF ReceiveBoundItems, Receive
  <2>2. Kindly /\ Kept(Head(toMap).items) \in 0..Head(toMap).items
      BY <1>0, <1>5, <2>1, DepositFits DEF ReceiveBoundItems
  <2>3. discarded' \in Nat
    <3>1. discarded' = discarded + Head(toMap).items - Kept(Head(toMap).items)
        BY <1>5 DEF ReceiveBoundItems
    <3>2. ASSUME NEW n \in Nat, NEW k \in 0..n PROVE discarded + n - k \in Nat
        BY <1>0 DEF TInv, PlayersTyped
    <3> QED
        BY <2>1, <2>2, <3>1, <3>2
  <2>4. PlayersTyped' /\ OpenInGame' /\ session' = session
      BY <1>0, <1>5, <2>3 DEF ReceiveBoundItems, TInv, PlayersTyped, OpenInGame, dbVars
  <2> QED
      BY <1>1, <2>2, <2>4, ReceivedKindly
<1> QED
    BY <1>3, <1>4, <1>5

\* The storage counts as saved: no load is under way.
LEMMA StoredReceived ==
    ASSUME Inv, ReceiveStored, UNCHANGED <<member, dbVars, up, losses>>
    PROVE  Inv'
<1>0. TInv /\ ItemInv /\ PlayInv /\ OpenInGame
    BY DEF Inv
<1>1. /\ toMap # <<>> /\ toMap' = Tail(toMap) /\ UNCHANGED <<up, toChar>> /\ dbGuild' = dbGuild
      /\ session' = session /\ IsStored(Head(toMap))
    BY DEF ReceiveStored, Receive, dbVars, IsStored
<1>2. /\ LinkTyped' /\ Behind(toMap', toMap, 1, {}) /\ Behind(toChar', toChar, 0, {})
      /\ 1 \in DOMAIN toMap /\ toMap[1] = Head(toMap)
      /\ \A i \in DOMAIN toMap : i \in Nat /\ i >= 1
      /\ \A i \in DOMAIN toMap' : i \in Nat /\ i >= 1 /\ i + 1 \in DOMAIN toMap /\ toMap'[i] = toMap[i + 1]
    BY <1>0, <1>1, ReceiveTyped
<1>3. PlayersTyped' /\ OpenInGame'
    BY <1>0 DEF ReceiveStored, TInv, PlayersTyped, OpenInGame, dbVars
<1>4. StorTyped' /\ stor'.max = stor.max
  <2>1. (stor.dirty /\ stor.status) \in BOOLEAN
      BY <1>0 DEF TInv, StorTyped, Storage
  <2>2. ASSUME NEW b \in BOOLEAN, b => stor.dirty, stor' = [stor EXCEPT !.dirty = b]
        PROVE  StorTyped' /\ stor'.max = stor.max
      BY <1>0, <2>2 DEF TInv, StorTyped, Storage
  <2> QED
      BY <2>1, <2>2 DEF ReceiveStored
<1>5. /\ \A i \in DOMAIN toMap' : ~IsLoad(toMap'[i])
      /\ \A i \in DOMAIN toChar' : ~IsLoad(toChar'[i])
    BY <1>0, <1>1, <1>2 DEF ItemInv, LoadsFirst
<1>6. ItemInv'
  <2>1. NothingSaved'
      BY <1>0, <1>1, <1>2, <1>4 DEF ItemInv, NothingSaved
  <2> QED
      BY <1>5, <2>1 DEF ItemInv, LoadsFirst, LoadsAgree
<1>7. PlayInv'
    BY <1>0, <1>1, <1>2, PlayKept
<1> QED
    BY <1>2, <1>3, <1>4, <1>6, <1>7 DEF Inv, TInv

\* The logout ends: no load of its player is under way.
LEMMA AckReceived ==
    ASSUME Inv, ReceiveSaveAck, UNCHANGED <<member, dbVars, up, losses>>
    PROVE  Inv'
<1> DEFINE p == Head(toMap).who
<1>0. TInv /\ ItemInv /\ PlayInv /\ OpenInGame
    BY DEF Inv
<1>1. /\ toMap # <<>> /\ toMap' = Tail(toMap) /\ UNCHANGED <<up, toChar>> /\ dbGuild' = dbGuild
      /\ stor' = stor /\ IsAck(Head(toMap)) /\ UNCHANGED <<member, inv, open, dbInv, losses, discarded>>
    BY DEF ReceiveSaveAck, Receive, dbVars, IsAck
<1>2. /\ LinkTyped' /\ Behind(toMap', toMap, 1, {}) /\ Behind(toChar', toChar, 0, {})
      /\ 1 \in DOMAIN toMap /\ toMap[1] = Head(toMap) /\ Head(toMap) \in MapMsg
      /\ \A i \in DOMAIN toMap : i \in Nat /\ i >= 1
      /\ \A i \in DOMAIN toMap' : i \in Nat /\ i >= 1 /\ i + 1 \in DOMAIN toMap /\ toMap'[i] = toMap[i + 1]
    BY <1>0, <1>1, ReceiveTyped
<1>3. p \in Member
    BY <1>1, <1>2, MapMsgFacts DEF IsAck
<1>4. session[p] = "logout"
    BY <1>0, <1>1, <1>2 DEF PlayInv, LogoutOnce
<1>5. /\ session' \in [Member -> {"in", "loading", "logout", "out"}]
      /\ \A q \in Member : q # p => session'[q] = session[q]
      /\ session'[p] = "out"
  <2>1. session' = [session EXCEPT ![p] = IF @ = "logout" THEN "out" ELSE @]
      BY DEF ReceiveSaveAck
  <2> HIDE DEF p
  <2> QED
      BY <1>0, <1>3, <1>4, <2>1 DEF TInv, PlayersTyped
<1>6. PlayersTyped' /\ OpenInGame' /\ StorTyped'
    BY <1>0, <1>1, <1>3, <1>4, <1>5 DEF TInv, PlayersTyped, OpenInGame, StorTyped
<1>7. ItemInv'
  <2>1. Kindly
      BY <1>0, <1>1, StorSteps
  <2> QED
      BY <1>0, <1>1, <1>2, <2>1, KindlyMeans, ItemsKept
<1>8. PlayInv'
  <2>1. \A i \in DOMAIN toChar : IsFinal(toChar[i]) \/ IsLoad(toChar[i]) => toChar[i].who # p
      BY <1>0, <1>1, <1>2 DEF PlayInv, LogoutOnce, LoadsBeforeLogout
  <2>2. \A i \in DOMAIN toMap : i # 1 /\ IsAck(toMap[i]) => toMap[i].who # p
      BY <1>0, <1>1, <1>2 DEF PlayInv, LogoutOnce
  <2>3. \A i \in DOMAIN toMap : IsLoad(toMap[i]) => toMap[i].who # p
    <3> SUFFICES ASSUME NEW i \in DOMAIN toMap, IsLoad(toMap[i]), toMap[i].who = p PROVE FALSE
        OBVIOUS
    <3>1. i < 1 /\ i \in Nat /\ i >= 1
        BY <1>0, <1>1, <1>2 DEF PlayInv, LoadsBeforeLogout
    <3> QED
        BY <3>1
  <2> HIDE DEF p
  <2>4. \A i \in DOMAIN toMap' : /\ i + 1 \in DOMAIN toMap /\ toMap'[i] = toMap[i + 1] /\ i \in Nat
                                 /\ IsAck(toMap'[i]) \/ IsLoad(toMap'[i]) => toMap'[i].who # p
      BY <1>2, <2>2, <2>3
  <2>5. toChar' = toChar
      BY <1>1
  <2>6. LogoutOnce'
    <3>1. (\A i \in DOMAIN toChar : IsFinal(toChar[i]) => session[toChar[i].who] = "logout")'
        BY <1>0, <1>5, <2>1, <2>5, Named DEF PlayInv, LogoutOnce
    <3>2. (\A i \in DOMAIN toMap : IsAck(toMap[i]) => session[toMap[i].who] = "logout")'
        BY <1>0, <1>5, <2>4, Named DEF PlayInv, LogoutOnce
    <3>3. (\A i, j \in DOMAIN toMap :
            IsAck(toMap[i]) /\ IsAck(toMap[j]) /\ i # j => toMap[i].who # toMap[j].who)'
        BY <1>0, <2>4 DEF PlayInv, LogoutOnce
    <3>4. (\A i \in DOMAIN toMap, j \in DOMAIN toChar :
            IsAck(toMap[i]) /\ IsFinal(toChar[j]) => toMap[i].who # toChar[j].who)'
        BY <1>0, <2>4, <2>5 DEF PlayInv, LogoutOnce
    <3> QED
        BY <1>0, <2>5, <3>1, <3>2, <3>3, <3>4 DEF PlayInv, LogoutOnce
  <2>7. LoadsBeforeLogout'
      BY <1>0, <2>4, <2>5 DEF PlayInv, LoadsBeforeLogout
  <2>8. LoadersPlayed'
      BY <1>0, <1>5, <2>1, <2>4, <2>5, Named DEF PlayInv, LoadersPlayed
  <2> QED
      BY <2>6, <2>7, <2>8 DEF PlayInv
<1> QED
    BY <1>2, <1>6, <1>7, <1>8 DEF Inv, TInv

\* The answer to a load fills a storage that was not loaded; another one keeps
\* its items.
LEMMA LoadEffect ==
    ASSUME Inv, ReceiveLoad, UNCHANGED <<member, dbVars, up, losses>>
    PROVE  /\ toChar' = toChar
           /\ StorTyped'
           /\ stor'.max = 0 => stor.max = 0
           /\ ~stor'.dirty => ~stor.dirty /\ InStorage' = InStorage
           /\ stor.max # 0 => stor'.items = stor.items
           /\ open' \subseteq open \cup {p \in member : session[p] = "in"}
<1> DEFINE m == Head(toMap)
           fresh == [Found EXCEPT !.items = m.items, !.max = Slots, !.lock = FALSE]
<1>0. TInv /\ ItemInv /\ PlayInv /\ OpenInGame
    BY DEF Inv
<1>1. toMap # <<>> /\ IsLoad(m) /\ dbGuild' = dbGuild
    BY DEF ReceiveLoad, Receive, IsLoad, dbVars
<1>2. m \in MapMsg /\ 1 \in DOMAIN toMap /\ toMap[1] = m
    BY <1>0, <1>1 DEF TInv, LinkTyped
<1>3. m.who \in Member /\ m.items \in 0..Slots
    BY <1>1, <1>2, MapMsgFacts
<1>4. session[m.who] \in {"in", "logout"} /\ (~stor.dirty => m.items = InStorage)
    BY <1>0, <1>1, <1>2 DEF PlayInv, LoadersPlayed, ItemInv, LoadsAgree
<1>5. CASE ~Replaceable(m.who)
  <2>1. UNCHANGED <<stor, open, toChar>>
      BY <1>5 DEF ReceiveLoad
  <2> QED
      BY <1>0, <1>1, <2>1 DEF TInv, StorTyped, InStorage
<1>6. CASE Replaceable(m.who)
  <2>1. session[m.who] = "in" /\ ~stor.dirty
      BY <1>4, <1>6 DEF Replaceable
  <2>2. /\ fresh \in Storage /\ fresh.known /\ fresh.items = m.items /\ fresh.max = Slots /\ ~fresh.dirty
        /\ [fresh EXCEPT !.status = TRUE] \in Storage
        /\ [fresh EXCEPT !.status = TRUE].known
        /\ [fresh EXCEPT !.status = TRUE].items = m.items
        /\ [fresh EXCEPT !.status = TRUE].max = Slots
        /\ ~[fresh EXCEPT !.status = TRUE].dirty
    <3>1. ASSUME NEW n \in 0..Slots, NEW g, g = [Found EXCEPT !.items = n, !.max = Slots, !.lock = FALSE]
          PROVE  /\ g \in Storage /\ g.known /\ g.items = n /\ g.max = Slots /\ ~g.dirty
                 /\ [g EXCEPT !.status = TRUE] \in Storage
                 /\ [g EXCEPT !.status = TRUE].known
                 /\ [g EXCEPT !.status = TRUE].items = n
                 /\ [g EXCEPT !.status = TRUE].max = Slots
                 /\ ~[g EXCEPT !.status = TRUE].dirty
        BY <1>0, <2>1, <3>1 DEF TInv, StorTyped, Storage, Found
    <3> QED
        BY <1>3, <3>1
  <2>3. /\ toChar' = toChar
        /\ stor' = fresh \/ stor' = [fresh EXCEPT !.status = TRUE]
        /\ open' = open \/ (open' = open \cup {m.who} /\ m.who \in member)
    <3>1. CASE m.who \in member /\ m.who \notin open
      <4>1. Opened(m.who, fresh)
          BY <1>6, <3>1 DEF ReceiveLoad
      <4> HIDE DEF fresh, m
      <4> QED
          BY <2>2, <3>1, <4>1 DEF Opened
    <3>2. CASE ~(m.who \in member /\ m.who \notin open)
        BY <1>6, <3>2 DEF ReceiveLoad
    <3> QED
        BY <3>1, <3>2
  <2> HIDE DEF fresh, m
  <2>4. stor' \in Storage /\ stor'.known /\ stor'.items = m.items /\ stor'.max = Slots /\ ~stor'.dirty
      BY <2>2, <2>3
  <2>5. StorTyped' /\ stor'.max # 0
      BY <2>4, StorageBounds DEF StorTyped
  <2>6. InStorage' = InStorage /\ (stor.max # 0 => stor'.items = stor.items)
      BY <1>4, <2>1, <2>4, <2>5 DEF InStorage
  <2>7. open' \subseteq open \cup {p \in member : session[p] = "in"}
      BY <1>3, <2>1, <2>3
  <2> QED
      BY <2>1, <2>3, <2>5, <2>6, <2>7
<1> QED
    BY <1>5, <1>6

\* So the answer to a load keeps the invariant.
LEMMA LoadReceived ==
    ASSUME Inv, ReceiveLoad, UNCHANGED <<member, dbVars, up, losses>>
    PROVE  Inv'
<1>0. TInv /\ ItemInv /\ PlayInv /\ OpenInGame
    BY DEF Inv
<1>1. /\ toChar' = toChar
      /\ StorTyped'
      /\ stor'.max = 0 => stor.max = 0
      /\ ~stor'.dirty => ~stor.dirty /\ InStorage' = InStorage
      /\ open' \subseteq open \cup {p \in member : session[p] = "in"}
    BY LoadEffect
<1>2. toMap # <<>> /\ toMap' = Tail(toMap) /\ UNCHANGED <<up, dbGuild, dbInv, session, inv, member, discarded, losses>>
    BY DEF ReceiveLoad, Receive, dbVars
<1>3. LinkTyped' /\ Behind(toMap', toMap, 1, {}) /\ Behind(toChar', toChar, 0, {})
    BY <1>0, <1>1, <1>2, ReceiveTyped
<1>4. ItemInv'
    BY <1>0, <1>1, <1>2, <1>3, ItemsKept
<1>5. PlayInv'
    BY <1>0, <1>2, <1>3, PlayKept
<1>6. PlayersTyped' /\ OpenInGame'
    BY <1>0, <1>1, <1>2 DEF TInv, PlayersTyped, OpenInGame
<1> QED
    BY <1>1, <1>3, <1>4, <1>5, <1>6 DEF Inv, TInv

-----------------------------------------------------------------------------
(* The link.                                                               *)

\* The link breaks: nothing is under way any more.
LEMMA LinkLostKeeps ==
    ASSUME Inv, LinkLost
    PROVE  Inv'
<1>0. TInv /\ ItemInv /\ PlayInv /\ OpenInGame
    BY DEF Inv
<1>1. Behind(toChar', toChar, 0, {}) /\ Behind(toMap', toMap, 0, {})
    BY <1>0, QueueSteps DEF LinkLost, TInv, LinkTyped
<1>2. Kindly /\ dbGuild' = dbGuild /\ session' = session
    BY <1>0, StorSteps DEF LinkLost, mapVars, dbVars
<1>3. LinkTyped'
  <2>1. <<>> \in Seq(CharMsg) /\ <<>> \in Seq(MapMsg)
      OBVIOUS
  <2>2. up' = FALSE /\ toChar' = <<>> /\ toMap' = <<>>
      BY DEF LinkLost
  <2> QED
      BY <2>1, <2>2 DEF LinkTyped
<1>4. PlayersTyped' /\ OpenInGame'
    BY <1>0, StorageBounds DEF LinkLost, TInv, PlayersTyped, OpenInGame, mapVars, dbVars
<1>5. ItemInv'
    BY <1>0, <1>1, <1>2, KindlyMeans, ItemsKept
<1>6. PlayInv'
    BY <1>0, <1>1, <1>2, PlayKept
<1> QED
    BY <1>2, <1>3, <1>4, <1>5, <1>6 DEF Inv, TInv, Kindly

\* The final saves that are repeated: each member's inventory and final save.
LEMMA RepeatedPackets ==
    ASSUME TInv, NEW leaving \in Orders(Leaving)
    PROVE  /\ Repeated(leaving) \in Seq(CharMsg)
           /\ \A i \in DOMAIN Repeated(leaving) :
                 /\ ~IsLoad(Repeated(leaving)[i]) /\ ~IsStorage(Repeated(leaving)[i])
                 /\ IsFinal(Repeated(leaving)[i]) => Repeated(leaving)[i].who \in Leaving
           /\ \A i, j \in DOMAIN Repeated(leaving) :
                 IsFinal(Repeated(leaving)[i]) /\ IsFinal(Repeated(leaving)[j]) /\ i # j
                 => Repeated(leaving)[i].who # Repeated(leaving)[j].who
<1>1. Leaving \subseteq Member /\ Cardinality(Leaving) \in Nat
  <2>1. Leaving \subseteq Member
      BY DEF Leaving
  <2> QED
      BY <2>1, StorageBounds, FS_Subset, FS_CardinalityType
<1>2. PICK n \in Nat : /\ leaving \in [1..n -> Leaving]
                       /\ \A i, j \in 1..n : leaving[i] = leaving[j] => i = j
    BY <1>1 DEF Orders
<1>3. Len(leaving) = n
    BY <1>2
<1>4. \A i \in 1..(2 * n) : (i + 1) \div 2 \in 1..n /\ i \in Nat
    OBVIOUS
<1>5. \A i, j \in 1..(2 * n) : i % 2 # 1 /\ j % 2 # 1 /\ (i + 1) \div 2 = (j + 1) \div 2 => i = j
    OBVIOUS
<1>6. ASSUME NEW p \in Member
      PROVE  /\ Final(p)[1] \in CharMsg /\ ~IsLoad(Final(p)[1]) /\ ~IsStorage(Final(p)[1]) /\ ~IsFinal(Final(p)[1])
             /\ Final(p)[2] \in CharMsg /\ ~IsLoad(Final(p)[2]) /\ ~IsStorage(Final(p)[2]) /\ Final(p)[2].who = p
  <2>1. Final(p)[1] = SaveInventory(p) /\ Final(p)[2] = [type |-> "final", who |-> p]
      BY DEF Final
  <2>2. SaveInventory(p) \in CharMsg /\ [type |-> "final", who |-> p] \in CharMsg
      BY <1>6, Packets DEF Saving
  <2> QED
      BY <2>1, <2>2 DEF SaveInventory, IsLoad, IsStorage, IsFinal
<1>7. /\ DOMAIN Repeated(leaving) = 1..(2 * n)
      /\ \A i \in 1..(2 * n) : Repeated(leaving)[i] = Final(leaving[(i + 1) \div 2])[IF i % 2 = 1 THEN 1 ELSE 2]
    BY <1>3 DEF Repeated
<1>8. \A i \in 1..(2 * n) : leaving[(i + 1) \div 2] \in Leaving
    BY <1>2, <1>4
<1>9. \A i \in 1..(2 * n) :
        /\ Repeated(leaving)[i] \in CharMsg
        /\ ~IsLoad(Repeated(leaving)[i]) /\ ~IsStorage(Repeated(leaving)[i])
        /\ IsFinal(Repeated(leaving)[i]) => i % 2 # 1 /\ Repeated(leaving)[i].who = leaving[(i + 1) \div 2]
  <2> SUFFICES ASSUME NEW i \in 1..(2 * n)
               PROVE  /\ Repeated(leaving)[i] \in CharMsg
                      /\ ~IsLoad(Repeated(leaving)[i]) /\ ~IsStorage(Repeated(leaving)[i])
                      /\ IsFinal(Repeated(leaving)[i]) => i % 2 # 1 /\ Repeated(leaving)[i].who = leaving[(i + 1) \div 2]
      OBVIOUS
  <2>1. leaving[(i + 1) \div 2] \in Member
      BY <1>1, <1>8
  <2>2. CASE i % 2 = 1
      BY <1>6, <1>7, <2>1, <2>2
  <2>3. CASE i % 2 # 1
      BY <1>6, <1>7, <2>1, <2>3
  <2> QED
      BY <2>2, <2>3
<1>10. Repeated(leaving) \in Seq(CharMsg)
  <2>1. Repeated(leaving) = [i \in 1..(2 * n) |-> Repeated(leaving)[i]]
      BY <1>7 DEF Repeated
  <2>2. 2 * n \in Nat
      OBVIOUS
  <2> QED
      BY <1>9, <2>1, <2>2
<1>11. \A i, j \in 1..(2 * n) :
          IsFinal(Repeated(leaving)[i]) /\ IsFinal(Repeated(leaving)[j]) /\ i # j
          => Repeated(leaving)[i].who # Repeated(leaving)[j].who
    BY <1>2, <1>4, <1>5, <1>9
<1> QED
    BY <1>7, <1>8, <1>9, <1>10, <1>11

\* The link is up again: one final save for each logout, and no load.
LEMMA LinkReadyKeeps ==
    ASSUME Inv, LinkReady
    PROVE  Inv'
<1> DEFINE S == {m \in CharMsg : ~IsLoad(m) /\ (IsStorage(m) => stor.dirty)}
<1>0. TInv /\ ItemInv /\ PlayInv /\ OpenInGame
    BY DEF Inv
<1>1. toChar = <<>> /\ toMap = <<>> /\ toMap' = <<>> /\ up' = TRUE
    BY <1>0 DEF LinkReady, TInv, LinkTyped
<1>2. PICK leaving \in Orders(Leaving) :
         toChar' = Repeated(leaving) \o (IF stor.dirty /\ ~stor.status THEN << SaveStorage >> ELSE <<>>)
    BY DEF LinkReady
<1> DEFINE r == Repeated(leaving)
<1>3. /\ r \in Seq(CharMsg)
      /\ \A i \in DOMAIN r : ~IsLoad(r[i]) /\ ~IsStorage(r[i]) /\ (IsFinal(r[i]) => r[i].who \in Leaving)
      /\ \A i, j \in DOMAIN r : IsFinal(r[i]) /\ IsFinal(r[j]) /\ i # j => r[i].who # r[j].who
    BY <1>0, RepeatedPackets
<1>4. /\ stor.dirty => SaveStorage \in CharMsg
      /\ IsStorage(SaveStorage) /\ ~IsLoad(SaveStorage) /\ ~IsFinal(SaveStorage)
    BY <1>0 DEF TInv, StorTyped, Storage, SaveStorage, CharMsg, IsStorage, IsLoad, IsFinal
<1> HIDE DEF r
<1>5. /\ toChar' \in Seq(CharMsg)
      /\ \A i \in DOMAIN toChar' : i \in Nat /\ ((i \in DOMAIN r /\ toChar'[i] = r[i]) \/ (toChar'[i] = SaveStorage /\ stor.dirty))
  <2>1. CASE stor.dirty /\ ~stor.status
    <3>1. toChar' = r \o <<SaveStorage>>
        BY <1>2, <2>1 DEF r
    <3>2. <<SaveStorage>> \in Seq(CharMsg)
        BY <1>4, <2>1
    <3> QED
        BY <1>3, <2>1, <3>1, <3>2
  <2>2. CASE ~(stor.dirty /\ ~stor.status)
    <3>1. toChar' = r \o <<>>
        BY <1>2, <2>2 DEF r
    <3> QED
        BY <1>3, <3>1
  <2> QED
      BY <2>1, <2>2
<1>6. \A i \in DOMAIN toChar' : toChar'[i] \in CharMsg
    BY <1>5
<1>7. LinkTyped'
  <2>1. <<>> \in Seq(MapMsg)
      OBVIOUS
  <2> QED
      BY <1>1, <1>5, <2>1 DEF LinkTyped
<1>8. Kindly /\ dbGuild' = dbGuild /\ session' = session
    BY <1>0, StorSteps DEF LinkReady, mapVars, dbVars
<1>9. PlayersTyped' /\ OpenInGame'
    BY <1>0 DEF LinkReady, TInv, PlayersTyped, OpenInGame, mapVars, dbVars
<1>10. ItemInv'
  <2>1. Behind(toChar', toChar, 0, S)
      BY <1>1, <1>3, <1>4, <1>5, <1>6 DEF Behind
  <2>2. Behind(toMap', toMap, 0, {})
      BY <1>1 DEF Behind
  <2>3. \A m \in S : ~IsLoad(m) /\ (IsStorage(m) => stor.max # 0)
      BY <1>0 DEF TInv, StorTyped
  <2> QED
      BY <1>0, <1>8, <2>1, <2>2, <2>3, KindlyMeans, ItemsKept
<1>11. PlayInv'
  <2>1. \A i \in DOMAIN toMap' : FALSE
      BY <1>1
  <2>2. \A i \in DOMAIN toChar' : /\ ~IsLoad(toChar'[i])
                                  /\ IsFinal(toChar'[i]) => i \in DOMAIN r /\ toChar'[i] = r[i] /\ session'[toChar'[i].who] = "logout"
      BY <1>3, <1>4, <1>5, <1>8 DEF Leaving
  <2>3. LogoutOnce'
      BY <1>3, <2>1, <2>2 DEF LogoutOnce
  <2>4. LoadsBeforeLogout' /\ LoadersPlayed'
      BY <2>1, <2>2 DEF LoadsBeforeLogout, LoadersPlayed
  <2> QED
      BY <2>3, <2>4 DEF PlayInv
<1> QED
    BY <1>7, <1>8, <1>9, <1>10, <1>11 DEF Inv, TInv, Kindly

-----------------------------------------------------------------------------
(* The invariant and the theorems.                                         *)

\* The invariant holds at the start,
LEMMA InitInv == Init => Inv
<1> SUFFICES ASSUME Init PROVE Inv
    OBVIOUS
<1>1. PlayersTyped
    BY StorageBounds DEF Init, PlayersTyped, NotLoaded
<1>2. LinkTyped
  <2>1. <<>> \in Seq(CharMsg) /\ <<>> \in Seq(MapMsg)
      OBVIOUS
  <2> QED
      BY <2>1 DEF Init, LinkTyped
<1>3. StorTyped
    BY StorageBounds DEF Init, StorTyped, Storage, NoStorage
<1>4. toChar = <<>> /\ toMap = <<>>
    BY DEF Init
<1>5. (\A i \in DOMAIN toChar : FALSE) /\ (\A i \in DOMAIN toMap : FALSE)
    BY <1>4
<1>6. ItemInv
    BY <1>5 DEF ItemInv, NothingSaved, LoadsFirst, LoadsAgree
<1>7. PlayInv
    BY <1>5 DEF PlayInv, LogoutOnce, LoadsBeforeLogout, LoadersPlayed
<1>8. OpenInGame
    BY DEF Init, OpenInGame
<1> QED
    BY <1>1, <1>2, <1>3, <1>6, <1>7, <1>8 DEF Inv, TInv

\* every step keeps it,
LEMMA NextInv == Inv /\ [Next]_vars => Inv'
<1> SUFFICES ASSUME Inv, [Next]_vars PROVE Inv'
    OBVIOUS
<1>0. TInv /\ OpenInGame
    BY DEF Inv
<1>1. ASSUME NEW p \in Member, PlayerStep(p) PROVE Inv'
    BY <1>0, <1>1, OpenStep, CloseStep, ItemStep, AutoSaveStep, LoginStep, WithdrawStep, MildKeeps, AsksKeeps, QuitKeeps
       DEF PlayerStep
<1>2. CASE CharPacket
    BY <1>2, InventoryHandled, StorageHandled, FinalHandled, LoadHandled DEF CharPacket
<1>3. CASE MapPacket
    BY <1>3, LoadReceived, StoredReceived, AckReceived, InventoryReceived DEF MapPacket
<1>4. CASE LinkLost \/ LinkReady
    BY <1>4, LinkLostKeeps, LinkReadyKeeps
<1>5. CASE UNCHANGED vars
  <2>1. UNCHANGED <<session, member, inv, open, stor, dbInv, dbGuild, up, toChar, toMap, losses, discarded>>
      BY <1>5 DEF vars, mapVars, dbVars, linkVars
  <2>2. TInv' /\ OpenInGame'
      BY <1>0, <2>1 DEF TInv, PlayersTyped, LinkTyped, StorTyped, OpenInGame
  <2>3. ItemInv' /\ PlayInv'
      BY <2>1 DEF Inv, ItemInv, NothingSaved, LoadsFirst, LoadsAgree, InStorage,
                  PlayInv, LogoutOnce, LoadsBeforeLogout, LoadersPlayed
  <2> QED
      BY <2>2, <2>3 DEF Inv
<1> QED
    BY <1>1, <1>2, <1>3, <1>4, <1>5 DEF Next

\* and so it always holds.
LEMMA InvHolds == Spec => []Inv
    BY InitInv, NextInv, PTL DEF Spec

\* For any members and any size of the storage: it is open only to members of
\* the guild who are in the game, and it never has more items than places,
\* whoever fills it.  In particular the answer to a load opens it only for the
\* session that asked (intif_parse_LoadGuildStorage).
THEOREM StorageIsTyped == Spec => []StorageTypeOK
<1>1. Inv => StorageTypeOK
    BY DEF Inv, TInv, PlayersTyped, LinkTyped, StorTyped, Storage, OpenInGame, StorageTypeOK
<1> QED
    BY <1>1, InvHolds, PTL

\* The answer to a load never changes the items of a storage in memory, however
\* many members ask for it at the same time: see LoadKeepsItems.
THEOREM LoadsUndoNothing == Spec => LoadKeepsItems
<1>1. Inv /\ [Next]_vars =>
         [toMap # <<>> /\ Head(toMap).type = "load" /\ toMap' = Tail(toMap) /\ stor.max # 0
            => stor'.items = stor.items]_vars
  <2> SUFFICES ASSUME Inv, Next, toMap # <<>>, Head(toMap).type = "load", toMap' = Tail(toMap), stor.max # 0
               PROVE  stor'.items = stor.items
      OBVIOUS
  <2>1. toMap' # toMap
      BY DEF Inv, TInv, LinkTyped
  <2>2. ASSUME NEW p \in Member, PlayerStep(p) PROVE FALSE
      BY <2>1, <2>2 DEF PlayerStep, Login, Open, StorageAdd, StorageGet, Close, AutoSave, Quit, Withdraw
  <2>3. CASE CharPacket \/ LinkLost \/ LinkReady
      BY <2>3 DEF CharPacket, LinkLost, LinkReady, mapVars
  <2>4. CASE MapPacket
    <3>1. ReceiveLoad
        BY <2>4 DEF MapPacket, ReceiveStored, ReceiveSaveAck, ReceiveInventory, ReceiveUnlock, ReceiveBoundItems, Receive
    <3> QED
        BY <2>4, <3>1, LoadEffect DEF MapPacket
  <2> QED
      BY <2>2, <2>3, <2>4 DEF Next
<1> QED
    BY <1>1, InvHolds, PTL DEF Spec, LoadKeepsItems

-----------------------------------------------------------------------------
(* Numbers of items.                                                       *)

\* The items of one member.
LEMMA PileSize ==
    ASSUME NEW p, NEW n \in Nat
    PROVE  IsFiniteSet({p} \X (1..n)) /\ Cardinality({p} \X (1..n)) = n
<1>1. IsFiniteSet(1..n) /\ Cardinality(1..n) = n
    BY FS_Interval
<1>2. IsFiniteSet({p}) /\ Cardinality({p}) = 1
    BY FS_Singleton
<1>3. IsFiniteSet({p} \X (1..n)) /\ Cardinality({p} \X (1..n)) = 1 * n
  <2>1. /\ IsFiniteSet({p} \X (1..n))
        /\ Cardinality({p} \X (1..n)) = Cardinality({p}) * Cardinality(1..n)
      BY <1>1, <1>2, FS_Product, Zenon
  <2> QED
      BY <1>1, <1>2, <2>1
<1> QED
    BY <1>3

\* The items of all members are finitely many.
LEMMA PiecesFinite ==
    ASSUME NEW f \in [Member -> Nat]
    PROVE  IsFiniteSet(Pieces(f)) /\ Cardinality(Pieces(f)) \in Nat
<1> DEFINE g == [p \in Member |-> {p} \X (1..f[p])]
           T == {{p} \X (1..f[p]) : p \in Member}
<1>1. g \in Surjection(Member, T)
    BY DEF Surjection
<1>2. IsFiniteSet(T)
    BY <1>1, FS_Surjection, StorageBounds
<1>3. \A t \in T : IsFiniteSet(t)
  <2>1. ASSUME NEW p \in Member PROVE IsFiniteSet({p} \X (1..f[p]))
    <3>1. f[p] \in Nat
        OBVIOUS
    <3> QED
        BY <3>1, PileSize, Zenon
  <2> QED
      BY <2>1
<1>4. IsFiniteSet(UNION T)
    BY <1>2, <1>3, FS_UNION
<1> QED
    BY <1>4, FS_CardinalityType DEF Pieces

\* Nobody has more items than all members together; who has less adds less.
LEMMA PiecesOrder ==
    ASSUME NEW f \in [Member -> Nat]
    PROVE  /\ \A p \in Member : f[p] <= Cardinality(Pieces(f))
           /\ \A g \in [Member -> Nat] : (\A p \in Member : g[p] <= f[p])
                 => Cardinality(Pieces(g)) <= Cardinality(Pieces(f))
<1>1. IsFiniteSet(Pieces(f))
    BY PiecesFinite
<1>2. ASSUME NEW p \in Member PROVE f[p] <= Cardinality(Pieces(f))
  <2>1. {p} \X (1..f[p]) \in SUBSET Pieces(f)
      BY DEF Pieces
  <2>2. Cardinality({p} \X (1..f[p])) <= Cardinality(Pieces(f))
      BY <1>1, <2>1, FS_Subset
  <2> QED
      BY <2>2, PileSize
<1>3. ASSUME NEW g \in [Member -> Nat], \A p \in Member : g[p] <= f[p]
      PROVE  Cardinality(Pieces(g)) <= Cardinality(Pieces(f))
  <2>1. ASSUME NEW p \in Member PROVE {p} \X (1..g[p]) \subseteq {p} \X (1..f[p])
    <3>1. g[p] <= f[p] /\ g[p] \in Nat /\ f[p] \in Nat
        BY <1>3
    <3>2. 1..g[p] \subseteq 1..f[p]
        BY <3>1
    <3> QED
        BY <3>2
  <2>2. Pieces(g) \in SUBSET Pieces(f)
      BY <2>1 DEF Pieces
  <2> QED
      BY <1>1, <2>2, FS_Subset
<1> QED
    BY <1>2, <1>3

\* The number of items when one member's number changes.
LEMMA PiecesChange ==
    ASSUME NEW f \in [Member -> Nat], NEW g \in [Member -> Nat], NEW p \in Member,
           \A q \in Member : q # p => g[q] = f[q]
    PROVE  Cardinality(Pieces(g)) = Cardinality(Pieces(f)) - f[p] + g[p]
<1> DEFINE rest == UNION {{q} \X (1..f[q]) : q \in Member \ {p}}
           pile(n) == {p} \X (1..n)
<1>1. Pieces(f) = rest \cup pile(f[p])
    BY DEF Pieces
<1>2. Pieces(g) = rest \cup pile(g[p])
  <2>1. rest = UNION {{q} \X (1..g[q]) : q \in Member \ {p}}
      OBVIOUS
  <2> HIDE DEF rest
  <2> QED
      BY <2>1 DEF Pieces
<1>3. \A n \in Nat : rest \cap pile(n) = {}
    OBVIOUS
<1>4. IsFiniteSet(rest) /\ Cardinality(rest) \in Nat
  <2>1. rest \in SUBSET Pieces(f)
      BY DEF Pieces
  <2> HIDE DEF rest
  <2>2. IsFiniteSet(rest)
      BY <2>1, PiecesFinite, FS_Subset
  <2> QED
      BY <2>2, FS_CardinalityType
<1>5. \A n \in Nat : IsFiniteSet(pile(n)) /\ Cardinality(pile(n)) = n
    BY PileSize
<1> HIDE DEF rest, pile
<1>6. \A n \in Nat : Cardinality(rest \cup pile(n)) = Cardinality(rest) + n
  <2> SUFFICES ASSUME NEW n \in Nat PROVE Cardinality(rest \cup pile(n)) = Cardinality(rest) + n
      OBVIOUS
  <2>1. Cardinality(rest \cup pile(n)) = Cardinality(rest) + Cardinality(pile(n)) - Cardinality(rest \cap pile(n))
      BY <1>4, <1>5, FS_Union
  <2>2. Cardinality(rest \cap pile(n)) = 0
      BY <1>3, FS_EmptySet
  <2> QED
      BY <1>4, <1>5, <2>1, <2>2
<1>7. f[p] \in Nat /\ g[p] \in Nat
    OBVIOUS
<1>8. Cardinality(Pieces(f)) = Cardinality(rest) + f[p] /\ Cardinality(Pieces(g)) = Cardinality(rest) + g[p]
    BY <1>1, <1>2, <1>6, <1>7
<1> QED
    BY <1>4, <1>7, <1>8

\* At the start each member has as many.
LEMMA PiecesAlike ==
    ASSUME NEW f \in [Member -> Nat], NEW n \in Nat, \A p \in Member : f[p] = n
    PROVE  Cardinality(Pieces(f)) = n * Cardinality(Member)
<1>1. Pieces(f) = Member \X (1..n)
    BY DEF Pieces
<1>2. IsFiniteSet(1..n) /\ Cardinality(1..n) = n
    BY FS_Interval
<1>3. Cardinality(Member \X (1..n)) = Cardinality(Member) * Cardinality(1..n)
    BY <1>2, StorageBounds, FS_Product
<1>4. Cardinality(Member) \in Nat
    BY StorageBounds, FS_CardinalityType
<1> QED
    BY <1>1, <1>2, <1>3, <1>4

-----------------------------------------------------------------------------
(* The packets of one member.                                              *)

\* The places of p's packets of a type in a queue.
At(q, t, p) == {i \in DOMAIN q : q[i].type = t /\ q[i].who = p}

\* The packets under way for p: its inventory to be saved, its final saves, the
\* requests for its inventory, the retrievals of its items, and the answers.
Saves(p)      == At(toChar, "inventory", p)
Finals(p)     == At(toChar, "final", p)
Requests(p)   == At(toChar, "request", p)
Retrievals(p) == At(toChar, "retrieve", p)
Acks(p)       == At(toMap, "ack", p)
Replies(p)    == At(toMap, "inventory", p)
Parcels(p)    == At(toMap, "bound", p)

\* p's packets of the type are d places further ahead; those on the first d
\* places have left.
Shifted(r, q, d, t, p) ==
    /\ \A i \in At(r, t, p) : i + d \in At(q, t, p) /\ r[i] = q[i + d]
    /\ \A j \in At(q, t, p) : j > d => j - d \in At(r, t, p) /\ r[j - d] = q[j]

\* None of them has left.
Moved(r, q, d, t, p) ==
    /\ \A i \in At(r, t, p) : i + d \in At(q, t, p) /\ r[i] = q[i + d]
    /\ \A j \in At(q, t, p) : j - d \in At(r, t, p) /\ r[j - d] = q[j]

\* Others, from S, may be behind them.
Grown(r, q, t, p, S) ==
    /\ \A i \in At(r, t, p) : \/ i \in At(q, t, p) /\ r[i] = q[i]
                              \/ r[i] \in S /\ \A j \in DOMAIN q : j < i
    /\ \A j \in At(q, t, p) : j \in At(r, t, p) /\ r[j] = q[j]

\* The places are numbers.
LEMMA Places ==
    ASSUME NEW T, NEW q \in Seq(T), NEW t, NEW p
    PROVE  \A i \in At(q, t, p) : i \in Nat /\ i >= 1 /\ i \in DOMAIN q /\ q[i].type = t /\ q[i].who = p
    BY DEF At

\* A queue that stays.
LEMMA PlacesStay ==
    ASSUME NEW T, NEW q \in Seq(T), NEW t, NEW p
    PROVE  Moved(q, q, 0, t, p) /\ At(<<>>, t, p) = {}
    BY Places DEF Moved, At

\* The first packet is taken.
LEMMA PlacesTaken ==
    ASSUME NEW T, NEW q \in Seq(T), q # <<>>, NEW t, NEW p
    PROVE  /\ Shifted(Tail(q), q, 1, t, p)
           /\ 1 \in At(q, t, p) <=> Head(q).type = t /\ Head(q).who = p
           /\ 1 \notin At(q, t, p) => Moved(Tail(q), q, 1, t, p)
           /\ q[1] = Head(q)
<1>1. Shifted(Tail(q), q, 1, t, p)
    BY DEF Shifted, At
<1>2. 1 \in DOMAIN q /\ q[1] = Head(q)
    OBVIOUS
<1>3. 1 \in At(q, t, p) <=> Head(q).type = t /\ Head(q).who = p
    BY <1>2 DEF At
<1>4. ASSUME 1 \notin At(q, t, p) PROVE Moved(Tail(q), q, 1, t, p)
  <2>1. \A j \in At(q, t, p) : j > 1
    <3> SUFFICES ASSUME NEW j \in At(q, t, p) PROVE j > 1
        OBVIOUS
    <3>1. j \in Nat /\ j >= 1 /\ j # 1
        BY <1>4, Places
    <3> QED
        BY <3>1
  <2> QED
      BY <1>1, <2>1 DEF Shifted, Moved
<1> QED
    BY <1>1, <1>2, <1>3, <1>4

\* Packets are sent.
LEMMA PlacesGrown ==
    ASSUME NEW T, NEW q \in Seq(T), NEW S, NEW l \in Seq(S), NEW t, NEW p
    PROVE  /\ Grown(q \o l, q, t, p, S)
           /\ (\A m \in S : ~(m.type = t /\ m.who = p)) => Moved(q \o l, q, 0, t, p)
<1> DEFINE r == q \o l
<1>1. \A i \in DOMAIN r : \/ i \in DOMAIN q /\ r[i] = q[i]
                          \/ r[i] \in S /\ \A j \in DOMAIN q : j < i
    OBVIOUS
<1>2. \A j \in DOMAIN q : j \in DOMAIN r /\ r[j] = q[j] /\ j \in Nat
    OBVIOUS
<1> HIDE DEF r
<1>3. Grown(r, q, t, p, S)
    BY <1>1, <1>2 DEF Grown, At
<1>4. ASSUME \A m \in S : ~(m.type = t /\ m.who = p)
      PROVE  Moved(r, q, 0, t, p)
  <2>1. \A i \in At(r, t, p) : i \in At(q, t, p) /\ r[i] = q[i]
      BY <1>1, <1>4 DEF At
  <2>2. \A j \in At(q, t, p) : j \in At(r, t, p) /\ r[j] = q[j] /\ j \in Nat
      BY <1>2 DEF At
  <2> QED
      BY <2>1, <2>2 DEF Moved
<1> QED
    BY <1>3, <1>4 DEF r

\* A packet of p is answered or sent behind all others.
LEMMA PlacesAppended ==
    ASSUME NEW T, NEW q \in Seq(T), NEW m, NEW t, NEW p
    PROVE  /\ ~(m.type = t /\ m.who = p) => Moved(Append(q, m), q, 0, t, p)
           /\ m.type = t /\ m.who = p =>
                 /\ Len(q) + 1 \in At(Append(q, m), t, p) /\ Append(q, m)[Len(q) + 1] = m
                 /\ \A i \in At(Append(q, m), t, p) : i = Len(q) + 1 \/ (i \in At(q, t, p) /\ Append(q, m)[i] = q[i])
                 /\ \A j \in At(q, t, p) : j \in At(Append(q, m), t, p) /\ Append(q, m)[j] = q[j]
           /\ Len(q) \in Nat /\ \A j \in DOMAIN q : j < Len(q) + 1
<1> DEFINE r == Append(q, m)
<1>1. \A i \in DOMAIN r : (i \in DOMAIN q /\ r[i] = q[i]) \/ (i = Len(q) + 1 /\ r[i] = m)
    OBVIOUS
<1>2. \A j \in DOMAIN q : j \in DOMAIN r /\ r[j] = q[j] /\ j \in Nat /\ j < Len(q) + 1
    OBVIOUS
<1>3. Len(q) \in Nat /\ Len(q) + 1 \in DOMAIN r /\ r[Len(q) + 1] = m
    OBVIOUS
<1> HIDE DEF r
<1>4. ASSUME ~(m.type = t /\ m.who = p)
      PROVE  Moved(r, q, 0, t, p)
  <2>1. \A i \in At(r, t, p) : i \in At(q, t, p) /\ r[i] = q[i]
      BY <1>1, <1>4 DEF At
  <2>2. \A j \in At(q, t, p) : j \in At(r, t, p) /\ r[j] = q[j] /\ j \in Nat
      BY <1>2 DEF At
  <2> QED
      BY <2>1, <2>2 DEF Moved
<1>5. ASSUME m.type = t, m.who = p
      PROVE  /\ Len(q) + 1 \in At(r, t, p) /\ r[Len(q) + 1] = m
             /\ \A i \in At(r, t, p) : i = Len(q) + 1 \/ (i \in At(q, t, p) /\ r[i] = q[i])
             /\ \A j \in At(q, t, p) : j \in At(r, t, p) /\ r[j] = q[j]
    BY <1>1, <1>2, <1>3, <1>5 DEF At
<1> QED
    BY <1>2, <1>3, <1>4, <1>5 DEF r

-----------------------------------------------------------------------------
(* What every member has, and the packets that carry it.                   *)

\* The inventory of p is in the memory of the map server.
Loaded(p) == inv[p] # NotLoaded

\* The map server has the items of p; the database follows it.
OnMap(p)  == session[p] = "in" \/ (session[p] = "logout" /\ Loaded(p))

\* The items of p that the char server has taken out of the database.
Parcel(p) == IF Parcels(p) = {} THEN 0 ELSE toMap[CHOOSE i \in Parcels(p) : TRUE].items

\* What p has, wherever it is.
Holding(p) == IF OnMap(p) THEN inv[p] ELSE dbInv[p] + Parcel(p)

\* An inventory is in memory exactly after it has arrived.
InventoryKnown(p) ==
    /\ session[p] = "loading" => ~Loaded(p)
    /\ session[p] = "in" => Loaded(p)

\* Saves under way are those of the session that is on the map server, ahead of
\* its final save.
SavesAreCurrent(p) ==
    \A i \in Saves(p) : toChar[i].items # NotLoaded =>
        OnMap(p) /\ (session[p] = "logout" => \E j \in Finals(p) : i < j)

\* So are requests for the inventory, and their answers.
RequestsAreCurrent(p) ==
    /\ \A i \in Requests(p) : session[p] # "out" /\ (session[p] = "logout" => \E j \in Finals(p) : i < j)
    /\ \A i \in Replies(p) :
          session[p] # "out" /\ (session[p] = "logout" => Finals(p) # {} \/ \E j \in Acks(p) : i < j)

\* As long as the link holds, a logout has its final save or its
\* acknowledgement under way.
LogoutIsPending(p) == up /\ session[p] = "logout" => Finals(p) # {} \/ Acks(p) # {}

\* The newest inventory is saved just before the final save, and is in the
\* database when that is acknowledged.
FinalIsNewest(p) ==
    \A i \in Finals(p) : Loaded(p) => IF i = 1 THEN dbInv[p] = inv[p] ELSE toChar[i - 1] = SaveInventory(p)
\* An acknowledged final save is in the database.
AckIsNewest(p) == Acks(p) # {} /\ Loaded(p) => dbInv[p] + Parcel(p) = inv[p]

\* The items of a member are retrieved once, when it has left the guild.
RetrievedOnce(p) ==
    /\ Retrievals(p) # {} \/ Parcels(p) # {} => p \notin member /\ session[p] # "in"
    /\ \A i, j \in Retrievals(p) : i = j
    /\ \A i, j \in Parcels(p) : i = j
    /\ Retrievals(p) = {} \/ Parcels(p) = {}

\* A retrieval is ahead of the next login, and behind the last logout.
RetrievedBeforeLogin(p) ==
    session[p] = "loading" =>
        /\ \A i \in Requests(p), j \in Retrievals(p) : j < i
        /\ \A i \in Replies(p) : toMap[i].items = dbInv[p] /\ Retrievals(p) = {} /\ \A j \in Parcels(p) : j < i
\* The retrieval of who has logged out comes after its final save.
RetrievedAfterLogout(p) ==
    session[p] = "logout" /\ Loaded(p) =>
        /\ \A i \in Retrievals(p), j \in Finals(p) : j < i
        /\ \A i \in Parcels(p) : \E j \in Acks(p) : j < i

\* The order in which p's packets are under way.
Ledger(p) ==
    /\ InventoryKnown(p) /\ SavesAreCurrent(p) /\ RequestsAreCurrent(p)
    /\ LogoutIsPending(p) /\ FinalIsNewest(p) /\ AckIsNewest(p)
    /\ RetrievedOnce(p) /\ RetrievedBeforeLogin(p) /\ RetrievedAfterLogout(p)

\* Final saves and acknowledgements, from LogoutOnce.
LogsOutOnce(p) ==
    /\ Finals(p) # {} \/ Acks(p) # {} => session[p] = "logout"
    /\ \A i, j \in Finals(p) : i = j
    /\ \A i, j \in Acks(p) : i = j
    /\ Finals(p) = {} \/ Acks(p) = {}

\* A member logs out once at a time.
LEMMA LogoutFacts ==
    ASSUME PlayInv, NEW p \in Member
    PROVE  LogsOutOnce(p)
<1>1. /\ \A i \in Finals(p) : i \in DOMAIN toChar /\ IsFinal(toChar[i]) /\ toChar[i].who = p
      /\ \A i \in Acks(p) : i \in DOMAIN toMap /\ IsAck(toMap[i]) /\ toMap[i].who = p
    BY DEF Finals, Acks, At, IsFinal, IsAck
<1> QED
    BY <1>1 DEF PlayInv, LogoutOnce, LogsOutOnce

\* All places are numbers.
LEMMA AllPlaces ==
    ASSUME TInv, NEW p
    PROVE  /\ \A i \in Saves(p) \cup Finals(p) \cup Requests(p) \cup Retrievals(p) : i \in Nat /\ i >= 1
           /\ \A i \in Acks(p) \cup Replies(p) \cup Parcels(p) : i \in Nat /\ i >= 1
           /\ toChar \in Seq(CharMsg) /\ toMap \in Seq(MapMsg)
<1>1. toChar \in Seq(CharMsg) /\ toMap \in Seq(MapMsg)
    BY DEF TInv, LinkTyped
<1>2. \A t : \A i \in At(toChar, t, p) : i \in Nat /\ i >= 1
    BY <1>1, Places
<1>3. \A t : \A i \in At(toMap, t, p) : i \in Nat /\ i >= 1
    BY <1>1, Places
<1> QED
    BY <1>1, <1>2, <1>3 DEF Saves, Finals, Requests, Retrievals, Acks, Replies, Parcels

\* A step that leaves p alone but for saves while it is in the game: what is
\* under way for p moves ahead by a places to the char server and b to the map
\* server.
Leaves(p, a, b) ==
    /\ session'[p] = session[p] /\ dbInv'[p] = dbInv[p] /\ up' = up
    /\ p \in member' => p \in member
    /\ inv'[p] = inv[p] \/ (session[p] = "in" /\ inv'[p] # NotLoaded)
    /\ \A t \in {"final", "request", "retrieve"} : Moved(toChar', toChar, a, t, p)
    /\ \A i \in At(toChar', "inventory", p) :
          \/ i + a \in At(toChar, "inventory", p) /\ toChar'[i] = toChar[i + a]
          \/ session[p] = "in" /\ toChar'[i].items = inv[p]
    /\ \A j \in At(toChar, "inventory", p) :
          j - a \in At(toChar', "inventory", p) /\ toChar'[j - a] = toChar[j]
    /\ \A t \in {"ack", "inventory", "bound"} : Moved(toMap', toMap, b, t, p)

\* Its parcel stays the same.
LEMMA ParcelMoved ==
    ASSUME TInv, TInv', NEW p, NEW b \in {0, 1}, Moved(toMap', toMap, b, "bound", p),
           \A i, j \in Parcels(p) : i = j
    PROVE  Parcel(p)' = Parcel(p) /\ (Parcels(p)' = {} <=> Parcels(p) = {})
<1>1. /\ \A i \in Parcels(p)' : i + b \in Parcels(p) /\ toMap'[i] = toMap[i + b]
      /\ \A j \in Parcels(p) : j - b \in Parcels(p)' /\ toMap'[j - b] = toMap[j]
    BY DEF Moved, Parcels
<1>2. Parcels(p)' = {} <=> Parcels(p) = {}
    BY <1>1
<1>3. ASSUME Parcels(p) # {} PROVE Parcel(p)' = Parcel(p)
  <2>1. /\ (CHOOSE i \in Parcels(p) : TRUE) \in Parcels(p)
        /\ (CHOOSE i \in Parcels(p)' : TRUE) \in Parcels(p)'
      BY <1>2, <1>3
  <2>2. ASSUME NEW i \in Parcels(p), NEW j \in Parcels(p)' PROVE toMap'[j] = toMap[i]
      BY <1>1, <2>2
  <2> QED
      BY <1>2, <1>3, <2>1, <2>2 DEF Parcel
<1> QED
    BY <1>2, <1>3 DEF Parcel

\* and its packets stay in order.
LEMMA LedgerKept ==
    ASSUME Inv, Inv', NEW p \in Member, Ledger(p), NEW a \in {0, 1}, NEW b \in {0, 1}, Leaves(p, a, b)
    PROVE  Ledger(p)' /\ Parcel(p)' = Parcel(p)
<1>0. TInv /\ TInv' /\ PlayInv
    BY DEF Inv
<1>1. LogsOutOnce(p)
    BY <1>0, LogoutFacts
<1>2. /\ \A i \in Finals(p)' : i + a \in Finals(p) /\ toChar'[i] = toChar[i + a]
      /\ \A j \in Finals(p) : j - a \in Finals(p)' /\ toChar'[j - a] = toChar[j]
      /\ \A i \in Requests(p)' : i + a \in Requests(p) /\ toChar'[i] = toChar[i + a]
      /\ \A j \in Requests(p) : j - a \in Requests(p)' /\ toChar'[j - a] = toChar[j]
      /\ \A i \in Retrievals(p)' : i + a \in Retrievals(p) /\ toChar'[i] = toChar[i + a]
      /\ \A j \in Retrievals(p) : j - a \in Retrievals(p)' /\ toChar'[j - a] = toChar[j]
    BY DEF Leaves, Moved, Finals, Requests, Retrievals
<1>3. /\ \A i \in Acks(p)' : i + b \in Acks(p) /\ toMap'[i] = toMap[i + b]
      /\ \A j \in Acks(p) : j - b \in Acks(p)' /\ toMap'[j - b] = toMap[j]
      /\ \A i \in Replies(p)' : i + b \in Replies(p) /\ toMap'[i] = toMap[i + b]
      /\ \A j \in Replies(p) : j - b \in Replies(p)' /\ toMap'[j - b] = toMap[j]
      /\ \A i \in Parcels(p)' : i + b \in Parcels(p) /\ toMap'[i] = toMap[i + b]
      /\ \A j \in Parcels(p) : j - b \in Parcels(p)' /\ toMap'[j - b] = toMap[j]
    BY DEF Leaves, Moved, Acks, Replies, Parcels
<1>4. /\ \A i \in Saves(p)' : (i + a \in Saves(p) /\ toChar'[i] = toChar[i + a]) \/ session[p] = "in"
      /\ \A j \in Saves(p) : j - a \in Saves(p)' /\ toChar'[j - a] = toChar[j]
    BY DEF Leaves, Saves
<1>5. /\ session'[p] = session[p] /\ dbInv'[p] = dbInv[p] /\ up' = up
      /\ p \in member' => p \in member
      /\ inv'[p] = inv[p] \/ (session[p] = "in" /\ inv'[p] # NotLoaded)
    BY DEF Leaves
<1>6. /\ \A i \in Saves(p) \cup Finals(p) \cup Requests(p) \cup Retrievals(p) : i \in Nat /\ i >= 1
      /\ \A i \in Acks(p) \cup Replies(p) \cup Parcels(p) : i \in Nat /\ i >= 1
    BY <1>0, AllPlaces
<1>7. /\ \A i \in Saves(p)' \cup Finals(p)' \cup Requests(p)' \cup Retrievals(p)' : i \in Nat /\ i >= 1
      /\ \A i \in Acks(p)' \cup Replies(p)' \cup Parcels(p)' : i \in Nat /\ i >= 1
  <2>1. \A t : \A i \in At(toChar', t, p) : i \in Nat /\ i >= 1
      BY <1>0, Places DEF TInv, LinkTyped
  <2>2. \A t : \A i \in At(toMap', t, p) : i \in Nat /\ i >= 1
      BY <1>0, Places DEF TInv, LinkTyped
  <2> QED
      BY <2>1, <2>2 DEF Saves, Finals, Requests, Retrievals, Acks, Replies, Parcels
<1>8. Parcel(p)' = Parcel(p)
    BY <1>0, ParcelMoved DEF Leaves, Ledger, RetrievedOnce
<1>9. (Loaded(p)' <=> Loaded(p)) \/ session[p] = "in"
    BY <1>5 DEF Loaded
<1>10. OnMap(p)' <=> OnMap(p)
    BY <1>5, <1>9 DEF OnMap
<1>11. InventoryKnown(p)'
    BY <1>5 DEF Ledger, InventoryKnown, Loaded
<1>12. SavesAreCurrent(p)'
    BY <1>2, <1>4, <1>5, <1>6, <1>7, <1>10 DEF Ledger, SavesAreCurrent, OnMap
<1>13. RequestsAreCurrent(p)'
    BY <1>2, <1>3, <1>5, <1>6, <1>7 DEF Ledger, RequestsAreCurrent
<1>14. LogoutIsPending(p)'
    BY <1>2, <1>3, <1>5 DEF Ledger, LogoutIsPending
<1>15. FinalIsNewest(p)'
  <2> SUFFICES ASSUME NEW i \in Finals(p)', Loaded(p)'
               PROVE  IF i = 1 THEN dbInv'[p] = inv'[p] ELSE toChar'[i - 1] = SaveInventory(p)'
      BY DEF FinalIsNewest
  <2>1. i + a \in Finals(p) /\ i \in Nat /\ i >= 1
      BY <1>2, <1>7
  <2>2. session[p] = "logout" /\ inv'[p] = inv[p] /\ Loaded(p)
      BY <1>1, <1>5, <2>1 DEF LogsOutOnce, Loaded
  <2>3. IF i + a = 1 THEN dbInv[p] = inv[p] ELSE toChar[i + a - 1] = SaveInventory(p)
      BY <2>1, <2>2 DEF Ledger, FinalIsNewest
  <2>4. SaveInventory(p)' = SaveInventory(p)
      BY <2>2 DEF SaveInventory
  <2>5. CASE i + a = 1
      BY <1>5, <2>1, <2>2, <2>3, <2>5
  <2>6. CASE i + a # 1
    <3>1. toChar[i + a - 1] = SaveInventory(p) /\ i + a - 1 \in DOMAIN toChar
      <4>1. i + a \in DOMAIN toChar
          BY <2>1 DEF Finals, At
      <4> QED
          BY <1>0, <2>1, <2>3, <2>6, <4>1 DEF TInv, LinkTyped
    <3>2. i + a - 1 \in Saves(p)
        BY <3>1 DEF Saves, At, SaveInventory
    <3>3. (i + a - 1) - a \in Saves(p)' /\ toChar'[(i + a - 1) - a] = SaveInventory(p)
        BY <1>4, <3>1, <3>2
    <3>4. i - 1 \in Saves(p)' /\ toChar'[i - 1] = SaveInventory(p)
        BY <2>1, <3>3
    <3> QED
        BY <1>7, <2>4, <3>4
  <2> QED
      BY <2>5, <2>6
<1>16. AckIsNewest(p)'
    BY <1>1, <1>3, <1>5, <1>8, <1>9 DEF Ledger, AckIsNewest, LogsOutOnce
<1>17. RetrievedOnce(p)'
  <2>1. Retrievals(p)' # {} \/ Parcels(p)' # {} => p \notin member' /\ session'[p] # "in"
      BY <1>2, <1>3, <1>5 DEF Ledger, RetrievedOnce
  <2>2. \A i, j \in Retrievals(p)' : i = j
      BY <1>2, <1>7 DEF Ledger, RetrievedOnce
  <2>3. \A i, j \in Parcels(p)' : i = j
      BY <1>3, <1>7 DEF Ledger, RetrievedOnce
  <2>4. Retrievals(p)' = {} \/ Parcels(p)' = {}
      BY <1>2, <1>3 DEF Ledger, RetrievedOnce
  <2> QED
      BY <2>1, <2>2, <2>3, <2>4 DEF RetrievedOnce
<1>18. RetrievedBeforeLogin(p)'
  <2> SUFFICES ASSUME session[p] = "loading"
               PROVE  /\ \A i \in Requests(p)', j \in Retrievals(p)' : j < i
                      /\ \A i \in Replies(p)' : /\ toMap'[i].items = dbInv'[p] /\ Retrievals(p)' = {}
                                                /\ \A j \in Parcels(p)' : j < i
      BY <1>5 DEF RetrievedBeforeLogin
  <2>1. \A i \in Requests(p)', j \in Retrievals(p)' : j < i
      BY <1>2, <1>7 DEF Ledger, RetrievedBeforeLogin
  <2>2. \A i \in Replies(p)' : toMap'[i].items = dbInv'[p] /\ Retrievals(p)' = {}
      BY <1>2, <1>3, <1>5 DEF Ledger, RetrievedBeforeLogin
  <2>3. \A i \in Replies(p)' : \A j \in Parcels(p)' : j < i
      BY <1>3, <1>7 DEF Ledger, RetrievedBeforeLogin
  <2> QED
      BY <2>1, <2>2, <2>3
<1>19. RetrievedAfterLogout(p)'
  <2> SUFFICES ASSUME session[p] = "logout", Loaded(p)
               PROVE  /\ \A i \in Retrievals(p)', j \in Finals(p)' : j < i
                      /\ \A i \in Parcels(p)' : \E j \in Acks(p)' : j < i
      BY <1>5, <1>9 DEF RetrievedAfterLogout
  <2>1. \A i \in Retrievals(p)', j \in Finals(p)' : j < i
      BY <1>2, <1>7 DEF Ledger, RetrievedAfterLogout
  <2>2. \A i \in Parcels(p)' : \E j \in Acks(p)' : j < i
      BY <1>3, <1>6, <1>7 DEF Ledger, RetrievedAfterLogout
  <2> QED
      BY <2>1, <2>2
<1> QED
    BY <1>8, <1>11, <1>12, <1>13, <1>14, <1>15, <1>16, <1>17, <1>18, <1>19 DEF Ledger

-----------------------------------------------------------------------------
(* The account.                                                            *)

\* All items: what members have, the storage, and what did not fit into it.
Held    == Cardinality(Pieces([p \in Member |-> Holding(p)]))
\* The sum of all items.
Account == Held + InStorage + discarded
\* No item appears, and none is lost while the link has never broken.
Balance == Account <= Total /\ (losses = 0 => Account = Total)

\* No number of items that is noted anywhere is larger than their sum.
Limited(p) ==
    /\ inv[p] <= Total /\ dbInv[p] <= Total
    /\ \A i \in Saves(p) : toChar[i].items <= Total
    /\ \A i \in Replies(p) : toMap[i].items <= Total

\* New numbers are copies of old ones, or those of who is on the map server.
Copied(p) ==
    /\ inv'[p] \in {inv[p], NotLoaded} \/ OnMap(p)'
    /\ dbInv'[p] \in {dbInv[p], 0} \/ \E i \in Saves(p) : dbInv'[p] = toChar[i].items
    /\ \A i \in Saves(p)' : \/ \E j \in Saves(p) : toChar'[i] = toChar[j]
                            \/ toChar'[i].items = inv[p]
    /\ \A i \in Replies(p)' : \/ \E j \in Replies(p) : toMap'[i] = toMap[j]
                              \/ toMap'[i].items = dbInv[p]

\* The numbers of items are natural numbers.
NumbersTyped ==
    TInv => /\ InStorage \in Nat /\ discarded \in Nat
            /\ \A p \in Member : Ledger(p) => /\ Holding(p) \in Nat /\ Parcel(p) \in Nat /\ dbInv[p] \in Nat
                                              /\ OnMap(p) => inv[p] \in Nat

\* They are, in every state that is typed and whose packets are in order.
LEMMA NumberTypes == NumbersTyped
<1> SUFFICES ASSUME TInv
             PROVE  /\ InStorage \in Nat /\ discarded \in Nat
                    /\ \A p \in Member : Ledger(p) => /\ Holding(p) \in Nat /\ Parcel(p) \in Nat /\ dbInv[p] \in Nat
                                                      /\ OnMap(p) => inv[p] \in Nat
    BY DEF NumbersTyped
<1>0. InStorage \in Nat /\ discarded \in Nat
    BY DEF TInv, PlayersTyped, StorTyped, Storage, InStorage
<1> SUFFICES ASSUME NEW p \in Member, Ledger(p)
             PROVE  /\ Holding(p) \in Nat /\ Parcel(p) \in Nat /\ dbInv[p] \in Nat
                    /\ OnMap(p) => inv[p] \in Nat
    BY <1>0
<1>1. dbInv[p] \in Nat /\ inv[p] \in {NotLoaded} \cup Nat /\ discarded \in Nat
    BY DEF TInv, PlayersTyped
<1>2. OnMap(p) => inv[p] \in Nat
    BY <1>1 DEF Ledger, InventoryKnown, OnMap, Loaded
<1>3. Parcel(p) \in Nat
  <2>1. \A i \in Parcels(p) : toMap[i].items \in Nat
    <3> SUFFICES ASSUME NEW i \in Parcels(p) PROVE toMap[i].items \in Nat
        OBVIOUS
    <3>1. i \in DOMAIN toMap /\ toMap[i].type = "bound"
        BY DEF Parcels, At
    <3>2. toMap \in Seq(MapMsg)
        BY DEF TInv, LinkTyped
    <3>3. toMap[i] \in MapMsg
        BY <3>1, <3>2
    <3> QED
        BY <3>1, <3>3, MapMsgFacts
  <2>2. Parcels(p) # {} => (CHOOSE i \in Parcels(p) : TRUE) \in Parcels(p)
      OBVIOUS
  <2> QED
      BY <2>1, <2>2 DEF Parcel
<1> QED
    BY <1>1, <1>2, <1>3 DEF Holding

\* So is the number of all items.
LEMMA TotalType == Total \in Nat /\ Stored \in Nat /\ Owned \in Nat
<1>1. Cardinality(Member) \in Nat
    BY StorageBounds, FS_CardinalityType
<1>2. Owned \in Nat /\ Stored \in Nat
    BY StorageBounds
<1>3. Owned * Cardinality(Member) \in Nat
    BY <1>1, <1>2
<1> QED
    BY <1>2, <1>3 DEF Total

\* One member's items change by as much as the storage and the discarded ones.
LEMMA BalanceKept ==
    ASSUME TInv, TInv', \A q \in Member : Ledger(q), \A q \in Member : Ledger(q)', Balance,
           NEW p \in Member, losses' = losses,
           \A q \in Member : q # p => Holding(q)' = Holding(q),
           Holding(p)' + InStorage' + discarded' = Holding(p) + InStorage + discarded
    PROVE  Balance'
<1> DEFINE f == [q \in Member |-> Holding(q)]
           g == [q \in Member |-> Holding(q)']
<1>0. NumbersTyped /\ NumbersTyped'
    BY NumberTypes, PTL
<1>1. \A q \in Member : Holding(q) \in Nat /\ Holding(q)' \in Nat
    BY <1>0 DEF NumbersTyped
<1>2. f \in [Member -> Nat] /\ g \in [Member -> Nat]
    BY <1>1
<1>3. f[p] = Holding(p) /\ g[p] = Holding(p)' /\ \A q \in Member : q # p => g[q] = f[q]
    OBVIOUS
<1>4. Held = Cardinality(Pieces(f)) /\ Held' = Cardinality(Pieces(g))
    BY DEF Held, Pieces
<1> HIDE DEF f, g
<1>5. Cardinality(Pieces(f)) \in Nat /\ Cardinality(Pieces(g)) = Cardinality(Pieces(f)) - f[p] + g[p]
    BY <1>2, <1>3, PiecesFinite, PiecesChange
<1>6. InStorage \in Nat /\ discarded \in Nat /\ InStorage' \in Nat /\ discarded' \in Nat
    BY <1>0 DEF NumbersTyped
<1>7. Held \in Nat /\ Held' = Held - Holding(p) + Holding(p)'
    BY <1>3, <1>4, <1>5
<1>8. Holding(p) \in Nat /\ Holding(p)' \in Nat
    BY <1>1
<1>9. Held' + InStorage' + discarded' = Held + InStorage + discarded
    BY <1>6, <1>7, <1>8
<1> QED
    BY <1>9 DEF Balance, Account, Total

\* Nothing changes for anybody.
LEMMA BalanceSame ==
    ASSUME Balance, losses' = losses, \A q \in Member : Holding(q)' = Holding(q),
           InStorage' = InStorage, discarded' = discarded
    PROVE  Balance'
<1>1. Held' = Held
  <2>1. [q \in Member |-> Holding(q)'] = [q \in Member |-> Holding(q)]
      OBVIOUS
  <2> QED
      BY <2>1 DEF Held, Pieces
<1> QED
    BY <1>1 DEF Balance, Account, Total

\* In a balance nobody has more than all.
Bounded ==
    TInv /\ (\A q \in Member : Ledger(q)) /\ Balance
    => /\ \A p \in Member : OnMap(p) => inv[p] <= Total
       /\ Held \in Nat /\ InStorage \in Nat /\ discarded \in Nat /\ discarded <= Total

\* Each of them is a part of the sum.
LEMMA BalanceBounds == Bounded
<1> SUFFICES ASSUME TInv, \A q \in Member : Ledger(q), Balance
             PROVE  /\ \A p \in Member : OnMap(p) => inv[p] <= Total
                    /\ Held \in Nat /\ InStorage \in Nat /\ discarded \in Nat /\ discarded <= Total
    BY DEF Bounded
<1> DEFINE f == [q \in Member |-> Holding(q)]
<1>1. f \in [Member -> Nat]
    BY NumberTypes DEF NumbersTyped
<1>2. Held = Cardinality(Pieces(f))
    BY DEF Held
<1>3. InStorage \in Nat /\ discarded \in Nat
    BY DEF TInv, PlayersTyped, StorTyped, Storage, InStorage
<1>4. \A p \in Member : f[p] = Holding(p)
    OBVIOUS
<1> HIDE DEF f
<1>5. Held \in Nat /\ \A p \in Member : f[p] <= Held
    BY <1>1, <1>2, PiecesFinite, PiecesOrder
<1>6. Held <= Total /\ discarded <= Total
    BY <1>3, <1>5, TotalType DEF Balance, Account
<1>7. ASSUME NEW p \in Member, OnMap(p) PROVE inv[p] <= Total
  <2>1. inv[p] = Holding(p) /\ Holding(p) \in Nat
      BY <1>7, NumberTypes DEF Holding, NumbersTyped
  <2> QED
      BY <1>4, <1>5, <1>6, <2>1, TotalType
<1> QED
    BY <1>3, <1>5, <1>6, <1>7

\* Copies keep the limit.
LEMMA LimitsKept ==
    ASSUME TInv, TInv', \A q \in Member : Ledger(q)', Balance', NEW p \in Member, Limited(p), Copied(p)
    PROVE  Limited(p)'
<1>1. Total \in Nat /\ Total' = Total
    BY TotalType DEF Total
<1>2. OnMap(p)' => inv'[p] <= Total
  <2>1. Bounded'
      BY BalanceBounds, PTL
  <2> QED
      BY <1>1, <2>1 DEF Bounded
<1>3. inv'[p] <= Total
    BY <1>1, <1>2 DEF Copied, Limited, NotLoaded
<1>4. dbInv'[p] <= Total
    BY <1>1 DEF Copied, Limited
<1>5. \A i \in Saves(p)' : toChar'[i].items <= Total
    BY DEF Copied, Limited
<1>6. \A i \in Replies(p)' : toMap'[i].items <= Total
    BY DEF Copied, Limited
<1> QED
    BY <1>1, <1>3, <1>4, <1>5, <1>6 DEF Limited

\* The inductive invariant of the items, and a step that keeps it.
Books   == (\A p \in Member : Ledger(p) /\ Limited(p)) /\ Balance
Settled == (\A p \in Member : Ledger(p)' /\ Copied(p)) /\ Balance'

\* Such a step keeps the limits as well.
LEMMA SettledKeeps ==
    ASSUME Inv, Inv', Books, Settled
    PROVE  Books'
<1>1. TInv /\ TInv'
    BY DEF Inv
<1>2. ASSUME NEW p \in Member PROVE Limited(p)'
    BY <1>1, LimitsKept DEF Books, Settled
<1> QED
    BY <1>2 DEF Books, Settled

\* Who is left alone keeps its items.
LEMMA LeftAlone ==
    ASSUME Inv, Inv', NEW p \in Member, Ledger(p), NEW a \in {0, 1}, NEW b \in {0, 1}, Leaves(p, a, b)
    PROVE  /\ Ledger(p)' /\ Copied(p)
           /\ inv'[p] = inv[p] => Holding(p)' = Holding(p)
           /\ session[p] = "in" => Holding(p) = inv[p] /\ Holding(p)' = inv'[p]
<1>1. Ledger(p)' /\ Parcel(p)' = Parcel(p)
    BY LedgerKept
<1>2. /\ session'[p] = session[p] /\ dbInv'[p] = dbInv[p]
      /\ inv'[p] = inv[p] \/ (session[p] = "in" /\ inv'[p] # NotLoaded)
    BY DEF Leaves
<1>3. /\ inv'[p] = inv[p] => Holding(p)' = Holding(p)
      /\ session[p] = "in" => Holding(p) = inv[p] /\ Holding(p)' = inv'[p]
    BY <1>1, <1>2 DEF Holding, OnMap, Loaded
<1>4. /\ \A i \in Saves(p)' : (\E j \in Saves(p) : toChar'[i] = toChar[j]) \/ toChar'[i].items = inv[p]
      /\ \A i \in Replies(p)' : \E j \in Replies(p) : toMap'[i] = toMap[j]
    BY DEF Leaves, Moved, Saves, Replies
<1>5. Copied(p)
    BY <1>2, <1>4 DEF Copied, OnMap
<1> QED
    BY <1>1, <1>3, <1>5

\* Packets of who is in the game, and of the storage.
Current ==
    {m \in CharMsg : \/ m.type \in {"storage", "load"}
                     \/ m.type = "inventory" /\ session[m.who] = "in" /\ m.items = inv[m.who]}

\* What the storage's handlers of the map server send is of this kind.
LEMMA CurrentPackets ==
    ASSUME TInv, OpenInGame
    PROVE  /\ SaveStorage \in Current
           /\ \A p \in Member : [type |-> "load", who |-> p] \in Current
           /\ \A p \in Member : session[p] = "in" => SaveInventory(p) \in Current /\ Save(p) \in Seq(Current)
           /\ SendAway \in Seq(Current) /\ <<>> \in Seq(Current)
<1>1. SaveStorage \in Current
    BY DEF TInv, StorTyped, Storage, SaveStorage, Current, CharMsg
<1>2. \A p \in Member : [type |-> "load", who |-> p] \in Current
    BY DEF Current, CharMsg
<1>3. ASSUME NEW p \in Member, session[p] = "in" PROVE SaveInventory(p) \in Current /\ Save(p) \in Seq(Current)
  <2>1. SaveInventory(p) \in Current
      BY <1>3 DEF TInv, PlayersTyped, SaveInventory, Current, CharMsg
  <2> QED
      BY <1>1, <2>1, ShortLists DEF Save
<1>4. SendAway \in Seq(Current)
  <2>1. <<>> \in Seq(Current)
      OBVIOUS
  <2>2. Visitors # {} => (CHOOSE q \in Visitors : TRUE) \in Member /\ session[CHOOSE q \in Visitors : TRUE] = "in"
    <3>1. Visitors # {} => (CHOOSE q \in Visitors : TRUE) \in open
        BY DEF Visitors
    <3> QED
        BY <3>1 DEF OpenInGame, TInv, PlayersTyped
  <2> QED
      BY <1>3, <2>1, <2>2 DEF SendAway
<1>5. <<>> \in Seq(Current)
    OBVIOUS
<1> QED
    BY <1>1, <1>2, <1>3, <1>4, <1>5

\* What Send leaves of p in the queue.
LEMMA SentPlaces ==
    ASSUME TInv, NEW S, NEW m \in Seq(S), Send(m), NEW t, NEW p
    PROVE  /\ Grown(toChar', toChar, t, p, S)
           /\ (\A x \in S : ~(x.type = t /\ x.who = p)) => Moved(toChar', toChar, 0, t, p)
<1>1. toChar \in Seq(CharMsg)
    BY DEF TInv, LinkTyped
<1>2. CASE up
    BY <1>1, <1>2, PlacesGrown DEF Send
<1>3. CASE ~up
  <2>1. toChar' = toChar
      BY <1>3 DEF Send
  <2> QED
      BY <1>1, <2>1, PlacesStay DEF Grown
<1> QED
    BY <1>2, <1>3

\* A step in which members play: nobody comes or goes.
Played ==
    /\ \E m \in Seq(Current) : Send(m)
    /\ UNCHANGED <<session, dbInv, up, toMap>>
    /\ member' \subseteq member
    /\ \A q \in Member : inv'[q] = inv[q] \/ (session[q] = "in" /\ inv'[q] # NotLoaded)

\* Such a step leaves everybody's packets in order.
LEMMA PlayedLeaves ==
    ASSUME Inv, Played, NEW p \in Member
    PROVE  Leaves(p, 0, 0)
<1>0. TInv
    BY DEF Inv
<1>1. PICK m \in Seq(Current) : Send(m)
    BY DEF Played
<1>2. \A t \in {"final", "request", "retrieve"} : \A x \in Current : ~(x.type = t /\ x.who = p)
    BY DEF Current
<1>3. \A t \in {"final", "request", "retrieve"} : Moved(toChar', toChar, 0, t, p)
    BY <1>0, <1>1, <1>2, SentPlaces
<1>4. Grown(toChar', toChar, "inventory", p, Current)
    BY <1>0, <1>1, SentPlaces
<1>5. ASSUME NEW i \in At(toChar', "inventory", p), i \notin At(toChar, "inventory", p) \/ toChar'[i] # toChar[i]
      PROVE  session[p] = "in" /\ toChar'[i].items = inv[p]
  <2>1. toChar'[i] \in Current /\ toChar'[i].type = "inventory" /\ toChar'[i].who = p
      BY <1>4, <1>5 DEF Grown, At
  <2> QED
      BY <2>1 DEF Current
<1>6. \A i \in At(toChar', "inventory", p) : \/ i \in At(toChar, "inventory", p) /\ toChar'[i] = toChar[i]
                                             \/ session[p] = "in" /\ toChar'[i].items = inv[p]
    BY <1>5
<1>7. \A j \in At(toChar, "inventory", p) : j \in At(toChar', "inventory", p) /\ toChar'[j] = toChar[j]
    BY <1>4 DEF Grown
<1>8. \A t : Moved(toMap', toMap, 0, t, p)
    BY <1>0, PlacesStay DEF Played, TInv, LinkTyped
<1>9. \A i \in At(toChar', "inventory", p) \cup At(toChar, "inventory", p) : i \in Nat
  <2>1. \A i \in At(toChar, "inventory", p) : i \in Nat
      BY <1>0, Places DEF TInv, LinkTyped
  <2>2. toChar' \in Seq(CharMsg)
    <3>1. m \in Seq(CharMsg)
      <4>1. Current \subseteq CharMsg
          BY DEF Current
      <4> QED
          BY <4>1
    <3>2. toChar \in Seq(CharMsg)
        BY <1>0 DEF TInv, LinkTyped
    <3> QED
        BY <1>1, <3>1, <3>2, ConcatProperties DEF Send
  <2>3. \A i \in At(toChar', "inventory", p) : i \in Nat
      BY <2>2, Places
  <2> QED
      BY <2>1, <2>3
<1>10. \A i \in At(toChar', "inventory", p) \cup At(toChar, "inventory", p) : i + 0 = i /\ i - 0 = i
    BY <1>9
<1> QED
    BY <1>3, <1>6, <1>7, <1>8, <1>10 DEF Leaves, Played

\* The items that one of them moves go into or come out of the storage.
LEMMA PlayedSettles ==
    ASSUME Inv, Inv', Books, Played, losses' = losses, NEW p \in Member,
           \A q \in Member : q # p => inv'[q] = inv[q],
           \/ inv'[p] = inv[p] /\ InStorage' = InStorage /\ discarded' = discarded
           \/ session[p] = "in" /\ inv'[p] + InStorage' + discarded' = inv[p] + InStorage + discarded
    PROVE  Settled
<1>0. TInv /\ TInv' /\ Balance /\ \A q \in Member : Ledger(q)
    BY DEF Inv, Books
<1>1. ASSUME NEW q \in Member
      PROVE  /\ Ledger(q)' /\ Copied(q)
             /\ inv'[q] = inv[q] => Holding(q)' = Holding(q)
             /\ session[q] = "in" => Holding(q) = inv[q] /\ Holding(q)' = inv'[q]
    BY <1>0, PlayedLeaves, LeftAlone
<1>2. Balance'
  <2>1. CASE inv'[p] = inv[p] /\ InStorage' = InStorage /\ discarded' = discarded
      BY <1>0, <1>1, <2>1, BalanceSame
  <2>2. CASE session[p] = "in" /\ inv'[p] + InStorage' + discarded' = inv[p] + InStorage + discarded
    <3>1. Holding(p)' + InStorage' + discarded' = Holding(p) + InStorage + discarded
        BY <1>1, <2>2
    <3>2. \A q \in Member : q # p => Holding(q)' = Holding(q)
        BY <1>1
    <3> QED
        BY <1>0, <1>1, <3>1, <3>2, BalanceKept
  <2> QED
      BY <2>1, <2>2
<1> QED
    BY <1>1, <1>2 DEF Settled

\* Nothing is sent, or the storage is closed.
LEMMA QuietPlay ==
    ASSUME TInv, toChar' = toChar
    PROVE  \E m \in Seq(Current) : Send(m)
<1>1. toChar \o <<>> = toChar
    BY DEF TInv, LinkTyped
<1>2. <<>> \in Seq(Current) /\ Send(<<>>)
    BY <1>1 DEF Send
<1> QED
    BY <1>2

\* Closing the storage sends such packets and moves no item.
LEMMA ClosingPlay ==
    ASSUME TInv, OpenInGame, NEW p \in Member, session[p] = "in", Closed(p), dbGuild' = dbGuild
    PROVE  (\E m \in Seq(Current) : Send(m)) /\ InStorage' = InStorage
<1>1. (IF stor.status THEN Save(p) ELSE <<>>) \in Seq(Current)
    BY CurrentPackets
<1>2. stor'.items = stor.items /\ stor'.max = stor.max
    BY DEF Closed, TInv, StorTyped, Storage
<1> QED
    BY <1>1, <1>2 DEF Closed, InStorage

\* Opening, closing and saving move no item.
LEMMA OpenSettles ==
    ASSUME Inv, Inv', Books, NEW p \in Member, Open(p) \/ Close(p) \/ AutoSave(p)
    PROVE  Settled
<1>0. TInv /\ OpenInGame
    BY DEF Inv
<1>1. /\ UNCHANGED <<session, member, inv, dbInv, dbGuild, up, toMap, losses, discarded>>
      /\ p \in Member
    BY DEF Open, Close, AutoSave, mapVars, dbVars
<1>2. (\E m \in Seq(Current) : Send(m)) /\ InStorage' = InStorage
  <2>1. CASE Open(p)
    <3>1. (\E m \in Seq(Current) : Send(m)) /\ stor'.items = stor.items /\ stor'.max = stor.max
      <4>1. CASE ~stor.known \/ stor.max # Slots
        <5>1. << [type |-> "load", who |-> p] >> \in Seq(Current)
            BY <1>0, CurrentPackets, ShortLists
        <5> QED
            BY <2>1, <4>1, <5>1 DEF Open, Opened
      <4>2. CASE ~(~stor.known \/ stor.max # Slots)
          BY <1>0, <2>1, <4>2, QuietPlay DEF Open, Opened, TInv, StorTyped, Storage
      <4> QED
          BY <4>1, <4>2
    <3> QED
        BY <1>1, <3>1 DEF InStorage
  <2>2. CASE Close(p)
    <3>1. session[p] = "in" /\ Closed(p)
        BY <1>0, <2>2 DEF Close, OpenInGame
    <3> QED
        BY <1>0, <1>1, <3>1, ClosingPlay
  <2>3. CASE AutoSave(p)
    <3>1. Save(p) \in Seq(Current) /\ Send(Save(p)) /\ stor' = stor
        BY <1>0, <2>3, CurrentPackets DEF AutoSave, mapVars
    <3> QED
        BY <1>1, <3>1 DEF InStorage
  <2> QED
      BY <2>1, <2>2, <2>3
<1>3. Played
    BY <1>1, <1>2 DEF Played
<1> QED
    BY <1>1, <1>2, <1>3, PlayedSettles

\* An item is put in or taken out.
LEMMA ItemSettles ==
    ASSUME Inv, Inv', Books, NEW p \in Member, StorageAdd(p) \/ StorageGet(p)
    PROVE  Settled
<1>0. TInv /\ OpenInGame /\ Ledger(p)
    BY DEF Inv, Books
<1>1. /\ UNCHANGED <<session, member, dbInv, dbGuild, up, toMap, losses, discarded>>
      /\ session[p] = "in"
    BY <1>0 DEF StorageAdd, StorageGet, dbVars, OpenInGame
<1>2. CASE stor.lock
  <2>1. Closed(p) /\ inv' = inv
      BY <1>2 DEF StorageAdd, StorageGet
  <2>2. (\E m \in Seq(Current) : Send(m)) /\ InStorage' = InStorage
      BY <1>0, <1>1, <2>1, ClosingPlay
  <2>3. Played
      BY <1>1, <2>1, <2>2 DEF Played
  <2> QED
      BY <1>1, <2>1, <2>2, <2>3, PlayedSettles
<1>3. CASE ~stor.lock
  <2>1. /\ stor.status /\ toChar' = toChar
        /\ \/ /\ inv[p] > 0
              /\ stor' = [stor EXCEPT !.items = @ + 1, !.dirty = TRUE]
              /\ inv' = [inv EXCEPT ![p] = @ - 1]
           \/ /\ stor' = [stor EXCEPT !.items = @ - 1, !.dirty = TRUE]
              /\ inv' = [inv EXCEPT ![p] = @ + 1]
      BY <1>3 DEF StorageAdd, StorageGet
  <2>2. inv[p] \in Nat /\ inv \in [Member -> {NotLoaded} \cup Nat]
      BY <1>0, <1>1 DEF Ledger, InventoryKnown, Loaded, TInv, PlayersTyped
  <2>3. stor.max # 0 /\ stor.items \in Int /\ stor \in Storage
      BY <1>0, <2>1 DEF TInv, StorTyped, Storage
  <2>4. stor'.max = stor.max /\ \/ stor'.items = stor.items + 1 /\ inv'[p] = inv[p] - 1 /\ inv[p] > 0
                                \/ stor'.items = stor.items - 1 /\ inv'[p] = inv[p] + 1
    <3>1. CASE /\ inv[p] > 0
               /\ stor' = [stor EXCEPT !.items = @ + 1, !.dirty = TRUE]
               /\ inv' = [inv EXCEPT ![p] = @ - 1]
        BY <2>2, <2>3, <3>1 DEF Storage
    <3>2. CASE /\ stor' = [stor EXCEPT !.items = @ - 1, !.dirty = TRUE]
               /\ inv' = [inv EXCEPT ![p] = @ + 1]
        BY <2>2, <2>3, <3>2 DEF Storage
    <3> QED
        BY <2>1, <3>1, <3>2
  <2>5. \A q \in Member : q # p => inv'[q] = inv[q]
      BY <2>1, <2>2
  <2>6. inv'[p] # NotLoaded
      BY <2>2, <2>4 DEF NotLoaded
  <2>7. inv'[p] + InStorage' + discarded' = inv[p] + InStorage + discarded
    <3>1. discarded \in Int
        BY <1>0 DEF TInv, PlayersTyped
    <3>2. InStorage' = stor'.items /\ InStorage = stor.items
        BY <2>3, <2>4 DEF InStorage
    <3> QED
        BY <1>1, <2>2, <2>3, <2>4, <3>1, <3>2
  <2>8. Played
      BY <1>0, <1>1, <2>1, <2>5, <2>6, QuietPlay DEF Played
  <2> QED
      BY <1>1, <2>5, <2>7, <2>8, PlayedSettles
<1> QED
    BY <1>2, <1>3

\* Who is expelled while in the game: its items go into the storage.
LEMMA ExpelSettles ==
    ASSUME Inv, Inv', Books, NEW p \in Member, Withdraw(p), session[p] \in {"in", "loading"}
    PROVE  Settled
<1>0. TInv /\ OpenInGame /\ Ledger(p)
    BY DEF Inv, Books
<1>1. UNCHANGED <<session, dbInv, dbGuild, up, toMap, losses>> /\ member' = member \ {p}
    BY DEF Withdraw, dbVars
<1>2. ASSUME inv[p] > 0, Send(SendAway), stor' = Deposit(inv[p]), inv' = [inv EXCEPT ![p] = 0],
             discarded' = discarded + inv[p] - Kept(inv[p])
      PROVE  Settled
  <2>1. session[p] = "in" /\ inv[p] \in Nat
      BY <1>0, <1>2 DEF Ledger, InventoryKnown, Loaded, TInv, PlayersTyped, NotLoaded
  <2>2. inv'[p] = 0 /\ \A q \in Member : q # p => inv'[q] = inv[q]
      BY <1>0, <1>2 DEF TInv, PlayersTyped
  <2>3. Kept(inv[p]) \in 0..inv[p] /\ InStorage' = InStorage + Kept(inv[p])
      BY <1>0, <1>1, <1>2, <2>1, DepositFits
  <2>4. InStorage \in Int /\ discarded \in Int
      BY <1>0, NumberTypes DEF NumbersTyped
  <2>5. ASSUME NEW k \in 0..inv[p], InStorage' = InStorage + k, discarded' = discarded + inv[p] - k
        PROVE  inv'[p] + InStorage' + discarded' = inv[p] + InStorage + discarded
      BY <2>1, <2>2, <2>4, <2>5
  <2>6. inv'[p] + InStorage' + discarded' = inv[p] + InStorage + discarded
      BY <1>2, <2>3, <2>5
  <2>7. Played
    <3>1. SendAway \in Seq(Current)
        BY <1>0, CurrentPackets
    <3>2. 0 # NotLoaded
        BY DEF NotLoaded
    <3> QED
        BY <1>1, <1>2, <2>1, <2>2, <3>1, <3>2 DEF Played
  <2> QED
      BY <1>1, <2>1, <2>2, <2>6, <2>7, PlayedSettles
<1>3. ASSUME IF p \in open THEN Closed(p) ELSE UNCHANGED <<stor, open, toChar>>, UNCHANGED <<inv, discarded>>
      PROVE  Settled
  <2>1. (\E m \in Seq(Current) : Send(m)) /\ InStorage' = InStorage
    <3>1. CASE p \in open
      <4>1. session[p] = "in"
          BY <1>0, <3>1 DEF OpenInGame
      <4> QED
          BY <1>0, <1>1, <1>3, <3>1, <4>1, ClosingPlay
    <3>2. CASE p \notin open
        BY <1>0, <1>1, <1>3, <3>2, QuietPlay DEF InStorage
    <3> QED
        BY <3>1, <3>2
  <2>2. Played
      BY <1>1, <1>3, <2>1 DEF Played
  <2> QED
      BY <1>1, <1>3, <2>1, <2>2, PlayedSettles
<1> QED
    BY <1>2, <1>3 DEF Withdraw

-----------------------------------------------------------------------------
(* Steps in which one member comes, goes or gets a packet.                 *)

\* The others are left alone.
LEMMA OthersSettle ==
    ASSUME Inv, Inv', Books, NEW p \in Member, NEW a \in {0, 1}, NEW b \in {0, 1}, losses' = losses,
           \A q \in Member : q # p => Leaves(q, a, b) /\ inv'[q] = inv[q],
           Ledger(p)', Copied(p),
           Holding(p)' + InStorage' + discarded' = Holding(p) + InStorage + discarded
    PROVE  Settled
<1>0. TInv /\ TInv' /\ Balance /\ \A q \in Member : Ledger(q)
    BY DEF Inv, Books
<1>1. ASSUME NEW q \in Member, q # p PROVE Ledger(q)' /\ Copied(q) /\ Holding(q)' = Holding(q)
    BY <1>0, <1>1, LeftAlone
<1>2. \A q \in Member : Ledger(q)' /\ Copied(q)
    BY <1>1
<1>3. Balance'
    BY <1>0, <1>1, <1>2, BalanceKept
<1> QED
    BY <1>2, <1>3 DEF Settled

\* Nobody is concerned.
LEMMA NobodySettles ==
    ASSUME Inv, Inv', Books, NEW a \in {0, 1}, NEW b \in {0, 1}, losses' = losses,
           \A q \in Member : Leaves(q, a, b) /\ inv'[q] = inv[q],
           InStorage' = InStorage, discarded' = discarded
    PROVE  Settled
<1>0. TInv /\ TInv' /\ Balance /\ \A q \in Member : Ledger(q)
    BY DEF Inv, Books
<1>1. ASSUME NEW q \in Member PROVE Ledger(q)' /\ Copied(q) /\ Holding(q)' = Holding(q)
    BY <1>0, <1>1, LeftAlone
<1>2. Balance'
    BY <1>0, <1>1, BalanceSame
<1> QED
    BY <1>1, <1>2 DEF Settled

\* Whom a packet to the char server or its answer does not concern.
LEMMA TakenLeaves ==
    ASSUME TInv, NEW q \in Member, toChar # <<>>, toChar' = Tail(toChar), up' = up,
           Head(toChar).type \in {"inventory", "final", "request", "retrieve"} => Head(toChar).who # q,
           \/ toMap' = toMap
           \/ \E m : toMap' = Append(toMap, m) /\ (m.type \in {"ack", "inventory", "bound"} => m.who # q),
           session'[q] = session[q], dbInv'[q] = dbInv[q], inv'[q] = inv[q], member' = member
    PROVE  Leaves(q, 1, 0)
<1>1. toChar \in Seq(CharMsg) /\ toMap \in Seq(MapMsg)
    BY DEF TInv, LinkTyped
<1>2. ASSUME NEW t \in {"inventory", "final", "request", "retrieve"}
      PROVE  Moved(toChar', toChar, 1, t, q)
    BY <1>1, <1>2, PlacesTaken
<1>3. ASSUME NEW t \in {"ack", "inventory", "bound"}
      PROVE  Moved(toMap', toMap, 0, t, q)
  <2>1. CASE toMap' = toMap
      BY <1>1, <2>1, PlacesStay
  <2>2. ASSUME NEW m, toMap' = Append(toMap, m), m.type \in {"ack", "inventory", "bound"} => m.who # q
        PROVE  Moved(toMap', toMap, 0, t, q)
    <3>1. ~(m.type = t /\ m.who = q)
        BY <1>3, <2>2
    <3> QED
        BY <1>1, <2>2, <3>1, PlacesAppended
  <2> QED
      BY <2>1, <2>2
<1>4. Moved(toChar', toChar, 1, "inventory", q)
    BY <1>2
<1> QED
    BY <1>2, <1>3, <1>4 DEF Leaves, Moved

\* Whom a packet to the map server does not concern.
LEMMA ReceivedLeaves ==
    ASSUME TInv, NEW q \in Member, toMap # <<>>, toMap' = Tail(toMap), toChar' = toChar, up' = up,
           Head(toMap).type \in {"ack", "inventory", "bound"} => Head(toMap).who # q,
           session'[q] = session[q], dbInv'[q] = dbInv[q], inv'[q] = inv[q], member' = member
    PROVE  Leaves(q, 0, 1)
<1>1. toChar \in Seq(CharMsg) /\ toMap \in Seq(MapMsg)
    BY DEF TInv, LinkTyped
<1>2. ASSUME NEW t \in {"ack", "inventory", "bound"}
      PROVE  Moved(toMap', toMap, 1, t, q)
    BY <1>1, <1>2, PlacesTaken
<1>3. \A t : Moved(toChar', toChar, 0, t, q)
    BY <1>1, PlacesStay
<1>4. Moved(toChar', toChar, 0, "inventory", q)
    BY <1>3
<1> QED
    BY <1>2, <1>3, <1>4 DEF Leaves, Moved

-----------------------------------------------------------------------------
(* The char server.                                                        *)

\* The places of p's packets to the char server after the first one is taken.
LEMMA TakenPlaces ==
    ASSUME TInv, TInv', NEW p, toChar # <<>>, toChar' = Tail(toChar)
    PROVE  /\ \A i \in Saves(p)' : i + 1 \in Saves(p) /\ toChar'[i] = toChar[i + 1]
           /\ \A i \in Finals(p)' : i + 1 \in Finals(p) /\ toChar'[i] = toChar[i + 1]
           /\ \A i \in Requests(p)' : i + 1 \in Requests(p)
           /\ \A i \in Retrievals(p)' : i + 1 \in Retrievals(p)
           /\ \A j \in Finals(p) : j > 1 => j - 1 \in Finals(p)'
           /\ \A i \in Saves(p) \cup Finals(p) \cup Requests(p) \cup Retrievals(p) : i \in Nat /\ i >= 1
           /\ \A i \in Saves(p)' \cup Finals(p)' \cup Requests(p)' \cup Retrievals(p)' : i \in Nat /\ i >= 1
           /\ 1 \in Saves(p) <=> Head(toChar).type = "inventory" /\ Head(toChar).who = p
           /\ 1 \in Finals(p) <=> Head(toChar).type = "final" /\ Head(toChar).who = p
           /\ 1 \in Requests(p) <=> Head(toChar).type = "request" /\ Head(toChar).who = p
           /\ 1 \in Retrievals(p) <=> Head(toChar).type = "retrieve" /\ Head(toChar).who = p
           /\ toChar[1] = Head(toChar) /\ Head(toChar) \in CharMsg
           /\ up
<1>1. toChar \in Seq(CharMsg) /\ toChar' \in Seq(CharMsg) /\ up
    BY DEF TInv, LinkTyped
<1>2. \A t : /\ Shifted(toChar', toChar, 1, t, p)
             /\ 1 \in At(toChar, t, p) <=> Head(toChar).type = t /\ Head(toChar).who = p
    BY <1>1, PlacesTaken
<1>3. \A t : \A i \in At(toChar, t, p) \cup At(toChar', t, p) : i \in Nat /\ i >= 1
    BY <1>1, Places
<1>4. /\ \A i \in Saves(p)' : i + 1 \in Saves(p) /\ toChar'[i] = toChar[i + 1]
      /\ \A i \in Finals(p)' : i + 1 \in Finals(p) /\ toChar'[i] = toChar[i + 1]
      /\ \A i \in Requests(p)' : i + 1 \in Requests(p)
      /\ \A i \in Retrievals(p)' : i + 1 \in Retrievals(p)
      /\ \A j \in Finals(p) : j > 1 => j - 1 \in Finals(p)'
    BY <1>2 DEF Shifted, Saves, Finals, Requests, Retrievals
<1>5. /\ \A i \in Saves(p) \cup Finals(p) \cup Requests(p) \cup Retrievals(p) : i \in Nat /\ i >= 1
      /\ \A i \in Saves(p)' \cup Finals(p)' \cup Requests(p)' \cup Retrievals(p)' : i \in Nat /\ i >= 1
    BY <1>3 DEF Saves, Finals, Requests, Retrievals
<1>6. /\ 1 \in Saves(p) <=> Head(toChar).type = "inventory" /\ Head(toChar).who = p
      /\ 1 \in Finals(p) <=> Head(toChar).type = "final" /\ Head(toChar).who = p
      /\ 1 \in Requests(p) <=> Head(toChar).type = "request" /\ Head(toChar).who = p
      /\ 1 \in Retrievals(p) <=> Head(toChar).type = "retrieve" /\ Head(toChar).who = p
    BY <1>2 DEF Saves, Finals, Requests, Retrievals
<1>7. toChar[1] = Head(toChar) /\ Head(toChar) \in CharMsg
    BY <1>1
<1> QED
    BY <1>1, <1>4, <1>5, <1>6, <1>7

\* The packet before a final save that stays.
LEMMA TakenBefore ==
    ASSUME TInv, toChar # <<>>, toChar' = Tail(toChar), NEW i \in Nat, i >= 1, i + 1 \in DOMAIN toChar
    PROVE  i # 1 => toChar'[i - 1] = toChar[i]
    BY DEF TInv, LinkTyped

\* A queue to the map server that stays.
LEMMA MapStays ==
    ASSUME toMap' = toMap, NEW p
    PROVE  Acks(p)' = Acks(p) /\ Replies(p)' = Replies(p) /\ Parcels(p)' = Parcels(p) /\ Parcel(p)' = Parcel(p)
    BY DEF Acks, Replies, Parcels, Parcel, At

\* An inventory is saved: that of a session that is on the map server.
LEMMA InventorySettles ==
    ASSUME Inv, Inv', Books, HandleInventory, UNCHANGED <<mapVars, up, losses, discarded>>,
           NEW p \in Member, p = Head(toChar).who, NEW n, n = Head(toChar).items
    PROVE  Settled
<1>0. TInv /\ TInv' /\ PlayInv
    BY DEF Inv
<1>1. /\ toChar # <<>> /\ toChar' = Tail(toChar) /\ Head(toChar).type = "inventory"
      /\ UNCHANGED <<session, member, inv, stor, dbGuild, up, toMap, losses, discarded>>
      /\ dbInv' = IF n = NotLoaded THEN dbInv ELSE [dbInv EXCEPT ![p] = n]
    BY DEF HandleInventory, Take, mapVars
<1>2. /\ \A i \in Saves(p)' : i + 1 \in Saves(p) /\ toChar'[i] = toChar[i + 1]
      /\ \A i \in Finals(p)' : i + 1 \in Finals(p) /\ toChar'[i] = toChar[i + 1]
      /\ \A i \in Requests(p)' : i + 1 \in Requests(p)
      /\ \A i \in Retrievals(p)' : i + 1 \in Retrievals(p)
      /\ \A j \in Finals(p) : j > 1 => j - 1 \in Finals(p)'
      /\ \A i \in Saves(p) \cup Finals(p) \cup Requests(p) \cup Retrievals(p) : i \in Nat /\ i >= 1
      /\ \A i \in Saves(p)' \cup Finals(p)' \cup Requests(p)' \cup Retrievals(p)' : i \in Nat /\ i >= 1
      /\ 1 \in Saves(p) /\ 1 \notin Finals(p)
      /\ toChar[1] = Head(toChar) /\ Head(toChar) \in CharMsg
    BY <1>0, <1>1, TakenPlaces
<1>4. dbInv'[p] = IF n = NotLoaded THEN dbInv[p] ELSE n
    BY <1>0, <1>1 DEF TInv, PlayersTyped
<1>5. ASSUME NEW q \in Member, q # p PROVE Leaves(q, 1, 0) /\ inv'[q] = inv[q]
  <2>1. dbInv'[q] = dbInv[q]
      BY <1>0, <1>1, <1>5 DEF TInv, PlayersTyped
  <2> QED
      BY <1>0, <1>1, <1>5, <2>1, TakenLeaves
<1>6. Ledger(p) /\ LogsOutOnce(p)
    BY <1>0, LogoutFacts DEF Books
<1>7. n # NotLoaded => OnMap(p) /\ (session[p] = "logout" => Finals(p) # {})
    BY <1>2, <1>6 DEF Ledger, SavesAreCurrent
<1>8. Acks(p)' = Acks(p) /\ Replies(p)' = Replies(p) /\ Parcels(p)' = Parcels(p) /\ Parcel(p)' = Parcel(p)
    BY <1>1, MapStays
<1>9. (OnMap(p)' <=> OnMap(p)) /\ (Loaded(p)' <=> Loaded(p))
    BY <1>1 DEF OnMap, Loaded
<1>10. session[p] = "loading" \/ Acks(p) # {} => dbInv'[p] = dbInv[p]
  <2>1. session[p] = "loading" => ~OnMap(p)
      BY DEF OnMap
  <2>2. Acks(p) # {} => session[p] = "logout" /\ Finals(p) = {}
      BY <1>6 DEF LogsOutOnce
  <2> QED
      BY <1>4, <1>7, <2>1, <2>2
<1>11. InventoryKnown(p)' /\ SavesAreCurrent(p)'
  <2>1. InventoryKnown(p)'
      BY <1>1, <1>6, <1>9 DEF Ledger, InventoryKnown
  <2>2. SavesAreCurrent(p)'
    <3> SUFFICES ASSUME NEW i \in Saves(p)', toChar'[i].items # NotLoaded
                 PROVE  OnMap(p) /\ (session[p] = "logout" => \E j \in Finals(p)' : i < j)
        BY <1>1, <1>9 DEF SavesAreCurrent
    <3>1. OnMap(p) /\ (session[p] = "logout" => \E j \in Finals(p) : i + 1 < j)
        BY <1>2, <1>6 DEF Ledger, SavesAreCurrent
    <3> QED
        BY <1>2, <3>1
  <2> QED
      BY <2>1, <2>2
<1>12. RequestsAreCurrent(p)'
    BY <1>1, <1>2, <1>6, <1>8 DEF Ledger, RequestsAreCurrent
<1>13. LogoutIsPending(p)'
  <2>1. Finals(p) # {} => Finals(p)' # {}
      BY <1>2
  <2> QED
      BY <1>1, <1>6, <1>8, <2>1 DEF Ledger, LogoutIsPending
<1>14. FinalIsNewest(p)'
  <2> SUFFICES ASSUME NEW i \in Finals(p)', Loaded(p)
               PROVE  IF i = 1 THEN dbInv'[p] = inv'[p] ELSE toChar'[i - 1] = SaveInventory(p)'
      BY <1>9 DEF FinalIsNewest
  <2>1. i + 1 \in Finals(p) /\ i \in Nat /\ i >= 1 /\ i + 1 # 1 /\ (i + 1) - 1 = i
      BY <1>2
  <2>2. toChar[i] = SaveInventory(p) /\ i + 1 \in DOMAIN toChar
      BY <1>6, <2>1 DEF Ledger, FinalIsNewest, Finals, At
  <2>3. SaveInventory(p)' = SaveInventory(p)
      BY <1>1 DEF SaveInventory
  <2>4. CASE i = 1
    <3>1. n = inv[p] /\ n # NotLoaded
        BY <1>2, <2>2, <2>4 DEF SaveInventory, Loaded
    <3> QED
        BY <1>1, <1>4, <2>4, <3>1
  <2>5. CASE i # 1
      BY <1>0, <1>1, <2>1, <2>2, <2>3, <2>5, TakenBefore
  <2> QED
      BY <2>4, <2>5
<1>15. AckIsNewest(p)'
    BY <1>1, <1>6, <1>8, <1>9, <1>10 DEF Ledger, AckIsNewest
<1>16. RetrievedOnce(p)'
  <2>1. /\ Retrievals(p)' # {} => Retrievals(p) # {}
        /\ \A i, j \in Retrievals(p)' : i = j
      BY <1>2, <1>6 DEF Ledger, RetrievedOnce
  <2> QED
      BY <1>1, <1>6, <1>8, <2>1 DEF Ledger, RetrievedOnce
<1>17. RetrievedBeforeLogin(p)'
  <2> SUFFICES ASSUME session[p] = "loading"
               PROVE  /\ \A i \in Requests(p)', j \in Retrievals(p)' : j < i
                      /\ \A i \in Replies(p)' : toMap'[i].items = dbInv'[p] /\ Retrievals(p)' = {} /\ \A j \in Parcels(p)' : j < i
      BY <1>1 DEF RetrievedBeforeLogin
  <2>1. \A i \in Requests(p)', j \in Retrievals(p)' : j < i
      BY <1>2, <1>6 DEF Ledger, RetrievedBeforeLogin
  <2>2. \A i \in Replies(p) : toMap[i].items = dbInv[p] /\ Retrievals(p) = {} /\ \A j \in Parcels(p) : j < i
      BY <1>6 DEF Ledger, RetrievedBeforeLogin
  <2> QED
      BY <1>1, <1>2, <1>8, <1>10, <2>1, <2>2
<1>18. RetrievedAfterLogout(p)'
  <2> SUFFICES ASSUME session[p] = "logout", Loaded(p)
               PROVE  /\ \A i \in Retrievals(p)', j \in Finals(p)' : j < i
                      /\ \A i \in Parcels(p)' : \E j \in Acks(p)' : j < i
      BY <1>1, <1>9 DEF RetrievedAfterLogout
  <2>1. \A i \in Retrievals(p)', j \in Finals(p)' : j < i
      BY <1>2, <1>6 DEF Ledger, RetrievedAfterLogout
  <2> QED
      BY <1>6, <1>8, <2>1 DEF Ledger, RetrievedAfterLogout
<1>19. Ledger(p)'
    BY <1>11, <1>12, <1>13, <1>14, <1>15, <1>16, <1>17, <1>18 DEF Ledger
<1>20. Copied(p)
  <2>1. dbInv'[p] = dbInv[p] \/ \E i \in Saves(p) : dbInv'[p] = toChar[i].items
      BY <1>2, <1>4
  <2> QED
      BY <1>1, <1>2, <1>8, <2>1 DEF Copied
<1>21. Holding(p)' = Holding(p) /\ InStorage' = InStorage
    BY <1>1, <1>4, <1>7, <1>8, <1>9 DEF Holding, InStorage
<1> QED
    BY <1>1, <1>5, <1>19, <1>20, <1>21, OthersSettle

\* p's packets to the map server when an answer m is sent.
Answers(p, m) ==
    /\ Acks(p)' = IF m.type = "ack" /\ m.who = p THEN Acks(p) \cup {Len(toMap) + 1} ELSE Acks(p)
    /\ Replies(p)' = IF m.type = "inventory" /\ m.who = p THEN Replies(p) \cup {Len(toMap) + 1} ELSE Replies(p)
    /\ Parcels(p)' = IF m.type = "bound" /\ m.who = p THEN Parcels(p) \cup {Len(toMap) + 1} ELSE Parcels(p)
    /\ toMap'[Len(toMap) + 1] = m /\ Len(toMap) \in Nat
    /\ \A j \in Acks(p) \cup Replies(p) \cup Parcels(p) :
          j \in Nat /\ j >= 1 /\ j < Len(toMap) + 1 /\ toMap'[j] = toMap[j]
    /\ ~(m.type = "bound" /\ m.who = p) => Parcel(p)' = Parcel(p)
\* So it is when m is appended.
LEMMA AnswerPlaces ==
    ASSUME TInv, NEW p, NEW m, toMap' = Append(toMap, m)
    PROVE  Answers(p, m)
<1> DEFINE k == Len(toMap) + 1
<1>1. toMap \in Seq(MapMsg)
    BY DEF TInv, LinkTyped
<1>2. /\ DOMAIN toMap' = DOMAIN toMap \cup {k} /\ toMap'[k] = m /\ Len(toMap) \in Nat
      /\ \A j \in DOMAIN toMap : j \in Nat /\ j >= 1 /\ j < k /\ toMap'[j] = toMap[j] /\ j # k
    BY <1>1
<1> HIDE DEF k
<1>3. ASSUME NEW t
      PROVE  At(toMap', t, p) = IF m.type = t /\ m.who = p THEN At(toMap, t, p) \cup {k} ELSE At(toMap, t, p)
    BY <1>2 DEF At
<1>4. \A j \in Acks(p) \cup Replies(p) \cup Parcels(p) : j \in DOMAIN toMap
    BY DEF Acks, Replies, Parcels, At
<1>5. /\ Acks(p)' = IF m.type = "ack" /\ m.who = p THEN Acks(p) \cup {k} ELSE Acks(p)
      /\ Replies(p)' = IF m.type = "inventory" /\ m.who = p THEN Replies(p) \cup {k} ELSE Replies(p)
      /\ Parcels(p)' = IF m.type = "bound" /\ m.who = p THEN Parcels(p) \cup {k} ELSE Parcels(p)
    BY <1>3 DEF Acks, Replies, Parcels
<1>6. ASSUME ~(m.type = "bound" /\ m.who = p) PROVE Parcel(p)' = Parcel(p)
  <2>1. Parcels(p)' = Parcels(p)
      BY <1>5, <1>6
  <2>2. Parcels(p) # {} => (CHOOSE i \in Parcels(p) : TRUE) \in Parcels(p)
      OBVIOUS
  <2> QED
      BY <1>2, <1>4, <2>1, <2>2 DEF Parcel
<1> QED
    BY <1>2, <1>4, <1>5, <1>6 DEF k, Answers

\* The storage is saved or read.
LEMMA StorageSettles ==
    ASSUME Inv, Inv', Books, HandleStorage \/ HandleLoad, UNCHANGED <<mapVars, up, losses, discarded>>
    PROVE  Settled
<1>0. TInv /\ ItemInv
    BY DEF Inv
<1>1. /\ toChar # <<>> /\ toChar' = Tail(toChar) /\ Head(toChar).type \in {"storage", "load"}
      /\ UNCHANGED <<session, member, inv, stor, dbInv, up, losses, discarded>>
      /\ \E m : toMap' = Append(toMap, m) /\ m.type \in {"stored", "load"}
    BY DEF HandleStorage, HandleLoad, Take, Reply, mapVars, dbVars
<1>2. \A q \in Member : Leaves(q, 1, 0) /\ inv'[q] = inv[q]
    BY <1>0, <1>1, TakenLeaves
<1>3. InStorage' = InStorage
  <2>1. CASE HandleLoad
      BY <1>1, <2>1 DEF HandleLoad, InStorage, dbVars
  <2>2. CASE HandleStorage
    <3>1. 1 \in DOMAIN toChar /\ IsStorage(toChar[1])
        BY <1>0, <1>1, <2>2 DEF HandleStorage, Take, TInv, LinkTyped, IsStorage
    <3>2. stor.max # 0
        BY <1>0, <3>1 DEF ItemInv, NothingSaved
    <3> QED
        BY <1>1, <3>2 DEF InStorage
  <2> QED
      BY <2>1, <2>2
<1> QED
    BY <1>1, <1>2, <1>3, NobodySettles

\* The final save: the newest inventory is in the database.
LEMMA FinalSettles ==
    ASSUME Inv, Inv', Books, HandleFinal, UNCHANGED <<mapVars, up, losses, discarded>>,
           NEW p \in Member, p = Head(toChar).who
    PROVE  Settled
<1> DEFINE m == [type |-> "ack", who |-> p]
           k == Len(toMap) + 1
<1>0. TInv /\ TInv' /\ PlayInv
    BY DEF Inv
<1>1. /\ toChar # <<>> /\ toChar' = Tail(toChar) /\ Head(toChar).type = "final"
      /\ UNCHANGED <<session, member, inv, stor, dbInv, dbGuild, up, losses, discarded>>
      /\ toMap' = Append(toMap, m)
    BY DEF HandleFinal, Take, Reply, mapVars, dbVars
<1>2. /\ \A i \in Saves(p)' : i + 1 \in Saves(p) /\ toChar'[i] = toChar[i + 1]
      /\ \A i \in Finals(p)' : i + 1 \in Finals(p) /\ toChar'[i] = toChar[i + 1]
      /\ \A i \in Requests(p)' : i + 1 \in Requests(p)
      /\ \A i \in Retrievals(p)' : i + 1 \in Retrievals(p)
      /\ \A i \in Saves(p) \cup Finals(p) \cup Requests(p) \cup Retrievals(p) : i \in Nat /\ i >= 1
      /\ \A i \in Saves(p)' \cup Finals(p)' \cup Requests(p)' \cup Retrievals(p)' : i \in Nat /\ i >= 1
      /\ 1 \in Finals(p)
    BY <1>0, <1>1, TakenPlaces
<1>3. /\ Acks(p)' = Acks(p) \cup {k} /\ Replies(p)' = Replies(p) /\ Parcels(p)' = Parcels(p) /\ Parcel(p)' = Parcel(p)
      /\ k \in Nat
      /\ \A j \in Acks(p) \cup Replies(p) \cup Parcels(p) : j \in Nat /\ j >= 1 /\ j < k /\ toMap'[j] = toMap[j]
  <2>1. Answers(p, m)
    <3> HIDE DEF m
    <3> QED
        BY <1>0, <1>1, AnswerPlaces
  <2> QED
      BY <2>1 DEF Answers
<1>4. ASSUME NEW q \in Member, q # p PROVE Leaves(q, 1, 0) /\ inv'[q] = inv[q]
  <2>1. toMap' = Append(toMap, m) /\ m.who # q
      BY <1>1, <1>4
  <2> HIDE DEF m
  <2> QED
      BY <1>0, <1>1, <1>4, <2>1, TakenLeaves
<1> HIDE DEF k, m
<1>5. Ledger(p) /\ LogsOutOnce(p)
    BY <1>0, LogoutFacts DEF Books
<1>6. session[p] = "logout" /\ Acks(p) = {} /\ \A j \in Finals(p) : j = 1
    BY <1>2, <1>5 DEF LogsOutOnce
<1>7. Finals(p)' = {} /\ Acks(p)' = {k}
    BY <1>2, <1>3, <1>6
<1>8. (OnMap(p)' <=> OnMap(p)) /\ (Loaded(p)' <=> Loaded(p))
    BY <1>1 DEF OnMap, Loaded
<1>9. Loaded(p) => dbInv[p] = inv[p] /\ Parcels(p) = {}
    BY <1>2, <1>5, <1>6 DEF Ledger, FinalIsNewest, RetrievedAfterLogout
<1>10. InventoryKnown(p)'
    BY <1>1, <1>6 DEF InventoryKnown
<1>11. SavesAreCurrent(p)'
  <2> SUFFICES ASSUME NEW i \in Saves(p)', toChar'[i].items # NotLoaded PROVE FALSE
      BY DEF SavesAreCurrent
  <2>1. \E j \in Finals(p) : i + 1 < j
      BY <1>2, <1>5, <1>6 DEF Ledger, SavesAreCurrent
  <2> QED
      BY <1>2, <1>6, <2>1
<1>12. RequestsAreCurrent(p)'
  <2>1. ASSUME NEW i \in Requests(p)' PROVE FALSE
    <3>1. \E j \in Finals(p) : i + 1 < j
        BY <1>2, <1>5, <1>6, <2>1 DEF Ledger, RequestsAreCurrent
    <3> QED
        BY <1>2, <1>6, <3>1
  <2> QED
      BY <1>1, <1>3, <1>6, <1>7, <2>1 DEF RequestsAreCurrent
<1>13. LogoutIsPending(p)' /\ FinalIsNewest(p)'
    BY <1>7 DEF LogoutIsPending, FinalIsNewest
<1>14. AckIsNewest(p)'
  <2>1. Loaded(p) => Parcel(p) = 0 /\ dbInv[p] \in Nat
      BY <1>0, <1>9 DEF Parcel, TInv, PlayersTyped
  <2> QED
      BY <1>1, <1>3, <1>8, <1>9, <2>1 DEF AckIsNewest
<1>15. RetrievedOnce(p)'
  <2>1. /\ Retrievals(p)' # {} => Retrievals(p) # {}
        /\ \A i, j \in Retrievals(p)' : i = j
      BY <1>2, <1>5 DEF Ledger, RetrievedOnce
  <2> QED
      BY <1>1, <1>3, <1>5, <2>1 DEF Ledger, RetrievedOnce
<1>16. RetrievedBeforeLogin(p)'
    BY <1>1, <1>6 DEF RetrievedBeforeLogin
<1>17. RetrievedAfterLogout(p)'
    BY <1>3, <1>7, <1>8, <1>9 DEF RetrievedAfterLogout
<1>18. Ledger(p)'
    BY <1>10, <1>11, <1>12, <1>13, <1>14, <1>15, <1>16, <1>17 DEF Ledger
<1>19. Copied(p)
    BY <1>1, <1>2, <1>3 DEF Copied
<1>20. Holding(p)' = Holding(p) /\ InStorage' = InStorage
    BY <1>1, <1>3, <1>8 DEF Holding, InStorage
<1> QED
    BY <1>1, <1>4, <1>18, <1>19, <1>20, OthersSettle

\* The inventory is read: no retrieval is ahead of it.
LEMMA RequestSettles ==
    ASSUME Inv, Inv', Books, HandleRequest, UNCHANGED <<mapVars, up, losses, discarded>>,
           NEW p \in Member, p = Head(toChar).who
    PROVE  Settled
<1> DEFINE m == [type |-> "inventory", who |-> p, items |-> dbInv[p]]
           k == Len(toMap) + 1
<1>0. TInv /\ TInv' /\ PlayInv
    BY DEF Inv
<1>1. /\ toChar # <<>> /\ toChar' = Tail(toChar) /\ Head(toChar).type = "request"
      /\ UNCHANGED <<session, member, inv, stor, dbInv, dbGuild, up, losses, discarded>>
      /\ toMap' = Append(toMap, m)
    BY DEF HandleRequest, Take, Reply, mapVars, dbVars
<1>2. /\ \A i \in Saves(p)' : i + 1 \in Saves(p) /\ toChar'[i] = toChar[i + 1]
      /\ \A i \in Finals(p)' : i + 1 \in Finals(p) /\ toChar'[i] = toChar[i + 1]
      /\ \A i \in Requests(p)' : i + 1 \in Requests(p)
      /\ \A i \in Retrievals(p)' : i + 1 \in Retrievals(p)
      /\ \A j \in Finals(p) : j > 1 => j - 1 \in Finals(p)'
      /\ \A i \in Saves(p) \cup Finals(p) \cup Requests(p) \cup Retrievals(p) : i \in Nat /\ i >= 1
      /\ \A i \in Saves(p)' \cup Finals(p)' \cup Requests(p)' \cup Retrievals(p)' : i \in Nat /\ i >= 1
      /\ 1 \in Requests(p) /\ 1 \notin Saves(p) /\ 1 \notin Finals(p)
      /\ toChar[1] = Head(toChar)
    BY <1>0, <1>1, TakenPlaces
<1>3. /\ Acks(p)' = Acks(p) /\ Replies(p)' = Replies(p) \cup {k} /\ Parcels(p)' = Parcels(p) /\ Parcel(p)' = Parcel(p)
      /\ k \in Nat /\ toMap'[k] = m
      /\ \A j \in Acks(p) \cup Replies(p) \cup Parcels(p) : j \in Nat /\ j >= 1 /\ j < k /\ toMap'[j] = toMap[j]
  <2>1. Answers(p, m)
    <3> HIDE DEF m
    <3> QED
        BY <1>0, <1>1, AnswerPlaces
  <2> QED
      BY <2>1 DEF Answers
<1>4. ASSUME NEW q \in Member, q # p PROVE Leaves(q, 1, 0) /\ inv'[q] = inv[q]
  <2>1. toMap' = Append(toMap, m) /\ m.who # q
      BY <1>1, <1>4
  <2> HIDE DEF m
  <2> QED
      BY <1>0, <1>1, <1>4, <2>1, TakenLeaves
<1>5. toMap'[k].items = dbInv[p]
    BY <1>3
<1> HIDE DEF k, m
<1>6. Ledger(p) /\ LogsOutOnce(p)
    BY <1>0, LogoutFacts DEF Books
<1>7. /\ session[p] # "out"
      /\ session[p] = "logout" => Finals(p)' # {}
      /\ session[p] = "loading" => Retrievals(p) = {} /\ Retrievals(p)' = {}
  <2>1. session[p] # "out" /\ (session[p] = "logout" => \E j \in Finals(p) : 1 < j)
      BY <1>2, <1>6 DEF Ledger, RequestsAreCurrent
  <2>2. session[p] = "loading" => \A j \in Retrievals(p) : j < 1
      BY <1>2, <1>6 DEF Ledger, RetrievedBeforeLogin
  <2> QED
      BY <1>2, <2>1, <2>2
<1>8. (OnMap(p)' <=> OnMap(p)) /\ (Loaded(p)' <=> Loaded(p))
    BY <1>1 DEF OnMap, Loaded
<1>9. InventoryKnown(p)'
    BY <1>1, <1>6, <1>8 DEF Ledger, InventoryKnown
<1>10. SavesAreCurrent(p)'
  <2> SUFFICES ASSUME NEW i \in Saves(p)', toChar'[i].items # NotLoaded
               PROVE  OnMap(p) /\ (session[p] = "logout" => \E j \in Finals(p)' : i < j)
      BY <1>1, <1>8 DEF SavesAreCurrent
  <2>1. OnMap(p) /\ (session[p] = "logout" => \E j \in Finals(p) : i + 1 < j)
      BY <1>2, <1>6 DEF Ledger, SavesAreCurrent
  <2> QED
      BY <1>2, <2>1
<1>11. RequestsAreCurrent(p)'
  <2>1. ASSUME NEW i \in Requests(p)', session[p] = "logout" PROVE \E j \in Finals(p)' : i < j
    <3>1. \E j \in Finals(p) : i + 1 < j
        BY <1>2, <1>6, <2>1 DEF Ledger, RequestsAreCurrent
    <3> QED
        BY <1>2, <2>1, <3>1
  <2> QED
      BY <1>1, <1>7, <2>1 DEF RequestsAreCurrent
<1>12. LogoutIsPending(p)'
    BY <1>1, <1>7 DEF LogoutIsPending
<1>13. FinalIsNewest(p)'
  <2> SUFFICES ASSUME NEW i \in Finals(p)', Loaded(p)
               PROVE  IF i = 1 THEN dbInv'[p] = inv'[p] ELSE toChar'[i - 1] = SaveInventory(p)'
      BY <1>8 DEF FinalIsNewest
  <2>1. i + 1 \in Finals(p) /\ i \in Nat /\ i >= 1 /\ i + 1 # 1 /\ (i + 1) - 1 = i
      BY <1>2
  <2>2. toChar[i] = SaveInventory(p) /\ i + 1 \in DOMAIN toChar
      BY <1>6, <2>1 DEF Ledger, FinalIsNewest, Finals, At
  <2>3. SaveInventory(p)' = SaveInventory(p)
      BY <1>1 DEF SaveInventory
  <2>4. i # 1
      BY <1>1, <1>2, <2>2 DEF SaveInventory
  <2> QED
      BY <1>0, <1>1, <2>1, <2>2, <2>3, <2>4, TakenBefore
<1>14. AckIsNewest(p)'
    BY <1>1, <1>3, <1>6, <1>8 DEF Ledger, AckIsNewest
<1>15. RetrievedOnce(p)'
  <2>1. /\ Retrievals(p)' # {} => Retrievals(p) # {}
        /\ \A i, j \in Retrievals(p)' : i = j
      BY <1>2, <1>6 DEF Ledger, RetrievedOnce
  <2> QED
      BY <1>1, <1>3, <1>6, <2>1 DEF Ledger, RetrievedOnce
<1>16. RetrievedBeforeLogin(p)'
  <2> SUFFICES ASSUME session[p] = "loading", NEW i \in Replies(p)'
               PROVE  toMap'[i].items = dbInv'[p] /\ \A j \in Parcels(p)' : j < i
      BY <1>1, <1>7 DEF RetrievedBeforeLogin
  <2>1. CASE i = k
      BY <1>1, <1>3, <1>5, <2>1
  <2>2. CASE i \in Replies(p)
      BY <1>1, <1>3, <1>6, <2>2 DEF Ledger, RetrievedBeforeLogin
  <2> QED
      BY <1>3, <2>1, <2>2
<1>17. RetrievedAfterLogout(p)'
  <2> SUFFICES ASSUME session[p] = "logout", Loaded(p)
               PROVE  /\ \A i \in Retrievals(p)', j \in Finals(p)' : j < i
                      /\ \A i \in Parcels(p)' : \E j \in Acks(p)' : j < i
      BY <1>1, <1>8 DEF RetrievedAfterLogout
  <2>1. \A i \in Retrievals(p)', j \in Finals(p)' : j < i
      BY <1>2, <1>6 DEF Ledger, RetrievedAfterLogout
  <2> QED
      BY <1>3, <1>6, <2>1 DEF Ledger, RetrievedAfterLogout
<1>18. Ledger(p)'
    BY <1>9, <1>10, <1>11, <1>12, <1>13, <1>14, <1>15, <1>16, <1>17 DEF Ledger
<1>19. Copied(p)
    BY <1>1, <1>2, <1>3, <1>5 DEF Copied
<1>20. Holding(p)' = Holding(p) /\ InStorage' = InStorage
    BY <1>1, <1>3, <1>8 DEF Holding, InStorage
<1> QED
    BY <1>1, <1>4, <1>18, <1>19, <1>20, OthersSettle

\* The items of who has left the guild are taken out of the database: the
\* newest ones, since its final save has been handled.
LEMMA RetrieveSettles ==
    ASSUME Inv, Inv', Books, HandleRetrieve, UNCHANGED <<mapVars, up, losses, discarded>>,
           NEW p \in Member, p = Head(toChar).who
    PROVE  Settled
<1> DEFINE m == IF dbInv[p] = 0 THEN [type |-> "unlock"] ELSE [type |-> "bound", who |-> p, items |-> dbInv[p]]
           k == Len(toMap) + 1
<1>0. TInv /\ TInv' /\ PlayInv
    BY DEF Inv
<1>1. /\ toChar # <<>> /\ toChar' = Tail(toChar) /\ Head(toChar).type = "retrieve"
      /\ UNCHANGED <<session, member, inv, stor, dbGuild, up, losses, discarded>>
      /\ toMap' = Append(toMap, m) /\ dbInv' = [dbInv EXCEPT ![p] = 0]
    BY DEF HandleRetrieve, Take, Reply, mapVars
<1>2. /\ \A i \in Saves(p)' : i + 1 \in Saves(p) /\ toChar'[i] = toChar[i + 1]
      /\ \A i \in Finals(p)' : i + 1 \in Finals(p) /\ toChar'[i] = toChar[i + 1]
      /\ \A i \in Requests(p)' : i + 1 \in Requests(p)
      /\ \A i \in Retrievals(p)' : i + 1 \in Retrievals(p)
      /\ \A j \in Finals(p) : j > 1 => j - 1 \in Finals(p)'
      /\ \A i \in Saves(p) \cup Finals(p) \cup Requests(p) \cup Retrievals(p) : i \in Nat /\ i >= 1
      /\ \A i \in Saves(p)' \cup Finals(p)' \cup Requests(p)' \cup Retrievals(p)' : i \in Nat /\ i >= 1
      /\ 1 \in Retrievals(p) /\ 1 \notin Finals(p) /\ up
    BY <1>0, <1>1, TakenPlaces
<1>3. m.type \in {"bound", "unlock"} /\ (m.type = "bound" <=> dbInv[p] # 0) /\ (dbInv[p] # 0 => m.who = p /\ m.items = dbInv[p])
    OBVIOUS
<1>4. ASSUME NEW q \in Member, q # p PROVE Leaves(q, 1, 0) /\ inv'[q] = inv[q]
  <2>1. toMap' = Append(toMap, m) /\ (m.type \in {"ack", "inventory", "bound"} => m.who # q) /\ dbInv'[q] = dbInv[q]
      BY <1>0, <1>1, <1>3, <1>4 DEF TInv, PlayersTyped
  <2> HIDE DEF m
  <2> QED
      BY <1>0, <1>1, <1>4, <2>1, TakenLeaves
<1> HIDE DEF m
<1>5. /\ Acks(p)' = Acks(p) /\ Replies(p)' = Replies(p)
      /\ Parcels(p)' = IF dbInv[p] # 0 THEN Parcels(p) \cup {k} ELSE Parcels(p)
      /\ dbInv[p] = 0 => Parcel(p)' = Parcel(p)
      /\ k \in Nat /\ toMap'[k] = m
      /\ \A j \in Acks(p) \cup Replies(p) \cup Parcels(p) : j \in Nat /\ j >= 1 /\ j < k /\ toMap'[j] = toMap[j]
  <2>1. Answers(p, m)
      BY <1>0, <1>1, AnswerPlaces
  <2> QED
      BY <1>3, <2>1 DEF Answers
<1> HIDE DEF k
<1>6. Ledger(p) /\ LogsOutOnce(p)
    BY <1>0, LogoutFacts DEF Books
<1>7. /\ p \notin member /\ session[p] # "in" /\ Parcels(p) = {} /\ \A j \in Retrievals(p) : j = 1
      /\ Retrievals(p)' = {}
    BY <1>2, <1>6 DEF Ledger, RetrievedOnce
<1>8. /\ dbInv[p] \in Nat /\ dbInv'[p] = 0
      /\ Parcel(p) = 0 /\ Parcel(p)' = dbInv[p]
  <2>1. dbInv[p] \in Nat /\ dbInv'[p] = 0
      BY <1>0, <1>1 DEF TInv, PlayersTyped
  <2>2. Parcel(p) = 0
      BY <1>7 DEF Parcel
  <2>3. ASSUME dbInv[p] # 0 PROVE Parcel(p)' = dbInv[p]
    <3>1. Parcels(p)' = {k} /\ toMap'[k].items = dbInv[p]
        BY <1>3, <1>5, <1>7, <2>3
    <3>2. (CHOOSE i \in Parcels(p)' : TRUE) = k
        BY <3>1
    <3> QED
        BY <3>1, <3>2 DEF Parcel
  <2> QED
      BY <1>5, <2>1, <2>2, <2>3
<1>9. (OnMap(p)' <=> OnMap(p)) /\ (Loaded(p)' <=> Loaded(p))
    BY <1>1 DEF OnMap, Loaded
<1>10. session[p] = "logout" /\ Loaded(p) => Finals(p) = {}
  <2>1. session[p] = "logout" /\ Loaded(p) => \A j \in Finals(p) : j < 1
      BY <1>2, <1>6 DEF Ledger, RetrievedAfterLogout
  <2> QED
      BY <1>2, <2>1
<1>11. InventoryKnown(p)'
    BY <1>1, <1>6, <1>9 DEF Ledger, InventoryKnown
<1>12. SavesAreCurrent(p)'
  <2> SUFFICES ASSUME NEW i \in Saves(p)', toChar'[i].items # NotLoaded
               PROVE  OnMap(p) /\ (session[p] = "logout" => \E j \in Finals(p)' : i < j)
      BY <1>1, <1>9 DEF SavesAreCurrent
  <2>1. OnMap(p) /\ (session[p] = "logout" => \E j \in Finals(p) : i + 1 < j)
      BY <1>2, <1>6 DEF Ledger, SavesAreCurrent
  <2> QED
      BY <1>2, <2>1
<1>13. Finals(p) # {} => Finals(p)' # {}
    BY <1>2
<1>14. RequestsAreCurrent(p)'
  <2>1. ASSUME NEW i \in Requests(p)'
        PROVE  session[p] # "out" /\ (session[p] = "logout" => \E j \in Finals(p)' : i < j)
    <3>1. session[p] # "out" /\ (session[p] = "logout" => \E j \in Finals(p) : i + 1 < j)
        BY <1>2, <1>6, <2>1 DEF Ledger, RequestsAreCurrent
    <3> QED
        BY <1>2, <2>1, <3>1
  <2> QED
      BY <1>1, <1>5, <1>6, <1>13, <2>1 DEF Ledger, RequestsAreCurrent
<1>15. LogoutIsPending(p)'
    BY <1>1, <1>5, <1>6, <1>13 DEF Ledger, LogoutIsPending
<1>16. FinalIsNewest(p)'
  <2> SUFFICES ASSUME NEW i \in Finals(p)', Loaded(p) PROVE FALSE
      BY <1>9 DEF FinalIsNewest
  <2>1. session[p] = "logout" /\ Finals(p) # {}
      BY <1>2, <1>6 DEF LogsOutOnce
  <2> QED
      BY <1>10, <2>1
<1>17. AckIsNewest(p)'
    BY <1>1, <1>5, <1>6, <1>8, <1>9 DEF Ledger, AckIsNewest
<1>18. RetrievedOnce(p)'
    BY <1>1, <1>5, <1>7 DEF RetrievedOnce
<1>19. RetrievedBeforeLogin(p)'
  <2>1. session[p] = "loading" => Replies(p) = {}
      BY <1>2, <1>6 DEF Ledger, RetrievedBeforeLogin
  <2> QED
      BY <1>1, <1>5, <1>7, <2>1 DEF RetrievedBeforeLogin
<1>20. RetrievedAfterLogout(p)'
  <2> SUFFICES ASSUME session[p] = "logout", Loaded(p), NEW i \in Parcels(p)'
               PROVE  \E j \in Acks(p)' : j < i
      BY <1>1, <1>7, <1>9 DEF RetrievedAfterLogout
  <2>1. i = k
      BY <1>5, <1>7
  <2>2. Acks(p) # {}
      BY <1>2, <1>6, <1>10 DEF Ledger, LogoutIsPending
  <2> QED
      BY <1>5, <2>1, <2>2
<1>21. Ledger(p)'
    BY <1>11, <1>12, <1>14, <1>15, <1>16, <1>17, <1>18, <1>19, <1>20 DEF Ledger
<1>22. Copied(p)
    BY <1>1, <1>2, <1>5, <1>8 DEF Copied
<1>23. Holding(p)' = Holding(p) /\ InStorage' = InStorage
    BY <1>1, <1>8, <1>9 DEF Holding, InStorage
<1> QED
    BY <1>1, <1>4, <1>21, <1>22, <1>23, OthersSettle

-----------------------------------------------------------------------------
(* The map server.                                                         *)

\* The places of p's packets after the first one to the map server is taken.
Received(p) ==
    /\ \A i \in Acks(p)' : i + 1 \in Acks(p) /\ toMap'[i] = toMap[i + 1]
    /\ \A i \in Replies(p)' : i + 1 \in Replies(p) /\ toMap'[i] = toMap[i + 1]
    /\ \A i \in Parcels(p)' : i + 1 \in Parcels(p) /\ toMap'[i] = toMap[i + 1]
    /\ \A j \in Acks(p) : j > 1 => j - 1 \in Acks(p)'
    /\ \A j \in Parcels(p) : j > 1 => j - 1 \in Parcels(p)' /\ toMap'[j - 1] = toMap[j]
    /\ \A i \in Acks(p) \cup Replies(p) \cup Parcels(p) : i \in Nat /\ i >= 1
    /\ \A i \in Acks(p)' \cup Replies(p)' \cup Parcels(p)' : i \in Nat /\ i >= 1
    /\ 1 \in Acks(p) <=> Head(toMap).type = "ack" /\ Head(toMap).who = p
    /\ 1 \in Replies(p) <=> Head(toMap).type = "inventory" /\ Head(toMap).who = p
    /\ 1 \in Parcels(p) <=> Head(toMap).type = "bound" /\ Head(toMap).who = p
    /\ toMap[1] = Head(toMap)
    /\ \A i \in Saves(p) \cup Finals(p) \cup Requests(p) \cup Retrievals(p) : i \in Nat /\ i >= 1
    /\ Saves(p)' = Saves(p) /\ Finals(p)' = Finals(p) /\ Requests(p)' = Requests(p) /\ Retrievals(p)' = Retrievals(p)

\* So it is when the map server takes a packet.
LEMMA ReceivedPlaces ==
    ASSUME TInv, TInv', NEW p, toMap # <<>>, toMap' = Tail(toMap), toChar' = toChar
    PROVE  Received(p)
<1>1. toMap \in Seq(MapMsg) /\ toMap' \in Seq(MapMsg) /\ toChar \in Seq(CharMsg)
    BY DEF TInv, LinkTyped
<1>2. \A t : /\ Shifted(toMap', toMap, 1, t, p)
             /\ 1 \in At(toMap, t, p) <=> Head(toMap).type = t /\ Head(toMap).who = p
    BY <1>1, PlacesTaken
<1>3. \A t : \A i \in At(toMap, t, p) \cup At(toMap', t, p) \cup At(toChar, t, p) : i \in Nat /\ i >= 1
    BY <1>1, Places
<1>4. /\ \A i \in Acks(p)' : i + 1 \in Acks(p) /\ toMap'[i] = toMap[i + 1]
      /\ \A i \in Replies(p)' : i + 1 \in Replies(p) /\ toMap'[i] = toMap[i + 1]
      /\ \A i \in Parcels(p)' : i + 1 \in Parcels(p) /\ toMap'[i] = toMap[i + 1]
      /\ \A j \in Acks(p) : j > 1 => j - 1 \in Acks(p)'
      /\ \A j \in Parcels(p) : j > 1 => j - 1 \in Parcels(p)' /\ toMap'[j - 1] = toMap[j]
    BY <1>2 DEF Shifted, Acks, Replies, Parcels
<1>5. /\ \A i \in Acks(p) \cup Replies(p) \cup Parcels(p) : i \in Nat /\ i >= 1
      /\ \A i \in Acks(p)' \cup Replies(p)' \cup Parcels(p)' : i \in Nat /\ i >= 1
      /\ \A i \in Saves(p) \cup Finals(p) \cup Requests(p) \cup Retrievals(p) : i \in Nat /\ i >= 1
    BY <1>3 DEF Acks, Replies, Parcels, Saves, Finals, Requests, Retrievals
<1>6. /\ 1 \in Acks(p) <=> Head(toMap).type = "ack" /\ Head(toMap).who = p
      /\ 1 \in Replies(p) <=> Head(toMap).type = "inventory" /\ Head(toMap).who = p
      /\ 1 \in Parcels(p) <=> Head(toMap).type = "bound" /\ Head(toMap).who = p
    BY <1>2 DEF Acks, Replies, Parcels
<1>7. Saves(p)' = Saves(p) /\ Finals(p)' = Finals(p) /\ Requests(p)' = Requests(p) /\ Retrievals(p)' = Retrievals(p)
    BY DEF Saves, Finals, Requests, Retrievals, At
<1>8. toMap[1] = Head(toMap)
    BY <1>1
<1> QED
    BY <1>4, <1>5, <1>6, <1>7, <1>8 DEF Received

\* A parcel that is not the first packet stays.
LEMMA ParcelStays ==
    ASSUME TInv, TInv', NEW p, toMap # <<>>, toMap' = Tail(toMap), 1 \notin Parcels(p), \A i, j \in Parcels(p) : i = j
    PROVE  Parcel(p)' = Parcel(p)
<1>1. Moved(toMap', toMap, 1, "bound", p)
    BY PlacesTaken DEF TInv, LinkTyped, Parcels
<1> QED
    BY <1>1, ParcelMoved

\* The storage is unlocked, counts as saved, or is loaded.
LEMMA UnlockSettles ==
    ASSUME Inv, Inv', Books, ReceiveUnlock \/ ReceiveStored \/ ReceiveLoad, UNCHANGED <<member, dbVars, up, losses>>
    PROVE  Settled
<1>0. TInv
    BY DEF Inv
<1>1. /\ toMap # <<>> /\ toMap' = Tail(toMap) /\ Head(toMap).type \in {"unlock", "stored", "load"}
      /\ UNCHANGED <<session, member, inv, dbInv, dbGuild, up, losses, discarded>>
    BY DEF ReceiveUnlock, ReceiveStored, ReceiveLoad, Receive, dbVars
<1>2. toChar' = toChar /\ InStorage' = InStorage
  <2>1. CASE ReceiveUnlock \/ ReceiveStored
    <3>1. stor'.items = stor.items /\ stor'.max = stor.max /\ toChar' = toChar
        BY <1>0, <2>1 DEF ReceiveUnlock, ReceiveStored, TInv, StorTyped, Storage
    <3> QED
        BY <1>1, <3>1 DEF InStorage
  <2>2. CASE ReceiveLoad
    <3>1. /\ toChar' = toChar
          /\ stor'.max = 0 => stor.max = 0
          /\ ~stor'.dirty => ~stor.dirty /\ InStorage' = InStorage
          /\ stor.max # 0 => stor'.items = stor.items
          /\ StorTyped'
        BY <2>2, LoadEffect
    <3>2. CASE stor.max # 0
        BY <3>1, <3>2 DEF InStorage
    <3>3. CASE stor.max = 0
      <4>1. ~stor.dirty
          BY <1>0, <3>3 DEF TInv, StorTyped
      <4>2. ~stor'.dirty
        <5>1. stor' = stor \/ stor'.dirty = stor.dirty
            BY <1>0, <2>2 DEF ReceiveLoad, Opened, Found, TInv, StorTyped, Storage
        <5> QED
            BY <4>1, <5>1
      <4> QED
          BY <3>1, <4>2
    <3> QED
        BY <3>2, <3>3
  <2> QED
      BY <2>1, <2>2
<1>3. \A q \in Member : Leaves(q, 0, 1) /\ inv'[q] = inv[q]
    BY <1>0, <1>1, <1>2, ReceivedLeaves
<1> QED
    BY <1>1, <1>2, <1>3, NobodySettles

\* The logout ends: the items are those of the database now.
LEMMA AckSettles ==
    ASSUME Inv, Inv', Books, ReceiveSaveAck, UNCHANGED <<member, dbVars, up, losses>>,
           NEW p \in Member, p = Head(toMap).who
    PROVE  Settled
<1>0. TInv /\ TInv' /\ PlayInv
    BY DEF Inv
<1>1. /\ toMap # <<>> /\ toMap' = Tail(toMap) /\ Head(toMap).type = "ack"
      /\ UNCHANGED <<toChar, member, inv, stor, dbInv, dbGuild, up, losses, discarded>>
      /\ session' = [session EXCEPT ![p] = IF @ = "logout" THEN "out" ELSE @]
    BY DEF ReceiveSaveAck, Receive, dbVars
<1>2. Received(p)
    BY <1>0, <1>1, ReceivedPlaces
<1>3. ASSUME NEW q \in Member, q # p PROVE Leaves(q, 0, 1) /\ inv'[q] = inv[q]
  <2>1. session'[q] = session[q]
      BY <1>0, <1>1, <1>3 DEF TInv, PlayersTyped
  <2> QED
      BY <1>0, <1>1, <1>3, <2>1, ReceivedLeaves
<1>4. Ledger(p) /\ LogsOutOnce(p)
    BY <1>0, LogoutFacts DEF Books
<1>5. 1 \in Acks(p) /\ session[p] = "logout" /\ Finals(p) = {} /\ \A j \in Acks(p) : j = 1
    BY <1>1, <1>2, <1>4 DEF LogsOutOnce, Received
<1>6. session'[p] = "out"
    BY <1>0, <1>1, <1>5 DEF TInv, PlayersTyped
<1>7. Parcel(p)' = Parcel(p)
  <2>1. 1 \notin Parcels(p)
      BY <1>1, <1>2 DEF Received
  <2> QED
      BY <1>0, <1>1, <1>4, <2>1, ParcelStays DEF Ledger, RetrievedOnce
<1>8. Finals(p)' = {} /\ Acks(p)' = {}
    BY <1>2, <1>5 DEF Received
<1>9. InventoryKnown(p)' /\ LogoutIsPending(p)' /\ RetrievedBeforeLogin(p)' /\ RetrievedAfterLogout(p)'
    BY <1>6 DEF InventoryKnown, LogoutIsPending, RetrievedBeforeLogin, RetrievedAfterLogout
<1>10. SavesAreCurrent(p)'
    BY <1>1, <1>2, <1>4, <1>5 DEF Ledger, SavesAreCurrent, Received
<1>11. RequestsAreCurrent(p)'
  <2>1. Requests(p)' = {}
      BY <1>2, <1>4, <1>5 DEF Ledger, RequestsAreCurrent, Received
  <2>2. ASSUME NEW i \in Replies(p)' PROVE FALSE
    <3>1. i + 1 \in Replies(p) /\ i \in Nat /\ i >= 1
        BY <1>2, <2>2 DEF Received
    <3>2. \E j \in Acks(p) : i + 1 < j
        BY <1>4, <1>5, <3>1 DEF Ledger, RequestsAreCurrent
    <3> QED
        BY <1>5, <3>1, <3>2
  <2> QED
      BY <2>1, <2>2 DEF RequestsAreCurrent
<1>12. FinalIsNewest(p)' /\ AckIsNewest(p)'
    BY <1>8 DEF FinalIsNewest, AckIsNewest
<1>13. RetrievedOnce(p)'
  <2>1. /\ Parcels(p)' # {} => Parcels(p) # {}
        /\ \A i, j \in Parcels(p)' : i = j
      BY <1>2, <1>4 DEF Ledger, RetrievedOnce, Received
  <2>2. Retrievals(p)' = Retrievals(p)
      BY <1>2 DEF Received
  <2> QED
      BY <1>1, <1>4, <1>6, <2>1, <2>2 DEF Ledger, RetrievedOnce
<1>14. Ledger(p)'
    BY <1>9, <1>10, <1>11, <1>12, <1>13 DEF Ledger
<1>15. Copied(p)
    BY <1>1, <1>2 DEF Copied, Received
<1>16. Holding(p)' = Holding(p) /\ InStorage' = InStorage
  <2>1. OnMap(p) <=> Loaded(p)
      BY <1>5 DEF OnMap
  <2>2. Loaded(p) => dbInv[p] + Parcel(p) = inv[p]
      BY <1>4, <1>5 DEF Ledger, AckIsNewest
  <2>3. ~OnMap(p)'
      BY <1>6 DEF OnMap
  <2> QED
      BY <1>1, <1>7, <2>1, <2>2, <2>3 DEF Holding, InStorage
<1> QED
    BY <1>1, <1>3, <1>14, <1>15, <1>16, OthersSettle

\* The inventory arrives: it is still the one of the database.
LEMMA ReplySettles ==
    ASSUME Inv, Inv', Books, ReceiveInventory, UNCHANGED <<member, dbVars, up, losses>>,
           NEW p \in Member, p = Head(toMap).who
    PROVE  Settled
<1> DEFINE n == Head(toMap).items
<1>0. TInv /\ TInv' /\ PlayInv
    BY DEF Inv
<1>1. /\ toMap # <<>> /\ toMap' = Tail(toMap) /\ Head(toMap).type = "inventory"
      /\ UNCHANGED <<toChar, member, stor, dbInv, dbGuild, up, losses, discarded>>
      /\ IF session[p] = "loading"
         THEN session' = [session EXCEPT ![p] = "in"] /\ inv' = [inv EXCEPT ![p] = n]
         ELSE session' = session /\ inv' = inv
    BY DEF ReceiveInventory, Receive, dbVars
<1>2. Received(p)
    BY <1>0, <1>1, ReceivedPlaces
<1>3. ASSUME NEW q \in Member, q # p PROVE Leaves(q, 0, 1) /\ inv'[q] = inv[q]
  <2>1. session'[q] = session[q] /\ inv'[q] = inv[q]
      BY <1>0, <1>1, <1>3 DEF TInv, PlayersTyped
  <2> QED
      BY <1>0, <1>1, <1>3, <2>1, ReceivedLeaves
<1>4. Ledger(p) /\ LogsOutOnce(p)
    BY <1>0, LogoutFacts DEF Books
<1>5. /\ 1 \in Replies(p) /\ 1 \notin Acks(p) /\ 1 \notin Parcels(p) /\ toMap[1].items = n
      /\ \A i \in Acks(p) \cup Replies(p) \cup Parcels(p) : i \in Nat /\ i >= 1
    BY <1>1, <1>2 DEF Received
<1>6. Parcel(p)' = Parcel(p)
    BY <1>0, <1>1, <1>4, <1>5, ParcelStays DEF Ledger, RetrievedOnce
<1>7. /\ Saves(p)' = Saves(p) /\ Finals(p)' = Finals(p) /\ Requests(p)' = Requests(p) /\ Retrievals(p)' = Retrievals(p)
      /\ \A i \in Acks(p)' \cup Replies(p)' \cup Parcels(p)' : i \in Nat /\ i >= 1
      /\ \A i \in Acks(p)' : i + 1 \in Acks(p)
      /\ \A i \in Replies(p)' : i + 1 \in Replies(p) /\ toMap'[i] = toMap[i + 1]
      /\ \A i \in Parcels(p)' : i + 1 \in Parcels(p)
      /\ \A j \in Acks(p) : j > 1 => j - 1 \in Acks(p)'
    BY <1>2 DEF Received
<1>8. InStorage' = InStorage
    BY <1>1 DEF InStorage
<1>9. CASE session[p] = "loading"
  <2>1. session'[p] = "in" /\ inv'[p] = n
      BY <1>0, <1>1, <1>9 DEF TInv, PlayersTyped
  <2>2. n = dbInv[p] /\ Retrievals(p) = {} /\ \A j \in Parcels(p) : j < 1
      BY <1>4, <1>5, <1>9 DEF Ledger, RetrievedBeforeLogin
  <2>3. Parcels(p) = {} /\ dbInv[p] \in Nat
      BY <1>0, <1>5, <2>2 DEF TInv, PlayersTyped
  <2>4. Finals(p) = {} /\ Acks(p) = {}
      BY <1>4, <1>9 DEF LogsOutOnce
  <2>5. Retrievals(p)' = {} /\ Parcels(p)' = {} /\ Finals(p)' = {} /\ Acks(p)' = {}
      BY <1>7, <2>2, <2>3, <2>4
  <2> HIDE DEF n
  <2>6. InventoryKnown(p)' /\ SavesAreCurrent(p)' /\ RequestsAreCurrent(p)'
      BY <2>1, <2>2, <2>3 DEF InventoryKnown, SavesAreCurrent, RequestsAreCurrent, OnMap, Loaded, NotLoaded
  <2>7. LogoutIsPending(p)' /\ RetrievedBeforeLogin(p)' /\ RetrievedAfterLogout(p)'
      BY <2>1 DEF LogoutIsPending, RetrievedBeforeLogin, RetrievedAfterLogout
  <2>8. FinalIsNewest(p)' /\ AckIsNewest(p)' /\ RetrievedOnce(p)'
      BY <2>5 DEF FinalIsNewest, AckIsNewest, RetrievedOnce
  <2>9. Ledger(p)'
      BY <2>6, <2>7, <2>8 DEF Ledger
  <2>10. Copied(p)
      BY <1>1, <1>7, <2>1 DEF Copied, OnMap
  <2>11. Holding(p)' = Holding(p)
    <3>1. ~OnMap(p) /\ OnMap(p)' /\ Parcel(p) = 0
        BY <1>9, <2>1, <2>3 DEF OnMap, Parcel
    <3> QED
        BY <2>1, <2>2, <2>3, <3>1 DEF Holding
  <2> QED
      BY <1>1, <1>3, <1>8, <2>9, <2>10, <2>11, OthersSettle
<1>10. CASE session[p] # "loading"
  <2>1. session' = session /\ inv' = inv
      BY <1>1, <1>10
  <2>2. (OnMap(p)' <=> OnMap(p)) /\ (Loaded(p)' <=> Loaded(p))
      BY <2>1 DEF OnMap, Loaded
  <2>3. Acks(p) # {} <=> Acks(p)' # {}
      BY <1>5, <1>7
  <2>4. InventoryKnown(p)' /\ RetrievedBeforeLogin(p)'
      BY <1>4, <1>10, <2>1, <2>2 DEF Ledger, InventoryKnown, RetrievedBeforeLogin
  <2>5. SavesAreCurrent(p)'
      BY <1>1, <1>4, <1>7, <2>1, <2>2 DEF Ledger, SavesAreCurrent
  <2>6. RequestsAreCurrent(p)'
    <3>1. ASSUME NEW i \in Replies(p)'
          PROVE  session[p] # "out" /\ (session[p] = "logout" => Finals(p) # {} \/ \E j \in Acks(p)' : i < j)
      <4>1. i + 1 \in Replies(p) /\ i \in Nat /\ i >= 1
          BY <1>7, <3>1
      <4>2. session[p] # "out" /\ (session[p] = "logout" => Finals(p) # {} \/ \E j \in Acks(p) : i + 1 < j)
          BY <1>4, <4>1 DEF Ledger, RequestsAreCurrent
      <4> QED
          BY <1>5, <1>7, <4>1, <4>2
    <3> QED
        BY <1>4, <1>7, <2>1, <3>1 DEF Ledger, RequestsAreCurrent
  <2>7. LogoutIsPending(p)'
      BY <1>1, <1>4, <1>7, <2>1, <2>3 DEF Ledger, LogoutIsPending
  <2>8. FinalIsNewest(p)'
      BY <1>1, <1>4, <1>7, <2>1, <2>2 DEF Ledger, FinalIsNewest, SaveInventory
  <2>9. AckIsNewest(p)'
      BY <1>1, <1>4, <1>6, <2>1, <2>2, <2>3 DEF Ledger, AckIsNewest
  <2>10. RetrievedOnce(p)'
    <3>1. /\ Parcels(p)' # {} => Parcels(p) # {}
          /\ \A i, j \in Parcels(p)' : i = j
        BY <1>4, <1>7 DEF Ledger, RetrievedOnce
    <3> QED
        BY <1>1, <1>4, <1>7, <2>1, <3>1 DEF Ledger, RetrievedOnce
  <2>11. RetrievedAfterLogout(p)'
    <3> SUFFICES ASSUME session[p] = "logout", Loaded(p)
                 PROVE  /\ \A i \in Retrievals(p), j \in Finals(p) : j < i
                        /\ \A i \in Parcels(p)' : \E j \in Acks(p)' : j < i
        BY <1>7, <2>1, <2>2 DEF RetrievedAfterLogout
    <3>1. ASSUME NEW i \in Parcels(p)' PROVE \E j \in Acks(p)' : j < i
      <4>1. i + 1 \in Parcels(p) /\ i \in Nat /\ i >= 1
          BY <1>7, <3>1
      <4>2. PICK j \in Acks(p) : j < i + 1
          BY <1>4, <4>1 DEF Ledger, RetrievedAfterLogout
      <4>3. j > 1
          BY <1>5, <4>2
      <4>4. j - 1 \in Acks(p)' /\ j - 1 < i
          BY <1>5, <1>7, <4>1, <4>2, <4>3
      <4> QED
          BY <4>4
    <3> QED
        BY <1>4, <3>1 DEF Ledger, RetrievedAfterLogout
  <2>12. Ledger(p)'
      BY <2>4, <2>5, <2>6, <2>7, <2>8, <2>9, <2>10, <2>11 DEF Ledger
  <2>13. Copied(p)
      BY <1>1, <1>7, <2>1 DEF Copied
  <2>14. Holding(p)' = Holding(p)
      BY <1>1, <1>6, <2>1, <2>2 DEF Holding
  <2> QED
      BY <1>1, <1>3, <1>8, <2>12, <2>13, <2>14, OthersSettle
<1> QED
    BY <1>9, <1>10

\* The items that were retrieved go into the storage.
LEMMA ParcelSettles ==
    ASSUME Inv, Inv', Books, ReceiveBoundItems, UNCHANGED <<member, dbVars, up, losses>>,
           NEW p \in Member, p = Head(toMap).who
    PROVE  Settled
<1> DEFINE n == Head(toMap).items
<1>0. TInv /\ TInv' /\ PlayInv
    BY DEF Inv
<1>1. /\ toMap # <<>> /\ toMap' = Tail(toMap) /\ Head(toMap).type = "bound"
      /\ UNCHANGED <<toChar, session, inv, member, dbInv, dbGuild, up, losses>>
      /\ stor' = [Deposit(n) EXCEPT !.lock = FALSE]
      /\ discarded' = discarded + n - Kept(n)
    BY DEF ReceiveBoundItems, Receive, dbVars
<1>2. Received(p)
    BY <1>0, <1>1, ReceivedPlaces
<1>3. ASSUME NEW q \in Member, q # p PROVE Leaves(q, 0, 1) /\ inv'[q] = inv[q]
    BY <1>0, <1>1, <1>3, ReceivedLeaves
<1>4. Ledger(p) /\ LogsOutOnce(p)
    BY <1>0, LogoutFacts DEF Books
<1>5. /\ 1 \in Parcels(p) /\ 1 \notin Acks(p) /\ 1 \notin Replies(p) /\ toMap[1].items = n
      /\ \A i \in Acks(p) \cup Replies(p) \cup Parcels(p) : i \in Nat /\ i >= 1
    BY <1>1, <1>2 DEF Received
<1>6. /\ Saves(p)' = Saves(p) /\ Finals(p)' = Finals(p) /\ Requests(p)' = Requests(p) /\ Retrievals(p)' = Retrievals(p)
      /\ \A i \in Acks(p)' \cup Replies(p)' \cup Parcels(p)' : i \in Nat /\ i >= 1
      /\ \A i \in Acks(p)' : i + 1 \in Acks(p)
      /\ \A i \in Replies(p)' : i + 1 \in Replies(p) /\ toMap'[i] = toMap[i + 1]
      /\ \A i \in Parcels(p)' : i + 1 \in Parcels(p)
      /\ \A j \in Acks(p) : j > 1 => j - 1 \in Acks(p)'
    BY <1>2 DEF Received
<1>7. session[p] # "in" /\ Retrievals(p) = {} /\ \A i \in Parcels(p) : i = 1
    BY <1>4, <1>5 DEF Ledger, RetrievedOnce
<1>8. Parcels(p)' = {} /\ Parcel(p)' = 0 /\ Parcel(p) = n
  <2>1. Parcels(p)' = {}
      BY <1>6, <1>7
  <2>2. Parcels(p) = {1}
      BY <1>5, <1>7
  <2>3. (CHOOSE i \in Parcels(p) : TRUE) = 1
      BY <2>2
  <2> QED
      BY <1>5, <2>1, <2>2, <2>3 DEF Parcel
<1>9. ~(session[p] = "logout" /\ Loaded(p))
  <2> SUFFICES ASSUME session[p] = "logout", Loaded(p) PROVE FALSE
      OBVIOUS
  <2>1. \E j \in Acks(p) : j < 1
      BY <1>4, <1>5 DEF Ledger, RetrievedAfterLogout
  <2> QED
      BY <1>5, <2>1
<1>10. n \in Nat /\ dbInv[p] \in Nat /\ InStorage \in Nat /\ discarded \in Nat
  <2>1. Head(toMap) \in MapMsg
      BY <1>0, <1>1 DEF TInv, LinkTyped
  <2>2. n \in Nat
      BY <1>1, <2>1, MapMsgFacts
  <2> QED
      BY <1>0, <2>2, NumberTypes DEF NumbersTyped, TInv, PlayersTyped
<1>11. Kept(n) \in 0..n /\ InStorage' = InStorage + Kept(n)
    BY <1>0, <1>1, <1>10, DepositFits
<1> HIDE DEF n
<1>12. (OnMap(p)' <=> OnMap(p)) /\ (Loaded(p)' <=> Loaded(p)) /\ ~OnMap(p)
    BY <1>1, <1>7, <1>9 DEF OnMap, Loaded
<1>13. Acks(p) # {} <=> Acks(p)' # {}
    BY <1>5, <1>6
<1>14. InventoryKnown(p)'
    BY <1>1, <1>4, <1>12 DEF Ledger, InventoryKnown
<1>15. SavesAreCurrent(p)'
    BY <1>1, <1>4, <1>6, <1>12 DEF Ledger, SavesAreCurrent
<1>16. RequestsAreCurrent(p)'
  <2>1. ASSUME NEW i \in Replies(p)'
        PROVE  session[p] # "out" /\ (session[p] = "logout" => Finals(p) # {} \/ \E j \in Acks(p)' : i < j)
    <3>1. i + 1 \in Replies(p) /\ i \in Nat /\ i >= 1
        BY <1>6, <2>1
    <3>2. session[p] # "out" /\ (session[p] = "logout" => Finals(p) # {} \/ \E j \in Acks(p) : i + 1 < j)
        BY <1>4, <3>1 DEF Ledger, RequestsAreCurrent
    <3> QED
        BY <1>5, <1>6, <3>1, <3>2
  <2> QED
      BY <1>1, <1>4, <1>6, <2>1 DEF Ledger, RequestsAreCurrent
<1>17. LogoutIsPending(p)'
    BY <1>1, <1>4, <1>6, <1>13 DEF Ledger, LogoutIsPending
<1>18. FinalIsNewest(p)' /\ AckIsNewest(p)'
  <2>1. Finals(p)' # {} \/ Acks(p)' # {} => ~Loaded(p)'
      BY <1>4, <1>6, <1>9, <1>12, <1>13 DEF LogsOutOnce
  <2> QED
      BY <2>1 DEF FinalIsNewest, AckIsNewest
<1>19. RetrievedOnce(p)'
    BY <1>6, <1>7, <1>8 DEF RetrievedOnce
<1>20. RetrievedBeforeLogin(p)'
  <2> SUFFICES ASSUME session[p] = "loading", NEW i \in Replies(p)' PROVE toMap'[i].items = dbInv'[p]
      BY <1>1, <1>6, <1>7, <1>8 DEF RetrievedBeforeLogin
  <2> QED
      BY <1>1, <1>4, <1>6 DEF Ledger, RetrievedBeforeLogin
<1>21. RetrievedAfterLogout(p)'
    BY <1>1, <1>9, <1>12 DEF RetrievedAfterLogout
<1>22. Ledger(p)'
    BY <1>14, <1>15, <1>16, <1>17, <1>18, <1>19, <1>20, <1>21 DEF Ledger
<1>23. Copied(p)
    BY <1>1, <1>6 DEF Copied
<1>24. Holding(p) = dbInv[p] + n /\ Holding(p)' = dbInv[p] + 0
    BY <1>1, <1>8, <1>12 DEF Holding
<1>25. Holding(p)' + InStorage' + discarded' = Holding(p) + InStorage + discarded
  <2>1. ASSUME NEW k \in 0..n, InStorage' = InStorage + k, discarded' = discarded + n - k
        PROVE  Holding(p)' + InStorage' + discarded' = Holding(p) + InStorage + discarded
      BY <1>10, <1>24, <2>1
  <2> QED
      BY <1>1, <1>11, <2>1
<1> QED
    BY <1>1, <1>3, <1>22, <1>23, <1>25, OthersSettle

-----------------------------------------------------------------------------
(* Members come, quit, and are expelled while they are not in the game.    *)

\* Nothing of p is under way.
Bare(p) ==
    /\ Saves(p) = {} /\ Finals(p) = {} /\ Requests(p) = {} /\ Retrievals(p) = {}
    /\ Acks(p) = {} /\ Replies(p) = {} /\ Parcels(p) = {}

\* So it is when both queues are empty, and then there is little to keep.
SilenceIsBare ==
    /\ toChar = <<>> /\ toMap = <<>> => \A p \in Member : Bare(p)
    /\ \A p \in Member : Bare(p) => Parcel(p) = 0
    /\ \A p \in Member : Bare(p) /\ InventoryKnown(p) /\ ~(up /\ session[p] = "logout") => Ledger(p)

\* This follows from the definitions.
LEMMA Silence == SilenceIsBare
<1>1. ASSUME toChar = <<>>, toMap = <<>>, NEW p PROVE Bare(p)
  <2>1. DOMAIN toChar = {} /\ DOMAIN toMap = {}
      BY <1>1
  <2> QED
      BY <2>1 DEF Bare, At, Saves, Finals, Requests, Retrievals, Acks, Replies, Parcels
<1>2. ASSUME NEW p, Bare(p) PROVE Parcel(p) = 0
    BY <1>2 DEF Bare, Parcel
<1>3. ASSUME NEW p, Bare(p), InventoryKnown(p), ~(up /\ session[p] = "logout") PROVE Ledger(p)
  <2>1. SavesAreCurrent(p) /\ RequestsAreCurrent(p) /\ LogoutIsPending(p) /\ FinalIsNewest(p) /\ AckIsNewest(p)
      BY <1>3 DEF Bare, SavesAreCurrent, RequestsAreCurrent, LogoutIsPending, FinalIsNewest, AckIsNewest
  <2>2. RetrievedOnce(p) /\ RetrievedBeforeLogin(p) /\ RetrievedAfterLogout(p)
      BY <1>3 DEF Bare, RetrievedOnce, RetrievedBeforeLogin, RetrievedAfterLogout
  <2> QED
      BY <1>3, <2>1, <2>2 DEF Ledger
<1> QED
    BY <1>1, <1>2, <1>3 DEF SilenceIsBare

\* Packets of S are sent, and y as the last one.
EndsIn(S, y) ==
    /\ Len(toChar') \in DOMAIN toChar' /\ toChar'[Len(toChar')] = y
    /\ \A i \in DOMAIN toChar' :
          /\ i \in Nat /\ i >= 1 /\ i <= Len(toChar')
          /\ \/ i \in DOMAIN toChar /\ toChar'[i] = toChar[i]
             \/ toChar'[i] \in S /\ i < Len(toChar')
             \/ i = Len(toChar')
    /\ \A j \in DOMAIN toChar : j \in DOMAIN toChar' /\ j \in Nat /\ j < Len(toChar') /\ toChar'[j] = toChar[j]

\* So it is when they are appended.
LEMMA LastSent ==
    ASSUME NEW T, toChar \in Seq(T), NEW S, NEW l \in Seq(S), NEW y, toChar' = Append(toChar \o l, y)
    PROVE  EndsIn(S, y)
<1> DEFINE r == Append(toChar \o l, y)
           k == Len(toChar) + Len(l) + 1
<1>1. Len(toChar) \in Nat /\ Len(l) \in Nat /\ DOMAIN toChar = 1..Len(toChar) /\ DOMAIN l = 1..Len(l)
    OBVIOUS
<1>2. Len(r) = k /\ DOMAIN r = 1..k /\ r[k] = y
    OBVIOUS
<1>3. /\ \A i \in 1..Len(toChar) : r[i] = toChar[i]
      /\ \A i \in 1..k : i > Len(toChar) /\ i < k => r[i] \in S
    OBVIOUS
<1>4. toChar' = r
    OBVIOUS
<1> HIDE DEF r
<1> QED
    BY <1>1, <1>2, <1>3, <1>4 DEF EndsIn

\* p's packets then, when S has none of type t.
LEMMA EndedPlaces ==
    ASSUME NEW S, NEW y, EndsIn(S, y), NEW p, NEW t, \A m \in S : ~(m.type = t /\ m.who = p)
    PROVE  /\ At(toChar', t, p) = IF y.type = t /\ y.who = p THEN At(toChar, t, p) \cup {Len(toChar')} ELSE At(toChar, t, p)
           /\ \A i \in At(toChar, t, p) : i \in Nat /\ i < Len(toChar') /\ toChar'[i] = toChar[i]
    BY DEF EndsIn, At

\* Whom they do not concern.
LEMMA EndedLeaves ==
    ASSUME NEW S, NEW y, EndsIn(S, y), NEW q, y.who # q, TInv,
           \A m \in S : m.type \in {"inventory", "final", "request", "retrieve"} /\ m.who = q
                        => m.type = "inventory" /\ session[q] = "in" /\ m.items = inv[q],
           UNCHANGED <<up, toMap>>, member' \subseteq member,
           session'[q] = session[q], dbInv'[q] = dbInv[q], inv'[q] = inv[q]
    PROVE  Leaves(q, 0, 0)
<1>1. ASSUME NEW t \in {"final", "request", "retrieve"} PROVE Moved(toChar', toChar, 0, t, q)
  <2>1. \A m \in S : ~(m.type = t /\ m.who = q)
      OBVIOUS
  <2>2. /\ At(toChar', t, q) = At(toChar, t, q)
        /\ \A i \in At(toChar, t, q) : i \in Nat /\ toChar'[i] = toChar[i]
      BY <2>1, EndedPlaces
  <2> QED
      BY <2>2 DEF Moved
<1>2. \A i \in At(toChar', "inventory", q) :
         \/ i \in At(toChar, "inventory", q) /\ toChar'[i] = toChar[i] /\ i \in Nat
         \/ session[q] = "in" /\ toChar'[i].items = inv[q]
    BY DEF EndsIn, At
<1>3. \A j \in At(toChar, "inventory", q) : j \in At(toChar', "inventory", q) /\ toChar'[j] = toChar[j] /\ j \in Nat
    BY DEF EndsIn, At
<1>4. \A t : Moved(toMap', toMap, 0, t, q)
    BY PlacesStay DEF TInv, LinkTyped
<1>5. \A i \in At(toChar', "inventory", q) :
         \/ i + 0 \in At(toChar, "inventory", q) /\ toChar'[i] = toChar[i + 0]
         \/ session[q] = "in" /\ toChar'[i].items = inv[q]
    BY <1>2
<1>6. \A j \in At(toChar, "inventory", q) : j - 0 \in At(toChar', "inventory", q) /\ toChar'[j - 0] = toChar[j]
    BY <1>3
<1> QED
    BY <1>1, <1>4, <1>5, <1>6 DEF Leaves

\* A player comes: nothing of an earlier session is under way but a retrieval.
LEMMA LoginSettles ==
    ASSUME Inv, Inv', Books, NEW p \in Member, Login(p)
    PROVE  Settled
<1> DEFINE y == [type |-> "request", who |-> p]
           k == Len(toChar')
<1>0. TInv /\ TInv' /\ PlayInv /\ toChar \in Seq(CharMsg)
    BY DEF Inv, TInv, LinkTyped
<1>1. /\ session[p] = "out" /\ up
      /\ UNCHANGED <<member, stor, dbInv, dbGuild, up, toMap, losses, discarded>>
      /\ session' = [session EXCEPT ![p] = "loading"]
      /\ inv' = [inv EXCEPT ![p] = NotLoaded]
    BY DEF Login, dbVars
<1>2. toChar' = Append(toChar \o <<>>, y)
    BY <1>0, <1>1 DEF Login, Send
<1>3. EndsIn({}, y)
  <2>1. <<>> \in Seq({})
      OBVIOUS
  <2> HIDE DEF y
  <2> QED
      BY <1>0, <1>2, <2>1, LastSent
<1>4. y.type = "request" /\ y.who = p
    OBVIOUS
<1>5. /\ Saves(p)' = Saves(p) /\ Finals(p)' = Finals(p) /\ Retrievals(p)' = Retrievals(p)
      /\ Requests(p)' = Requests(p) \cup {k}
      /\ \A i \in Saves(p) : toChar'[i] = toChar[i]
      /\ \A i \in Retrievals(p) : i \in Nat /\ i < k
    BY <1>3, <1>4, EndedPlaces DEF Saves, Finals, Requests, Retrievals
<1>6. ASSUME NEW q \in Member, q # p PROVE Leaves(q, 0, 0) /\ inv'[q] = inv[q]
  <2>1. session'[q] = session[q] /\ inv'[q] = inv[q]
      BY <1>0, <1>1, <1>6 DEF TInv, PlayersTyped
  <2> HIDE DEF y
  <2> QED
      BY <1>0, <1>1, <1>3, <1>4, <1>6, <2>1, EndedLeaves
<1> HIDE DEF y, k
<1>7. Ledger(p) /\ LogsOutOnce(p)
    BY <1>0, LogoutFacts DEF Books
<1>8. session'[p] = "loading" /\ inv'[p] = NotLoaded
    BY <1>0, <1>1 DEF TInv, PlayersTyped
<1>9. /\ Finals(p) = {} /\ Acks(p) = {} /\ Requests(p) = {} /\ Replies(p) = {}
      /\ \A i \in Saves(p) : toChar[i].items = NotLoaded
    BY <1>1, <1>7 DEF Ledger, LogsOutOnce, SavesAreCurrent, RequestsAreCurrent, OnMap
<1>10. Acks(p)' = Acks(p) /\ Replies(p)' = Replies(p) /\ Parcels(p)' = Parcels(p) /\ Parcel(p)' = Parcel(p)
    BY <1>1, MapStays
<1>11. InventoryKnown(p)' /\ LogoutIsPending(p)' /\ RetrievedAfterLogout(p)'
    BY <1>8 DEF InventoryKnown, LogoutIsPending, RetrievedAfterLogout, Loaded
<1>12. SavesAreCurrent(p)'
    BY <1>5, <1>9 DEF SavesAreCurrent
<1>13. RequestsAreCurrent(p)'
    BY <1>5, <1>8, <1>9, <1>10 DEF RequestsAreCurrent
<1>14. FinalIsNewest(p)' /\ AckIsNewest(p)'
    BY <1>5, <1>9, <1>10 DEF FinalIsNewest, AckIsNewest
<1>15. RetrievedOnce(p)'
    BY <1>1, <1>5, <1>7, <1>8, <1>10 DEF Ledger, RetrievedOnce
<1>16. RetrievedBeforeLogin(p)'
    BY <1>5, <1>9, <1>10 DEF RetrievedBeforeLogin
<1>17. Ledger(p)'
    BY <1>11, <1>12, <1>13, <1>14, <1>15, <1>16 DEF Ledger
<1>18. Copied(p)
    BY <1>1, <1>5, <1>8, <1>10 DEF Copied
<1>19. Holding(p)' = Holding(p) /\ InStorage' = InStorage
    BY <1>1, <1>8, <1>10 DEF Holding, OnMap, InStorage
<1> QED
    BY <1>1, <1>6, <1>17, <1>18, <1>19, OthersSettle

\* Who is not in the game is expelled: its items are to be retrieved.
LEMMA RetrievalSettles ==
    ASSUME Inv, Inv', Books, NEW p \in Member, Withdraw(p), session[p] \in {"logout", "out"}
    PROVE  Settled
<1> DEFINE y == [type |-> "retrieve", who |-> p]
           k == Len(toChar')
<1>0. TInv /\ TInv' /\ PlayInv /\ OpenInGame /\ toChar \in Seq(CharMsg)
    BY DEF Inv, TInv, LinkTyped
<1>1. /\ UNCHANGED <<session, inv, dbInv, dbGuild, up, toMap, losses, discarded>>
      /\ member' = member \ {p} /\ p \in member
      /\ Send(SendAway \o <<y>>)
      /\ stor' = [stor EXCEPT !.status = FALSE, !.lock = @ \/ (up /\ stor.known)]
    BY DEF Withdraw, dbVars
<1>2. SendAway \in Seq(Current)
    BY <1>0, CurrentPackets
<1>3. y.type = "retrieve" /\ y.who = p
    OBVIOUS
<1>4. up => EndsIn(Current, y)
  <2> HIDE DEF y
  <2>1. toChar \o (SendAway \o <<y>>) = Append(toChar \o SendAway, y)
      BY <1>0, <1>2
  <2> QED
      BY <1>0, <1>1, <1>2, <2>1, LastSent DEF Send
<1> HIDE DEF y
<1>5. ~up => toChar' = toChar
    BY <1>1 DEF Send
<1>6. ASSUME NEW q \in Member, q # p PROVE Leaves(q, 0, 0) /\ inv'[q] = inv[q]
  <2>1. CASE up
    <3>1. \A m \in Current : m.type \in {"inventory", "final", "request", "retrieve"} /\ m.who = q
                             => m.type = "inventory" /\ session[q] = "in" /\ m.items = inv[q]
        BY DEF Current
    <3> QED
        BY <1>0, <1>1, <1>3, <1>4, <1>6, <2>1, <3>1, EndedLeaves
  <2>2. CASE ~up
    <3>1. \E m \in Seq(Current) : Send(m)
        BY <1>0, <1>5, <2>2, QuietPlay
    <3>2. Played
        BY <1>1, <3>1 DEF Played
    <3> QED
        BY <1>1, <3>2, PlayedLeaves
  <2> QED
      BY <2>1, <2>2
<1>7. Ledger(p) /\ LogsOutOnce(p)
    BY <1>0, LogoutFacts DEF Books
<1>8. Retrievals(p) = {} /\ Parcels(p) = {}
    BY <1>1, <1>7 DEF Ledger, RetrievedOnce
<1>9. InStorage' = InStorage
  <2>1. stor'.items = stor.items /\ stor'.max = stor.max
      BY <1>0, <1>1 DEF TInv, StorTyped, Storage
  <2> QED
      BY <1>1, <2>1 DEF InStorage
<1>10. (OnMap(p)' <=> OnMap(p)) /\ (Loaded(p)' <=> Loaded(p))
    BY <1>1 DEF OnMap, Loaded
<1>11. Acks(p)' = Acks(p) /\ Replies(p)' = Replies(p) /\ Parcels(p)' = Parcels(p) /\ Parcel(p)' = Parcel(p)
    BY <1>1, MapStays
<1>12. Holding(p)' = Holding(p)
    BY <1>1, <1>10, <1>11 DEF Holding
<1>13. CASE ~up
  <2>1. Bare(p)' /\ SilenceIsBare'
    <3>1. SilenceIsBare /\ SilenceIsBare'
        BY Silence, PTL
    <3>2. toChar' = <<>> /\ toMap' = <<>>
        BY <1>0, <1>1, <1>13 DEF TInv, LinkTyped
    <3> QED
        BY <3>1, <3>2 DEF SilenceIsBare
  <2>2. InventoryKnown(p)'
      BY <1>1, <1>7, <1>10 DEF Ledger, InventoryKnown
  <2>3. Ledger(p)'
      BY <1>1, <1>13, <2>1, <2>2 DEF SilenceIsBare
  <2>4. Copied(p)
      BY <1>1, <2>1 DEF Copied, Bare
  <2> QED
      BY <1>1, <1>6, <1>9, <1>12, <2>3, <2>4, OthersSettle
<1>14. CASE up
  <2>1. \A m \in Current : m.type \in {"inventory", "final", "request", "retrieve"} => m.who # p
      BY DEF Current
  <2>2. \A t \in {"inventory", "final", "request", "retrieve"} :
          /\ At(toChar', t, p) = IF y.type = t /\ y.who = p THEN At(toChar, t, p) \cup {k} ELSE At(toChar, t, p)
          /\ \A i \in At(toChar, t, p) : i \in Nat /\ i < k /\ toChar'[i] = toChar[i]
      BY <1>4, <1>14, <2>1, EndedPlaces
  <2>3. /\ Saves(p)' = Saves(p) /\ Finals(p)' = Finals(p) /\ Requests(p)' = Requests(p)
        /\ Retrievals(p)' = {k}
        /\ \A i \in Saves(p) : toChar'[i] = toChar[i]
        /\ \A i \in Finals(p) : i \in Nat /\ i < k
      BY <1>3, <1>8, <2>2 DEF Saves, Finals, Requests, Retrievals
  <2> HIDE DEF k
  <2>4. InventoryKnown(p)' /\ SavesAreCurrent(p)' /\ RequestsAreCurrent(p)'
      BY <1>1, <1>7, <1>10, <1>11, <2>3 DEF Ledger, InventoryKnown, SavesAreCurrent, RequestsAreCurrent
  <2>5. LogoutIsPending(p)' /\ AckIsNewest(p)'
      BY <1>1, <1>7, <1>10, <1>11, <2>3 DEF Ledger, LogoutIsPending, AckIsNewest
  <2>6. FinalIsNewest(p)'
    <3> SUFFICES ASSUME NEW i \in Finals(p), Loaded(p)
                 PROVE  IF i = 1 THEN dbInv[p] = inv[p] ELSE toChar'[i - 1] = SaveInventory(p)
        BY <1>1, <1>10, <2>3 DEF FinalIsNewest, SaveInventory
    <3>1. IF i = 1 THEN dbInv[p] = inv[p] ELSE toChar[i - 1] = SaveInventory(p)
        BY <1>7 DEF Ledger, FinalIsNewest
    <3>2. i \in DOMAIN toChar
        BY DEF Finals, At
    <3>3. i # 1 => i - 1 \in DOMAIN toChar
        BY <1>0, <3>2
    <3> QED
        BY <1>4, <1>14, <3>1, <3>3 DEF EndsIn
  <2>7. RetrievedOnce(p)'
      BY <1>1, <1>8, <1>11, <2>3 DEF RetrievedOnce
  <2>8. RetrievedBeforeLogin(p)' /\ RetrievedAfterLogout(p)'
      BY <1>1, <1>8, <1>11, <2>3 DEF RetrievedBeforeLogin, RetrievedAfterLogout
  <2>9. Ledger(p)'
      BY <2>4, <2>5, <2>6, <2>7, <2>8 DEF Ledger
  <2>10. Copied(p)
      BY <1>1, <1>11, <2>3 DEF Copied
  <2> QED
      BY <1>1, <1>6, <1>9, <1>12, <2>9, <2>10, OthersSettle
<1> QED
    BY <1>0, <1>13, <1>14 DEF TInv, LinkTyped

\* What a member who quits sends: its inventory, and the storage.
Own(p) ==
    {m \in CharMsg : m.type = "storage" \/ (m.type = "inventory" /\ m.who = p /\ m.items = inv[p])}

\* The last two packets.
LEMMA TwoSent ==
    ASSUME NEW T, NEW q \in Seq(T), NEW S, NEW l \in Seq(S), NEW x, NEW y, NEW r, r = Append(q \o Append(l, x), y)
    PROVE  Len(r) \in Nat /\ Len(r) >= 2 /\ r[Len(r) - 1] = x
<1>1. Len(q) \in Nat /\ Len(l) \in Nat
    OBVIOUS
<1>2. Len(r) = Len(q) + Len(l) + 2
    OBVIOUS
<1>3. r[Len(q) + Len(l) + 1] = x
    OBVIOUS
<1> QED
    BY <1>1, <1>2, <1>3

\* The final save of who quits is behind all its packets.
LEMMA QuitSends ==
    ASSUME TInv, NEW p \in Member, Quit(p), up, NEW y, y = [type |-> "final", who |-> p]
    PROVE  EndsIn(Own(p), y) /\ Len(toChar') \in Nat /\ Len(toChar') >= 2 /\ toChar'[Len(toChar') - 1] = SaveInventory(p)
<1>0. toChar \in Seq(CharMsg)
    BY DEF TInv, LinkTyped
<1>1. SaveInventory(p) \in Own(p) /\ SaveStorage \in Own(p)
  <2>1. SaveInventory(p) \in CharMsg
      BY Packets DEF Saving
  <2>2. SaveStorage \in CharMsg
      BY DEF TInv, StorTyped, Storage, SaveStorage, CharMsg
  <2> QED
      BY <2>1, <2>2 DEF Own, SaveInventory, SaveStorage
<1>2. Save(p) \in Seq(Own(p)) /\ <<>> \in Seq(Own(p))
    BY <1>1, ShortLists DEF Save
<1>3. \E l \in Seq(Own(p)) : Send(l \o <<SaveInventory(p), y>>)
  <2>1. <<SaveInventory(p), y>> = <<>> \o <<SaveInventory(p), y>>
      OBVIOUS
  <2>2. CASE p \in open /\ stor.status
      BY <1>2, <2>2 DEF Quit, Final
  <2>3. CASE p \in open /\ ~stor.status
      BY <1>2, <2>3 DEF Quit, Final
  <2>4. CASE p \notin open
      BY <1>2, <2>1, <2>4 DEF Quit, Final
  <2> QED
      BY <2>2, <2>3, <2>4
<1>4. PICK l \in Seq(Own(p)) : Send(l \o <<SaveInventory(p), y>>)
    BY <1>3
<1>5. /\ Append(l, SaveInventory(p)) \in Seq(Own(p))
      /\ toChar \o (l \o <<SaveInventory(p), y>>) = Append(toChar \o Append(l, SaveInventory(p)), y)
  <2>1. \A x \in Own(p) : /\ Append(l, x) \in Seq(Own(p))
                           /\ toChar \o (l \o <<x, y>>) = Append(toChar \o Append(l, x), y)
      BY <1>0, LastOfTwo
  <2> QED
      BY <1>1, <2>1
<1>6. toChar' = Append(toChar \o Append(l, SaveInventory(p)), y)
    BY <1>4, <1>5 DEF Send
<1>7. EndsIn(Own(p), y)
    BY <1>0, <1>5, <1>6, LastSent
<1>8. Len(toChar') \in Nat /\ Len(toChar') >= 2 /\ toChar'[Len(toChar') - 1] = SaveInventory(p)
    BY <1>0, <1>6, TwoSent
<1> QED
    BY <1>7, <1>8

\* A player quits.
LEMMA QuitSettles ==
    ASSUME Inv, Inv', Books, NEW p \in Member, Quit(p)
    PROVE  Settled
<1> DEFINE y == [type |-> "final", who |-> p]
           k == Len(toChar')
<1>0. TInv /\ TInv' /\ PlayInv /\ OpenInGame /\ toChar \in Seq(CharMsg)
    BY DEF Inv, TInv, LinkTyped
<1>1. /\ session[p] \in {"in", "loading"}
      /\ UNCHANGED <<member, inv, dbInv, dbGuild, up, toMap, losses, discarded>>
      /\ session' = [session EXCEPT ![p] = "logout"]
      /\ stor' = stor \/ stor' = [stor EXCEPT !.status = FALSE]
    BY DEF Quit, dbVars
<1>2. session'[p] = "logout" /\ \A q \in Member : q # p => session'[q] = session[q]
    BY <1>0, <1>1 DEF TInv, PlayersTyped
<1>3. y.type = "final" /\ y.who = p
    OBVIOUS
<1>4. up => EndsIn(Own(p), y) /\ k \in Nat /\ k >= 2 /\ toChar'[k - 1] = SaveInventory(p)
    BY <1>0, QuitSends
<1> HIDE DEF y
<1>5. ~up => toChar' = toChar
    BY DEF Quit, Send
<1>6. ASSUME NEW q \in Member, q # p PROVE Leaves(q, 0, 0) /\ inv'[q] = inv[q]
  <2>1. CASE up
    <3>1. \A m \in Own(p) : m.type \in {"inventory", "final", "request", "retrieve"} => m.who # q
        BY <1>6 DEF Own
    <3> QED
        BY <1>0, <1>1, <1>2, <1>3, <1>4, <1>6, <2>1, <3>1, EndedLeaves
  <2>2. CASE ~up
    <3>1. \A t : Moved(toChar', toChar, 0, t, q) /\ Moved(toMap', toMap, 0, t, q)
      <4>1. toChar' = toChar /\ toMap' = toMap /\ toMap \in Seq(MapMsg)
          BY <1>0, <1>1, <1>5, <2>2 DEF TInv, LinkTyped
      <4> QED
          BY <1>0, <4>1, PlacesStay
    <3>2. Moved(toChar', toChar, 0, "inventory", q)
        BY <3>1
    <3> QED
        BY <1>1, <1>2, <1>6, <3>1, <3>2 DEF Leaves, Moved
  <2> QED
      BY <2>1, <2>2
<1>7. Ledger(p) /\ LogsOutOnce(p)
    BY <1>0, LogoutFacts DEF Books
<1>8. Finals(p) = {} /\ Acks(p) = {}
    BY <1>1, <1>7 DEF LogsOutOnce
<1>9. InStorage' = InStorage
  <2>1. stor'.items = stor.items /\ stor'.max = stor.max
      BY <1>0, <1>1 DEF TInv, StorTyped, Storage
  <2> QED
      BY <1>1, <2>1 DEF InStorage
<1>10. Loaded(p)' <=> Loaded(p)
    BY <1>1 DEF Loaded
<1>11. Loaded(p) <=> session[p] = "in"
    BY <1>1, <1>7 DEF Ledger, InventoryKnown
<1>12. (OnMap(p)' <=> Loaded(p)) /\ (OnMap(p) <=> Loaded(p))
    BY <1>1, <1>2, <1>10, <1>11 DEF OnMap
<1>13. Acks(p)' = Acks(p) /\ Replies(p)' = Replies(p) /\ Parcels(p)' = Parcels(p) /\ Parcel(p)' = Parcel(p)
    BY <1>1, MapStays
<1>14. Holding(p)' = Holding(p)
    BY <1>1, <1>12, <1>13 DEF Holding
<1>15. CASE ~up
  <2>1. Bare(p)' /\ SilenceIsBare'
    <3>1. SilenceIsBare /\ SilenceIsBare'
        BY Silence, PTL
    <3>2. toChar' = <<>> /\ toMap' = <<>>
        BY <1>0, <1>1, <1>15 DEF TInv, LinkTyped
    <3> QED
        BY <3>1, <3>2 DEF SilenceIsBare
  <2>2. InventoryKnown(p)'
      BY <1>2 DEF InventoryKnown
  <2>3. Ledger(p)'
      BY <1>1, <1>15, <2>1, <2>2 DEF SilenceIsBare
  <2>4. Copied(p)
      BY <1>1, <2>1 DEF Copied, Bare
  <2> QED
      BY <1>1, <1>6, <1>9, <1>14, <2>3, <2>4, OthersSettle
<1>16. CASE up
  <2>1. \A m \in Own(p) : m.type \in {"storage", "inventory"} /\ (m.type = "inventory" => m.items = inv[p])
      BY DEF Own
  <2>2. \A t \in {"final", "request", "retrieve"} :
          /\ At(toChar', t, p) = IF y.type = t /\ y.who = p THEN At(toChar, t, p) \cup {k} ELSE At(toChar, t, p)
          /\ \A i \in At(toChar, t, p) : i \in Nat /\ i < k /\ toChar'[i] = toChar[i]
      BY <1>4, <1>16, <2>1, EndedPlaces
  <2>3. /\ Finals(p)' = {k} /\ Requests(p)' = Requests(p) /\ Retrievals(p)' = Retrievals(p)
        /\ \A i \in Requests(p) : i < k
      BY <1>3, <1>8, <2>2 DEF Finals, Requests, Retrievals
  <2>4. \A i \in Saves(p)' : /\ i < k
                             /\ (i \in Saves(p) /\ toChar'[i] = toChar[i]) \/ toChar'[i].items = inv[p]
    <3> SUFFICES ASSUME NEW i \in Saves(p)'
                 PROVE  i < k /\ ((i \in Saves(p) /\ toChar'[i] = toChar[i]) \/ toChar'[i].items = inv[p])
        OBVIOUS
    <3>1. i \in DOMAIN toChar' /\ toChar'[i].type = "inventory" /\ toChar'[i].who = p
        BY DEF Saves, At
    <3>2. \/ i \in DOMAIN toChar /\ toChar'[i] = toChar[i]
          \/ toChar'[i] \in Own(p) /\ i < k
          \/ i = k
        BY <1>4, <1>16, <3>1 DEF EndsIn
    <3>3. i # k
        BY <1>3, <1>4, <1>16, <3>1 DEF EndsIn
    <3>4. i \in DOMAIN toChar => i < k
        BY <1>4, <1>16 DEF EndsIn
    <3> QED
        BY <2>1, <3>1, <3>2, <3>3, <3>4 DEF Saves, At
  <2> HIDE DEF k
  <2>5. InventoryKnown(p)' /\ LogoutIsPending(p)' /\ RetrievedBeforeLogin(p)'
      BY <1>2, <2>3 DEF InventoryKnown, LogoutIsPending, RetrievedBeforeLogin
  <2>6. SavesAreCurrent(p)'
    <3> SUFFICES ASSUME NEW i \in Saves(p)', toChar'[i].items # NotLoaded
                 PROVE  Loaded(p) /\ i < k
        BY <1>2, <1>12, <2>3 DEF SavesAreCurrent
    <3>1. CASE i \in Saves(p) /\ toChar'[i] = toChar[i]
        BY <1>7, <1>12, <2>4, <3>1 DEF Ledger, SavesAreCurrent
    <3>2. CASE toChar'[i].items = inv[p]
        BY <2>4, <3>2 DEF Loaded
    <3> QED
        BY <2>4, <3>1, <3>2
  <2>7. RequestsAreCurrent(p)'
      BY <1>2, <2>3 DEF RequestsAreCurrent
  <2>8. FinalIsNewest(p)'
    <3>1. SaveInventory(p)' = SaveInventory(p)
        BY <1>1 DEF SaveInventory
    <3> QED
        BY <1>4, <1>16, <2>3, <3>1 DEF FinalIsNewest, k
  <2>9. AckIsNewest(p)'
      BY <1>8, <1>13 DEF AckIsNewest
  <2>10. RetrievedOnce(p)'
      BY <1>1, <1>2, <1>7, <1>13, <2>3 DEF Ledger, RetrievedOnce
  <2>11. RetrievedAfterLogout(p)'
    <3>1. Loaded(p) => Retrievals(p) = {} /\ Parcels(p) = {}
        BY <1>7, <1>11 DEF Ledger, RetrievedOnce
    <3> QED
        BY <1>10, <1>13, <2>3, <3>1 DEF RetrievedAfterLogout
  <2>12. Ledger(p)'
      BY <2>5, <2>6, <2>7, <2>8, <2>9, <2>10, <2>11 DEF Ledger
  <2>13. Copied(p)
      BY <1>1, <1>13, <2>4 DEF Copied
  <2> QED
      BY <1>1, <1>6, <1>9, <1>14, <2>12, <2>13, OthersSettle
<1> QED
    BY <1>0, <1>15, <1>16 DEF TInv, LinkTyped

-----------------------------------------------------------------------------
(* The link, and the theorem.                                              *)

\* The link breaks: items that were retrieved may be lost, and none is gained.
LEMMA LossSettles ==
    ASSUME Inv, Inv', Books, LinkLost
    PROVE  Settled
<1> DEFINE f == [q \in Member |-> Holding(q)]
           g == [q \in Member |-> Holding(q)']
<1>0. TInv /\ TInv' /\ Balance /\ \A q \in Member : Ledger(q)
    BY DEF Inv, Books
<1>1. /\ UNCHANGED <<session, member, inv, stor, dbInv, dbGuild, discarded>>
      /\ up' = FALSE /\ toChar' = <<>> /\ toMap' = <<>> /\ losses' = losses + 1
    BY DEF LinkLost, mapVars, dbVars
<1>2. SilenceIsBare /\ SilenceIsBare' /\ NumbersTyped /\ NumbersTyped'
    BY Silence, NumberTypes, PTL
<1>3. ASSUME NEW p \in Member PROVE Ledger(p)' /\ Copied(p) /\ Holding(p)' <= Holding(p)
  <2>1. Bare(p)' /\ Parcel(p)' = 0
      BY <1>1, <1>2, <1>3 DEF SilenceIsBare
  <2>2. (OnMap(p)' <=> OnMap(p)) /\ (Loaded(p)' <=> Loaded(p))
      BY <1>1 DEF OnMap, Loaded
  <2>3. InventoryKnown(p)'
      BY <1>0, <1>1, <1>3, <2>2 DEF Ledger, InventoryKnown
  <2>4. Ledger(p)'
      BY <1>1, <1>2, <1>3, <2>1, <2>3 DEF SilenceIsBare
  <2>5. Copied(p)
      BY <1>1, <2>1 DEF Copied, Bare
  <2>6. Holding(p) \in Nat /\ Parcel(p) \in Nat /\ dbInv[p] \in Nat /\ (OnMap(p) => inv[p] \in Nat)
      BY <1>0, <1>2, <1>3 DEF NumbersTyped
  <2>7. Holding(p)' <= Holding(p)
      BY <1>1, <2>1, <2>2, <2>6 DEF Holding
  <2> QED
      BY <2>4, <2>5, <2>7
<1>4. \A q \in Member : Holding(q) \in Nat /\ Holding(q)' \in Nat
    BY <1>0, <1>2, <1>3 DEF NumbersTyped
<1>5. f \in [Member -> Nat] /\ g \in [Member -> Nat] /\ \A q \in Member : g[q] <= f[q]
    BY <1>3, <1>4
<1>6. Held = Cardinality(Pieces(f)) /\ Held' = Cardinality(Pieces(g))
    BY DEF Held, Pieces
<1> HIDE DEF f, g
<1>7. Cardinality(Pieces(g)) <= Cardinality(Pieces(f)) /\ Cardinality(Pieces(f)) \in Nat /\ Cardinality(Pieces(g)) \in Nat
    BY <1>5, PiecesFinite, PiecesOrder
<1>8. InStorage' = InStorage /\ InStorage \in Nat /\ discarded \in Nat
    BY <1>0, <1>1, <1>2 DEF InStorage, NumbersTyped
<1>9. losses' # 0
    BY <1>0, <1>1 DEF TInv, PlayersTyped
<1>10. Total \in Nat /\ Total' = Total
    BY TotalType DEF Total
<1>11. Account' <= Account /\ Account \in Nat /\ Account' \in Nat
    BY <1>1, <1>6, <1>7, <1>8 DEF Account
<1>12. Balance'
    BY <1>0, <1>9, <1>10, <1>11 DEF Balance
<1> QED
    BY <1>3, <1>12 DEF Settled

\* Every packet of r belongs to one who is leaving: its inventory, or the final
\* save right after it; and everyone who is leaving has a final save.
Paired(r) ==
    /\ \A i \in DOMAIN r : \E p \in Leaving :
          \/ /\ r[i] = SaveInventory(p)
             /\ i + 1 \in DOMAIN r /\ r[i + 1] = [type |-> "final", who |-> p]
          \/ /\ r[i] = [type |-> "final", who |-> p]
             /\ i - 1 \in DOMAIN r /\ r[i - 1] = SaveInventory(p)
    /\ \A p \in Leaving : \E i \in DOMAIN r : r[i] = [type |-> "final", who |-> p]

\* So are the packets that are repeated, in whatever order.
LEMMA RepeatedPairs ==
    ASSUME NEW leaving \in Orders(Leaving)
    PROVE  Paired(Repeated(leaving))
<1> DEFINE n == Cardinality(Leaving)
           r == Repeated(leaving)
           f(p) == [type |-> "final", who |-> p]
<1>1. IsFiniteSet(Leaving) /\ n \in Nat
  <2>1. Leaving \in SUBSET Member
      BY DEF Leaving
  <2> QED
      BY <2>1, StorageBounds, FS_Subset, FS_CardinalityType
<1>2. leaving \in Injection(1..n, Leaving)
    BY DEF Orders, Injection, IsInjective
<1>3. leaving \in Surjection(1..n, Leaving)
  <2>1. Cardinality(1..n) = n
      BY <1>1, FS_Interval
  <2> QED
      BY <1>1, <1>2, <2>1, FS_Injection
<1>4. leaving \in [1..n -> Leaving] /\ \A p \in Leaving : \E j \in 1..n : leaving[j] = p
    BY <1>3 DEF Surjection
<1>5. Len(leaving) = n
    BY <1>1, <1>4
<1>6. \A p : Final(p)[1] = SaveInventory(p) /\ Final(p)[2] = f(p)
    BY DEF Final
<1> HIDE DEF n, f
<1>7. /\ DOMAIN r = 1..(2 * n)
      /\ \A i \in 1..(2 * n) : r[i] = Final(leaving[(i + 1) \div 2])[IF i % 2 = 1 THEN 1 ELSE 2]
    BY <1>5 DEF Repeated
<1> HIDE DEF r
<1>8. ASSUME NEW j \in 1..n
      PROVE  /\ 2 * j - 1 \in 1..(2 * n) /\ 2 * j \in 1..(2 * n)
             /\ r[2 * j - 1] = SaveInventory(leaving[j]) /\ r[2 * j] = f(leaving[j])
  <2>1. 2 * j - 1 \in 1..(2 * n) /\ 2 * j \in 1..(2 * n)
      BY <1>1, <1>8
  <2>2. ((2 * j - 1) + 1) \div 2 = j /\ (2 * j - 1) % 2 = 1 /\ (2 * j + 1) \div 2 = j /\ (2 * j) % 2 # 1
      BY <1>8
  <2> QED
      BY <1>6, <1>7, <2>1, <2>2
<1>9. ASSUME NEW i \in 1..(2 * n)
      PROVE  \E j \in 1..n : i = 2 * j - 1 \/ i = 2 * j
  <2>1. (i + 1) \div 2 \in 1..n /\ (i = 2 * ((i + 1) \div 2) - 1 \/ i = 2 * ((i + 1) \div 2))
      BY <1>1, <1>9
  <2> QED
      BY <2>1
<1>10. ASSUME NEW i \in 1..(2 * n)
       PROVE  \E p \in Leaving : \/ r[i] = SaveInventory(p) /\ i + 1 \in 1..(2 * n) /\ r[i + 1] = f(p)
                                 \/ r[i] = f(p) /\ i - 1 \in 1..(2 * n) /\ r[i - 1] = SaveInventory(p)
  <2>1. PICK j \in 1..n : i = 2 * j - 1 \/ i = 2 * j
      BY <1>9
  <2>2. leaving[j] \in Leaving
      BY <1>4
  <2>3. CASE i = 2 * j - 1
    <3>1. i + 1 = 2 * j
        BY <2>3
    <3> QED
        BY <1>8, <2>2, <2>3, <3>1
  <2>4. CASE i = 2 * j
    <3>1. i - 1 = 2 * j - 1
        BY <2>4
    <3> QED
        BY <1>8, <2>2, <2>4, <3>1
  <2> QED
      BY <2>1, <2>3, <2>4
<1>11. ASSUME NEW p \in Leaving PROVE \E i \in 1..(2 * n) : r[i] = f(p)
    BY <1>4, <1>8
<1> QED
    BY <1>7, <1>10, <1>11 DEF r, f, Paired

\* The link is up again: the logouts are repeated with the newest inventories.
LEMMA ReadySettles ==
    ASSUME Inv, Inv', Books, LinkReady
    PROVE  Settled
<1>0. TInv /\ TInv' /\ PlayInv' /\ Balance /\ \A q \in Member : Ledger(q)
    BY DEF Inv, Books
<1>1. /\ UNCHANGED <<session, member, inv, stor, dbInv, dbGuild, losses, discarded>>
      /\ ~up /\ up' = TRUE /\ toChar = <<>> /\ toMap = <<>> /\ toMap' = <<>>
    BY <1>0 DEF LinkReady, mapVars, dbVars, TInv, LinkTyped
<1>2. PICK leaving \in Orders(Leaving) :
         toChar' = Repeated(leaving) \o (IF stor.dirty /\ ~stor.status THEN << SaveStorage >> ELSE <<>>)
    BY DEF LinkReady
<1> DEFINE r == Repeated(leaving)
           f(p) == [type |-> "final", who |-> p]
<1>3. /\ \A i \in DOMAIN r : \E p \in Leaving :
            \/ r[i] = SaveInventory(p) /\ i + 1 \in DOMAIN r /\ r[i + 1] = f(p)
            \/ r[i] = f(p) /\ i - 1 \in DOMAIN r /\ r[i - 1] = SaveInventory(p)
      /\ \A p \in Leaving : \E i \in DOMAIN r : r[i] = f(p)
  <2>1. Paired(Repeated(leaving))
      BY RepeatedPairs
  <2> QED
      BY <2>1 DEF Paired
<1>4. r \in Seq(CharMsg)
    BY <1>0, RepeatedPackets
<1>5. \A p : SaveInventory(p).type = "inventory" /\ SaveInventory(p).who = p /\ SaveInventory(p).items = inv[p]
             /\ f(p).type = "final" /\ f(p).who = p
    BY DEF SaveInventory
<1>6. SaveStorage.type = "storage"
    BY DEF SaveStorage
<1> HIDE DEF r, f
<1>7. /\ \A i \in DOMAIN r : i \in Nat /\ i >= 1 /\ i \in DOMAIN toChar' /\ toChar'[i] = r[i]
      /\ \A i \in DOMAIN toChar' : i \in DOMAIN r \/ toChar'[i] = SaveStorage
  <2>1. CASE stor.dirty /\ ~stor.status
    <3>1. toChar' = r \o <<SaveStorage>>
        BY <1>2, <2>1 DEF r
    <3> QED
        BY <1>4, <3>1
  <2>2. CASE ~(stor.dirty /\ ~stor.status)
    <3>1. toChar' = r \o <<>>
        BY <1>2, <2>2 DEF r
    <3> QED
        BY <1>4, <3>1
  <2> QED
      BY <2>1, <2>2
<1>8. SilenceIsBare /\ SilenceIsBare'
    BY Silence, PTL
<1>9. ASSUME NEW p \in Member PROVE Ledger(p)' /\ Copied(p) /\ Holding(p)' = Holding(p)
  <2>1. Bare(p) /\ Parcel(p) = 0
      BY <1>1, <1>8, <1>9 DEF SilenceIsBare
  <2>2. Acks(p)' = {} /\ Replies(p)' = {} /\ Parcels(p)' = {}
    <3>1. DOMAIN toMap' = {}
        BY <1>1
    <3> QED
        BY <3>1 DEF Acks, Replies, Parcels, At
  <2>3. (OnMap(p)' <=> OnMap(p)) /\ (Loaded(p)' <=> Loaded(p)) /\ Parcel(p)' = 0
      BY <1>1, <2>2 DEF OnMap, Loaded, Parcel
  <2>4. Requests(p)' = {} /\ Retrievals(p)' = {}
    <3>1. \A i \in DOMAIN toChar' : toChar'[i].type \in {"inventory", "final", "storage"}
        BY <1>3, <1>5, <1>6, <1>7
    <3> QED
        BY <3>1 DEF Requests, Retrievals, At
  <2>5. ASSUME NEW i \in Saves(p)'
        PROVE  p \in Leaving /\ toChar'[i].items = inv[p] /\ \E j \in Finals(p)' : i < j
    <3>1. i \in DOMAIN toChar' /\ toChar'[i].type = "inventory" /\ toChar'[i].who = p
        BY <2>5 DEF Saves, At
    <3>2. i \in DOMAIN r /\ toChar'[i] = r[i] /\ i \in Nat
        BY <1>6, <1>7, <3>1
    <3>3. PICK q \in Leaving : \/ r[i] = SaveInventory(q) /\ i + 1 \in DOMAIN r /\ r[i + 1] = f(q)
                               \/ r[i] = f(q)
        BY <1>3, <3>2
    <3>4. q = p /\ r[i] = SaveInventory(p) /\ i + 1 \in DOMAIN r /\ r[i + 1] = f(p)
        BY <1>5, <3>1, <3>2, <3>3
    <3>5. i + 1 \in Finals(p)'
        BY <1>5, <1>7, <3>4 DEF Finals, At
    <3> QED
        BY <1>5, <3>2, <3>4, <3>5
  <2>6. ASSUME NEW i \in Finals(p)'
        PROVE  i # 1 /\ toChar'[i - 1] = SaveInventory(p)
    <3>1. i \in DOMAIN toChar' /\ toChar'[i].type = "final" /\ toChar'[i].who = p
        BY <2>6 DEF Finals, At
    <3>2. i \in DOMAIN r /\ toChar'[i] = r[i] /\ i \in Nat
        BY <1>6, <1>7, <3>1
    <3>3. PICK q \in Leaving : \/ r[i] = SaveInventory(q)
                               \/ r[i] = f(q) /\ i - 1 \in DOMAIN r /\ r[i - 1] = SaveInventory(q)
        BY <1>3, <3>2
    <3>4. q = p /\ i - 1 \in DOMAIN r /\ r[i - 1] = SaveInventory(p)
        BY <1>5, <3>1, <3>2, <3>3
    <3>5. toChar'[i - 1] = SaveInventory(p) /\ i - 1 >= 1
        BY <1>7, <3>4
    <3> QED
        BY <3>2, <3>5
  <2>7. session[p] = "logout" => Finals(p)' # {}
    <3> SUFFICES ASSUME session[p] = "logout" PROVE Finals(p)' # {}
        OBVIOUS
    <3>1. p \in Leaving
        BY <1>9 DEF Leaving
    <3>2. PICK i \in DOMAIN r : r[i] = f(p)
        BY <1>3, <3>1
    <3>3. i \in Finals(p)'
        BY <1>5, <1>7, <3>2 DEF Finals, At
    <3> QED
        BY <3>3
  <2>8. p \in Leaving => session[p] = "logout"
      BY DEF Leaving
  <2>9. InventoryKnown(p)'
      BY <1>0, <1>1, <1>9, <2>3 DEF Ledger, InventoryKnown
  <2>10. SavesAreCurrent(p)'
    <3> SUFFICES ASSUME NEW i \in Saves(p)', toChar'[i].items # NotLoaded
                 PROVE  OnMap(p) /\ \E j \in Finals(p)' : i < j
        BY <2>3 DEF SavesAreCurrent
    <3> QED
        BY <2>5, <2>8 DEF OnMap, Loaded
  <2>11. RequestsAreCurrent(p)' /\ AckIsNewest(p)'
      BY <2>2, <2>4 DEF RequestsAreCurrent, AckIsNewest
  <2>12. LogoutIsPending(p)'
      BY <1>1, <2>7 DEF LogoutIsPending
  <2>13. FinalIsNewest(p)'
    <3>1. SaveInventory(p)' = SaveInventory(p)
        BY <1>1 DEF SaveInventory
    <3> QED
        BY <2>6, <3>1 DEF FinalIsNewest
  <2>14. RetrievedOnce(p)' /\ RetrievedBeforeLogin(p)' /\ RetrievedAfterLogout(p)'
      BY <2>2, <2>4 DEF RetrievedOnce, RetrievedBeforeLogin, RetrievedAfterLogout
  <2>15. Ledger(p)'
      BY <2>9, <2>10, <2>11, <2>12, <2>13, <2>14 DEF Ledger
  <2>16. Copied(p)
      BY <1>1, <2>2, <2>5 DEF Copied
  <2>17. Holding(p)' = Holding(p)
      BY <1>1, <2>1, <2>3 DEF Holding
  <2> QED
      BY <2>15, <2>16, <2>17
<1>10. InStorage' = InStorage
    BY <1>1 DEF InStorage
<1>11. Balance'
    BY <1>0, <1>1, <1>9, <1>10, BalanceSame
<1> QED
    BY <1>9, <1>11 DEF Settled

\* The books are right at the start,
LEMMA InitBooks == Init => Books
<1> SUFFICES ASSUME Init PROVE Books
    OBVIOUS
<1>1. SilenceIsBare
    BY Silence
<1>2. /\ toChar = <<>> /\ toMap = <<>> /\ losses = 0 /\ discarded = 0 /\ stor = NoStorage /\ dbGuild = Stored
      /\ \A p \in Member : session[p] = "out" /\ inv[p] = NotLoaded /\ dbInv[p] = Owned
    BY DEF Init
<1>3. Total \in Nat /\ Stored \in Nat /\ Owned \in Nat /\ Cardinality(Member) \in Nat
    BY TotalType, StorageBounds, FS_CardinalityType
<1>4. ASSUME NEW p \in Member PROVE Ledger(p) /\ Bare(p) /\ Holding(p) = Owned
  <2>1. Bare(p) /\ Parcel(p) = 0
      BY <1>1, <1>2, <1>4 DEF SilenceIsBare
  <2>2. InventoryKnown(p)
      BY <1>2, <1>4 DEF InventoryKnown
  <2>3. Ledger(p)
      BY <1>1, <1>2, <1>4, <2>1, <2>2 DEF SilenceIsBare
  <2>4. Holding(p) = Owned
      BY <1>2, <1>3, <1>4, <2>1 DEF Holding, OnMap
  <2> QED
      BY <2>1, <2>3, <2>4
<1>5. Held = Owned * Cardinality(Member)
  <2> DEFINE f == [p \in Member |-> Holding(p)]
  <2>1. f \in [Member -> Nat] /\ \A p \in Member : f[p] = Owned
      BY <1>3, <1>4
  <2> HIDE DEF f
  <2>2. Cardinality(Pieces(f)) = Owned * Cardinality(Member)
      BY <1>3, <2>1, PiecesAlike
  <2> QED
      BY <2>2 DEF Held, f
<1>6. InStorage = Stored
    BY <1>2 DEF InStorage, NoStorage
<1>7. Account = Total
  <2>1. Owned * Cardinality(Member) + Stored + 0 = Owned * Cardinality(Member) + Stored
    <3>1. Owned * Cardinality(Member) \in Nat
        BY <1>3
    <3> QED
        BY <1>3, <3>1
  <2> QED
      BY <1>2, <1>5, <1>6, <2>1 DEF Account, Total
<1>8. ASSUME NEW p \in Member PROVE Limited(p)
  <2>1. Owned <= Total
    <3> DEFINE f == [q \in Member |-> Owned]
    <3>1. f \in [Member -> Nat] /\ f[p] = Owned /\ \A q \in Member : f[q] = Owned
        BY <1>3, <1>8
    <3> HIDE DEF f
    <3>2. Owned <= Owned * Cardinality(Member)
      <4>1. Cardinality(Pieces(f)) = Owned * Cardinality(Member)
          BY <1>3, <3>1, PiecesAlike
      <4>2. f[p] <= Cardinality(Pieces(f))
          BY <1>8, <3>1, PiecesOrder
      <4> QED
          BY <3>1, <4>1, <4>2
    <3>3. Owned * Cardinality(Member) \in Nat
        BY <1>3
    <3> QED
        BY <1>3, <3>2, <3>3 DEF Total
  <2>2. Saves(p) = {} /\ Replies(p) = {}
      BY <1>4, <1>8 DEF Bare
  <2> QED
      BY <1>2, <1>3, <1>8, <2>1, <2>2 DEF Limited, NotLoaded
<1> QED
    BY <1>3, <1>4, <1>7, <1>8 DEF Books, Balance

\* and every step keeps them,
LEMMA NextBooks == Inv /\ Inv' /\ Books /\ [Next]_vars => Books'
<1> SUFFICES ASSUME Inv, Inv', Books, [Next]_vars PROVE Books'
    OBVIOUS
<1>1. ASSUME NEW p \in Member, PlayerStep(p) PROVE Books'
  <2>1. CASE Withdraw(p)
    <3>1. session[p] \in {"in", "loading"} \/ session[p] \in {"logout", "out"}
        BY <2>1 DEF Withdraw
    <3> QED
        BY <1>1, <2>1, <3>1, ExpelSettles, RetrievalSettles, SettledKeeps
  <2> QED
      BY <1>1, <2>1, LoginSettles, OpenSettles, ItemSettles, QuitSettles, SettledKeeps DEF PlayerStep
<1>2. CASE CharPacket
  <2>1. UNCHANGED <<mapVars, up, losses, discarded>> /\ toChar # <<>> /\ Head(toChar) \in CharMsg
    <3>1. UNCHANGED <<mapVars, up, losses, discarded>> /\ toChar # <<>>
        BY <1>2 DEF CharPacket, HandleInventory, HandleStorage, HandleFinal, HandleRequest, HandleLoad, HandleRetrieve, Take
    <3> QED
        BY <3>1 DEF Inv, TInv, LinkTyped
  <2>2. CASE HandleInventory
    <3>1. Head(toChar).who \in Member
        BY <2>1, <2>2, CharMsgFacts DEF HandleInventory, Take
    <3> QED
        BY <2>1, <2>2, <3>1, InventorySettles, SettledKeeps
  <2>3. CASE HandleStorage \/ HandleLoad
      BY <2>1, <2>3, StorageSettles, SettledKeeps
  <2>4. CASE HandleFinal
    <3>1. Head(toChar).who \in Member
        BY <2>1, <2>4, CharMsgFacts DEF HandleFinal, Take
    <3> QED
        BY <2>1, <2>4, <3>1, FinalSettles, SettledKeeps
  <2>5. CASE HandleRequest
    <3>1. Head(toChar).who \in Member
        BY <2>1, <2>5, CharMsgFacts DEF HandleRequest, Take
    <3> QED
        BY <2>1, <2>5, <3>1, RequestSettles, SettledKeeps
  <2>6. CASE HandleRetrieve
    <3>1. Head(toChar).who \in Member
        BY <2>1, <2>6, CharMsgFacts DEF HandleRetrieve, Take
    <3> QED
        BY <2>1, <2>6, <3>1, RetrieveSettles, SettledKeeps
  <2> QED
      BY <1>2, <2>2, <2>3, <2>4, <2>5, <2>6 DEF CharPacket
<1>3. CASE MapPacket
  <2>1. UNCHANGED <<member, dbVars, up, losses>> /\ toMap # <<>> /\ Head(toMap) \in MapMsg
    <3>1. UNCHANGED <<member, dbVars, up, losses>> /\ toMap # <<>>
        BY <1>3 DEF MapPacket, ReceiveLoad, ReceiveStored, ReceiveSaveAck, ReceiveInventory, ReceiveUnlock, ReceiveBoundItems, Receive
    <3> QED
        BY <3>1 DEF Inv, TInv, LinkTyped
  <2>2. CASE ReceiveLoad \/ ReceiveStored \/ ReceiveUnlock
      BY <2>1, <2>2, UnlockSettles, SettledKeeps
  <2>3. CASE ReceiveSaveAck
    <3>1. Head(toMap).who \in Member
        BY <2>1, <2>3, MapMsgFacts DEF ReceiveSaveAck, Receive
    <3> QED
        BY <2>1, <2>3, <3>1, AckSettles, SettledKeeps
  <2>4. CASE ReceiveInventory
    <3>1. Head(toMap).who \in Member
        BY <2>1, <2>4, MapMsgFacts DEF ReceiveInventory, Receive
    <3> QED
        BY <2>1, <2>4, <3>1, ReplySettles, SettledKeeps
  <2>5. CASE ReceiveBoundItems
    <3>1. Head(toMap).who \in Member
        BY <2>1, <2>5, MapMsgFacts DEF ReceiveBoundItems, Receive
    <3> QED
        BY <2>1, <2>5, <3>1, ParcelSettles, SettledKeeps
  <2> QED
      BY <1>3, <2>2, <2>3, <2>4, <2>5 DEF MapPacket
<1>4. CASE LinkLost
    BY <1>4, LossSettles, SettledKeeps
<1>5. CASE LinkReady
    BY <1>5, ReadySettles, SettledKeeps
<1>6. CASE UNCHANGED vars
  <2>1. UNCHANGED <<session, member, inv, open, stor, dbInv, dbGuild, up, toChar, toMap, losses, discarded>>
      BY <1>6 DEF vars, mapVars, dbVars, linkVars
  <2>2. Played /\ InStorage' = InStorage
    <3>1. \E m \in Seq(Current) : Send(m)
        BY <2>1, QuietPlay DEF Inv
    <3> QED
        BY <2>1, <3>1 DEF Played, InStorage
  <2>3. \A q \in Member : Leaves(q, 0, 0) /\ inv'[q] = inv[q]
      BY <2>1, <2>2, PlayedLeaves
  <2> QED
      BY <2>1, <2>2, <2>3, NobodySettles, SettledKeeps
<1> QED
    BY <1>1, <1>2, <1>3, <1>4, <1>5, <1>6 DEF Next

\* so they are always right.
LEMMA BooksHold == Spec => [](Inv /\ Books)
<1>1. Spec => []Inv
    BY InvHolds
<1>2. Spec => Init /\ [][Next]_vars
    BY DEF Spec
<1> QED
    BY <1>1, <1>2, InitBooks, NextBooks, PTL

\* For any members, items, places and lost connections: the guild storage and
\* the inventories never have more items than there were, and none is lost as
\* long as the link holds, except those that do not fit: see ItemsConserved.
THEOREM ItemsAreConserved == Spec => []ItemsConserved
<1>1. Inv /\ Books => ItemsConserved
  <2> SUFFICES ASSUME Inv, Books PROVE ItemsConserved
      OBVIOUS
  <2> DEFINE f == [p \in Member |-> Inventory(p)]
             held == Cardinality(Pieces(f)) + InStorage
  <2>0. TInv /\ Balance /\ \A p \in Member : Ledger(p) /\ Limited(p)
      BY DEF Inv, Books
  <2>1. Held \in Nat /\ InStorage \in Nat /\ discarded \in Nat /\ discarded <= Total
      BY <2>0, BalanceBounds DEF Bounded
  <2>2. \A p \in Member : inv[p] <= Total /\ dbInv[p] <= Total
      BY <2>0 DEF Limited
  <2>3. ASSUME Quiet PROVE held = Held + InStorage
    <3>1. ASSUME NEW p \in Member PROVE Inventory(p) = Holding(p)
      <4>1. Bare(p) /\ Parcel(p) = 0
          BY <2>3, <3>1, Silence DEF SilenceIsBare, Quiet
      <4>2. session[p] # "logout"
          BY <2>0, <2>3, <3>1, <4>1 DEF Quiet, Bare, Ledger, LogoutIsPending
      <4>3. dbInv[p] \in Nat
          BY <2>0, <3>1 DEF TInv, PlayersTyped
      <4> QED
          BY <4>1, <4>2, <4>3 DEF Inventory, Holding, OnMap
    <3>2. f = [p \in Member |-> Holding(p)]
        BY <3>1
    <3> QED
        BY <3>2 DEF Held
  <2> HIDE DEF f
  <2>4. Quiet => held <= Total /\ (losses = 0 => held + discarded = Total)
      BY <2>0, <2>1, <2>3, TotalType DEF Balance, Account
  <2> QED
      BY <2>1, <2>2, <2>4 DEF ItemsConserved, f
<1> QED
    BY <1>1, BooksHold, PTL
=============================================================================
