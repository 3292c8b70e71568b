------------------------------- MODULE Bucket -------------------------------
(***************************************************************************)
(* connect/bucket.go with the life of a connection's read goroutine        *)
(* (readPump of server.go, readDataFromTcp of server_tcp.go): the maps chs *)
(* and rooms of one bucket, the room objects they point to, and the        *)
(* registration and cleanup of connections that race on them.              *)
(*                                                                         *)
(* Put writes the maps under the write lock of the bucket, DeleteChannel   *)
(* reads AND writes them under its read lock, one map access per step.     *)
(* Room.DeleteChannel runs inside it, under the read locks of bucket and   *)
(* room, one load or store per step as in module Room, so the cleanups of  *)
(* several connections interleave there.  Labels from 93 on are line       *)
(* numbers of bucket.go, those below of room.go, "n" and "p" marking a     *)
(* load of ch.Next or ch.Prev and "w" a store.                             *)
(***************************************************************************)
EXTENDS Integers, FiniteSets

CONSTANTS Conns,    \* connections (type Channel)
          Users,    \* user ids
          RoomIds,  \* room ids a client may ask for
          NoRoom,   \* the id -1: connect without a room (websocket only)
          Objs,     \* the Room objects the process can allocate
          Nil

ASSUME NilAssumption == Nil \notin Conns \cup Objs \cup Users
ASSUME NoRoomAssumption == NoRoom \notin RoomIds
ASSUME FiniteAssumption == IsFiniteSet(Conns)

VARIABLES
    chs, rooms,                 \* Bucket.chs, Bucket.rooms
    Id,                         \* Room.Id of each object, NoRoom while it is not allocated
    head, OnlineCount, drop,    \* Room.next, Room.OnlineCount, Room.drop
    Next_, Prev,                \* Channel.Next, Channel.Prev
    Room, userId,               \* Channel.Room, Channel.userId
    pc,                         \* the read goroutine of each connection
    ch, room,                   \* locals of its DeleteChannel call (ch is reassigned in line 105)
    loc,                        \* registers of Room.DeleteChannel: n = ch.Next, p = ch.Prev, k = OnlineCount
    panicked,                   \* the line of the nil dereference the process has died of, or 0
    twice,                      \* history: some user has had two sessions at a time
    overlap,                    \* history: the Room objects in which DeleteChannels have overlapped
    refused                     \* history: the connections whose Put was answered "room drop"

maps  == <<chs, rooms, Id>>
links == <<head, Next_, Prev>>
lists == <<links, OnlineCount, drop>>
conn  == <<Room, userId>>
local == <<ch, room>>
hist  == <<twice, overlap, refused>>
vars  == <<maps, lists, conn, pc, local, loc, panicked, hist>>

NoLocals == [n |-> Nil, p |-> Nil, k |-> 0]

Goto(c, label) == pc' = [pc EXCEPT ![c] = label]

(* The labels under the read lock of the room, and those under that of the bucket. *)
RoomRLock  == {"66", "66p", "66w", "68", "70", "70n", "70w", "72", "72w", "74", "74w", "75", "76", "77"}
UnderRLock == RoomRLock \cup {"105", "106", "108", "110", "80", "113", "114"}
RLocked    == \E c \in Conns : pc[c] \in UnderRLock
Deleting(o) == {c \in Conns : pc[c] \in RoomRLock /\ room[c] = o}

Init ==
    /\ chs = [u \in Users |-> Nil]
    /\ rooms = [r \in RoomIds |-> Nil]
    /\ Id = [o \in Objs |-> NoRoom]
    /\ head = [o \in Objs |-> Nil]
    /\ OnlineCount = [o \in Objs |-> 0]
    /\ drop = [o \in Objs |-> FALSE]
    /\ Next_ = [c \in Conns |-> Nil]
    /\ Prev = [c \in Conns |-> Nil]
    /\ Room = [c \in Conns |-> Nil]
    /\ userId = [c \in Conns |-> Nil]
    /\ pc = [c \in Conns |-> "new"]
    /\ ch = [c \in Conns |-> Nil]
    /\ room = [c \in Conns |-> Nil]
    /\ loc = [c \in Conns |-> NoLocals]
    /\ panicked = 0
    /\ twice = FALSE
    /\ overlap = {}
    /\ refused = {}

-----------------------------------------------------------------------------
(* Lines 87 and 88; the mutant keeps an entry the user has already. *)
RegisteredOnce(c, u) == [chs EXCEPT ![u] = IF @ = Nil THEN c ELSE @]
Registered(c, u) == [chs EXCEPT ![u] = c]

(* Bucket.Put, lines 76-89, after logic has accepted the token as user u.  A fresh Room
   object is allocated when the map has none for r. *)
Put(c, u, r) ==
    /\ pc[c] = "new"
    /\ ~RLocked
    /\ chs' = Registered(c, u)
    /\ userId' = [userId EXCEPT ![c] = u]
    /\ twice' = (twice \/ \E d \in Conns : userId[d] = u /\ pc[d] # "closed")
    /\ \/ /\ r = NoRoom
          /\ Goto(c, "reading")
          /\ UNCHANGED <<rooms, Id, Room>>
       \/ /\ r # NoRoom
          /\ \E o \in Objs :
                /\ IF rooms[r] # Nil THEN o = rooms[r] ELSE Id[o] = NoRoom
                /\ rooms' = [rooms EXCEPT ![r] = o]
                /\ Id' = [Id EXCEPT ![o] = r]
                /\ Room' = [Room EXCEPT ![c] = o]
          /\ Goto(c, "93")
    /\ UNCHANGED <<lists, local, loc, panicked, overlap, refused>>

(* Mutant: the old head is not linked back. *)
LinkOneWay(c, o) ==
    /\ Prev' = [Prev EXCEPT ![c] = Nil]
    /\ Next_' = [Next_ EXCEPT ![c] = head[o]]
    /\ head' = [head EXCEPT ![o] = c]
    /\ OnlineCount' = [OnlineCount EXCEPT ![o] = @ + 1]

(* Room.Put, run whole under the write lock of the room. *)
LinkFirst(c, o) ==
    /\ Prev' = [x \in Conns |-> IF x = c THEN Nil ELSE IF x = head[o] THEN c ELSE Prev[x]]
    /\ Next_' = [Next_ EXCEPT ![c] = head[o]]
    /\ head' = [head EXCEPT ![o] = c]
    /\ OnlineCount' = [OnlineCount EXCEPT ![o] = @ + 1]

(* Line 93, outside the lock of the bucket.  A refused connection is closed. *)
PutInRoom(c) ==
    /\ pc[c] = "93"
    /\ Deleting(Room[c]) = {}
    /\ IF drop[Room[c]]
          THEN Goto(c, "closing") /\ refused' = refused \cup {c} /\ UNCHANGED links /\ UNCHANGED OnlineCount
          ELSE LinkFirst(c, Room[c]) /\ Goto(c, "reading") /\ UNCHANGED refused
    /\ UNCHANGED <<maps, drop, conn, local, loc, panicked, twice, overlap>>

(* The read loop ends: the client left, sent something invalid or timed out. *)
Leave(c) ==
    /\ pc[c] \in {"new", "reading"}
    /\ Goto(c, "closing")
    /\ UNCHANGED <<maps, lists, conn, local, loc, panicked, hist>>

-----------------------------------------------------------------------------
(* The deferred cleanup.  Without a room there is none (server.go:99). *)
Cleanup(c) ==
    /\ pc[c] = "closing"
    /\ Goto(c, IF Room[c] = Nil THEN "closed" ELSE "105")
    /\ UNCHANGED <<maps, local>>

(* Mutants: the result of the lookup is not tested; the entry is deleted as soon as it is
   found, before line 106 reads it. *)
LookupUntested(c) ==
    /\ pc[c] = "105"
    /\ ch' = [ch EXCEPT ![c] = chs[userId[c]]]
    /\ Goto(c, "106")
    /\ UNCHANGED <<maps, room>>

LookupAndDelete(c) ==
    /\ pc[c] = "105"
    /\ ch' = [ch EXCEPT ![c] = chs[userId[c]]]
    /\ chs' = [chs EXCEPT ![userId[c]] = Nil]
    /\ Goto(c, IF chs[userId[c]] # Nil THEN "106" ELSE "closed")
    /\ UNCHANGED <<rooms, Id, room>>

LookupChannel(c) ==
    /\ pc[c] = "105"
    /\ ch' = [ch EXCEPT ![c] = chs[userId[c]]]
    /\ Goto(c, IF chs[userId[c]] # Nil THEN "106" ELSE "closed")
    /\ UNCHANGED <<maps, room>>

(* Mutant: the room of the connection that closes, not of the one that was found. *)
LookupOwnRoom(c) ==
    /\ pc[c] = "106"
    /\ chs[userId[c]] # Nil
    /\ room' = [room EXCEPT ![c] = Room[c]]
    /\ Goto(c, "108")
    /\ UNCHANGED <<maps, ch>>

(* A second lookup: the entry may have gone since line 105. *)
LookupRoom(c) ==
    /\ pc[c] = "106"
    /\ chs[userId[c]] # Nil
    /\ room' = [room EXCEPT ![c] = Room[chs[userId[c]]]]
    /\ Goto(c, "108")
    /\ UNCHANGED <<maps, ch>>

(* Mutant: the connection leaves the map and stays in the list. *)
DeleteUserOnly(c) ==
    /\ pc[c] = "108"
    /\ chs' = [chs EXCEPT ![userId[c]] = Nil]
    /\ Goto(c, "closed")
    /\ UNCHANGED <<rooms, Id, local>>

DeleteUser(c) ==
    /\ pc[c] = "108"
    /\ chs' = [chs EXCEPT ![userId[c]] = Nil]
    /\ Goto(c, IF room[c] # Nil THEN "110" ELSE "closed")
    /\ UNCHANGED <<rooms, Id, local>>

TestDrop(c) ==
    /\ pc[c] = "113"
    /\ Goto(c, IF drop[room[c]] THEN "114" ELSE "closed")
    /\ UNCHANGED <<maps, local>>

DeleteRoom(c) ==
    /\ pc[c] = "114"
    /\ rooms' = [rooms EXCEPT ![Id[room[c]]] = Nil]
    /\ Goto(c, "closed")
    /\ UNCHANGED <<chs, Id, local>>

(* "return r.drop" of Room.DeleteChannel, read after its RUnlock. *)
ReturnDrop(c) ==
    /\ pc[c] = "80"
    /\ Goto(c, IF drop[room[c]] THEN "113" ELSE "closed")
    /\ UNCHANGED <<maps, local>>

CleanupStep(c) ==
    /\ \/ Cleanup(c) \/ LookupChannel(c) \/ LookupRoom(c) \/ DeleteUser(c)
       \/ ReturnDrop(c) \/ TestDrop(c) \/ DeleteRoom(c)
    /\ UNCHANGED <<lists, conn, loc, panicked, hist>>

-----------------------------------------------------------------------------
(* Room.DeleteChannel(ch) on room, called in line 110: its loads. *)

DeleteRLock(c) ==
    /\ pc[c] = "110"
    /\ loc' = [loc EXCEPT ![c].n = Next_[ch[c]]]
    /\ overlap' = IF Deleting(room[c]) = {} THEN overlap ELSE overlap \cup {room[c]}
    /\ Goto(c, IF Next_[ch[c]] # Nil THEN "66" ELSE "68")

(* room.go:66 and 70 evaluate again what 64 and 68 tested: the value is the one tested or
   what memory holds now. *)
ReloadNext(c) ==
    /\ pc[c] = "66"
    /\ \E n \in {loc[c].n, Next_[ch[c]]} \ {Nil} : loc' = [loc EXCEPT ![c].n = n]
    /\ Goto(c, "66p")
    /\ UNCHANGED overlap

LoadPrevOfNext(c) ==
    /\ pc[c] = "66p"
    /\ loc' = [loc EXCEPT ![c].p = Prev[ch[c]]]
    /\ Goto(c, "66w")
    /\ UNCHANGED overlap

LoadPrev(c) ==
    /\ pc[c] = "68"
    /\ loc' = [loc EXCEPT ![c].p = Prev[ch[c]]]
    /\ Goto(c, IF Prev[ch[c]] # Nil THEN "70" ELSE "72")
    /\ UNCHANGED overlap

ReloadPrev(c) ==
    /\ pc[c] = "70"
    /\ \E p \in {loc[c].p, Prev[ch[c]]} \ {Nil} : loc' = [loc EXCEPT ![c].p = p]
    /\ Goto(c, "70n")
    /\ UNCHANGED overlap

LoadNext(c) ==
    /\ pc[c] \in {"70n", "72"}
    /\ loc' = [loc EXCEPT ![c].n = Next_[ch[c]]]
    /\ Goto(c, IF pc[c] = "70n" THEN "70w" ELSE "72w")
    /\ UNCHANGED overlap

LoadCount(c) ==
    /\ pc[c] = "74"
    /\ loc' = [loc EXCEPT ![c].k = OnlineCount[room[c]]]
    /\ Goto(c, "74w")
    /\ UNCHANGED overlap

(* The test of room.go:76, and a mutant of it. *)
BelowZero(count) == count < 0
Empty(count) == count <= 0

(* On the false branch the read lock of the room is released. *)
TestCount(c) ==
    /\ pc[c] = "76"
    /\ \E count \in {OnlineCount[room[c]], loc[c].k - 1} : Goto(c, IF Empty(count) THEN "77" ELSE "80")
    /\ loc' = [loc EXCEPT ![c] = NoLocals]
    /\ UNCHANGED overlap

LoadStep(c) ==
    /\ \/ DeleteRLock(c) \/ ReloadNext(c) \/ LoadPrevOfNext(c) \/ LoadPrev(c)
       \/ ReloadPrev(c) \/ LoadNext(c) \/ LoadCount(c) \/ TestCount(c)
    /\ UNCHANGED <<maps, lists, conn, local, panicked, twice, refused>>

(* Its stores. *)

StorePrevOfNext(c) ==
    /\ pc[c] = "66w"
    /\ Prev' = [Prev EXCEPT ![loc[c].n] = loc[c].p]
    /\ Goto(c, "68")
    /\ UNCHANGED <<head, Next_, OnlineCount, drop>>

StoreNext(c) ==
    /\ pc[c] = "70w"
    /\ Next_' = [Next_ EXCEPT ![loc[c].p] = loc[c].n]
    /\ Goto(c, "74")
    /\ UNCHANGED <<head, Prev, OnlineCount, drop>>

StoreHead(c) ==
    /\ pc[c] = "72w"
    /\ head' = [head EXCEPT ![room[c]] = loc[c].n]
    /\ Goto(c, "74")
    /\ UNCHANGED <<Next_, Prev, OnlineCount, drop>>

(* Mutant: the decrement is missing. *)
StoreCountSame(c) ==
    /\ pc[c] = "74w"
    /\ OnlineCount' = [OnlineCount EXCEPT ![room[c]] = loc[c].k]
    /\ Goto(c, "75")
    /\ UNCHANGED <<links, drop>>

StoreCount(c) ==
    /\ pc[c] = "74w"
    /\ OnlineCount' = [OnlineCount EXCEPT ![room[c]] = loc[c].k - 1]
    /\ Goto(c, "75")
    /\ UNCHANGED <<links, drop>>

ClearDrop(c) ==
    /\ pc[c] = "75"
    /\ drop' = [drop EXCEPT ![room[c]] = FALSE]
    /\ Goto(c, "76")
    /\ UNCHANGED <<links, OnlineCount>>

SetDrop(c) ==
    /\ pc[c] = "77"
    /\ drop' = [drop EXCEPT ![room[c]] = TRUE]
    /\ Goto(c, "80")
    /\ UNCHANGED <<links, OnlineCount>>

StoreStep(c) ==
    /\ \/ StorePrevOfNext(c) \/ StoreNext(c) \/ StoreHead(c) \/ StoreCount(c)
       \/ ClearDrop(c) \/ SetDrop(c)
    /\ UNCHANGED <<maps, conn, local, loc, panicked, hist>>

(* The nil dereferences: line 106 when the entry has gone since line 105, lines 66 and 70 of
   room.go when a neighbour's DeleteChannel has changed what was tested.  Nothing recovers
   the panic, and the process ends. *)
Panic(c) ==
    /\ \/ pc[c] = "106" /\ chs[userId[c]] = Nil /\ panicked' = 106
       \/ pc[c] = "66" /\ Next_[ch[c]] = Nil /\ panicked' = 66
       \/ pc[c] = "70" /\ Prev[ch[c]] = Nil /\ panicked' = 70
    /\ UNCHANGED <<maps, lists, conn, pc, local, loc, hist>>

-----------------------------------------------------------------------------
Connect(c) == \E u \in Users, r \in RoomIds \cup {NoRoom} : Put(c, u, r)

Next ==
    /\ panicked = 0
    /\ \E c \in Conns : \/ Connect(c) \/ PutInRoom(c) \/ Leave(c)
                        \/ CleanupStep(c) \/ LoadStep(c) \/ StoreStep(c) \/ Panic(c)

Spec == Init /\ [][Next]_vars

-----------------------------------------------------------------------------
(* Every variable has its type, and a local is set where the code uses it. *)
TypeOK ==
    /\ chs \in [Users -> Conns \cup {Nil}]
    /\ rooms \in [RoomIds -> Objs \cup {Nil}]
    /\ Id \in [Objs -> RoomIds \cup {NoRoom}]
    /\ head \in [Objs -> Conns \cup {Nil}]
    /\ OnlineCount \in [Objs -> Int]
    /\ drop \in [Objs -> BOOLEAN]
    /\ Next_ \in [Conns -> Conns \cup {Nil}] /\ Prev \in [Conns -> Conns \cup {Nil}]
    /\ Room \in [Conns -> Objs \cup {Nil}]
    /\ userId \in [Conns -> Users \cup {Nil}]
    /\ pc \in [Conns -> UnderRLock \cup {"new", "93", "reading", "closing", "closed"}]
    /\ ch \in [Conns -> Conns \cup {Nil}]
    /\ room \in [Conns -> Objs \cup {Nil}]
    /\ loc \in [Conns -> [n : Conns \cup {Nil}, p : Conns \cup {Nil}, k : Int]]
    /\ panicked \in {0, 66, 70, 106}
    /\ twice \in BOOLEAN /\ overlap \subseteq Objs /\ refused \subseteq Conns
    /\ \A c \in Conns : /\ pc[c] \in RoomRLock \cup {"106", "108", "110"} => ch[c] # Nil
                        /\ pc[c] \in RoomRLock \cup {"110", "80", "113", "114"} => room[c] # Nil
                        /\ pc[c] \in {"66", "66p", "66w"} => loc[c].n # Nil
                        /\ pc[c] \in {"70", "70n", "70w"} => loc[c].p # Nil

(* What a Push on room object o meets: the first pointers from Room.next. *)
Walk(o) == LET N == Cardinality(Conns)
               at[i \in 0 .. N] == IF i = 0 THEN head[o]
                                   ELSE IF at[i - 1] = Nil THEN Nil ELSE Next_[at[i - 1]]
           IN  at
Reached(o) == {Walk(o)[i] : i \in 0 .. Cardinality(Conns)} \ {Nil}

InRoom(c) == pc[c] = "reading" /\ Room[c] # Nil
Settled   == \A c \in Conns : pc[c] \in {"new", "reading", "closed"}

(* So far every user has had one session at a time: it connected again only when the
   cleanup of its last connection was over. *)
OneSession == ~twice

(* Whatever connections of one user overlap and whatever cleanups race: a broadcast to a
   room never reaches a connection that asked for another room, and its walk ends. *)
NoStranger == \A o \in Objs : /\ Walk(o)[Cardinality(Conns)] = Nil
                              /\ \A c \in Reached(o) : Room[c] = o

(* With one session per user, whatever cleanups race: a single message for a user goes to
   the connection the user has (bucket.go:120, "the connection of the user id"). *)
UserIndex == OneSession => \A c \in Conns : pc[c] \in {"93", "reading"} => chs[userId[c]] = c

(* With one session per user line 106 finds the entry that line 105 has found, and the
   process only dies of lines 66 and 70 of room.go, of cleanups that overlapped in a room. *)
NoPanic == OneSession => panicked # 106 /\ (panicked # 0 => overlap # {})

(* With one session per user, in a Room object whose DeleteChannels have never overlapped: a
   connection in the room is in its list, and OnlineCount is the length of the list while
   anybody is in it and nobody is taking itself out.  Refused connections, whose cleanup
   runs DeleteChannel as well, and the racing cleanups of other rooms do not disturb it. *)
Listed == OneSession => \A o \in Objs \ overlap :
              /\ {c \in Conns : InRoom(c) /\ Room[c] = o} \subseteq Reached(o)
              /\ Deleting(o) = {} /\ Reached(o) # {} => OnlineCount[o] = Cardinality(Reached(o))

(* With one session per user nothing is left of a connection whose cleanup is over: no map
   holds it, whatever cleanups raced, and no list of a Room object in which they did not. *)
Forgotten == OneSession => \A c \in Conns : pc[c] = "closed" /\ Room[c] # Nil =>
                 /\ \A u \in Users : chs[u] # c
                 /\ \A o \in Objs \ overlap : c \notin Reached(o)

(* With one session per user the map of the rooms and their lists agree, up to the objects
   in which DeleteChannels overlapped.  A room with somebody inside is in the map under its
   id, as long as no Put into an object of that id was refused: the cleanup of a refused
   connection deletes the entry of the id whatever object it holds by then (line 114).  And
   with every goroutine settled the rooms in the map have somebody inside. *)
Undisturbed(r) == \A o \in Objs : Id[o] = r => o \notin overlap /\ \A c \in refused : Room[c] # o
RoomsInUse == OneSession =>
    /\ \A c \in Conns : InRoom(c) /\ Undisturbed(Id[Room[c]]) => rooms[Id[Room[c]]] = Room[c]
    /\ Settled => \A r \in RoomIds : rooms[r] \in Objs \ overlap => Reached(rooms[r]) # {}
=============================================================================
