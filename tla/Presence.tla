------------------------------ MODULE Presence ------------------------------
(***************************************************************************)
(* logic/rpc.go Connect, DisConnect and Logout: who is online, where, and  *)
(* in which room, as the logic layer keeps it in redis.  Redis runs one    *)
(* command at a time; each handler is a sequence of commands, so handlers  *)
(* of several connections interleave between them.  Labels are the line    *)
(* numbers of logic/rpc.go of the command about to run.                    *)
(*                                                                         *)
(* A session is one client connection to one connect server: its server    *)
(* calls Connect when it opens and DisConnect when its read goroutine      *)
(* ends.  The rpc client retries a call whose reply is lost (Failtry), so  *)
(* a handler may run again.  A connect server may die (rpc.go Fatalf, a    *)
(* panic): its sessions are gone and nobody calls DisConnect for them.     *)
(***************************************************************************)
EXTENDS Integers, FiniteSets

CONSTANTS Sessions, Users, Servers,
          Rooms,        \* room ids in use
          ZeroRooms,    \* those of them that are not positive (line 346)
          MaxRetries,   \* bound on the handler runs repeated for one session
          Nil

ASSUME RoomsAssumption == ZeroRooms \subseteq Rooms
ASSUME RetriesAssumption == MaxRetries \in Nat
ASSUME NilAssumption == Nil \notin Users \cup Servers

VARIABLES
    route,              \* redis yoyichat_<user>: the server the user is reached at
    roomUsers,          \* redis yoyichat_room_<room>: the users in the hash
    onlineCount,        \* redis yoyichat_room_online_count_<room>
    roster,             \* the room list last pushed to the queue for the clients of each room
    pc,                 \* the session: its life and the command its handler is at
    user, room, server, \* who it is, fixed when it opens
    seen,               \* what its handler last read: the room list of line 362
    dead,               \* servers that have died (a restarted one has a fresh ServerId)
    retries             \* handler runs repeated so far, for all sessions

redis   == <<route, roomUsers, onlineCount, roster>>
session == <<user, room, server>>
vars    == <<redis, pc, session, seen, dead, retries>>

Connecting    == {"325", "331", "332", "334"}
Disconnecting == {"347", "349", "354", "362", "366"}
Live(s)       == pc[s] = "open" /\ server[s] \notin dead
Settled       == \A s \in Sessions : pc[s] \in {"new", "open", "gone"}

Goto(s, label) == pc' = [pc EXCEPT ![s] = label]

Init ==
    /\ route = [u \in Users |-> Nil]
    /\ roomUsers = [r \in Rooms |-> {}]
    /\ onlineCount = [r \in Rooms |-> 0]
    /\ roster = [r \in Rooms |-> {}]
    /\ pc = [s \in Sessions |-> "new"]
    /\ user = [s \in Sessions |-> Nil]
    /\ room = [s \in Sessions |-> Nil]
    /\ server = [s \in Sessions |-> Nil]
    /\ seen = [s \in Sessions |-> {}]
    /\ dead = {}
    /\ retries = 0

-----------------------------------------------------------------------------
(* Connect.  The token has been found in line 305 to belong to u. *)
Open(s, u, r, srv) ==
    /\ pc[s] = "new"
    /\ srv \notin dead
    /\ user' = [user EXCEPT ![s] = u]
    /\ room' = [room EXCEPT ![s] = r]
    /\ server' = [server EXCEPT ![s] = srv]
    /\ Goto(s, "325")
    /\ UNCHANGED <<redis, seen, dead, retries>>

(* Mutant: SETNX instead of SET. *)
SetRouteOnce(s) ==
    /\ pc[s] = "325"
    /\ route' = [route EXCEPT ![user[s]] = IF @ = Nil THEN server[s] ELSE @]
    /\ Goto(s, "331")
    /\ UNCHANGED <<roomUsers, onlineCount, roster, session, seen, dead, retries>>

SetRoute(s) ==
    /\ pc[s] = "325"
    /\ route' = [route EXCEPT ![user[s]] = server[s]]
    /\ Goto(s, "331")
    /\ UNCHANGED <<roomUsers, onlineCount, roster, session, seen, dead, retries>>

(* Mutants of the test of line 331: inverted, and left out. *)
TestRoomUserInverted(s) ==
    /\ pc[s] = "331"
    /\ Goto(s, IF user[s] \in roomUsers[room[s]] THEN "332" ELSE "open")
    /\ UNCHANGED <<redis, session, seen, dead, retries>>

TestRoomUserAlways(s) ==
    /\ pc[s] = "331"
    /\ Goto(s, "332")
    /\ UNCHANGED <<redis, session, seen, dead, retries>>

(* The user is added only when the hash does not have it yet. *)
TestRoomUser(s) ==
    /\ pc[s] = "331"
    /\ Goto(s, IF user[s] \notin roomUsers[room[s]] THEN "332" ELSE "open")
    /\ UNCHANGED <<redis, session, seen, dead, retries>>

AddRoomUser(s) ==
    /\ pc[s] = "332"
    /\ roomUsers' = [roomUsers EXCEPT ![room[s]] = @ \cup {user[s]}]
    /\ Goto(s, "334")
    /\ UNCHANGED <<route, onlineCount, roster, session, seen, dead, retries>>

IncrCount(s) ==
    /\ pc[s] = "334"
    /\ onlineCount' = [onlineCount EXCEPT ![room[s]] = @ + 1]
    /\ Goto(s, "open")
    /\ UNCHANGED <<route, roomUsers, roster, session, seen, dead, retries>>

-----------------------------------------------------------------------------
(* DisConnect: the read goroutine of the session ends. *)
Close(s) ==
    /\ Live(s)
    /\ Goto(s, IF room[s] \notin ZeroRooms THEN "347" ELSE "354")
    /\ UNCHANGED <<redis, session, seen, dead, retries>>

TestCount(s) ==
    /\ pc[s] = "347"
    /\ Goto(s, IF onlineCount[room[s]] > 0 THEN "349" ELSE "354")
    /\ UNCHANGED <<redis, session, seen, dead, retries>>

DecrCount(s) ==
    /\ pc[s] = "349"
    /\ onlineCount' = [onlineCount EXCEPT ![room[s]] = @ - 1]
    /\ Goto(s, "354")
    /\ UNCHANGED <<route, roomUsers, roster, session, seen, dead, retries>>

RemoveRoomUser(s) ==
    /\ pc[s] = "354"
    /\ roomUsers' = [roomUsers EXCEPT ![room[s]] = @ \ {user[s]}]
    /\ Goto(s, "362")
    /\ UNCHANGED <<route, onlineCount, roster, session, seen, dead, retries>>

ReadRoster(s) ==
    /\ pc[s] = "362"
    /\ seen' = [seen EXCEPT ![s] = roomUsers[room[s]]]
    /\ Goto(s, "366")
    /\ UNCHANGED <<redis, session, dead, retries>>

PublishRoster(s) ==
    /\ pc[s] = "366"
    /\ roster' = [roster EXCEPT ![room[s]] = seen[s]]
    /\ seen' = [seen EXCEPT ![s] = {}]
    /\ Goto(s, "gone")
    /\ UNCHANGED <<route, roomUsers, onlineCount, session, dead, retries>>

-----------------------------------------------------------------------------
(* Logout of a user removes its route (line 170); its connections stay open. *)
Logout(u) ==
    /\ route[u] # Nil
    /\ route' = [route EXCEPT ![u] = Nil]
    /\ UNCHANGED <<roomUsers, onlineCount, roster, pc, session, seen, dead, retries>>

(* The reply of a handler that has just finished is lost, and the call repeated. *)
Retry(s) ==
    /\ server[s] \notin dead
    /\ retries < MaxRetries
    /\ retries' = retries + 1
    /\ \/ pc[s] = "open" /\ Goto(s, "325")
       \/ pc[s] = "gone" /\ Goto(s, IF room[s] \notin ZeroRooms THEN "347" ELSE "354")
    /\ UNCHANGED <<redis, session, seen, dead>>

(* The process of a connect server dies.  A handler that logic is running for one of its
   sessions goes on to its end. *)
Crash(srv) ==
    /\ srv \notin dead
    /\ dead' = dead \cup {srv}
    /\ UNCHANGED <<redis, pc, session, seen, retries>>

HandlerStep(s) ==
    \/ SetRoute(s) \/ TestRoomUser(s) \/ AddRoomUser(s) \/ IncrCount(s)
    \/ TestCount(s) \/ DecrCount(s) \/ RemoveRoomUser(s) \/ ReadRoster(s) \/ PublishRoster(s)

Next ==
    \/ \E s \in Sessions :
          \/ \E u \in Users, r \in Rooms, srv \in Servers : Open(s, u, r, srv)
          \/ HandlerStep(s) \/ Close(s) \/ Retry(s)
    \/ \E u \in Users : Logout(u)
    \/ \E srv \in Servers : Crash(srv)

Spec == Init /\ [][Next]_vars

(* The behaviours in which a user has one session at a time: it opens another one when
   DisConnect of the last has run to its end, or its server is dead and no handler runs
   for it. *)
Over(s) == pc[s] = "gone" \/ (pc[s] = "open" /\ server[s] \in dead)
OneSession ==
    \A s, t \in Sessions :
       s # t /\ user[s] = user[t] /\ user[s] # Nil => Over(s) \/ Over(t)
OneSessionSpec == Init /\ [][Next /\ OneSession']_vars

-----------------------------------------------------------------------------
(* Every variable has its type. *)
TypeOK ==
    /\ route \in [Users -> Servers \cup {Nil}]
    /\ roomUsers \in [Rooms -> SUBSET Users]
    /\ onlineCount \in [Rooms -> Int]
    /\ roster \in [Rooms -> SUBSET Users]
    /\ pc \in [Sessions -> {"new", "open", "gone"} \cup Connecting \cup Disconnecting]
    /\ user \in [Sessions -> Users \cup {Nil}]
    /\ room \in [Sessions -> Rooms \cup {Nil}]
    /\ server \in [Sessions -> Servers \cup {Nil}]
    /\ seen \in [Sessions -> SUBSET Users]
    /\ dead \subseteq Servers
    /\ retries \in 0 .. MaxRetries

(* A user with an open connection is in the hash of its room (line 330, "join the room,
   count plus 1, the room records the new user"), so room messages count it. *)
LiveListed == \A s \in Sessions : Live(s) => user[s] \in roomUsers[room[s]]

(* The route of a user who has an open connection and has not logged out leads to a server
   where it has one (line 195, "get the connect server the receiver is on"). *)
LiveRouted ==
    Settled => \A s \in Sessions : Live(s) /\ route[user[s]] # Nil =>
                  \E t \in Sessions : Live(t) /\ user[t] = user[s] /\ server[t] = route[user[s]]

(* Unless a call has been repeated, the online count is what README.md:22 says, the number
   of people online in the room: when no handler runs it is the size of the hash. *)
CountExact ==
    retries = 0 /\ Settled => \A r \in Rooms \ ZeroRooms : onlineCount[r] = Cardinality(roomUsers[r])
=============================================================================
