# A formal model of yoyichat

TLA+ modules for the parts of yoyichat (Go) in which concurrency, crashes and
ordering decide whether the program is right, TLC configurations that check them
on small instances, and TLAPS proofs for every size about the room, the bucket, the TCP
server, broadcasts, presence, the task process and the rotation of rpc clients.  Paths are
relative to the repository; line numbers are those of its source.

## 1. The system

A client logs in over HTTP (`api`), opens a TCP or websocket connection to a
`connect` server, and sends messages over HTTP or TCP.  `logic` keeps sessions,
routes and rooms in redis and pushes messages to a redis list; `task` pops the
list and calls the `connect` servers, which write to the clients.

| component | state | operations | what makes it correct |
|---|---|---|---|
| connect/room.go | linked list of Channels, OnlineCount, drop, RWMutex | Put, Push, DeleteChannel | a broadcast reaches those inside, once; a dropped room is empty; count and list agree |
| connect/bucket.go | maps chs and rooms, 32 routines with queues | Put, DeleteChannel, Channel, Room, BroadcastRoom, PushRoom | the maps lead to the connections that exist and to no other; nobody is stranded in a room that is not in the map |
| connect/server.go, server_tcp.go | one read and one write goroutine per connection, send buffer of 512 | connect request, cleanup, writing, heartbeats | the cleanup removes what the registration made, and only that |
| connect/rpc.go | rpc client of logic, rpc server for task | Connect, DisConnect, PushSingleMsg, PushRoomMsg/Count/Info | a call that fails or is repeated leaves logic consistent |
| logic/rpc.go (presence) | redis: route of a user, users of a room, online count | Connect, DisConnect, Logout | a connected user is listed, routed and counted |
| logic/rpc.go (session), logic/dao | redis: session of a token, token of a user; users in SQLite | Register, Login, CheckAuth, Logout | one session per user; a token that was given out opens it, a logout ends it |
| logic/publish.go | redis list | LPush of four kinds of message | order |
| task | consumer, push channels and workers, table of clients | BRPop and dispatch, broadcast, etcd watch, start-up | everything popped is delivered, once and in order, and the process lives |
| api | HTTP server | HTTP handlers that call logic, behind a middleware that looks the token up; start and shutdown | an error is reported as one; the sender of a message is the owner of the token |
| pkg/stickpackage with the loop of server_tcp.go | buffer of a bufio.Scanner | Pack, Unpack, splitting, handling a message | messages come out as they went in, wherever TCP cuts the bytes; the loop ends, and then logic knows |
| main.go, the Run methods | packages' clients, rpc servers, listeners, etcd entries | start, listing in etcd, signals | nothing can be found or reached before what it uses is there |
| tools/redis.go | pool of connections | see Session | a command runs on the connection it was meant for |
| the rest of tools, config, db, client, pb | helpers, configuration, demo UI, generated code | | not modelled |

Interactions: `connect` calls `logic` (Connect before Bucket.Put, Bucket cleanup
before DisConnect); `logic` pushes to redis; `task` calls `connect`; `etcd` tells
`task` which connect servers there are.  Every `connect` process takes a new
ServerId when it starts (connect/connect.go), so a restarted server is a new one.

What is hard: DeleteChannel of Room and of Bucket write shared data under a READ
lock; presence is updated by sequences of redis commands without a transaction;
rpc calls are repeated when a reply is lost; a connect process dies on a failed
call (`Fatalf`); the task process starts its consumer before what it needs; a full
queue blocks and a full buffer drops; a redis transaction is sent command by command
through a pool of connections; TCP cuts packets anywhere and the length of one is an int16;
the goroutines of a start run beside each other.
`PROJECT.json` lists these hazards one by one, at their lines.

## 2. Modules

| module | models | state and actions |
|---|---|---|
| `Room` | connect/room.go | Variables have the names of the fields. Every load and store of DeleteChannel is an action and `pc` names its source line ("66w": the store of line 66). Lines 66 and 70 evaluate `ch.Next` and `ch.Prev` again after the tests of 64 and 68: they get the tested value or what memory holds by then, and a nil ends the process (`NilNext`, `NilPrev`). Put runs under the write lock and is one action after its lock is taken; a turn of Push's loop is an action. `rank`, `joins` (order of arrival) and `visited` are history variables. |
| `RoomMembership` | what a Room promises | The abstract specification: out, in, refused, left. `Room` implements it through `status`. |
| `Bucket` | connect/bucket.go and the read goroutine's life | `chs`, `rooms`, allocated Room objects with their lists. The map accesses of DeleteChannel (lines 105, 106, 108, 113, 114) are steps of their own, and so is each load and store of Room.DeleteChannel, called in line 110: cleanups hold read locks only and interleave in a list as well as in the maps. Room.Put runs under the write lock and is one step. `panicked` is the line of a nil dereference. History: `twice`, some user has had two sessions at a time; `overlap`, the Rooms in which DeleteChannel calls have overlapped; `refused`, the connections that met a dropped Room. |
| `Presence` | logic/rpc.go Connect, DisConnect, Logout | One redis command is one action. Connections open and close, replies are lost (`Retry`), servers die (`Crash`). |
| `TaskDispatch` | the task process | Its start, the consumer, broadcasts, push channels and workers, the watch goroutine, servers that come and go. |
| `RpcConnectClient` | task/rpc.go 39-60 | Rotation over the instances of a server, with IndexMap as a Go map. |
| `Broadcast` | connect/rpc.go Push*, Bucket.BroadcastRoom and PushRoom, Channel.Push, the write goroutines, Bucket.Put and DeleteChannel | A message is numbered when task pushes it and followed through the loop over the buckets (`call`), the queues of the routines, the walk of Room.Push, the send buffers and the sockets (`wire`). Connections come through `BucketPut` and `RoomPut`, which a dropped Room refuses, and go by `Leave` or, two at once, `LeaveTogether`, which damages their Room; either may take an entry with members from the map. `since` and `dropped` are history variables. |
| `Session` | api/router, api/handler, the rpc methods of logic they call, logic/dao, the pool of tools/redis.go | A request runs one endpoint; its `pc` is the line of logic/rpc.go of its next command. A command first takes a connection from the stack of idle ones (`Take`), then runs and puts it back. `redis` holds the sessions and the tokens, a connection the transaction it is in. |
| `StickPackage` | pkg/stickpackage | The int16 that counts a packet, with its wrapping and its two bytes. |
| `TcpReader` | readDataFromTcp | One TCP connection. `net` and `buf` are the bytes on their way and in the scanner, TCP delivers any number of them at a time (`Read`), `Token` cuts a packet out. `pc` is "scan", "handle", "put" or a step of the cleanup, which a panic runs through as well before it ends the process (`PanicEnds`); `joined` and `left` are the calls logic has executed. |
| `Main` | main.go, the Run methods of connect, logic and api | One process of any module: `run` is where its main goroutine stands, `ready` what it has initialised, `rpc` the goroutine of each rpc address, `listener` its socket. |
| `ConnectServer` | a connect_tcp process with a connection | Composes `Main` and `TcpReader` (INSTANCE): the connection exists when the listener is open, its panic or failed call ends the process, and a signal ends the connection in the middle. |
| `RoomProofs`, `BucketProofs`, `ConnectServerProofs`, `PresenceProofs`, `TaskDispatchProofs`, `BroadcastProofs`, `SessionProofs`, `RpcConnectClientProofs` | | Theorems about the module they are named after, section 4. |

Room, Bucket, Presence, TaskDispatch, RpcConnectClient, Broadcast, Session and ConnectServer
each have an `MC` module; those of Room, Bucket, Presence, TaskDispatch, RpcConnectClient and
Session define the symmetry of their runs without temporal properties.  Operators whose comment says "Mutant"
are not part of the model: each is a plausible bug in place of the definition
that follows it, and the run it belongs to fails with it (`PROJECT.json`,
"mutants").

### Abstractions

- Memory: aligned words are loaded and stored atomically and in program order.
  Reordering by the compiler or a store buffer can add that a goroutine sees its
  own store early; `TestCount`, where it matters, takes either value.  A race is
  undefined in Go beyond that; the model does not go there.
- In `Room`, `Bucket` and `Presence` a connection sends one connect request.  `TcpReader`
  has the second one; what it does to a list is in section 3.
- `TcpReader`: a message is its size and what its JSON says; its bytes are all alike, and
  none of them is the 'v' a packet begins with.  Byte is the number of values of a byte, 256
  in the code and 4 in the runs: an int16 then counts to 7.  A message that cannot be decoded
  is one kind, as is one without a token or without a room.  Writes of the server to the
  client are in `Broadcast`.
- `Main`: etcd and redis are up, ports may be taken.  A request of the api ends when it does.
- `Bucket`: one bucket.  A websocket connection reads its connect request and then only
  waits for the end (server.go 125-163), which is its whole life here.  A user id always hashes to the same one and buckets share
  nothing.  The concurrent map accesses that the Go runtime may answer by ending
  the process are interleaved and survive.
- `Presence`: every user has a name.  With an empty name line 331 takes the user
  for absent (Register leaves the name out of a new user's session, logic/rpc.go
  24-61), and each of its connections is counted.  Sessions and their expiry are
  not modelled; Logout is its effect on the route.
- `TaskDispatch`: rooms and payloads are left out, the three room operations are
  one kind of message, and there is one task process.  A call to a server that is
  down fails and is ignored (lines 227, 249); a lost reply repeats the call.
  etcd's view of the servers is immediate, the task process follows it late.
- `Broadcast`: the pointers of a list are `Room`'s and `Bucket`'s matter.  As long as no two
  cleanups of connections of a Room have overlapped, `Listed` of `Bucket` says that the list
  is those who came in and did not leave, which is `Members`.  After an overlap the Room is
  `damaged`: a walk may miss any connection, the mark may be up or not, the entry may stay or
  go.  A Room that is dropped refuses, and the cleanup of a refused connection, or one that was
  overtaken, takes the entry of its id from the map whatever Room that holds.  The panics of
  overlapping cleanups end the process and the behaviour with it.  A walk meets the connections
  of a list in any order, and passes over those that have left.  What a connection that has
  left was sent is forgotten.  Each connection is of a user of its own.  Writes
  to a client that does not read block for ever (in the code until the deadline of the
  websocket write); heartbeats are in `WriteFails`.  A task process makes one room call at
  a time; with two of them calls could mix in a bucket.
- `Session`: ids are names, a token is the request that got it, passwords are right or
  wrong.  user_name is UNIQUE in the database file shipped (db/yoyichat.db), so a second
  insert fails.  Nothing lives for the 24 hours after which keys expire.  The forms are
  bound.  The Redis and go-redis (v6.15.9, go.mod:11) behaviour is external: inside a
  MULTI the server answers QUEUED, which a GET takes for a value, HMSET, EXPIRE and SET for
  success, and DEL, HGETALL and LPUSH for a parse error that closes the connection; idle
  connections are a stack; one of 20 seconds is dropped when it is idle.  A lost call
  (`Lose`) is not executed; a repeated one (Failtry) is not modelled here.  The logic process
  may stop between any two commands (`LogicDies`): the requests it was at are lost, its
  connections are gone, redis keeps what it had, and it is not back before the api has given
  those requests up.
- Redis keeps running and loses nothing; its commands are atomic.

## 3. Runs

Every bound is a constant of its cfg or of the module's header.

| run | instance | what it shows |
|---|---|---|
| room (72 k states) | 2 connections, 2 pushers, fair scheduler | All interleavings of two DeleteChannel calls with two walks and with Put, to the nil dereferences too. `NoRepeatVisit`, `CountCovers`, `DropMeansEmpty`, `DropReported` and the refinement hold although the list itself gets damaged; the proofs cover any number of connections, of which three have deletes on both sides of one. `OperationsReturn`: unless a nil dereference of line 66 or 70 ends the process, every call returns; the lock and the moving list starve nobody. |
| room_serial (144 k states) | 4 connections, DeleteChannel calls that do not overlap | Then the list, the count and the mark are exact, and a walk that overlaps one DeleteChannel reaches everybody. |
| bucket (853 k states) | 3 connections, 3 users, 2 rooms, 2 Room objects | `NoStranger` under any overlap. As long as no user has two sessions at a time: `UserIndex`; `NoPanic`, line 106 finds its entry and the process dies only of overlapping deletes; `Listed` and `Forgotten` in the Rooms where none have overlapped, while other Rooms are being damaged; `RoomsInUse`. Three connections are enough for two that race while a third is in the list or registers, and two objects for a room that is made anew. |
| presence | 3 sessions, 2 users, 2 servers, 2 rooms (one with a non-positive id), 1 repeated call | Users with one session at a time are listed, routed and counted, through crashes. |
| presence_reconnect (violation) | without that restriction | A quick reconnect loses the user from its room. |
| task | 3 messages, 2 servers, 2 channels of size 1, 1 lost reply | `OneCopy` and `RoomOrder` from the start of the process, while servers come and go. |
| task_steady (147 k states) | 4 messages, 1 lost reply, the process started, servers up, all receivers routed | `Delivered`, `SameRooms`. With channels of size 1 four messages fill everything and block the consumer. |
| clients | 2 servers, 3 instances | `InRange` and `Rotates`. |
| broadcast (600 k states) | 2 buckets, 1 routine each with a queue of 1, 3 connections in one room of the second bucket with buffers of 1, one of which reads, 2 messages | Three connections are enough for two to leave at once while one stays, and for a Room that is dropped, refuses, and is replaced by one whose entry is then taken. `Accounted`: at most one copy, never astray; exactly one of a message that is owed (`Owed`: pushed since the connection came in, its Room still the one of the map and undamaged). `RoutineOrder`: order within a routine, here the only one; with two routines it takes three messages, which the theorem covers. `Reaches`: whoever is owed a message gets it or had a full buffer, and clients that do not read hold up nobody. |
| server (193 k states) | a process of each module, 1 rpc address, 2 HTTP requests; a TCP client with 2 messages of 1 to 16 bytes, of every kind, two of them too long for an int16 of 4-valued bytes | `InStep`: however the bytes are cut the messages come out whole, in order and without a gap, and only a long one ends the process. `LeavesRoom`, `ReaderEnds`, `PacketHandled`: the goroutine handles what has come, ends when the client closes, and has told logic by then. `ServesReady`, `Findable`: the goroutines of the start, in any order. 2 messages are enough for one that follows another in one read, and 20 bytes for a long one after a short one. |
| session (2.8 M states) | 3 requests, one overlap of two of register, login, logout, push; every endpoint without overlap; 1 dropped connection, lost call or stop of logic; 2 users | `LogoutHolds` and `SenderKnown` in every interleaving; `OneSession` and `LoginHolds` (with the connection dropped or logic stopped in the middle of a transaction) while requests do not overlap, `OneSession` if no logout was cut short and no login that had lost a connection. Three requests are a login, and two that race for its session, or three logins in a row. |
| session_pooled (violation) | the same | `TokenOpens`, which is `LoginHolds` without that restriction. |

`CHECK_DEADLOCK FALSE` is set where the system really stops: connections are used
once, messages are bounded, a process that has died stays dead.  `clients` has
no end and is checked for deadlock.

**Fairness.**  The Go scheduler runs a goroutine that can run: weak fairness for
each goroutine's steps.  Nobody is forced to connect, to disconnect, to broadcast
or to publish.  sync.RWMutex keeps new readers behind a waiting writer, which the
guards of `PushBegin` and `DeleteRLock` say; so a waiting Put becomes and stays
enabled, and weak fairness is enough.  In `task_steady` the start, the watch, the
consumer and each worker are fair; in `broadcast` the room call, each routine and the
writers of clients that read.  In `server` the main goroutine, the goroutine of each rpc
address, that of the listener and the one that reads the connection are fair, the last as
the kernel hands over in the end what a client has sent; the client, signals and requests
are not.

### Other disagreements met while modelling

They have no run of their own here.

- Two neighbours deleted at once each store the other as a link (room.go:66): a
  connection that has gone stays in the list.  `ListExact` of `room_serial` fails as soon
  as DeleteChannel calls overlap.  It takes two users of a room, no more, that leave at once.
- Line 66 of room.go evaluates `ch.Next` again after the test of line 64, as line 70 does
  `ch.Prev` after 68.  When the neighbour's DeleteChannel stores nil in between, the
  process ends in a nil dereference (`Running` of `Room` fails; `DeletesDoNotPanic` needs
  calls that do not overlap).
- So a room message misses connections that are in: one whose Room has lost it from the
  list (room.go:66, 70), or is no more in the map (bucket.go:114).  `Accounted` fails when
  `Owed` does not leave them out.
- A cleanup that was overtaken, or that of a refused connection, deletes by its id a room
  that has been created anew and has members (bucket.go:114), also with one session per
  user.
- A single message popped before the push channels are made blocks the consumer for ever
  on a nil channel (task.go:21, push.go:65); task/queue.go:28 promises an endless loop.
- Two overlapping decrements (room.go:74) lose one, also with one session per user; the
  empty room is never marked and stays in the map.  A Push that overlaps two DeleteChannel calls can miss a member.
- Two cleanups of one user's connections: line 106 of bucket.go dereferences nil; and
  the cleanup of an old connection removes the entry of the user's new one, because
  line 105 reassigns `ch`.
- DisConnect repeated after a lost reply subtracts twice (logic/rpc.go:349), and two
  DisConnects of one user can leave a count of -1.
- Two DisConnects can push their room lists in the other order (logic/rpc.go:362, 366).
- The route is not removed by DisConnect and holds one server: after the connection
  that set it last is closed it may miss the one that is left.
- A message for a user without a route ends the task process (task/rpc.go:221, 227);
  a room message popped during the start goes to the clients added so far.
- With two connect servers the index of one is reset by a call to the other
  (task/rpc.go:46): README.md:16 promises rotation.
- Two registrations of one name that overlap both succeed when the second reaches
  dao/user.go:29 after the first has inserted its row: it is given the id of that row, with
  its own password never stored.  logic/rpc.go:29 means to refuse the second.
- Register stores the name of an empty record (logic/rpc.go:47), so the middleware refuses
  the token it hands out (router.go:74).
- Two logins of one user that overlap leave two sessions; a login that fails at EXEC has
  already ended the session before it (logic/rpc.go:87).
- A push between another request's MULTI and EXEC takes "QUEUED" for the name of the
  receiver's server (logic/rpc.go:199).
- When the call to logic fails, the zero reply code is that of success (api/rpc/rpc.go
  54-130): a logout that did not happen is answered "logout ok!", a push whose second
  CheckAuth was lost is published with sender 0.
- The length of a packet is wrong for a message of 32 764 bytes or more (stickpackage.go:48):
  when it comes out less than 4 the slice or the make of the reader panics
  (server_tcp.go:153, stickpackage.go:34) and the connect process ends with all its
  connections; else the rest of the message is read as if it came after the packet.
- A second connect request puts a channel into a list it may head already: it becomes its
  own `Next` and Push never ends (server.go:158, room.go:33).  When it names another room
  logic is told of both and, at the end, of the last one only (server_tcp.go:123).
- The error of Serve is thrown away (connect/rpc.go:207): a server whose rpc port is taken
  stays listed in etcd and hears nothing.  An api whose port is taken logs it and goes on
  (chat.go:56).
- The channel of signal.Notify has no buffer (main.go:39, chat.go:68): a signal between the
  call and the receive is lost.  Requests that take longer than five seconds are cut
  (chat.go:76).
- A logic process that stops between lines 161 and 177 of logic/rpc.go leaves a session that
  no later login finds: two sessions of one user.  So does one that stops between lines 93
  and 95 of a login whose connection was dropped after MULTI (redis.go:34 drops those older than 20
  seconds): line 93 has then written the session at once, on another connection.
- Room messages that follow each other go to different routines of a bucket and may reach
  a connection in the other order (bucket.go:131), although task sends them in order.

## 4. Proofs

Eight modules hold theorems.  Each is for every value of the constants that its module's
assumptions allow, and any number of steps: what a run checks on a small instance, under the
same name.  Assumptions are named in the modules; TLC evaluates them in the runs.

### RoomProofs

Assumptions: `Nil` is not a connection (`NilAssumption`) and the connections are finitely
many (`FiniteAssumption`, for cardinalities).

| theorem | states |
|---|---|
| `TypeCorrect` | `Spec => []TypeOK` |
| `OrderCorrect` | `Spec => []OrderInv` |
| `NoRepeat` | `Spec => []NoRepeatVisit` |
| `CountCorrect` | `Spec => []CountInv` |
| `CountNeverShort` | `Spec => []CountCovers` |
| `DropOnlyEmpty` | `Spec => []DropMeansEmpty` |
| `DropIsReported` | `Spec => []DropReported` |
| `RoomImplements` | `Spec => Implements` (Room refines RoomMembership) |
| `DeletesDoNotPanic` | `SerialSpec => []Running` |
| `CountIsExact` | `SerialSpec => []OnlineCountExact` |
| `LastOneDrops` | `SerialSpec => []EmptyRoomDropped` |
| `NobodyIsMissed` | `SerialSpec => []EveryMemberPushed` |
| `ListIsExact` | `SerialSpec => []ListExact` |

*Why walks do not repeat.*  The list can be damaged by racing stores, so no
statement about its shape is inductive.  `OrderInv` says that every link, in memory
or in a register, leads from a connection to one that arrived earlier, for `next`,
and later, for `prev`, and that a pusher's cursor is older than all it has visited.
Damage preserves that: whatever is stored where, age still decreases along `next`.

*Why the count is never short.*  Decrements get lost, increments never: Put runs
alone.  `CountInv` bounds the memory value from below by the number of members and
each register from below by the number of members it was read for; a lost decrement
only leaves the count higher.  When a count of zero is seen nobody is inside and,
under the read lock, nobody can enter before the mark is up.  From that follow the
meaning of the mark, and the refinement: Refuse happens only when the mark is up,
and a connection that was refused keeps the mark up for ever after.

*Why all is exact when DeleteChannel calls do not overlap.*  `SerialSpec` implies `Spec`, so
the invariants above hold.  `SerialCount`: the count in a register is the one in memory, less
or more the decrement under way, and OnlineCount is no more than the members; with `CountInv`
it is their number, and whoever takes it to zero is on the way to the mark.  `SerialLinks` is
about the connections the list holds (`Listed`: the members, and the one being deleted until
its last link is gone): no two have one `rank`; `next` and `prev` undo each other, except
around the one that is `Bypassed`; from the head, or from any later arrival, even one that
has left with its own `next` still in place, the next stop is no older than any listed
connection (`NoneSkipped`); and what a walk has not visited it has still before it
(`NoneMissed`).  So a walk misses nobody, although it may stand on a connection while that
is deleted.

*Why the list is exact.*  `Chain` is a walk of the list.  By `SerialLinks` it never leaves the
listed connections, gets older with each stop, and therefore ends within as many stops as
there are connections; and it passes every one, or it would end after a connection that is
younger than the one it misses.

### BucketProofs

Assumptions: `Nil` and `NoRoom` are outside the sets they complete (`NilAssumption`,
`NoRoomAssumption`), and the connections are finitely many (`FiniteAssumption`).

| theorem | states |
|---|---|
| `TypeCorrect` | `Spec => []TypeOK` |
| `IndexCorrect` | `Spec => [](TypeInv /\ IndexInv)` |
| `UserIsIndexed` | `Spec => []UserIndex` |
| `CleanupNeverPanics` | `Spec => []NoPanic` |
| `BroadcastsStayInRoom` | `Spec => []NoStranger` |
| `ListIsComplete` | `Spec => []Listed` |
| `NothingIsLeft` | `Spec => []Forgotten` |
| `RoomsAreInUse` | `Spec => []RoomsInUse` |

*Why the cleanup finds its entry again.*  Lines 104 to 108 look a user up twice without a
lock that keeps others out.  `IndexInv` says what that relies on: while no user has had two
sessions at a time, a user's connection is the only one that is not closed, and its entry
is its own from line 88 until its own delete at line 108.  The other part of `NoPanic` is
`DiedInv`: in a Room without overlap a register still holds what memory holds (`RegOf`), so
lines 66 and 70 find what was tested.

*Why a broadcast ends and stays in its room.*  Two cleanups of one user can delete a connection
from a list twice, or after others were put in, and leave links nobody would draw.  `ChainInv`
is what survives: links stay among the connections of one Room (`LinkInv`), and the
connections can be ranked such that `Next_` leads down and `Prev` up (`AgeInv`).  A new head gets a
rank above all others; a delete shortens a path.  A walk that always goes down is over after
as many stops as there are connections (`FS_CardinalityType`, pigeonholes).

*Why the lists are complete where nothing overlapped.*  With one session per user each cleanup
finds its own connection (`IndexInv`), so it is deleted once, from the Room it is in.  `ListInv`
is about the Rooms outside `overlap`: at most one connection of it is in Room.DeleteChannel
(`Alone`), and there is a way back `B` through the list that `Next_` undoes and `Prev` agrees with,
but for the stop behind the one that leaves once line 66 is done (`Ordered`, `Half`); OnlineCount
is the number of those linked, with the decrement under way, and the mark follows it (`CountOf`).
Steps in another Room change nothing here: links stay among the connections of one Room
(`LinkInv`), however damaged that one is (`RoomKept`, `DeleteElsewhere`).  If a walk missed a linked
connection, take the missed one of the highest rank: its `B` is met, and so is it
(`ReachedIsLinked`).

*Why rooms in the map are in use.*  `MapInv`: a Room is in the map under its own id, and when it is
dropped some cleanup is at line 80, 113 or 114 to take it out; and by `ListInv` an open one that
nobody is linked in is about to be entered (`OpenOf`).  *Why a room with somebody inside is in the
map.*  `KeptInv`, for an id none of whose Rooms was disturbed: whoever is on the way from line 74
to line 114 holds the read lock of the bucket, so no Put makes a new Room under the id
meanwhile, and the entry it takes is that of the empty Room it marked.

### ConnectServerProofs

Assumptions: a byte has an even number of values, four or more (`ByteAssumption`);
`MessagesAssumption`, `BoundsAssumption`.  The number of values is 256 in the code.

| theorem | states |
|---|---|
| `StreamCorrect` | `Spec => []StreamInv` |
| `OnlyLongMessagesPanic` | `Spec => []Tcp!OnlyLongPanics`, the second part of `InStep` |
| `MessagesInStep` | `Spec => []InStep` |
| `RoomIsLeft` | `Spec => []LeavesRoom` |
| `ReadyWhenServed` | `Spec => []ServesReady` |
| `ConnectionIsTcpReader` | `Spec => Tcp!Spec`: the process refines the connection |

*Why only long messages panic.*  A slice fails when the length in front of it is negative,
or less than the header.  `StreamInv` says that wherever a packet begins, in the buffer or
on its way, its third and fourth byte are the length of a message that was sent (a close may
cut the last packet short).  `PackageLengthIsInt16` and the lemmas after it are the arithmetic of
two bytes in two's complement: of a message that fits, the length that comes out is the size
with the header.

*Why messages come out in order.*  `HandledInv`: the reader is `Synced` or `Lost`.  While it is in
step there are `Offsets`, the lengths of what the packets before each message take together, and
the bytes in the buffer and on their way are those of the packets behind the ones handled
(`Carries`).  A packet that is cut whole moves on by one.  One whose length wrapped is cut too
short: its bytes are no JSON, and what is left begins inside it, with bytes that are no
version, so nothing is found from then on; likewise at the end of a stream that was closed in
the middle of a packet.  An empty packet is well formed but no JSON, and is logged and skipped
(server_tcp.go:182), so `InStep` is about streams without one.

*Why the room is left.*  `JoinInv` follows the one Connect that was executed through Put to
the cleanup: from the reply on the channel carries the room, whichever way the loop ends.

*Why a listed server is ready.*  `LifeInv` says what each position of the main goroutine has
behind it, and that the goroutines it starts exist only from their position on.

### PresenceProofs

| theorem | states |
|---|---|
| `TypeCorrect` | `Spec => []TypeOK` |
| `PresenceCorrect` | `OneSessionSpec => []PresenceInv` |
| `LiveIsListed` | `OneSessionSpec => []LiveListed` |
| `LiveIsRouted` | `OneSessionSpec => []LiveRouted` |
| `CountIsExact` | `OneSessionSpec => []CountExact` |

*Why a user stays listed.*  With one session at a time no other handler of the user runs
(`NoOther`), so from HSET on only the session itself takes it out again (`ListedInv`), and
from SET on the route is its own or gone by a logout (`RoutedInv`).  *Why the count is
exact.*  HSET and INCR are two commands, as are DECR and HDEL; between them one user of the
room is `Pending`.  `CountInv`: without a repeated call the count is the number of users in
the hash that are not.

### TaskDispatchProofs

| theorem | states |
|---|---|
| `TypeCorrect` | `Spec => []TypeOK` |
| `RoomsInOrder` | `Spec => []RoomOrder` |
| `MessagesAreNotCopied` | `Spec => []OneCopy` |
| `RoomsAlike` | `SteadySpec => []SameRooms` |

*Why servers hear room messages in order.*  The consumer is one goroutine and makes the calls
itself.  `OrderInv`: the queue is in order, single messages in the push channels are no room messages,
and no server has got a room message newer than the one in the consumer's hand or as new as
one in the queue; a lost reply repeats the one in the hand.

*Why a message is in one place.*  `HeldInv`: what a channel or a worker holds was popped
(`Popped`: older than the queue and than the hand), is in no other channel, and not in a
worker as well.  `ArrivedInv`: a server has a message twice only in a row and after a lost
reply; a single message it has got was for it and is held nowhere; it has not got the message
under way while it is still to be called.  `StartInv` keeps the consumer off until Run starts it.

*Why servers hear the same.*  A broadcast collects the clients of line 64 and calls them all before
the next message is popped.  `RoundInv` says that it leaves nobody out while the table stays as it
is, `AlikeInv` that but for the message in the consumer's hand what one server has heard all
have.  By `OrderInv` nothing heard is newer than that message.

### BroadcastProofs

Assumptions: sizes are positive, connections have places, names of connections and rooms
differ (`SizesAssumption`, `PlacesAssumption`, `TargetsAssumption`).

| theorem | states |
|---|---|
| `TypeCorrect` | `Spec => []TypeOK` |
| `OrderCorrect` | `Spec => []OrderInv` |
| `RoutinesKeepOrder` | `Spec => []RoutineOrder` |
| `MessagesAccounted` | `Spec => []Accounted` |

*Why a routine keeps order.*  `TurnInv` ties the counter of a bucket to the number of room
messages pushed so far, one less while the message under way is still to come there; so the
routine that takes a message is `RoutineOf` it in every bucket.  `QueueInv` and `WalkInv`: a
queue is in order, older than what is to come and newer than what the routine walks.
`RoomsInv` says that a Room serves one room of one bucket and a walk is of the room of its
message; what is still to be met (`todo`) is a set, as by `NoStranger` and `NoRepeatVisit` no
walk goes round; `GotInv` that
what a connection has got, or lost to a full buffer, is older than all its routine has for it;
`LineInv` that it came in order.  Joining, refusing, leaving, damage, dropping and failing
writes only take messages away.

*Why there is one copy of a message.*  `AccountInv` adds to `OrderInv` that what a connection
has is distinct and was not dropped (`OnceInv`) and was for it (`AddressInv`), that a walk is over
those who were in its Room when it began (`HereInv`), and that a message somebody is owed is
somewhere (`ThereInv`): pushing a room message puts it in the call, and each step hands it on, to
the queue, the walk, the buffer and the client.  The routine finds the Room of whoever is owed the
message, because that is the one of the map (`Owed`, bucket.go:57).  A step can end that somebody
is owed a message, by an overlap of cleanups or by taking the entry away; it never begins again:
a Room that is not the one of the map does not become it (`PutOwed`, `LeaveOwed`).  `OnePlace`: it is in one of these only.  By `QueueInv` and `WalkInv` what is to come is
newer than what is queued, and that newer than what is walked; by `GotInv` what has arrived or
was dropped is older than all of them, so no message is in two.  The routine it goes through is
one, `RoutineOf` it, and from there the counts of `Accounted` are 0 or 1.

### SessionProofs

Assumptions: the requests are finitely many (`RequestsAssumption`), the bounds are numbers, the
kinds are endpoints, `Nil` and `Queued` are neither requests nor names, and `Nil` is no connection
and no session (`BoundsAssumption`, `KindsAssumption`, `ValuesAssumption`, `NilAssumption`).  Any
number of requests overlap, on a pool of any size, with any number of faults.

| theorem | states |
|---|---|
| `TypeCorrect` | `Spec => []TypeOK` |
| `SessionCorrect` | `Spec => []SessionInv` |
| `LogoutIsFinal` | `Spec => []LogoutHolds` |
| `SenderIsKnown` | `Spec => []SenderKnown` |
| `SerialCorrect` | `Spec => [](SessionInv /\ SerialInv)` |
| `OneSessionAtATime` | `Spec => []OneSession` |
| `LoginsHold` | `Spec => []LoginHolds` |

*Why a logout is final.*  A login queues the write of its session in a MULTI that may go to
another request with its connection, be executed by it, or stay on an idle one.  `PoolInv`: the
write is queued on one connection at most, and only once its request is past it.  `DataInv`: a
session that is in redis is `Settled`, its write is queued nowhere and will not come again.  So
a logout that found it (`LogoutOf`) deletes it for good.  *Why senders are known.*  `PoolInv` and
`DataInv` also say whose session it is, that of the user its request logged in, so each of the two
lookups of a push finds that user or nothing (`SenderOf`).

*Requests one at a time.*  `SerialInv` holds while `overlaps` is 0, and never comes back once it
is not.  `SerialPool`: one request is active, and the only connection in a MULTI is its own, in
its hand or on top of the stack, with all it has sent (`Sent`) queued; if a connection was dropped
there may be none, and the request's commands after that are done at once.  `TokenInv`: a stored
token is that of a login of its user that has passed line 95, a login or logout has read what is
still so, and a login that succeeded, whose token is stored and was not read by a later one, has
its full session (`OpensOf`).  That is `LoginHolds`: EXEC outside a MULTI is an error, so success
means that the queue was replayed (`ReplayOfSent`).  `SingleInv`: the token of each session with a
name is stored, but while its login is between lines 93 and 95 or its logout between 161 and 177,
and from line 92 on a login finds no other session of its user.  With nobody active that is
`OneSession`.  A stop of logic takes a request out of those lines: in a login the session is then
still queued (`QueuedIsAbsent`) and forgotten with the connection, unless a connection was
dropped before; hence `Spared`.

EXEC is `Replay`, what the queued commands come to, in place of a recursion over the queue that
the provers could not follow; `ReplayAppliesInOrder` of `MCSession` compares the two for all
queues of up to three commands.

### RpcConnectClientProofs

Holds for every set of servers and any number of instances.

| theorem | states |
|---|---|
| `ClientsCorrect` | `Spec => []Inv`, the inductive invariant |
| `IndexInRange` | `Spec => []InRange` |
| `CallsRotate` | `Spec => []Rotates` |

*Why calls rotate.*  A stored index may belong to a longer table, so "the stored index
follows the one used" is not invariant as it stands.  `MovesOn` says what line 52 will make
of it: modulo the length of the table it is not the last one returned.  That rests on
`NextIndex`: in a table of more than one entry, neighbours have different remainders.

### Model-checked only

Liveness (`OperationsReturn`, `ReaderEnds`, `PacketHandled`, `Findable`, `Reaches`, `Delivered`), which
is beyond the prover.  Every invariant and action property of a passing run is a theorem.

### Recursion and induction

`Chain` of Room and `Walk` of Bucket follow a list by a recursive function over the numbers.  The
library's induction theorems take an operator, which the provers here cannot instantiate.  The
proofs do without: `FS_StrictSubsetOrderingWellFounded` and `WFMin`, which take none, give
every set of numbers a least one (`LeastNumber`), hence an induction over predicates given as sets
(`Induction`); by it a function with the recursive equation exists (`WalkExists`), and the
function that the model chooses by that equation has it.

## 5. Not modelled

- `client`: Client.Run is empty, nothing starts the terminal UI.  `pb` is generated.
- `config`, `db`: read files and open the database, once, before anything else.
- The address parser and the third-party hash of `tools`; the lock that GetRedisInstance
  keeps when it returns a client it has (redis.go:28): every process asks once.
- The binding of HTTP forms, the text of replies, logging.
- Repeated calls of logic in `Session`, the expiry of keys, failures of redis and etcd.

## 6. Plan

Done, in this order: Room with RoomMembership and RoomProofs, Bucket, Presence,
TaskDispatch, RpcConnectClient, Broadcast, Session; then StickPackage, TcpReader, Main and
ConnectServer, the stops of logic in Session, and the proofs of Presence, TaskDispatch,
ConnectServer, Broadcast, Bucket and
Session.  What is left:

1. `Delivery`: Presence, TaskDispatch and Broadcast composed, against an abstract
   specification "a message goes to a connection of the receiver or is lost".
2. `Session`: repeated calls, an abstract specification of sessions that the serial
   histories implement.
