------------------------------ MODULE Broadcast ------------------------------
(***************************************************************************)
(* How a message gets from the rpc server of a connect process to the      *)
(* clients: connect/rpc.go PushSingleMsg and PushRoomMsg/Count/Info,       *)
(* Bucket.BroadcastRoom, the routines of a bucket (Bucket.PushRoom),       *)
(* Channel.Push and the write goroutine of each connection; beside them    *)
(* Bucket.Put and Bucket.DeleteChannel, which change the rooms.            *)
(*                                                                         *)
(* A room message goes to every bucket in turn; each bucket hands it to    *)
(* the next of its routines, whose queue may be full, and the routine      *)
(* looks the Room object up and pushes the message into the send buffer of *)
(* every connection of its list, where it is dropped when that is full.    *)
(* Messages are numbered as they come.  One task process makes one room    *)
(* call at a time (module TaskDispatch).                                   *)
(*                                                                         *)
(* The pointers of a list and its count are those of module Bucket.  Of    *)
(* the Room objects this module keeps what that shows of them: as long as  *)
(* no two cleanups of connections of an object overlapped, its list holds  *)
(* the connections put into it that are still there, and the last one to   *)
(* leave marks it.  After such an overlap the object is damaged: its walks *)
(* may miss anybody, its mark may be set or not, its entry of the map may  *)
(* go or stay.  The panics of module Bucket end the process, and with it   *)
(* the behaviour.  No two connections are of one user.                     *)
(***************************************************************************)
EXTENDS Integers, Sequences, FiniteSets

CONSTANTS Conns, Rooms, None,
          Bucket, RoomOf, \* of each connection: the bucket its user hashes to, the room it joins
          Reading,        \* the connections whose client reads; the write to another one blocks
          NumBuckets,     \* Server.Buckets (config)
          RoutineAmount, RoutineSize,   \* BucketOptions (config)
          BroadcastSize,  \* ServerOptions (config)
          MaxMsgs         \* bound on the messages pushed

ASSUME ReadingAssumption == Reading \subseteq Conns
ASSUME SizesAssumption == {NumBuckets, RoutineAmount, RoutineSize, BroadcastSize} \subseteq Nat \ {0}
ASSUME MsgsAssumption == MaxMsgs \in Nat

Buckets  == 1 .. NumBuckets

ASSUME PlacesAssumption == Bucket \in [Conns -> Buckets] /\ RoomOf \in [Conns -> Rooms]
ASSUME TargetsAssumption == Conns \cap Rooms = {} /\ None \notin Conns

Routines == Buckets \X (0 .. RoutineAmount - 1)
Msgs     == 1 .. MaxMsgs
Objs     == Conns       \* a Room object is named after the connection whose Put makes it

VARIABLES
    rooms,          \* Bucket.rooms: the object of each room of each bucket
    Room,           \* Channel.Room
    state,          \* of each connection: "new", "putting" (before the Put into its Room),
                    \* "in", "refused" (by a dropped Room), "left"
    drop,           \* Room.drop
    damaged,        \* objects two of whose connections have cleaned up at once
    since,          \* history, of each connection: how many messages had been pushed when it joined
    target,         \* of each message so far: a room, or the connection of the user addressed
    call,           \* the room call: its message (0 for none) and the bucket it is at
    routinesNum,    \* of each bucket, modulo RoutineAmount
    routines,       \* the queue of each routine
    push,           \* the walk of each routine: its message, its Room and, once it holds the
                    \* lock of that, the connections to come
    broadcast,      \* send buffer of each connection
    writer,         \* its write goroutine: "up", "down"
    wire,           \* what the client has been sent, in order
    dropped         \* history: what Channel.Push has dropped for it

life == <<rooms, Room, state, drop, damaged, since>>
fan  == <<call, routinesNum, routines, push>>
out  == <<writer, wire>>
vars == <<life, target, fan, broadcast, out, dropped>>

NoCall   == [msg |-> 0, at |-> 0]
Idle     == [msg |-> 0, room |-> None, todo |-> {}]
Place(c) == <<Bucket[c], RoomOf[c]>>
Put(c)   == state[c] \in {"in", "refused"}          \* Bucket.Put has returned
Registered(c) == Put(c) \/ state[c] = "putting"     \* Bucket.chs has the connection
Members(o)    == {c \in Conns : state[c] = "in" /\ Room[c] = o}
Walk(w, todo) == IF todo = {} THEN Idle ELSE [w EXCEPT !.todo = todo]

Init ==
    /\ rooms = [p \in Buckets \X Rooms |-> None]
    /\ Room = [c \in Conns |-> None]
    /\ state = [c \in Conns |-> "new"]
    /\ drop = [o \in Objs |-> FALSE]
    /\ damaged = {}
    /\ since = [c \in Conns |-> 0]
    /\ target = <<>>
    /\ call = NoCall
    /\ routinesNum = [b \in Buckets |-> 0]
    /\ routines = [i \in Routines |-> <<>>]
    /\ push = [i \in Routines |-> Idle]
    /\ broadcast = [c \in Conns |-> <<>>]
    /\ writer = [c \in Conns |-> "up"]
    /\ wire = [c \in Conns |-> <<>>]
    /\ dropped = [c \in Conns |-> {}]

-----------------------------------------------------------------------------
(* Bucket.Put under the lock of the bucket: the Room of the map, or a new one. *)
BucketPut(c) ==
    /\ state[c] = "new"
    /\ LET o == IF rooms[Place(c)] = None THEN c ELSE rooms[Place(c)]
       IN  rooms' = [rooms EXCEPT ![Place(c)] = o] /\ Room' = [Room EXCEPT ![c] = o]
    /\ state' = [state EXCEPT ![c] = "putting"]
    /\ UNCHANGED <<drop, damaged, since, target, fan, broadcast, out, dropped>>

(* Room.Put.  It takes the lock of the Room, which a walk of Room.Push holds. *)
RoomPut(c) ==
    /\ state[c] = "putting"
    /\ \A i \in Routines : push[i].todo # {} => push[i].room # Room[c]
    /\ \/ /\ drop[Room[c]] \/ Room[c] \in damaged
          /\ state' = [state EXCEPT ![c] = "refused"]
          /\ UNCHANGED since
       \/ /\ ~drop[Room[c]] \/ Room[c] \in damaged
          /\ state' = [state EXCEPT ![c] = "in"]
          /\ since' = [since EXCEPT ![c] = Len(target)]
    /\ UNCHANGED <<rooms, Room, drop, damaged, target, fan, broadcast, out, dropped>>

(* The connections of S have left.  Nothing can be seen of them any more: what they were sent
   is forgotten. *)
Gone(S) ==
    /\ state' = [c \in Conns |-> IF c \in S THEN "left" ELSE state[c]]
    /\ Room' = [c \in Conns |-> IF c \in S THEN None ELSE Room[c]]
    /\ since' = [c \in Conns |-> IF c \in S THEN 0 ELSE since[c]]
    /\ broadcast' = [c \in Conns |-> IF c \in S THEN <<>> ELSE broadcast[c]]
    /\ wire' = [c \in Conns |-> IF c \in S THEN <<>> ELSE wire[c]]
    /\ dropped' = [c \in Conns |-> IF c \in S THEN {} ELSE dropped[c]]
    /\ UNCHANGED <<target, fan, writer>>

(* Bucket.DeleteChannel while no other connection of the Room cleans up.  When nobody is left
   in the Room it is marked, and the entry of its id goes from the map, whatever Room that
   holds by then. *)
Leave(c) ==
    LET o == Room[c] IN
    /\ Put(c) /\ o \notin damaged
    /\ IF Members(o) \subseteq {c}
          THEN /\ drop' = [drop EXCEPT ![o] = TRUE]
               /\ rooms' = [rooms EXCEPT ![Place(c)] = None]
          ELSE UNCHANGED <<drop, rooms>>
    /\ UNCHANGED damaged
    /\ Gone({c})

(* Two connections of one Room clean up at once, or one does in a damaged Room. *)
LeaveTogether(c, d) ==
    LET o == Room[c] IN
    /\ Put(c) /\ Put(d) /\ Room[d] = o
    /\ c # d \/ o \in damaged
    /\ damaged' = damaged \cup {o}
    /\ rooms' \in {rooms, [rooms EXCEPT ![Place(c)] = None]}
    /\ UNCHANGED drop
    /\ Gone({c, d})

-----------------------------------------------------------------------------
(* Channel.Push: the message is dropped when the buffer is full. *)
ChannelPush(c, m) ==
    IF Len(broadcast[c]) < BroadcastSize
       THEN broadcast' = [broadcast EXCEPT ![c] = Append(@, m)] /\ UNCHANGED dropped
       ELSE dropped' = [dropped EXCEPT ![c] = @ \cup {m}] /\ UNCHANGED broadcast

(* PushSingleMsg.  For a user without a channel it does nothing, and reports success. *)
PushSingleMsg(c) ==
    /\ Len(target) < MaxMsgs
    /\ Registered(c)
    /\ target' = Append(target, c)
    /\ ChannelPush(c, Len(target'))
    /\ UNCHANGED <<life, fan, out>>

(* PushRoomMsg, PushRoomCount and PushRoomInfo: the loop over the buckets begins. *)
PushRoomMsg(r) ==
    /\ call = NoCall
    /\ Len(target) < MaxMsgs
    /\ target' = Append(target, r)
    /\ call' = [msg |-> Len(target'), at |-> 1]
    /\ UNCHANGED <<life, routinesNum, routines, push, broadcast, out, dropped>>

(* Mutants: a send that gives up when the queue is full; one in a goroutine of its own, so
   that the sends that wait go in any order. *)
BroadcastRoomOrDrop ==
    LET num == (routinesNum[call.at] + 1) % RoutineAmount
        i   == <<call.at, num>>
    IN  /\ call # NoCall
        /\ routinesNum' = [routinesNum EXCEPT ![call.at] = num]
        /\ routines' = [routines EXCEPT ![i] = IF Len(@) < RoutineSize THEN Append(@, call.msg) ELSE @]
        /\ call' = IF call.at = NumBuckets THEN NoCall ELSE [call EXCEPT !.at = @ + 1]
        /\ UNCHANGED <<life, target, push, broadcast, out, dropped>>

BroadcastRoomAsync ==
    LET num == (routinesNum[call.at] + 1) % RoutineAmount
        i   == <<call.at, num>>
    IN  /\ call # NoCall
        /\ routinesNum' = [routinesNum EXCEPT ![call.at] = num]
        /\ \E queue \in {Append(routines[i], call.msg), <<call.msg>> \o routines[i]} :
              routines' = [routines EXCEPT ![i] = queue]
        /\ call' = IF call.at = NumBuckets THEN NoCall ELSE [call EXCEPT !.at = @ + 1]
        /\ UNCHANGED <<life, target, push, broadcast, out, dropped>>

(* BroadcastRoom takes the next routine of the bucket; the send waits while its queue is
   full. *)
BroadcastRoom ==
    LET num == (routinesNum[call.at] + 1) % RoutineAmount
        i   == <<call.at, num>>
    IN  /\ call # NoCall
        /\ Len(routines[i]) < RoutineSize
        /\ routinesNum' = [routinesNum EXCEPT ![call.at] = num]
        /\ routines' = [routines EXCEPT ![i] = Append(@, call.msg)]
        /\ call' = IF call.at = NumBuckets THEN NoCall ELSE [call EXCEPT !.at = @ + 1]
        /\ UNCHANGED <<life, target, push, broadcast, out, dropped>>

(* Bucket.PushRoom takes a message and looks the Room up. *)
TakeFromQueue(i) ==
    /\ push[i] = Idle /\ routines[i] # <<>>
    /\ LET m == Head(routines[i])
           o == rooms[<<i[1], target[m]>>]
       IN  push' = [push EXCEPT ![i] = IF o = None THEN Idle
                                       ELSE [msg |-> m, room |-> o, todo |-> {}]]
    /\ routines' = [routines EXCEPT ![i] = Tail(@)]
    /\ UNCHANGED <<life, target, call, routinesNum, broadcast, out, dropped>>

(* Room.Push has the lock: the walk is over those who are in now. *)
PushRLock(i) ==
    /\ push[i] # Idle /\ push[i].todo = {}
    /\ push' = [push EXCEPT ![i] = Walk(@, Members(@.room))]
    /\ UNCHANGED <<life, target, call, routinesNum, routines, broadcast, out, dropped>>

(* Mutant: the walk ends at the first connection that cannot take the message. *)
PushNextOrStop(i) ==
    \E c \in push[i].todo :
       /\ state[c] = "in" /\ ChannelPush(c, push[i].msg)
       /\ push' = [push EXCEPT ![i] = Walk(@, IF Len(broadcast[c]) = BroadcastSize THEN {} ELSE @.todo \ {c})]
       /\ UNCHANGED <<life, target, call, routinesNum, routines, out>>

(* Room.Push reaches a connection, unless that has left since or the list has lost it. *)
PushNext(i) ==
    \E c \in push[i].todo :
       /\ \/ state[c] = "in" /\ ChannelPush(c, push[i].msg)
          \/ /\ state[c] = "left" \/ push[i].room \in damaged
             /\ UNCHANGED <<broadcast, dropped>>
       /\ push' = [push EXCEPT ![i] = Walk(@, @.todo \ {c})]
       /\ UNCHANGED <<life, target, call, routinesNum, routines, out>>

-----------------------------------------------------------------------------
(* writePump and writeDataToTcp: the message is written. *)
Write(c) ==
    /\ c \in Reading /\ Registered(c) /\ writer[c] = "up"
    /\ broadcast[c] # <<>>
    /\ wire' = [wire EXCEPT ![c] = Append(@, Head(broadcast[c]))]
    /\ broadcast' = [broadcast EXCEPT ![c] = Tail(@)]
    /\ UNCHANGED <<life, target, fan, writer, dropped>>

(* The write of a message, or of a heartbeat when there is none, fails and the goroutine
   returns.  Nobody empties the buffer from then on. *)
WriteFails(c) ==
    /\ c \in Reading /\ Registered(c) /\ writer[c] = "up"
    /\ writer' = [writer EXCEPT ![c] = "down"]
    /\ broadcast' = [broadcast EXCEPT ![c] = IF @ = <<>> THEN @ ELSE Tail(@)]
    /\ UNCHANGED <<life, target, fan, wire, dropped>>

-----------------------------------------------------------------------------
RoutineStep(i) == TakeFromQueue(i) \/ PushRLock(i) \/ PushNext(i)

Next ==
    \/ \E c \in Conns : BucketPut(c) \/ RoomPut(c) \/ Leave(c)
    \/ \E c, d \in Conns : LeaveTogether(c, d)
    \/ \E c \in Conns : PushSingleMsg(c) \/ Write(c) \/ WriteFails(c)
    \/ \E r \in Rooms : PushRoomMsg(r)
    \/ BroadcastRoom
    \/ \E i \in Routines : RoutineStep(i)

Spec == Init /\ [][Next]_vars

(* The call, every routine, and the writers of the reading clients run when they can; nothing
   is asked of the others. *)
FairSpec ==
    /\ Spec
    /\ WF_vars(BroadcastRoom)
    /\ \A i \in Routines : WF_vars(RoutineStep(i))
    /\ \A c \in Reading : WF_vars(Write(c))

-----------------------------------------------------------------------------
(* Every variable has its type. *)
TypeOK ==
    /\ rooms \in [Buckets \X Rooms -> Objs \cup {None}]
    /\ Room \in [Conns -> Objs \cup {None}]
    /\ state \in [Conns -> {"new", "putting", "in", "refused", "left"}]
    /\ drop \in [Objs -> BOOLEAN] /\ damaged \subseteq Objs
    /\ target \in Seq(Conns \cup Rooms)
    /\ since \in [Conns -> 0 .. MaxMsgs]
    /\ call \in [msg : 0 .. MaxMsgs, at : 0 .. NumBuckets]
    /\ routinesNum \in [Buckets -> 0 .. RoutineAmount - 1]
    /\ routines \in [Routines -> Seq(Msgs)]
    /\ push \in [Routines -> [msg : 0 .. MaxMsgs, room : Objs \cup {None}, todo : SUBSET Conns]]
    /\ broadcast \in [Conns -> Seq(Msgs)] /\ \A c \in Conns : Len(broadcast[c]) <= BroadcastSize
    /\ writer \in [Conns -> {"up", "down"}]
    /\ wire \in [Conns -> Seq(Msgs)]
    /\ dropped \in [Conns -> SUBSET Msgs]

(* Connection c is owed message m: one to its user, while the bucket has it; one to its room
   that was pushed after it came in, while its Room is the one of the map and undamaged. *)
Owed(c, m) ==
    /\ m \in DOMAIN target
    /\ \/ target[m] = c /\ Registered(c)
       \/ /\ target[m] = RoomOf[c] /\ state[c] = "in" /\ since[c] < m
          /\ rooms[Place(c)] = Room[c] /\ Room[c] \notin damaged

(* Where message m is on its way to connection c. *)
Count(seq, m) == Cardinality({k \in DOMAIN seq : seq[k] = m})
Mine(c)   == {i \in Routines : i[1] = Bucket[c]}
Coming(c) == IF call # NoCall /\ call.at <= Bucket[c] THEN {call.msg} ELSE {}
Queued(c, m)  == Cardinality({i \in Mine(c) : Count(routines[i], m) > 0})
Ahead(i, c)   == c \in push[i].todo \/ (push[i].todo = {} /\ push[i].room = Room[c])
Walking(c, m) == Cardinality({i \in Mine(c) : push[i].msg = m /\ Ahead(i, c)})
Copies(c, m)  == Count(wire[c] \o broadcast[c], m) + (IF m \in dropped[c] THEN 1 ELSE 0)

(* A message reaches nobody but the user or the room it is for, and nobody twice, whatever
   becomes of the rooms.  A connection that is owed one (in the Room of the map since before
   the push, and no two cleanups of that Room have overlapped) has got it, will get it, or
   has lost it to a full buffer: there is exactly one copy of it on the way, as long as the
   writer runs. *)
Accounted ==
    \A c \in Conns : \A m \in DOMAIN target :
       LET pending == (IF m \in Coming(c) THEN 1 ELSE 0) + Queued(c, m) + Walking(c, m)
       IN  /\ Copies(c, m) <= 1
           /\ Copies(c, m) = 1 => target[m] \in {c, RoomOf[c]}
           /\ Owed(c, m) /\ writer[c] = "up" => Copies(c, m) + pending = 1

(* The routine of a bucket that room message m goes through: they take turns. *)
RoutineOf(m) == Cardinality({k \in 1 .. m : target[k] \in Rooms}) % RoutineAmount

(* Room messages that share a routine, RoutineAmount apart, reach a connection in the order
   they were pushed; others may overtake each other. *)
RoutineOrder ==
    \A c \in Conns : LET s == wire[c] \o broadcast[c] IN
       \A j, k \in DOMAIN s :
          /\ j < k
          /\ {target[s[j]], target[s[k]]} \subseteq Rooms
          /\ RoutineOf(s[j]) = RoutineOf(s[k])
          => s[j] < s[k]

(* A connection gets every message it is owed, or its buffer was full: when no more messages
   come there is a time after which nothing is under way. *)
Reaches ==
    <>[](\A c \in Reading : \A m \in Msgs :
           Owed(c, m) /\ writer[c] = "up" => m \in dropped[c] \/ Count(wire[c], m) = 1)
=============================================================================
