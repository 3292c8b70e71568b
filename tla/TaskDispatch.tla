---------------------------- MODULE TaskDispatch ----------------------------
(***************************************************************************)
(* The task process: task/queue.go, task/push.go, task/rpc.go and the      *)
(* start-up order of task/task.go.  One consumer goroutine pops the redis  *)
(* queue; it makes the calls of a room message itself, one server after    *)
(* the other, and hands a single message to one of the push channels,      *)
(* whose worker makes the call.  Another goroutine replaces the table of   *)
(* clients when etcd reports a change.                                     *)
(*                                                                         *)
(* Messages are numbered in the order logic pushed them.  Everyone is the  *)
(* destination of the three room operations; NoServer is the empty         *)
(* ServerId that logic publishes for a user without a route.               *)
(***************************************************************************)
EXTENDS Integers, Sequences, FiniteSets

CONSTANTS Servers, Everyone, NoServer,
          PushChan,      \* number of push channels (config)
          PushChanSize,  \* capacity of each (config)
          MaxMsgs,       \* bound on the messages pushed
          MaxLost        \* bound on the calls whose reply is lost

ASSUME SizesAssumption == {PushChan, PushChanSize} \subseteq Nat \ {0} /\ {MaxMsgs, MaxLost} \subseteq Nat
ASSUME DistinctAssumption == Everyone # NoServer /\ {Everyone, NoServer} \cap Servers = {}

Msgs  == 1 .. MaxMsgs
Chans == 1 .. PushChan

VARIABLES
    queue,          \* the redis list, oldest first
    dest,           \* what logic put into each message; its length counts the messages
    registered,     \* connect servers in etcd; they are the ones that are up
    ServerInsMap,   \* servers the task process has a client of
    run,            \* progress of Run: a label, or "started"
    services,       \* local of InitConnectRpcClient: services still to be added
    made,           \* push channels made so far: 1 .. made, the others are nil
    pushChannel,    \* contents of the push channels
    consumer, arg, target,  \* the consumer: label, message, channel (0 for nil)
    ids, rpcList,   \* its broadcast: map keys to visit, then clients to call
    worker, single, \* the worker of each channel: label, message
    panicked,       \* the task process has died
    got,            \* calls each connect server has executed, in order
    lost            \* replies lost so far

etcd    == <<registered, ServerInsMap>>
starts  == <<run, services, made>>
consume == <<consumer, arg, target, ids, rpcList>>
work    == <<worker, single>>
net     == <<got, lost>>
vars    == <<queue, dest, etcd, starts, pushChannel, consume, work, panicked, net>>

(* Everything of a process that has not been started, or has finished its start. *)
Idle ==
    /\ queue = <<>> /\ dest = <<>>
    /\ registered = Servers
    /\ services = {}
    /\ pushChannel = [c \in Chans |-> <<>>]
    /\ arg = 0 /\ target = 0 /\ ids = {} /\ rpcList = {}
    /\ single = [c \in Chans |-> 0]
    /\ panicked = FALSE
    /\ got = [s \in Servers |-> <<>>] /\ lost = 0

Init ==
    /\ Idle
    /\ run = "21" /\ ServerInsMap = {} /\ made = 0
    /\ consumer = "off" /\ worker = [c \in Chans |-> "off"]

InitStarted ==
    /\ Idle
    /\ run = "started" /\ ServerInsMap = Servers /\ made = PushChan
    /\ consumer = "32" /\ worker = [c \in Chans |-> "39"]

-----------------------------------------------------------------------------
(* Logic pushes a message: for the server of the receiver's route, for no server, or for
   everyone in a room. *)
Publish(d) ==
    /\ Len(dest) < MaxMsgs
    /\ dest' = Append(dest, d)
    /\ queue' = Append(queue, Len(dest'))
    /\ UNCHANGED <<etcd, starts, pushChannel, consume, work, panicked, net>>

(* A connect server stops, or comes (back) up; etcd knows at once, the task process when
   its watch goroutine gets round to it. *)
Register(s) ==
    /\ registered' = (registered \ {s}) \cup ({s} \ registered)
    /\ UNCHANGED <<queue, dest, ServerInsMap, starts, pushChannel, consume, work, panicked, net>>

-----------------------------------------------------------------------------
(* Run, line 21: InitQueueRedisClient starts the consumer goroutine. *)
StartConsumer ==
    /\ run = "21"
    /\ run' = "109"
    /\ consumer' = "32"
    /\ UNCHANGED <<queue, dest, etcd, services, made, pushChannel, arg, target, ids, rpcList,
                   work, panicked, net>>

(* InitConnectRpcClient asks etcd twice: without any service the process panics, then those
   there are by line 118 are added one by one. *)
CheckServices ==
    /\ run = "109"
    /\ IF registered = {} THEN panicked' = TRUE /\ UNCHANGED run
                          ELSE run' = "118" /\ UNCHANGED panicked
    /\ UNCHANGED <<queue, dest, etcd, services, made, pushChannel, consume, work, net>>

GetServices ==
    /\ run = "118"
    /\ services' = registered
    /\ run' = "154"
    /\ UNCHANGED <<queue, dest, etcd, made, pushChannel, consume, work, panicked, net>>

(* Lines 154-158 write the map without the lock.  A consumer that is ranging over it may
   make the Go runtime kill the process. *)
AddClient(s) ==
    /\ run = "154" /\ s \in services
    /\ ServerInsMap' = ServerInsMap \cup {s}
    /\ services' = services \ {s}
    /\ panicked' \in IF consumer = "64" THEN BOOLEAN ELSE {FALSE}
    /\ UNCHANGED <<queue, dest, registered, run, made, pushChannel, consume, work, net>>

(* Lines 26-32 of push.go: one channel and its worker after the other. *)
MakeChannel ==
    /\ run = "154" /\ services = {}
    /\ made' = made + 1
    /\ run' = IF made' = PushChan THEN "started" ELSE "154"
    /\ worker' = [worker EXCEPT ![made'] = "39"]
    /\ UNCHANGED <<queue, dest, etcd, services, pushChannel, consume, single, panicked, net>>

(* watchServicesChange, running from line 162 on, replaces the map. *)
WatchServicesChange ==
    /\ run \in {"154", "started"} /\ services = {}
    /\ ServerInsMap # registered
    /\ ServerInsMap' = registered
    /\ UNCHANGED <<queue, dest, registered, starts, pushChannel, consume, work, panicked, net>>

-----------------------------------------------------------------------------
(* Mutant: the list is popped at the end it is pushed at. *)
BLPop ==
    /\ consumer = "32" /\ queue # <<>>
    /\ queue' = SubSeq(queue, 1, Len(queue) - 1)
    /\ arg' = queue[Len(queue)]
    /\ IF dest[arg'] = Everyone
          THEN consumer' = "64" /\ ids' = ServerInsMap /\ UNCHANGED target
          ELSE /\ consumer' = "65"
               /\ \E c \in Chans : target' = IF c <= made THEN c ELSE 0
               /\ UNCHANGED ids
    /\ UNCHANGED <<dest, etcd, starts, pushChannel, rpcList, work, panicked, net>>

(* Consumer: BRPop takes the oldest message.  The switch of Push then either picks a
   channel at random, nil when it has not been made, or starts a broadcast. *)
BRPop ==
    /\ consumer = "32" /\ queue # <<>>
    /\ queue' = Tail(queue)
    /\ arg' = Head(queue)
    /\ IF dest[arg'] = Everyone
          THEN consumer' = "64" /\ ids' = ServerInsMap /\ UNCHANGED target
          ELSE /\ consumer' = "65"
               /\ \E c \in Chans : target' = IF c <= made THEN c ELSE 0
               /\ UNCHANGED ids
    /\ UNCHANGED <<dest, etcd, starts, pushChannel, rpcList, work, panicked, net>>

(* Mutant: a send that gives up when the channel is full. *)
SendSingleOrDrop ==
    /\ consumer = "65" /\ target # 0
    /\ pushChannel' = [pushChannel EXCEPT ![target] =
                           IF Len(@) < PushChanSize THEN Append(@, arg) ELSE @]
    /\ consumer' = "32" /\ arg' = 0 /\ target' = 0
    /\ UNCHANGED <<queue, dest, etcd, starts, ids, rpcList, work, panicked, net>>

(* The send blocks while the channel is full, and for ever when it is nil. *)
SendSingle ==
    /\ consumer = "65" /\ target # 0
    /\ Len(pushChannel[target]) < PushChanSize
    /\ pushChannel' = [pushChannel EXCEPT ![target] = Append(@, arg)]
    /\ consumer' = "32" /\ arg' = 0 /\ target' = 0
    /\ UNCHANGED <<queue, dest, etcd, starts, ids, rpcList, work, panicked, net>>

(* GetAllConnectTypeRpcClient ranges over the map it found; each client is looked up in
   the current one, and left out if its server has gone. *)
CollectClient(s) ==
    /\ consumer = "64" /\ s \in ids
    /\ ids' = ids \ {s}
    /\ rpcList' = IF s \in ServerInsMap THEN rpcList \cup {s} ELSE rpcList
    /\ UNCHANGED <<queue, dest, etcd, starts, pushChannel, consumer, arg, target, work, panicked, net>>

Collected ==
    /\ consumer = "64" /\ ids = {}
    /\ consumer' = "249"
    /\ UNCHANGED <<queue, dest, etcd, starts, pushChannel, arg, target, ids, rpcList, work, panicked, net>>

(* A call: a server that is up executes it, and again when the reply is lost (Failtry);
   the error of a server that is down is ignored. *)
Call(s, m) ==
    IF s \notin registered
       THEN UNCHANGED net
       ELSE \/ got' = [got EXCEPT ![s] = Append(@, m)] /\ UNCHANGED lost
            \/ /\ lost < MaxLost
               /\ lost' = lost + 1
               /\ got' = [got EXCEPT ![s] = @ \o <<m, m>>]

(* Mutant: the loop returns after its first call. *)
CallRoomFirst(s) ==
    /\ consumer = "249" /\ s \in rpcList
    /\ Call(s, arg)
    /\ rpcList' = {}
    /\ UNCHANGED <<queue, dest, etcd, starts, pushChannel, consumer, arg, target, ids, work, panicked>>

CallRoom(s) ==
    /\ consumer = "249" /\ s \in rpcList
    /\ Call(s, arg)
    /\ rpcList' = rpcList \ {s}
    /\ UNCHANGED <<queue, dest, etcd, starts, pushChannel, consumer, arg, target, ids, work, panicked>>

BroadcastDone ==
    /\ consumer = "249" /\ rpcList = {}
    /\ consumer' = "32" /\ arg' = 0
    /\ UNCHANGED <<queue, dest, etcd, starts, pushChannel, target, ids, rpcList, work, panicked, net>>

-----------------------------------------------------------------------------
(* Mutant: the message is read and stays in the channel. *)
PeekSingle(c) ==
    /\ worker[c] = "39" /\ pushChannel[c] # <<>>
    /\ single' = [single EXCEPT ![c] = Head(pushChannel[c])]
    /\ worker' = [worker EXCEPT ![c] = "221"]
    /\ UNCHANGED <<queue, dest, etcd, starts, pushChannel, consume, panicked, net>>

(* Worker of channel c. *)
TakeSingle(c) ==
    /\ worker[c] = "39" /\ pushChannel[c] # <<>>
    /\ single' = [single EXCEPT ![c] = Head(pushChannel[c])]
    /\ pushChannel' = [pushChannel EXCEPT ![c] = Tail(@)]
    /\ worker' = [worker EXCEPT ![c] = "221"]
    /\ UNCHANGED <<queue, dest, etcd, starts, consume, panicked, net>>

(* Line 221 logs that there is no client and line 227 calls through it all the same. *)
LookupClient(c) ==
    /\ worker[c] = "221"
    /\ IF dest[single[c]] \in ServerInsMap
          THEN worker' = [worker EXCEPT ![c] = "227"] /\ UNCHANGED panicked
          ELSE panicked' = TRUE /\ UNCHANGED worker
    /\ UNCHANGED <<queue, dest, etcd, starts, pushChannel, consume, single, net>>

CallSingle(c) ==
    /\ worker[c] = "227"
    /\ Call(dest[single[c]], single[c])
    /\ worker' = [worker EXCEPT ![c] = "39"]
    /\ single' = [single EXCEPT ![c] = 0]
    /\ UNCHANGED <<queue, dest, etcd, starts, pushChannel, consume, panicked>>

-----------------------------------------------------------------------------
Start        == StartConsumer \/ CheckServices \/ GetServices \/ (\E s \in Servers : AddClient(s)) \/ MakeChannel
ConsumerStep == BRPop \/ SendSingle \/ Collected \/ BroadcastDone
                \/ \E s \in Servers : CollectClient(s) \/ CallRoom(s)
WorkerStep(c) == TakeSingle(c) \/ LookupClient(c) \/ CallSingle(c)

Process == ~panicked /\ (Start \/ WatchServicesChange \/ ConsumerStep \/ \E c \in Chans : WorkerStep(c))

Next ==
    \/ Process
    \/ \E d \in Servers \cup {Everyone, NoServer} : Publish(d)
    \/ \E s \in Servers : Register(s)

Spec == Init /\ [][Next]_vars

(* Every goroutine that can run does. *)
Fairness ==
    /\ WF_vars(~panicked /\ Start) /\ WF_vars(~panicked /\ WatchServicesChange)
    /\ WF_vars(~panicked /\ ConsumerStep)
    /\ \A c \in Chans : WF_vars(~panicked /\ WorkerStep(c))

(* The steady state: the process has started, the servers are up and stay up, and every
   receiver has a route. *)
SteadyNext == Process \/ \E d \in Servers \cup {Everyone} : Publish(d)
SteadySpec == InitStarted /\ [][SteadyNext]_vars /\ Fairness

-----------------------------------------------------------------------------
(* Every variable has its type. *)
TypeOK ==
    /\ queue \in Seq(Msgs) /\ dest \in Seq(Servers \cup {Everyone, NoServer})
    /\ registered \subseteq Servers /\ ServerInsMap \subseteq Servers /\ services \subseteq Servers
    /\ run \in {"21", "109", "118", "154", "started"} /\ made \in 0 .. PushChan
    /\ pushChannel \in [Chans -> Seq(Msgs)]
    /\ consumer \in {"off", "32", "65", "64", "249"} /\ arg \in 0 .. MaxMsgs /\ target \in 0 .. PushChan
    /\ ids \subseteq Servers /\ rpcList \subseteq Servers
    /\ worker \in [Chans -> {"off", "39", "221", "227"}] /\ single \in [Chans -> 0 .. MaxMsgs]
    /\ panicked \in BOOLEAN
    /\ got \in [Servers -> Seq(Msgs)] /\ lost \in 0 .. MaxLost

(* Where the process or redis has message m, and how often a server has executed it. *)
At(place, seq, m) == {<<place, i>> : i \in {j \in DOMAIN seq : seq[j] = m}}
Places(m) == At(0, queue, m) \cup At(-1, <<arg>>, m) \cup At(-2, single, m)
             \cup UNION {At(c, pushChannel[c], m) : c \in Chans}
Received(s, m) == Cardinality(At(s, got[s], m))
Heard(s) == {got[s][i] : i \in {j \in DOMAIN got[s] : dest[got[s][j]] = Everyone}}

(* A message is in one place at a time.  One for a single user goes to the server it names
   and to no other; it has left the process when it arrives there, and it arrives once,
   unless the reply of a call was lost and the call repeated. *)
OneCopy ==
    \A m \in DOMAIN dest :
       /\ Cardinality(Places(m)) <= 1
       /\ \A s \in Servers :
             /\ Received(s, m) <= 1 + lost
             /\ dest[m] # Everyone /\ Received(s, m) > 0 => dest[m] = s /\ Places(m) = {}

(* Room messages reach each server in the order logic pushed them, whatever servers come
   and go and however the single messages between them are delayed. *)
RoomOrder ==
    \A s \in Servers : \A i, j \in DOMAIN got[s] :
       i <= j /\ dest[got[s][i]] = Everyone /\ dest[got[s][j]] = Everyone => got[s][i] <= got[s][j]

(* In the steady state servers differ by one room message at most, whichever replies were
   lost: what one has heard and another has not is the newest that either has heard. *)
SameRooms ==
    \A s, t \in Servers : \A m \in Heard(t) \ Heard(s) :
       \A k \in Heard(s) \cup Heard(t) : k <= m

(* The steady process delivers everything: single messages to their server, room messages
   to all servers (push.go:60, a room message is for everybody in the room), although full
   channels stop the consumer and with it the room messages. *)
Delivered ==
    \A m \in Msgs : m \in DOMAIN dest ~>
        (m \in DOMAIN dest /\ \A s \in Servers : dest[m] \in {s, Everyone} => Received(s, m) > 0)
=============================================================================
