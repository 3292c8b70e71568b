------------------------ MODULE TaskDispatchProofs ------------------------
(***************************************************************************)
(* Theorems about TaskDispatch, for any servers, channels and messages.    *)
(***************************************************************************)
EXTENDS TaskDispatch, FiniteSetTheorems, TLAPS

USE DEF etcd, starts, consume, work, net

LEMMA Sizes == PushChan \in Nat /\ PushChan # 0 /\ MaxMsgs \in Nat /\ MaxLost \in Nat
BY SizesAssumption

(* What Append, \o, Head and Tail make of a list of messages is a list of messages. *)
LEMMA MsgLists ==
    \A s \in Seq(Msgs) :
       /\ \A m \in Msgs : Append(s, m) \in Seq(Msgs) /\ s \o <<m, m>> \in Seq(Msgs)
       /\ s # <<>> => Head(s) \in Msgs /\ Tail(s) \in Seq(Msgs)
OBVIOUS

(* A goroutine that has a message in its hands has a message that was pushed, and the loop
   that makes the channels has not made them all. *)
InHand ==
    /\ consumer \in {"65", "64", "249"} => arg # 0
    /\ \A c \in Chans : worker[c] \in {"221", "227"} => single[c] # 0
    /\ run # "started" => made < PushChan

TypeInv == TypeOK /\ InHand

LEMMA TypeInit == Init \/ InitStarted => TypeInv
<1> SUFFICES ASSUME Init \/ InitStarted PROVE TypeInv
  OBVIOUS
<1>0. Idle /\ (Init \/ InitStarted)
  BY DEF Init, InitStarted
<1>1. /\ run \in {"21", "started"} /\ (run # "started" => made < PushChan) /\ made \in 0 .. PushChan
      /\ ServerInsMap \subseteq Servers /\ consumer \in {"off", "32"}
  BY <1>0, Sizes DEF Init, InitStarted
<1>2. worker \in [Chans -> {"off", "39"}]
  <2>1. \E label \in {"off", "39"} : worker = [c \in Chans |-> label]
    BY <1>0 DEF Init, InitStarted
  <2> QED
    BY <2>1
<1>3. InHand
  BY <1>1, <1>2 DEF InHand
<1>4. queue \in Seq(Msgs) /\ dest \in Seq(Servers \cup {Everyone, NoServer})
  BY <1>0 DEF Idle
<1>5. arg \in 0 .. MaxMsgs /\ target \in 0 .. PushChan /\ lost \in 0 .. MaxLost /\ 0 \in 0 .. MaxMsgs
  BY <1>0, Sizes DEF Idle
<1>6. pushChannel \in [Chans -> Seq(Msgs)] /\ got \in [Servers -> Seq(Msgs)] /\ single \in [Chans -> 0 .. MaxMsgs]
  BY <1>0, <1>5 DEF Idle
<1>7. TypeOK
  BY <1>0, <1>1, <1>2, <1>4, <1>5, <1>6 DEF TypeOK, Idle
<1> QED
  BY <1>3, <1>7 DEF TypeInv

(* Only calls touch what the servers have got. *)
LEMMA CallKeeps ==
    ASSUME TypeOK, NEW s, NEW m \in Msgs, Call(s, m)
    PROVE  got' \in [Servers -> Seq(Msgs)] /\ lost' \in 0 .. MaxLost
<1>1. CASE s \notin registered
  BY <1>1 DEF Call, TypeOK
<1>2. CASE s \in registered
  <2>1. got[s] \in Seq(Msgs)
    BY <1>2 DEF TypeOK
  <2>2. Append(got[s], m) \in Seq(Msgs) /\ got[s] \o <<m, m>> \in Seq(Msgs)
    BY <2>1, MsgLists
  <2>3. CASE got' = [got EXCEPT ![s] = Append(@, m)] /\ UNCHANGED lost
    BY <2>2, <2>3 DEF TypeOK
  <2>4. CASE lost < MaxLost /\ lost' = lost + 1 /\ got' = [got EXCEPT ![s] = @ \o <<m, m>>]
    <3>1. got' \in [Servers -> Seq(Msgs)]
      BY <2>2, <2>4 DEF TypeOK
    <3>2. lost' \in 0 .. MaxLost
      BY <2>4, Sizes DEF TypeOK
    <3> QED
      BY <3>1, <3>2
  <2> QED
    BY <1>2, <2>3, <2>4 DEF Call
<1> QED
  BY <1>1, <1>2

LEMMA StartKeeps ==
    ASSUME TypeInv, Start
    PROVE  TypeInv'
<1> USE DEF TypeInv, TypeOK, InHand, Chans
<1>1. CASE StartConsumer
  BY <1>1 DEF StartConsumer
<1>2. CASE CheckServices
  BY <1>2 DEF CheckServices
<1>3. CASE GetServices
  BY <1>3 DEF GetServices
<1>4. ASSUME NEW s \in Servers, AddClient(s) PROVE TypeInv'
  BY <1>4 DEF AddClient
<1>5. CASE MakeChannel
  BY <1>5, Sizes DEF MakeChannel
<1> QED
  BY <1>1, <1>2, <1>3, <1>4, <1>5 DEF Start

LEMMA ConsumerKeeps ==
    ASSUME TypeInv, ConsumerStep
    PROVE  TypeInv'
<1> USE DEF TypeInv, TypeOK, InHand
<1>1. CASE BRPop
  <2>1. Head(queue) \in Msgs /\ Tail(queue) \in Seq(Msgs)
    BY <1>1, MsgLists DEF BRPop
  <2>2. target' \in 0 .. PushChan
    BY <1>1, Sizes, SMTT(20) DEF BRPop, Chans
  <2> QED
    BY <1>1, <2>1, <2>2, SMTT(20) DEF BRPop, Msgs
<1>2. CASE SendSingle
  <2>1. arg \in Msgs
    BY <1>2, Sizes DEF SendSingle, Msgs
  <2>2. target \in Chans
    BY <1>2, Sizes DEF SendSingle, Chans
  <2>3. pushChannel[target] \in Seq(Msgs)
    BY <2>2
  <2>4. Append(pushChannel[target], arg) \in Seq(Msgs)
    BY <2>1, <2>3, MsgLists
  <2> QED
    BY <1>2, <2>2, <2>4, Sizes, SMTT(20) DEF SendSingle
<1>3. CASE Collected
  BY <1>3 DEF Collected
<1>4. CASE BroadcastDone
  BY <1>4, Sizes DEF BroadcastDone
<1>5. ASSUME NEW s \in Servers, CollectClient(s) PROVE TypeInv'
  BY <1>5 DEF CollectClient
<1>6. ASSUME NEW s \in Servers, CallRoom(s) PROVE TypeInv'
  <2>1. arg \in Msgs
    BY <1>6, Sizes DEF CallRoom, Msgs
  <2>2. got' \in [Servers -> Seq(Msgs)] /\ lost' \in 0 .. MaxLost
    BY <1>6, <2>1, CallKeeps DEF CallRoom
  <2> QED
    BY <1>6, <2>2 DEF CallRoom
<1> QED
  BY <1>1, <1>2, <1>3, <1>4, <1>5, <1>6 DEF ConsumerStep

LEMMA WorkerKeeps ==
    ASSUME TypeInv, NEW c \in Chans, WorkerStep(c)
    PROVE  TypeInv'
<1> USE DEF TypeInv, TypeOK, InHand
<1>1. CASE TakeSingle(c)
  <2>1. pushChannel[c] \in Seq(Msgs) /\ pushChannel[c] # <<>>
    BY <1>1 DEF TakeSingle
  <2>2. Head(pushChannel[c]) \in Msgs /\ Tail(pushChannel[c]) \in Seq(Msgs)
    BY <2>1, MsgLists
  <2>3. Head(pushChannel[c]) \in 0 .. MaxMsgs /\ Head(pushChannel[c]) # 0
    BY <2>2, Sizes DEF Msgs
  <2>4. pushChannel' \in [Chans -> Seq(Msgs)] /\ single' \in [Chans -> 0 .. MaxMsgs]
    BY <1>1, <2>2, <2>3 DEF TakeSingle
  <2> QED
    BY <1>1, <2>3, <2>4 DEF TakeSingle
<1>2. CASE LookupClient(c)
  BY <1>2 DEF LookupClient
<1>3. CASE CallSingle(c)
  <2>1. single[c] \in Msgs
    BY <1>3, Sizes DEF CallSingle, Msgs
  <2>2. got' \in [Servers -> Seq(Msgs)] /\ lost' \in 0 .. MaxLost
    BY <1>3, <2>1, CallKeeps DEF CallSingle
  <2> QED
    BY <1>3, <2>2, Sizes DEF CallSingle
<1> QED
  BY <1>1, <1>2, <1>3 DEF WorkerStep

LEMMA TypeStep == TypeInv /\ [Next]_vars => TypeInv'
<1> SUFFICES ASSUME TypeInv, [Next]_vars PROVE TypeInv'
  OBVIOUS
<1>1. CASE Start
  BY <1>1, StartKeeps
<1>2. CASE WatchServicesChange
  BY <1>2 DEF WatchServicesChange, TypeInv, TypeOK, InHand
<1>3. CASE ConsumerStep
  BY <1>3, ConsumerKeeps
<1>4. ASSUME NEW c \in Chans, WorkerStep(c) PROVE TypeInv'
  BY <1>4, WorkerKeeps
<1>5. ASSUME NEW d \in Servers \cup {Everyone, NoServer}, Publish(d) PROVE TypeInv'
  <2>1. dest' \in Seq(Servers \cup {Everyone, NoServer}) /\ Len(dest') \in Msgs
    BY <1>5, Sizes DEF Publish, TypeInv, TypeOK, Msgs
  <2>2. queue' \in Seq(Msgs)
    BY <1>5, <2>1, MsgLists DEF Publish, TypeInv, TypeOK
  <2> QED
    BY <1>5, <2>1, <2>2 DEF Publish, TypeInv, TypeOK, InHand
<1>6. ASSUME NEW s \in Servers, Register(s) PROVE TypeInv'
  BY <1>6 DEF Register, TypeInv, TypeOK, InHand
<1>7. CASE UNCHANGED vars
  BY <1>7 DEF vars, TypeInv, TypeOK, InHand
<1> QED
  BY <1>1, <1>2, <1>3, <1>4, <1>5, <1>6, <1>7 DEF Next, Process

(* Every variable keeps its type from the start of the process on: no goroutine works on a
   message that is not there, and the index of a channel stays within those there are. *)
THEOREM TypeCorrect == Spec => []TypeOK
<1> QED
  BY TypeInit, TypeStep, PTL DEF Spec, TypeInv
-----------------------------------------------------------------------------
(***************************************************************************)
(* The order of room messages                                              *)
(***************************************************************************)

(* The queue is in the order of the pushes and behind the message of the consumer. *)
QueueInv ==
    /\ \A i \in DOMAIN queue : queue[i] \in DOMAIN dest /\ arg < queue[i]
    /\ \A i, j \in DOMAIN queue : i < j => queue[i] < queue[j]
    /\ arg # 0 => arg \in DOMAIN dest

(* Room messages are in the hands of the consumer alone, while it broadcasts. *)
SinglesInv ==
    /\ consumer \in {"64", "249"} => dest[arg] = Everyone
    /\ consumer = "65" => dest[arg] # Everyone
    /\ \A c \in Chans : \A i \in DOMAIN pushChannel[c] :
          pushChannel[c][i] \in DOMAIN dest /\ dest[pushChannel[c][i]] # Everyone
    /\ \A c \in Chans : single[c] # 0 => single[c] \in DOMAIN dest /\ dest[single[c]] # Everyone

(* The room messages a server has got are older than those in the queue, and no newer than
   the one under way. *)
GotInv ==
    \A s \in Servers : \A i \in DOMAIN got[s] :
       /\ got[s][i] \in DOMAIN dest
       /\ dest[got[s][i]] = Everyone =>
             /\ arg # 0 => got[s][i] <= arg
             /\ \A k \in DOMAIN queue : got[s][i] < queue[k]

OrderInv == TypeInv /\ QueueInv /\ SinglesInv /\ GotInv /\ RoomOrder

LEMMA OrderInit == Init \/ InitStarted => OrderInv
<1> SUFFICES ASSUME Init \/ InitStarted PROVE OrderInv
  OBVIOUS
<1>1. /\ DOMAIN queue = {} /\ arg = 0 /\ consumer \in {"off", "32"}
      /\ \A c \in Chans : DOMAIN pushChannel[c] = {} /\ single[c] = 0
      /\ \A s \in Servers : DOMAIN got[s] = {}
  BY DEF Init, InitStarted, Idle
<1>2. QueueInv
  BY <1>1 DEF QueueInv
<1>3. SinglesInv
  BY <1>1 DEF SinglesInv
<1>4. GotInv /\ RoomOrder
  BY <1>1 DEF GotInv, RoomOrder
<1> QED
  BY <1>2, <1>3, <1>4, TypeInit DEF OrderInv

(* The oldest message leaves a queue in order in order. *)
LEMMA TailInOrder ==
    \A s \in Seq(Msgs) : s # <<>> =>
       /\ 1 \in DOMAIN s /\ Head(s) = s[1]
       /\ \A i \in DOMAIN Tail(s) : i + 1 \in DOMAIN s /\ i + 1 > 1 /\ Tail(s)[i] = s[i + 1]
OBVIOUS

LEMMA AppendEntries ==
    \A s \in Seq(Msgs) : \A m \in Msgs :
       /\ \A i \in DOMAIN Append(s, m) :
            \/ i \in DOMAIN s /\ Append(s, m)[i] = s[i]
            \/ i = Len(s) + 1 /\ Append(s, m)[i] = m
       /\ \A i \in DOMAIN s : i \in Nat /\ i <= Len(s)
<1> TAKE s \in Seq(Msgs)
<1> TAKE m \in Msgs
<1>1. DOMAIN s = 1 .. Len(s) /\ Len(s) \in Nat /\ DOMAIN Append(s, m) = 1 .. Len(s) + 1
  OBVIOUS
<1>2. \A i \in DOMAIN s : Append(s, m)[i] = s[i]
  OBVIOUS
<1>3. Append(s, m)[Len(s) + 1] = m
  OBVIOUS
<1> QED
  BY <1>1, <1>2, <1>3

(* A message is a number from 1 on. *)
LEMMA Positive == \A s \in Seq(Msgs) : \A i \in DOMAIN s : s[i] \in Msgs /\ s[i] > 0
<1>1. \A m \in Msgs : m > 0
  BY Sizes DEF Msgs
<1> QED
  BY <1>1

LEMMA TwiceEntries ==
    \A s \in Seq(Msgs) : \A m \in Msgs :
       \A i \in DOMAIN (s \o <<m, m>>) :
          \/ i \in DOMAIN s /\ (s \o <<m, m>>)[i] = s[i]
          \/ i > Len(s) /\ (s \o <<m, m>>)[i] = m
OBVIOUS

(* What a call leaves with a server: what it had, and behind it the message of the call. *)
LEMMA CallAppends ==
    ASSUME TypeOK, NEW t, NEW m \in Msgs, Call(t, m), NEW s \in Servers
    PROVE  \A i \in DOMAIN got'[s] :
              \/ i \in DOMAIN got[s] /\ got'[s][i] = got[s][i]
              \/ i \notin DOMAIN got[s] /\ got'[s][i] = m /\ \A j \in DOMAIN got[s] : j < i
<1>1. got[s] \in Seq(Msgs) /\ got \in [Servers -> Seq(Msgs)]
  BY DEF TypeOK
<1>2. got'[s] = got[s] \/ got'[s] = Append(got[s], m) \/ got'[s] = got[s] \o <<m, m>>
  BY <1>1 DEF Call
<1>3. CASE got'[s] = got[s]
  BY <1>3
<1>4. CASE got'[s] = Append(got[s], m)
  BY <1>1, <1>4
<1>5. CASE got'[s] = got[s] \o <<m, m>>
  BY <1>1, <1>5
<1> QED
  BY <1>2, <1>3, <1>4, <1>5

(* Steps that neither move a message nor make the consumer turn to another one. *)
LEMMA OrderKept ==
    ASSUME QueueInv, SinglesInv, GotInv, RoomOrder,
           UNCHANGED <<queue, dest, arg, pushChannel, single, got>>,
           consumer' \in {consumer, "32"} \/ (consumer = "64" /\ consumer' = "249")
    PROVE  QueueInv' /\ SinglesInv' /\ GotInv' /\ RoomOrder'
<1>1. QueueInv' /\ GotInv' /\ RoomOrder'
  BY DEF QueueInv, GotInv, RoomOrder
<1>2. SinglesInv'
  BY DEF SinglesInv
<1> QED
  BY <1>1, <1>2

(* A message of which no newer room message has been got may be called. *)
LEMMA OrderOfCall ==
    ASSUME TypeOK, GotInv, RoomOrder, UNCHANGED <<dest, queue>>, NEW t, NEW m \in Msgs, Call(t, m),
           m \in DOMAIN dest,
           dest[m] = Everyone => m = arg /\ m # 0 /\ \A k \in DOMAIN queue : m < queue[k],
           arg' = arg
    PROVE  GotInv' /\ RoomOrder'
<1>1. GotInv'
  <2> SUFFICES ASSUME NEW s \in Servers, NEW i \in DOMAIN got'[s]
               PROVE  /\ got'[s][i] \in DOMAIN dest
                      /\ dest[got'[s][i]] = Everyone =>
                            /\ arg # 0 => got'[s][i] <= arg
                            /\ \A k \in DOMAIN queue : got'[s][i] < queue[k]
    BY DEF GotInv
  <2>1. CASE i \in DOMAIN got[s] /\ got'[s][i] = got[s][i]
    BY <2>1 DEF GotInv
  <2>2. CASE got'[s][i] = m
    BY <2>2 DEF Msgs
  <2> QED
    BY <2>1, <2>2, CallAppends
<1>2. RoomOrder'
  <2> SUFFICES ASSUME NEW s \in Servers, NEW i \in DOMAIN got'[s], NEW j \in DOMAIN got'[s], i <= j,
                      dest[got'[s][i]] = Everyone, dest[got'[s][j]] = Everyone
               PROVE  got'[s][i] <= got'[s][j]
    BY DEF RoomOrder
  <2>1. CASE j \in DOMAIN got[s] /\ got'[s][j] = got[s][j]
    <3>1. i \in DOMAIN got[s] /\ got'[s][i] = got[s][i]
      <4>1. i \in Nat /\ j \in Nat
        BY CallKeeps
      <4> QED
        BY <2>1, <4>1, CallAppends
    <3> QED
      BY <2>1, <3>1 DEF RoomOrder
  <2>2. CASE got'[s][j] = m
    <3>1. got'[s][i] <= arg
      BY <1>1, <2>2 DEF GotInv
    <3> QED
      BY <2>2, <3>1
  <2> QED
    BY <2>1, <2>2, CallAppends
<1> QED
  BY <1>1, <1>2

LEMMA PublishOrder ==
    ASSUME OrderInv, NEW d \in Servers \cup {Everyone, NoServer}, Publish(d)
    PROVE  QueueInv' /\ SinglesInv' /\ GotInv' /\ RoomOrder'
<1> USE DEF OrderInv, TypeInv
<1>1. /\ DOMAIN dest' = DOMAIN dest \cup {Len(dest')} /\ Len(dest') \notin DOMAIN dest /\ Len(dest') \in Msgs
      /\ \A m \in DOMAIN dest : dest'[m] = dest[m] /\ m < Len(dest')
  BY Sizes DEF Publish, TypeOK, Msgs
<1>2. queue \in Seq(Msgs) /\ queue' = Append(queue, Len(dest'))
  BY DEF Publish, TypeOK
<1>3. UNCHANGED <<arg, consumer, pushChannel, single, got>>
  BY DEF Publish
<1>4. \A i \in DOMAIN queue' :
         \/ i \in DOMAIN queue /\ queue'[i] = queue[i]
         \/ i = Len(queue) + 1 /\ queue'[i] = Len(dest')
  BY <1>1, <1>2, AppendEntries
<1>5. QueueInv'
  <2>1. ASSUME NEW i \in DOMAIN queue' PROVE queue'[i] \in DOMAIN dest' /\ arg < queue'[i]
    <3>1. CASE i \in DOMAIN queue /\ queue'[i] = queue[i]
      BY <1>1, <3>1 DEF QueueInv
    <3>2. CASE queue'[i] = Len(dest')
      BY <1>1, <3>2 DEF QueueInv, Msgs
    <3> QED
      BY <1>4, <3>1, <3>2
  <2>2. ASSUME NEW i \in DOMAIN queue', NEW j \in DOMAIN queue', i < j PROVE queue'[i] < queue'[j]
    <3>1. i \in DOMAIN queue /\ queue'[i] = queue[i]
      BY <1>2, <1>4, <2>2
    <3> QED
      BY <1>1, <1>4, <2>2, <3>1 DEF QueueInv
  <2> QED
    BY <1>1, <1>3, <2>1, <2>2 DEF QueueInv
<1>6. SinglesInv'
  <2>1. consumer \in {"64", "65", "249"} => arg \in DOMAIN dest
    BY DEF QueueInv, InHand
  <2> QED
    BY <1>1, <1>3, <2>1, ZenonT(60) DEF SinglesInv
<1>7. GotInv'
  BY <1>1, <1>3, <1>4 DEF GotInv
<1>8. RoomOrder'
  BY <1>1, <1>3, ZenonT(60) DEF RoomOrder, GotInv
<1> QED
  BY <1>5, <1>6, <1>7, <1>8

LEMMA ConsumerOrder ==
    ASSUME OrderInv, ConsumerStep
    PROVE  QueueInv' /\ SinglesInv' /\ GotInv' /\ RoomOrder'
<1> USE DEF OrderInv, TypeInv
<1> DEFINE Goal == QueueInv' /\ SinglesInv' /\ GotInv' /\ RoomOrder'
<1>1. CASE BRPop
  <2>1. queue \in Seq(Msgs) /\ queue # <<>> /\ queue' = Tail(queue) /\ arg' = Head(queue)
    BY <1>1 DEF BRPop, TypeOK
  <2>2. UNCHANGED <<dest, pushChannel, single, got>>
    BY <1>1 DEF BRPop
  <2>3. arg' = queue[1] /\ 1 \in DOMAIN queue /\ arg' \in Msgs
    BY <2>1, MsgLists, TailInOrder
  <2>4. \A i \in DOMAIN queue' : i + 1 \in DOMAIN queue /\ i + 1 > 1 /\ queue'[i] = queue[i + 1]
    BY <2>1, TailInOrder
  <2>5. \A i, j \in DOMAIN queue' : i < j => i + 1 < j + 1
    BY <2>1
  <2>6. QueueInv'
    BY <2>2, <2>3, <2>4, <2>5 DEF QueueInv
  <2>7. SinglesInv'
    <3>1. /\ consumer' \in {"64", "65"}
          /\ consumer' = "64" <=> dest[arg'] = Everyone
      BY <1>1 DEF BRPop
    <3> QED
      BY <2>2, <3>1 DEF SinglesInv
  <2>8. GotInv'
    <3> SUFFICES ASSUME NEW s \in Servers, NEW i \in DOMAIN got[s], dest[got[s][i]] = Everyone
                 PROVE  got[s][i] <= arg' /\ \A k \in DOMAIN queue' : got[s][i] < queue'[k]
      BY <2>2 DEF GotInv
    <3>1. got[s][i] \in Msgs /\ got[s][i] < queue[1]
      BY <2>3 DEF GotInv, TypeOK
    <3>2. \A k \in DOMAIN queue' : got[s][i] < queue'[k]
      BY <2>4 DEF GotInv
    <3> QED
      BY <2>3, <3>1, <3>2 DEF Msgs
  <2>9. RoomOrder'
    BY <2>2 DEF RoomOrder
  <2> QED
    BY <2>6, <2>7, <2>8, <2>9
<1>2. CASE SendSingle
  <2>1. arg \in Msgs /\ arg \in DOMAIN dest /\ dest[arg] # Everyone
    BY <1>2, Sizes DEF SendSingle, QueueInv, SinglesInv, InHand, TypeOK, Msgs
  <2>2. /\ UNCHANGED <<queue, dest, single, got>> /\ arg' = 0 /\ consumer' = "32"
        /\ pushChannel' = [pushChannel EXCEPT ![target] = Append(@, arg)]
    BY <1>2 DEF SendSingle
  <2>3. QueueInv' /\ GotInv' /\ RoomOrder'
    <3>1. \A i \in DOMAIN queue : queue[i] > 0
      BY Positive DEF TypeOK
    <3> QED
      BY <2>2, <3>1 DEF QueueInv, GotInv, RoomOrder
  <2>4. SinglesInv'
    <3> SUFFICES ASSUME NEW c \in Chans, NEW i \in DOMAIN pushChannel'[c]
                 PROVE  pushChannel'[c][i] \in DOMAIN dest /\ dest[pushChannel'[c][i]] # Everyone
      BY <2>2 DEF SinglesInv
    <3>1. pushChannel[c] \in Seq(Msgs)
      BY DEF TypeOK
    <3>2. pushChannel'[c] = pushChannel[c] \/ pushChannel'[c] = Append(pushChannel[c], arg)
      BY <2>2 DEF TypeOK
    <3>3. (i \in DOMAIN pushChannel[c] /\ pushChannel'[c][i] = pushChannel[c][i]) \/ pushChannel'[c][i] = arg
      BY <2>1, <3>1, <3>2, AppendEntries
    <3> QED
      BY <2>1, <3>3 DEF SinglesInv
  <2> QED
    BY <2>3, <2>4
<1>3. CASE Collected
  BY <1>3, OrderKept DEF Collected
<1>4. CASE BroadcastDone
  <2>1. \A i \in DOMAIN queue : queue[i] > 0
    BY Positive DEF TypeOK
  <2> QED
    BY <1>4, <2>1 DEF BroadcastDone, QueueInv, SinglesInv, GotInv, RoomOrder
<1>5. ASSUME NEW s \in Servers, CollectClient(s) PROVE Goal
  BY <1>5, OrderKept DEF CollectClient
<1>6. ASSUME NEW s \in Servers, CallRoom(s) PROVE Goal
  <2>1. arg \in Msgs /\ arg \in DOMAIN dest /\ \A k \in DOMAIN queue : arg < queue[k]
    BY <1>6, Sizes DEF CallRoom, TypeOK, InHand, QueueInv, Msgs
  <2>2. UNCHANGED <<queue, dest, arg, consumer, pushChannel, single>> /\ Call(s, arg)
    BY <1>6 DEF CallRoom
  <2>3. GotInv' /\ RoomOrder'
    BY <2>1, <2>2, OrderOfCall DEF Msgs
  <2>4. QueueInv' /\ SinglesInv'
    BY <2>2 DEF QueueInv, SinglesInv
  <2> QED
    BY <2>3, <2>4
<1> QED
  BY <1>1, <1>2, <1>3, <1>4, <1>5, <1>6 DEF ConsumerStep

LEMMA WorkerOrder ==
    ASSUME OrderInv, NEW c \in Chans, WorkerStep(c)
    PROVE  QueueInv' /\ SinglesInv' /\ GotInv' /\ RoomOrder'
<1> USE DEF OrderInv, TypeInv
<1>1. CASE TakeSingle(c)
  <2>1. pushChannel[c] \in Seq(Msgs) /\ pushChannel[c] # <<>>
    BY <1>1 DEF TakeSingle, TypeOK
  <2>2. /\ UNCHANGED <<queue, dest, arg, consumer, got>>
        /\ pushChannel' = [pushChannel EXCEPT ![c] = Tail(@)]
        /\ single' = [single EXCEPT ![c] = Head(pushChannel[c])]
        /\ DOMAIN pushChannel = Chans /\ DOMAIN single = Chans
    BY <1>1 DEF TakeSingle, TypeOK
  <2>3. QueueInv' /\ GotInv' /\ RoomOrder'
    BY <2>2 DEF QueueInv, GotInv, RoomOrder
  <2>4. 1 \in DOMAIN pushChannel[c] /\ Head(pushChannel[c]) = pushChannel[c][1]
    BY <2>1, TailInOrder
  <2>5. \A d \in Chans : single'[d] = single[d] \/ (single'[d] = pushChannel[c][1] /\ d = c)
    BY <2>2, <2>4
  <2>6. \A d \in Chans : \A i \in DOMAIN pushChannel'[d] :
           \E j \in DOMAIN pushChannel[d] : pushChannel'[d][i] = pushChannel[d][j]
    <3> TAKE d \in Chans
    <3>1. pushChannel'[d] = pushChannel[d] \/ (d = c /\ pushChannel'[d] = Tail(pushChannel[c]))
      BY <2>2
    <3>2. \A i \in DOMAIN Tail(pushChannel[c]) :
             i + 1 \in DOMAIN pushChannel[c] /\ Tail(pushChannel[c])[i] = pushChannel[c][i + 1]
      BY <2>1, TailInOrder
    <3>3. CASE pushChannel'[d] = pushChannel[d]
      BY <3>3
    <3>4. CASE d = c /\ pushChannel'[d] = Tail(pushChannel[c])
      BY <3>2, <3>4
    <3> QED
      BY <3>1, <3>3, <3>4
  <2>7. SinglesInv'
    BY <2>2, <2>4, <2>5, <2>6 DEF SinglesInv
  <2> QED
    BY <2>3, <2>7
<1>2. CASE LookupClient(c)
  BY <1>2, OrderKept DEF LookupClient
<1>3. CASE CallSingle(c)
  <2>1. single[c] \in Msgs /\ single[c] \in DOMAIN dest /\ dest[single[c]] # Everyone
    BY <1>3, Sizes DEF CallSingle, SinglesInv, InHand, TypeOK, Msgs
  <2>2. /\ UNCHANGED <<queue, dest, arg, consumer, pushChannel>> /\ Call(dest[single[c]], single[c])
        /\ single' = [single EXCEPT ![c] = 0]
    BY <1>3 DEF CallSingle
  <2>3. GotInv' /\ RoomOrder'
    BY <2>1, <2>2, OrderOfCall
  <2>4. \A d \in Chans : single'[d] \in {0, single[d]}
    BY <2>2 DEF TypeOK
  <2>5. QueueInv' /\ SinglesInv'
    BY <2>2, <2>4 DEF QueueInv, SinglesInv
  <2> QED
    BY <2>3, <2>5
<1> QED
  BY <1>1, <1>2, <1>3 DEF WorkerStep

LEMMA OrderStep == OrderInv /\ [Next]_vars => OrderInv'
<1> SUFFICES ASSUME OrderInv, [Next]_vars PROVE QueueInv' /\ SinglesInv' /\ GotInv' /\ RoomOrder'
  BY TypeStep DEF OrderInv
<1>1. CASE Start
  BY <1>1, OrderKept DEF OrderInv, Start, StartConsumer, CheckServices, GetServices, AddClient, MakeChannel
<1>2. CASE WatchServicesChange
  BY <1>2, OrderKept DEF OrderInv, WatchServicesChange
<1>3. CASE ConsumerStep
  BY <1>3, ConsumerOrder
<1>4. ASSUME NEW c \in Chans, WorkerStep(c) PROVE QueueInv' /\ SinglesInv' /\ GotInv' /\ RoomOrder'
  BY <1>4, WorkerOrder
<1>5. ASSUME NEW d \in Servers \cup {Everyone, NoServer}, Publish(d)
      PROVE  QueueInv' /\ SinglesInv' /\ GotInv' /\ RoomOrder'
  BY <1>5, PublishOrder
<1>6. ASSUME NEW s \in Servers, Register(s) PROVE QueueInv' /\ SinglesInv' /\ GotInv' /\ RoomOrder'
  BY <1>6, OrderKept DEF OrderInv, Register
<1>7. CASE UNCHANGED vars
  BY <1>7, OrderKept DEF OrderInv, vars
<1> QED
  BY <1>1, <1>2, <1>3, <1>4, <1>5, <1>6, <1>7 DEF Next, Process

(* However servers come and go, singles are delayed and replies are lost, every server gets
   room messages in the order logic pushed them: the consumer is the only one to make room
   calls and finishes one before it pops the next. *)
THEOREM RoomsInOrder == Spec => []RoomOrder
<1>1. OrderInv => RoomOrder
  BY DEF OrderInv
<1> QED
  BY <1>1, OrderInit, OrderStep, PTL DEF Spec

-----------------------------------------------------------------------------
(***************************************************************************)
(* The places of a message                                                 *)
(***************************************************************************)

(* Message m was popped before what is in the queue and in the hands of the consumer. *)
Popped(m) ==
    m \in DOMAIN dest /\ (\A k \in DOMAIN queue : m < queue[k]) /\ (arg # 0 => m < arg)

InChannel(m) == \E c \in Chans : \E i \in DOMAIN pushChannel[c] : pushChannel[c][i] = m
InWorker(m)  == \E c \in Chans : single[c] = m

(* The channels and the workers hold messages that were popped, each of them once. *)
HeldInv ==
    /\ \A c \in Chans : \A i \in DOMAIN pushChannel[c] : Popped(pushChannel[c][i]) /\ ~InWorker(pushChannel[c][i])
    /\ \A c, d \in Chans : \A i \in DOMAIN pushChannel[c], j \in DOMAIN pushChannel[d] :
          pushChannel[c][i] = pushChannel[d][j] => c = d /\ i = j
    /\ \A c \in Chans : single[c] # 0 => Popped(single[c])
    /\ \A c, d \in Chans : single[c] # 0 /\ single[c] = single[d] => c = d

(* What a server has got twice it has got in a row, after a reply was lost.  A single message
   was for that server and has left the process; a room message under way is not called
   there again. *)
ArrivedInv ==
    \A s \in Servers : \A i \in DOMAIN got[s] :
       /\ \A j \in DOMAIN got[s] : i < j /\ got[s][j] = got[s][i] => j = i + 1 /\ lost > 0
       /\ dest[got[s][i]] # Everyone =>
             dest[got[s][i]] = s /\ Popped(got[s][i]) /\ ~InChannel(got[s][i]) /\ ~InWorker(got[s][i])
       /\ got[s][i] = arg => consumer = "249" /\ s \notin rpcList

(* The consumer is started by the first step of Run. *)
StartInv == run = "21" => consumer = "off"

CopyInv == OrderInv /\ HeldInv /\ ArrivedInv /\ StartInv

LEMMA CopyInit == Init => CopyInv
<1> SUFFICES ASSUME Init PROVE CopyInv
  OBVIOUS
<1>1. /\ \A c \in Chans : DOMAIN pushChannel[c] = {} /\ single[c] = 0
      /\ \A s \in Servers : DOMAIN got[s] = {}
  BY DEF Init, Idle
<1>2. HeldInv /\ ArrivedInv /\ StartInv
  BY <1>1 DEF HeldInv, ArrivedInv, StartInv, Init
<1> QED
  BY <1>2, OrderInit DEF CopyInv

(* Steps that neither move a message nor turn a consumer back that is calling. *)
LEMMA CopyKept ==
    ASSUME HeldInv, ArrivedInv, UNCHANGED <<queue, dest, arg, pushChannel, single, got, lost>>,
           consumer = "249" => consumer' = "249" /\ rpcList' = rpcList
    PROVE  HeldInv' /\ ArrivedInv'
<1>1. \A m : (Popped(m)' <=> Popped(m)) /\ (InChannel(m)' <=> InChannel(m)) /\ (InWorker(m)' <=> InWorker(m))
  BY DEF Popped, InChannel, InWorker
<1>2. HeldInv'
  BY <1>1 DEF HeldInv
<1>3. ArrivedInv'
  BY <1>1 DEF ArrivedInv
<1> QED
  BY <1>2, <1>3

LEMMA PublishCopies ==
    ASSUME CopyInv, NEW d \in Servers \cup {Everyone, NoServer}, Publish(d)
    PROVE  HeldInv' /\ ArrivedInv'
<1> USE DEF CopyInv, OrderInv, TypeInv
<1>1. /\ DOMAIN dest' = DOMAIN dest \cup {Len(dest')} /\ Len(dest') \in Msgs
      /\ \A m \in DOMAIN dest : dest'[m] = dest[m] /\ m < Len(dest')
  BY Sizes DEF Publish, TypeOK, Msgs
<1>2. queue \in Seq(Msgs) /\ queue' = Append(queue, Len(dest'))
  BY DEF Publish, TypeOK
<1>3. UNCHANGED <<arg, consumer, rpcList, pushChannel, single, got, lost>>
  BY DEF Publish
<1>4. \A i \in DOMAIN queue' :
         \/ i \in DOMAIN queue /\ queue'[i] = queue[i]
         \/ queue'[i] = Len(dest')
  BY <1>1, <1>2, AppendEntries
<1>5. \A m : (Popped(m) => Popped(m)') /\ (InChannel(m)' <=> InChannel(m)) /\ (InWorker(m)' <=> InWorker(m))
  BY <1>1, <1>3, <1>4 DEF Popped, InChannel, InWorker
<1>6. HeldInv'
  BY <1>3, <1>5 DEF HeldInv
<1>7. \A s \in Servers : \A i \in DOMAIN got[s] : dest'[got[s][i]] = dest[got[s][i]]
  BY <1>1 DEF GotInv
<1>8. ArrivedInv'
  BY <1>3, <1>5, <1>7 DEF ArrivedInv
<1> QED
  BY <1>6, <1>8

(* A call adds its message to its server only, once, or twice in a row when a reply was lost. *)
LEMMA CallEntries ==
    ASSUME TypeOK, NEW t, NEW m \in Msgs, Call(t, m), NEW s \in Servers
    PROVE  /\ lost' > 0 \/ lost' = lost
           /\ s # t => got'[s] = got[s]
           /\ \A i, j \in DOMAIN got'[s] :
                 i < j /\ i \notin DOMAIN got[s] /\ j \notin DOMAIN got[s] => j = i + 1 /\ lost' > 0
<1>1. got[s] \in Seq(Msgs) /\ got \in [Servers -> Seq(Msgs)] /\ lost \in Nat
  BY Sizes DEF TypeOK
<1>2. \/ got'[s] = got[s]
      \/ got'[s] = Append(got[s], m)
      \/ got'[s] = got[s] \o <<m, m>> /\ lost' = lost + 1
  BY <1>1 DEF Call
<1>3. (s # t => got'[s] = got[s]) /\ (lost' = lost + 1 \/ lost' = lost)
  BY <1>1 DEF Call
<1>4. DOMAIN got[s] = 1 .. Len(got[s]) /\ Len(got[s]) \in Nat
  BY <1>1
<1>5. CASE got'[s] = Append(got[s], m)
  <2>1. DOMAIN got'[s] = 1 .. Len(got[s]) + 1
    BY <1>1, <1>5
  <2> QED
    BY <1>1, <1>3, <1>4, <2>1
<1>6. CASE got'[s] = got[s] \o <<m, m>> /\ lost' = lost + 1
  <2>1. DOMAIN got'[s] = 1 .. Len(got[s]) + 2
    BY <1>1, <1>6
  <2>2. lost' > 0
    BY <1>1, <1>6
  <2>3. \A n \in Nat : \A i, j \in 1 .. n + 2 : i < j /\ i \notin 1 .. n /\ j \notin 1 .. n => j = i + 1
    OBVIOUS
  <2> QED
    BY <1>3, <1>4, <2>1, <2>2, <2>3
<1> QED
  BY <1>1, <1>2, <1>3, <1>5, <1>6

(* A message that its server has not got may be called. *)
LEMMA CallInRow ==
    ASSUME TypeOK, ArrivedInv, NEW t, NEW m \in Msgs, Call(t, m),
           t \in Servers => \A i \in DOMAIN got[t] : got[t][i] # m,
           NEW s \in Servers, NEW i \in DOMAIN got'[s], NEW j \in DOMAIN got'[s],
           i < j, got'[s][j] = got'[s][i]
    PROVE  j = i + 1 /\ lost' > 0
<1>1. i \in Int /\ j \in Int /\ DOMAIN got[s] \subseteq Int
  <2>1. got[s] \in Seq(Msgs) /\ got'[s] \in Seq(Msgs)
    BY CallKeeps DEF TypeOK
  <2> QED
    BY <2>1
<1>2. \A k \in DOMAIN got'[s] :
         \/ k \in DOMAIN got[s] /\ got'[s][k] = got[s][k]
         \/ k \notin DOMAIN got[s] /\ got'[s][k] = m /\ \A l \in DOMAIN got[s] : l < k
  BY CallAppends
<1>3. CASE j \in DOMAIN got[s] /\ got'[s][j] = got[s][j]
  <2>1. ~(j < i)
    BY <1>1
  <2>2. i \in DOMAIN got[s] /\ got'[s][i] = got[s][i]
    BY <1>2, <1>3, <2>1
  <2>3. j = i + 1 /\ lost > 0
    BY <1>3, <2>2 DEF ArrivedInv
  <2> QED
    BY <2>3, CallEntries
<1>4. CASE j \notin DOMAIN got[s] /\ got'[s][j] = m
  <2>1. s = t
    BY <1>4, CallEntries
  <2>2. i \notin DOMAIN got[s]
    BY <1>2, <1>4, <2>1
  <2> QED
    BY <1>4, <2>2, CallEntries
<1> QED
  BY <1>2, <1>3, <1>4

LEMMA ConsumerCopies ==
    ASSUME CopyInv, ConsumerStep
    PROVE  HeldInv' /\ ArrivedInv'
<1> USE DEF CopyInv, OrderInv, TypeInv
<1>0. \A s \in Servers : \A i \in DOMAIN got[s] : got[s][i] \in Msgs /\ got[s][i] # 0
  BY Positive DEF TypeOK
<1>1. CASE BRPop
  <2>1. queue \in Seq(Msgs) /\ queue # <<>> /\ queue' = Tail(queue) /\ arg' = Head(queue)
    BY <1>1 DEF BRPop, TypeOK
  <2>2. UNCHANGED <<dest, pushChannel, single, got, lost, rpcList>> /\ consumer = "32"
    BY <1>1 DEF BRPop
  <2>3. arg' = queue[1] /\ 1 \in DOMAIN queue /\ arg' \in Msgs
    BY <2>1, MsgLists, TailInOrder
  <2>4. \A i \in DOMAIN queue' : i + 1 \in DOMAIN queue /\ queue'[i] = queue[i + 1]
    BY <2>1, TailInOrder
  <2>5. \A m : (Popped(m) => Popped(m)') /\ (InChannel(m)' <=> InChannel(m)) /\ (InWorker(m)' <=> InWorker(m))
    BY <2>2, <2>3, <2>4 DEF Popped, InChannel, InWorker
  <2>6. HeldInv'
    BY <2>2, <2>5 DEF HeldInv
  <2>7. ASSUME NEW s \in Servers, NEW i \in DOMAIN got[s] PROVE got[s][i] # arg'
    <3>1. got[s][i] < queue[1]
      BY <2>3 DEF GotInv, ArrivedInv, Popped
    <3>2. got[s][i] \in Int /\ queue[1] \in Int
      BY <1>0, <2>3 DEF Msgs
    <3> QED
      BY <2>3, <3>1, <3>2
  <2>8. ArrivedInv'
    BY <2>2, <2>5, <2>7 DEF ArrivedInv
  <2> QED
    BY <2>6, <2>8
<1>2. CASE SendSingle
  <2>1. arg \in Msgs /\ arg \in DOMAIN dest /\ arg # 0
    BY <1>2, Sizes DEF SendSingle, QueueInv, InHand, TypeOK, Msgs
  <2>2. /\ UNCHANGED <<queue, dest, single, got, lost, rpcList>> /\ arg' = 0
        /\ pushChannel' = [pushChannel EXCEPT ![target] = Append(@, arg)]
    BY <1>2 DEF SendSingle
  <2> PICK m \in Msgs : m = arg
    BY <2>1
  <2>3. \A c \in Chans : \A i \in DOMAIN pushChannel'[c] :
           \/ i \in DOMAIN pushChannel[c] /\ pushChannel'[c][i] = pushChannel[c][i]
           \/ c = target /\ i = Len(pushChannel[c]) + 1 /\ pushChannel'[c][i] = m
    <3> TAKE c \in Chans
    <3>1. pushChannel[c] \in Seq(Msgs)
      BY DEF TypeOK
    <3>2. pushChannel'[c] = pushChannel[c] \/ (c = target /\ pushChannel'[c] = Append(pushChannel[c], m))
      BY <2>2 DEF TypeOK
    <3> QED
      BY <3>1, <3>2, AppendEntries
  <2>4. \A x : Popped(x) => Popped(x)' /\ x # m
    BY <2>1, <2>2 DEF Popped, Msgs
  <2>5. Popped(m)'
    BY <2>1, <2>2 DEF Popped, QueueInv
  <2>6. \A x : InWorker(x)' <=> InWorker(x)
    BY <2>2 DEF InWorker
  <2>7. ~InWorker(m)
    BY <2>1, <2>4 DEF InWorker, HeldInv
  <2>8. \A c \in Chans : \A i \in DOMAIN pushChannel[c] : pushChannel[c][i] # m
    BY <2>4 DEF HeldInv
  <2>9. HeldInv'
    <3>1. (\A c \in Chans : \A i \in DOMAIN pushChannel[c] : Popped(pushChannel[c][i]) /\ ~InWorker(pushChannel[c][i]))'
      BY <2>3, <2>4, <2>5, <2>6, <2>7 DEF HeldInv
    <3>2. (\A c, d \in Chans : \A i \in DOMAIN pushChannel[c], j \in DOMAIN pushChannel[d] :
              pushChannel[c][i] = pushChannel[d][j] => c = d /\ i = j)'
      BY <2>3, <2>8 DEF HeldInv
    <3>3. (\A c \in Chans : single[c] # 0 => Popped(single[c]))'
      BY <2>2, <2>4 DEF HeldInv
    <3>4. (\A c, d \in Chans : single[c] # 0 /\ single[c] = single[d] => c = d)'
      BY <2>2 DEF HeldInv
    <3> QED
      BY <3>1, <3>2, <3>3, <3>4 DEF HeldInv
  <2>10. ArrivedInv'
    <3>1. \A x : InChannel(x)' => InChannel(x) \/ x = m
      BY <2>3 DEF InChannel
    <3> QED
      BY <1>0, <2>2, <2>4, <2>6, <3>1 DEF ArrivedInv
  <2> QED
    BY <2>9, <2>10
<1>3. CASE Collected
  BY <1>3, CopyKept DEF Collected
<1>4. CASE BroadcastDone
  <2>1. UNCHANGED <<queue, dest, pushChannel, single, got, lost>> /\ arg' = 0
    BY <1>4 DEF BroadcastDone
  <2>2. \A m : (Popped(m) => Popped(m)') /\ (InChannel(m)' <=> InChannel(m)) /\ (InWorker(m)' <=> InWorker(m))
    BY <2>1 DEF Popped, InChannel, InWorker
  <2>3. HeldInv'
    BY <2>1, <2>2 DEF HeldInv
  <2>4. ArrivedInv'
    BY <1>0, <2>1, <2>2 DEF ArrivedInv
  <2> QED
    BY <2>3, <2>4
<1>5. ASSUME NEW s \in Servers, CollectClient(s) PROVE HeldInv' /\ ArrivedInv'
  BY <1>5, CopyKept DEF CollectClient
<1>6. ASSUME NEW t \in Servers, CallRoom(t) PROVE HeldInv' /\ ArrivedInv'
  <2>1. arg \in Msgs /\ dest[arg] = Everyone
    BY <1>6, Sizes DEF CallRoom, TypeOK, InHand, SinglesInv, Msgs
  <2>2. /\ UNCHANGED <<queue, dest, arg, consumer, pushChannel, single>> /\ Call(t, arg)
        /\ consumer = "249" /\ t \in rpcList /\ rpcList' = rpcList \ {t}
    BY <1>6 DEF CallRoom
  <2> PICK m \in Msgs : m = arg
    BY <2>1
  <2>3. \A i \in DOMAIN got[t] : got[t][i] # m
    BY <2>2 DEF ArrivedInv
  <2>4. \A x : (Popped(x)' <=> Popped(x)) /\ (InChannel(x)' <=> InChannel(x)) /\ (InWorker(x)' <=> InWorker(x))
    BY <2>2 DEF Popped, InChannel, InWorker
  <2>5. HeldInv'
    BY <2>2, <2>4 DEF HeldInv
  <2>6. ArrivedInv'
    <3> SUFFICES ASSUME NEW s \in Servers, NEW i \in DOMAIN got'[s]
                 PROVE  /\ \A j \in DOMAIN got'[s] : i < j /\ got'[s][j] = got'[s][i] => j = i + 1 /\ lost' > 0
                        /\ dest[got'[s][i]] # Everyone =>
                              /\ dest[got'[s][i]] = s /\ Popped(got[s][i])'
                              /\ ~InChannel(got[s][i])' /\ ~InWorker(got[s][i])'
                        /\ got'[s][i] = m => s \notin rpcList'
      BY <2>2 DEF ArrivedInv
    <3>1. \A j \in DOMAIN got'[s] : i < j /\ got'[s][j] = got'[s][i] => j = i + 1 /\ lost' > 0
      BY <2>2, <2>3, CallInRow
    <3>2. \/ i \in DOMAIN got[s] /\ got'[s][i] = got[s][i]
          \/ i \notin DOMAIN got[s] /\ got'[s][i] = m
      BY <2>2, CallAppends
    <3>3. CASE i \in DOMAIN got[s] /\ got'[s][i] = got[s][i]
      <4> PICK x : x = got'[s][i]
        OBVIOUS
      <4>1. /\ dest[x] # Everyone => dest[x] = s /\ Popped(x) /\ ~InChannel(x) /\ ~InWorker(x)
            /\ x = m => s \notin rpcList
        BY <3>3 DEF ArrivedInv
      <4> QED
        BY <2>2, <2>4, <3>1, <4>1
    <3>4. CASE i \notin DOMAIN got[s] /\ got'[s][i] = m
      <4>1. s = t
        BY <2>2, <3>4, CallEntries
      <4> QED
        BY <2>1, <2>2, <3>1, <3>4, <4>1
    <3> QED
      BY <3>2, <3>3, <3>4
  <2> QED
    BY <2>5, <2>6
<1> QED
  BY <1>1, <1>2, <1>3, <1>4, <1>5, <1>6 DEF ConsumerStep

LEMMA WorkerCopies ==
    ASSUME CopyInv, NEW c \in Chans, WorkerStep(c)
    PROVE  HeldInv' /\ ArrivedInv'
<1> USE DEF CopyInv, OrderInv, TypeInv
<1>1. CASE TakeSingle(c)
  <2>1. pushChannel[c] \in Seq(Msgs) /\ pushChannel[c] # <<>>
    BY <1>1 DEF TakeSingle, TypeOK
  <2>2. /\ UNCHANGED <<queue, dest, arg, consumer, rpcList, got, lost>>
        /\ pushChannel' = [pushChannel EXCEPT ![c] = Tail(@)]
        /\ single' = [single EXCEPT ![c] = Head(pushChannel[c])]
        /\ DOMAIN pushChannel = Chans /\ DOMAIN single = Chans
    BY <1>1 DEF TakeSingle, TypeOK
  <2>3. 1 \in DOMAIN pushChannel[c] /\ Head(pushChannel[c]) = pushChannel[c][1]
    BY <2>1, TailInOrder
  <2> PICK m : m = pushChannel[c][1]
    OBVIOUS
  <2>4. \A d \in Chans : (d # c /\ single'[d] = single[d]) \/ (d = c /\ single'[d] = m)
    BY <2>2, <2>3
  <2>5. \A d \in Chans : \A i \in DOMAIN pushChannel'[d] :
           \/ d # c /\ i \in DOMAIN pushChannel[d] /\ pushChannel'[d][i] = pushChannel[d][i]
           \/ /\ d = c /\ i + 1 \in DOMAIN pushChannel[c] /\ pushChannel'[c][i] = pushChannel[c][i + 1]
              /\ i \in Int /\ i + 1 # 1
    <3>1. \A i \in DOMAIN Tail(pushChannel[c]) :
             /\ i + 1 \in DOMAIN pushChannel[c] /\ Tail(pushChannel[c])[i] = pushChannel[c][i + 1]
             /\ i \in Int /\ i + 1 # 1
      BY <2>1
    <3> QED
      BY <2>2, <3>1
  <2>6. \A x : Popped(x)' <=> Popped(x)
    BY <2>2 DEF Popped
  <2>7. \A x : InWorker(x)' => InWorker(x) \/ x = m
    BY <2>4 DEF InWorker
  <2>8. \A d \in Chans : \A i \in DOMAIN pushChannel'[d] :
           \E j \in DOMAIN pushChannel[d] : pushChannel'[d][i] = pushChannel[d][j] /\ pushChannel[d][j] # m
    <3> SUFFICES ASSUME NEW d \in Chans, NEW i \in DOMAIN pushChannel'[d]
                 PROVE  \E j \in DOMAIN pushChannel[d] : pushChannel'[d][i] = pushChannel[d][j] /\ pushChannel[d][j] # m
      OBVIOUS
    <3>1. CASE d # c /\ i \in DOMAIN pushChannel[d] /\ pushChannel'[d][i] = pushChannel[d][i]
      <4>1. pushChannel[d][i] # pushChannel[c][1]
        BY <2>3, <3>1 DEF HeldInv
      <4> QED
        BY <3>1, <4>1
    <3>2. CASE d = c /\ i + 1 \in DOMAIN pushChannel[c] /\ pushChannel'[c][i] = pushChannel[c][i + 1] /\ i + 1 # 1
      <4>1. pushChannel[c][i + 1] # pushChannel[c][1]
        BY <2>3, <3>2 DEF HeldInv
      <4> QED
        BY <3>2, <4>1
    <3> QED
      BY <2>5, <3>1, <3>2
  <2>9. Popped(m) /\ ~InWorker(m) /\ InChannel(m)
    BY <2>3 DEF HeldInv, InChannel
  <2>10. HeldInv'
    <3>1. (\A d \in Chans : \A i \in DOMAIN pushChannel[d] : Popped(pushChannel[d][i]) /\ ~InWorker(pushChannel[d][i]))'
      BY <2>6, <2>7, <2>8 DEF HeldInv
    <3>2. (\A d, e \in Chans : \A i \in DOMAIN pushChannel[d], j \in DOMAIN pushChannel[e] :
              pushChannel[d][i] = pushChannel[e][j] => d = e /\ i = j)'
      <4> SUFFICES ASSUME NEW d \in Chans, NEW e \in Chans, NEW i \in DOMAIN pushChannel'[d], NEW j \in DOMAIN pushChannel'[e],
                          pushChannel'[d][i] = pushChannel'[e][j]
                   PROVE  d = e /\ i = j
        OBVIOUS
      <4>1. CASE d # c /\ i \in DOMAIN pushChannel[d] /\ pushChannel'[d][i] = pushChannel[d][i]
        <5>1. CASE e # c /\ j \in DOMAIN pushChannel[e] /\ pushChannel'[e][j] = pushChannel[e][j]
          <6>1. pushChannel[d][i] = pushChannel[e][j]
            BY <4>1, <5>1
          <6> QED
            BY <4>1, <5>1, <6>1 DEF HeldInv
        <5>2. CASE e = c /\ j + 1 \in DOMAIN pushChannel[c] /\ pushChannel'[c][j] = pushChannel[c][j + 1]
          <6>1. pushChannel[d][i] = pushChannel[c][j + 1]
            BY <4>1, <5>2
          <6>2. d = c
            BY <4>1, <5>2, <6>1 DEF HeldInv
          <6> QED
            BY <4>1, <6>2
        <5> QED
          BY <2>5, <5>1, <5>2
      <4>2. CASE d = c /\ i + 1 \in DOMAIN pushChannel[c] /\ pushChannel'[c][i] = pushChannel[c][i + 1] /\ i \in Int
        <5>1. e = c /\ j + 1 \in DOMAIN pushChannel[c] /\ pushChannel'[c][j] = pushChannel[c][j + 1] /\ j \in Int
          BY <2>5, <4>2 DEF HeldInv
        <5>2. i + 1 = j + 1
          BY <4>2, <5>1 DEF HeldInv
        <5> QED
          BY <4>2, <5>1, <5>2
      <4> QED
        BY <2>5, <4>1, <4>2
    <3>3. (\A d \in Chans : single[d] # 0 => Popped(single[d]))'
      BY <2>4, <2>6, <2>9 DEF HeldInv
    <3>4. (\A d, e \in Chans : single[d] # 0 /\ single[d] = single[e] => d = e)'
      BY <2>4, <2>9 DEF HeldInv, InWorker
    <3> QED
      BY <3>1, <3>2, <3>3, <3>4 DEF HeldInv
  <2>11. ArrivedInv'
    <3>1. \A x : InChannel(x)' => InChannel(x)
      BY <2>8 DEF InChannel
    <3> QED
      BY <2>2, <2>6, <2>7, <2>9, <3>1 DEF ArrivedInv
  <2> QED
    BY <2>10, <2>11
<1>2. CASE LookupClient(c)
  BY <1>2, CopyKept DEF LookupClient
<1>3. CASE CallSingle(c)
  <2>1. single[c] \in Msgs /\ single[c] # 0 /\ dest[single[c]] # Everyone
    BY <1>3, Sizes DEF CallSingle, SinglesInv, InHand, TypeOK, Msgs
  <2> PICK m \in Msgs : m = single[c]
    BY <2>1
  <2> PICK t : t = dest[m]
    OBVIOUS
  <2>2. /\ UNCHANGED <<queue, dest, arg, consumer, rpcList, pushChannel>> /\ Call(t, m)
        /\ single' = [single EXCEPT ![c] = 0]
    BY <1>3 DEF CallSingle
  <2>3. t \in Servers => \A i \in DOMAIN got[t] : got[t][i] # m
    <3>1. InWorker(m)
      BY DEF InWorker
    <3> QED
      BY <2>1, <3>1 DEF ArrivedInv
  <2>4. Popped(m) /\ ~InChannel(m) /\ m # arg
    <3>1. Popped(m)
      BY <2>1 DEF HeldInv
    <3>2. ~InChannel(m)
      BY DEF HeldInv, InChannel, InWorker
    <3>3. m # arg
      BY <2>1, <3>1 DEF Popped, Msgs
    <3> QED
      BY <3>1, <3>2, <3>3
  <2>5. \A d \in Chans : (d # c /\ single'[d] = single[d]) \/ (d = c /\ single'[d] = 0)
    BY <2>2 DEF TypeOK
  <2>6. \A x : (Popped(x)' <=> Popped(x)) /\ (InChannel(x)' <=> InChannel(x))
    BY <2>2 DEF Popped, InChannel
  <2>7. \A x : x # 0 /\ InWorker(x)' => InWorker(x) /\ x # m
    <3> SUFFICES ASSUME NEW x, x # 0, InWorker(x)' PROVE InWorker(x) /\ x # m
      OBVIOUS
    <3> PICK d \in Chans : single'[d] = x
      BY DEF InWorker
    <3>1. d # c /\ single[d] = x
      BY <2>5
    <3> QED
      BY <2>1, <3>1 DEF InWorker, HeldInv
  <2>8. HeldInv'
    <3>1. (\A d \in Chans : \A i \in DOMAIN pushChannel[d] : Popped(pushChannel[d][i]) /\ ~InWorker(pushChannel[d][i]))'
      <4>1. \A d \in Chans : \A i \in DOMAIN pushChannel[d] : pushChannel[d][i] # 0
        BY Positive DEF TypeOK
      <4> QED
        BY <2>2, <2>6, <2>7, <4>1 DEF HeldInv
    <3>2. (\A d, e \in Chans : \A i \in DOMAIN pushChannel[d], j \in DOMAIN pushChannel[e] :
              pushChannel[d][i] = pushChannel[e][j] => d = e /\ i = j)'
      BY <2>2 DEF HeldInv
    <3>3. (\A d \in Chans : single[d] # 0 => Popped(single[d]))'
      BY <2>5, <2>6 DEF HeldInv
    <3>4. (\A d, e \in Chans : single[d] # 0 /\ single[d] = single[e] => d = e)'
      BY <2>5 DEF HeldInv
    <3> QED
      BY <3>1, <3>2, <3>3, <3>4 DEF HeldInv
  <2>9. ArrivedInv'
    <3> SUFFICES ASSUME NEW s \in Servers, NEW i \in DOMAIN got'[s]
                 PROVE  /\ \A j \in DOMAIN got'[s] : i < j /\ got'[s][j] = got'[s][i] => j = i + 1 /\ lost' > 0
                        /\ dest[got'[s][i]] # Everyone =>
                              /\ dest[got'[s][i]] = s /\ Popped(got[s][i])'
                              /\ ~InChannel(got[s][i])' /\ ~InWorker(got[s][i])'
                        /\ got'[s][i] = arg => consumer = "249" /\ s \notin rpcList
      BY <2>2 DEF ArrivedInv
    <3>1. \A j \in DOMAIN got'[s] : i < j /\ got'[s][j] = got'[s][i] => j = i + 1 /\ lost' > 0
      BY <2>2, <2>3, CallInRow
    <3>2. \/ i \in DOMAIN got[s] /\ got'[s][i] = got[s][i]
          \/ i \notin DOMAIN got[s] /\ got'[s][i] = m
      BY <2>2, CallAppends
    <3> PICK x : x = got'[s][i]
      OBVIOUS
    <3>3. x # 0
      <4>1. got'[s] \in Seq(Msgs)
        BY <2>2, CallKeeps
      <4> QED
        BY <4>1, Positive
    <3>4. CASE i \in DOMAIN got[s] /\ got'[s][i] = got[s][i]
      <4>1. /\ dest[x] # Everyone => dest[x] = s /\ Popped(x) /\ ~InChannel(x) /\ ~InWorker(x)
            /\ x = arg => consumer = "249" /\ s \notin rpcList
        BY <3>4 DEF ArrivedInv
      <4>2. ~InWorker(x) => ~InWorker(x)'
        BY <2>7, <3>3
      <4> QED
        BY <2>6, <3>1, <4>1, <4>2
    <3>5. CASE i \notin DOMAIN got[s] /\ got'[s][i] = m
      <4>1. s = t
        BY <2>2, <3>5, CallEntries
      <4>2. ~InWorker(x)'
        BY <2>7, <3>3, <3>5
      <4> QED
        BY <2>4, <2>6, <3>1, <3>5, <4>1, <4>2
    <3> QED
      BY <3>2, <3>4, <3>5
  <2> QED
    BY <2>8, <2>9
<1> QED
  BY <1>1, <1>2, <1>3 DEF WorkerStep

LEMMA CopyStep == CopyInv /\ [Next]_vars => CopyInv'
<1> SUFFICES ASSUME CopyInv, [Next]_vars PROVE HeldInv' /\ ArrivedInv' /\ StartInv'
  BY OrderStep DEF CopyInv
<1>1. CASE Start
  <2>1. CASE StartConsumer
    <3>1. consumer # "249" /\ run' # "21" /\ UNCHANGED <<queue, dest, arg, pushChannel, single, got, lost>>
      BY <2>1 DEF CopyInv, StartInv, StartConsumer
    <3> QED
      BY <3>1, CopyKept DEF CopyInv, StartInv
  <2>2. CASE CheckServices
    <3>1. run' # "21" /\ UNCHANGED <<queue, dest, consumer, rpcList, arg, pushChannel, single, got, lost>>
      BY <2>2 DEF CheckServices
    <3> QED
      BY <3>1, CopyKept DEF CopyInv, StartInv
  <2>3. CASE GetServices
    <3>1. run' # "21" /\ UNCHANGED <<queue, dest, consumer, rpcList, arg, pushChannel, single, got, lost>>
      BY <2>3 DEF GetServices
    <3> QED
      BY <3>1, CopyKept DEF CopyInv, StartInv
  <2>4. ASSUME NEW s \in Servers, AddClient(s) PROVE HeldInv' /\ ArrivedInv' /\ StartInv'
    <3>1. UNCHANGED <<run, queue, dest, consumer, rpcList, arg, pushChannel, single, got, lost>>
      BY <2>4 DEF AddClient
    <3> QED
      BY <3>1, CopyKept DEF CopyInv, StartInv
  <2>5. CASE MakeChannel
    <3>1. run' # "21" /\ UNCHANGED <<queue, dest, consumer, rpcList, arg, pushChannel, single, got, lost>>
      BY <2>5 DEF MakeChannel
    <3> QED
      BY <3>1, CopyKept DEF CopyInv, StartInv
  <2> QED
    BY <1>1, <2>1, <2>2, <2>3, <2>4, <2>5 DEF Start
<1>2. CASE WatchServicesChange
  <2>1. UNCHANGED <<run, queue, dest, consumer, rpcList, arg, pushChannel, single, got, lost>>
    BY <1>2 DEF WatchServicesChange
  <2> QED
    BY <2>1, CopyKept DEF CopyInv, StartInv
<1>3. CASE ConsumerStep
  <2>1. consumer # "off" /\ run' = run
    BY <1>3 DEF ConsumerStep, BRPop, SendSingle, Collected, BroadcastDone, CollectClient, CallRoom
  <2> QED
    BY <1>3, <2>1, ConsumerCopies DEF CopyInv, StartInv
<1>4. ASSUME NEW c \in Chans, WorkerStep(c) PROVE HeldInv' /\ ArrivedInv' /\ StartInv'
  <2>1. UNCHANGED <<run, consumer>>
    BY <1>4 DEF WorkerStep, TakeSingle, LookupClient, CallSingle
  <2> QED
    BY <1>4, <2>1, WorkerCopies DEF CopyInv, StartInv
<1>5. ASSUME NEW d \in Servers \cup {Everyone, NoServer}, Publish(d) PROVE HeldInv' /\ ArrivedInv' /\ StartInv'
  <2>1. UNCHANGED <<run, consumer>>
    BY <1>5 DEF Publish
  <2> QED
    BY <1>5, <2>1, PublishCopies DEF CopyInv, StartInv
<1>6. ASSUME NEW s \in Servers, Register(s) PROVE HeldInv' /\ ArrivedInv' /\ StartInv'
  <2>1. UNCHANGED <<run, queue, dest, consumer, rpcList, arg, pushChannel, single, got, lost>>
    BY <1>6 DEF Register
  <2> QED
    BY <2>1, CopyKept DEF CopyInv, StartInv
<1>7. CASE UNCHANGED vars
  <2>1. UNCHANGED <<run, queue, dest, consumer, rpcList, arg, pushChannel, single, got, lost>>
    BY <1>7 DEF vars
  <2> QED
    BY <2>1, CopyKept DEF CopyInv, StartInv
<1> QED
  BY <1>1, <1>2, <1>3, <1>4, <1>5, <1>6, <1>7 DEF Next, Process

(* A message is in one of the four kinds of places, and nowhere else. *)
LEMMA Positions ==
    ASSUME CopyInv, NEW m \in DOMAIN dest, NEW x \in Places(m)
    PROVE  \/ ~Popped(m) /\ arg # m /\ \E i \in DOMAIN queue : queue[i] = m /\ x = <<0, i>>
           \/ ~Popped(m) /\ arg = m /\ x = <<-1, 1>>
           \/ Popped(m) /\ InWorker(m) /\ \E c \in Chans : single[c] = m /\ x = <<-2, c>>
           \/ /\ Popped(m) /\ ~InWorker(m)
              /\ \E c \in Chans : \E i \in DOMAIN pushChannel[c] : pushChannel[c][i] = m /\ x = <<c, i>>
<1> USE DEF CopyInv, OrderInv, TypeInv
<1>1. m # 0 /\ m \in Int
  BY DEF TypeOK
<1>2. DOMAIN single = Chans /\ queue \in Seq(Msgs) /\ arg \in Int
  BY Sizes DEF TypeOK
<1>3. CASE \E i \in DOMAIN queue : queue[i] = m /\ x = <<0, i>>
  <2>1. ~Popped(m) /\ arg # m
    BY <1>1, <1>2, <1>3 DEF Popped, QueueInv
  <2> QED
    BY <1>3, <2>1
<1>4. CASE arg = m /\ x = <<-1, 1>>
  <2>1. ~Popped(m)
    BY <1>1, <1>4 DEF Popped
  <2> QED
    BY <1>4, <2>1
<1>5. CASE \E c \in Chans : single[c] = m /\ x = <<-2, c>>
  BY <1>1, <1>5 DEF HeldInv, InWorker
<1>6. CASE \E c \in Chans : \E i \in DOMAIN pushChannel[c] : pushChannel[c][i] = m /\ x = <<c, i>>
  BY <1>6 DEF HeldInv
<1>7. \/ \E i \in DOMAIN queue : queue[i] = m /\ x = <<0, i>>
      \/ arg = m /\ x = <<-1, 1>>
      \/ \E c \in Chans : single[c] = m /\ x = <<-2, c>>
      \/ \E c \in Chans : \E i \in DOMAIN pushChannel[c] : pushChannel[c][i] = m /\ x = <<c, i>>
  <2>1. x \in At(-1, <<arg>>, m) => arg = m /\ x = <<-1, 1>>
    BY DEF At
  <2>2. x \in At(0, queue, m) => \E i \in DOMAIN queue : queue[i] = m /\ x = <<0, i>>
    BY DEF At
  <2>3. x \in At(-2, single, m) => \E c \in Chans : single[c] = m /\ x = <<-2, c>>
    BY <1>2 DEF At
  <2>4. ASSUME NEW c \in Chans, x \in At(c, pushChannel[c], m)
        PROVE  \E i \in DOMAIN pushChannel[c] : pushChannel[c][i] = m /\ x = <<c, i>>
    BY <2>4 DEF At
  <2>5. \/ x \in At(0, queue, m) \/ x \in At(-1, <<arg>>, m) \/ x \in At(-2, single, m)
        \/ \E c \in Chans : x \in At(c, pushChannel[c], m)
    BY DEF Places
  <2> QED
    BY <2>1, <2>2, <2>3, <2>4, <2>5
<1> QED
  BY <1>3, <1>4, <1>5, <1>6, <1>7

LEMMA OnePlace ==
    ASSUME CopyInv, NEW m \in DOMAIN dest, NEW x \in Places(m), NEW y \in Places(m)
    PROVE  x = y
<1> USE DEF CopyInv, OrderInv, TypeInv
<1>1. queue \in Seq(Msgs) /\ m # 0
  BY DEF TypeOK
<1>2. \A i, j \in DOMAIN queue : queue[i] = queue[j] => i = j
  <2> SUFFICES ASSUME NEW i \in DOMAIN queue, NEW j \in DOMAIN queue, queue[i] = queue[j] PROVE i = j
    OBVIOUS
  <2>1. i \in Int /\ j \in Int /\ queue[i] \in Int /\ queue[j] \in Int
    BY <1>1, Positive DEF Msgs
  <2>2. ~(i < j) /\ ~(j < i)
    BY <2>1 DEF QueueInv
  <2> QED
    BY <2>1, <2>2
<1>3. \A c, d \in Chans : single[c] = m /\ single[d] = m => c = d
  BY <1>1 DEF HeldInv
<1>4. \A c, d \in Chans : \A i \in DOMAIN pushChannel[c], j \in DOMAIN pushChannel[d] :
         pushChannel[c][i] = m /\ pushChannel[d][j] = m => c = d /\ i = j
  BY DEF HeldInv
<1>5. \/ ~Popped(m) /\ arg # m /\ \E i \in DOMAIN queue : queue[i] = m /\ x = <<0, i>>
      \/ ~Popped(m) /\ arg = m /\ x = <<-1, 1>>
      \/ Popped(m) /\ InWorker(m) /\ \E c \in Chans : single[c] = m /\ x = <<-2, c>>
      \/ /\ Popped(m) /\ ~InWorker(m)
         /\ \E c \in Chans : \E i \in DOMAIN pushChannel[c] : pushChannel[c][i] = m /\ x = <<c, i>>
  BY Positions
<1>6. \/ ~Popped(m) /\ arg # m /\ \E i \in DOMAIN queue : queue[i] = m /\ y = <<0, i>>
      \/ ~Popped(m) /\ arg = m /\ y = <<-1, 1>>
      \/ Popped(m) /\ InWorker(m) /\ \E c \in Chans : single[c] = m /\ y = <<-2, c>>
      \/ /\ Popped(m) /\ ~InWorker(m)
         /\ \E c \in Chans : \E i \in DOMAIN pushChannel[c] : pushChannel[c][i] = m /\ y = <<c, i>>
  BY Positions
<1>7. CASE ~Popped(m) /\ arg # m
  BY <1>2, <1>5, <1>6, <1>7
<1>8. CASE ~Popped(m) /\ arg = m
  BY <1>5, <1>6, <1>8
<1>9. CASE Popped(m) /\ InWorker(m)
  BY <1>3, <1>5, <1>6, <1>9
<1>10. CASE Popped(m) /\ ~InWorker(m)
  BY <1>4, <1>5, <1>6, <1>10
<1> QED
  BY <1>7, <1>8, <1>9, <1>10

(* A set all of whose members are equal. *)
LEMMA AtMostOne ==
    ASSUME NEW S, \A x, y \in S : x = y
    PROVE  IsFiniteSet(S) /\ (Cardinality(S) = 0 \/ Cardinality(S) = 1)
<1>1. CASE S = {}
  BY <1>1, FS_EmptySet
<1>2. CASE S # {}
  <2> PICK x : S = {x}
    BY <1>2
  <2>1. IsFiniteSet({x}) /\ Cardinality({x}) = 1
    BY FS_Singleton
  <2> QED
    BY <2>1
<1> QED
  BY <1>1, <1>2

(* A server has got a message once, or twice when a reply was lost. *)
LEMMA ReceivedOnce ==
    ASSUME CopyInv, NEW s \in Servers, NEW m
    PROVE  Received(s, m) <= 1 + lost /\ (Received(s, m) > 0 => \E i \in DOMAIN got[s] : got[s][i] = m)
<1> DEFINE S == At(s, got[s], m)
<1>1. got[s] \in Seq(Msgs) /\ lost \in Nat /\ DOMAIN got[s] \subseteq Int
  <2>1. got[s] \in Seq(Msgs) /\ lost \in Nat
    BY Sizes DEF CopyInv, OrderInv, TypeInv, TypeOK
  <2> QED
    BY <2>1
<1>2. \A x \in S : \E i \in DOMAIN got[s] : got[s][i] = m /\ x = <<s, i>>
  BY DEF At
<1>3. CASE S = {}
  <2>1. Cardinality(S) = 0
    BY <1>3, FS_EmptySet
  <2> QED
    BY <1>1, <2>1 DEF Received
<1>4. CASE S # {}
  <2>1. \E i \in DOMAIN got[s] : got[s][i] = m
    BY <1>2, <1>4
  <2>2. \A i, j \in DOMAIN got[s] : i < j /\ got[s][i] = m /\ got[s][j] = m => j = i + 1 /\ lost > 0
    BY DEF CopyInv, ArrivedInv
  <2>3. CASE lost = 0
    <3>1. \A x, y \in S : x = y
      BY <1>1, <1>2, <2>2, <2>3
    <3>2. Cardinality(S) = 0 \/ Cardinality(S) = 1
      BY <3>1, AtMostOne
    <3> QED
      BY <2>1, <2>3, <3>2 DEF Received
  <2>4. CASE lost # 0
    <3>1. \E a, b : S \subseteq {a, b}
      <4> PICK i \in DOMAIN got[s] : got[s][i] = m
        BY <2>1
      <4>1. CASE \E j \in DOMAIN got[s] : j # i /\ got[s][j] = m
        <5> PICK j \in DOMAIN got[s] : j # i /\ got[s][j] = m
          BY <4>1
        <5>1. \A k \in DOMAIN got[s] : got[s][k] = m => k = i \/ k = j
          <6> SUFFICES ASSUME NEW k \in DOMAIN got[s], got[s][k] = m, k # i, k # j PROVE FALSE
            OBVIOUS
          <6>1. i \in Int /\ j \in Int /\ k \in Int
            BY <1>1
          <6>2. (i < j => j = i + 1) /\ (j < i => i = j + 1)
            BY <2>2
          <6>3. (i < k => k = i + 1) /\ (k < i => i = k + 1)
            BY <2>2
          <6>4. (k < j => j = k + 1) /\ (j < k => k = j + 1)
            BY <2>2
          <6> QED
            BY <6>1, <6>2, <6>3, <6>4
        <5>2. S \subseteq {<<s, i>>, <<s, j>>}
          BY <1>2, <5>1
        <5> QED
          BY <5>2
      <4>2. CASE ~\E j \in DOMAIN got[s] : j # i /\ got[s][j] = m
        <5>1. S \subseteq {<<s, i>>, <<s, i>>}
          BY <1>2, <4>2
        <5> QED
          BY <5>1
      <4> QED
        BY <4>1, <4>2
    <3> PICK a, b : S \subseteq {a, b}
      BY <3>1
    <3>2. IsFiniteSet({a}) /\ Cardinality({a}) = 1
      BY FS_Singleton
    <3>3. IsFiniteSet({a} \cup {b}) /\ Cardinality({a} \cup {b}) <= 2
      <4>1. /\ IsFiniteSet({a} \cup {b})
            /\ Cardinality({a} \cup {b}) = IF b \in {a} THEN Cardinality({a}) ELSE Cardinality({a}) + 1
        BY <3>2, FS_AddElement
      <4> QED
        BY <3>2, <4>1
    <3>4. {a, b} = {a} \cup {b}
      OBVIOUS
    <3>5. IsFiniteSet(S) /\ Cardinality(S) <= Cardinality({a} \cup {b})
      BY <3>3, <3>4, FS_Subset
    <3>6. Cardinality(S) \in Nat /\ Cardinality({a} \cup {b}) \in Nat
      BY <3>3, <3>5, FS_CardinalityType
    <3>7. \A n, k, l \in Nat : n <= k /\ k <= 2 /\ l # 0 => n <= 1 + l
      OBVIOUS
    <3>8. Cardinality(S) <= 1 + lost
      <4> HIDE DEF S
      <4> QED
        BY <1>1, <2>4, <3>3, <3>5, <3>6, <3>7
    <3> QED
      BY <2>1, <3>8 DEF Received
  <2> QED
    BY <2>3, <2>4
<1> QED
  BY <1>3, <1>4

(* Whatever servers come and go, whichever calls are repeated: a message is in one place of
   the process or of redis at a time; one for a user arrives at the server it names alone,
   has left the process by then, and arrives a second time only after a lost reply. *)
THEOREM MessagesAreNotCopied == Spec => []OneCopy
<1>1. CopyInv => OneCopy
  <2> SUFFICES ASSUME CopyInv, NEW m \in DOMAIN dest
               PROVE  /\ Cardinality(Places(m)) <= 1
                      /\ \A s \in Servers :
                            /\ Received(s, m) <= 1 + lost
                            /\ dest[m] # Everyone /\ Received(s, m) > 0 => dest[m] = s /\ Places(m) = {}
    BY DEF OneCopy
  <2>1. Cardinality(Places(m)) <= 1
    <3>1. \A x, y \in Places(m) : x = y
      BY OnePlace
    <3>2. Cardinality(Places(m)) = 0 \/ Cardinality(Places(m)) = 1
      BY <3>1, AtMostOne
    <3> QED
      BY <3>2
  <2>2. ASSUME NEW s \in Servers, dest[m] # Everyone, Received(s, m) > 0
        PROVE  dest[m] = s /\ Places(m) = {}
    <3> PICK i \in DOMAIN got[s] : got[s][i] = m
      BY <2>2, ReceivedOnce
    <3>1. dest[m] = s /\ Popped(m) /\ ~InChannel(m) /\ ~InWorker(m)
      BY <2>2 DEF CopyInv, ArrivedInv
    <3>2. ASSUME NEW x \in Places(m) PROVE FALSE
      <4>1. \/ ~Popped(m)
            \/ InWorker(m)
            \/ \E c \in Chans : \E j \in DOMAIN pushChannel[c] : pushChannel[c][j] = m
        BY Positions
      <4> QED
        BY <3>1, <4>1 DEF InChannel
    <3> QED
      BY <3>1, <3>2
  <2> QED
    BY <2>1, <2>2, ReceivedOnce
<1> QED
  BY <1>1, CopyInit, CopyStep, PTL DEF Spec

-----------------------------------------------------------------------------
(***************************************************************************)
(* The steady state                                                        *)
(***************************************************************************)

(* The clients are those of all servers, and every message has a destination. *)
RoutedInv ==
    /\ run = "started" /\ registered = Servers /\ ServerInsMap = Servers /\ ~panicked
    /\ \A m \in DOMAIN dest : dest[m] \in Servers \cup {Everyone}

(* A broadcast leaves out no server: before the calls all are still to be collected or have
   been, and one that is not to be called any more has heard the message. *)
RoundInv ==
    /\ consumer \in {"32", "65"} => arg = 0 \/ dest[arg] # Everyone
    /\ consumer = "64" => Servers \subseteq ids \cup rpcList
    /\ consumer = "249" => \A s \in Servers : s \in rpcList \/ arg \in Heard(s)

(* But for the one under way, a room message one server has heard all have. *)
AlikeInv == \A s, t \in Servers : \A m \in Heard(t) : m = arg \/ m \in Heard(s)

SteadyInv == OrderInv /\ RoutedInv /\ RoundInv /\ AlikeInv

(* A message that has been heard was called, and stays heard. *)
LEMMA HeardMeans ==
    ASSUME NEW s \in Servers, NEW m
    PROVE  m \in Heard(s) <=> \E i \in DOMAIN got[s] : got[s][i] = m /\ dest[m] = Everyone
BY DEF Heard

(* What a call adds to what the servers have heard: its message, if that is for everyone, at
   the server called. *)
LEMMA HeardOfCall ==
    ASSUME TypeOK, registered = Servers, dest' = dest, NEW t \in Servers, NEW m \in Msgs, Call(t, m), NEW s \in Servers
    PROVE  /\ Heard(s)' \ {m} = Heard(s) \ {m}
           /\ Heard(s) \subseteq Heard(s)'
           /\ dest[m] = Everyone => m \in Heard(t)'
           /\ dest[m] # Everyone \/ s # t => Heard(s)' = Heard(s)
<1>1. got \in [Servers -> Seq(Msgs)] /\ got[s] \in Seq(Msgs) /\ got[t] \in Seq(Msgs)
  BY DEF TypeOK
<1>2. \E x \in Seq(Msgs) : (x = <<m>> \/ x = <<m, m>>) /\ got' = [got EXCEPT ![t] = @ \o x]
  <2>1. <<m>> \in Seq(Msgs) /\ <<m, m>> \in Seq(Msgs) /\ Append(got[t], m) = got[t] \o <<m>>
    BY <1>1
  <2> QED
    BY <1>1, <2>1 DEF Call
<1> PICK x \in Seq(Msgs) : (x = <<m>> \/ x = <<m, m>>) /\ got' = [got EXCEPT ![t] = @ \o x]
  BY <1>2
<1>3. /\ \A i \in DOMAIN got[t] : i \in DOMAIN (got[t] \o x) /\ (got[t] \o x)[i] = got[t][i]
      /\ \A i \in DOMAIN (got[t] \o x) : (i \in DOMAIN got[t] /\ (got[t] \o x)[i] = got[t][i]) \/ (got[t] \o x)[i] = m
      /\ \E i \in DOMAIN (got[t] \o x) : (got[t] \o x)[i] = m
  <2>1. CASE x = <<m>>
    <3>1. Len(got[t]) + 1 \in DOMAIN (got[t] \o x) /\ (got[t] \o x)[Len(got[t]) + 1] = m
      BY <1>1, <2>1
    <3>2. \A i \in DOMAIN got[t] : i \in DOMAIN (got[t] \o x) /\ (got[t] \o x)[i] = got[t][i]
      BY <1>1, <2>1
    <3>3. \A i \in DOMAIN (got[t] \o x) : (i \in DOMAIN got[t] /\ (got[t] \o x)[i] = got[t][i]) \/ (got[t] \o x)[i] = m
      BY <1>1, <2>1
    <3> QED
      BY <3>1, <3>2, <3>3
  <2>2. CASE x = <<m, m>>
    <3>1. Len(got[t]) + 1 \in DOMAIN (got[t] \o x) /\ (got[t] \o x)[Len(got[t]) + 1] = m
      BY <1>1, <2>2
    <3>2. \A i \in DOMAIN got[t] : i \in DOMAIN (got[t] \o x) /\ (got[t] \o x)[i] = got[t][i]
      BY <1>1, <2>2
    <3>3. \A i \in DOMAIN (got[t] \o x) : (i \in DOMAIN got[t] /\ (got[t] \o x)[i] = got[t][i]) \/ (got[t] \o x)[i] = m
      BY <1>1, <2>2
    <3> QED
      BY <3>1, <3>2, <3>3
  <2> QED
    BY <2>1, <2>2
<1>4. got'[t] = got[t] \o x /\ (s # t => got'[s] = got[s])
  BY <1>1
<1>5. \A k : k \in Heard(s)' <=> \E i \in DOMAIN got'[s] : got'[s][i] = k /\ dest[k] = Everyone
  BY DEF Heard
<1>6. \A k : k \in Heard(t)' <=> \E i \in DOMAIN got'[t] : got'[t][i] = k /\ dest[k] = Everyone
  BY DEF Heard
<1>7. \A k : k \in Heard(s) <=> \E i \in DOMAIN got[s] : got[s][i] = k /\ dest[k] = Everyone
  BY DEF Heard
<1>8. dest[m] = Everyone => m \in Heard(t)'
  BY <1>3, <1>4, <1>6
<1>9. CASE s # t
  BY <1>4, <1>5, <1>7, <1>8, <1>9
<1>10. CASE s = t
  <2>1. \A k : k \in Heard(s) => k \in Heard(s)'
    BY <1>3, <1>4, <1>5, <1>7, <1>10
  <2>2. \A k : k \in Heard(s)' => k \in Heard(s) \/ (k = m /\ dest[m] = Everyone)
    BY <1>3, <1>4, <1>5, <1>7, <1>10
  <2> QED
    BY <1>8, <1>10, <2>1, <2>2
<1> QED
  BY <1>9, <1>10

(* A message that is pushed changes nothing of what was heard. *)
LEMMA HeardOfPublish ==
    ASSUME OrderInv, NEW d \in Servers \cup {Everyone, NoServer}, Publish(d), NEW s \in Servers
    PROVE  Heard(s)' = Heard(s)
<1>1. \A m \in DOMAIN dest : dest'[m] = dest[m]
  BY DEF Publish, OrderInv, TypeInv, TypeOK
<1>2. \A i \in DOMAIN got[s] : got[s][i] \in DOMAIN dest
  BY DEF OrderInv, GotInv
<1>3. got' = got
  BY DEF Publish
<1> QED
  BY <1>1, <1>2, <1>3 DEF Heard

LEMMA SteadyInit == InitStarted => SteadyInv
<1> SUFFICES ASSUME InitStarted PROVE SteadyInv
  OBVIOUS
<1>1. /\ dest = <<>> /\ arg = 0 /\ consumer = "32" /\ run = "started" /\ panicked = FALSE
      /\ registered = Servers /\ ServerInsMap = Servers
      /\ \A s \in Servers : got[s] = <<>>
  BY DEF InitStarted, Idle
<1>2. \A s \in Servers : Heard(s) = {}
  BY <1>1 DEF Heard
<1> QED
  BY <1>1, <1>2, OrderInit DEF SteadyInv, RoutedInv, RoundInv, AlikeInv

(* Steps that leave with the servers what they have, and the consumer with its message. *)
LEMMA HeardKept ==
    ASSUME AlikeInv, UNCHANGED <<dest, arg, got>>
    PROVE  AlikeInv' /\ \A s \in Servers : Heard(s)' = Heard(s)
<1>1. \A s \in Servers : Heard(s)' = Heard(s)
  BY DEF Heard
<1> QED
  BY <1>1 DEF AlikeInv

LEMMA RoutedStep ==
    ASSUME SteadyInv, SteadyNext
    PROVE  RoutedInv'
<1>1. TypeOK /\ TypeInv /\ SinglesInv /\ RoutedInv
  BY DEF SteadyInv, OrderInv, TypeInv
<1>2. CASE Start
  BY <1>1, <1>2 DEF RoutedInv, Start, StartConsumer, CheckServices, GetServices, AddClient, MakeChannel
<1>3. CASE WatchServicesChange
  BY <1>1, <1>3 DEF RoutedInv, WatchServicesChange
<1>4. CASE ConsumerStep
  BY <1>1, <1>4 DEF RoutedInv, ConsumerStep, BRPop, SendSingle, CollectClient, Collected, CallRoom, BroadcastDone
<1>5. ASSUME NEW c \in Chans, WorkerStep(c) PROVE RoutedInv'
  <2>1. CASE LookupClient(c)
    <3>1. dest[single[c]] \in ServerInsMap
      <4>1. single[c] # 0
        BY <1>1, <2>1 DEF LookupClient, TypeInv, InHand
      <4> QED
        BY <1>1, <4>1 DEF RoutedInv, SinglesInv
    <3> QED
      BY <1>1, <2>1, <3>1 DEF LookupClient, RoutedInv
  <2> QED
    BY <1>1, <1>5, <2>1 DEF WorkerStep, TakeSingle, CallSingle, RoutedInv
<1>6. ASSUME NEW d \in Servers \cup {Everyone}, Publish(d) PROVE RoutedInv'
  <2>1. UNCHANGED <<run, registered, ServerInsMap, panicked>> /\ dest' = Append(dest, d)
    BY <1>6 DEF Publish
  <2>2. \A m \in DOMAIN Append(dest, d) : (m \in DOMAIN dest /\ Append(dest, d)[m] = dest[m]) \/ Append(dest, d)[m] = d
    BY <1>1 DEF TypeOK
  <2> QED
    BY <1>1, <2>1, <2>2 DEF RoutedInv
<1> QED
  BY <1>2, <1>3, <1>4, <1>5, <1>6 DEF SteadyNext, Process

LEMMA RoundStep ==
    ASSUME SteadyInv, SteadyNext
    PROVE  RoundInv' /\ AlikeInv'
<1>1. TypeOK /\ TypeInv /\ QueueInv /\ SinglesInv /\ RoutedInv /\ RoundInv /\ AlikeInv /\ OrderInv
  BY DEF SteadyInv, OrderInv, TypeInv
<1>2. CASE Start
  BY <1>1, <1>2 DEF RoutedInv, Start, StartConsumer, CheckServices, GetServices, AddClient, MakeChannel
<1>3. CASE WatchServicesChange
  BY <1>1, <1>3 DEF RoutedInv, WatchServicesChange
<1>4. CASE BRPop
  <2>1. UNCHANGED <<dest, got, rpcList>> /\ consumer = "32"
    BY <1>4 DEF BRPop
  <2>2. \A s \in Servers : Heard(s)' = Heard(s)
    BY <2>1 DEF Heard
  <2>3. \A s \in Servers : arg \notin Heard(s)
    <3>1. ASSUME NEW s \in Servers, arg \in Heard(s) PROVE FALSE
      <4>1. PICK i \in DOMAIN got[s] : got[s][i] = arg /\ dest[arg] = Everyone
        BY <3>1, HeardMeans
      <4>2. arg # 0
        BY <1>1, <4>1, Positive DEF TypeOK
      <4> QED
        BY <1>1, <2>1, <4>1, <4>2 DEF RoundInv
    <3> QED
      BY <3>1
  <2>4. AlikeInv'
    <3>1. \A s, t \in Servers : \A m \in Heard(t) : m \in Heard(s)
      BY <1>1, <2>3 DEF AlikeInv
    <3> QED
      BY <2>2, <3>1 DEF AlikeInv
  <2>5. RoundInv'
    BY <1>1, <1>4 DEF BRPop, RoundInv, RoutedInv
  <2> QED
    BY <2>4, <2>5
<1>5. CASE SendSingle
  <2>1. UNCHANGED <<dest, got>> /\ consumer = "65" /\ consumer' = "32" /\ arg' = 0
    BY <1>5 DEF SendSingle
  <2>2. \A s \in Servers : Heard(s)' = Heard(s)
    BY <2>1 DEF Heard
  <2>3. \A s \in Servers : arg \notin Heard(s)
    BY <1>1, <2>1, HeardMeans DEF SinglesInv
  <2>4. \A s, t \in Servers : \A m \in Heard(t) : m \in Heard(s)
    BY <1>1, <2>3 DEF AlikeInv
  <2> QED
    BY <2>1, <2>2, <2>4 DEF AlikeInv, RoundInv
<1>6. ASSUME NEW s \in Servers, CollectClient(s) PROVE RoundInv' /\ AlikeInv'
  <2>1. UNCHANGED <<dest, got, arg, consumer>> /\ consumer = "64"
    BY <1>6 DEF CollectClient
  <2>2. ids' = ids \ {s} /\ rpcList' = rpcList \cup {s}
    BY <1>1, <1>6 DEF CollectClient, RoutedInv
  <2> QED
    BY <1>1, <2>1, <2>2, HeardKept DEF RoundInv
<1>7. CASE Collected
  BY <1>1, <1>7, HeardKept DEF Collected, RoundInv
<1>8. ASSUME NEW s \in Servers, CallRoom(s) PROVE RoundInv' /\ AlikeInv'
  <2>1. UNCHANGED <<dest, arg, consumer>> /\ consumer = "249" /\ rpcList' = rpcList \ {s} /\ Call(s, arg)
    BY <1>8 DEF CallRoom
  <2>2. arg \in Msgs /\ dest[arg] = Everyone
    BY <1>1, <2>1, Sizes DEF TypeInv, InHand, TypeOK, Msgs, SinglesInv
  <2>3. \A t \in Servers : Heard(t)' \ {arg} = Heard(t) \ {arg} /\ Heard(t) \subseteq Heard(t)'
    BY <1>1, <2>1, <2>2, HeardOfCall DEF RoutedInv
  <2>4. arg \in Heard(s)'
    BY <1>1, <2>1, <2>2, HeardOfCall DEF RoutedInv
  <2>5. RoundInv'
    BY <1>1, <2>1, <2>3, <2>4 DEF RoundInv
  <2>6. AlikeInv'
    BY <1>1, <2>1, <2>3 DEF AlikeInv
  <2> QED
    BY <2>5, <2>6
<1>9. CASE BroadcastDone
  <2>1. UNCHANGED <<dest, got>> /\ consumer = "249" /\ consumer' = "32" /\ arg' = 0 /\ rpcList = {}
    BY <1>9 DEF BroadcastDone
  <2>2. \A s \in Servers : Heard(s)' = Heard(s)
    BY <2>1 DEF Heard
  <2>3. \A s \in Servers : arg \in Heard(s)
    BY <1>1, <2>1 DEF RoundInv
  <2>4. \A s, t \in Servers : \A m \in Heard(t) : m \in Heard(s)
    BY <1>1, <2>3 DEF AlikeInv
  <2> QED
    BY <2>1, <2>2, <2>4 DEF AlikeInv, RoundInv
<1>10. ASSUME NEW c \in Chans, WorkerStep(c) PROVE RoundInv' /\ AlikeInv'
  <2>1. UNCHANGED <<dest, arg, consumer, ids, rpcList>>
    BY <1>10 DEF WorkerStep, TakeSingle, LookupClient, CallSingle
  <2>2. \A s \in Servers : Heard(s)' = Heard(s)
    <3>1. CASE TakeSingle(c) \/ LookupClient(c)
      BY <3>1 DEF TakeSingle, LookupClient, Heard
    <3>2. CASE CallSingle(c)
      <4>1. single[c] \in Msgs /\ dest[single[c]] # Everyone /\ single[c] \in DOMAIN dest
        BY <1>1, <3>2, Sizes DEF CallSingle, TypeInv, InHand, TypeOK, Msgs, SinglesInv
      <4>2. dest[single[c]] \in Servers /\ Call(dest[single[c]], single[c])
        BY <1>1, <3>2, <4>1 DEF CallSingle, RoutedInv
      <4> QED
        BY <1>1, <2>1, <4>1, <4>2, HeardOfCall DEF RoutedInv
    <3> QED
      BY <1>10, <3>1, <3>2 DEF WorkerStep
  <2> QED
    BY <1>1, <2>1, <2>2 DEF AlikeInv, RoundInv
<1>11. ASSUME NEW d \in Servers \cup {Everyone}, Publish(d) PROVE RoundInv' /\ AlikeInv'
  <2>1. UNCHANGED <<arg, consumer, ids, rpcList>>
    BY <1>11 DEF Publish
  <2>2. \A s \in Servers : Heard(s)' = Heard(s)
    BY <1>1, <1>11, HeardOfPublish
  <2>3. arg # 0 => dest'[arg] = dest[arg]
    BY <1>1, <1>11 DEF Publish, QueueInv, TypeOK
  <2> QED
    BY <1>1, <2>1, <2>2, <2>3 DEF AlikeInv, RoundInv
<1> QED
  BY <1>2, <1>3, <1>4, <1>5, <1>6, <1>7, <1>8, <1>9, <1>10, <1>11 DEF SteadyNext, Process, ConsumerStep

LEMMA SteadyStep == SteadyInv /\ [SteadyNext]_vars => SteadyInv'
<1> SUFFICES ASSUME SteadyInv, [SteadyNext]_vars PROVE SteadyInv'
  OBVIOUS
<1>1. CASE SteadyNext
  <2>1. Next
    BY <1>1 DEF SteadyNext, Next
  <2> QED
    BY <1>1, <2>1, OrderStep, RoutedStep, RoundStep DEF SteadyInv
<1>2. CASE UNCHANGED vars
  <2>1. OrderInv'
    BY <1>2, OrderStep DEF SteadyInv
  <2>2. RoutedInv'
    BY <1>2 DEF vars, SteadyInv, RoutedInv
  <2>3. RoundInv' /\ AlikeInv'
    BY <1>2, HeardKept DEF vars, SteadyInv, RoundInv
  <2> QED
    BY <2>1, <2>2, <2>3 DEF SteadyInv
<1> QED
  BY <1>1, <1>2

(* Once the process has started, and while the servers stay up, they hear the same room
   messages: a broadcast collects and calls them all before the next message is popped, so
   that a server lags behind another by the newest message at most. *)
THEOREM RoomsAlike == SteadySpec => []SameRooms
<1>1. SteadyInv => SameRooms
  <2> SUFFICES ASSUME SteadyInv, NEW s \in Servers, NEW t \in Servers, NEW m \in Heard(t) \ Heard(s),
                      NEW k \in Heard(s) \cup Heard(t)
               PROVE  k <= m
    BY DEF SameRooms
  <2>1. m = arg
    BY DEF SteadyInv, AlikeInv
  <2>2. PICK i \in DOMAIN got[t] : got[t][i] = m
    BY HeardMeans
  <2>3. arg # 0
    BY <2>1, <2>2, Positive DEF SteadyInv, OrderInv, TypeInv, TypeOK
  <2>4. PICK u \in Servers : k \in Heard(u)
    OBVIOUS
  <2>5. PICK j \in DOMAIN got[u] : got[u][j] = k /\ dest[k] = Everyone
    BY <2>4, HeardMeans
  <2> QED
    BY <2>1, <2>3, <2>5 DEF SteadyInv, OrderInv, GotInv
<1> QED
  BY <1>1, SteadyInit, SteadyStep, PTL DEF SteadySpec
=============================================================================
