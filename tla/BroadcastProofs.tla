-------------------------- MODULE BroadcastProofs --------------------------
(***************************************************************************)
(* Theorems about Broadcast, for any connections, rooms, buckets, routines *)
(* and sizes of queues and buffers.                                        *)
(***************************************************************************)
EXTENDS Broadcast, FiniteSetTheorems, TLAPS

USE DEF life, fan, out, Objs

LEMMA Sizes ==
    /\ NumBuckets \in Nat /\ NumBuckets # 0 /\ RoutineAmount \in Nat /\ RoutineAmount # 0
    /\ RoutineSize \in Nat /\ RoutineSize # 0 /\ BroadcastSize \in Nat /\ BroadcastSize # 0
    /\ MaxMsgs \in Nat
BY SizesAssumption, MsgsAssumption

LEMMA Places == \A c \in Conns : Bucket[c] \in Buckets /\ RoomOf[c] \in Rooms /\ Place(c) \in Buckets \X Rooms
BY PlacesAssumption DEF Place

(* What Append, Head and Tail make of a list of messages is a list of messages. *)
LEMMA MsgLists ==
    \A s \in Seq(Msgs) :
       /\ \A m \in Msgs : Append(s, m) \in Seq(Msgs) /\ Len(Append(s, m)) = Len(s) + 1
       /\ s # <<>> => Head(s) \in Msgs /\ Tail(s) \in Seq(Msgs) /\ Len(Tail(s)) <= Len(s)
OBVIOUS

LEMMA TailEntries ==
    \A s \in Seq(Msgs) : s # <<>> => \A k \in DOMAIN Tail(s) : k + 1 \in DOMAIN s /\ Tail(s)[k] = s[k + 1]
OBVIOUS

(* A message on its way through the routines is one that was pushed for a room. *)
IsRoomMsg(m) == m \in DOMAIN target /\ target[m] \in Rooms
OnTheWay ==
    /\ call # NoCall => IsRoomMsg(call.msg) /\ call.at # 0
    /\ \A i \in Routines : \A k \in DOMAIN routines[i] : IsRoomMsg(routines[i][k])
    /\ \A i \in Routines : push[i] # Idle => IsRoomMsg(push[i].msg) /\ push[i].room \in Objs
    /\ \A c \in Conns : Registered(c) => Room[c] \in Objs
    /\ Len(target) <= MaxMsgs

TypeInv == TypeOK /\ OnTheWay

(* The numbers of the messages pushed so far are messages. *)
LEMMA Pushed == TypeInv => \A m \in DOMAIN target : m \in Msgs
BY Sizes DEF TypeInv, TypeOK, OnTheWay, Msgs

LEMMA TypeInit == Init => TypeInv
<1> SUFFICES ASSUME Init PROVE TypeInv
  OBVIOUS
<1> USE DEF Init
<1>1. 0 \in 0 .. MaxMsgs /\ 0 \in 0 .. NumBuckets /\ 0 \in 0 .. RoutineAmount - 1
  BY Sizes
<1>2. call \in [msg : 0 .. MaxMsgs, at : 0 .. NumBuckets]
  BY <1>1 DEF NoCall
<1>3. push \in [Routines -> [msg : 0 .. MaxMsgs, room : Objs \cup {None}, todo : SUBSET Conns]]
  BY <1>1 DEF Idle
<1>4. broadcast \in [Conns -> Seq(Msgs)] /\ \A c \in Conns : Len(broadcast[c]) <= BroadcastSize
  BY Sizes
<1>5. TypeOK
  BY <1>1, <1>2, <1>3, <1>4 DEF TypeOK
<1>6. OnTheWay
  BY Sizes DEF OnTheWay, Registered, Put
<1> QED
  BY <1>5, <1>6 DEF TypeInv

(* Channel.Push fills the buffer up to its size. *)
LEMMA ChannelPushKeeps ==
    ASSUME TypeOK, NEW c \in Conns, NEW m \in Msgs, ChannelPush(c, m)
    PROVE  /\ broadcast' \in [Conns -> Seq(Msgs)] /\ \A d \in Conns : Len(broadcast'[d]) <= BroadcastSize
           /\ dropped' \in [Conns -> SUBSET Msgs]
<1>1. broadcast[c] \in Seq(Msgs) /\ Len(broadcast[c]) \in Nat
  BY DEF TypeOK
<1>2. Append(broadcast[c], m) \in Seq(Msgs) /\ Len(Append(broadcast[c], m)) = Len(broadcast[c]) + 1
  BY <1>1, MsgLists
<1>3. CASE Len(broadcast[c]) < BroadcastSize
  <2>1. broadcast' = [broadcast EXCEPT ![c] = Append(@, m)] /\ dropped' = dropped
    BY <1>3 DEF ChannelPush
  <2>2. broadcast' \in [Conns -> Seq(Msgs)]
    BY <1>2, <2>1 DEF TypeOK
  <2>3. \A d \in Conns : Len(broadcast'[d]) <= BroadcastSize
    BY <1>1, <1>2, <1>3, <2>1, Sizes DEF TypeOK
  <2> QED
    BY <2>1, <2>2, <2>3 DEF TypeOK
<1>4. CASE ~(Len(broadcast[c]) < BroadcastSize)
  <2>1. dropped' = [dropped EXCEPT ![c] = @ \cup {m}] /\ broadcast' = broadcast
    BY <1>4 DEF ChannelPush
  <2> QED
    BY <2>1 DEF TypeOK
<1> QED
  BY <1>3, <1>4

LEMMA PutKeeps ==
    ASSUME TypeInv, NEW c \in Conns, BucketPut(c) \/ RoomPut(c)
    PROVE  TypeInv'
<1> USE DEF TypeInv
<1>1. UNCHANGED <<drop, damaged, target, fan, broadcast, out, dropped>>
  BY DEF BucketPut, RoomPut
<1>2. since' \in [Conns -> 0 .. MaxMsgs]
  <2>1. Len(target) \in 0 .. MaxMsgs
    BY Sizes DEF OnTheWay, TypeOK
  <2> QED
    BY <2>1 DEF BucketPut, RoomPut, TypeOK
<1>3. /\ rooms' \in [Buckets \X Rooms -> Objs \cup {None}] /\ Room' \in [Conns -> Objs \cup {None}]
      /\ \A d \in Conns : Room'[d] = Room[d] \/ (d = c /\ Room'[d] \in Objs)
  <2>1. CASE BucketPut(c)
    <3>1. PICK o \in Objs : rooms' = [rooms EXCEPT ![Place(c)] = o] /\ Room' = [Room EXCEPT ![c] = o]
      BY <2>1, Places DEF BucketPut, TypeOK, Objs
    <3> QED
      BY <3>1, Places DEF TypeOK
  <2>2. CASE RoomPut(c)
    BY <2>2 DEF RoomPut, TypeOK
  <2> QED
    BY <2>1, <2>2
<1>4. /\ state' \in [Conns -> {"new", "putting", "in", "refused", "left"}]
      /\ \A d \in Conns : d # c => state'[d] = state[d]
  <2>1. \E t \in {"putting", "in", "refused"} : state' = [state EXCEPT ![c] = t]
    BY DEF BucketPut, RoomPut
  <2> QED
    BY <2>1 DEF TypeOK
<1>5. \A d \in Conns : Registered(d)' => Room'[d] \in Objs
  <2>1. CASE BucketPut(c)
    <3>1. Room'[c] \in Objs
      BY <2>1, Places DEF BucketPut, TypeOK, Objs
    <3> QED
      BY <1>3, <1>4, <3>1 DEF OnTheWay, Registered, Put
  <2>2. CASE RoomPut(c)
    BY <1>3, <1>4, <2>2 DEF RoomPut, OnTheWay, Registered, Put
  <2> QED
    BY <2>1, <2>2
<1>6. TypeOK'
  BY <1>1, <1>2, <1>3, <1>4 DEF TypeOK
<1>7. OnTheWay'
  BY <1>1, <1>5 DEF OnTheWay, IsRoomMsg, Registered, Put
<1> QED
  BY <1>6, <1>7

(* Connections that leave are forgotten; the others keep what they have. *)
LEMMA GoneKeeps ==
    ASSUME TypeInv, NEW S \in SUBSET Conns, Gone(S),
           rooms' \in [Buckets \X Rooms -> Objs \cup {None}], drop' \in [Objs -> BOOLEAN], damaged' \subseteq Objs
    PROVE  TypeInv'
<1> USE DEF TypeInv
<1>1. UNCHANGED <<target, fan, writer>>
  BY DEF Gone
<1>2. /\ state' \in [Conns -> {"new", "putting", "in", "refused", "left"}]
      /\ Room' \in [Conns -> Objs \cup {None}]
      /\ since' \in [Conns -> 0 .. MaxMsgs]
  BY Sizes DEF Gone, TypeOK
<1>3. wire' \in [Conns -> Seq(Msgs)] /\ dropped' \in [Conns -> SUBSET Msgs]
  BY DEF Gone, TypeOK
<1>4. broadcast' \in [Conns -> Seq(Msgs)] /\ \A c \in Conns : Len(broadcast'[c]) <= BroadcastSize
  <2>1. \A c \in Conns : broadcast'[c] = broadcast[c] \/ broadcast'[c] = <<>>
    BY DEF Gone
  <2>2. \A c \in Conns : Len(broadcast'[c]) <= BroadcastSize
    BY <2>1, Sizes DEF TypeOK
  <2> QED
    BY <2>2 DEF Gone, TypeOK
<1>5. \A c \in Conns : Registered(c)' => Room'[c] \in Objs
  BY DEF Gone, OnTheWay, Registered, Put
<1>6. TypeOK'
  BY <1>1, <1>2, <1>3, <1>4 DEF TypeOK
<1>7. OnTheWay'
  BY <1>1, <1>5 DEF OnTheWay, IsRoomMsg, Registered, Put
<1> QED
  BY <1>6, <1>7

LEMMA LeaveKeeps ==
    ASSUME TypeInv, NEW c \in Conns, NEW d \in Conns, Leave(c) \/ LeaveTogether(c, d)
    PROVE  TypeInv'
<1> USE DEF TypeInv
<1>1. Room[c] \in Objs
  BY DEF Leave, LeaveTogether, OnTheWay, Registered
<1>2. rooms' \in [Buckets \X Rooms -> Objs \cup {None}]
  BY Places DEF Leave, LeaveTogether, TypeOK
<1>3. drop' \in [Objs -> BOOLEAN] /\ damaged' \subseteq Objs
  BY <1>1 DEF Leave, LeaveTogether, TypeOK
<1>4. \E S \in SUBSET Conns : Gone(S)
  BY DEF Leave, LeaveTogether
<1> QED
  BY <1>2, <1>3, <1>4, GoneKeeps

(* A message that is pushed is added to those there are. *)
LEMMA TargetGrows ==
    ASSUME TypeInv, NEW t \in Conns \cup Rooms, target' = Append(target, t), Len(target) < MaxMsgs
    PROVE  /\ target' \in Seq(Conns \cup Rooms) /\ Len(target') \in Msgs /\ Len(target') \in DOMAIN target'
           /\ target'[Len(target')] = t /\ Len(target') <= MaxMsgs
           /\ \A m : IsRoomMsg(m) => m \in DOMAIN target' /\ target'[m] \in Rooms
<1>1. target \in Seq(Conns \cup Rooms)
  BY DEF TypeInv, TypeOK
<1>2. Len(target') = Len(target) + 1 /\ Len(target) \in Nat
  BY <1>1
<1>3. Len(target') \in Msgs
  BY <1>2, Sizes DEF Msgs
<1> QED
  BY <1>1, <1>2, <1>3, Sizes DEF IsRoomMsg

LEMMA PushSingleKeeps ==
    ASSUME TypeInv, NEW c \in Conns, PushSingleMsg(c)
    PROVE  TypeInv'
<1> USE DEF TypeInv
<1>1. target' = Append(target, c) /\ Len(target) < MaxMsgs /\ ChannelPush(c, Len(target')) /\ UNCHANGED <<life, fan, out>>
  BY DEF PushSingleMsg
<1>2. /\ broadcast' \in [Conns -> Seq(Msgs)] /\ \A d \in Conns : Len(broadcast'[d]) <= BroadcastSize
      /\ dropped' \in [Conns -> SUBSET Msgs]
  BY <1>1, TargetGrows, ChannelPushKeeps
<1>3. TypeOK'
  BY <1>1, <1>2, TargetGrows DEF TypeOK
<1>4. OnTheWay'
  BY <1>1, TargetGrows DEF OnTheWay, IsRoomMsg, Registered, Put
<1> QED
  BY <1>3, <1>4

LEMMA PushRoomMsgKeeps ==
    ASSUME TypeInv, NEW r \in Rooms, PushRoomMsg(r)
    PROVE  TypeInv'
<1> USE DEF TypeInv
<1>1. /\ target' = Append(target, r) /\ Len(target) < MaxMsgs /\ call' = [msg |-> Len(target'), at |-> 1]
      /\ UNCHANGED <<life, routinesNum, routines, push, broadcast, out, dropped>>
  BY DEF PushRoomMsg
<1>2. call' \in [msg : 0 .. MaxMsgs, at : 0 .. NumBuckets]
  BY <1>1, TargetGrows, Sizes DEF Msgs
<1>3. TypeOK'
  BY <1>1, <1>2, TargetGrows DEF TypeOK
<1>4. OnTheWay'
  BY <1>1, TargetGrows DEF OnTheWay, IsRoomMsg, Registered, Put
<1> QED
  BY <1>3, <1>4

LEMMA BroadcastRoomKeeps ==
    ASSUME TypeInv, BroadcastRoom
    PROVE  TypeInv'
<1> USE DEF TypeInv
<1> DEFINE num == (routinesNum[call.at] + 1) % RoutineAmount
           i   == <<call.at, num>>
<1>1. /\ call # NoCall
      /\ routinesNum' = [routinesNum EXCEPT ![call.at] = num]
      /\ routines' = [routines EXCEPT ![i] = Append(@, call.msg)]
      /\ call' = IF call.at = NumBuckets THEN NoCall ELSE [call EXCEPT !.at = @ + 1]
      /\ UNCHANGED <<life, target, push, broadcast, out, dropped>>
  BY DEF BroadcastRoom
<1>2. IsRoomMsg(call.msg) /\ call.msg \in Msgs /\ call.at \in Buckets
  <2>1. IsRoomMsg(call.msg) /\ call.at # 0 /\ call.at \in 0 .. NumBuckets
    BY <1>1 DEF OnTheWay, TypeOK
  <2>2. call.msg \in Msgs
    BY <2>1, Pushed DEF IsRoomMsg
  <2> QED
    BY <2>1, <2>2, Sizes DEF Buckets
<1>3. num \in 0 .. RoutineAmount - 1
  BY <1>2, Sizes DEF TypeOK
<1>4. i \in Routines /\ routines[i] \in Seq(Msgs)
  BY <1>2, <1>3 DEF Routines, TypeOK
<1> HIDE DEF num, i
<1>5. Append(routines[i], call.msg) \in Seq(Msgs)
  BY <1>2, <1>4, MsgLists
<1>6. call' \in [msg : 0 .. MaxMsgs, at : 0 .. NumBuckets] /\ (call' # NoCall => call'.msg = call.msg /\ call'.at # 0)
  <2>1. CASE call.at = NumBuckets
    BY <1>1, <2>1, Sizes DEF NoCall
  <2>2. CASE call.at # NumBuckets
    <3>1. call.at + 1 \in 0 .. NumBuckets /\ call.at + 1 # 0
      BY <1>2, <2>2, Sizes DEF Buckets
    <3>2. call' = [call EXCEPT !.at = call.at + 1]
      BY <1>1, <2>2
    <3> QED
      BY <3>1, <3>2 DEF TypeOK
  <2> QED
    BY <2>1, <2>2
<1>7. TypeOK'
  BY <1>1, <1>2, <1>3, <1>4, <1>5, <1>6 DEF TypeOK
<1>8. OnTheWay'
  <2>1. ASSUME NEW j \in Routines, NEW k \in DOMAIN routines'[j] PROVE IsRoomMsg(routines'[j][k])
    <3>1. CASE routines'[j] = routines[j]
      BY <2>1, <3>1 DEF OnTheWay
    <3>2. CASE j = i
      <4>1. routines'[i] = Append(routines[i], call.msg)
        BY <1>1, <1>4 DEF TypeOK
      <4> QED
        BY <1>2, <1>4, <2>1, <3>2, <4>1 DEF OnTheWay
    <3> QED
      BY <1>1, <3>1, <3>2 DEF TypeOK
  <2> QED
    BY <1>1, <1>2, <1>6, <2>1 DEF OnTheWay, IsRoomMsg, Registered, Put
<1> QED
  BY <1>7, <1>8

LEMMA TakeKeeps ==
    ASSUME TypeInv, NEW i \in Routines, TakeFromQueue(i)
    PROVE  TypeInv'
<1> USE DEF TypeInv
<1> DEFINE m == Head(routines[i])
           o == rooms[<<i[1], target[m]>>]
<1>1. /\ routines[i] \in Seq(Msgs) /\ routines[i] # <<>>
      /\ push' = [push EXCEPT ![i] = IF o = None THEN Idle ELSE [msg |-> m, room |-> o, todo |-> {}]]
      /\ routines' = [routines EXCEPT ![i] = Tail(@)]
      /\ UNCHANGED <<life, target, call, routinesNum, broadcast, out, dropped>>
  BY DEF TakeFromQueue, TypeOK
<1>2. m \in Msgs /\ Tail(routines[i]) \in Seq(Msgs)
  BY <1>1, MsgLists
<1>3. IsRoomMsg(m)
  BY <1>1 DEF OnTheWay
<1>4. o \in Objs \cup {None}
  BY <1>3 DEF IsRoomMsg, Routines, TypeOK
<1> HIDE DEF m, o
<1>5. push' \in [Routines -> [msg : 0 .. MaxMsgs, room : Objs \cup {None}, todo : SUBSET Conns]]
  <2>1. m \in 0 .. MaxMsgs /\ 0 \in 0 .. MaxMsgs
    BY <1>2, Sizes DEF Msgs
  <2>2. /\ [msg |-> m, room |-> o, todo |-> {}] \in [msg : 0 .. MaxMsgs, room : Objs \cup {None}, todo : SUBSET Conns]
        /\ Idle \in [msg : 0 .. MaxMsgs, room : Objs \cup {None}, todo : SUBSET Conns]
    BY <1>4, <2>1 DEF Idle
  <2> QED
    BY <1>1, <2>2 DEF TypeOK
<1>6. TypeOK'
  BY <1>1, <1>2, <1>5 DEF TypeOK
<1>7. OnTheWay'
  <2>1. ASSUME NEW j \in Routines, NEW k \in DOMAIN routines'[j] PROVE IsRoomMsg(routines'[j][k])
    <3>1. CASE j # i
      BY <1>1, <2>1, <3>1 DEF OnTheWay, TypeOK
    <3>2. CASE j = i
      <4>1. routines'[i] = Tail(routines[i])
        BY <1>1 DEF TypeOK
      <4>2. k + 1 \in DOMAIN routines[i] /\ routines'[i][k] = routines[i][k + 1]
        <5>1. k \in DOMAIN Tail(routines[i])
          BY <2>1, <3>2, <4>1
        <5> QED
          BY <1>1, <4>1, <5>1, TailEntries
      <4> QED
        BY <3>2, <4>2 DEF OnTheWay
    <3> QED
      BY <3>1, <3>2
  <2>2. \A j \in Routines : push'[j] # Idle => IsRoomMsg(push'[j].msg) /\ push'[j].room \in Objs
    BY <1>1, <1>3, <1>4 DEF OnTheWay, TypeOK
  <2> QED
    BY <1>1, <2>1, <2>2 DEF OnTheWay, IsRoomMsg, Registered, Put
<1> QED
  BY <1>6, <1>7

(* What becomes of a walk: it goes on with the connections given, or ends. *)
LEMMA WalkGoesOn ==
    ASSUME TypeInv, NEW i \in Routines, push[i] # Idle, NEW todo \in SUBSET Conns,
           push' = [push EXCEPT ![i] = Walk(@, todo)]
    PROVE  /\ push' \in [Routines -> [msg : 0 .. MaxMsgs, room : Objs \cup {None}, todo : SUBSET Conns]]
           /\ \A j \in Routines : j # i => push'[j] = push[j]
           /\ todo = {} => push'[i] = Idle
           /\ todo # {} => /\ push'[i].msg = push[i].msg /\ push'[i].room = push[i].room /\ push'[i].todo = todo
                           /\ push'[i] # Idle
<1> DEFINE T == [msg : 0 .. MaxMsgs, room : Objs \cup {None}, todo : SUBSET Conns]
<1>1. push \in [Routines -> T] /\ push[i] \in T
  BY DEF TypeInv, TypeOK
<1>2. Idle \in T
  BY Sizes DEF Idle
<1>3. [push[i] EXCEPT !.todo = todo] = [msg |-> push[i].msg, room |-> push[i].room, todo |-> todo]
  BY <1>1
<1>4. push'[i] = Walk(push[i], todo) /\ \A j \in Routines : j # i => push'[j] = push[j]
  BY <1>1
<1>5. Walk(push[i], todo) \in T
  BY <1>1, <1>2, <1>3 DEF Walk
<1>6. push' \in [Routines -> T]
  BY <1>1, <1>5
<1> QED
  BY <1>3, <1>4, <1>6 DEF Walk, Idle

LEMMA RLockKeeps ==
    ASSUME TypeInv, NEW i \in Routines, PushRLock(i)
    PROVE  TypeInv'
<1> USE DEF TypeInv
<1>1. /\ push[i] # Idle /\ push' = [push EXCEPT ![i] = Walk(@, Members(push[i].room))]
      /\ UNCHANGED <<life, target, call, routinesNum, routines, broadcast, out, dropped>>
  BY DEF PushRLock, TypeOK
<1>2. Members(push[i].room) \in SUBSET Conns
  BY DEF Members
<1>3. TypeOK'
  BY <1>1, <1>2, WalkGoesOn DEF TypeOK
<1>4. \A j \in Routines : push'[j] # Idle => IsRoomMsg(push'[j].msg) /\ push'[j].room \in Objs
  BY <1>1, <1>2, WalkGoesOn, ZenonT(60) DEF OnTheWay
<1>5. OnTheWay'
  BY <1>1, <1>4 DEF OnTheWay, IsRoomMsg, Registered, Put
<1> QED
  BY <1>3, <1>5

LEMMA PushNextKeeps ==
    ASSUME TypeInv, NEW i \in Routines, PushNext(i)
    PROVE  TypeInv'
<1> USE DEF TypeInv
<1>1. PICK c \in push[i].todo :
         /\ ChannelPush(c, push[i].msg) \/ UNCHANGED <<broadcast, dropped>>
         /\ push' = [push EXCEPT ![i] = Walk(@, push[i].todo \ {c})]
         /\ UNCHANGED <<life, target, call, routinesNum, routines, out>>
  BY DEF PushNext, TypeOK
<1>2. push[i] # Idle /\ push[i].todo \ {c} \in SUBSET Conns /\ c \in Conns
  BY <1>1 DEF Idle, TypeOK
<1>3. IsRoomMsg(push[i].msg) /\ push[i].msg \in Msgs
  BY <1>2, Pushed DEF OnTheWay, IsRoomMsg
<1>4. /\ broadcast' \in [Conns -> Seq(Msgs)] /\ \A d \in Conns : Len(broadcast'[d]) <= BroadcastSize
      /\ dropped' \in [Conns -> SUBSET Msgs]
  BY <1>1, <1>2, <1>3, ChannelPushKeeps DEF TypeOK
<1>5. TypeOK'
  BY <1>1, <1>2, <1>4, WalkGoesOn DEF TypeOK
<1>6. \A j \in Routines : push'[j] # Idle => IsRoomMsg(push'[j].msg) /\ push'[j].room \in Objs
  <2>1. /\ \A j \in Routines : j # i => push'[j] = push[j]
        /\ push'[i] # Idle => push'[i].msg = push[i].msg /\ push'[i].room = push[i].room
    BY <1>1, <1>2, WalkGoesOn
  <2> QED
    BY <1>2, <2>1 DEF OnTheWay
<1>7. OnTheWay'
  BY <1>1, <1>6 DEF OnTheWay, IsRoomMsg, Registered, Put
<1> QED
  BY <1>5, <1>7

LEMMA WriterKeeps ==
    ASSUME TypeInv, NEW c \in Conns, Write(c) \/ WriteFails(c)
    PROVE  TypeInv'
<1> USE DEF TypeInv
<1>1. broadcast[c] \in Seq(Msgs) /\ wire[c] \in Seq(Msgs) /\ Len(broadcast[c]) \in Nat /\ Len(broadcast[c]) <= BroadcastSize
  BY DEF TypeOK
<1>2. broadcast[c] # <<>> =>
         /\ Head(broadcast[c]) \in Msgs /\ Tail(broadcast[c]) \in Seq(Msgs)
         /\ Len(Tail(broadcast[c])) \in Nat /\ Len(Tail(broadcast[c])) <= BroadcastSize
  BY <1>1, Sizes
<1>3. \E s \in Seq(Msgs) : broadcast' = [broadcast EXCEPT ![c] = s] /\ Len(s) <= BroadcastSize
  BY <1>1, <1>2 DEF Write, WriteFails
<1>4. broadcast' \in [Conns -> Seq(Msgs)] /\ \A d \in Conns : Len(broadcast'[d]) <= BroadcastSize
  BY <1>3 DEF TypeOK
<1>5. wire' \in [Conns -> Seq(Msgs)]
  <2>1. CASE Write(c)
    <3>1. Append(wire[c], Head(broadcast[c])) \in Seq(Msgs)
      BY <1>1, <1>2, <2>1, MsgLists DEF Write
    <3> QED
      BY <2>1, <3>1 DEF Write, TypeOK
  <2>2. CASE WriteFails(c)
    BY <2>2 DEF WriteFails, TypeOK
  <2> QED
    BY <2>1, <2>2
<1>6. writer' \in [Conns -> {"up", "down"}] /\ UNCHANGED <<life, target, fan, dropped>>
  BY DEF Write, WriteFails, TypeOK
<1>7. TypeOK'
  BY <1>4, <1>5, <1>6 DEF TypeOK
<1>8. OnTheWay'
  BY <1>6 DEF OnTheWay, IsRoomMsg, Registered, Put
<1> QED
  BY <1>7, <1>8

LEMMA TypeStep == TypeInv /\ [Next]_vars => TypeInv'
<1> SUFFICES ASSUME TypeInv, [Next]_vars PROVE TypeInv'
  OBVIOUS
<1>0. ASSUME NEW c \in Conns, NEW d \in Conns, Leave(c) \/ LeaveTogether(c, d) PROVE TypeInv'
  BY <1>0, LeaveKeeps
<1>1. ASSUME NEW c \in Conns, BucketPut(c) \/ RoomPut(c) PROVE TypeInv'
  BY <1>1, PutKeeps
<1>2. ASSUME NEW c \in Conns, PushSingleMsg(c) PROVE TypeInv'
  BY <1>2, PushSingleKeeps
<1>3. ASSUME NEW c \in Conns, Write(c) \/ WriteFails(c) PROVE TypeInv'
  BY <1>3, WriterKeeps
<1>4. ASSUME NEW r \in Rooms, PushRoomMsg(r) PROVE TypeInv'
  BY <1>4, PushRoomMsgKeeps
<1>5. CASE BroadcastRoom
  BY <1>5, BroadcastRoomKeeps
<1>6. ASSUME NEW i \in Routines, RoutineStep(i) PROVE TypeInv'
  BY <1>6, TakeKeeps, RLockKeeps, PushNextKeeps DEF RoutineStep
<1>7. CASE UNCHANGED vars
  <2>1. TypeOK'
    BY <1>7 DEF vars, TypeInv, TypeOK
  <2>2. OnTheWay'
    BY <1>7 DEF vars, TypeInv, OnTheWay, IsRoomMsg, Registered, Put
  <2> QED
    BY <2>1, <2>2 DEF TypeInv
<1> QED
  BY <1>0, <1>1, <1>2, <1>3, <1>4, <1>5, <1>6, <1>7 DEF Next

(* Every variable keeps its type: no buffer grows beyond its size, and the routines handle
   nothing but messages that were pushed for a room. *)
THEOREM TypeCorrect == Spec => []TypeOK
<1>1. TypeInv => TypeOK
  BY DEF TypeInv
<1> QED
  BY <1>1, TypeInit, TypeStep, PTL DEF Spec
-----------------------------------------------------------------------------
(***************************************************************************)
(* The order of room messages that share a routine                         *)
(***************************************************************************)

(* The room messages among the first m; RoutineOf counts them. *)
Turns(m) == {k \in 1 .. m : target[k] \in Rooms}
Turn     == Cardinality(Turns(Len(target)))

(* The room call has still to come to bucket b. *)
Comes(b) == call # NoCall /\ call.at <= b

(* The next routine of each bucket is the one of the next message it gets. *)
TurnInv ==
    /\ call # NoCall => Turns(call.msg) = Turns(Len(target))
    /\ \A b \in Buckets : routinesNum[b] = (IF Comes(b) THEN Turn - 1 ELSE Turn) % RoutineAmount

(* The queue of a routine holds messages of its own, in order. *)
QueueInv ==
    \A i \in Routines :
       /\ \A k \in DOMAIN routines[i] : RoutineOf(routines[i][k]) = i[2]
       /\ \A j, k \in DOMAIN routines[i] : j < k => routines[i][j] < routines[i][k]
       /\ Comes(i[1]) => \A k \in DOMAIN routines[i] : routines[i][k] < call.msg

(* A Room object, once made, serves one room of one bucket; a walk is of the room its message
   is for. *)
RoomsInv ==
    /\ \A p \in Buckets \X Rooms : rooms[p] # None => Place(rooms[p]) = p /\ state[rooms[p]] # "new"
    /\ \A c \in Conns : Room[c] # None => Place(Room[c]) = Place(c) /\ state[Room[c]] # "new"
    /\ \A i \in Routines : push[i] # Idle =>
          /\ Place(push[i].room) = <<i[1], target[push[i].msg]>> /\ state[push[i].room] # "new"
          /\ \A c \in push[i].todo : Place(c) = Place(push[i].room)

(* A routine walks with a message of its own, older than those in its queue. *)
WalkInv ==
    \A i \in Routines : push[i] # Idle =>
       /\ RoutineOf(push[i].msg) = i[2]
       /\ \A k \in DOMAIN routines[i] : push[i].msg < routines[i][k]
       /\ Comes(i[1]) => push[i].msg < call.msg

(* The walk of routine i may still come to connection c. *)
Faces(i, c) == push[i] # Idle /\ (push[i].todo = {} \/ c \in push[i].todo)

(* What connection c has got, or lost to a full buffer, is older than what its routine still
   has for it. *)
Older(c, x) ==
    /\ Comes(Bucket[c]) => x < call.msg
    /\ \A i \in Routines : i = <<Bucket[c], RoutineOf(x)>> =>
          /\ \A k \in DOMAIN routines[i] : x < routines[i][k]
          /\ Faces(i, c) => x < push[i].msg

GotInv ==
    \A c \in Conns :
       /\ \A k \in DOMAIN wire[c] : wire[c][k] \in DOMAIN target /\ (IsRoomMsg(wire[c][k]) => Older(c, wire[c][k]))
       /\ \A k \in DOMAIN broadcast[c] :
             broadcast[c][k] \in DOMAIN target /\ (IsRoomMsg(broadcast[c][k]) => Older(c, broadcast[c][k]))
       /\ \A m \in dropped[c] : m \in DOMAIN target /\ (IsRoomMsg(m) => Older(c, m))

(* Message x may come before message y. *)
Before(x, y) == IsRoomMsg(x) /\ IsRoomMsg(y) /\ RoutineOf(x) = RoutineOf(y) => x < y
Ordered(s)   == \A j, k \in DOMAIN s : j < k => Before(s[j], s[k])

LineInv ==
    \A c \in Conns :
       /\ Ordered(wire[c]) /\ Ordered(broadcast[c])
       /\ \A j \in DOMAIN wire[c], k \in DOMAIN broadcast[c] : Before(wire[c][j], broadcast[c][k])

OrderInv == TypeInv /\ TurnInv /\ QueueInv /\ RoomsInv /\ WalkInv /\ GotInv /\ LineInv

-----------------------------------------------------------------------------
LEMMA Division ==
    ASSUME NEW a \in Nat, NEW n \in Nat \ {0}
    PROVE  a \div n \in Int /\ a % n \in 0 .. n - 1 /\ a = n * (a \div n) + (a % n) /\ (a < n => a % n = a)
OBVIOUS

(* A multiple of n that is smaller than n, and greater than -n, is 0. *)
LEMMA SmallMultiple ==
    ASSUME NEW n \in Nat \ {0}, NEW k \in Int, -n < n * k, n * k < n
    PROVE  k = 0
<1>1. CASE k >= 1
  <2>1. n * k >= n
    BY <1>1
  <2> QED
    BY <2>1
<1>2. CASE k <= -1
  <2>1. n * k <= -n
    BY <1>2
  <2> QED
    BY <2>1
<1> QED
  BY <1>1, <1>2

(* The routine after the one of turn a - 1 is the one of turn a. *)
LEMMA NextTurn ==
    ASSUME NEW a \in Nat \ {0}, NEW n \in Nat \ {0}
    PROVE  (((a - 1) % n) + 1) % n = a % n
<1> DEFINE p == (a - 1) \div n
           r == (a - 1) % n
           q == a \div n
           t == a % n
<1>1. p \in Int /\ r \in 0 .. n - 1 /\ a - 1 = n * p + r
  BY Division
<1>2. q \in Int /\ t \in 0 .. n - 1 /\ a = n * q + t
  BY Division
<1>3. \A b \in 0 .. n - 1 : b % n = b
  BY Division
<1>4. n % n = 0
  OBVIOUS
<1> HIDE DEF p, r, q, t
<1>5. n * p \in Int /\ n * q \in Int /\ n * (q - p) = n * q - n * p
  BY <1>1, <1>2
<1>6. n * (q - p) = r + 1 - t
  BY <1>1, <1>2, <1>5
<1>7. CASE r + 1 < n
  <2>1. q - p = 0
    BY <1>1, <1>2, <1>6, <1>7, SmallMultiple
  <2>2. n * (q - p) = 0
    BY <2>1
  <2> QED
    <3>1. t = r + 1 /\ r + 1 \in 0 .. n - 1
      BY <1>1, <1>2, <1>6, <1>7, <2>2
    <3>2. (r + 1) % n = r + 1
      BY <1>3, <3>1
    <3> QED
      BY <3>1, <3>2 DEF r, t
<1>8. CASE r + 1 = n
  <2>1. SUFFICES ASSUME t # 0 PROVE FALSE
    BY <1>4, <1>8 DEF r, t
  <2>2. q - p = 0
    BY <1>1, <1>2, <1>6, <1>8, <2>1, SmallMultiple
  <2>3. n * (q - p) = 0
    BY <2>2
  <2> QED
    BY <1>1, <1>2, <1>6, <1>8, <2>1, <2>3
<1> QED
  BY <1>1, <1>7, <1>8

(* Turns are counted with a number. *)
LEMMA TurnsCount ==
    \A m \in Nat : IsFiniteSet(Turns(m)) /\ Cardinality(Turns(m)) \in Nat
<1> SUFFICES ASSUME NEW m \in Nat PROVE IsFiniteSet(Turns(m)) /\ Cardinality(Turns(m)) \in Nat
  OBVIOUS
<1>1. IsFiniteSet(1 .. m)
  BY FS_Interval
<1>2. IsFiniteSet(Turns(m))
  BY <1>1, FS_Subset DEF Turns
<1> QED
  BY <1>2, FS_CardinalityType

(* What Append, Head and Tail do to the entries of a list. *)
LEMMA MsgEntries ==
    \A s \in Seq(Msgs) :
       /\ Len(s) \in Nat /\ DOMAIN s = 1 .. Len(s)
       /\ \A m \in Msgs : \A k \in DOMAIN Append(s, m) :
             \/ k \in DOMAIN s /\ Append(s, m)[k] = s[k]
             \/ k = Len(s) + 1 /\ Append(s, m)[k] = m
       /\ s # <<>> => 1 \in DOMAIN s /\ Head(s) = s[1]
OBVIOUS

(* Messages keep their kind and their turn when more are pushed. *)
LEMMA TargetKept ==
    ASSUME TypeInv, NEW t \in Conns \cup Rooms, target' \in {target, Append(target, t)}
    PROVE  /\ \A m \in 0 .. Len(target) : Turns(m)' = Turns(m)
           /\ \A m \in DOMAIN target : /\ m \in DOMAIN target' /\ m \in Nat
                                       /\ IsRoomMsg(m)' <=> IsRoomMsg(m)
                                       /\ RoutineOf(m)' = RoutineOf(m)
<1>1. target \in Seq(Conns \cup Rooms)
  BY DEF TypeInv, TypeOK
<1>2. /\ Len(target) \in Nat /\ DOMAIN target = 1 .. Len(target)
      /\ \A m \in DOMAIN target : m \in DOMAIN target' /\ target'[m] = target[m]
  BY <1>1
<1>3. \A m \in 0 .. Len(target) : \A k \in 1 .. m : target'[k] = target[k]
  BY <1>2
<1>4. \A m \in 0 .. Len(target) : {k \in 1 .. m : target'[k] \in Rooms} = {k \in 1 .. m : target[k] \in Rooms}
  BY <1>3
<1>5. \A m \in DOMAIN target : m \in 0 .. Len(target) /\ m \in Nat
  BY <1>2
<1> QED
  BY <1>2, <1>4, <1>5 DEF Turns, RoutineOf, IsRoomMsg

LEMMA BeforeKept ==
    ASSUME TypeInv, NEW t \in Conns \cup Rooms, target' \in {target, Append(target, t)}
    PROVE  \A x, y \in DOMAIN target : Before(x, y) => Before(x, y)'
BY TargetKept DEF Before

(* A step that leaves the routines and the call alone. *)
LEMMA FanKept ==
    ASSUME OrderInv, NEW t \in Conns \cup Rooms, target' \in {target, Append(target, t)}, UNCHANGED fan
    PROVE  /\ QueueInv' /\ WalkInv'
           /\ \A c \in Conns : \A x \in DOMAIN target : Older(c, x) => Older(c, x)'
<1> USE DEF OrderInv
<1>1. \A i \in Routines : \A k \in DOMAIN routines[i] : routines[i][k] \in DOMAIN target
  BY DEF TypeInv, OnTheWay, IsRoomMsg
<1>2. \A i \in Routines : push[i] # Idle => push[i].msg \in DOMAIN target
  BY DEF TypeInv, OnTheWay, IsRoomMsg
<1>3. QueueInv'
  BY <1>1, TargetKept DEF QueueInv, Comes, NoCall
<1>4. WalkInv'
  BY <1>2, TargetKept DEF WalkInv, Comes, NoCall, Idle
<1>5. \A c \in Conns : \A x \in DOMAIN target : Older(c, x) => Older(c, x)'
  BY TargetKept DEF Older, Comes, NoCall, Faces, Idle
<1> QED
  BY <1>3, <1>4, <1>5

(* A step that leaves the rooms and the walks alone. *)
LEMMA RoomsKept ==
    ASSUME OrderInv, \A m \in DOMAIN target : target'[m] = target[m], UNCHANGED <<life, push>>
    PROVE  RoomsInv'
<1> USE DEF OrderInv
<1>1. \A i \in Routines : push[i] # Idle => target'[push[i].msg] = target[push[i].msg]
  BY DEF TypeInv, OnTheWay, IsRoomMsg
<1>2. \A c : Place(c)' = Place(c)
  BY DEF Place
<1> QED
  BY <1>1, <1>2 DEF RoomsInv, Idle

(* A step that leaves the messages alone, and may forget what a connection has got. *)
LEMMA FanOrder ==
    ASSUME OrderInv, UNCHANGED <<target, fan>>,
           \A c \in Conns : /\ wire'[c] \in {wire[c], <<>>} /\ broadcast'[c] \in {broadcast[c], <<>>}
                            /\ dropped'[c] \in {dropped[c], {}}
    PROVE  TurnInv' /\ QueueInv' /\ WalkInv' /\ GotInv' /\ LineInv'
<1> USE DEF OrderInv
<1>1. QueueInv'
  BY DEF QueueInv, Comes, NoCall, RoutineOf
<1>2. WalkInv'
  BY DEF WalkInv, Comes, NoCall, RoutineOf, Idle
<1>3. \A c \in Conns : \A x \in DOMAIN target : Older(c, x) => Older(c, x)'
  BY DEF Older, Comes, NoCall, RoutineOf, Faces, Idle
<1>4. TurnInv'
  BY DEF TurnInv, Turn, Turns, Comes, NoCall
<1>5. \A x, y : (Before(x, y)' <=> Before(x, y)) /\ (IsRoomMsg(x)' <=> IsRoomMsg(x))
  BY DEF Before, IsRoomMsg, RoutineOf
<1>6. \A c \in Conns : /\ \A k \in DOMAIN wire'[c] : k \in DOMAIN wire[c] /\ wire'[c][k] = wire[c][k]
                       /\ \A k \in DOMAIN broadcast'[c] : k \in DOMAIN broadcast[c] /\ broadcast'[c][k] = broadcast[c][k]
                       /\ dropped'[c] \subseteq dropped[c]
  OBVIOUS
<1>7. GotInv'
  BY <1>3, <1>5, <1>6, ZenonT(60) DEF GotInv
<1>8. LineInv'
  BY <1>5, <1>6 DEF LineInv, Ordered
<1> QED
  BY <1>1, <1>2, <1>4, <1>7, <1>8

LEMMA OrderInit == Init => OrderInv
<1> SUFFICES ASSUME Init PROVE OrderInv
  OBVIOUS
<1> USE DEF Init
<1>1. TurnInv
  <2>1. Len(target) = 0 /\ Turns(0) = {}
    BY DEF Turns
  <2>2. Turn = 0
    BY <2>1, FS_EmptySet DEF Turn
  <2>3. 0 % RoutineAmount = 0
    BY Sizes
  <2> QED
    BY <2>2, <2>3 DEF TurnInv, Comes
<1>2. QueueInv /\ WalkInv
  BY DEF QueueInv, WalkInv
<1>3. RoomsInv
  BY DEF RoomsInv
<1>4. GotInv /\ LineInv
  BY DEF GotInv, LineInv, Ordered
<1> QED
  BY <1>1, <1>2, <1>3, <1>4, TypeInit DEF OrderInv

(* Channel.Push leaves what is in the buffers, and may add its message to one. *)
LEMMA PushEntries ==
    ASSUME TypeOK, NEW c \in Conns, NEW m \in Msgs, ChannelPush(c, m) \/ UNCHANGED <<broadcast, dropped>>
    PROVE  \A d \in Conns : \A k \in DOMAIN broadcast'[d] :
              \/ k \in DOMAIN broadcast[d] /\ broadcast'[d][k] = broadcast[d][k]
              \/ d = c /\ k = Len(broadcast[c]) + 1 /\ broadcast'[d][k] = m
<1>1. \A d \in Conns : broadcast[d] \in Seq(Msgs)
  BY DEF TypeOK
<1>2. broadcast' = broadcast \/ broadcast' = [broadcast EXCEPT ![c] = Append(broadcast[c], m)]
  BY DEF ChannelPush
<1>3. \A k \in DOMAIN Append(broadcast[c], m) :
         \/ k \in DOMAIN broadcast[c] /\ Append(broadcast[c], m)[k] = broadcast[c][k]
         \/ k = Len(broadcast[c]) + 1 /\ Append(broadcast[c], m)[k] = m
  BY <1>1, MsgEntries
<1> QED
  BY <1>2, <1>3 DEF TypeOK

(* What it drops is its message. *)
LEMMA PushDrops ==
    ASSUME TypeOK, NEW c \in Conns, NEW m \in Msgs, ChannelPush(c, m) \/ UNCHANGED <<broadcast, dropped>>
    PROVE  \A d \in Conns : \A x \in dropped'[d] : x \in dropped[d] \/ (d = c /\ x = m)
<1>1. dropped' = dropped \/ dropped' = [dropped EXCEPT ![c] = dropped[c] \cup {m}]
  BY DEF ChannelPush
<1> QED
  BY <1>1 DEF TypeOK

(* A message that comes after all its connection has got is added in order. *)
LEMMA LineGrows ==
    ASSUME OrderInv, NEW t \in Conns \cup Rooms, target' \in {target, Append(target, t)}, wire' = wire,
           NEW c \in Conns, NEW m \in Msgs, ChannelPush(c, m) \/ UNCHANGED <<broadcast, dropped>>,
           \A x \in DOMAIN target : (IsRoomMsg(x) => Older(c, x)) => Before(x, m)'
    PROVE  LineInv'
<1> USE DEF OrderInv, TypeInv
<1>1. \A d \in Conns : /\ \A k \in DOMAIN wire[d] : wire[d][k] \in DOMAIN target
                       /\ \A k \in DOMAIN broadcast[d] : broadcast[d][k] \in DOMAIN target
  BY DEF GotInv
<1>2. \A d \in Conns : DOMAIN broadcast[d] = 1 .. Len(broadcast[d]) /\ Len(broadcast[d]) \in Nat
                       /\ DOMAIN broadcast'[d] \subseteq Int
  <2>1. broadcast' \in [Conns -> Seq(Msgs)]
    BY ChannelPushKeeps DEF TypeOK
  <2> QED
    BY <2>1, MsgEntries DEF TypeOK
<1>3. \A d \in Conns : Ordered(wire[d])'
  BY <1>1, BeforeKept DEF LineInv, Ordered
<1>4. ASSUME NEW d \in Conns, NEW j \in DOMAIN broadcast'[d], NEW k \in DOMAIN broadcast'[d], j < k
      PROVE  Before(broadcast[d][j], broadcast[d][k])'
  <2>1. j \in DOMAIN broadcast[d] /\ broadcast'[d][j] = broadcast[d][j]
    BY <1>2, <1>4, PushEntries
  <2>2. CASE k \in DOMAIN broadcast[d] /\ broadcast'[d][k] = broadcast[d][k]
    BY <1>1, <1>4, <2>1, <2>2, BeforeKept DEF LineInv, Ordered
  <2>3. CASE d = c /\ broadcast'[d][k] = m
    <3>1. broadcast[d][j] \in DOMAIN target /\ (IsRoomMsg(broadcast[d][j]) => Older(d, broadcast[d][j]))
      BY <2>1 DEF GotInv
    <3> QED
      BY <2>1, <2>3, <3>1
  <2> QED
    BY <2>2, <2>3, PushEntries
<1>5. ASSUME NEW d \in Conns, NEW j \in DOMAIN wire[d], NEW k \in DOMAIN broadcast'[d]
      PROVE  Before(wire[d][j], broadcast[d][k])'
  <2>1. CASE k \in DOMAIN broadcast[d] /\ broadcast'[d][k] = broadcast[d][k]
    BY <1>1, <2>1, BeforeKept DEF LineInv
  <2>2. CASE d = c /\ broadcast'[d][k] = m
    <3>1. wire[d][j] \in DOMAIN target /\ (IsRoomMsg(wire[d][j]) => Older(d, wire[d][j]))
      BY DEF GotInv
    <3> QED
      BY <2>2, <3>1
  <2> QED
    BY <2>1, <2>2, PushEntries
<1> QED
  BY <1>3, <1>4, <1>5 DEF LineInv, Ordered

LEMMA PushSingleOrder ==
    ASSUME OrderInv, NEW c \in Conns, PushSingleMsg(c)
    PROVE  OrderInv'
<1> USE DEF OrderInv
<1>0. PICK m \in Msgs : m = Len(target')
  BY TargetGrows DEF PushSingleMsg
<1>1. /\ target' = Append(target, c) /\ Len(target) < MaxMsgs /\ ChannelPush(c, m)
      /\ UNCHANGED <<life, fan, out>>
  BY <1>0 DEF PushSingleMsg
<1>2. m \in Msgs /\ m \in DOMAIN target' /\ target'[m] = c /\ m = Len(target) + 1 /\ Len(target) \in Nat
  <2>1. target \in Seq(Conns \cup Rooms)
    BY DEF TypeInv, TypeOK
  <2> QED
    BY <1>0, <1>1, <2>1, TargetGrows
<1>3. ~IsRoomMsg(m)'
  BY <1>2, TargetsAssumption DEF IsRoomMsg
<1>4. TurnInv'
  <2>1. Turns(m)' = Turns(Len(target))
    <3>1. \A k \in 1 .. Len(target) : target'[k] = target[k]
      BY <1>1 DEF TypeInv, TypeOK
    <3> QED
      BY <1>2, <3>1, TargetsAssumption DEF Turns
  <2>2. Turn' = Turn
    BY <1>0, <2>1 DEF Turn, Turns
  <2>3. call # NoCall => call.msg \in DOMAIN target
    BY DEF TypeInv, OnTheWay, IsRoomMsg
  <2>4. call # NoCall => Turns(call.msg)' = Turns(call.msg)
    <3>1. DOMAIN target = 1 .. Len(target)
      BY DEF TypeInv, TypeOK
    <3>2. \A n \in 0 .. Len(target) : Turns(n)' = Turns(n)
      BY <1>1, TargetKept
    <3> QED
      BY <1>1, <1>2, <2>3, <3>1, <3>2 DEF Turns
  <2>5. Turns(Len(target))' = Turns(m)'
    BY <1>0 DEF Turns
  <2> QED
    BY <1>1, <2>1, <2>2, <2>4, <2>5 DEF TurnInv, Comes, NoCall
<1>5. QueueInv' /\ WalkInv' /\ \A d \in Conns : \A x \in DOMAIN target : Older(d, x) => Older(d, x)'
  BY <1>1, FanKept
<1>6. RoomsInv'
  BY <1>1, RoomsKept DEF TypeInv, TypeOK
<1>7. GotInv'
  <2>1. \A x \in DOMAIN target : x \in DOMAIN target' /\ (IsRoomMsg(x)' => IsRoomMsg(x))
    BY <1>1, TargetKept
  <2>2. \A d \in Conns : \A k \in DOMAIN broadcast'[d] :
           \/ k \in DOMAIN broadcast[d] /\ broadcast'[d][k] = broadcast[d][k]
           \/ broadcast'[d][k] = m
    BY <1>1, <1>2, PushEntries DEF TypeInv
  <2>3. (\A d \in Conns : \A k \in DOMAIN wire[d] : wire[d][k] \in DOMAIN target /\ (IsRoomMsg(wire[d][k]) => Older(d, wire[d][k])))'
    BY <1>1, <1>5, <2>1 DEF GotInv
  <2>4. (\A d \in Conns : \A k \in DOMAIN broadcast[d] :
            broadcast[d][k] \in DOMAIN target /\ (IsRoomMsg(broadcast[d][k]) => Older(d, broadcast[d][k])))'
    BY <1>2, <1>3, <1>5, <2>1, <2>2 DEF GotInv
  <2>5. (\A d \in Conns : \A x \in dropped[d] : x \in DOMAIN target /\ (IsRoomMsg(x) => Older(d, x)))'
    <3>1. \A d \in Conns : \A x \in dropped'[d] : x \in dropped[d] \/ x = m
      BY <1>1, PushDrops DEF TypeInv
    <3> QED
      BY <1>2, <1>3, <1>5, <2>1, <3>1 DEF GotInv
  <2> QED
    BY <2>3, <2>4, <2>5 DEF GotInv
<1>8. LineInv'
  <2>1. \A x : Before(x, m)'
    BY <1>3 DEF Before
  <2> QED
    BY <1>1, <1>2, <2>1, LineGrows
<1> QED
  BY <1>4, <1>5, <1>6, <1>7, <1>8, PushSingleKeeps

LEMMA PushRoomOrder ==
    ASSUME OrderInv, NEW r \in Rooms, PushRoomMsg(r)
    PROVE  OrderInv'
<1> USE DEF OrderInv
<1>0. PICK m \in Msgs : m = Len(target')
  BY TargetGrows DEF PushRoomMsg
<1>1. /\ call = NoCall /\ target' = Append(target, r) /\ call' = [msg |-> m, at |-> 1]
      /\ UNCHANGED <<life, routinesNum, routines, push, broadcast, out, dropped>>
  BY <1>0 DEF PushRoomMsg
<1>2. /\ m \in DOMAIN target' /\ target'[m] = r /\ m = Len(target) + 1 /\ Len(target) \in Nat
      /\ DOMAIN target = 1 .. Len(target) /\ \A k \in 1 .. Len(target) : target'[k] = target[k]
  <2>1. target \in Seq(Conns \cup Rooms)
    BY DEF TypeInv, TypeOK
  <2> QED
    BY <1>0, <1>1, <2>1
<1>3. \A x \in DOMAIN target : x < m
  BY <1>2
<1>4. /\ \A x \in DOMAIN target : x \in DOMAIN target' /\ RoutineOf(x)' = RoutineOf(x)
      /\ \A x \in DOMAIN target : IsRoomMsg(x)' <=> IsRoomMsg(x)
  BY <1>1, TargetKept
<1>5. \A b \in Buckets : ~Comes(b)
  BY <1>1 DEF Comes
<1>6. TurnInv'
  <2>1. Turns(m)' = Turns(Len(target)) \cup {m} /\ m \notin Turns(Len(target))
    BY <1>2 DEF Turns
  <2>2. Cardinality(Turns(m)') = Turn + 1 /\ Turn \in Nat
    BY <1>2, <2>1, TurnsCount, FS_AddElement DEF Turn
  <2>3. Turns(m)' = Turns(Len(target))'
    BY <1>0 DEF Turns
  <2>4. Turn' = Turn + 1
    BY <2>2, <2>3 DEF Turn
  <2>5. call'.msg = m /\ call' # NoCall /\ \A b \in Buckets : Comes(b)'
    BY <1>1, Sizes DEF Comes, NoCall, Buckets, Msgs
  <2>6. \A b \in Buckets : routinesNum'[b] = (Turn' - 1) % RoutineAmount
    BY <1>1, <1>5, <2>2, <2>4 DEF TurnInv
  <2>7. Turns(call.msg)' = Turns(m)'
    BY <2>5 DEF Turns
  <2> QED
    BY <2>3, <2>5, <2>6, <2>7 DEF TurnInv
<1>7. QueueInv'
  <2>1. \A i \in Routines : \A k \in DOMAIN routines[i] : routines[i][k] \in DOMAIN target
    BY DEF TypeInv, OnTheWay, IsRoomMsg
  <2> QED
    BY <1>1, <1>3, <1>4, <2>1 DEF QueueInv
<1>8. RoomsInv'
  BY <1>1, <1>2, RoomsKept
<1>9. WalkInv'
  <2>1. \A i \in Routines : push[i] # Idle => push[i].msg \in DOMAIN target
    BY DEF TypeInv, OnTheWay, IsRoomMsg
  <2> QED
    BY <1>1, <1>3, <1>4, <2>1 DEF WalkInv, Idle
<1>10. \A c \in Conns : \A x \in DOMAIN target : Older(c, x) => Older(c, x)'
  BY <1>1, <1>3, <1>4 DEF Older, Faces, Idle
<1>11. GotInv'
  BY <1>1, <1>4, <1>10 DEF GotInv
<1>12. LineInv'
  BY <1>1, BeforeKept DEF LineInv, Ordered, GotInv
<1> QED
  BY <1>6, <1>7, <1>8, <1>9, <1>11, <1>12, PushRoomMsgKeeps

LEMMA BroadcastOrder ==
    ASSUME OrderInv, BroadcastRoom
    PROVE  OrderInv'
<1> USE DEF OrderInv
<1>0. /\ call # NoCall /\ call.at \in Buckets /\ call.msg \in Msgs
      /\ IsRoomMsg(call.msg) /\ target \in Seq(Conns \cup Rooms)
  <2>1. call # NoCall /\ IsRoomMsg(call.msg) /\ call.at # 0 /\ call.at \in 0 .. NumBuckets
    BY DEF BroadcastRoom, TypeInv, OnTheWay, TypeOK
  <2>2. call.msg \in Msgs
    BY <2>1, Pushed DEF IsRoomMsg
  <2> QED
    BY <2>1, <2>2, Sizes DEF Buckets, TypeInv, TypeOK
<1> PICK b \in Buckets : b = call.at
  BY <1>0
<1> PICK m \in Msgs : m = call.msg
  BY <1>0
<1> PICK num : num = (routinesNum[b] + 1) % RoutineAmount
  OBVIOUS
<1> DEFINE i == <<b, num>>
<1>1. /\ call # NoCall
      /\ routinesNum' = [routinesNum EXCEPT ![b] = num]
      /\ routines' = [routines EXCEPT ![i] = Append(routines[i], m)]
      /\ call' = IF b = NumBuckets THEN NoCall ELSE [call EXCEPT !.at = b + 1]
      /\ UNCHANGED <<life, target, push, broadcast, out, dropped>>
  BY DEF BroadcastRoom
<1>2. /\ IsRoomMsg(m) /\ m \in Msgs /\ b \in Buckets /\ m \in DOMAIN target
      /\ target \in Seq(Conns \cup Rooms)
  BY <1>0 DEF IsRoomMsg
<1>3. Comes(b)
  BY <1>1, <1>2, Sizes DEF Comes, Buckets
<1>4. num = RoutineOf(m)
  <2>1. Turns(m) = Turns(Len(target)) /\ Cardinality(Turns(m)) = Turn
    BY <1>1 DEF TurnInv, Turn
  <2>2. m \in Turns(m) /\ m \in Nat
    BY <1>2 DEF Turns, IsRoomMsg, Msgs
  <2>3. Turn \in Nat \ {0}
    BY <2>1, <2>2, TurnsCount, FS_EmptySet
  <2>4. routinesNum[b] = (Turn - 1) % RoutineAmount
    BY <1>2, <1>3 DEF TurnInv
  <2>5. (((Turn - 1) % RoutineAmount) + 1) % RoutineAmount = Turn % RoutineAmount
    BY <2>3, NextTurn, Sizes
  <2>6. RoutineOf(m) = Turn % RoutineAmount
    BY <2>1 DEF RoutineOf, Turns
  <2> QED
    BY <2>4, <2>5, <2>6
<1>5. num \in 0 .. RoutineAmount - 1 /\ i \in Routines
  <2>1. routinesNum[b] \in 0 .. RoutineAmount - 1
    BY <1>2 DEF TypeInv, TypeOK
  <2>2. num \in 0 .. RoutineAmount - 1
    BY <2>1, Sizes
  <2> QED
    BY <1>2, <2>2 DEF Routines
<1>6. i[1] = b /\ i[2] = num
  OBVIOUS
<1>7. Turn' = Turn /\ (\A x : RoutineOf(x)' = RoutineOf(x) /\ (IsRoomMsg(x)' <=> IsRoomMsg(x)) /\ Turns(x)' = Turns(x))
  BY <1>1 DEF Turn, RoutineOf, IsRoomMsg, Turns
<1>8. /\ ~Comes(b)'
      /\ \A d \in Buckets : d # b => (Comes(d)' <=> Comes(d))
      /\ \A d \in Buckets : Comes(d)' => call'.msg = m
      /\ call' # NoCall => call'.msg = m
  <2>1. CASE b = NumBuckets
    BY <1>1, <1>2, <2>1, Sizes DEF Comes, Buckets
  <2>2. CASE b # NumBuckets
    <3>1. call' = [msg |-> m, at |-> b + 1] /\ call' # NoCall
      <4>1. call \in [msg : 0 .. MaxMsgs, at : 0 .. NumBuckets]
        BY DEF TypeInv, TypeOK
      <4>2. call' = [call EXCEPT !.at = b + 1]
        BY <1>1, <2>2
      <4>3. call' = [msg |-> m, at |-> b + 1]
        BY <4>1, <4>2
      <4> QED
        BY <1>2, <4>3, Sizes DEF NoCall, Msgs
    <3> QED
      BY <1>1, <1>2, <3>1 DEF Comes, Buckets
  <2> QED
    BY <2>1, <2>2
<1> HIDE DEF i
<1>9. \A j \in Routines : \A k \in DOMAIN routines'[j] :
         \/ k \in DOMAIN routines[j] /\ routines'[j][k] = routines[j][k]
         \/ j = i /\ routines'[j][k] = m /\ k = Len(routines[i]) + 1
  <2>1. routines[i] \in Seq(Msgs)
    BY <1>5 DEF TypeInv, TypeOK
  <2>2. \A k \in DOMAIN Append(routines[i], m) :
           \/ k \in DOMAIN routines[i] /\ Append(routines[i], m)[k] = routines[i][k]
           \/ k = Len(routines[i]) + 1 /\ Append(routines[i], m)[k] = m
    BY <1>2, <2>1, MsgEntries
  <2> QED
    BY <1>1, <1>5, <2>2 DEF TypeInv, TypeOK
<1>10. \A j \in Routines : DOMAIN routines[j] = 1 .. Len(routines[j]) /\ Len(routines[j]) \in Nat /\ DOMAIN routines'[j] \subseteq Int
  <2>1. routines' \in [Routines -> Seq(Msgs)]
    BY BroadcastRoomKeeps DEF TypeInv, TypeOK
  <2> QED
    BY <2>1, MsgEntries DEF TypeInv, TypeOK
<1>11. TurnInv'
  <2>1. \A d \in Buckets : routinesNum'[d] = (IF Comes(d)' THEN Turn - 1 ELSE Turn) % RoutineAmount
    <3>1. routinesNum'[b] = Turn % RoutineAmount
      <4>1. num = Turn % RoutineAmount
        BY <1>1, <1>4 DEF TurnInv, Turn, RoutineOf, Turns
      <4> QED
        BY <1>1, <1>2, <4>1 DEF TypeInv, TypeOK
    <3>2. \A d \in Buckets : d # b => routinesNum'[d] = routinesNum[d]
      BY <1>1 DEF TypeInv, TypeOK
    <3> QED
      BY <1>8, <3>1, <3>2 DEF TurnInv
  <2>2. call' # NoCall => Turns(call.msg)' = Turns(Len(target))'
    BY <1>1, <1>7, <1>8 DEF TurnInv
  <2> QED
    BY <1>7, <2>1, <2>2 DEF TurnInv
<1>12. QueueInv'
  <2>1. \A j \in Routines : \A k \in DOMAIN routines'[j] : RoutineOf(routines[j][k])' = j[2]
    BY <1>4, <1>6, <1>7, <1>9 DEF QueueInv
  <2>2. ASSUME NEW j \in Routines, NEW k \in DOMAIN routines'[j], NEW n \in DOMAIN routines'[j], k < n
        PROVE  routines'[j][k] < routines'[j][n]
    <3>1. k \in DOMAIN routines[j] /\ routines'[j][k] = routines[j][k]
      BY <1>9, <1>10, <2>2
    <3>2. CASE n \in DOMAIN routines[j] /\ routines'[j][n] = routines[j][n]
      BY <2>2, <3>1, <3>2 DEF QueueInv
    <3>3. CASE j = i /\ routines'[j][n] = m
      BY <1>3, <1>6, <3>1, <3>3 DEF QueueInv
    <3> QED
      BY <1>9, <3>2, <3>3
  <2>3. \A j \in Routines : Comes(j[1])' => \A k \in DOMAIN routines'[j] : routines'[j][k] < call'.msg
    <3> SUFFICES ASSUME NEW j \in Routines, Comes(j[1])', NEW k \in DOMAIN routines'[j]
                 PROVE  routines'[j][k] < call'.msg
      OBVIOUS
    <3>1. j[1] \in Buckets /\ j[1] # b /\ j # i /\ call'.msg = m
      <4>1. j[1] \in Buckets
        BY DEF Routines
      <4>2. j[1] # b
        BY <1>8
      <4> QED
        BY <1>6, <1>8, <4>1, <4>2
    <3>2. Comes(j[1]) /\ k \in DOMAIN routines[j] /\ routines'[j][k] = routines[j][k]
      BY <1>8, <1>9, <3>1
    <3> QED
      BY <3>1, <3>2 DEF QueueInv
  <2> QED
    BY <2>1, <2>2, <2>3 DEF QueueInv
<1>13. RoomsInv'
  BY <1>1, RoomsKept
<1>14. WalkInv'
  <2> SUFFICES ASSUME NEW j \in Routines, push[j] # Idle
               PROVE  /\ RoutineOf(push[j].msg) = j[2]
                      /\ \A k \in DOMAIN routines'[j] : push[j].msg < routines'[j][k]
                      /\ Comes(j[1])' => push[j].msg < call'.msg
    BY <1>1, <1>7 DEF WalkInv, Idle
  <2>1. \A k \in DOMAIN routines'[j] : push[j].msg < routines'[j][k]
    BY <1>3, <1>6, <1>9 DEF WalkInv
  <2>2. Comes(j[1])' => push[j].msg < call'.msg
    BY <1>8 DEF WalkInv, Routines
  <2> QED
    BY <2>1, <2>2 DEF WalkInv
<1>15. ASSUME NEW c \in Conns, NEW x, Older(c, x) PROVE Older(c, x)'
  <2>1. Comes(Bucket[c])' => x < call'.msg
    BY <1>8, <1>15, Places DEF Older
  <2>2. ASSUME NEW j \in Routines, j = <<Bucket[c], RoutineOf(x)>>, NEW k \in DOMAIN routines'[j]
        PROVE  x < routines'[j][k]
    <3>1. CASE k \in DOMAIN routines[j] /\ routines'[j][k] = routines[j][k]
      BY <1>15, <2>2, <3>1 DEF Older
    <3>2. CASE j = i /\ routines'[j][k] = m
      BY <1>3, <1>6, <1>15, <2>2, <3>2 DEF Older
    <3> QED
      BY <1>9, <3>1, <3>2
  <2>3. \A j \in Routines : j = <<Bucket[c], RoutineOf(x)>> => (Faces(j, c)' => x < push'[j].msg)
    BY <1>1, <1>15 DEF Older, Faces, Idle
  <2> QED
    BY <1>7, <2>1, <2>2, <2>3 DEF Older
<1>16. GotInv'
  BY <1>1, <1>7, <1>15 DEF GotInv
<1>17. LineInv'
  BY <1>1, <1>7 DEF LineInv, Ordered, Before
<1> QED
  BY <1>11, <1>12, <1>13, <1>14, <1>16, <1>17, BroadcastRoomKeeps

LEMMA TakeOrder ==
    ASSUME OrderInv, NEW i \in Routines, TakeFromQueue(i)
    PROVE  OrderInv'
<1> USE DEF OrderInv
<1>0. routines[i] \in Seq(Msgs) /\ routines[i] # <<>>
  BY DEF TakeFromQueue, TypeInv, TypeOK
<1> PICK m \in Msgs : m = Head(routines[i])
  BY <1>0, MsgLists
<1> PICK o : o = rooms[<<i[1], target[m]>>]
  OBVIOUS
<1>1. /\ push' = [push EXCEPT ![i] = IF o = None THEN Idle ELSE [msg |-> m, room |-> o, todo |-> {}]]
      /\ routines' = [routines EXCEPT ![i] = Tail(routines[i])]
      /\ UNCHANGED <<life, target, call, routinesNum, broadcast, out, dropped>>
  BY DEF TakeFromQueue
<1>2. 1 \in DOMAIN routines[i] /\ m = routines[i][1] /\ IsRoomMsg(m) /\ DOMAIN routines[i] = 1 .. Len(routines[i])
  BY <1>0, MsgEntries DEF TypeInv, OnTheWay
<1>3. \A j \in Routines : \A k \in DOMAIN routines'[j] :
         \/ j # i /\ k \in DOMAIN routines[j] /\ routines'[j][k] = routines[j][k]
         \/ j = i /\ k + 1 \in DOMAIN routines[i] /\ routines'[i][k] = routines[i][k + 1] /\ 1 < k + 1
  <2>1. \A k \in DOMAIN Tail(routines[i]) : k + 1 \in DOMAIN routines[i] /\ Tail(routines[i])[k] = routines[i][k + 1] /\ 1 < k + 1
    BY <1>0
  <2> QED
    BY <1>1, <2>1 DEF TypeInv, TypeOK
<1>4. \A x : /\ RoutineOf(x)' = RoutineOf(x) /\ (IsRoomMsg(x)' <=> IsRoomMsg(x))
             /\ Comes(x)' <=> Comes(x)
             /\ Turns(x)' = Turns(x)
  BY <1>1 DEF RoutineOf, IsRoomMsg, Comes, Turns
<1>5. TurnInv'
  <2>1. Turn' = Turn /\ Turns(Len(target))' = Turns(Len(target)) /\ Turns(call.msg)' = Turns(call.msg)
    BY <1>1 DEF Turn, Turns
  <2> QED
    BY <1>1, <1>4, <2>1 DEF TurnInv
<1>6. QueueInv'
  <2>1. \A j \in Routines : \A k \in DOMAIN routines'[j] : RoutineOf(routines[j][k])' = j[2]
    BY <1>3, <1>4 DEF QueueInv
  <2>2. ASSUME NEW j \in Routines, NEW k \in DOMAIN routines'[j], NEW n \in DOMAIN routines'[j], k < n
        PROVE  routines'[j][k] < routines'[j][n]
    <3>1. k \in Int /\ n \in Int
      <4>1. routines' \in [Routines -> Seq(Msgs)]
        BY TakeKeeps DEF TypeInv, TypeOK
      <4> QED
        BY <2>2, <4>1
    <3> QED
      BY <1>3, <2>2, <3>1 DEF QueueInv
  <2>3. \A j \in Routines : Comes(j[1])' => \A k \in DOMAIN routines'[j] : routines'[j][k] < call'.msg
    BY <1>1, <1>3, <1>4 DEF QueueInv
  <2> QED
    BY <2>1, <2>2, <2>3 DEF QueueInv
<1>7. /\ \A j \in Routines : j # i => push'[j] = push[j]
      /\ push'[i] # Idle => push'[i].msg = m /\ push'[i].room = o /\ push'[i].todo = {} /\ o # None
  BY <1>1 DEF TypeInv, TypeOK
<1>8. RoomsInv'
  <2>1. <<i[1], target[m]>> \in Buckets \X Rooms
    BY <1>2 DEF IsRoomMsg, Routines
  <2>2. o # None => Place(o) = <<i[1], target[m]>> /\ state[o] # "new"
    BY <2>1 DEF RoomsInv
  <2>3. \A c : Place(c)' = Place(c)
    BY DEF Place
  <2>4. ASSUME NEW j \in Routines, push'[j] # Idle
        PROVE  /\ Place(push'[j].room) = <<j[1], target[push'[j].msg]>> /\ state[push'[j].room] # "new"
               /\ \A c \in push'[j].todo : Place(c) = Place(push'[j].room)
    BY <1>7, <2>2, <2>4 DEF RoomsInv
  <2> QED
    BY <1>1, <2>3, <2>4 DEF RoomsInv, Idle
<1>10. WalkInv'
  <2>1. ASSUME NEW j \in Routines, push'[j] # Idle
        PROVE  /\ RoutineOf(push[j].msg)' = j[2]
               /\ \A k \in DOMAIN routines'[j] : push'[j].msg < routines'[j][k]
               /\ Comes(j[1])' => push'[j].msg < call'.msg
    <3>1. CASE j # i
      BY <1>1, <1>3, <1>4, <1>7, <2>1, <3>1 DEF WalkInv
    <3>2. CASE j = i
      <4>1. push'[j].msg = m /\ RoutineOf(push[j].msg)' = j[2]
        BY <1>2, <1>4, <1>7, <2>1, <3>2 DEF QueueInv
      <4>2. \A k \in DOMAIN routines'[j] : m < routines'[j][k]
        BY <1>2, <1>3, <3>2 DEF QueueInv
      <4>3. Comes(j[1])' => m < call'.msg
        BY <1>1, <1>2, <1>4, <3>2 DEF QueueInv
      <4> QED
        BY <4>1, <4>2, <4>3
    <3> QED
      BY <3>1, <3>2
  <2> QED
    BY <2>1 DEF WalkInv, Idle
<1>11. ASSUME NEW c \in Conns, NEW x, Older(c, x) PROVE Older(c, x)'
  <2>1. Comes(Bucket[c])' => x < call'.msg
    BY <1>1, <1>4, <1>11 DEF Older
  <2>2. ASSUME NEW j \in Routines, j = <<Bucket[c], RoutineOf(x)>>
        PROVE  /\ \A k \in DOMAIN routines'[j] : x < routines'[j][k]
               /\ Faces(j, c)' => x < push'[j].msg
    <3>1. \A k \in DOMAIN routines'[j] : x < routines'[j][k]
      BY <1>3, <1>11, <2>2 DEF Older
    <3>2. CASE j # i
      BY <1>7, <1>11, <2>2, <3>1, <3>2 DEF Older, Faces, Idle
    <3>3. CASE j = i
      <4>1. x < m
        BY <1>2, <1>11, <2>2, <3>3 DEF Older
      <4> QED
        BY <1>7, <3>1, <3>3, <4>1 DEF Faces, Idle
    <3> QED
      BY <3>2, <3>3
  <2> QED
    BY <1>4, <2>1, <2>2 DEF Older
<1>12. GotInv'
  BY <1>1, <1>4, <1>11 DEF GotInv
<1>13. LineInv'
  BY <1>1, <1>4 DEF LineInv, Ordered, Before
<1> QED
  BY <1>5, <1>6, <1>8, <1>10, <1>12, <1>13, TakeKeeps

(* A walk that goes on with fewer connections, those of the Room when it begins, or ends. *)
LEMMA WalkOrder ==
    ASSUME OrderInv, NEW i \in Routines, push[i] # Idle, NEW todo \in SUBSET Conns,
           \A c \in todo : Place(c) = Place(push[i].room) /\ (push[i].todo = {} \/ c \in push[i].todo),
           push' = [push EXCEPT ![i] = Walk(@, todo)],
           UNCHANGED <<life, target, call, routinesNum, routines, out>>
    PROVE  /\ TurnInv' /\ QueueInv' /\ RoomsInv' /\ WalkInv'
           /\ \A c \in Conns : \A x : Older(c, x) => Older(c, x)'
<1> USE DEF OrderInv
<1>1. /\ \A x : /\ RoutineOf(x)' = RoutineOf(x) /\ (IsRoomMsg(x)' <=> IsRoomMsg(x))
                /\ Comes(x)' <=> Comes(x)
                /\ Turns(x)' = Turns(x)
      /\ \A c : Place(c)' = Place(c)
  BY DEF RoutineOf, IsRoomMsg, Comes, Turns, Place
<1>2. /\ \A j \in Routines : j # i => push'[j] = push[j]
      /\ push'[i] # Idle => /\ push'[i].msg = push[i].msg /\ push'[i].room = push[i].room
                            /\ push'[i].todo = todo /\ todo # {}
  BY WalkGoesOn
<1>3. TurnInv'
  <2>1. Turn' = Turn /\ Turns(Len(target))' = Turns(Len(target)) /\ Turns(call.msg)' = Turns(call.msg)
    BY DEF Turn, Turns
  <2> QED
    BY <1>1, <2>1 DEF TurnInv
<1>4. QueueInv'
  BY <1>1 DEF QueueInv
<1>5. RoomsInv'
  <2>1. ASSUME NEW j \in Routines, push'[j] # Idle
        PROVE  /\ Place(push'[j].room) = <<j[1], target[push'[j].msg]>> /\ state[push'[j].room] # "new"
               /\ \A c \in push'[j].todo : Place(c) = Place(push'[j].room)
    BY <1>2, <2>1 DEF RoomsInv
  <2> QED
    BY <1>1, <2>1 DEF RoomsInv, Idle
<1>6. WalkInv'
  <2>1. ASSUME NEW j \in Routines, push'[j] # Idle
        PROVE  /\ RoutineOf(push'[j].msg) = j[2]
               /\ \A k \in DOMAIN routines[j] : push'[j].msg < routines[j][k]
               /\ Comes(j[1]) => push'[j].msg < call.msg
    BY <1>2, <2>1 DEF WalkInv
  <2> QED
    BY <1>1, <2>1 DEF WalkInv, Idle
<1>7. ASSUME NEW c \in Conns, NEW x, Older(c, x) PROVE Older(c, x)'
  <2>1. ASSUME NEW j \in Routines, j = <<Bucket[c], RoutineOf(x)>>, Faces(j, c)' PROVE x < push'[j].msg
    <3>1. push'[j] # Idle /\ (push'[j].todo = {} \/ c \in push'[j].todo)
      BY <2>1 DEF Faces, Idle
    <3>2. Faces(j, c) /\ push'[j].msg = push[j].msg
      BY <1>2, <3>1 DEF Faces
    <3> QED
      BY <1>7, <2>1, <3>2 DEF Older
  <2>2. Comes(Bucket[c])' => x < call'.msg
    BY <1>1, <1>7 DEF Older
  <2>3. \A j \in Routines : j = <<Bucket[c], RoutineOf(x)>> => \A k \in DOMAIN routines[j] : x < routines[j][k]
    BY <1>7 DEF Older
  <2> QED
    BY <1>1, <2>1, <2>2, <2>3 DEF Older
<1> QED
  BY <1>3, <1>4, <1>5, <1>6, <1>7

LEMMA RLockOrder ==
    ASSUME OrderInv, NEW i \in Routines, PushRLock(i)
    PROVE  OrderInv'
<1> USE DEF OrderInv
<1>1. /\ push[i] # Idle /\ push[i].todo = {} /\ push' = [push EXCEPT ![i] = Walk(@, Members(push[i].room))]
      /\ UNCHANGED <<life, target, call, routinesNum, routines, broadcast, out, dropped>>
  BY DEF PushRLock, TypeInv, TypeOK
<1>2. Members(push[i].room) \in SUBSET Conns /\ \A c \in Members(push[i].room) : Place(c) = Place(push[i].room)
  <2>1. push[i].room \in Objs
    BY <1>1 DEF TypeInv, OnTheWay
  <2> QED
    BY <2>1, TargetsAssumption DEF Members, RoomsInv
<1>3. /\ TurnInv' /\ QueueInv' /\ RoomsInv' /\ WalkInv'
      /\ \A c \in Conns : \A x : Older(c, x) => Older(c, x)'
  BY <1>1, <1>2, WalkOrder
<1>4. \A x, y : (Before(x, y)' <=> Before(x, y)) /\ (IsRoomMsg(x)' <=> IsRoomMsg(x))
  BY <1>1 DEF Before, IsRoomMsg, RoutineOf
<1>5. GotInv' /\ LineInv'
  BY <1>1, <1>3, <1>4 DEF GotInv, LineInv, Ordered
<1> QED
  BY <1>3, <1>5, RLockKeeps

LEMMA PushNextOrder ==
    ASSUME OrderInv, NEW i \in Routines, PushNext(i)
    PROVE  OrderInv'
<1> USE DEF OrderInv
<1>0. PICK c \in push[i].todo :
         /\ ChannelPush(c, push[i].msg) \/ UNCHANGED <<broadcast, dropped>>
         /\ push' = [push EXCEPT ![i] = Walk(@, push[i].todo \ {c})]
         /\ UNCHANGED <<life, target, call, routinesNum, routines, out>>
  BY DEF PushNext, TypeInv, TypeOK
<1>1. push[i] # Idle /\ push[i].todo \ {c} \in SUBSET Conns /\ c \in Conns /\ IsRoomMsg(push[i].msg)
  BY <1>0 DEF Idle, TypeInv, TypeOK, OnTheWay
<1> PICK m \in Msgs : m = push[i].msg
  BY <1>1, Pushed DEF IsRoomMsg
<1>2. IsRoomMsg(m) /\ m \in DOMAIN target /\ (ChannelPush(c, m) \/ UNCHANGED <<broadcast, dropped>>)
  BY <1>0, <1>1 DEF IsRoomMsg
<1>3. \A x : RoutineOf(x)' = RoutineOf(x) /\ (IsRoomMsg(x)' <=> IsRoomMsg(x)) /\ (Comes(x)' <=> Comes(x))
  BY <1>0 DEF RoutineOf, IsRoomMsg, Comes
<1>4. \A d \in push[i].todo : Place(d) = Place(push[i].room) /\ d \in Conns /\ Bucket[d] = i[1]
  BY <1>1 DEF RoomsInv, Place, TypeInv, TypeOK
<1>5. /\ TurnInv' /\ QueueInv' /\ RoomsInv' /\ WalkInv'
      /\ \A d \in Conns : \A x : Older(d, x) => Older(d, x)'
  BY <1>0, <1>1, <1>4, WalkOrder
<1>6. /\ RoutineOf(m) = i[2] /\ Bucket[c] = i[1] /\ i = <<Bucket[c], RoutineOf(m)>>
      /\ \A k \in DOMAIN routines[i] : m < routines[i][k]
      /\ Comes(i[1]) => m < call.msg
  BY <1>1, <1>4 DEF WalkInv, Routines
(* The connection has got the message, and will not meet it again. *)
<1>7. Older(c, m)'
  <2>1. Comes(Bucket[c])' => m < call'.msg
    BY <1>0, <1>3, <1>6
  <2>2. \A k \in DOMAIN routines'[i] : m < routines'[i][k]
    BY <1>0, <1>6
  <2>3. ~Faces(i, c)'
    <3> DEFINE rest == push[i].todo \ {c}
    <3>0. rest \in SUBSET Conns /\ push' = [push EXCEPT ![i] = Walk(@, rest)]
      BY <1>0, <1>1
    <3> HIDE DEF rest
    <3>1. push'[i] # Idle => push'[i].todo = rest /\ rest # {}
      BY <1>1, <3>0, WalkGoesOn
    <3> QED
      BY <3>1 DEF Faces, Idle, rest
  <2>4. \A j \in Routines : j = <<Bucket[c], RoutineOf(m)'>> => j = i
    BY <1>3, <1>6
  <2> QED
    BY <2>1, <2>2, <2>3, <2>4 DEF Older
<1>8. GotInv'
  <2>1. \A d \in Conns : \A k \in DOMAIN broadcast'[d] :
           \/ k \in DOMAIN broadcast[d] /\ broadcast'[d][k] = broadcast[d][k]
           \/ d = c /\ broadcast'[d][k] = m
    BY <1>1, <1>2, PushEntries DEF TypeInv
  <2>2. (\A d \in Conns : \A k \in DOMAIN wire[d] : wire[d][k] \in DOMAIN target /\ (IsRoomMsg(wire[d][k]) => Older(d, wire[d][k])))'
    BY <1>0, <1>3, <1>5 DEF GotInv
  <2>3. (\A d \in Conns : \A k \in DOMAIN broadcast[d] :
            broadcast[d][k] \in DOMAIN target /\ (IsRoomMsg(broadcast[d][k]) => Older(d, broadcast[d][k])))'
    BY <1>0, <1>2, <1>3, <1>5, <1>7, <2>1 DEF GotInv
  <2>4. (\A d \in Conns : \A x \in dropped[d] : x \in DOMAIN target /\ (IsRoomMsg(x) => Older(d, x)))'
    <3>1. \A d \in Conns : \A x \in dropped'[d] : x \in dropped[d] \/ (d = c /\ x = m)
      BY <1>1, <1>2, PushDrops DEF TypeInv
    <3> QED
      BY <1>0, <1>2, <1>3, <1>5, <1>7, <3>1 DEF GotInv
  <2> QED
    BY <2>2, <2>3, <2>4 DEF GotInv
<1>9. LineInv'
  <2>1. ASSUME NEW x \in DOMAIN target, IsRoomMsg(x) => Older(c, x) PROVE Before(x, m)'
    <3> SUFFICES ASSUME IsRoomMsg(x), RoutineOf(x) = RoutineOf(m) PROVE x < m
      BY <1>3 DEF Before
    <3> QED
      BY <1>0, <1>1, <1>6, <2>1 DEF Older, Faces
  <2>2. target' = target /\ wire' = wire /\ target[m] \in Rooms
    BY <1>0, <1>2 DEF IsRoomMsg
  <2> QED
    BY <1>1, <1>2, <2>1, <2>2, LineGrows
<1> QED
  BY <1>5, <1>8, <1>9, PushNextKeeps

(* Where an entry of a concatenation comes from. *)
LEMMA MsgConcat ==
    \A s, t \in Seq(Msgs) : \A k \in DOMAIN (s \o t) :
       /\ k \in Int
       /\ \/ k \in DOMAIN s /\ (s \o t)[k] = s[k] /\ k <= Len(s)
          \/ k - Len(s) \in DOMAIN t /\ (s \o t)[k] = t[k - Len(s)] /\ k > Len(s)
<1> TAKE s \in Seq(Msgs), t \in Seq(Msgs)
<1>1. s \o t \in Seq(Msgs) /\ Len(s \o t) = Len(s) + Len(t) /\ Len(s) \in Nat /\ Len(t) \in Nat
  OBVIOUS
<1>2. DOMAIN s = 1 .. Len(s) /\ DOMAIN t = 1 .. Len(t) /\ DOMAIN (s \o t) = 1 .. Len(s) + Len(t)
  BY <1>1
<1>3. \A k \in 1 .. Len(s) + Len(t) : (s \o t)[k] = IF k <= Len(s) THEN s[k] ELSE t[k - Len(s)]
  OBVIOUS
<1> TAKE k \in DOMAIN (s \o t)
<1>4. CASE k <= Len(s)
  BY <1>1, <1>2, <1>3, <1>4
<1>5. CASE k > Len(s)
  BY <1>1, <1>2, <1>3, <1>5
<1> QED
  BY <1>1, <1>2, <1>4, <1>5

(* A connection is put into a Room: the one of the map, or one that nobody has had. *)
LEMMA PutOrder ==
    ASSUME OrderInv, NEW c \in Conns, BucketPut(c) \/ RoomPut(c)
    PROVE  OrderInv'
<1> USE DEF OrderInv
<1>1. UNCHANGED <<target, fan, broadcast, out, dropped>>
  BY DEF BucketPut, RoomPut
<1>2. TurnInv' /\ QueueInv' /\ WalkInv' /\ GotInv' /\ LineInv'
  BY <1>1, FanOrder
<1>3. \A d : Place(d)' = Place(d)
  BY DEF Place
<1>4. \A d \in Conns : state'[d] # "new" <=> state[d] # "new" \/ d = c
  <2>1. \E t \in {"putting", "in", "refused"} : state' = [state EXCEPT ![c] = t]
    BY DEF BucketPut, RoomPut
  <2> QED
    BY <2>1 DEF TypeInv, TypeOK
<1>5. \A i \in Routines : push[i] # Idle => push[i].room \in Conns
  BY DEF TypeInv, OnTheWay
<1>6. /\ rooms \in [Buckets \X Rooms -> Conns \cup {None}] /\ Room \in [Conns -> Conns \cup {None}]
      /\ Place(c) \in Buckets \X Rooms
  BY Places DEF TypeInv, TypeOK
<1>7. RoomsInv'
  <2>1. CASE BucketPut(c)
    <3>1. PICK o \in Conns : /\ o = c \/ o = rooms[Place(c)]
                             /\ rooms' = [rooms EXCEPT ![Place(c)] = o] /\ Room' = [Room EXCEPT ![c] = o]
      BY <1>6, <2>1 DEF BucketPut
    <3>2. Place(o) = Place(c) /\ state'[o] # "new"
      BY <1>4, <1>6, <3>1, TargetsAssumption DEF RoomsInv
    <3>3. ASSUME NEW p \in Buckets \X Rooms, rooms'[p] # None PROVE Place(rooms'[p]) = p /\ state'[rooms'[p]] # "new"
      <4>1. CASE p = Place(c)
        BY <1>6, <3>1, <3>2, <4>1
      <4>2. CASE p # Place(c)
        BY <1>4, <1>6, <3>1, <3>3, <4>2 DEF RoomsInv
      <4> QED
        BY <4>1, <4>2
    <3>4. ASSUME NEW d \in Conns, Room'[d] # None PROVE Place(Room'[d]) = Place(d) /\ state'[Room'[d]] # "new"
      <4>1. CASE d = c
        BY <1>6, <3>1, <3>2, <4>1
      <4>2. CASE d # c
        BY <1>4, <1>6, <3>1, <3>4, <4>2 DEF RoomsInv
      <4> QED
        BY <4>1, <4>2
    <3> QED
      BY <1>1, <1>3, <1>4, <1>5, <3>3, <3>4 DEF RoomsInv, Idle
  <2>2. CASE RoomPut(c)
    <3>1. rooms' = rooms /\ Room' = Room
      BY <2>2 DEF RoomPut
    <3> QED
      BY <1>1, <1>3, <1>4, <1>5, <1>6, <3>1 DEF RoomsInv, Idle
  <2> QED
    BY <2>1, <2>2
<1> QED
  BY <1>2, <1>7, PutKeeps

LEMMA LeaveOrder ==
    ASSUME OrderInv, NEW c \in Conns, NEW d \in Conns, Leave(c) \/ LeaveTogether(c, d)
    PROVE  OrderInv'
<1> USE DEF OrderInv
<1>1. PICK S \in SUBSET Conns : Gone(S)
  BY DEF Leave, LeaveTogether
<1>2. /\ UNCHANGED <<target, fan>>
      /\ \A x \in Conns : /\ wire'[x] \in {wire[x], <<>>} /\ broadcast'[x] \in {broadcast[x], <<>>}
                           /\ dropped'[x] \in {dropped[x], {}}
  BY <1>1 DEF Gone
<1>3. TurnInv' /\ QueueInv' /\ WalkInv' /\ GotInv' /\ LineInv'
  BY <1>2, FanOrder
<1>4. /\ \A x \in Conns : (state[x] # "new" => state'[x] # "new") /\ Room'[x] \in {Room[x], None}
      /\ \A p \in Buckets \X Rooms : rooms'[p] \in {rooms[p], None}
  <2>1. \A x \in Conns : (state[x] # "new" => state'[x] # "new") /\ Room'[x] \in {Room[x], None}
    BY <1>1 DEF Gone
  <2>2. \A p \in Buckets \X Rooms : rooms'[p] \in {rooms[p], None}
    BY Places DEF Leave, LeaveTogether, TypeInv, TypeOK
  <2> QED
    BY <2>1, <2>2
<1>5. \A x : Place(x)' = Place(x)
  BY DEF Place
<1>6. \A i \in Routines : push[i] # Idle => push[i].room \in Conns
  BY DEF TypeInv, OnTheWay
<1>7. rooms \in [Buckets \X Rooms -> Conns \cup {None}] /\ Room \in [Conns -> Conns \cup {None}]
  BY DEF TypeInv, TypeOK
<1>8. RoomsInv'
  BY <1>2, <1>4, <1>5, <1>6, <1>7, ZenonT(60) DEF RoomsInv, Idle
<1> QED
  BY <1>3, <1>8, LeaveKeeps

(* The writer takes the oldest message of the buffer: to the end of what was written, or
   away. *)
LEMMA WriterOrder ==
    ASSUME OrderInv, NEW c \in Conns, Write(c) \/ WriteFails(c)
    PROVE  OrderInv'
<1> USE DEF OrderInv
<1>1. UNCHANGED <<life, target, fan, dropped>>
  BY DEF Write, WriteFails
<1>2. \E t \in Conns \cup Rooms : target' \in {target, Append(target, t)}
  BY <1>1
<1>3. broadcast[c] \in Seq(Msgs) /\ wire[c] \in Seq(Msgs)
  BY DEF TypeInv, TypeOK
<1>4. \A d \in Conns : \A k \in DOMAIN broadcast'[d] :
         \/ k \in DOMAIN broadcast[d] /\ broadcast'[d][k] = broadcast[d][k] /\ (d # c \/ broadcast' = broadcast)
         \/ /\ d = c /\ k + 1 \in DOMAIN broadcast[c] /\ broadcast'[c][k] = broadcast[c][k + 1]
            /\ k \in Int /\ 1 < k + 1
  <2>1. broadcast' = broadcast \/ (broadcast[c] # <<>> /\ broadcast' = [broadcast EXCEPT ![c] = Tail(broadcast[c])])
    <3>1. CASE broadcast[c] # <<>>
      BY <3>1 DEF Write, WriteFails
    <3>2. CASE broadcast[c] = <<>> /\ WriteFails(c)
      BY <3>2 DEF WriteFails, TypeInv, TypeOK
    <3> QED
      BY <3>1, <3>2 DEF Write
  <2>2. broadcast[c] # <<>> =>
           \A k \in DOMAIN Tail(broadcast[c]) :
              /\ k + 1 \in DOMAIN broadcast[c] /\ Tail(broadcast[c])[k] = broadcast[c][k + 1]
              /\ k \in Int /\ 1 < k + 1
    BY <1>3
  <2> QED
    BY <2>1, <2>2 DEF TypeInv, TypeOK
<1>5. \A d \in Conns : \A k \in DOMAIN wire'[d] :
         \/ k \in DOMAIN wire[d] /\ wire'[d][k] = wire[d][k]
         \/ /\ d = c /\ k = Len(wire[c]) + 1 /\ 1 \in DOMAIN broadcast[c] /\ wire'[c][k] = broadcast[c][1]
            /\ broadcast' # broadcast
  <2>1. CASE Write(c)
    <3>1. broadcast[c] # <<>> /\ wire' = [wire EXCEPT ![c] = Append(wire[c], Head(broadcast[c]))]
          /\ broadcast' = [broadcast EXCEPT ![c] = Tail(broadcast[c])]
      BY <2>1 DEF Write
    <3>2. Head(broadcast[c]) \in Msgs /\ Head(broadcast[c]) = broadcast[c][1] /\ 1 \in DOMAIN broadcast[c]
      BY <1>3, <3>1, MsgEntries, MsgLists
    <3>3. \A k \in DOMAIN Append(wire[c], Head(broadcast[c])) :
             \/ k \in DOMAIN wire[c] /\ Append(wire[c], Head(broadcast[c]))[k] = wire[c][k]
             \/ k = Len(wire[c]) + 1 /\ Append(wire[c], Head(broadcast[c]))[k] = Head(broadcast[c])
      BY <1>3, <3>2, MsgEntries
    <3>4. Tail(broadcast[c]) # broadcast[c]
      <4>1. \A s \in Seq(Msgs) : s # <<>> => Len(Tail(s)) = Len(s) - 1 /\ Len(s) \in Nat
        OBVIOUS
      <4>2. Len(Tail(broadcast[c])) # Len(broadcast[c])
        BY <1>3, <3>1, <4>1
      <4> QED
        BY <4>2
    <3> QED
      BY <3>1, <3>2, <3>3, <3>4 DEF TypeInv, TypeOK
  <2>2. CASE WriteFails(c)
    BY <2>2 DEF WriteFails
  <2> QED
    BY <2>1, <2>2
<1>6. QueueInv' /\ WalkInv' /\ \A d \in Conns : \A x \in DOMAIN target : Older(d, x) => Older(d, x)'
  BY <1>1, <1>2, FanKept
<1>7. RoomsInv'
  BY <1>1, RoomsKept
<1>8. TurnInv'
  BY <1>1 DEF TurnInv, Turn, Turns, Comes, NoCall
<1>9. \A x, y : (Before(x, y)' <=> Before(x, y)) /\ (IsRoomMsg(x)' <=> IsRoomMsg(x))
  BY <1>1 DEF Before, IsRoomMsg, RoutineOf
<1>10. GotInv'
  <2>1. (\A d \in Conns : \A k \in DOMAIN wire[d] : wire[d][k] \in DOMAIN target /\ (IsRoomMsg(wire[d][k]) => Older(d, wire[d][k])))'
    BY <1>1, <1>5, <1>6, <1>9, ZenonT(60) DEF GotInv
  <2>2. (\A d \in Conns : \A k \in DOMAIN broadcast[d] :
            broadcast[d][k] \in DOMAIN target /\ (IsRoomMsg(broadcast[d][k]) => Older(d, broadcast[d][k])))'
    <3>1. \A d \in Conns : \A k \in DOMAIN broadcast'[d] : \E n \in DOMAIN broadcast[d] : broadcast'[d][k] = broadcast[d][n]
      BY <1>4
    <3> QED
      BY <1>1, <1>6, <1>9, <3>1 DEF GotInv
  <2>3. (\A d \in Conns : \A x \in dropped[d] : x \in DOMAIN target /\ (IsRoomMsg(x) => Older(d, x)))'
    BY <1>1, <1>6, <1>9 DEF GotInv
  <2> QED
    BY <2>1, <2>2, <2>3 DEF GotInv
<1>11. LineInv'
  <2>1. \A d \in Conns : DOMAIN wire[d] = 1 .. Len(wire[d]) /\ Len(wire[d]) \in Nat /\ DOMAIN broadcast[d] \subseteq Int
    BY MsgEntries DEF TypeInv, TypeOK
  <2>2. ASSUME NEW d \in Conns, NEW j \in DOMAIN wire'[d], NEW k \in DOMAIN wire'[d], j < k
        PROVE  Before(wire[d][j], wire[d][k])'
    <3>1. CASE k \in DOMAIN wire[d] /\ wire'[d][k] = wire[d][k]
      <4>1. j \in DOMAIN wire[d] /\ wire'[d][j] = wire[d][j]
        BY <1>5, <2>1, <2>2, <3>1
      <4> QED
        BY <1>9, <2>2, <3>1, <4>1 DEF LineInv, Ordered
    <3>2. CASE d = c /\ k = Len(wire[c]) + 1 /\ 1 \in DOMAIN broadcast[c] /\ wire'[c][k] = broadcast[c][1]
      <4>1. j \in DOMAIN wire[d] /\ wire'[d][j] = wire[d][j]
        BY <1>5, <2>1, <2>2, <3>2
      <4> QED
        BY <1>9, <3>2, <4>1 DEF LineInv
    <3> QED
      BY <1>5, <2>2, <3>1, <3>2
  <2>3. ASSUME NEW d \in Conns, NEW j \in DOMAIN broadcast'[d], NEW k \in DOMAIN broadcast'[d], j < k
        PROVE  Before(broadcast[d][j], broadcast[d][k])'
    BY <1>4, <1>9, <2>1, <2>3 DEF LineInv, Ordered
  <2>4. ASSUME NEW d \in Conns, NEW j \in DOMAIN wire'[d], NEW k \in DOMAIN broadcast'[d]
        PROVE  Before(wire[d][j], broadcast[d][k])'
    <3>1. CASE j \in DOMAIN wire[d] /\ wire'[d][j] = wire[d][j]
      BY <1>4, <1>9, <2>4, <3>1 DEF LineInv
    <3>2. CASE /\ d = c /\ 1 \in DOMAIN broadcast[c] /\ wire'[c][j] = broadcast[c][1]
               /\ broadcast' # broadcast
      <4>1. k + 1 \in DOMAIN broadcast[c] /\ broadcast'[c][k] = broadcast[c][k + 1] /\ 1 < k + 1
        BY <1>4, <2>4, <3>2
      <4> QED
        BY <1>9, <3>2, <4>1 DEF LineInv, Ordered
    <3> QED
      BY <1>5, <2>4, <3>1, <3>2
  <2> QED
    BY <2>2, <2>3, <2>4 DEF LineInv, Ordered
<1> QED
  BY <1>6, <1>7, <1>8, <1>10, <1>11, WriterKeeps

LEMMA OrderStep == OrderInv /\ [Next]_vars => OrderInv'
<1> SUFFICES ASSUME OrderInv, [Next]_vars PROVE OrderInv'
  OBVIOUS
<1>0. ASSUME NEW c \in Conns, NEW d \in Conns, Leave(c) \/ LeaveTogether(c, d) PROVE OrderInv'
  BY <1>0, LeaveOrder
<1>1. ASSUME NEW c \in Conns, BucketPut(c) \/ RoomPut(c) PROVE OrderInv'
  BY <1>1, PutOrder
<1>2. ASSUME NEW c \in Conns, PushSingleMsg(c) PROVE OrderInv'
  BY <1>2, PushSingleOrder
<1>3. ASSUME NEW c \in Conns, Write(c) \/ WriteFails(c) PROVE OrderInv'
  BY <1>3, WriterOrder
<1>4. ASSUME NEW r \in Rooms, PushRoomMsg(r) PROVE OrderInv'
  BY <1>4, PushRoomOrder
<1>5. CASE BroadcastRoom
  BY <1>5, BroadcastOrder
<1>6. ASSUME NEW i \in Routines, RoutineStep(i) PROVE OrderInv'
  BY <1>6, TakeOrder, RLockOrder, PushNextOrder DEF RoutineStep
<1>7. CASE UNCHANGED vars
  <2>1. TypeInv'
    BY <1>7, TypeStep DEF OrderInv
  <2>2. RoomsInv'
    BY <1>7, RoomsKept DEF vars
  <2>3. TurnInv' /\ QueueInv' /\ WalkInv' /\ GotInv' /\ LineInv'
    BY <1>7, FanOrder DEF vars
  <2> QED
    BY <2>1, <2>2, <2>3 DEF OrderInv
<1> QED
  BY <1>0, <1>1, <1>2, <1>3, <1>4, <1>5, <1>6, <1>7 DEF Next

(* In every reachable state a routine has its messages in order, and a connection has got
   nothing that is newer than what its routine still has for it. *)
THEOREM OrderCorrect == Spec => []OrderInv
BY OrderInit, OrderStep, PTL DEF Spec

(* Room messages that share a routine, which are RoutineAmount apart, reach a connection in
   the order they were pushed, and none of them twice, while connections come and go, writers
   end and buffers fill: one routine walks them one after the other. *)
THEOREM RoutinesKeepOrder == Spec => []RoutineOrder
<1>1. OrderInv => RoutineOrder
  <2> SUFFICES ASSUME OrderInv PROVE RoutineOrder
    OBVIOUS
  <2> USE DEF OrderInv
  <2> SUFFICES ASSUME NEW c \in Conns, NEW s, s = wire[c] \o broadcast[c],
                      NEW j \in DOMAIN s, NEW k \in DOMAIN s, j < k,
                      {target[s[j]], target[s[k]]} \subseteq Rooms, RoutineOf(s[j]) = RoutineOf(s[k])
               PROVE  s[j] < s[k]
    BY DEF RoutineOrder
  <2>1. wire[c] \in Seq(Msgs) /\ broadcast[c] \in Seq(Msgs)
    BY DEF TypeInv, TypeOK
  <2>2. \A n \in DOMAIN s :
           /\ n \in Int
           /\ \/ n \in DOMAIN wire[c] /\ s[n] = wire[c][n] /\ n <= Len(wire[c])
              \/ n - Len(wire[c]) \in DOMAIN broadcast[c] /\ s[n] = broadcast[c][n - Len(wire[c])] /\ n > Len(wire[c])
    BY <2>1, MsgConcat
  <2>3. j \in Int /\ k \in Int /\ Len(wire[c]) \in Nat
    BY <2>1, <2>2
  <2>4. IsRoomMsg(s[j]) /\ IsRoomMsg(s[k])
    BY <2>2 DEF GotInv, IsRoomMsg
  <2>5. Before(s[j], s[k])
    <3>1. CASE k \in DOMAIN wire[c] /\ s[k] = wire[c][k] /\ k <= Len(wire[c])
      <4>1. j \in DOMAIN wire[c] /\ s[j] = wire[c][j]
        BY <2>2, <2>3, <3>1
      <4> QED
        BY <3>1, <4>1 DEF LineInv, Ordered
    <3>2. CASE k - Len(wire[c]) \in DOMAIN broadcast[c] /\ s[k] = broadcast[c][k - Len(wire[c])]
      <4>1. CASE j \in DOMAIN wire[c] /\ s[j] = wire[c][j]
        BY <3>2, <4>1 DEF LineInv
      <4>2. CASE j - Len(wire[c]) \in DOMAIN broadcast[c] /\ s[j] = broadcast[c][j - Len(wire[c])]
        <5>1. j - Len(wire[c]) < k - Len(wire[c])
          BY <2>3
        <5> QED
          BY <3>2, <4>2, <5>1 DEF LineInv, Ordered
      <4> QED
        BY <2>2, <4>1, <4>2
    <3> QED
      BY <2>2, <3>1, <3>2
  <2> QED
    BY <2>4, <2>5 DEF Before
<1> QED
  BY <1>1, OrderCorrect, PTL
-----------------------------------------------------------------------------
(***************************************************************************)
(* One copy of a message for each connection                               *)
(***************************************************************************)

(* Connection c has got message m, or lost it to a full buffer. *)
Has(s, m)  == \E k \in DOMAIN s : s[k] = m
Done(c, m) == Has(wire[c], m) \/ Has(broadcast[c], m) \/ m \in dropped[c]

(* Message m is still on its way to connection c: in the room call, in the queue of a routine,
   or with a routine that has yet to come to c. *)
ComingTo(c, m)  == Comes(Bucket[c]) /\ call.msg = m
QueuedFor(c, m) == \E i \in Routines : i[1] = Bucket[c] /\ Has(routines[i], m)
WalkedTo(c, m)  == \E i \in Routines : i[1] = Bucket[c] /\ push[i].msg = m /\ Ahead(i, c)
Pending(c, m)   == ComingTo(c, m) \/ QueuedFor(c, m) \/ WalkedTo(c, m)

(* No connection has a message twice, and what it has was not dropped. *)
Once(s)  == \A j, k \in DOMAIN s : s[j] = s[k] => j = k
OnceInv ==
    \A c \in Conns :
       /\ Once(wire[c]) /\ Once(broadcast[c])
       /\ \A m \in Msgs : Has(wire[c], m) => ~Has(broadcast[c], m)
       /\ \A m \in dropped[c] : ~Has(wire[c], m) /\ ~Has(broadcast[c], m)

(* Messages go to those they are for. *)
AddressInv == \A c \in Conns : \A m \in Msgs : Done(c, m) => target[m] \in {c, RoomOf[c]}

(* A message is addressed to a connection that has been registered; a walk is over those who
   were in its Room when it began and have not left for another. *)
HereInv ==
    /\ \A m \in DOMAIN target : \A c \in Conns : target[m] = c => state[c] # "new"
    /\ \A i \in Routines : \A c \in push[i].todo :
          state[c] = "left" \/ (state[c] = "in" /\ Room[c] = push[i].room)

(* None is lost on the way to a connection that is owed it and whose writer runs. *)
ThereInv ==
    \A c \in Conns : \A m \in DOMAIN target :
       Owed(c, m) /\ writer[c] = "up" => Done(c, m) \/ Pending(c, m)

AccountInv == OrderInv /\ OnceInv /\ AddressInv /\ HereInv /\ ThereInv

LEMMA AppendHas ==
    \A s \in Seq(Msgs) : \A m \in Msgs :
       /\ \A x : Has(Append(s, m), x) <=> Has(s, x) \/ x = m
       /\ Once(s) /\ ~Has(s, m) => Once(Append(s, m))
<1> TAKE s \in Seq(Msgs)
<1> TAKE m \in Msgs
<1> PICK n : n = Append(s, m)
  OBVIOUS
<1>1. /\ \A k \in DOMAIN n : k \in Int /\ ((k \in DOMAIN s /\ n[k] = s[k]) \/ (k = Len(s) + 1 /\ n[k] = m))
      /\ \A k \in DOMAIN s : k \in DOMAIN n /\ n[k] = s[k]
      /\ Len(s) + 1 \in DOMAIN n /\ n[Len(s) + 1] = m
  OBVIOUS
<1>2. \A x : Has(n, x) <=> Has(s, x) \/ x = m
  BY <1>1 DEF Has
<1>3. Once(s) /\ ~Has(s, m) => Once(n)
  BY <1>1 DEF Has, Once
<1> QED
  BY <1>2, <1>3

LEMMA TailHas ==
    \A s \in Seq(Msgs) : s # <<>> =>
       /\ \A x : Has(s, x) <=> Has(Tail(s), x) \/ x = Head(s)
       /\ Once(s) => Once(Tail(s)) /\ ~Has(Tail(s), Head(s))
<1> TAKE s \in Seq(Msgs)
<1> SUFFICES ASSUME s # <<>>
             PROVE  /\ \A x : Has(s, x) <=> Has(Tail(s), x) \/ x = Head(s)
                    /\ Once(s) => Once(Tail(s)) /\ ~Has(Tail(s), Head(s))
  OBVIOUS
<1> PICK n : n = Tail(s)
  OBVIOUS
<1>1. /\ \A k \in DOMAIN n : k \in Int /\ k + 1 \in DOMAIN s /\ n[k] = s[k + 1] /\ k + 1 # 1
      /\ \A k \in DOMAIN s : k = 1 \/ (k - 1 \in DOMAIN n /\ n[k - 1] = s[k])
      /\ 1 \in DOMAIN s /\ Head(s) = s[1]
  OBVIOUS
<1>2. \A x : Has(s, x) <=> Has(n, x) \/ x = Head(s)
  <2> TAKE x
  <2>1. ASSUME Has(s, x) PROVE Has(n, x) \/ x = Head(s)
    <3> PICK k \in DOMAIN s : s[k] = x
      BY <2>1 DEF Has
    <3>1. CASE k = 1
      BY <1>1, <3>1
    <3>2. CASE k - 1 \in DOMAIN n /\ n[k - 1] = s[k]
      BY <3>2 DEF Has
    <3> QED
      BY <1>1, <3>1, <3>2
  <2>2. ASSUME Has(n, x) \/ x = Head(s) PROVE Has(s, x)
    BY <1>1, <2>2 DEF Has
  <2> QED
    BY <2>1, <2>2
<1>3. ASSUME Once(s) PROVE Once(n)
  <2>1. ASSUME NEW j \in DOMAIN n, NEW k \in DOMAIN n, n[j] = n[k] PROVE j = k
    <3>1. j + 1 = k + 1 /\ j \in Int /\ k \in Int
      BY <1>1, <1>3, <2>1 DEF Once
    <3> QED
      BY <3>1
  <2> QED
    BY <2>1 DEF Once
<1>4. ASSUME Once(s) PROVE ~Has(n, Head(s))
  BY <1>1, <1>4 DEF Has, Once
<1> QED
  BY <1>2, <1>3, <1>4

(* A message that its connection has not got yet is got or dropped. *)
LEMMA Landed ==
    ASSUME TypeOK, OnceInv, NEW c \in Conns, NEW m \in Msgs, ChannelPush(c, m), wire' = wire, ~Done(c, m)
    PROVE  /\ OnceInv'
           /\ \A d \in Conns : \A x : Done(d, x)' <=> Done(d, x) \/ (d = c /\ x = m)
<1>1. broadcast[c] \in Seq(Msgs)
  BY DEF TypeOK
<1>2. ~Has(wire[c], m) /\ ~Has(broadcast[c], m) /\ m \notin dropped[c]
  BY DEF Done
<1>3. CASE Len(broadcast[c]) < BroadcastSize
  <2> PICK n : n = Append(broadcast[c], m)
    OBVIOUS
  <2>1. broadcast' = [broadcast EXCEPT ![c] = n] /\ dropped' = dropped
    BY <1>3 DEF ChannelPush
  <2>2. broadcast'[c] = n /\ \A d \in Conns : d # c => broadcast'[d] = broadcast[d]
    BY <2>1 DEF TypeOK
  <2>3. (\A x : Has(n, x) <=> Has(broadcast[c], x) \/ x = m) /\ Once(n)
    BY <1>1, <1>2, AppendHas DEF OnceInv
  <2>4. ASSUME NEW d \in Conns
        PROVE  /\ Once(wire[d]) /\ Once(broadcast'[d])
               /\ \A x \in Msgs : Has(wire[d], x) => ~Has(broadcast'[d], x)
               /\ \A x \in dropped[d] : ~Has(wire[d], x) /\ ~Has(broadcast'[d], x)
    <3>1. CASE d = c
      BY <1>2, <2>2, <2>3, <3>1 DEF OnceInv
    <3>2. CASE d # c
      BY <2>2, <3>2 DEF OnceInv
    <3> QED
      BY <3>1, <3>2
  <2>5. OnceInv'
    BY <2>1, <2>4 DEF OnceInv
  <2>6. ASSUME NEW d \in Conns, NEW x PROVE Done(d, x)' <=> Done(d, x) \/ (d = c /\ x = m)
    <3>1. Has(broadcast'[d], x) <=> Has(broadcast[d], x) \/ (d = c /\ x = m)
      BY <2>2, <2>3
    <3> QED
      BY <2>1, <3>1 DEF Done
  <2> QED
    BY <2>5, <2>6
<1>4. CASE ~(Len(broadcast[c]) < BroadcastSize)
  <2>1. dropped' = [dropped EXCEPT ![c] = dropped[c] \cup {m}] /\ broadcast' = broadcast
    BY <1>4 DEF ChannelPush
  <2>2. \A d \in Conns : \A x : x \in dropped'[d] <=> x \in dropped[d] \/ (d = c /\ x = m)
    BY <2>1 DEF TypeOK
  <2>3. OnceInv'
    BY <1>2, <2>1, <2>2 DEF OnceInv
  <2> QED
    BY <2>1, <2>2, <2>3 DEF Done
<1> QED
  BY <1>3, <1>4

(* What a step that pushes no message leaves alone. *)
LEMMA OwedSame == UNCHANGED <<target, life>> => \A c \in Conns : \A m : Owed(c, m)' <=> Owed(c, m)
BY DEF Owed, Registered, Put, Place

(* What it takes to be owed a room message. *)
LEMMA OwedIn ==
    ASSUME OrderInv, NEW c \in Conns, NEW m, Owed(c, m), IsRoomMsg(m)
    PROVE  /\ target[m] = RoomOf[c] /\ state[c] = "in" /\ since[c] < m
           /\ rooms[Place(c)] = Room[c] /\ Room[c] \notin damaged /\ Room[c] # None
<1>1. target[m] # c
  BY TargetsAssumption DEF IsRoomMsg
<1>2. state[c] = "in" => Room[c] # None
  BY TargetsAssumption DEF OrderInv, TypeInv, OnTheWay, Registered, Put
<1> QED
  BY <1>1, <1>2 DEF Owed

(* While connections come, none is owed a message that it was not owed before. *)
LEMMA PutOwed ==
    ASSUME OrderInv, HereInv, NEW c \in Conns, BucketPut(c) \/ RoomPut(c), NEW d \in Conns, NEW m, Owed(d, m)'
    PROVE  Owed(d, m) /\ Room'[d] = Room[d]
<1> USE DEF OrderInv
<1>1. target' = target /\ damaged' = damaged /\ m \in DOMAIN target /\ \A e : Place(e)' = Place(e)
  BY DEF BucketPut, RoomPut, Owed, Place
<1>2. /\ rooms \in [Buckets \X Rooms -> Conns \cup {None}] /\ Room \in [Conns -> Conns \cup {None}]
      /\ Place(c) \in Buckets \X Rooms /\ Place(d) \in Buckets \X Rooms
      /\ target \in Seq(Conns \cup Rooms) /\ since \in [Conns -> 0 .. MaxMsgs]
      /\ state \in [Conns -> {"new", "putting", "in", "refused", "left"}]
  BY Places DEF TypeInv, TypeOK
<1>3. CASE BucketPut(c)
  <2>1. /\ state[c] = "new" /\ state'[c] = "putting" /\ since' = since
        /\ \A e \in Conns : e # c => state'[e] = state[e] /\ Room'[e] = Room[e]
    BY <1>2, <1>3 DEF BucketPut
  <2>2. d # c
    BY <1>1, <1>2, <2>1 DEF Owed, HereInv
  <2>3. CASE target[m] = d /\ Registered(d)'
    BY <1>1, <2>1, <2>2, <2>3 DEF Owed, Registered, Put
  <2>4. CASE target[m] = RoomOf[d] /\ state'[d] = "in" /\ since'[d] < m /\ rooms'[Place(d)] = Room'[d] /\ Room'[d] \notin damaged'
    <3>1. state[d] = "in" /\ Room[d] \in Conns /\ state[Room[d]] # "new"
      <4>1. state[d] = "in"
        BY <2>1, <2>2, <2>4
      <4>2. Room[d] \in Conns
        BY <4>1 DEF TypeInv, OnTheWay, Registered, Put
      <4> QED
        BY <4>1, <4>2, TargetsAssumption DEF RoomsInv
    <3>2. rooms[Place(d)] = Room[d]
      <4>1. \/ rooms'[Place(d)] = rooms[Place(d)]
            \/ rooms'[Place(d)] = c
        BY <1>2, <1>3 DEF BucketPut
      <4> QED
        BY <2>1, <2>2, <2>4, <3>1, <4>1
    <3> QED
      BY <1>1, <2>1, <2>2, <2>4, <3>1, <3>2 DEF Owed
  <2> QED
    BY <1>1, <2>1, <2>2, <2>3, <2>4 DEF Owed
<1>4. CASE RoomPut(c)
  <2>1. /\ rooms' = rooms /\ Room' = Room /\ state[c] = "putting"
        /\ \A e \in Conns : e # c => state'[e] = state[e] /\ since'[e] = since[e]
        /\ state'[c] = "in" => since'[c] = Len(target)
    BY <1>2, <1>4 DEF RoomPut
  <2>2. CASE target[m] = d /\ Registered(d)'
    BY <1>1, <2>1, <2>2 DEF Owed, Registered, Put
  <2>3. CASE target[m] = RoomOf[d] /\ state'[d] = "in" /\ since'[d] < m /\ rooms'[Place(d)] = Room'[d] /\ Room'[d] \notin damaged'
    <3>1. d # c
      BY <1>1, <1>2, <2>1, <2>3
    <3> QED
      BY <1>1, <2>1, <2>3, <3>1 DEF Owed
  <2> QED
    BY <1>1, <2>1, <2>2, <2>3 DEF Owed
<1> QED
  BY <1>3, <1>4

LEMMA PutAccount ==
    ASSUME AccountInv, NEW c \in Conns, BucketPut(c) \/ RoomPut(c)
    PROVE  AccountInv'
<1> USE DEF AccountInv
<1>1. UNCHANGED <<target, fan, broadcast, out, dropped>>
  BY DEF BucketPut, RoomPut
<1>2. OnceInv'
  BY <1>1 DEF OnceInv
<1>3. \A d \in Conns : \A m : Done(d, m)' <=> Done(d, m)
  BY <1>1 DEF Done
<1>4. AddressInv'
  BY <1>1, <1>3 DEF AddressInv
<1>5. state \in [Conns -> {"new", "putting", "in", "refused", "left"}]
      /\ Room \in [Conns -> Conns \cup {None}]
  BY DEF OrderInv, TypeInv, TypeOK
<1>6. HereInv'
  <2>1. \A d \in Conns : state[d] # "new" => state'[d] # "new"
    BY <1>5 DEF BucketPut, RoomPut
  <2>2. state[c] \in {"new", "putting"} /\ \A d \in Conns : d # c => state'[d] = state[d] /\ Room'[d] = Room[d]
    BY <1>5 DEF BucketPut, RoomPut
  <2>3. \A i \in Routines : \A d \in push[i].todo : d # c /\ d \in Conns
    BY <2>2 DEF HereInv, OrderInv, TypeInv, TypeOK
  <2> QED
    BY <1>1, <2>1, <2>2, <2>3 DEF HereInv
<1>7. ASSUME NEW d \in Conns, NEW m, Pending(d, m), Room'[d] = Room[d] PROVE Pending(d, m)'
  BY <1>1, <1>7 DEF Pending, ComingTo, Comes, NoCall, QueuedFor, WalkedTo, Ahead
<1>8. ThereInv'
  BY <1>1, <1>3, <1>7, PutOwed DEF ThereInv
<1> QED
  BY <1>2, <1>4, <1>6, <1>8, PutOrder

(* When connections leave, those who stay are owed nothing new and keep what they have. *)
LEMMA LeaveOwed ==
    ASSUME OrderInv, NEW c \in Conns, NEW e \in Conns, Leave(c) \/ LeaveTogether(c, e),
           NEW S \in SUBSET Conns, Gone(S), NEW d \in Conns, NEW m, Owed(d, m)'
    PROVE  Owed(d, m) /\ d \notin S
<1> USE DEF OrderInv
<1>1. /\ target' = target /\ m \in DOMAIN target /\ \A x : Place(x)' = Place(x)
      /\ damaged \subseteq damaged'
  BY DEF Gone, Leave, LeaveTogether, Owed, Place
<1>2. /\ \A x \in Conns : x \in S => state'[x] = "left"
      /\ \A x \in Conns : x \notin S => state'[x] = state[x] /\ Room'[x] = Room[x] /\ since'[x] = since[x]
  BY DEF Gone
<1>3. d \notin S
  BY <1>2 DEF Owed, Registered, Put
<1>4. \A p \in Buckets \X Rooms : rooms'[p] \in {rooms[p], None}
  BY Places DEF Leave, LeaveTogether, TypeInv, TypeOK
<1>5. state[d] = "in" => Room[d] # None
  BY TargetsAssumption DEF TypeInv, OnTheWay, Registered, Put
<1>6. Place(d) \in Buckets \X Rooms
  BY Places
<1> QED
  BY <1>1, <1>2, <1>3, <1>4, <1>5, <1>6 DEF Owed, Registered, Put

LEMMA LeaveAccount ==
    ASSUME AccountInv, NEW c \in Conns, NEW e \in Conns, Leave(c) \/ LeaveTogether(c, e)
    PROVE  AccountInv'
<1> USE DEF AccountInv
<1>1. PICK S \in SUBSET Conns : Gone(S)
  BY DEF Leave, LeaveTogether
<1>2. /\ UNCHANGED <<target, fan, writer>>
      /\ \A d \in Conns : d \in S => state'[d] = "left" /\ wire'[d] = <<>> /\ broadcast'[d] = <<>> /\ dropped'[d] = {}
      /\ \A d \in Conns : d \notin S => /\ state'[d] = state[d] /\ Room'[d] = Room[d]
                                        /\ wire'[d] = wire[d] /\ broadcast'[d] = broadcast[d] /\ dropped'[d] = dropped[d]
  BY <1>1 DEF Gone
<1>3. /\ \A d \in S : \A m : ~Done(d, m)'
      /\ \A d \in Conns : d \notin S => \A m : Done(d, m)' <=> Done(d, m)
  BY <1>2 DEF Done, Has
<1>4. OnceInv'
  <2> SUFFICES ASSUME NEW d \in Conns
               PROVE  /\ Once(wire'[d]) /\ Once(broadcast'[d])
                      /\ \A x \in Msgs : Has(wire'[d], x) => ~Has(broadcast'[d], x)
                      /\ \A x \in dropped'[d] : ~Has(wire'[d], x) /\ ~Has(broadcast'[d], x)
    BY DEF OnceInv
  <2>1. CASE d \in S
    BY <1>2, <2>1 DEF Once, Has
  <2>2. CASE d \notin S
    BY <1>2, <2>2 DEF OnceInv
  <2> QED
    BY <2>1, <2>2
<1>5. AddressInv'
  BY <1>2, <1>3 DEF AddressInv
<1>6. HereInv'
  <2>1. \A i \in Routines : \A d \in push[i].todo : d \in Conns
    BY DEF OrderInv, TypeInv, TypeOK
  <2> QED
    BY <1>2, <2>1 DEF HereInv
<1>7. ASSUME NEW d \in Conns, NEW m, Pending(d, m), d \notin S PROVE Pending(d, m)'
  BY <1>2, <1>7 DEF Pending, ComingTo, Comes, NoCall, QueuedFor, WalkedTo, Ahead
<1>8. ThereInv'
  BY <1>1, <1>2, <1>3, <1>7, LeaveOwed DEF ThereInv
<1> QED
  BY <1>4, <1>5, <1>6, <1>8, LeaveOrder

(* A message is pushed for a room, or for a connection that is registered. *)
LEMMA HereKept ==
    ASSUME OrderInv, HereInv, NEW t \in Conns \cup Rooms, target' = Append(target, t),
           t \in Conns => state[t] # "new", UNCHANGED <<life, push>>
    PROVE  HereInv'
<1>1. target \in Seq(Conns \cup Rooms)
  BY DEF OrderInv, TypeInv, TypeOK
<1>2. \A m \in DOMAIN target' : (m \in DOMAIN target /\ target'[m] = target[m]) \/ target'[m] = t
  BY <1>1
<1> QED
  BY <1>2 DEF HereInv

(* What a connection has got or lost was pushed. *)
LEMMA DoneWasPushed ==
    ASSUME OrderInv, NEW c \in Conns, NEW m, Done(c, m)
    PROVE  m \in DOMAIN target /\ (IsRoomMsg(m) => Older(c, m))
BY DEF OrderInv, GotInv, Done, Has

LEMMA PushSingleAccount ==
    ASSUME AccountInv, NEW c \in Conns, PushSingleMsg(c)
    PROVE  AccountInv'
<1> USE DEF AccountInv
<1>0. TypeInv /\ TypeOK
  BY DEF OrderInv, TypeInv
<1> PICK m \in Msgs : m = Len(target')
  BY <1>0, TargetGrows DEF PushSingleMsg
<1>1. /\ target' = Append(target, c) /\ ChannelPush(c, m) /\ UNCHANGED <<life, fan, out>>
  BY DEF PushSingleMsg
<1>2. /\ m \notin DOMAIN target /\ m \in DOMAIN target' /\ target'[m] = c
      /\ \A x \in DOMAIN target : target'[x] = target[x] /\ x \in DOMAIN target'
      /\ \A x \in DOMAIN target' : x \in DOMAIN target \/ x = m
  <2>1. target \in Seq(Conns \cup Rooms)
    BY <1>0 DEF TypeOK
  <2> QED
    BY <1>1, <2>1
<1>3. ~Done(c, m)
  BY <1>2, DoneWasPushed
<1>4. OnceInv' /\ \A d \in Conns : \A x : Done(d, x)' <=> Done(d, x) \/ (d = c /\ x = m)
  BY <1>0, <1>1, <1>3, Landed
<1>5. AddressInv'
  <2>1. \A d \in Conns : \A x \in Msgs : Done(d, x)' => target'[x] \in {d, RoomOf[d]}
    BY <1>2, <1>4, DoneWasPushed DEF AddressInv
  <2> QED
    BY <1>1, <2>1 DEF AddressInv
<1>7. HereInv'
  BY <1>1, HereKept DEF PushSingleMsg, Registered, Put
<1>6. ThereInv'
  <2> SUFFICES ASSUME NEW d \in Conns, NEW x \in DOMAIN target', Owed(d, x)', writer[d] = "up"
               PROVE  Done(d, x)' \/ Pending(d, x)'
    BY <1>1 DEF ThereInv
  <2>1. CASE x = m
    <3>1. d = c
      <4>1. c \in {d, RoomOf[d]}
        BY <1>2, <2>1 DEF Owed
      <4> QED
        BY <4>1, Places, TargetsAssumption
    <3> QED
      BY <1>4, <2>1, <3>1
  <2>2. CASE x \in DOMAIN target
    <3>1. Owed(d, x)
      BY <1>1, <1>2, <2>2 DEF Owed, Registered, Put, Place
    <3>2. Pending(d, x) => Pending(d, x)'
      BY <1>1 DEF Pending, ComingTo, Comes, NoCall, QueuedFor, WalkedTo, Ahead
    <3> QED
      BY <1>4, <2>2, <3>1, <3>2 DEF ThereInv
  <2> QED
    BY <1>2, <2>1, <2>2
<1> QED
  BY <1>4, <1>5, <1>6, <1>7, PushSingleOrder

LEMMA PushRoomAccount ==
    ASSUME AccountInv, NEW r \in Rooms, PushRoomMsg(r)
    PROVE  AccountInv'
<1> USE DEF AccountInv
<1>0. TypeInv /\ TypeOK
  BY DEF OrderInv, TypeInv
<1> PICK m \in Msgs : m = Len(target')
  BY <1>0, TargetGrows DEF PushRoomMsg
<1>1. /\ call = NoCall /\ target' = Append(target, r) /\ call' = [msg |-> m, at |-> 1]
      /\ UNCHANGED <<life, routinesNum, routines, push, broadcast, out, dropped>>
  BY DEF PushRoomMsg
<1>2. /\ m \in DOMAIN target'
      /\ \A x \in DOMAIN target : target'[x] = target[x] /\ x \in DOMAIN target'
      /\ \A x \in DOMAIN target' : x \in DOMAIN target \/ x = m
  <2>1. target \in Seq(Conns \cup Rooms)
    BY <1>0 DEF TypeOK
  <2> QED
    BY <1>1, <2>1
<1>3. OnceInv'
  BY <1>1 DEF OnceInv
<1>4. \A d \in Conns : \A x : Done(d, x)' <=> Done(d, x)
  BY <1>1 DEF Done
<1>5. AddressInv'
  <2>1. \A d \in Conns : \A x \in Msgs : Done(d, x)' => target'[x] \in {d, RoomOf[d]}
    BY <1>2, <1>4, DoneWasPushed DEF AddressInv
  <2> QED
    BY <1>1, <2>1 DEF AddressInv
<1>7. HereInv'
  BY <1>1, HereKept, TargetsAssumption
<1>6. ThereInv'
  <2> SUFFICES ASSUME NEW d \in Conns, NEW x \in DOMAIN target', Owed(d, x)', writer[d] = "up"
               PROVE  Done(d, x)' \/ Pending(d, x)'
    BY <1>1 DEF ThereInv
  <2>1. CASE x = m
    <3>1. Comes(Bucket[d])' /\ call'.msg = m
      BY <1>1, Places, Sizes DEF Comes, NoCall, Buckets, Msgs
    <3> QED
      BY <2>1, <3>1 DEF Pending, ComingTo
  <2>2. CASE x \in DOMAIN target
    <3>1. Owed(d, x)
      BY <1>1, <1>2, <2>2 DEF Owed, Registered, Put, Place
    <3>2. Pending(d, x) => Pending(d, x)'
      BY <1>1 DEF Pending, ComingTo, Comes, QueuedFor, WalkedTo, Ahead
    <3> QED
      BY <1>1, <1>4, <2>2, <3>1, <3>2 DEF ThereInv
  <2> QED
    BY <1>2, <2>1, <2>2
<1> QED
  BY <1>3, <1>5, <1>6, <1>7, PushRoomOrder

(* A message goes from the call to a queue, from a queue to a walk, and from a walk to the
   connection it is at. *)
LEMMA BroadcastAccount ==
    ASSUME AccountInv, BroadcastRoom
    PROVE  AccountInv'
<1> USE DEF AccountInv
<1>0. /\ TypeOK /\ call # NoCall /\ call.at \in Buckets /\ call.msg \in Msgs
  <2>1. TypeInv /\ call # NoCall /\ IsRoomMsg(call.msg) /\ call.at # 0 /\ call.at \in 0 .. NumBuckets
    BY DEF BroadcastRoom, OrderInv, TypeInv, OnTheWay, TypeOK
  <2>2. call.msg \in Msgs
    BY <2>1, Pushed DEF IsRoomMsg
  <2> QED
    BY <2>1, <2>2, Sizes DEF Buckets, TypeInv
<1> PICK b \in Buckets : b = call.at
  BY <1>0
<1> PICK m \in Msgs : m = call.msg
  BY <1>0
<1> PICK num : num = (routinesNum[b] + 1) % RoutineAmount
  OBVIOUS
<1> PICK i : i = <<b, num>>
  OBVIOUS
<1>1. /\ routines' = [routines EXCEPT ![i] = Append(routines[i], m)]
      /\ call' = IF b = NumBuckets THEN NoCall ELSE [call EXCEPT !.at = b + 1]
      /\ UNCHANGED <<life, target, push, broadcast, out, dropped>>
  BY DEF BroadcastRoom
<1>2. i \in Routines /\ i[1] = b
  <2>1. routinesNum[b] \in 0 .. RoutineAmount - 1
    BY <1>0 DEF TypeOK
  <2>2. num \in 0 .. RoutineAmount - 1
    BY <2>1, Sizes
  <2> QED
    BY <2>2 DEF Routines
<1>3. OnceInv' /\ AddressInv' /\ HereInv'
  <2>1. OnceInv'
    BY <1>1 DEF OnceInv
  <2>2. AddressInv'
    BY <1>1 DEF AddressInv, Done
  <2>3. HereInv'
    BY <1>1 DEF HereInv
  <2> QED
    BY <2>1, <2>2, <2>3
<1>4. /\ \A j \in Routines : \A x : Has(routines[j], x) => Has(routines'[j], x)
      /\ Has(routines'[i], m)
  <2>1. routines[i] \in Seq(Msgs)
    BY <1>0, <1>2 DEF TypeOK
  <2>2. \A x : Has(Append(routines[i], m), x) <=> Has(routines[i], x) \/ x = m
    BY <2>1, AppendHas
  <2> QED
    BY <1>0, <1>1, <1>2, <2>2 DEF TypeOK
<1>5. ASSUME NEW c \in Conns, NEW x, Pending(c, x) PROVE Pending(c, x)'
  <2>1. CASE ComingTo(c, x)
    <3>1. x = m /\ call.at <= Bucket[c] /\ Bucket[c] \in Buckets
      BY <2>1, Places DEF ComingTo, Comes
    <3>2. CASE Bucket[c] = b
      <4>1. QueuedFor(c, x)'
        BY <1>2, <1>4, <3>1, <3>2 DEF QueuedFor
      <4> QED
        BY <4>1 DEF Pending
    <3>3. CASE Bucket[c] # b
      <4>1. b # NumBuckets /\ b + 1 <= Bucket[c]
        BY <3>1, <3>3, Sizes DEF Buckets
      <4>2. call' = [msg |-> m, at |-> b + 1]
        <5>1. call \in [msg : 0 .. MaxMsgs, at : 0 .. NumBuckets]
          BY <1>0 DEF TypeOK
        <5>2. call' = [call EXCEPT !.at = b + 1]
          BY <1>1, <4>1
        <5> QED
          BY <5>1, <5>2
      <4>3. call' # NoCall
        BY <4>2, Sizes DEF NoCall, Msgs
      <4>4. ComingTo(c, x)'
        BY <3>1, <4>1, <4>2, <4>3 DEF ComingTo, Comes
      <4> QED
        BY <4>4 DEF Pending
    <3> QED
      BY <3>2, <3>3
  <2>2. CASE QueuedFor(c, x)
    <3>1. QueuedFor(c, x)'
      BY <1>4, <2>2 DEF QueuedFor
    <3> QED
      BY <3>1 DEF Pending
  <2>3. CASE WalkedTo(c, x)
    <3>1. WalkedTo(c, x)'
      BY <1>1, <2>3 DEF WalkedTo, Ahead
    <3> QED
      BY <3>1 DEF Pending
  <2> QED
    BY <1>5, <2>1, <2>2, <2>3 DEF Pending
<1>6. ThereInv'
  BY <1>1, <1>5, OwedSame DEF ThereInv, Done
<1> QED
  BY <1>3, <1>6, BroadcastOrder

LEMMA TakeAccount ==
    ASSUME AccountInv, NEW i \in Routines, TakeFromQueue(i)
    PROVE  AccountInv'
<1> USE DEF AccountInv
<1>0. TypeInv /\ TypeOK /\ routines[i] \in Seq(Msgs) /\ routines[i] # <<>> /\ push[i] = Idle
  BY DEF TakeFromQueue, OrderInv, TypeInv, TypeOK
<1> PICK m \in Msgs : m = Head(routines[i])
  BY <1>0, MsgLists
<1> PICK o : o = rooms[<<i[1], target[m]>>]
  OBVIOUS
<1>1. /\ push' = [push EXCEPT ![i] = IF o = None THEN Idle ELSE [msg |-> m, room |-> o, todo |-> {}]]
      /\ routines' = [routines EXCEPT ![i] = Tail(routines[i])]
      /\ UNCHANGED <<life, target, call, routinesNum, broadcast, out, dropped>>
  BY DEF TakeFromQueue
<1>2. IsRoomMsg(m)
  BY <1>0, MsgEntries DEF TypeInv, OnTheWay
<1>3. /\ \A j \in Routines : j # i => push'[j] = push[j]
      /\ push'[i].todo = {}
      /\ o # None => push'[i] = [msg |-> m, room |-> o, todo |-> {}]
  BY <1>0, <1>1 DEF Idle, TypeOK
<1>4. OnceInv' /\ AddressInv' /\ HereInv'
  <2>1. OnceInv'
    BY <1>1 DEF OnceInv
  <2>2. AddressInv'
    BY <1>1 DEF AddressInv, Done
  <2>3. \A j \in Routines : \A c \in push'[j].todo : c \in push[j].todo /\ push'[j] = push[j]
    BY <1>3
  <2>4. HereInv'
    BY <1>1, <2>3 DEF HereInv
  <2> QED
    BY <2>1, <2>2, <2>4
<1>5. ASSUME NEW c \in Conns, NEW x \in DOMAIN target, Pending(c, x), Owed(c, x) PROVE Pending(c, x)'
  <2>0. x \in Msgs
    BY <1>0, Pushed
  <2>1. CASE ComingTo(c, x)
    BY <1>1, <2>1 DEF Pending, ComingTo, Comes, NoCall
  <2>2. CASE QueuedFor(c, x)
    <3> PICK j \in Routines : j[1] = Bucket[c] /\ Has(routines[j], x)
      BY <2>2 DEF QueuedFor
    <3>1. CASE j # i
      <4>1. routines'[j] = routines[j]
        BY <1>0, <1>1, <3>1 DEF TypeOK
      <4>2. QueuedFor(c, x)'
        BY <4>1 DEF QueuedFor
      <4> QED
        BY <4>2 DEF Pending
    <3>2. CASE j = i
      <4>1. Has(Tail(routines[i]), x) \/ x = m
        BY <1>0, <3>2, TailHas
      <4>2. CASE Has(Tail(routines[i]), x)
        <5>1. routines'[i] = Tail(routines[i])
          BY <1>0, <1>1 DEF TypeOK
        <5>2. QueuedFor(c, x)'
          BY <3>2, <4>2, <5>1 DEF QueuedFor
        <5> QED
          BY <5>2 DEF Pending
      <4>3. CASE x = m
        <5>1. target[x] = RoomOf[c] /\ rooms[Place(c)] = Room[c] /\ Room[c] # None
          BY <1>2, <1>5, <4>3, OwedIn
        <5>2. o = Room[c] /\ Room'[c] = Room[c]
          BY <1>1, <3>2, <4>3, <5>1 DEF Place
        <5>3. push'[i] = [msg |-> m, room |-> o, todo |-> {}]
          BY <1>3, <5>1, <5>2
        <5>4. push'[i].msg = x /\ Ahead(i, c)'
          BY <4>3, <5>2, <5>3 DEF Ahead
        <5>5. WalkedTo(c, x)'
          BY <3>2, <5>4 DEF WalkedTo
        <5> QED
          BY <5>5 DEF Pending
      <4> QED
        BY <4>1, <4>2, <4>3
    <3> QED
      BY <3>1, <3>2
  <2>3. CASE WalkedTo(c, x)
    <3> PICK j \in Routines : j[1] = Bucket[c] /\ push[j].msg = x /\ Ahead(j, c)
      BY <2>3 DEF WalkedTo
    <3>1. j # i
      BY <1>0, <2>0 DEF Idle, Msgs
    <3>2. WalkedTo(c, x)'
      BY <1>1, <1>3, <3>1 DEF WalkedTo, Ahead
    <3> QED
      BY <3>2 DEF Pending
  <2> QED
    BY <1>5, <2>1, <2>2, <2>3 DEF Pending
<1>6. ThereInv'
  BY <1>1, <1>5, OwedSame DEF ThereInv, Done
<1> QED
  BY <1>4, <1>6, TakeOrder

(* The walk begins: those who are owed the message are in the Room. *)
LEMMA RLockAccount ==
    ASSUME AccountInv, NEW i \in Routines, PushRLock(i)
    PROVE  AccountInv'
<1> USE DEF AccountInv
<1>0. TypeInv /\ TypeOK
  BY DEF OrderInv, TypeInv
<1> DEFINE all == Members(push[i].room)
<1>1. /\ push[i] # Idle /\ push[i].todo = {} /\ push' = [push EXCEPT ![i] = Walk(@, all)]
      /\ UNCHANGED <<life, target, call, routinesNum, routines, broadcast, out, dropped>>
  BY <1>0 DEF PushRLock, TypeOK
<1>2. all \in SUBSET Conns /\ \A c \in Conns : c \in all <=> state[c] = "in" /\ Room[c] = push[i].room
  BY DEF Members
<1> HIDE DEF all
<1>3. /\ \A j \in Routines : j # i => push'[j] = push[j]
      /\ push'[i].todo = all
      /\ all # {} => push'[i].msg = push[i].msg /\ push'[i].room = push[i].room
  <2>1. /\ \A j \in Routines : j # i => push'[j] = push[j]
        /\ all = {} => push'[i] = Idle
        /\ all # {} => push'[i].msg = push[i].msg /\ push'[i].room = push[i].room /\ push'[i].todo = all
    BY <1>0, <1>1, <1>2, WalkGoesOn
  <2>2. all = {} => push'[i].todo = all
    BY <2>1 DEF Idle
  <2> QED
    BY <2>1, <2>2
<1>4. OnceInv' /\ AddressInv'
  BY <1>1 DEF OnceInv, AddressInv, Done
<1>5. HereInv'
  <2>1. ASSUME NEW j \in Routines, NEW c \in push'[j].todo
        PROVE  state[c] = "left" \/ (state[c] = "in" /\ Room[c] = push'[j].room)
    <3>1. CASE j # i
      BY <1>3, <2>1, <3>1 DEF HereInv
    <3>2. CASE j = i
      <4>1. c \in all /\ c \in Conns
        BY <1>2, <1>3, <2>1, <3>2
      <4> QED
        BY <1>2, <1>3, <3>2, <4>1
    <3> QED
      BY <3>1, <3>2
  <2> QED
    BY <1>1, <2>1 DEF HereInv
<1>6. ASSUME NEW c \in Conns, NEW x \in DOMAIN target, Pending(c, x), Owed(c, x) PROVE Pending(c, x)'
  <2>1. CASE ComingTo(c, x) \/ QueuedFor(c, x)
    BY <1>1, <2>1 DEF Pending, ComingTo, Comes, NoCall, QueuedFor
  <2>2. CASE WalkedTo(c, x)
    <3> PICK j \in Routines : j[1] = Bucket[c] /\ push[j].msg = x /\ Ahead(j, c)
      BY <2>2 DEF WalkedTo
    <3>1. CASE j # i
      <4>1. WalkedTo(c, x)'
        BY <1>1, <1>3, <3>1 DEF WalkedTo, Ahead
      <4> QED
        BY <4>1 DEF Pending
    <3>2. CASE j = i
      <4>1. IsRoomMsg(x)
        BY <1>0, <1>1, <3>2 DEF TypeInv, OnTheWay
      <4>2. state[c] = "in" /\ Room[c] = push[i].room
        BY <1>1, <1>6, <3>2, <4>1, OwedIn DEF Ahead
      <4>3. c \in push'[i].todo /\ push'[i].msg = x
        BY <1>2, <1>3, <3>2, <4>2
      <4>4. WalkedTo(c, x)'
        BY <3>2, <4>3 DEF WalkedTo, Ahead
      <4> QED
        BY <4>4 DEF Pending
    <3> QED
      BY <3>1, <3>2
  <2> QED
    BY <1>6, <2>1, <2>2 DEF Pending
<1>7. ThereInv'
  BY <1>1, <1>6, OwedSame DEF ThereInv, Done
<1> QED
  BY <1>4, <1>5, <1>7, RLockOrder

LEMMA PushNextAccount ==
    ASSUME AccountInv, NEW i \in Routines, PushNext(i)
    PROVE  AccountInv'
<1> USE DEF AccountInv
<1>0. TypeInv /\ TypeOK
  BY DEF OrderInv, TypeInv
<1>1. PICK c \in push[i].todo :
         /\ \/ state[c] = "in" /\ ChannelPush(c, push[i].msg)
            \/ /\ state[c] = "left" \/ push[i].room \in damaged
               /\ UNCHANGED <<broadcast, dropped>>
         /\ push' = [push EXCEPT ![i] = Walk(@, push[i].todo \ {c})]
         /\ UNCHANGED <<life, target, call, routinesNum, routines, out>>
  BY <1>0 DEF PushNext, TypeOK
<1> DEFINE rest == push[i].todo \ {c}
<1>2. push[i] # Idle /\ rest \in SUBSET Conns /\ c \in Conns /\ IsRoomMsg(push[i].msg)
  BY <1>0, <1>1 DEF Idle, TypeInv, TypeOK, OnTheWay
<1>3. push' = [push EXCEPT ![i] = Walk(@, rest)] /\ \A d \in push[i].todo : d = c \/ d \in rest
  BY <1>1
<1>4. \A d \in rest : d \in push[i].todo
  OBVIOUS
<1> HIDE DEF rest
<1> PICK m \in Msgs : m = push[i].msg
  BY <1>0, <1>2, Pushed DEF IsRoomMsg
<1>5. target[m] = RoomOf[c] /\ i = <<Bucket[c], RoutineOf(m)>> /\ m \in Nat /\ IsRoomMsg(m)
  BY <1>1, <1>2 DEF OrderInv, RoomsInv, WalkInv, Place, Routines, Msgs
<1>6. ~Done(c, m)
  <2>1. SUFFICES ASSUME Done(c, m) PROVE FALSE
    OBVIOUS
  <2>2. Older(c, m) /\ Faces(i, c)
    BY <1>1, <1>2, <1>5, <2>1, DoneWasPushed DEF Faces
  <2>3. m < push[i].msg
    BY <1>5, <2>2 DEF Older
  <2> QED
    BY <1>5, <2>3
<1>7. /\ \A j \in Routines : j # i => push'[j] = push[j]
      /\ push'[i].todo = rest
      /\ rest # {} => push'[i].msg = m /\ push'[i].room = push[i].room
  <2>1. /\ \A j \in Routines : j # i => push'[j] = push[j]
        /\ rest = {} => push'[i] = Idle
        /\ rest # {} => push'[i].msg = push[i].msg /\ push'[i].room = push[i].room /\ push'[i].todo = rest
    BY <1>0, <1>2, <1>3, WalkGoesOn
  <2>2. rest = {} => push'[i].todo = rest
    BY <2>1 DEF Idle
  <2> QED
    BY <2>1, <2>2
<1>8. /\ OnceInv'
      /\ \A d \in Conns : \A x : /\ Done(d, x) => Done(d, x)'
                                 /\ Done(d, x)' => Done(d, x) \/ (d = c /\ x = m)
      /\ state[c] = "left" \/ push[i].room \in damaged \/ Done(c, m)'
  <2>1. CASE state[c] = "in" /\ ChannelPush(c, push[i].msg)
    <3>1. ChannelPush(c, m) /\ wire' = wire
      BY <1>1, <2>1
    <3> QED
      BY <1>0, <1>2, <1>6, <3>1, Landed
  <2>2. CASE (state[c] = "left" \/ push[i].room \in damaged) /\ UNCHANGED <<broadcast, dropped>>
    BY <1>1, <2>2 DEF OnceInv, Done
  <2> QED
    BY <1>1, <2>1, <2>2
<1>9. AddressInv'
  BY <1>1, <1>5, <1>8 DEF AddressInv
<1>10. HereInv'
  <2>1. ASSUME NEW j \in Routines, NEW d \in push'[j].todo
        PROVE  state[d] = "left" \/ (state[d] = "in" /\ Room[d] = push'[j].room)
    <3>1. CASE j # i
      BY <1>7, <2>1, <3>1 DEF HereInv
    <3>2. CASE j = i
      <4>1. d \in push[i].todo /\ push'[i].room = push[i].room
        BY <1>4, <1>7, <2>1, <3>2
      <4> QED
        BY <3>2, <4>1 DEF HereInv
    <3> QED
      BY <3>1, <3>2
  <2> QED
    BY <1>1, <2>1 DEF HereInv
<1>11. ASSUME NEW d \in Conns, NEW x \in DOMAIN target, Pending(d, x), Owed(d, x) PROVE Pending(d, x)' \/ Done(d, x)'
  <2>1. CASE ComingTo(d, x) \/ QueuedFor(d, x)
    BY <1>1, <2>1 DEF Pending, ComingTo, Comes, NoCall, QueuedFor
  <2>2. CASE WalkedTo(d, x)
    <3> PICK j \in Routines : j[1] = Bucket[d] /\ push[j].msg = x /\ Ahead(j, d)
      BY <2>2 DEF WalkedTo
    <3>1. CASE j # i
      <4>1. WalkedTo(d, x)'
        BY <1>1, <1>7, <3>1 DEF WalkedTo, Ahead
      <4> QED
        BY <4>1 DEF Pending
    <3>2. CASE j = i
      <4>1. d \in push[i].todo /\ x = m
        BY <1>1, <3>2 DEF Ahead
      <4>2. CASE d = c
        <5>1. state[c] = "in" /\ Room[c] \notin damaged
          BY <1>5, <1>11, <4>1, <4>2, OwedIn
        <5>2. Room[c] = push[i].room
          BY <1>1, <5>1 DEF HereInv
        <5> QED
          BY <1>8, <4>1, <4>2, <5>1, <5>2
      <4>3. CASE d \in rest
        <5>1. WalkedTo(d, x)'
          BY <1>7, <3>2, <4>1, <4>3 DEF WalkedTo, Ahead
        <5> QED
          BY <5>1 DEF Pending
      <4> QED
        BY <1>3, <4>1, <4>2, <4>3
    <3> QED
      BY <3>1, <3>2
  <2> QED
    BY <1>11, <2>1, <2>2 DEF Pending
<1>12. ThereInv'
  <2> SUFFICES ASSUME NEW d \in Conns, NEW x \in DOMAIN target, Owed(d, x)', writer[d] = "up"
               PROVE  Done(d, x)' \/ Pending(d, x)'
    BY <1>1 DEF ThereInv
  <2>1. Owed(d, x)
    BY <1>1, OwedSame
  <2> QED
    BY <1>8, <1>11, <2>1 DEF ThereInv
<1> QED
  BY <1>8, <1>9, <1>10, <1>12, PushNextOrder

(* What is written was in the buffer; what a failed write takes away was for a connection
   whose writer is gone. *)
LEMMA WriterAccount ==
    ASSUME AccountInv, NEW c \in Conns, Write(c) \/ WriteFails(c)
    PROVE  AccountInv'
<1> USE DEF AccountInv
<1>0. TypeOK /\ broadcast[c] \in Seq(Msgs) /\ wire[c] \in Seq(Msgs)
  BY DEF OrderInv, TypeInv, TypeOK
<1>1. UNCHANGED <<life, target, fan, dropped>>
  BY DEF Write, WriteFails
<1>2. \A d \in Conns : \A x : Pending(d, x)' <=> Pending(d, x)
  BY <1>1 DEF Pending, ComingTo, Comes, NoCall, QueuedFor, WalkedTo, Ahead
<1>3. /\ \A d \in Conns : d # c => wire'[d] = wire[d] /\ broadcast'[d] = broadcast[d] /\ writer'[d] = writer[d]
      /\ Once(wire'[c]) /\ Once(broadcast'[c])
      /\ \A x \in Msgs : Has(wire'[c], x) => ~Has(broadcast'[c], x)
      /\ \A x : Has(wire'[c], x) \/ Has(broadcast'[c], x) => Has(wire[c], x) \/ Has(broadcast[c], x)
      /\ \A x : writer'[c] = "up" /\ (Has(wire[c], x) \/ Has(broadcast[c], x)) => Has(wire'[c], x) \/ Has(broadcast'[c], x)
  <2>1. CASE broadcast[c] # <<>>
    <3> PICK m \in Msgs : m = Head(broadcast[c])
      BY <1>0, <2>1, MsgLists
    <3> PICK t \in Seq(Msgs) : t = Tail(broadcast[c])
      BY <1>0, <2>1, MsgLists
    <3>1. broadcast'[c] = t /\ \A d \in Conns : d # c => broadcast'[d] = broadcast[d]
      BY <1>0, <2>1 DEF Write, WriteFails, TypeOK
    <3>2. (\A x : Has(broadcast[c], x) <=> Has(t, x) \/ x = m) /\ Once(t) /\ ~Has(t, m)
      BY <1>0, <2>1, TailHas DEF OnceInv
    <3>3. Once(wire[c]) /\ ~Has(wire[c], m) /\ \A x \in Msgs : Has(wire[c], x) => ~Has(t, x)
      BY <3>2 DEF OnceInv
    <3>4. CASE Write(c)
      <4> PICK w : w = Append(wire[c], m)
        OBVIOUS
      <4>1. wire'[c] = w /\ (\A d \in Conns : d # c => wire'[d] = wire[d]) /\ writer' = writer
        BY <1>0, <3>4 DEF Write, TypeOK
      <4>2. (\A x : Has(w, x) <=> Has(wire[c], x) \/ x = m) /\ Once(w)
        BY <1>0, <3>3, AppendHas
      <4> QED
        BY <3>1, <3>2, <3>3, <4>1, <4>2
    <3>5. CASE WriteFails(c)
      <4>1. wire' = wire /\ writer'[c] = "down" /\ \A d \in Conns : d # c => writer'[d] = writer[d]
        BY <1>0, <3>5 DEF WriteFails, TypeOK
      <4> QED
        BY <3>1, <3>2, <3>3, <4>1
    <3> QED
      BY <3>4, <3>5
  <2>2. CASE broadcast[c] = <<>>
    <3>1. WriteFails(c)
      BY <2>2 DEF Write
    <3>2. broadcast' = broadcast /\ wire' = wire /\ writer'[c] = "down" /\ \A d \in Conns : d # c => writer'[d] = writer[d]
      BY <1>0, <2>2, <3>1 DEF WriteFails, TypeOK
    <3> QED
      BY <3>2 DEF OnceInv
  <2> QED
    BY <2>1, <2>2
<1>4. \A d \in Conns : \A x : /\ Done(d, x)' => Done(d, x)
                              /\ Done(d, x) /\ writer'[d] = "up" => Done(d, x)'
                              /\ writer'[d] = "up" => writer[d] = "up"
  <2>1. ASSUME NEW d \in Conns, NEW x
        PROVE  /\ Done(d, x)' => Done(d, x)
               /\ Done(d, x) /\ writer'[d] = "up" => Done(d, x)'
    <3>1. CASE d = c
      BY <1>1, <1>3, <3>1 DEF Done
    <3>2. CASE d # c
      BY <1>1, <1>3, <3>2 DEF Done
    <3> QED
      BY <3>1, <3>2
  <2>2. writer[c] = "up"
    BY DEF Write, WriteFails
  <2> QED
    BY <1>3, <2>1, <2>2
<1>5. OnceInv'
  <2> SUFFICES ASSUME NEW d \in Conns
               PROVE  /\ Once(wire'[d]) /\ Once(broadcast'[d])
                      /\ \A x \in Msgs : Has(wire'[d], x) => ~Has(broadcast'[d], x)
                      /\ \A x \in dropped[d] : ~Has(wire'[d], x) /\ ~Has(broadcast'[d], x)
    BY <1>1 DEF OnceInv
  <2>1. CASE d = c
    BY <1>3, <2>1 DEF OnceInv
  <2>2. CASE d # c
    BY <1>3, <2>2 DEF OnceInv
  <2> QED
    BY <2>1, <2>2
<1>6. AddressInv'
  BY <1>1, <1>4 DEF AddressInv
<1>7. HereInv'
  BY <1>1 DEF HereInv
<1>8. ThereInv'
  BY <1>1, <1>2, <1>4, OwedSame DEF ThereInv
<1> QED
  BY <1>5, <1>6, <1>7, <1>8, WriterOrder

LEMMA AccountInit == Init => AccountInv
<1> SUFFICES ASSUME Init PROVE AccountInv
  OBVIOUS
<1>1. OnceInv /\ AddressInv
  BY DEF Init, OnceInv, Once, Has, AddressInv, Done
<1>2. ThereInv /\ HereInv
  BY DEF Init, ThereInv, HereInv, Idle
<1> QED
  BY <1>1, <1>2, OrderInit DEF AccountInv

LEMMA AccountStep == AccountInv /\ [Next]_vars => AccountInv'
<1> SUFFICES ASSUME AccountInv, [Next]_vars PROVE AccountInv'
  OBVIOUS
<1>0. ASSUME NEW c \in Conns, NEW d \in Conns, Leave(c) \/ LeaveTogether(c, d) PROVE AccountInv'
  BY <1>0, LeaveAccount
<1>1. ASSUME NEW c \in Conns, BucketPut(c) \/ RoomPut(c) PROVE AccountInv'
  BY <1>1, PutAccount
<1>2. ASSUME NEW c \in Conns, PushSingleMsg(c) PROVE AccountInv'
  BY <1>2, PushSingleAccount
<1>3. ASSUME NEW c \in Conns, Write(c) \/ WriteFails(c) PROVE AccountInv'
  BY <1>3, WriterAccount
<1>4. ASSUME NEW r \in Rooms, PushRoomMsg(r) PROVE AccountInv'
  BY <1>4, PushRoomAccount
<1>5. CASE BroadcastRoom
  BY <1>5, BroadcastAccount
<1>6. ASSUME NEW i \in Routines, RoutineStep(i) PROVE AccountInv'
  BY <1>6, TakeAccount, RLockAccount, PushNextAccount DEF RoutineStep
<1>7. CASE UNCHANGED vars
  <2>1. OrderInv'
    BY <1>7, OrderStep DEF AccountInv
  <2>2. OnceInv'
    BY <1>7 DEF AccountInv, vars, OnceInv
  <2>3. \A c \in Conns : \A m : /\ Done(c, m)' <=> Done(c, m)
                                /\ Pending(c, m)' <=> Pending(c, m)
    BY <1>7 DEF vars, Done, Pending, ComingTo, Comes, NoCall, QueuedFor, WalkedTo, Ahead
  <2>4. AddressInv'
    BY <1>7, <2>3 DEF AccountInv, vars, AddressInv
  <2>5. ThereInv'
    BY <1>7, <2>3, OwedSame DEF AccountInv, vars, ThereInv
  <2>6. HereInv'
    BY <1>7 DEF AccountInv, vars, HereInv
  <2> QED
    BY <2>1, <2>2, <2>4, <2>5, <2>6 DEF AccountInv
<1> QED
  BY <1>0, <1>1, <1>2, <1>3, <1>4, <1>5, <1>6, <1>7 DEF Next

-----------------------------------------------------------------------------
(* A set of no more than one element counts as one when there is one. *)
LEMMA AtMostOne ==
    ASSUME NEW S, \A x, y \in S : x = y
    PROVE  Cardinality(S) = IF S = {} THEN 0 ELSE 1
<1>1. CASE S = {}
  BY <1>1, FS_EmptySet
<1>2. CASE S # {}
  <2> PICK x \in S : TRUE
    BY <1>2
  <2>1. S = {x}
    OBVIOUS
  <2> QED
    BY <1>2, <2>1, FS_Singleton
<1> QED
  BY <1>1, <1>2

LEMMA CountHas ==
    ASSUME NEW S, NEW s \in Seq(S), NEW m
    PROVE  /\ Count(s, m) > 0 <=> Has(s, m)
           /\ Once(s) => Count(s, m) = IF Has(s, m) THEN 1 ELSE 0
<1> DEFINE K == {k \in DOMAIN s : s[k] = m}
<1>1. IsFiniteSet(K)
  <2>1. DOMAIN s = 1 .. Len(s) /\ Len(s) \in Nat
    OBVIOUS
  <2>2. IsFiniteSet(1 .. Len(s))
    BY <2>1, FS_Interval
  <2> QED
    BY <2>1, <2>2, FS_Subset
<1>2. Cardinality(K) \in Nat /\ (Cardinality(K) = 0 <=> K = {})
  BY <1>1, FS_CardinalityType, FS_EmptySet
<1>3. K # {} <=> Has(s, m)
  BY DEF Has
<1>4. Once(s) => Cardinality(K) = IF K = {} THEN 0 ELSE 1
  <2> SUFFICES ASSUME Once(s) PROVE \A x, y \in K : x = y
    BY AtMostOne
  <2> QED
    BY DEF Once
<1>5. Count(s, m) = Cardinality(K)
  BY DEF Count
<1> HIDE DEF K
<1> QED
  BY <1>2, <1>3, <1>4, <1>5

LEMMA ConcatHas ==
    ASSUME NEW s \in Seq(Msgs), NEW t \in Seq(Msgs)
    PROVE  /\ \A m : Has(s \o t, m) <=> Has(s, m) \/ Has(t, m)
           /\ Once(s) /\ Once(t) /\ (\A m \in Msgs : Has(s, m) => ~Has(t, m)) => Once(s \o t)
<1>1. s \o t \in Seq(Msgs) /\ Len(s \o t) = Len(s) + Len(t) /\ Len(s) \in Nat /\ Len(t) \in Nat
  OBVIOUS
<1>2. /\ \A k \in DOMAIN s : k \in DOMAIN (s \o t) /\ (s \o t)[k] = s[k]
      /\ \A k \in DOMAIN t : k + Len(s) \in DOMAIN (s \o t) /\ (s \o t)[k + Len(s)] = t[k]
  <2>1. DOMAIN s = 1 .. Len(s) /\ DOMAIN t = 1 .. Len(t) /\ DOMAIN (s \o t) = 1 .. Len(s) + Len(t)
    BY <1>1
  <2>2. \A k \in 1 .. Len(s) + Len(t) : (s \o t)[k] = IF k <= Len(s) THEN s[k] ELSE t[k - Len(s)]
    OBVIOUS
  <2>3. ASSUME NEW k \in DOMAIN s PROVE k \in DOMAIN (s \o t) /\ (s \o t)[k] = s[k]
    BY <1>1, <2>1, <2>2
  <2>4. ASSUME NEW k \in DOMAIN t PROVE k + Len(s) \in DOMAIN (s \o t) /\ (s \o t)[k + Len(s)] = t[k]
    <3>1. k + Len(s) \in 1 .. Len(s) + Len(t) /\ ~(k + Len(s) <= Len(s)) /\ (k + Len(s)) - Len(s) = k
      BY <1>1, <2>1
    <3> QED
      BY <2>1, <2>2, <3>1
  <2> QED
    BY <2>3, <2>4
<1>3. \A k \in DOMAIN (s \o t) :
         /\ k \in Int
         /\ \/ k \in DOMAIN s /\ (s \o t)[k] = s[k] /\ k <= Len(s)
            \/ k - Len(s) \in DOMAIN t /\ (s \o t)[k] = t[k - Len(s)] /\ k > Len(s)
  BY MsgConcat
<1> PICK u : u = s \o t
  OBVIOUS
<1>4. ASSUME NEW m PROVE Has(u, m) <=> Has(s, m) \/ Has(t, m)
  <2>1. ASSUME Has(u, m) PROVE Has(s, m) \/ Has(t, m)
    BY <1>3, <2>1 DEF Has
  <2>2. ASSUME Has(s, m) \/ Has(t, m) PROVE Has(u, m)
    BY <1>2, <2>2 DEF Has
  <2> QED
    BY <2>1, <2>2
<1>5. ASSUME Once(s), Once(t), \A m \in Msgs : Has(s, m) => ~Has(t, m) PROVE Once(u)
  <2> SUFFICES ASSUME NEW j \in DOMAIN u, NEW k \in DOMAIN u, u[j] = u[k] PROVE j = k
    BY DEF Once
  <2>1. \A x \in DOMAIN s, y \in DOMAIN t : s[x] # t[y]
    <3> TAKE x \in DOMAIN s, y \in DOMAIN t
    <3>1. s[x] \in Msgs
      BY <1>1
    <3> QED
      BY <1>5, <3>1 DEF Has
  <2>2. CASE j \in DOMAIN s /\ u[j] = s[j]
    <3>1. CASE k \in DOMAIN s /\ u[k] = s[k]
      BY <1>5, <2>2, <3>1 DEF Once
    <3>2. CASE k - Len(s) \in DOMAIN t /\ u[k] = t[k - Len(s)]
      BY <2>1, <2>2, <3>2
    <3> QED
      BY <1>3, <3>1, <3>2
  <2>3. CASE j - Len(s) \in DOMAIN t /\ u[j] = t[j - Len(s)]
    <3>1. CASE k \in DOMAIN s /\ u[k] = s[k]
      BY <2>1, <2>3, <3>1
    <3>2. CASE k - Len(s) \in DOMAIN t /\ u[k] = t[k - Len(s)]
      <4>1. j - Len(s) = k - Len(s)
        BY <1>5, <2>3, <3>2 DEF Once
      <4> QED
        BY <1>1, <1>3, <4>1
    <3> QED
      BY <1>3, <3>1, <3>2
  <2> QED
    BY <1>3, <2>2, <2>3
<1> QED
  BY <1>4, <1>5

(* A message that is pending for a connection is so in one place, and that connection has
   not got it. *)
LEMMA OnePlace ==
    ASSUME AccountInv, NEW c \in Conns, NEW m \in DOMAIN target
    PROVE  /\ Done(c, m) => ~Pending(c, m)
           /\ ComingTo(c, m) => ~QueuedFor(c, m) /\ ~WalkedTo(c, m)
           /\ QueuedFor(c, m) => ~WalkedTo(c, m)
<1> USE DEF AccountInv, OrderInv
<1>0. m \in Msgs /\ m \in Nat
  BY Pushed DEF Msgs
<1>1. ASSUME NEW i \in Routines, i[1] = Bucket[c], Has(routines[i], m)
      PROVE  IsRoomMsg(m) /\ i = <<Bucket[c], RoutineOf(m)>>
  BY <1>1 DEF Has, TypeInv, OnTheWay, QueueInv, Routines
<1>2. ASSUME NEW i \in Routines, i[1] = Bucket[c], push[i].msg = m, Ahead(i, c)
      PROVE  IsRoomMsg(m) /\ i = <<Bucket[c], RoutineOf(m)>> /\ Faces(i, c)
  <2>1. push[i] # Idle
    BY <1>0, <1>2 DEF Idle, Msgs
  <2> QED
    BY <1>2, <2>1 DEF TypeInv, OnTheWay, WalkInv, Routines, Ahead, Faces
<1>3. ASSUME ComingTo(c, m) PROVE IsRoomMsg(m)
  BY <1>3 DEF ComingTo, Comes, TypeInv, OnTheWay
<1>4. ASSUME Done(c, m), Pending(c, m) PROVE FALSE
  <2>1. IsRoomMsg(m) => Older(c, m)
    BY <1>4, DoneWasPushed
  <2>2. CASE ComingTo(c, m)
    BY <1>0, <1>3, <2>1, <2>2 DEF ComingTo, Older
  <2>3. CASE QueuedFor(c, m)
    BY <1>0, <1>1, <2>1, <2>3 DEF QueuedFor, Has, Older
  <2>4. CASE WalkedTo(c, m)
    BY <1>0, <1>2, <2>1, <2>4 DEF WalkedTo, Older
  <2> QED
    BY <1>4, <2>2, <2>3, <2>4 DEF Pending
<1>5. ASSUME ComingTo(c, m), QueuedFor(c, m) PROVE FALSE
  BY <1>0, <1>5 DEF ComingTo, QueuedFor, Has, QueueInv
<1>6. ASSUME ComingTo(c, m), WalkedTo(c, m) PROVE FALSE
  BY <1>0, <1>2, <1>6 DEF ComingTo, WalkedTo, Faces, WalkInv
<1>7. ASSUME QueuedFor(c, m), WalkedTo(c, m) PROVE FALSE
  <2> PICK i \in Routines : i[1] = Bucket[c] /\ push[i].msg = m /\ Ahead(i, c)
    BY <1>7 DEF WalkedTo
  <2> PICK j \in Routines : j[1] = Bucket[c] /\ Has(routines[j], m)
    BY <1>7 DEF QueuedFor
  <2>1. i = j /\ push[i] # Idle
    BY <1>1, <1>2 DEF Faces
  <2> QED
    BY <1>0, <2>1 DEF Has, WalkInv
<1> QED
  BY <1>4, <1>5, <1>6, <1>7

(* In every reachable state a connection has a message at most once, among what it was sent, in
   its buffer and with what was dropped for it, and only one that was for it, whatever has
   become of the Rooms; and a message that it is owed (its Room is the one of the map, no two
   cleanups of that Room have overlapped, and it was in before the push) is in exactly one
   place as long as its writer runs: with it, in the room call, in the queue of a routine or
   before it in a walk. *)
THEOREM MessagesAccounted == Spec => []Accounted
<1>1. AccountInv => Accounted
  <2> SUFFICES ASSUME AccountInv, NEW c \in Conns, NEW m \in DOMAIN target
               PROVE  LET pending == (IF m \in Coming(c) THEN 1 ELSE 0) + Queued(c, m) + Walking(c, m)
                      IN  /\ Copies(c, m) <= 1
                          /\ Copies(c, m) = 1 => target[m] \in {c, RoomOf[c]}
                          /\ Owed(c, m) /\ writer[c] = "up" => Copies(c, m) + pending = 1
    BY DEF Accounted
  <2> USE DEF AccountInv, OrderInv
  <2>1. m \in Msgs /\ wire[c] \in Seq(Msgs) /\ broadcast[c] \in Seq(Msgs)
    BY Pushed DEF TypeInv, TypeOK
  <2>2. Copies(c, m) = IF Done(c, m) THEN 1 ELSE 0
    <3>1. /\ Has(wire[c] \o broadcast[c], m) <=> Has(wire[c], m) \/ Has(broadcast[c], m)
          /\ Once(wire[c] \o broadcast[c])
      BY <2>1, ConcatHas DEF OnceInv
    <3>2. Count(wire[c] \o broadcast[c], m) = IF Has(wire[c] \o broadcast[c], m) THEN 1 ELSE 0
      <4>1. wire[c] \o broadcast[c] \in Seq(Msgs)
        BY <2>1
      <4> QED
        BY <3>1, <4>1, CountHas
    <3>3. m \in dropped[c] => ~Has(wire[c], m) /\ ~Has(broadcast[c], m)
      BY DEF OnceInv
    <3> QED
      BY <3>1, <3>2, <3>3 DEF Copies, Done
  <2>3. m \in Coming(c) <=> ComingTo(c, m)
    BY DEF Coming, ComingTo, Comes
  <2>4. Queued(c, m) = IF QueuedFor(c, m) THEN 1 ELSE 0
    <3> DEFINE Q == {i \in Mine(c) : Count(routines[i], m) > 0}
    <3>1. \A i \in Routines : Count(routines[i], m) > 0 <=> Has(routines[i], m)
      <4> TAKE i \in Routines
      <4>1. routines[i] \in Seq(Msgs)
        BY DEF TypeInv, TypeOK
      <4> QED
        BY <4>1, CountHas
    <3>2. \A i \in Q : i = <<Bucket[c], RoutineOf(m)>>
      BY <3>1 DEF Mine, Has, QueueInv, Routines
    <3>3. Cardinality(Q) = IF Q = {} THEN 0 ELSE 1
      BY <3>2, AtMostOne
    <3>4. Q # {} <=> QueuedFor(c, m)
      BY <3>1 DEF QueuedFor, Mine
    <3> QED
      BY <3>3, <3>4 DEF Queued
  <2>5. Walking(c, m) = IF WalkedTo(c, m) THEN 1 ELSE 0
    <3> DEFINE W == {i \in Mine(c) : push[i].msg = m /\ Ahead(i, c)}
    <3>2. \A i \in W : i = <<Bucket[c], RoutineOf(m)>>
      <4> TAKE i \in W
      <4>1. push[i] # Idle
        BY <2>1 DEF Idle, Msgs
      <4> QED
        BY <4>1 DEF Mine, WalkInv, Routines
    <3>3. Cardinality(W) = IF W = {} THEN 0 ELSE 1
      BY <3>2, AtMostOne
    <3>4. W # {} <=> WalkedTo(c, m)
      BY DEF WalkedTo, Mine
    <3> QED
      BY <3>3, <3>4 DEF Walking
  <2>6. Done(c, m) => target[m] \in {c, RoomOf[c]}
    BY <2>1 DEF AddressInv
  <2>7. Owed(c, m) /\ writer[c] = "up" => Done(c, m) \/ Pending(c, m)
    BY DEF ThereInv
  <2>8. /\ Done(c, m) => ~Pending(c, m)
        /\ ComingTo(c, m) => ~QueuedFor(c, m) /\ ~WalkedTo(c, m)
        /\ QueuedFor(c, m) => ~WalkedTo(c, m)
    <3> HIDE DEF AccountInv, OrderInv
    <3> QED
      BY OnePlace
  <2> QED
    BY <2>2, <2>3, <2>4, <2>5, <2>6, <2>7, <2>8 DEF Pending
<1> QED
  BY <1>1, AccountInit, AccountStep, PTL DEF Spec
=============================================================================
