--------------------------- MODULE PresenceProofs ---------------------------
(***************************************************************************)
(* Theorems about Presence, for any sessions, users, servers and rooms.    *)
(***************************************************************************)
EXTENDS Presence, FiniteSetTheorems, TLAPS

USE DEF Goto, redis, session

(***************************************************************************)
(* Types                                                                   *)
(***************************************************************************)

(* A session knows its user, its room and its server from the moment it opens. *)
Opened == \A s \in Sessions : pc[s] # "new" => user[s] \in Users /\ room[s] \in Rooms /\ server[s] \in Servers

TypeInv == TypeOK /\ Opened

LEMMA TypeStep == TypeInv /\ [Next]_vars => TypeInv'
<1> SUFFICES ASSUME TypeInv, [Next]_vars PROVE TypeInv'
  OBVIOUS
<1> USE DEF TypeInv, TypeOK, Opened, Connecting, Disconnecting
<1>1. ASSUME NEW s \in Sessions, NEW u \in Users, NEW r \in Rooms, NEW srv \in Servers, Open(s, u, r, srv)
      PROVE  TypeInv'
  BY <1>1 DEF Open
<1>2. ASSUME NEW s \in Sessions, SetRoute(s) PROVE TypeInv'
  BY <1>2 DEF SetRoute
<1>3. ASSUME NEW s \in Sessions, TestRoomUser(s) PROVE TypeInv'
  BY <1>3 DEF TestRoomUser
<1>4. ASSUME NEW s \in Sessions, AddRoomUser(s) PROVE TypeInv'
  BY <1>4 DEF AddRoomUser
<1>5. ASSUME NEW s \in Sessions, IncrCount(s) PROVE TypeInv'
  BY <1>5 DEF IncrCount
<1>6. ASSUME NEW s \in Sessions, TestCount(s) PROVE TypeInv'
  BY <1>6 DEF TestCount
<1>7. ASSUME NEW s \in Sessions, DecrCount(s) PROVE TypeInv'
  BY <1>7 DEF DecrCount
<1>8. ASSUME NEW s \in Sessions, RemoveRoomUser(s) PROVE TypeInv'
  BY <1>8 DEF RemoveRoomUser
<1>9. ASSUME NEW s \in Sessions, ReadRoster(s) PROVE TypeInv'
  BY <1>9 DEF ReadRoster
<1>10. ASSUME NEW s \in Sessions, PublishRoster(s) PROVE TypeInv'
  BY <1>10 DEF PublishRoster
<1>11. ASSUME NEW s \in Sessions, Close(s) PROVE TypeInv'
  BY <1>11 DEF Close, Live
<1>12. ASSUME NEW s \in Sessions, Retry(s) PROVE TypeInv'
  BY <1>12, RetriesAssumption DEF Retry
<1>13. ASSUME NEW u \in Users, Logout(u) PROVE TypeInv'
  BY <1>13 DEF Logout
<1>14. ASSUME NEW srv \in Servers, Crash(srv) PROVE TypeInv'
  BY <1>14 DEF Crash
<1>15. CASE UNCHANGED vars
  BY <1>15 DEF vars
<1> QED
  BY <1>1, <1>2, <1>3, <1>4, <1>5, <1>6, <1>7, <1>8, <1>9, <1>10, <1>11, <1>12, <1>13, <1>14, <1>15
     DEF Next, HandlerStep

LEMMA TypeInit == Init => TypeInv
BY RetriesAssumption DEF Init, TypeInv, TypeOK, Opened

(* Every variable keeps its type, with sessions, crashes and repeated calls as they come. *)
THEOREM TypeCorrect == Spec => []TypeOK
<1>1. TypeInv => TypeOK
  BY DEF TypeInv
<1> QED
  BY <1>1, TypeInit, TypeStep, PTL DEF Spec
-----------------------------------------------------------------------------
(***************************************************************************)
(* Listed and routed, with one session per user at a time                  *)
(***************************************************************************)

(* From HSET on until it ends, and on a living server, a session has its user in the hash. *)
ListedInv ==
    \A s \in Sessions : pc[s] = "334" \/ Live(s) => user[s] \in roomUsers[room[s]]

(* From SET on the route leads to the server of the session, or the user has logged out. *)
RoutedInv ==
    \A s \in Sessions : pc[s] \in {"331", "332", "334"} \/ Live(s) => route[user[s]] \in {server[s], Nil}

PresenceInv == TypeInv /\ OneSession /\ ListedInv /\ RoutedInv

(* While a session is not over, no other session of its user runs a handler. *)
LEMMA NoOther ==
    ASSUME TypeInv, OneSession, NEW s \in Sessions, NEW t \in Sessions,
           pc[t] # "new", ~Over(t), user[s] = user[t], s # t
    PROVE  Over(s)
<1>1. user[t] \in Users /\ user[t] # Nil
  BY NilAssumption DEF TypeInv, Opened
<1> QED
  BY <1>1 DEF OneSession

(* No step takes a live user out of the hash of its room. *)
LEMMA ListedStep ==
    ASSUME TypeInv, OneSession, ListedInv, [Next]_vars
    PROVE  ListedInv'
<1> SUFFICES ASSUME NEW s \in Sessions, (pc[s] = "334" \/ Live(s))'
             PROVE  user'[s] \in roomUsers'[room'[s]]
  BY DEF ListedInv, Live
<1> DEFINE Holds == pc[s] = "334" \/ Live(s)
<1>1. Holds => user[s] \in roomUsers[room[s]]
  BY DEF ListedInv
<1>2. (pc'[s] = "334" \/ (pc'[s] = "open" /\ server'[s] \notin dead'))
  BY DEF Live
<1> USE DEF TypeInv, TypeOK, Opened, Live
<1>3. ASSUME NEW t \in Sessions, NEW u \in Users, NEW r \in Rooms, NEW srv \in Servers, Open(t, u, r, srv)
      PROVE  user'[s] \in roomUsers'[room'[s]]
  BY <1>1, <1>2, <1>3 DEF Open
<1>4. ASSUME NEW t \in Sessions, TestRoomUser(t) PROVE user'[s] \in roomUsers'[room'[s]]
  BY <1>1, <1>2, <1>4 DEF TestRoomUser
<1>5. ASSUME NEW t \in Sessions, AddRoomUser(t) PROVE user'[s] \in roomUsers'[room'[s]]
  BY <1>1, <1>2, <1>5 DEF AddRoomUser
<1>6. ASSUME NEW t \in Sessions, RemoveRoomUser(t) PROVE user'[s] \in roomUsers'[room'[s]]
  <2>1. pc[t] = "354" /\ pc'[t] = "362" /\ \A d \in Sessions \ {t} : pc'[d] = pc[d]
    BY <1>6 DEF RemoveRoomUser
  <2>2. s # t /\ Holds
    BY <1>2, <1>6, <2>1 DEF RemoveRoomUser
  <2>3. user[s] # user[t]
    <3>1. ~Over(s) /\ ~Over(t) /\ pc[t] # "new"
      BY <2>1, <2>2 DEF Over
    <3> QED
      BY <2>2, <3>1, NoOther
  <2> QED
    BY <1>1, <1>6, <2>2, <2>3 DEF RemoveRoomUser
<1>7. ASSUME NEW t \in Sessions,
             SetRoute(t) \/ IncrCount(t) \/ TestCount(t) \/ DecrCount(t) \/ ReadRoster(t) \/ PublishRoster(t)
      PROVE  user'[s] \in roomUsers'[room'[s]]
  BY <1>1, <1>2, <1>7 DEF SetRoute, IncrCount, TestCount, DecrCount, ReadRoster, PublishRoster
<1>8. ASSUME NEW t \in Sessions, Close(t) \/ Retry(t) PROVE user'[s] \in roomUsers'[room'[s]]
  BY <1>1, <1>2, <1>8 DEF Close, Retry
<1>9. ASSUME (\E u \in Users : Logout(u)) \/ (\E srv \in Servers : Crash(srv)) \/ UNCHANGED vars
      PROVE  user'[s] \in roomUsers'[room'[s]]
  BY <1>1, <1>2, <1>9 DEF Logout, Crash, vars
<1> QED
  BY <1>3, <1>4, <1>5, <1>6, <1>7, <1>8, <1>9 DEF Next, HandlerStep

(* No step takes the route of a live user away or to another server. *)
LEMMA RoutedStep ==
    ASSUME TypeInv, OneSession, RoutedInv, [Next]_vars
    PROVE  RoutedInv'
<1> SUFFICES ASSUME NEW s \in Sessions, (pc[s] \in {"331", "332", "334"} \/ Live(s))'
             PROVE  route'[user'[s]] \in {server'[s], Nil}
  BY DEF RoutedInv, Live
<1> DEFINE Holds == pc[s] \in {"331", "332", "334"} \/ Live(s)
           Goal  == route'[user'[s]] \in {server'[s], Nil}
<1>1. Holds => route[user[s]] \in {server[s], Nil}
  BY DEF RoutedInv
<1>2. pc'[s] \in {"331", "332", "334"} \/ (pc'[s] = "open" /\ server'[s] \notin dead')
  BY DEF Live
<1> USE DEF TypeInv, TypeOK, Opened, Live
<1>3. ASSUME NEW t \in Sessions, NEW u \in Users, NEW r \in Rooms, NEW srv \in Servers, Open(t, u, r, srv)
      PROVE  Goal
  BY <1>1, <1>2, <1>3 DEF Open
<1>4. ASSUME NEW t \in Sessions, SetRoute(t) PROVE Goal
  <2>1. /\ pc[t] = "325" /\ pc'[t] = "331" /\ \A d \in Sessions \ {t} : pc'[d] = pc[d]
        /\ route' = [route EXCEPT ![user[t]] = server[t]] /\ UNCHANGED <<user, room, server, dead>>
    BY <1>4 DEF SetRoute
  <2>2. user[t] \in Users
    BY <2>1
  <2>3. CASE s = t
    BY <2>1, <2>2, <2>3
  <2>4. CASE s # t
    <3>1. Holds
      BY <1>2, <2>1, <2>4
    <3>2. user[s] # user[t]
      <4>1. ~Over(s) /\ ~Over(t) /\ pc[t] # "new"
        BY <2>1, <3>1 DEF Over
      <4> QED
        BY <2>4, <4>1, NoOther
    <3> QED
      BY <1>1, <2>1, <3>1, <3>2
  <2> QED
    BY <2>3, <2>4
<1>5. ASSUME NEW t \in Sessions, HandlerStep(t), ~SetRoute(t) PROVE Goal
  <2>1. UNCHANGED <<route, user, room, server, dead>>
    BY <1>5 DEF HandlerStep, TestRoomUser, AddRoomUser, IncrCount, TestCount, DecrCount, RemoveRoomUser,
       ReadRoster, PublishRoster
  <2>2. Holds
    BY <1>2, <1>5, <2>1 DEF HandlerStep, TestRoomUser, AddRoomUser, IncrCount, TestCount, DecrCount,
       RemoveRoomUser, ReadRoster, PublishRoster
  <2> QED
    BY <1>1, <2>1, <2>2
<1>6. ASSUME NEW t \in Sessions, Close(t) \/ Retry(t) PROVE Goal
  BY <1>1, <1>2, <1>6 DEF Close, Retry
<1>7. ASSUME NEW u \in Users, Logout(u) PROVE Goal
  BY <1>1, <1>2, <1>7 DEF Logout
<1>8. ASSUME (\E srv \in Servers : Crash(srv)) \/ UNCHANGED vars PROVE Goal
  BY <1>1, <1>2, <1>8 DEF Crash, vars
<1> QED
  BY <1>3, <1>4, <1>5, <1>6, <1>7, <1>8 DEF Next, HandlerStep

LEMMA PresenceStep == PresenceInv /\ [Next /\ OneSession']_vars => PresenceInv'
<1> SUFFICES ASSUME PresenceInv, [Next /\ OneSession']_vars PROVE PresenceInv'
  OBVIOUS
<1>1. OneSession'
  BY DEF PresenceInv, OneSession, Over, vars
<1> QED
  BY <1>1, TypeStep, ListedStep, RoutedStep DEF PresenceInv

LEMMA PresenceInit == Init => PresenceInv
BY TypeInit DEF Init, PresenceInv, OneSession, ListedInv, RoutedInv, Live

(* In every reachable state the hash and the route are right for every session that is
   live, and for a handler that has written them and has not ended. *)
THEOREM PresenceCorrect == OneSessionSpec => []PresenceInv
BY PresenceInit, PresenceStep, PTL DEF OneSessionSpec

(* A user with an open connection to a living server is in the hash of its room, whatever
   handlers of others run, calls are repeated and servers die. *)
THEOREM LiveIsListed == OneSessionSpec => []LiveListed
<1>1. PresenceInv => LiveListed
  BY DEF PresenceInv, ListedInv, LiveListed
<1> QED
  BY <1>1, PresenceCorrect, PTL

(* The route of a user with an open connection who has not logged out leads to the server that
   has it. *)
THEOREM LiveIsRouted == OneSessionSpec => []LiveRouted
<1>1. PresenceInv => LiveRouted
  BY DEF PresenceInv, RoutedInv, LiveRouted
<1> QED
  BY <1>1, PresenceCorrect, PTL

-----------------------------------------------------------------------------
(***************************************************************************)
(* The online count, with one session per user and no repeated call        *)
(***************************************************************************)

(* The user is in the hash, or about to be, and not in the count, or no more. *)
Pending(u, r) == \E s \in Sessions : user[s] = u /\ room[s] = r /\ pc[s] \in {"334", "354"}
Counted(r)    == {u \in roomUsers[r] : ~Pending(u, r)}

(* What a handler that runs for the first time relies on. *)
HandlerInv ==
    \A s \in Sessions :
       /\ pc[s] \in {"334", "347", "349", "354"} => user[s] \in roomUsers[room[s]]
       /\ pc[s] = "332" => user[s] \notin roomUsers[room[s]]
       /\ pc[s] \in {"347", "349"} => room[s] \notin ZeroRooms

CountInv ==
    retries = 0 =>
       /\ HandlerInv
       /\ \A r \in Rooms \ ZeroRooms : IsFiniteSet(Counted(r)) /\ onlineCount[r] = Cardinality(Counted(r))

LEMMA HandlerStepKeeps ==
    ASSUME PresenceInv, HandlerInv, [Next]_vars, retries' = retries, retries = 0
    PROVE  HandlerInv'
<1> USE DEF PresenceInv, TypeInv, TypeOK, Opened
<1> SUFFICES ASSUME NEW s \in Sessions PROVE
       /\ pc'[s] \in {"334", "347", "349", "354"} => user'[s] \in roomUsers'[room'[s]]
       /\ pc'[s] = "332" => user'[s] \notin roomUsers'[room'[s]]
       /\ pc'[s] \in {"347", "349"} => room'[s] \notin ZeroRooms
  BY DEF HandlerInv
<1> DEFINE Goal ==
       /\ pc'[s] \in {"334", "347", "349", "354"} => user'[s] \in roomUsers'[room'[s]]
       /\ pc'[s] = "332" => user'[s] \notin roomUsers'[room'[s]]
       /\ pc'[s] \in {"347", "349"} => room'[s] \notin ZeroRooms
<1>1. /\ pc[s] \in {"334", "347", "349", "354"} => user[s] \in roomUsers[room[s]]
      /\ pc[s] = "332" => user[s] \notin roomUsers[room[s]]
      /\ pc[s] \in {"347", "349"} => room[s] \notin ZeroRooms
  BY DEF HandlerInv
<1>2. \A t \in Sessions \ {s} :
         pc[t] \in {"332", "354"} /\ pc[s] \in {"332", "334", "347", "349", "354"} => user[s] # user[t]
  BY NoOther DEF Over
<1>3. ASSUME NEW t \in Sessions, NEW u \in Users, NEW r \in Rooms, NEW srv \in Servers, Open(t, u, r, srv)
      PROVE  Goal
  BY <1>1, <1>3 DEF Open
<1>4. ASSUME NEW t \in Sessions, TestRoomUser(t) PROVE Goal
  BY <1>1, <1>4 DEF TestRoomUser
<1>5. ASSUME NEW t \in Sessions, AddRoomUser(t) PROVE Goal
  <2>1. CASE s = t
    BY <1>5, <2>1 DEF AddRoomUser
  <2>2. CASE s # t
    BY <1>1, <1>2, <1>5, <2>2 DEF AddRoomUser
  <2> QED
    BY <2>1, <2>2
<1>6. ASSUME NEW t \in Sessions, RemoveRoomUser(t) PROVE Goal
  <2>1. CASE s = t
    BY <1>6, <2>1 DEF RemoveRoomUser
  <2>2. CASE s # t
    BY <1>1, <1>2, <1>6, <2>2 DEF RemoveRoomUser
  <2> QED
    BY <2>1, <2>2
<1>7. ASSUME NEW t \in Sessions, SetRoute(t) \/ IncrCount(t) \/ TestCount(t) \/ DecrCount(t)
      PROVE  Goal
  BY <1>1, <1>7 DEF SetRoute, IncrCount, TestCount, DecrCount
<1>8. ASSUME NEW t \in Sessions, ReadRoster(t) \/ PublishRoster(t) PROVE Goal
  BY <1>1, <1>8 DEF ReadRoster, PublishRoster
<1>9. ASSUME NEW t \in Sessions, Close(t) PROVE Goal
  BY <1>1, <1>9 DEF Close, ListedInv
<1>10. ASSUME NEW t \in Sessions, Retry(t) PROVE Goal
  BY <1>10 DEF Retry
<1>11. ASSUME (\E u \in Users : Logout(u)) \/ (\E srv \in Servers : Crash(srv)) \/ UNCHANGED vars PROVE Goal
  BY <1>1, <1>11 DEF Logout, Crash, vars
<1> QED
  BY <1>3, <1>4, <1>5, <1>6, <1>7, <1>8, <1>9, <1>10, <1>11 DEF Next, HandlerStep

(* Each step keeps the count equal to the entries of the hash that a handler has not still to
   count or already taken out of the count. *)
LEMMA CountStep ==
    ASSUME PresenceInv, CountInv, [Next]_vars
    PROVE  CountInv'
<1> USE DEF PresenceInv, TypeInv, TypeOK, Opened
<1> SUFFICES ASSUME retries' = 0 PROVE CountInv'
  BY DEF CountInv
<1>1. retries = 0
  <2>1. retries' \in {retries, retries + 1}
    BY DEF Next, HandlerStep, Open, SetRoute, TestRoomUser, AddRoomUser, IncrCount, TestCount, DecrCount,
       RemoveRoomUser, ReadRoster, PublishRoster, Close, Retry, Logout, Crash, vars
  <2> QED
    BY <2>1
<1>2. HandlerInv /\ HandlerInv'
  BY <1>1, HandlerStepKeeps DEF CountInv
<1> SUFFICES ASSUME NEW r \in Rooms \ ZeroRooms
             PROVE  IsFiniteSet(Counted(r)') /\ onlineCount'[r] = Cardinality(Counted(r)')
  BY <1>2 DEF CountInv
<1> DEFINE C == Counted(r)
           D == Counted(r)'
           Goal == IsFiniteSet(D) /\ onlineCount'[r] = Cardinality(D)
<1>3. IsFiniteSet(C) /\ onlineCount[r] = Cardinality(C)
  BY <1>1 DEF CountInv
<1>4. Cardinality(C) \in Nat
  BY <1>3, FS_CardinalityType
<1>5. ASSUME D = C, onlineCount'[r] = onlineCount[r] PROVE Goal
  BY <1>3, <1>5
(* A step that changes neither the hash of the room nor who is pending there. *)
<1>6. ASSUME roomUsers'[r] = roomUsers[r], onlineCount'[r] = onlineCount[r],
             \A t \in Sessions : pc'[t] \in {"334", "354"} \/ pc[t] \in {"334", "354"} =>
                pc'[t] = pc[t] /\ user'[t] = user[t] /\ room'[t] = room[t]
      PROVE  Goal
  <2>1. \A u : Pending(u, r)' <=> Pending(u, r)
    BY <1>6 DEF Pending
  <2> QED
    BY <1>5, <1>6, <2>1 DEF Counted
<1>7. ASSUME NEW s \in Sessions, AddRoomUser(s) PROVE Goal
  <2>1. /\ pc[s] = "332" /\ pc'[s] = "334" /\ \A t \in Sessions \ {s} : pc'[t] = pc[t]
        /\ roomUsers' = [roomUsers EXCEPT ![room[s]] = @ \cup {user[s]}]
        /\ UNCHANGED <<onlineCount, user, room>>
    BY <1>7 DEF AddRoomUser
  <2>2. user[s] \notin roomUsers[room[s]]
    BY <1>2, <2>1 DEF HandlerInv
  <2>3. CASE room[s] # r
    <3>1. roomUsers'[r] = roomUsers[r] /\ \A u : Pending(u, r)' <=> Pending(u, r)
      BY <2>1, <2>3 DEF Pending
    <3> QED
      BY <1>5, <2>1, <3>1 DEF Counted
  <2>4. CASE room[s] = r
    <3>1. Pending(user[s], r)'
      BY <2>1, <2>4 DEF Pending
    <3>2. \A u : u # user[s] => (Pending(u, r)' <=> Pending(u, r))
      BY <2>1 DEF Pending
    <3>3. roomUsers'[r] = roomUsers[r] \cup {user[s]}
      BY <2>1, <2>4
    <3>4. D = C
      <4>1. user[s] \notin D /\ user[s] \notin C
        BY <2>1, <2>2, <2>4, <3>1 DEF Counted
      <4>2. \A u : u # user[s] => (u \in D <=> u \in C)
        BY <2>1, <3>2, <3>3 DEF Counted
      <4>3. D \subseteq roomUsers'[r] /\ C \subseteq roomUsers[r]
        BY DEF Counted
      <4>4. \A u : u \in D <=> u \in C
        BY <4>1, <4>2
      <4> QED
        BY <4>4 DEF Counted
    <3> QED
      BY <1>5, <2>1, <3>4
  <2> QED
    BY <2>3, <2>4
<1>8. ASSUME NEW s \in Sessions, IncrCount(s) PROVE Goal
  <2>1. /\ pc[s] = "334" /\ pc'[s] = "open" /\ \A t \in Sessions \ {s} : pc'[t] = pc[t]
        /\ onlineCount' = [onlineCount EXCEPT ![room[s]] = @ + 1]
        /\ UNCHANGED <<roomUsers, user, room>>
    BY <1>8 DEF IncrCount
  <2>2. CASE room[s] # r
    <3>1. onlineCount'[r] = onlineCount[r] /\ \A u : Pending(u, r)' <=> Pending(u, r)
      BY <2>1, <2>2 DEF Pending
    <3> QED
      BY <1>5, <2>1, <3>1 DEF Counted
  <2>3. CASE room[s] = r
    <3>1. Pending(user[s], r) /\ ~Pending(user[s], r)'
      <4>1. \A t \in Sessions \ {s} : pc[t] \in {"334", "354"} => user[t] # user[s]
        BY <2>1, NoOther DEF Over
      <4> QED
        BY <2>1, <2>3, <4>1 DEF Pending
    <3>2. \A u : u # user[s] => (Pending(u, r)' <=> Pending(u, r))
      BY <2>1 DEF Pending
    <3>3. user[s] \in roomUsers[r]
      BY <1>2, <2>1, <2>3 DEF HandlerInv
    <3>4. D = C \cup {user[s]} /\ user[s] \notin C
      BY <2>1, <3>1, <3>2, <3>3 DEF Counted
    <3>5. onlineCount'[r] = onlineCount[r] + 1
      BY <2>1, <2>3
    <3> HIDE DEF C, D
    <3> QED
      BY <1>3, <3>4, <3>5, FS_AddElement
  <2> QED
    BY <2>2, <2>3
<1>9. ASSUME NEW s \in Sessions, TestCount(s) PROVE Goal
  <2>1. /\ pc[s] = "347" /\ \A t \in Sessions \ {s} : pc'[t] = pc[t]
        /\ pc'[s] = IF onlineCount[room[s]] > 0 THEN "349" ELSE "354"
        /\ UNCHANGED <<roomUsers, onlineCount, user, room>>
    BY <1>9 DEF TestCount
  <2>2. CASE room[s] # r
    <3>1. \A u : Pending(u, r)' <=> Pending(u, r)
      BY <2>1, <2>2 DEF Pending
    <3> QED
      BY <1>5, <2>1, <3>1 DEF Counted
  <2>3. CASE room[s] = r
    <3>1. user[s] \in C
      <4>1. user[s] \in roomUsers[r]
        BY <1>2, <2>1, <2>3 DEF HandlerInv
      <4>2. \A t \in Sessions \ {s} : pc[t] \in {"334", "354"} => user[t] # user[s]
        BY <2>1, NoOther DEF Over
      <4> QED
        BY <2>1, <4>1, <4>2 DEF Counted, Pending
    <3>2. Cardinality(C) # 0
      <4> HIDE DEF C
      <4> QED
        BY <1>3, <3>1, FS_EmptySet
    <3>3. onlineCount[r] > 0
      BY <1>3, <1>4, <3>2
    <3>4. pc'[s] = "349"
      BY <2>1, <2>3, <3>3
    <3> QED
      BY <1>6, <2>1, <3>4
  <2> QED
    BY <2>2, <2>3
<1>10. ASSUME NEW s \in Sessions, DecrCount(s) PROVE Goal
  <2>1. /\ pc[s] = "349" /\ pc'[s] = "354" /\ \A t \in Sessions \ {s} : pc'[t] = pc[t]
        /\ onlineCount' = [onlineCount EXCEPT ![room[s]] = @ - 1]
        /\ UNCHANGED <<roomUsers, user, room>>
    BY <1>10 DEF DecrCount
  <2>2. CASE room[s] # r
    <3>1. onlineCount'[r] = onlineCount[r] /\ \A u : Pending(u, r)' <=> Pending(u, r)
      BY <2>1, <2>2 DEF Pending
    <3> QED
      BY <1>5, <2>1, <3>1 DEF Counted
  <2>3. CASE room[s] = r
    <3>1. ~Pending(user[s], r) /\ Pending(user[s], r)'
      <4>1. \A t \in Sessions \ {s} : pc[t] \in {"334", "354"} => user[t] # user[s]
        BY <2>1, NoOther DEF Over
      <4> QED
        BY <2>1, <2>3, <4>1 DEF Pending
    <3>2. \A u : u # user[s] => (Pending(u, r)' <=> Pending(u, r))
      BY <2>1 DEF Pending
    <3>3. user[s] \in roomUsers[r]
      BY <1>2, <2>1, <2>3 DEF HandlerInv
    <3>4. D = C \ {user[s]} /\ user[s] \in C
      BY <2>1, <3>1, <3>2, <3>3 DEF Counted
    <3>5. onlineCount'[r] = onlineCount[r] - 1
      BY <2>1, <2>3
    <3> HIDE DEF C, D
    <3> QED
      BY <1>3, <3>4, <3>5, FS_RemoveElement
  <2> QED
    BY <2>2, <2>3
<1>11. ASSUME NEW s \in Sessions, RemoveRoomUser(s) PROVE Goal
  <2>1. /\ pc[s] = "354" /\ pc'[s] = "362" /\ \A t \in Sessions \ {s} : pc'[t] = pc[t]
        /\ roomUsers' = [roomUsers EXCEPT ![room[s]] = @ \ {user[s]}]
        /\ UNCHANGED <<onlineCount, user, room>>
    BY <1>11 DEF RemoveRoomUser
  <2>2. CASE room[s] # r
    <3>1. roomUsers'[r] = roomUsers[r] /\ \A u : Pending(u, r)' <=> Pending(u, r)
      BY <2>1, <2>2 DEF Pending
    <3> QED
      BY <1>5, <2>1, <3>1 DEF Counted
  <2>3. CASE room[s] = r
    <3>1. Pending(user[s], r)
      BY <2>1, <2>3 DEF Pending
    <3>2. \A u : u # user[s] => (Pending(u, r)' <=> Pending(u, r))
      BY <2>1 DEF Pending
    <3>3. roomUsers'[r] = roomUsers[r] \ {user[s]}
      BY <2>1, <2>3
    <3>4. D = C
      BY <3>1, <3>2, <3>3 DEF Counted
    <3> QED
      BY <1>5, <2>1, <3>4
  <2> QED
    BY <2>2, <2>3
<1>12. ASSUME NEW s \in Sessions,
              \/ SetRoute(s) \/ TestRoomUser(s) \/ ReadRoster(s) \/ PublishRoster(s)
              \/ \E u \in Users, q \in Rooms, srv \in Servers : Open(s, u, q, srv)
       PROVE  Goal
  BY <1>6, <1>12 DEF SetRoute, TestRoomUser, ReadRoster, PublishRoster, Open
<1>13. ASSUME NEW s \in Sessions, Close(s) PROVE Goal
  <2>1. /\ pc[s] = "open" /\ \A t \in Sessions \ {s} : pc'[t] = pc[t]
        /\ pc'[s] = IF room[s] \notin ZeroRooms THEN "347" ELSE "354"
        /\ UNCHANGED <<roomUsers, onlineCount, user, room>>
    BY <1>13 DEF Close, Live
  <2>2. \A u : Pending(u, r)' <=> Pending(u, r)
    BY <2>1 DEF Pending
  <2> QED
    BY <1>5, <2>1, <2>2 DEF Counted
<1>14. ASSUME NEW s \in Sessions, Retry(s) PROVE Goal
  BY <1>1, <1>14 DEF Retry
<1>15. ASSUME (\E u \in Users : Logout(u)) \/ (\E srv \in Servers : Crash(srv)) \/ UNCHANGED vars PROVE Goal
  BY <1>6, <1>15 DEF Logout, Crash, vars
<1> QED
  BY <1>7, <1>8, <1>9, <1>10, <1>11, <1>12, <1>13, <1>14, <1>15 DEF Next, HandlerStep

(* With one session per user and no repeated call, the online count is the size of the hash
   whenever no handler runs: no two decrements see the same 1, through crashes of servers. *)
THEOREM CountIsExact == OneSessionSpec => []CountExact
<1>1. Init => CountInv
  <2> SUFFICES ASSUME Init PROVE HandlerInv /\ \A r \in Rooms \ ZeroRooms :
                                    IsFiniteSet(Counted(r)) /\ onlineCount[r] = Cardinality(Counted(r))
    BY DEF CountInv
  <2>1. \A r \in Rooms : Counted(r) = {}
    BY DEF Init, Counted
  <2> QED
    BY <2>1, FS_EmptySet DEF Init, HandlerInv
<1>2. PresenceInv /\ CountInv /\ [Next /\ OneSession']_vars => CountInv'
  BY CountStep
<1>3. CountInv => CountExact
  <2> SUFFICES ASSUME CountInv, retries = 0, Settled, NEW r \in Rooms \ ZeroRooms
               PROVE  onlineCount[r] = Cardinality(roomUsers[r])
    BY DEF CountExact
  <2>1. Counted(r) = roomUsers[r]
    BY DEF Counted, Pending, Settled
  <2> QED
    BY <2>1 DEF CountInv
<1> QED
  BY <1>1, <1>2, <1>3, PresenceCorrect, PTL DEF OneSessionSpec
=============================================================================
