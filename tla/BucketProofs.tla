---------------------------- MODULE BucketProofs ----------------------------
(***************************************************************************)
(* Theorems about Bucket, for any connections, users, rooms and Room       *)
(* objects.                                                                *)
(***************************************************************************)
EXTENDS Bucket, FiniteSetTheorems, TLAPS

USE DEF maps, links, lists, conn, local, hist, Goto

-----------------------------------------------------------------------------
(***************************************************************************)
(* Types                                                                   *)
(***************************************************************************)

(* A connection gets its user with its room: the cleanup looks the entry of a user up. *)
HasUser ==
    \A c \in Conns :
       /\ pc[c] \in UnderRLock \cup {"93", "reading"} => userId[c] \in Users
       /\ pc[c] = "93" => Room[c] # Nil
       /\ Room[c] # Nil => userId[c] \in Users
       /\ pc[c] = "new" => userId[c] = Nil

TypeInv == TypeOK /\ HasUser

LEMMA TypeInit == Init => TypeInv
<1> SUFFICES ASSUME Init PROVE TypeInv
  OBVIOUS
<1> USE DEF Init
<1>1. /\ chs \in [Users -> Conns \cup {Nil}] /\ rooms \in [RoomIds -> Objs \cup {Nil}]
      /\ Id \in [Objs -> RoomIds \cup {NoRoom}]
  OBVIOUS
<1>2. /\ head \in [Objs -> Conns \cup {Nil}] /\ OnlineCount \in [Objs -> Int] /\ drop \in [Objs -> BOOLEAN]
      /\ Next_ \in [Conns -> Conns \cup {Nil}] /\ Prev \in [Conns -> Conns \cup {Nil}]
  OBVIOUS
<1>3. /\ Room \in [Conns -> Objs \cup {Nil}] /\ userId \in [Conns -> Users \cup {Nil}]
      /\ ch \in [Conns -> Conns \cup {Nil}] /\ room \in [Conns -> Objs \cup {Nil}]
      /\ loc \in [Conns -> [n : Conns \cup {Nil}, p : Conns \cup {Nil}, k : Int]]
  BY DEF NoLocals
<1>4. \A c \in Conns : pc[c] = "new"
  OBVIOUS
<1>5. pc \in [Conns -> UnderRLock \cup {"new", "93", "reading", "closing", "closed"}]
  OBVIOUS
<1>6. HasUser
  BY <1>4 DEF HasUser, UnderRLock, RoomRLock
<1>7. \A c \in Conns : pc[c] \notin UnderRLock
  BY <1>4 DEF UnderRLock, RoomRLock
<1> QED
  BY <1>1, <1>2, <1>3, <1>5, <1>6, <1>7 DEF TypeInv, TypeOK, UnderRLock

(* Bucket.Put, of a room the map has or of a fresh one. *)
LEMMA PutKeeps ==
    ASSUME TypeInv, NEW c \in Conns, NEW u \in Users, NEW r \in RoomIds \cup {NoRoom}, Put(c, u, r)
    PROVE  TypeInv'
<1> USE DEF TypeInv
<1>1. chs' \in [Users -> Conns \cup {Nil}]
  BY DEF TypeOK, Put, Registered
<1>2. /\ rooms' \in [RoomIds -> Objs \cup {Nil}]
      /\ Id' \in [Objs -> RoomIds \cup {NoRoom}]
      /\ Room' \in [Conns -> Objs \cup {Nil}]
  BY DEF TypeOK, Put
<1>3. pc' \in [Conns -> UnderRLock \cup {"new", "93", "reading", "closing", "closed"}]
  BY DEF TypeOK, Put
<1>4. userId' \in [Conns -> Users \cup {Nil}] /\ twice' \in BOOLEAN
  BY DEF TypeOK, Put
<1>5. pc'[c] \in {"93", "reading"} /\ \A d \in Conns : d # c => pc'[d] = pc[d]
  BY DEF TypeOK, Put
<1>6. UNCHANGED <<lists, local, loc, panicked, overlap, refused>>
  BY DEF Put
<1>7. TypeOK'
  BY <1>1, <1>2, <1>3, <1>4, <1>5, <1>6 DEF TypeOK, RoomRLock
<1>8. HasUser'
  BY <1>5, NilAssumption DEF HasUser, TypeOK, Put, UnderRLock, RoomRLock
<1> QED
  BY <1>7, <1>8

LEMMA PutInRoomKeeps ==
    ASSUME TypeInv, NEW c \in Conns, PutInRoom(c)
    PROVE  TypeInv'
<1> USE DEF TypeInv
<1>1. Room[c] \in Objs
  BY DEF TypeOK, HasUser, PutInRoom
<1>2. head' \in [Objs -> Conns \cup {Nil}] /\ refused' \subseteq Conns
  BY <1>1 DEF TypeOK, PutInRoom, LinkFirst
<1>3. OnlineCount' \in [Objs -> Int]
  BY <1>1 DEF TypeOK, PutInRoom, LinkFirst
<1>4. Next_' \in [Conns -> Conns \cup {Nil}]
  BY <1>1 DEF TypeOK, PutInRoom, LinkFirst
<1>5. Prev' \in [Conns -> Conns \cup {Nil}]
  BY <1>1 DEF TypeOK, PutInRoom, LinkFirst
<1>6. pc' \in [Conns -> UnderRLock \cup {"new", "93", "reading", "closing", "closed"}]
  BY DEF TypeOK, PutInRoom
<1>7. pc[c] = "93" /\ pc'[c] \in {"closing", "reading"} /\ \A d \in Conns : d # c => pc'[d] = pc[d]
  BY DEF TypeOK, PutInRoom
<1>8. UNCHANGED <<maps, drop, conn, local, loc, panicked, twice, overlap>>
  BY DEF PutInRoom
<1>9. TypeOK'
  BY <1>2, <1>3, <1>4, <1>5, <1>6, <1>7, <1>8 DEF TypeOK, RoomRLock
<1>10. HasUser'
  BY <1>7, <1>8 DEF HasUser, UnderRLock, RoomRLock
<1> QED
  BY <1>9, <1>10

LEMMA CleanupKeeps ==
    ASSUME TypeInv, NEW c \in Conns, CleanupStep(c)
    PROVE  TypeInv'
<1> USE DEF TypeInv
<1>1. UNCHANGED <<lists, conn, loc, panicked, hist>>
  BY DEF CleanupStep
<1>2. pc[c] \in {"closing", "105", "106", "108", "80", "113", "114"}
  BY DEF CleanupStep, Cleanup, LookupChannel, LookupRoom, DeleteUser, ReturnDrop, TestDrop, DeleteRoom
<1>3. /\ pc[c] \in UnderRLock => userId[c] \in Users
      /\ Room[c] # Nil => userId[c] \in Users
      /\ pc[c] \in {"106", "108"} => ch[c] # Nil
      /\ pc[c] \in {"80", "113", "114"} => room[c] # Nil
  BY DEF HasUser, TypeOK
<1>4. pc[c] \in UnderRLock => chs[userId[c]] \in Conns \cup {Nil}
  BY <1>3 DEF TypeOK
<1>5. chs' \in [Users -> Conns \cup {Nil}] /\ rooms' \in [RoomIds -> Objs \cup {Nil}] /\ Id' = Id
  <2>1. Id' = Id /\ (chs' = chs \/ chs' = [chs EXCEPT ![userId[c]] = Nil]) /\ (rooms' = rooms \/ rooms' = [rooms EXCEPT ![Id[room[c]]] = Nil])
    BY DEF CleanupStep, Cleanup, LookupChannel, LookupRoom, DeleteUser, ReturnDrop, TestDrop, DeleteRoom
  <2> QED
    BY <2>1 DEF TypeOK
<1>6. /\ \A d \in Conns : d # c => pc'[d] = pc[d] /\ ch'[d] = ch[d] /\ room'[d] = room[d]
      /\ pc' \in [Conns -> UnderRLock \cup {"new", "93", "reading", "closing", "closed"}]
      /\ ch' \in [Conns -> Conns \cup {Nil}] /\ room' \in [Conns -> Objs \cup {Nil}]
      /\ pc'[c] \in {"105", "106", "108", "110", "113", "114", "closed"}
      /\ pc'[c] \in {"106", "108", "110"} => ch'[c] # Nil
      /\ pc'[c] \in {"110", "113", "114"} => room'[c] # Nil
      /\ pc'[c] \in UnderRLock => userId[c] \in Users
  <2>1. CASE Cleanup(c)
    <3>1. pc[c] = "closing" /\ UNCHANGED local /\ pc' = [pc EXCEPT ![c] = IF Room[c] = Nil THEN "closed" ELSE "105"]
      BY <2>1 DEF Cleanup
    <3> QED
      BY <1>3, <3>1 DEF TypeOK, UnderRLock, RoomRLock
  <2>2. CASE LookupChannel(c)
    BY <1>3, <1>4, <2>2 DEF LookupChannel, TypeOK, UnderRLock
  <2>3. CASE LookupRoom(c)
    BY <1>3, <1>4, <2>3 DEF LookupRoom, TypeOK, UnderRLock
  <2>4. CASE DeleteUser(c)
    BY <1>3, <2>4 DEF DeleteUser, TypeOK, UnderRLock
  <2>5. CASE ReturnDrop(c) \/ TestDrop(c) \/ DeleteRoom(c)
    BY <1>3, <2>5 DEF ReturnDrop, TestDrop, DeleteRoom, TypeOK, UnderRLock
  <2> QED
    BY <2>1, <2>2, <2>3, <2>4, <2>5 DEF CleanupStep
<1>7. TypeOK'
  BY <1>1, <1>5, <1>6 DEF TypeOK, RoomRLock
<1>8. HasUser'
  BY <1>1, <1>6 DEF HasUser
<1> QED
  BY <1>7, <1>8

(* The loads of Room.DeleteChannel. *)
LEMMA LoadKeeps ==
    ASSUME TypeInv, NEW c \in Conns, LoadStep(c)
    PROVE  TypeInv'
<1> USE DEF TypeInv
<1>1. UNCHANGED <<maps, lists, conn, local, panicked, twice, refused>>
  BY DEF LoadStep
<1>2. /\ pc[c] \in RoomRLock \cup {"110"} /\ ch[c] \in Conns /\ room[c] \in Objs /\ userId[c] \in Users
  <2>1. pc[c] \in RoomRLock \cup {"110"}
    BY DEF LoadStep, DeleteRLock, ReloadNext, LoadPrevOfNext, LoadPrev, ReloadPrev, LoadNext, LoadCount, TestCount, RoomRLock
  <2> QED
    BY <2>1 DEF TypeOK, HasUser, UnderRLock
<1>3. Next_[ch[c]] \in Conns \cup {Nil} /\ Prev[ch[c]] \in Conns \cup {Nil} /\ OnlineCount[room[c]] \in Int
      /\ loc[c] \in [n : Conns \cup {Nil}, p : Conns \cup {Nil}, k : Int]
  BY <1>2 DEF TypeOK
<1>4. /\ \A d \in Conns : d # c => pc'[d] = pc[d] /\ loc'[d] = loc[d]
      /\ pc' \in [Conns -> UnderRLock \cup {"new", "93", "reading", "closing", "closed"}]
      /\ loc' \in [Conns -> [n : Conns \cup {Nil}, p : Conns \cup {Nil}, k : Int]]
      /\ pc'[c] \in RoomRLock \cup {"80"}
      /\ pc'[c] \in {"66", "66p", "66w"} => loc'[c].n # Nil
      /\ pc'[c] \in {"70", "70n", "70w"} => loc'[c].p # Nil
      /\ overlap' \subseteq Objs
  <2> USE DEF UnderRLock, RoomRLock
  <2>1. CASE DeleteRLock(c)
    BY <1>2, <1>3, <2>1 DEF DeleteRLock, TypeOK
  <2>2. CASE ReloadNext(c)
    BY <1>2, <1>3, <2>2 DEF ReloadNext, TypeOK
  <2>3. CASE LoadPrevOfNext(c)
    BY <1>2, <1>3, <2>3 DEF LoadPrevOfNext, TypeOK
  <2>4. CASE LoadPrev(c)
    BY <1>2, <1>3, <2>4 DEF LoadPrev, TypeOK
  <2>5. CASE ReloadPrev(c)
    BY <1>2, <1>3, <2>5 DEF ReloadPrev, TypeOK
  <2>6. CASE LoadNext(c)
    BY <1>2, <1>3, <2>6 DEF LoadNext, TypeOK
  <2>7. CASE LoadCount(c)
    BY <1>2, <1>3, <2>7 DEF LoadCount, TypeOK
  <2>8. CASE TestCount(c)
    <3>1. pc'[c] \in {"77", "80"} /\ pc' = [pc EXCEPT ![c] = pc'[c]] /\ loc' = [loc EXCEPT ![c] = NoLocals] /\ overlap' = overlap
      BY <2>8 DEF TestCount, TypeOK
    <3> QED
      BY <3>1 DEF TypeOK, NoLocals
  <2> QED
    BY <2>1, <2>2, <2>3, <2>4, <2>5, <2>6, <2>7, <2>8 DEF LoadStep
<1>5. TypeOK'
  BY <1>1, <1>2, <1>4 DEF TypeOK
<1>6. HasUser'
  BY <1>1, <1>2, <1>4 DEF HasUser, RoomRLock
<1> QED
  BY <1>5, <1>6

(* Its stores. *)
LEMMA StoreKeeps ==
    ASSUME TypeInv, NEW c \in Conns, StoreStep(c)
    PROVE  TypeInv'
<1> USE DEF TypeInv
<1>1. UNCHANGED <<maps, conn, local, loc, panicked, hist>>
  BY DEF StoreStep
<1>2. /\ pc[c] \in RoomRLock /\ ch[c] \in Conns /\ room[c] \in Objs /\ userId[c] \in Users
      /\ loc[c].n \in Conns \cup {Nil} /\ loc[c].p \in Conns \cup {Nil} /\ loc[c].k \in Int
  <2>1. pc[c] \in RoomRLock
    BY DEF StoreStep, StorePrevOfNext, StoreNext, StoreHead, StoreCount, ClearDrop, SetDrop, RoomRLock
  <2> QED
    BY <2>1 DEF TypeOK, HasUser, UnderRLock
<1>3. Next_' \in [Conns -> Conns \cup {Nil}] /\ Prev' \in [Conns -> Conns \cup {Nil}]
  BY <1>2 DEF StoreStep, StorePrevOfNext, StoreNext, StoreHead, StoreCount, ClearDrop, SetDrop, TypeOK
<1>4. head' \in [Objs -> Conns \cup {Nil}]
  BY <1>2 DEF StoreStep, StorePrevOfNext, StoreNext, StoreHead, StoreCount, ClearDrop, SetDrop, TypeOK
<1>5. OnlineCount' \in [Objs -> Int]
  BY <1>2 DEF StoreStep, StorePrevOfNext, StoreNext, StoreHead, StoreCount, ClearDrop, SetDrop, TypeOK
<1>6. drop' \in [Objs -> BOOLEAN]
  <2>1. CASE ClearDrop(c)
    BY <1>2, <2>1, Zenon DEF ClearDrop, TypeOK
  <2>2. CASE SetDrop(c)
    BY <1>2, <2>2, Zenon DEF SetDrop, TypeOK
  <2> QED
    BY <2>1, <2>2 DEF StoreStep, StorePrevOfNext, StoreNext, StoreHead, StoreCount, TypeOK
<1>7. pc' = [pc EXCEPT ![c] = pc'[c]] /\ pc'[c] \in {"68", "74", "75", "76", "80"}
  BY DEF StoreStep, StorePrevOfNext, StoreNext, StoreHead, StoreCount, ClearDrop, SetDrop, TypeOK
<1>8. TypeOK'
  BY <1>1, <1>2, <1>3, <1>4, <1>5, <1>6, <1>7 DEF TypeOK, RoomRLock, UnderRLock
<1>9. HasUser'
  BY <1>1, <1>2, <1>7 DEF HasUser, RoomRLock, UnderRLock, TypeOK
<1> QED
  BY <1>8, <1>9

LEMMA TypeStep == TypeInv /\ [Next]_vars => TypeInv'
<1> SUFFICES ASSUME TypeInv, [Next]_vars PROVE TypeInv'
  OBVIOUS
<1>1. CASE UNCHANGED vars
  BY <1>1 DEF TypeInv, TypeOK, HasUser, vars
<1>2. ASSUME NEW c \in Conns, Leave(c) PROVE TypeInv'
  BY <1>2 DEF Leave, TypeInv, TypeOK, HasUser, UnderRLock, RoomRLock
<1>3. ASSUME NEW c \in Conns, Panic(c) PROVE TypeInv'
  BY <1>3 DEF Panic, TypeInv, TypeOK, HasUser
<1> QED
  BY <1>1, <1>2, <1>3, PutKeeps, PutInRoomKeeps, CleanupKeeps, LoadKeeps, StoreKeeps DEF Next, Connect

(* Every variable keeps its type, whatever registrations and cleanups race, and a local of
   DeleteChannel is set where the code uses it. *)
THEOREM TypeCorrect == Spec => []TypeOK
<1>1. TypeInv => TypeOK
  BY DEF TypeInv
<1> QED
  BY <1>1, TypeInit, TypeStep, PTL DEF Spec
-----------------------------------------------------------------------------
(***************************************************************************)
(* The entries of the users, with one session per user at a time           *)
(***************************************************************************)

(* From Put to line 108 the entry of its user is the connection's, and no other connection
   of the user is about. *)
Owner(c) == userId[c] \in Users /\ pc[c] \in {"93", "reading", "closing", "105", "106", "108"}

IndexInv ==
    OneSession =>
       /\ \A c, d \in Conns : c # d /\ userId[c] = userId[d] /\ userId[c] \in Users
             => pc[c] = "closed" \/ pc[d] = "closed"
       /\ \A c \in Conns : Owner(c) => chs[userId[c]] = c
       /\ panicked # 106

LEMMA IndexInit == Init => IndexInv
BY NilAssumption DEF Init, IndexInv, Owner

LEMMA IndexPut ==
    ASSUME TypeInv, IndexInv, NEW c \in Conns, NEW u \in Users, NEW r \in RoomIds \cup {NoRoom}, Put(c, u, r)
    PROVE  IndexInv'
<1> SUFFICES ASSUME OneSession' PROVE IndexInv'
  BY DEF IndexInv
<1> USE DEF TypeInv
<1>1. OneSession /\ \A d \in Conns : userId[d] = u => pc[d] = "closed"
  BY DEF Put, OneSession, TypeOK
<1>2. /\ userId' = [userId EXCEPT ![c] = u] /\ chs' = [chs EXCEPT ![u] = c] /\ panicked' = panicked
      /\ \A d \in Conns : d # c => pc'[d] = pc[d]
  BY DEF Put, Registered, TypeOK
<1>3. \A d, e \in Conns : d # e /\ userId'[d] = userId'[e] /\ userId'[d] \in Users
         => pc'[d] = "closed" \/ pc'[e] = "closed"
  BY <1>1, <1>2 DEF IndexInv, TypeOK
<1>4. \A d \in Conns : Owner(d)' => chs'[userId'[d]] = d
  BY <1>1, <1>2 DEF IndexInv, TypeOK, Owner
<1> QED
  BY <1>1, <1>2, <1>3, <1>4 DEF IndexInv

(* A step of c that leaves the entries alone, or deletes that of its own user and with it
   ceases to own it. *)
LEMMA IndexKept ==
    ASSUME TypeInv, IndexInv, NEW c \in Conns, UNCHANGED <<userId, twice>>, panicked' # panicked => panicked' # 106,
           pc[c] # "closed", \A d \in Conns : d # c => pc'[d] = pc[d],
           Owner(c)' => Owner(c),
           chs' = chs \/ (chs' = [chs EXCEPT ![userId[c]] = Nil] /\ ~Owner(c)')
    PROVE  IndexInv'
<1> SUFFICES ASSUME OneSession' PROVE IndexInv'
  BY DEF IndexInv
<1> USE DEF TypeInv
<1>1. OneSession
  BY DEF OneSession
<1>2. \A d, e \in Conns : d # e /\ userId'[d] = userId'[e] /\ userId'[d] \in Users
         => pc'[d] = "closed" \/ pc'[e] = "closed"
  BY <1>1 DEF IndexInv
<1>3. ASSUME NEW d \in Conns, Owner(d)' PROVE chs'[userId'[d]] = d
  <2>1. Owner(d) /\ chs[userId[d]] = d
    BY <1>1, <1>3 DEF IndexInv, Owner
  <2>2. CASE d = c
    BY <1>3, <2>1, <2>2
  <2>3. CASE d # c
    <3>1. pc[d] # "closed"
      BY <2>1 DEF Owner
    <3>2. userId[d] # userId[c]
      BY <1>1, <2>1, <2>3, <3>1 DEF IndexInv, Owner
    <3> QED
      BY <2>1, <3>2 DEF TypeOK, Owner
  <2> QED
    BY <2>2, <2>3
<1> QED
  BY <1>1, <1>2, <1>3 DEF IndexInv

(* What the steps of one connection have in common. *)
LEMMA StepOfOne ==
    ASSUME TypeInv, NEW c \in Conns, CleanupStep(c) \/ LoadStep(c) \/ StoreStep(c) \/ Leave(c)
    PROVE  /\ UNCHANGED <<Id, conn, panicked, twice, refused>>
           /\ \A d \in Conns : d # c => pc'[d] = pc[d] /\ ch'[d] = ch[d] /\ room'[d] = room[d] /\ loc'[d] = loc[d]
           /\ pc[c] \notin {"93", "closed"} /\ pc'[c] \notin {"new", "93", "reading"}
<1> USE DEF TypeInv
<1>1. CASE CleanupStep(c)
  BY <1>1 DEF CleanupStep, Cleanup, LookupChannel, LookupRoom, DeleteUser, ReturnDrop, TestDrop, DeleteRoom, TypeOK
<1>2. CASE LoadStep(c)
  BY <1>2 DEF LoadStep, DeleteRLock, ReloadNext, LoadPrevOfNext, LoadPrev, ReloadPrev, LoadNext, LoadCount, TestCount, TypeOK
<1>3. CASE StoreStep(c)
  BY <1>3 DEF StoreStep, StorePrevOfNext, StoreNext, StoreHead, StoreCount, ClearDrop, SetDrop, TypeOK
<1>4. CASE Leave(c)
  BY <1>4 DEF Leave, TypeOK
<1> QED
  BY <1>1, <1>2, <1>3, <1>4

(* Room.DeleteChannel of a connection goes on from its call to its return. *)
LEMMA RoomStepOfOne ==
    ASSUME TypeInv, NEW c \in Conns, LoadStep(c) \/ StoreStep(c)
    PROVE  /\ UNCHANGED <<maps, local>>
           /\ pc[c] \in RoomRLock \cup {"110"} /\ pc'[c] \in RoomRLock \cup {"80"}
<1> USE DEF TypeInv
<1>1. CASE LoadStep(c)
  BY <1>1 DEF LoadStep, DeleteRLock, ReloadNext, LoadPrevOfNext, LoadPrev, ReloadPrev, LoadNext, LoadCount, TestCount, TypeOK, RoomRLock
<1>2. CASE StoreStep(c)
  BY <1>2 DEF StoreStep, StorePrevOfNext, StoreNext, StoreHead, StoreCount, ClearDrop, SetDrop, TypeOK, RoomRLock
<1> QED
  BY <1>1, <1>2

LEMMA IndexStep == TypeInv /\ IndexInv /\ [Next]_vars => IndexInv'
<1> SUFFICES ASSUME TypeInv, IndexInv, [Next]_vars PROVE IndexInv'
  OBVIOUS
<1> USE DEF TypeInv
<1>1. CASE UNCHANGED vars
  BY <1>1 DEF IndexInv, OneSession, Owner, vars
<1>2. ASSUME NEW c \in Conns, Connect(c) PROVE IndexInv'
  BY <1>2, IndexPut DEF Connect
<1>3. ASSUME NEW c \in Conns, PutInRoom(c) PROVE IndexInv'
  <2>1. (\A d \in Conns : d # c => pc'[d] = pc[d]) /\ (Owner(c)' => Owner(c))
    BY <1>3 DEF PutInRoom, TypeOK, Owner
  <2> QED
    BY <1>3, <2>1, IndexKept DEF PutInRoom
<1>4. ASSUME NEW c \in Conns, Leave(c) PROVE IndexInv'
  <2>1. Owner(c)' => Owner(c)
    BY <1>4, NilAssumption DEF Leave, TypeOK, HasUser, Owner
  <2> QED
    BY <1>4, <2>1, IndexKept, StepOfOne DEF Leave
<1>5. ASSUME NEW c \in Conns, CleanupStep(c) PROVE IndexInv'
  <2>1. chs' = chs \/ (chs' = [chs EXCEPT ![userId[c]] = Nil] /\ pc'[c] \in {"110", "closed"})
    BY <1>5 DEF CleanupStep, Cleanup, LookupChannel, LookupRoom, DeleteUser, ReturnDrop, TestDrop, DeleteRoom, TypeOK
  <2>2. Owner(c)' => Owner(c)
    BY <1>5 DEF CleanupStep, Cleanup, LookupChannel, LookupRoom, DeleteUser, ReturnDrop, TestDrop, DeleteRoom, TypeOK, Owner
  <2> QED
    BY <1>5, <2>1, <2>2, IndexKept, StepOfOne DEF Owner
<1>6. ASSUME NEW c \in Conns, LoadStep(c) \/ StoreStep(c) PROVE IndexInv'
  <2>1. chs' = chs /\ ~Owner(c)'
    BY <1>6, RoomStepOfOne DEF Owner, RoomRLock
  <2> QED
    BY <1>6, <2>1, IndexKept, StepOfOne
<1>7. ASSUME NEW c \in Conns, Panic(c) PROVE IndexInv'
  <2>1. UNCHANGED <<chs, userId, twice, pc>>
    BY <1>7 DEF Panic
  <2>2. panicked' = 106 /\ OneSession => FALSE
    <3> SUFFICES ASSUME panicked' = 106, OneSession PROVE FALSE
      OBVIOUS
    <3>1. pc[c] = "106" /\ chs[userId[c]] = Nil
      BY <1>7 DEF Panic
    <3>2. Owner(c)
      BY <3>1 DEF HasUser, Owner, UnderRLock
    <3> QED
      BY <3>1, <3>2, NilAssumption DEF IndexInv
  <2> QED
    BY <2>1, <2>2 DEF IndexInv, OneSession, Owner
<1> QED
  BY <1>1, <1>2, <1>3, <1>4, <1>5, <1>6, <1>7 DEF Next

(* With one session per user the entries of the users in every reachable state are those of
   the connections there are. *)
THEOREM IndexCorrect == Spec => [](TypeInv /\ IndexInv)
BY TypeInit, TypeStep, IndexInit, IndexStep, PTL DEF Spec

(* With one session per user a single message for a user goes to the connection it has,
   through any number of other registrations and cleanups. *)
THEOREM UserIsIndexed == Spec => []UserIndex
<1>1. TypeInv /\ IndexInv => UserIndex
  BY DEF TypeInv, HasUser, IndexInv, UserIndex, Owner, UnderRLock
<1> QED
  BY <1>1, IndexCorrect, PTL
-----------------------------------------------------------------------------
(***************************************************************************)
(* Induction, for predicates given as sets                                 *)
(***************************************************************************)

(* A set of numbers that is not empty has a least one: its initial segments are finite. *)
LEMMA LeastNumber ==
    ASSUME NEW T \in SUBSET Nat, T # {}
    PROVE  \E m \in T : \A k \in T : m <= k
<1> DEFINE Segments == {0 .. k : k \in T}
<1>1. Segments # {} /\ Segments \subseteq FiniteSubsetsOf(Nat)
  <2>1. \A k \in T : IsFiniteSet(0 .. k) /\ 0 .. k \in SUBSET Nat
    BY FS_Interval
  <2> QED
    BY <2>1 DEF FiniteSubsetsOf
<1>2. IsWellFoundedOn(StrictSubsetOrdering(Nat), FiniteSubsetsOf(Nat))
  BY FS_StrictSubsetOrderingWellFounded
<1>3. PICK X \in Segments : \A Y \in Segments : <<Y, X>> \notin StrictSubsetOrdering(Nat)
  <2> HIDE DEF Segments
  <2> QED
    BY <1>1, <1>2, WFMin
<1>4. PICK m \in T : X = 0 .. m
  OBVIOUS
<1>5. ASSUME NEW k \in T, k < m PROVE FALSE
  <2>1. 0 .. k \in Segments /\ 0 .. k \subseteq 0 .. m /\ m \notin 0 .. k /\ m \in 0 .. m
    BY <1>5
  <2>2. <<0 .. k, 0 .. m>> \in StrictSubsetOrdering(Nat)
    BY <2>1 DEF StrictSubsetOrdering
  <2> QED
    BY <1>3, <1>4, <2>1, <2>2
<1> QED
  BY <1>5

LEMMA Induction ==
    ASSUME NEW S, 0 \in S, \A n \in Nat : n \in S => n + 1 \in S
    PROVE  \A n \in Nat : n \in S
<1> SUFFICES ASSUME {n \in Nat : n \notin S} # {} PROVE FALSE
  OBVIOUS
<1>1. PICK m \in Nat : m \notin S /\ \A k \in Nat : k \notin S => m <= k
  BY LeastNumber
<1>2. m # 0
  BY <1>1
<1>3. m - 1 \in Nat /\ m - 1 \in S /\ m = (m - 1) + 1
  BY <1>1, <1>2
<1> QED
  BY <1>1, <1>3

(* Ranks of finitely many connections leave room for a higher one. *)
LEMMA HigherRank ==
    ASSUME NEW r \in [Conns -> Nat]
    PROVE  \E m \in Nat : \A c \in Conns : r[c] < m
<1> DEFINE Open == {U \in SUBSET Conns : ~ \E m \in Nat : \A c \in U : r[c] < m}
<1> SUFFICES ASSUME Open # {} PROVE FALSE
  OBVIOUS
<1>1. Open \subseteq FiniteSubsetsOf(Conns)
  BY FiniteAssumption, FS_FiniteSubsetsOfFinite
<1>2. PICK U \in Open : \A V \in Open : <<V, U>> \notin StrictSubsetOrdering(Conns)
  <2>1. IsWellFoundedOn(StrictSubsetOrdering(Conns), FiniteSubsetsOf(Conns))
    BY FS_StrictSubsetOrderingWellFounded
  <2> HIDE DEF Open
  <2> QED
    BY <1>1, <2>1, WFMin
<1>3. U # {}
  OBVIOUS
<1>4. PICK x \in U : TRUE
  BY <1>3
<1>5. U \ {x} \notin Open
  BY <1>2 DEF StrictSubsetOrdering
<1>6. PICK m \in Nat : \A c \in U \ {x} : r[c] < m
  BY <1>5
<1>7. PICK k \in Nat : m <= k /\ r[x] < k
  <2>1. CASE m <= r[x]
    <3>1. r[x] + 1 \in Nat /\ m <= r[x] + 1 /\ r[x] < r[x] + 1
      BY <2>1
    <3> QED
      BY <3>1
  <2>2. CASE r[x] < m
    BY <2>2
  <2>3. r[x] \in Nat
    OBVIOUS
  <2> QED
    BY <2>1, <2>2, <2>3
<1>8. \A c \in U : r[c] < k
  BY <1>6, <1>7
<1> QED
  BY <1>8

-----------------------------------------------------------------------------
(***************************************************************************)
(* What a Push walks over                                                  *)
(***************************************************************************)

Last == Cardinality(Conns)

(* f is the first n pointers from Room.next of o on. *)
IsWalk(f, o, n) ==
    f = [i \in 0 .. n |-> IF i = 0 THEN head[o] ELSE IF f[i - 1] = Nil THEN Nil ELSE Next_[f[i - 1]]]

LEMMA LastIsNat == Last \in Nat
BY FiniteAssumption, FS_CardinalityType DEF Last

LEMMA WalkExists ==
    ASSUME NEW o
    PROVE  \A n \in Nat : \E f : IsWalk(f, o, n)
<1> DEFINE S == {n \in Nat : \E f : IsWalk(f, o, n)}
<1>1. 0 \in S
  <2> DEFINE g == [i \in 0 .. 0 |-> head[o]]
  <2>1. IsWalk(g, o, 0)
    BY DEF IsWalk
  <2> QED
    BY <2>1
<1>2. ASSUME NEW n \in Nat, n \in S PROVE n + 1 \in S
  <2> PICK f : IsWalk(f, o, n)
    BY <1>2
  <2> DEFINE g == [i \in 0 .. n + 1 |-> IF i = n + 1 THEN IF f[n] = Nil THEN Nil ELSE Next_[f[n]] ELSE f[i]]
  <2>1. \A i \in 0 .. n : f[i] = IF i = 0 THEN head[o] ELSE IF f[i - 1] = Nil THEN Nil ELSE Next_[f[i - 1]]
    BY DEF IsWalk
  <2>2. \A i \in 0 .. n : g[i] = f[i]
    OBVIOUS
  <2>3. \A i \in 0 .. n + 1 : g[i] = IF i = 0 THEN head[o] ELSE IF g[i - 1] = Nil THEN Nil ELSE Next_[g[i - 1]]
    <3> TAKE i \in 0 .. n + 1
    <3>1. CASE i = n + 1
      <4>1. i # 0 /\ i - 1 = n /\ g[n] = f[n]
        BY <2>2, <3>1
      <4>2. g[i] = IF f[n] = Nil THEN Nil ELSE Next_[f[n]]
        BY <3>1
      <4> HIDE DEF g
      <4> QED
        BY <4>1, <4>2
    <3>2. CASE i # n + 1
      <4>1. i \in 0 .. n /\ (i # 0 => i - 1 \in 0 .. n)
        BY <3>2
      <4> HIDE DEF g
      <4> QED
        BY <2>1, <2>2, <4>1
    <3> QED
      BY <3>1, <3>2
  <2>4. IsWalk(g, o, n + 1)
    <3>1. g = [i \in 0 .. n + 1 |-> g[i]]
      OBVIOUS
    <3> HIDE DEF g
    <3> QED
      BY <2>3, <3>1 DEF IsWalk
  <2> HIDE DEF g
  <2> QED
    BY <2>4
<1> HIDE DEF S
<1>3. \A n \in Nat : n \in S
  BY <1>1, <1>2, Induction
<1> QED
  BY <1>3 DEF S

LEMMA WalkUnfolds == ASSUME NEW o PROVE IsWalk(Walk(o), o, Last)
<1>1. PICK f : IsWalk(f, o, Last)
  BY WalkExists, LastIsNat
<1> QED
  BY <1>1 DEF IsWalk, Walk, Last

LEMMA WalkAt ==
    ASSUME NEW o, NEW i \in 0 .. Last
    PROVE  Walk(o)[i] = IF i = 0 THEN head[o] ELSE IF Walk(o)[i - 1] = Nil THEN Nil ELSE Next_[Walk(o)[i - 1]]
BY WalkUnfolds, ZenonT(60) DEF IsWalk

-----------------------------------------------------------------------------
(***************************************************************************)
(* The lists, whatever connections of one user overlap and whatever        *)
(* DeleteChannels race in one room: a cleanup may take another connection  *)
(* of its user out, or one that is out already.                            *)
(***************************************************************************)

Loaded == RoomRLock \ {"77"}

(* A link leads to a connection of the same room, Room.next and a register of DeleteChannel
   to one of its own. *)
LinkInv ==
    /\ \A c \in Conns : /\ Next_[c] # Nil => Room[Next_[c]] = Room[c]
                        /\ Prev[c] # Nil => Room[Prev[c]] = Room[c]
                        /\ loc[c].n # Nil => Room[loc[c].n] = room[c] /\ pc[c] \in Loaded
                        /\ loc[c].p # Nil => Room[loc[c].p] = room[c] /\ pc[c] \in Loaded
    /\ \A o \in Objs : head[o] # Nil => Room[head[o]] = o

(* No link leads to a connection before Room.Put, or that it has refused. *)
Pointed(c) == \/ \E d \in Conns : c \in {Next_[d], Prev[d], loc[d].n, loc[d].p}
              \/ \E o \in Objs : head[o] = c
Fresh(c)   == pc[c] \in {"new", "93"} \/ c \in refused
FreshInv   == \A c \in Conns : /\ Fresh(c) => Next_[c] = Nil /\ Prev[c] = Nil /\ ~Pointed(c)
                               /\ c \in refused => pc[c] \notin {"new", "93", "reading"}

(* The room that line 106 reads is the one of the connection found in line 105: under the
   read lock the entry can only have gone. *)
CleanupInv ==
    \A c \in Conns : /\ pc[c] = "106" => chs[userId[c]] \in {ch[c], Nil}
                     /\ pc[c] \in RoomRLock \cup {"108", "110"} => room[c] = Room[ch[c]]

(* Connections can be ranked so that Next leads down and Prev leads up, in memory and in the
   registers. *)
Older(r) == \A c \in Conns : /\ Next_[c] # Nil => r[Next_[c]] < r[c]
                             /\ Prev[c] # Nil => r[c] < r[Prev[c]]
                             /\ loc[c].n # Nil => r[loc[c].n] < r[ch[c]]
                             /\ loc[c].p # Nil => r[ch[c]] < r[loc[c].p]
AgeInv   == \E r \in [Conns -> Nat] : Older(r)

ChainInv == LinkInv /\ FreshInv /\ CleanupInv /\ AgeInv

(* A walk stays in its room and goes down in rank. *)
LEMMA WalkGoesDown ==
    ASSUME TypeInv, LinkInv, NEW r \in [Conns -> Nat], Older(r), NEW o \in Objs
    PROVE  \A n \in 0 .. Last :
              /\ Walk(o)[n] \in Conns \cup {Nil}
              /\ Walk(o)[n] # Nil => /\ Room[Walk(o)[n]] = o
                                     /\ \A i \in 0 .. n - 1 : Walk(o)[i] \in Conns /\ r[Walk(o)[n]] < r[Walk(o)[i]]
<1> DEFINE w == Walk(o)
           Down(n) == /\ w[n] \in Conns \cup {Nil}
                      /\ w[n] # Nil => /\ Room[w[n]] = o
                                       /\ \A i \in 0 .. n - 1 : w[i] \in Conns /\ r[w[n]] < r[w[i]]
           S == {n \in Nat : n <= Last => Down(n)}
<1>0. Last \in Nat
  BY LastIsNat
<1>1. \A i \in 0 .. Last : w[i] = IF i = 0 THEN head[o] ELSE IF w[i - 1] = Nil THEN Nil ELSE Next_[w[i - 1]]
  BY WalkAt
<1> HIDE DEF w
<1>2. 0 \in S
  <2>1. w[0] = head[o]
    BY <1>0, <1>1
  <2> QED
    BY <2>1 DEF TypeInv, TypeOK, LinkInv
<1>3. ASSUME NEW n \in Nat, n \in S PROVE n + 1 \in S
  <2> SUFFICES ASSUME n + 1 <= Last PROVE Down(n + 1)
    OBVIOUS
  <2>1. Down(n)
    BY <1>0, <1>3
  <2>2. w[n + 1] = IF w[n] = Nil THEN Nil ELSE Next_[w[n]]
    <3>1. n + 1 \in 0 .. Last /\ n + 1 # 0 /\ (n + 1) - 1 = n
      BY <1>0
    <3> QED
      BY <1>1, <3>1
  <2>3. CASE w[n + 1] = Nil
    BY <2>3
  <2>4. CASE w[n + 1] # Nil
    <3>1. w[n] \in Conns /\ w[n + 1] = Next_[w[n]] /\ Next_[w[n]] # Nil
      BY <2>1, <2>2, <2>4
    <3>2. w[n + 1] \in Conns /\ Room[w[n + 1]] = o /\ r[w[n + 1]] < r[w[n]]
      <4>1. Room[w[n]] = o
        BY <2>1, <3>1, NilAssumption
      <4>2. Room[Next_[w[n]]] = Room[w[n]]
        BY <3>1 DEF LinkInv
      <4>3. r[Next_[w[n]]] < r[w[n]] /\ Next_[w[n]] \in Conns
        BY <3>1 DEF TypeInv, TypeOK, Older
      <4> QED
        BY <3>1, <4>1, <4>2, <4>3
    <3>3. ASSUME NEW i \in 0 .. (n + 1) - 1 PROVE w[i] \in Conns /\ r[w[n + 1]] < r[w[i]]
      <4>1. CASE i = n
        BY <3>1, <3>2, <4>1
      <4>2. CASE i # n
        <5>1. i \in 0 .. n - 1
          BY <4>2
        <5>2. w[i] \in Conns /\ r[w[n]] < r[w[i]] /\ r[w[n + 1]] < r[w[n]]
          <6>1. w[n] # Nil
            BY <3>1, NilAssumption
          <6>2. w[i] \in Conns /\ r[w[n]] < r[w[i]]
            BY <2>1, <5>1, <6>1
          <6> QED
            BY <3>2, <6>2
        <5>3. r[w[n + 1]] \in Nat /\ r[w[n]] \in Nat /\ r[w[i]] \in Nat
          BY <3>1, <3>2, <5>2
        <5> QED
          BY <5>2, <5>3
      <4> QED
        BY <4>1, <4>2
    <3> QED
      BY <3>2, <3>3
  <2> QED
    BY <2>3, <2>4
<1>4. \A n \in Nat : n \in S
  <2> HIDE DEF S
  <2> QED
    BY <1>2, <1>3, Induction
<1>5. \A n \in 0 .. Last : Down(n)
  BY <1>0, <1>4
<1> QED
  BY <1>5 DEF w

(* There are not enough connections for a walk that does not end. *)
LEMMA WalkEnds ==
    ASSUME TypeInv, LinkInv, AgeInv, NEW o \in Objs
    PROVE  Walk(o)[Last] = Nil
<1> SUFFICES ASSUME Walk(o)[Last] # Nil PROVE FALSE
  OBVIOUS
<1> PICK r \in [Conns -> Nat] : Older(r)
  BY DEF AgeInv
<1> DEFINE w == Walk(o)
<1>0. Last \in Nat
  BY LastIsNat
<1>1. \A n \in 0 .. Last : w[n] # Nil => w[n] \in Conns /\ \A i \in 0 .. n - 1 : w[i] \in Conns /\ r[w[n]] < r[w[i]]
  BY WalkGoesDown
<1>2. w = [i \in 0 .. Last |-> w[i]]
  BY WalkUnfolds DEF IsWalk
<1> HIDE DEF w
<1>3. \A i \in 0 .. Last : w[i] \in Conns
  <2>1. w[Last] # Nil /\ Last \in 0 .. Last
    BY <1>0 DEF w
  <2> QED
    BY <1>0, <1>1, <2>1
<1>4. w \in [0 .. Last -> Conns]
  BY <1>2, <1>3
<1>5. IsFiniteSet(0 .. Last) /\ Cardinality(0 .. Last) = Last + 1
  BY <1>0, FS_Interval
<1>6. PICK i, j \in 0 .. Last : i # j /\ w[i] = w[j]
  <2>1. Cardinality(Conns) < Cardinality(0 .. Last)
    BY <1>0, <1>5 DEF Last
  <2> QED
    BY <1>4, <1>5, <2>1, FiniteAssumption, FS_PigeonHole
<1>7. \A a, b \in 0 .. Last : a < b => w[a] # w[b]
  <2> SUFFICES ASSUME NEW a \in 0 .. Last, NEW b \in 0 .. Last, a < b PROVE w[a] # w[b]
    OBVIOUS
  <2>1. w[b] # Nil /\ a \in 0 .. b - 1
    BY <1>3, NilAssumption
  <2>2. r[w[b]] < r[w[a]] /\ r[w[b]] \in Nat /\ r[w[a]] \in Nat
    BY <1>1, <1>3, <2>1
  <2> QED
    BY <2>2
<1> QED
  BY <1>0, <1>6, <1>7

(* A broadcast meets only connections of its room, and its walk ends. *)
LEMMA ChainHasNoStranger == TypeInv /\ LinkInv /\ AgeInv => NoStranger
<1> SUFFICES ASSUME TypeInv, LinkInv, AgeInv, NEW o \in Objs
             PROVE  Walk(o)[Last] = Nil /\ \A c \in Reached(o) : Room[c] = o
  BY DEF NoStranger, Last
<1>1. PICK r \in [Conns -> Nat] : Older(r)
  BY DEF AgeInv
<1>2. \A n \in 0 .. Last : Walk(o)[n] # Nil => Room[Walk(o)[n]] = o
  BY <1>1, WalkGoesDown
<1> QED
  BY <1>2, WalkEnds DEF Reached, Last

LEMMA ChainInit == Init => ChainInv
<1> SUFFICES ASSUME Init PROVE ChainInv
  OBVIOUS
<1>1. LinkInv /\ CleanupInv
  BY DEF Init, LinkInv, CleanupInv, NoLocals, RoomRLock
<1>2. FreshInv
  BY NilAssumption DEF Init, FreshInv, Fresh, Pointed, NoLocals
<1>3. AgeInv
  <2> DEFINE r == [c \in Conns |-> 0]
  <2>1. r \in [Conns -> Nat] /\ Older(r)
    BY DEF Init, Older, NoLocals
  <2> QED
    BY <2>1 DEF AgeInv
<1> QED
  BY <1>1, <1>2, <1>3 DEF ChainInv

(* Put enters the connection in the maps; it is in no list yet, and nobody is deleting. *)
LEMMA PutChain ==
    ASSUME TypeInv, ChainInv, NEW c \in Conns, NEW u \in Users, NEW r \in RoomIds \cup {NoRoom}, Put(c, u, r)
    PROVE  ChainInv'
<1> USE DEF TypeInv, ChainInv
<1>1. UNCHANGED <<lists, local, loc, refused>> /\ pc[c] = "new" /\ pc'[c] \in {"93", "reading"}
  BY DEF Put, TypeOK
<1>2. \A d \in Conns : d # c => pc'[d] = pc[d] /\ Room'[d] = Room[d] /\ userId'[d] = userId[d]
  BY DEF Put, TypeOK
<1>3. ~Pointed(c) /\ Next_[c] = Nil /\ Prev[c] = Nil /\ c \notin refused
  BY <1>1 DEF FreshInv, Fresh
<1>4. \A d \in Conns : pc[d] \notin UnderRLock
  BY DEF Put, RLocked
<1>5. \A d \in Conns : pc'[d] \notin UnderRLock
  BY <1>1, <1>2, <1>4 DEF UnderRLock, RoomRLock
<1>6. \A d \in Conns : loc[d].n = Nil /\ loc[d].p = Nil
  BY <1>4 DEF LinkInv, UnderRLock, Loaded
<1>7. LinkInv'
  <2>1. \A d \in Conns : /\ Next_[d] # Nil => Next_[d] \in Conns \ {c} /\ d # c
                         /\ Prev[d] # Nil => Prev[d] \in Conns \ {c} /\ d # c
    BY <1>3 DEF TypeOK, Pointed
  <2>2. \A o \in Objs : head[o] # Nil => head[o] \in Conns \ {c}
    BY <1>3 DEF TypeOK, Pointed
  <2> QED
    BY <1>1, <1>2, <1>6, <2>1, <2>2 DEF LinkInv
<1>8. FreshInv'
  BY <1>1, <1>2, <1>3 DEF FreshInv, Fresh, Pointed
<1>9. CleanupInv'
  BY <1>5 DEF CleanupInv, UnderRLock
<1>10. AgeInv'
  BY <1>1 DEF AgeInv, Older
<1> QED
  BY <1>7, <1>8, <1>9, <1>10

(* Room.Put: the new head is ranked above all others, while nobody deletes in its room. *)
LEMMA PutInRoomChain ==
    ASSUME TypeInv, ChainInv, NEW c \in Conns, PutInRoom(c)
    PROVE  ChainInv'
<1> USE DEF TypeInv, ChainInv
<1> DEFINE o == Room[c]
           h == head[o]
<1>1. o \in Objs /\ pc[c] = "93" /\ h \in Conns \cup {Nil}
  BY DEF PutInRoom, HasUser, TypeOK
<1>2. /\ pc' = [pc EXCEPT ![c] = pc'[c]] /\ pc'[c] \in {"closing", "reading"}
      /\ UNCHANGED <<maps, drop, conn, local, loc>>
  BY DEF PutInRoom, TypeOK
<1>3. CleanupInv'
  BY <1>2 DEF CleanupInv, TypeOK, RoomRLock
<1>4. ~Pointed(c) /\ Next_[c] = Nil /\ Prev[c] = Nil /\ c \notin refused
  BY <1>1 DEF FreshInv, Fresh
<1>5. CASE drop[o]
  <2>1. UNCHANGED links /\ refused' = refused \cup {c} /\ pc'[c] = "closing"
    BY <1>5 DEF PutInRoom, TypeOK
  <2>2. \A d \in Conns : pc[d] \in Loaded => pc'[d] \in Loaded
    BY <1>1, <1>2 DEF TypeOK, RoomRLock, Loaded
  <2>3. LinkInv' /\ AgeInv'
    BY <1>2, <2>1, <2>2 DEF LinkInv, AgeInv, Older
  <2>4. FreshInv'
    BY <1>2, <1>4, <2>1 DEF FreshInv, Fresh, Pointed, TypeOK
  <2> QED
    BY <1>3, <2>3, <2>4
<1>6. CASE ~drop[o]
  <2>1. /\ Prev' = [x \in Conns |-> IF x = c THEN Nil ELSE IF x = h THEN c ELSE Prev[x]]
        /\ Next_' = [Next_ EXCEPT ![c] = h]
        /\ head' = [head EXCEPT ![o] = c]
        /\ refused' = refused /\ pc'[c] = "reading"
    BY <1>6 DEF PutInRoom, LinkFirst, TypeOK
  <2>2. h # c
    BY <1>1, <1>4 DEF Pointed
  <2>3. h # Nil => Room[h] = o
    BY <1>1 DEF LinkInv
  <2>4. \A x \in Conns : /\ Next_'[x] = IF x = c THEN h ELSE Next_[x]
                         /\ Prev'[x] = IF x = c THEN Nil ELSE IF x = h THEN c ELSE Prev[x]
    BY <2>1 DEF TypeOK
  <2>5. \A q \in Objs : head'[q] = IF q = o THEN c ELSE head[q]
    BY <1>1, <2>1 DEF TypeOK
  <2>6. \A d \in Conns : pc'[d] = IF d = c THEN "reading" ELSE pc[d]
    BY <1>2, <2>1 DEF TypeOK
  <2>7. \A d \in Conns : loc[d].n # Nil \/ loc[d].p # Nil => ch[d] # c
    <3> SUFFICES ASSUME NEW d \in Conns, pc[d] \in RoomRLock, ch[d] = c PROVE FALSE
      BY DEF LinkInv, Loaded
    <3>1. d \in Deleting(Room[c])
      BY DEF CleanupInv, Deleting
    <3> QED
      BY <3>1 DEF PutInRoom
  <2> HIDE DEF o, h
  <2>8. LinkInv'
    <3>1. o = Room[c]
      BY DEF o
    <3>2. \A x \in Conns : /\ Next_'[x] # Nil => Room[Next_'[x]] = Room[x]
                           /\ Prev'[x] # Nil => Room[Prev'[x]] = Room[x]
      BY <2>2, <2>3, <2>4, <3>1, NilAssumption DEF LinkInv
    <3>3. \A q \in Objs : head'[q] # Nil => Room[head'[q]] = q
      BY <2>5, <3>1 DEF LinkInv
    <3>4. \A x \in Conns : pc[x] \in Loaded => pc'[x] \in Loaded
      BY <1>1, <2>6 DEF RoomRLock, Loaded
    <3> QED
      BY <1>2, <3>2, <3>3, <3>4 DEF LinkInv
  <2>9. FreshInv'
    <3> SUFFICES ASSUME NEW d \in Conns, Fresh(d)'
                 PROVE  Next_'[d] = Nil /\ Prev'[d] = Nil /\ ~Pointed(d)' /\ (d \in refused' => pc'[d] \notin {"new", "93", "reading"})
      BY <1>4, <2>1, <2>6 DEF FreshInv, Fresh
    <3>1. d # c /\ Fresh(d)
      BY <1>4, <2>1, <2>6 DEF Fresh
    <3>2. Next_[d] = Nil /\ Prev[d] = Nil /\ ~Pointed(d)
      BY <3>1 DEF FreshInv
    <3>3. d # h
      BY <1>1, <3>2 DEF Pointed, h
    <3>4. ~Pointed(d)'
      BY <1>2, <2>4, <2>5, <3>1, <3>2, <3>3, NilAssumption DEF Pointed
    <3>5. d \in refused' => pc'[d] \notin {"new", "93", "reading"}
      BY <2>1, <2>6, <3>1 DEF FreshInv
    <3> QED
      BY <2>4, <3>1, <3>2, <3>3, <3>4, <3>5
  <2>10. AgeInv'
    <3> PICK r \in [Conns -> Nat] : Older(r)
      BY DEF AgeInv
    <3> PICK m \in Nat : \A x \in Conns : r[x] < m
      BY HigherRank
    <3> DEFINE s == [r EXCEPT ![c] = m]
    <3>1. s \in [Conns -> Nat]
      OBVIOUS
    <3>2. \A x \in Conns : s[x] = IF x = c THEN m ELSE r[x]
      OBVIOUS
    <3> HIDE DEF s
    <3>3. ASSUME NEW x \in Conns PROVE Next_'[x] # Nil => s[Next_'[x]] < s[x]
      <4>1. CASE x = c
        BY <1>1, <2>2, <2>4, <3>2, <4>1 DEF h
      <4>2. CASE x # c
        <5>1. Next_[x] # c
          BY <1>4 DEF Pointed
        <5>2. Next_[x] # Nil => Next_[x] \in Conns /\ r[Next_[x]] < r[x]
          BY DEF TypeOK, Older
        <5> QED
          BY <2>4, <3>2, <4>2, <5>1, <5>2
      <4> QED
        BY <4>1, <4>2
    <3>4. ASSUME NEW x \in Conns PROVE Prev'[x] # Nil => s[x] < s[Prev'[x]]
      <4>1. CASE x = c
        BY <2>4, <4>1
      <4>2. CASE x # c /\ x = h
        BY <2>4, <3>2, <4>2
      <4>3. CASE x # c /\ x # h
        <5>1. Prev[x] # c
          BY <1>4 DEF Pointed
        <5>2. Prev[x] # Nil => Prev[x] \in Conns /\ r[x] < r[Prev[x]]
          BY DEF TypeOK, Older
        <5> QED
          BY <2>4, <3>2, <4>3, <5>1, <5>2
      <4> QED
        BY <4>1, <4>2, <4>3
    <3>5. ASSUME NEW x \in Conns
          PROVE  (loc'[x].n # Nil => s[loc'[x].n] < s[ch'[x]]) /\ (loc'[x].p # Nil => s[ch'[x]] < s[loc'[x].p])
      <4>1. loc[x].n # c /\ loc[x].p # c
        BY <1>4 DEF Pointed
      <4>2. loc[x].n \in Conns \cup {Nil} /\ loc[x].p \in Conns \cup {Nil}
        BY DEF TypeOK
      <4>3. loc[x].n # Nil \/ loc[x].p # Nil => ch[x] \in Conns /\ ch[x] # c
        <5>1. loc[x].n # Nil \/ loc[x].p # Nil => pc[x] \in RoomRLock
          BY DEF LinkInv, Loaded
        <5> QED
          BY <2>7, <5>1 DEF TypeOK
      <4> QED
        BY <1>2, <3>2, <4>1, <4>2, <4>3 DEF Older
    <3>6. Older(s)'
      BY <3>3, <3>4, <3>5 DEF Older
    <3> QED
      BY <3>1, <3>6 DEF AgeInv
  <2> QED
    BY <1>3, <2>8, <2>9, <2>10
<1> QED
  BY <1>5, <1>6

(* A load of Room.DeleteChannel: its registers hold links of the connection. *)
LEMMA LoadChain ==
    ASSUME TypeInv, ChainInv, NEW c \in Conns, LoadStep(c)
    PROVE  ChainInv'
<1> USE DEF TypeInv, ChainInv
<1> DEFINE t == ch[c]
<1>1. UNCHANGED <<maps, lists, conn, local, refused>>
  BY DEF LoadStep
<1>2. /\ pc[c] \in RoomRLock \cup {"110"} /\ pc'[c] \in RoomRLock \cup {"80"}
      /\ \A d \in Conns : d # c => pc'[d] = pc[d] /\ loc'[d] = loc[d]
  BY RoomStepOfOne, StepOfOne
<1>3. t \in Conns /\ room[c] = Room[t] /\ Next_[t] \in Conns \cup {Nil} /\ Prev[t] \in Conns \cup {Nil}
  BY <1>2 DEF TypeOK, CleanupInv
<1>4. loc'[c].n \in {loc[c].n, Next_[t], Nil} /\ loc'[c].p \in {loc[c].p, Prev[t], Nil}
      /\ (loc'[c].n # Nil \/ loc'[c].p # Nil => pc'[c] \in Loaded)
  <2>1. CASE TestCount(c)
    BY <2>1 DEF TestCount, NoLocals, TypeOK
  <2>2. CASE DeleteRLock(c)
    BY <1>2, <2>2 DEF DeleteRLock, TypeOK, RoomRLock, Loaded
  <2>3. CASE ReloadNext(c) \/ ReloadPrev(c)
    BY <1>2, <2>3 DEF ReloadNext, ReloadPrev, TypeOK, RoomRLock, Loaded
  <2>4. CASE LoadPrevOfNext(c) \/ LoadPrev(c)
    BY <1>2, <2>4 DEF LoadPrevOfNext, LoadPrev, TypeOK, RoomRLock, Loaded
  <2>5. CASE LoadNext(c) \/ LoadCount(c)
    BY <1>2, <2>5 DEF LoadNext, LoadCount, TypeOK, RoomRLock, Loaded
  <2> QED
    BY <2>1, <2>2, <2>3, <2>4, <2>5 DEF LoadStep
<1> HIDE DEF t
<1>5. LinkInv'
  BY <1>1, <1>2, <1>3, <1>4 DEF LinkInv
<1>6. FreshInv'
  <2>1. \A d \in Conns : Fresh(d)' => Fresh(d)
    BY <1>1, <1>2 DEF Fresh, RoomRLock
  <2>2. \A d \in Conns : Pointed(d)' => Pointed(d)
    BY <1>1, <1>2, <1>3, <1>4, NilAssumption DEF Pointed
  <2>3. \A d \in Conns : d \in refused' => pc'[d] \notin {"new", "93", "reading"}
    BY <1>1, <1>2 DEF FreshInv, RoomRLock
  <2> QED
    BY <1>1, <2>1, <2>2, <2>3 DEF FreshInv
<1>7. CleanupInv'
  BY <1>1, <1>2 DEF CleanupInv, RoomRLock
<1>8. AgeInv'
  <2> PICK r \in [Conns -> Nat] : Older(r)
    BY DEF AgeInv
  <2>1. (Next_[t] # Nil => r[Next_[t]] < r[t]) /\ (Prev[t] # Nil => r[t] < r[Prev[t]]) /\ t = ch[c]
    BY <1>3 DEF Older, t
  <2>2. \A d \in Conns : d # c => loc'[d] = loc[d]
    BY <1>2
  <2>3. (loc'[c].n # Nil => r[loc'[c].n] < r[ch[c]]) /\ (loc'[c].p # Nil => r[ch[c]] < r[loc'[c].p])
    BY <1>4, <2>1 DEF Older
  <2>4. Older(r)'
    BY <1>1, <2>2, <2>3 DEF Older
  <2> QED
    BY <2>4 DEF AgeInv
<1> QED
  BY <1>5, <1>6, <1>7, <1>8

(* Its stores link what its registers hold, in one room and in the order of the ranks. *)
LEMMA StoreChain ==
    ASSUME TypeInv, ChainInv, NEW c \in Conns, StoreStep(c)
    PROVE  ChainInv'
<1> USE DEF TypeInv, ChainInv
<1> DEFINE o == room[c]
           t == ch[c]
           n == loc[c].n
           p == loc[c].p
<1>1. UNCHANGED <<maps, conn, local, loc, refused>>
  BY DEF StoreStep
<1>2. /\ pc[c] \in RoomRLock /\ pc'[c] \in RoomRLock \cup {"80"}
      /\ \A d \in Conns : d # c => pc'[d] = pc[d]
      /\ pc[c] # "77" => pc'[c] \in Loaded
  <2>1. pc[c] \in RoomRLock /\ (pc[c] # "77" => pc'[c] \in Loaded)
    BY DEF StoreStep, StorePrevOfNext, StoreNext, StoreHead, StoreCount, ClearDrop, SetDrop, RoomRLock, Loaded, TypeOK
  <2> QED
    BY <2>1, RoomStepOfOne, StepOfOne
<1>3. o \in Objs /\ t \in Conns /\ Room[t] = o /\ n \in Conns \cup {Nil} /\ p \in Conns \cup {Nil}
  BY <1>2 DEF TypeOK, CleanupInv
<1>4. /\ n # Nil => Room[n] = o
      /\ p # Nil => Room[p] = o
  BY DEF LinkInv
<1>5. \/ UNCHANGED links
      \/ n # Nil /\ Prev' = [Prev EXCEPT ![n] = p] /\ UNCHANGED <<head, Next_>>
      \/ p # Nil /\ Next_' = [Next_ EXCEPT ![p] = n] /\ UNCHANGED <<head, Prev>>
      \/ head' = [head EXCEPT ![o] = n] /\ UNCHANGED <<Next_, Prev>>
  BY DEF StoreStep, StorePrevOfNext, StoreNext, StoreHead, StoreCount, ClearDrop, SetDrop, TypeOK
<1>6. /\ \A x \in Conns : /\ Next_'[x] = Next_[x] \/ (x = p /\ p # Nil /\ Next_'[x] = n)
                          /\ Prev'[x] = Prev[x] \/ (x = n /\ n # Nil /\ Prev'[x] = p)
      /\ \A q \in Objs : head'[q] = head[q] \/ (q = o /\ head'[q] = n)
  BY <1>3, <1>5 DEF TypeOK
<1>7. n = loc[c].n /\ p = loc[c].p /\ t = ch[c] /\ o = room[c]
  OBVIOUS
<1> HIDE DEF o, t, n, p
<1>8. \A d \in Conns : loc[d].n # Nil \/ loc[d].p # Nil => pc'[d] \in Loaded
  BY <1>2 DEF LinkInv, Loaded
<1>9. LinkInv'
  <2>1. \A x \in Conns : /\ Next_'[x] # Nil => Room[Next_'[x]] = Room[x]
                         /\ Prev'[x] # Nil => Room[Prev'[x]] = Room[x]
    BY <1>3, <1>4, <1>6 DEF LinkInv
  <2>2. \A q \in Objs : head'[q] # Nil => Room[head'[q]] = q
    BY <1>3, <1>4, <1>6 DEF LinkInv
  <2> QED
    BY <1>1, <1>8, <2>1, <2>2 DEF LinkInv
<1>10. FreshInv'
  <2>1. \A d \in Conns : Fresh(d)' => Fresh(d)
    BY <1>1, <1>2 DEF Fresh, RoomRLock
  <2>2. \A d \in Conns : Pointed(d)' => Pointed(d)
    BY <1>1, <1>6, <1>7 DEF Pointed
  <2>3. \A d \in Conns : d \in refused' => pc'[d] \notin {"new", "93", "reading"}
    BY <1>1, <1>2 DEF FreshInv, RoomRLock
  <2>4. ASSUME NEW d \in Conns, Fresh(d) PROVE Next_'[d] = Nil /\ Prev'[d] = Nil
    <3>1. Next_[d] = Nil /\ Prev[d] = Nil /\ d # n /\ d # p
      BY <1>7, <2>4 DEF FreshInv, Pointed
    <3> QED
      BY <1>6, <3>1
  <2> QED
    BY <2>1, <2>2, <2>3, <2>4 DEF FreshInv
<1>11. CleanupInv'
  BY <1>1, <1>2 DEF CleanupInv, RoomRLock
<1>12. AgeInv'
  <2> PICK r \in [Conns -> Nat] : Older(r)
    BY DEF AgeInv
  <2>1. /\ n # Nil => r[n] < r[t] /\ r[n] \in Nat
        /\ p # Nil => r[t] < r[p] /\ r[p] \in Nat
        /\ r[t] \in Nat
    BY <1>3, <1>7 DEF Older
  <2>2. n # Nil /\ p # Nil => r[n] < r[p]
    BY <2>1
  <2>3. Older(r)'
    BY <1>1, <1>6, <2>2 DEF Older
  <2> QED
    BY <2>3 DEF AgeInv
<1> QED
  BY <1>9, <1>10, <1>11, <1>12

(* The other steps leave the lists and the registers alone. *)
LEMMA ChainKept ==
    ASSUME TypeInv, ChainInv, UNCHANGED <<links, Room, ch, loc, refused>>, CleanupInv',
           \A d \in Conns : pc[d] \in RoomRLock => pc'[d] = pc[d] /\ room'[d] = room[d],
           \A d \in Conns : pc'[d] \in {"new", "93", "reading"} => pc'[d] = pc[d]
    PROVE  ChainInv'
<1>1. AgeInv'
  BY DEF ChainInv, AgeInv, Older
<1>2. FreshInv'
  BY DEF ChainInv, FreshInv, Fresh, Pointed
<1>3. LinkInv'
  BY DEF ChainInv, LinkInv, Loaded
<1> QED
  BY <1>1, <1>2, <1>3 DEF ChainInv

(* A lookup stores the connection it found, which no register follows yet. *)
LEMMA LookupChain ==
    ASSUME TypeInv, ChainInv, NEW c \in Conns, LookupChannel(c), UNCHANGED <<lists, conn, loc, panicked, hist>>
    PROVE  ChainInv'
<1> USE DEF TypeInv, ChainInv
<1>1. /\ pc[c] = "105" /\ pc'[c] \in {"106", "closed"} /\ UNCHANGED <<maps, room>>
      /\ \A d \in Conns : d # c => pc'[d] = pc[d] /\ ch'[d] = ch[d]
      /\ ch'[c] = chs[userId[c]]
  BY DEF LookupChannel, TypeOK
<1>2. loc[c].n = Nil /\ loc[c].p = Nil
  BY <1>1 DEF LinkInv, Loaded, RoomRLock
<1>3. AgeInv'
  BY <1>1, <1>2 DEF AgeInv, Older
<1>4. FreshInv'
  BY <1>1 DEF FreshInv, Fresh, Pointed
<1>5. LinkInv'
  BY <1>1, <1>2 DEF LinkInv
<1>6. CleanupInv'
  BY <1>1 DEF CleanupInv, RoomRLock
<1> QED
  BY <1>3, <1>4, <1>5, <1>6

LEMMA ChainStep == TypeInv /\ ChainInv /\ [Next]_vars => ChainInv'
<1> SUFFICES ASSUME TypeInv, ChainInv, [Next]_vars PROVE ChainInv'
  OBVIOUS
<1> USE DEF TypeInv
<1>1. CASE UNCHANGED vars
  BY <1>1, ChainKept DEF vars, CleanupInv, ChainInv
<1>2. ASSUME NEW c \in Conns, Leave(c) PROVE ChainInv'
  <2>1. CleanupInv'
    BY <1>2 DEF Leave, TypeOK, CleanupInv, ChainInv, RoomRLock
  <2> QED
    BY <1>2, <2>1, ChainKept DEF Leave, TypeOK, RoomRLock
<1>3. ASSUME NEW c \in Conns, CleanupStep(c) PROVE ChainInv'
  <2>1. UNCHANGED <<lists, conn, loc, panicked, hist>>
    BY <1>3 DEF CleanupStep
  <2>2. CASE LookupChannel(c)
    BY <2>1, <2>2, LookupChain
  <2>3. ASSUME UNCHANGED ch, CleanupInv', pc[c] \notin RoomRLock PROVE ChainInv'
    <3>1. /\ pc'[c] \notin {"new", "93", "reading"}
          /\ \A d \in Conns : d # c => pc'[d] = pc[d] /\ room'[d] = room[d]
      BY <1>3, StepOfOne
    <3> QED
      BY <2>1, <2>3, <3>1, ChainKept
  <2>4. CASE Cleanup(c) \/ ReturnDrop(c) \/ TestDrop(c) \/ DeleteRoom(c)
    <3>1. UNCHANGED <<chs, Room, userId, ch, room>> /\ pc[c] \notin RoomRLock
          /\ pc'[c] \notin RoomRLock \cup {"106", "108", "110"}
      BY <2>1, <2>4 DEF Cleanup, ReturnDrop, TestDrop, DeleteRoom, TypeOK, RoomRLock
    <3>2. CleanupInv'
      BY <1>3, <3>1, StepOfOne DEF CleanupInv, ChainInv
    <3> QED
      BY <2>3, <3>1, <3>2
  <2>5. CASE LookupRoom(c)
    <3>1. /\ pc[c] = "106" /\ chs[userId[c]] = ch[c] /\ room'[c] = Room[ch[c]] /\ pc'[c] = "108"
          /\ UNCHANGED <<chs, ch, Room, userId>>
      BY <2>1, <2>5 DEF LookupRoom, TypeOK, CleanupInv, ChainInv
    <3>2. CleanupInv'
      BY <1>3, <3>1, StepOfOne DEF CleanupInv, ChainInv, RoomRLock
    <3> QED
      BY <2>3, <3>1, <3>2 DEF RoomRLock
  <2>6. CASE DeleteUser(c)
    <3>1. \A d \in Conns : userId[d] \in Users => chs'[userId[d]] \in {chs[userId[d]], Nil}
      BY <2>6 DEF DeleteUser, TypeOK
    <3>2. \A d \in Conns : pc[d] = "106" => userId[d] \in Users
      BY DEF HasUser, UnderRLock
    <3>3. pc[c] = "108" /\ pc'[c] \in {"110", "closed"}
      BY <2>6 DEF DeleteUser, TypeOK
    <3>4. UNCHANGED <<Room, userId, ch, room>> /\ \A d \in Conns : d # c => pc'[d] = pc[d]
      BY <1>3, <2>1, <2>6, StepOfOne DEF DeleteUser
    <3>5. CleanupInv'
      BY <3>1, <3>2, <3>3, <3>4 DEF CleanupInv, ChainInv, RoomRLock
    <3> QED
      BY <2>3, <3>3, <3>4, <3>5 DEF RoomRLock
  <2> QED
    BY <1>3, <2>2, <2>4, <2>5, <2>6 DEF CleanupStep
<1>4. ASSUME NEW c \in Conns, Panic(c) PROVE ChainInv'
  <2>1. CleanupInv'
    BY <1>4 DEF Panic, CleanupInv, ChainInv
  <2> QED
    BY <1>4, <2>1, ChainKept DEF Panic
<1> QED
  BY <1>1, <1>2, <1>3, <1>4, PutChain, PutInRoomChain, LoadChain, StoreChain DEF Next, Connect

(* Whatever connections of one user overlap and whatever cleanups race, a broadcast to a room
   meets only connections that asked for it, and its walk ends. *)
THEOREM BroadcastsStayInRoom == Spec => []NoStranger
<1>1. TypeInv /\ ChainInv => NoStranger
  BY ChainHasNoStranger DEF ChainInv
<1> QED
  BY <1>1, TypeInit, TypeStep, ChainInit, ChainStep, PTL DEF Spec

-----------------------------------------------------------------------------
(***************************************************************************)
(* The map of the rooms                                                    *)
(***************************************************************************)

(* The map has every room under its id, objects are allocated when they are first used, and a
   dropped room is in the map only while a cleanup is about to take it out. *)
Closing == {"80", "113", "114"}

MapInv ==
    /\ \A r \in RoomIds : rooms[r] # Nil => Id[rooms[r]] = r
    /\ \A o \in Objs : Id[o] = NoRoom => ~drop[o] /\ \A c \in Conns : Room[c] # o
    /\ \A r \in RoomIds : rooms[r] # Nil /\ drop[rooms[r]] =>
             \E c \in Conns : pc[c] \in Closing /\ room[c] = rooms[r]

LEMMA MapInit == Init => MapInv
BY NilAssumption DEF Init, MapInv, Closing

LEMMA MapPut ==
    ASSUME TypeInv, MapInv, NEW c \in Conns, NEW u \in Users, NEW r \in RoomIds \cup {NoRoom}, Put(c, u, r)
    PROVE  MapInv'
<1> USE DEF TypeInv
<1>1. \A d \in Conns : pc[d] \notin UnderRLock
  BY DEF Put, RLocked
<1>2. \A q \in RoomIds : rooms[q] # Nil => ~drop[rooms[q]]
  BY <1>1 DEF MapInv, UnderRLock, Closing
<1>3. drop' = drop
  BY DEF Put
<1>4. CASE r = NoRoom
  <2>1. UNCHANGED <<rooms, Id, Room>>
    BY <1>4 DEF Put
  <2> QED
    BY <1>2, <1>3, <2>1 DEF MapInv
<1>5. CASE r # NoRoom
  <2>1. PICK o \in Objs : /\ IF rooms[r] # Nil THEN o = rooms[r] ELSE Id[o] = NoRoom
                          /\ rooms' = [rooms EXCEPT ![r] = o]
                          /\ Id' = [Id EXCEPT ![o] = r]
                          /\ Room' = [Room EXCEPT ![c] = o]
    BY <1>5 DEF Put
  <2>2. r \in RoomIds /\ rooms[r] \in Objs \cup {Nil}
    BY <1>5 DEF TypeOK
  <2>3. /\ \A q \in RoomIds : rooms'[q] = IF q = r THEN o ELSE rooms[q]
        /\ \A q \in Objs : Id'[q] = IF q = o THEN r ELSE Id[q]
        /\ \A d \in Conns : Room'[d] = IF d = c THEN o ELSE Room[d]
    BY <2>1, <2>2 DEF TypeOK
  <2>4. ~drop[o]
    BY <1>2, <2>1, <2>2 DEF MapInv
  <2>5. \A q \in RoomIds : rooms'[q] # Nil => Id'[rooms'[q]] = q
    <3> SUFFICES ASSUME NEW q \in RoomIds, q # r, rooms[q] # Nil PROVE Id'[rooms[q]] = q
      BY <2>3
    <3>1. Id[rooms[q]] = q /\ rooms[q] \in Objs
      BY DEF MapInv, TypeOK
    <3>2. rooms[q] # o
      BY <2>1, <2>2, <3>1, NoRoomAssumption DEF MapInv
    <3> QED
      BY <2>3, <3>1, <3>2
  <2>6. \A q \in Objs : Id'[q] = NoRoom => ~drop'[q] /\ \A d \in Conns : Room'[d] # q
    BY <1>3, <2>2, <2>3, NoRoomAssumption DEF MapInv
  <2>7. \A q \in RoomIds : rooms'[q] # Nil => ~drop'[rooms'[q]]
    BY <1>2, <1>3, <2>3, <2>4
  <2> QED
    BY <2>5, <2>6, <2>7 DEF MapInv
<1> QED
  BY <1>4, <1>5

(* DeleteChannel is called for a room that has been allocated. *)
LEMMA RoomIsAllocated ==
    ASSUME TypeInv, ChainInv, MapInv, NEW c \in Conns, pc[c] \in RoomRLock
    PROVE  room[c] \in Objs /\ Id[room[c]] # NoRoom
<1>1. room[c] \in Objs /\ ch[c] \in Conns /\ Room[ch[c]] = room[c]
  BY DEF TypeInv, TypeOK, ChainInv, CleanupInv
<1> QED
  BY <1>1 DEF MapInv

LEMMA MapStep == TypeInv /\ ChainInv /\ MapInv /\ [Next]_vars => MapInv'
<1> SUFFICES ASSUME TypeInv, ChainInv, MapInv, [Next]_vars PROVE MapInv'
  OBVIOUS
<1> USE DEF TypeInv
<1>1. CASE UNCHANGED vars
  BY <1>1 DEF vars, MapInv
<1>2. ASSUME NEW c \in Conns, Connect(c) PROVE MapInv'
  BY <1>2, MapPut DEF Connect
<1>3. ASSUME UNCHANGED <<rooms, Id, Room, drop>>,
             \A d \in Conns : pc[d] \in Closing /\ drop[room[d]] => pc'[d] \in Closing /\ room'[d] = room[d]
      PROVE  MapInv'
  <2>1. ASSUME NEW r \in RoomIds, rooms[r] # Nil, drop[rooms[r]]
        PROVE  \E d \in Conns : pc'[d] \in Closing /\ room'[d] = rooms[r]
    <3>1. PICK d \in Conns : pc[d] \in Closing /\ room[d] = rooms[r]
      BY <2>1 DEF MapInv
    <3> QED
      BY <1>3, <2>1, <3>1
  <2> QED
    BY <1>3, <2>1 DEF MapInv
<1>4. ASSUME NEW c \in Conns, PutInRoom(c) PROVE MapInv'
  BY <1>3, <1>4 DEF PutInRoom, TypeOK, Closing
<1>5. ASSUME NEW c \in Conns, Leave(c) \/ Panic(c) PROVE MapInv'
  BY <1>3, <1>5 DEF Leave, Panic, TypeOK, Closing
<1>6. ASSUME NEW c \in Conns, LoadStep(c) PROVE MapInv'
  <2>1. UNCHANGED <<rooms, Id, Room, drop, room>> /\ pc[c] \notin Closing /\ \A d \in Conns : d # c => pc'[d] = pc[d]
    BY <1>6, RoomStepOfOne, StepOfOne DEF LoadStep, Closing, RoomRLock
  <2> QED
    BY <1>3, <2>1
<1>7. ASSUME NEW c \in Conns, StoreStep(c) PROVE MapInv'
  <2>1. /\ UNCHANGED <<rooms, Id, Room, room>> /\ pc[c] \in RoomRLock /\ pc[c] \notin Closing
        /\ \A d \in Conns : d # c => pc'[d] = pc[d]
    <3>1. pc[c] # "110"
      BY <1>7 DEF StoreStep, StorePrevOfNext, StoreNext, StoreHead, StoreCount, ClearDrop, SetDrop
    <3> QED
      BY <1>7, <3>1, RoomStepOfOne, StepOfOne DEF StoreStep, Closing, RoomRLock
  <2>2. CASE drop' = drop
    BY <1>3, <2>1, <2>2
  <2>3. CASE drop' # drop
    <3>1. room[c] \in Objs /\ Id[room[c]] # NoRoom
      BY <2>1, RoomIsAllocated
    <3>2. /\ \A o \in Objs : o # room[c] => drop'[o] = drop[o]
          /\ drop'[room[c]] => pc'[c] \in Closing
      <4>1. CASE ClearDrop(c)
        BY <3>1, <4>1 DEF ClearDrop, TypeOK
      <4>2. CASE SetDrop(c)
        BY <3>1, <4>2 DEF SetDrop, TypeOK, Closing
      <4> QED
        BY <1>7, <2>3, <4>1, <4>2 DEF StoreStep, StorePrevOfNext, StoreNext, StoreHead, StoreCount
    <3>3. ASSUME NEW r \in RoomIds, rooms[r] # Nil, drop'[rooms[r]]
          PROVE  \E d \in Conns : pc'[d] \in Closing /\ room[d] = rooms[r]
      <4>1. CASE rooms[r] = room[c]
        BY <3>2, <3>3, <4>1
      <4>2. CASE rooms[r] # room[c]
        <5>1. drop[rooms[r]]
          BY <3>2, <3>3, <4>2 DEF TypeOK
        <5>2. PICK d \in Conns : pc[d] \in Closing /\ room[d] = rooms[r]
          BY <3>3, <5>1 DEF MapInv
        <5> QED
          BY <2>1, <5>2
      <4> QED
        BY <4>1, <4>2
    <3> QED
      BY <2>1, <3>1, <3>2, <3>3 DEF MapInv
  <2> QED
    BY <2>2, <2>3
<1>8. ASSUME NEW c \in Conns, CleanupStep(c) PROVE MapInv'
  <2>1. UNCHANGED <<Id, Room, drop>> /\ \A d \in Conns : d # c => pc'[d] = pc[d] /\ room'[d] = room[d]
    BY <1>8, StepOfOne DEF CleanupStep
  <2>2. CASE Cleanup(c) \/ LookupChannel(c) \/ LookupRoom(c) \/ DeleteUser(c)
    BY <1>3, <2>1, <2>2 DEF Cleanup, LookupChannel, LookupRoom, DeleteUser, Closing
  <2>3. CASE ReturnDrop(c) \/ TestDrop(c)
    <3>1. UNCHANGED <<rooms, room>> /\ (drop[room[c]] => pc'[c] \in Closing)
      BY <2>3 DEF ReturnDrop, TestDrop, TypeOK, Closing
    <3> QED
      BY <1>3, <2>1, <3>1
  <2>4. CASE DeleteRoom(c)
    <3>1. room[c] \in Objs /\ UNCHANGED room
      BY <2>4 DEF DeleteRoom, TypeOK
    <3>2. \A r \in RoomIds : rooms'[r] = IF r = Id[room[c]] THEN Nil ELSE rooms[r]
      BY <2>4 DEF DeleteRoom, TypeOK
    <3>3. ASSUME NEW r \in RoomIds, rooms'[r] # Nil, drop[rooms'[r]]
          PROVE  \E d \in Conns : pc'[d] \in Closing /\ room[d] = rooms'[r]
      <4>1. rooms'[r] = rooms[r] /\ r # Id[room[c]]
        BY <3>2, <3>3
      <4>2. PICK d \in Conns : pc[d] \in Closing /\ room[d] = rooms[r]
        BY <3>3, <4>1 DEF MapInv
      <4>3. d # c
        BY <3>3, <4>1, <4>2 DEF MapInv
      <4> QED
        BY <2>1, <4>1, <4>2, <4>3
    <3> QED
      BY <2>1, <3>1, <3>2, <3>3 DEF MapInv
  <2> QED
    BY <1>8, <2>2, <2>3, <2>4 DEF CleanupStep
<1> QED
  BY <1>1, <1>2, <1>4, <1>5, <1>6, <1>7, <1>8 DEF Next

-----------------------------------------------------------------------------
(***************************************************************************)
(* The lists, with one session per user, of a Room object whose            *)
(* DeleteChannels have not overlapped: a cleanup takes out the connection  *)
(* that ends, and the list is exactly those that are in, up to what the    *)
(* one DeleteChannel in progress has stored so far.                        *)
(***************************************************************************)

(* Half: line 66 is done, and the connection behind skips the one that leaves on its way
   back.  Inside: lines 70 and 72 are not, and the list leads to it. *)
Half      == {"68", "70", "70n", "70w", "72", "72w"}
Inside    == Half \cup {"reading", "closing", "105", "106", "108", "110", "66", "66p", "66w"}
Taken     == {"74", "74w", "75", "76", "77"}
Linked(o) == {c \in Conns : Room[c] = o /\ pc[c] \in Inside /\ c \notin refused}

(* B leads back through the list as Next leads through it; Prev is B but for the connection
   that skips. *)
Ordered(o, B) ==
    /\ \A c \in Linked(o) :
          /\ Next_[c] \in Linked(o) \cup {Nil} /\ B[c] \in Linked(o) \cup {Nil}
          /\ Next_[c] # Nil => B[Next_[c]] = c
          /\ B[c] # Nil => Next_[B[c]] = c
          /\ B[c] = Nil => head[o] = c
          /\ B[c] # Nil /\ pc[B[c]] \in Half => Prev[c] = B[B[c]]
          /\ ~(B[c] # Nil /\ pc[B[c]] \in Half) => Prev[c] = B[c]
    /\ head[o] # Nil => head[o] \in Linked(o) /\ B[head[o]] = Nil
ListOf(o) == \E B \in [Conns -> Conns \cup {Nil}] : Ordered(o, B)

(* A register of DeleteChannel still holds what memory holds. *)
RegOf(c) ==
    /\ pc[c] \in {"66", "66p", "66w"} => loc[c].n = Next_[c]
    /\ pc[c] = "66w" => loc[c].p = Prev[c]
    /\ pc[c] \in {"70", "70n", "70w"} => loc[c].p = Prev[c]
    /\ pc[c] \in {"72", "72w"} => Prev[c] = Nil
    /\ pc[c] \in {"70w", "72w"} => loc[c].n = Next_[c]
    /\ pc[c] = "74w" => loc[c].k = OnlineCount[Room[c]]
    /\ pc[c] \in {"75", "76"} => loc[c].k - 1 = OnlineCount[Room[c]]

(* The count follows the list, and the mark the count; a connection was only refused by a
   room that everybody has left. *)
Empty0(o)      == Linked(o) = {} /\ OnlineCount[o] <= 0
Counted(o, k)  == OnlineCount[o] = Cardinality(Linked(o)) + k
Busy(o, S)     == \E c \in Conns : Room[c] = o /\ pc[c] \in S
CountOf(o) ==
    /\ ~Busy(o, {"74", "74w", "76", "77"}) => (drop[o] => Empty0(o)) /\ (~drop[o] => Counted(o, 0))
    /\ Busy(o, {"74", "74w"}) => (drop[o] => Empty0(o)) /\ (~drop[o] => Counted(o, 1))
    /\ Busy(o, {"76"}) => ~drop[o] /\ (Empty0(o) \/ Counted(o, 0))
    /\ Busy(o, {"77"}) => Empty0(o)
    /\ \A c \in refused : Room[c] = o => Linked(o) = {} /\ (drop[o] \/ Busy(o, {"76", "77"}))

Alone(o) == \A c, d \in Conns : Room[c] = o /\ Room[d] = o /\ pc[c] \in RoomRLock /\ pc[d] \in RoomRLock => c = d

(* An open room in the map that is empty is one that its first connection is about to enter. *)
OpenOf(o) ==
    (\E r \in RoomIds : rooms[r] = o) /\ ~drop[o] /\ Linked(o) = {} /\ ~Busy(o, Taken) =>
       \E c \in Conns : pc[c] = "93" /\ Room[c] = o

RoomOf(o) == Alone(o) /\ ListOf(o) /\ (\A c \in Conns : Room[c] = o => RegOf(c)) /\ CountOf(o) /\ OpenOf(o)

(* A cleanup finds its own connection and room. *)
OwnOf(c) ==
    /\ pc[c] \in RoomRLock \cup {"106", "108", "110"} => ch[c] = c
    /\ pc[c] \in UnderRLock => Room[c] # Nil
    /\ pc[c] \in RoomRLock \cup {"108", "110", "80", "113", "114"} => room[c] = Room[c]

(* An entry of the map is of its user, and of a connection that is not past line 108. *)
EntryOf(c) == \A u \in Users : chs[u] = c => userId[c] = u /\ (Room[c] # Nil => Owner(c))

ListInv ==
    OneSession => /\ \A o \in Objs \ overlap : RoomOf(o)
                  /\ \A c \in Conns : OwnOf(c) /\ EntryOf(c)

AllInv == TypeInv /\ IndexInv /\ ChainInv /\ MapInv /\ ListInv

LEMMA ListInit == Init => ListInv
<1> SUFFICES ASSUME Init PROVE ListInv
  OBVIOUS
<1>1. \A o : Linked(o) = {}
  BY DEF Init, Linked, Inside, Half
<1>2. \A c \in Conns : pc[c] = "new" /\ Room[c] = Nil
  BY DEF Init
<1>3. \A o \in Objs : ListOf(o)
  <2> TAKE o \in Objs
  <2> DEFINE B == [c \in Conns |-> Nil]
  <2>1. B \in [Conns -> Conns \cup {Nil}]
    OBVIOUS
  <2>2. Ordered(o, B)
    BY <1>1 DEF Ordered, Init
  <2> QED
    BY <2>1, <2>2 DEF ListOf
<1>4. \A o \in Objs : CountOf(o)
  <2>1. \A o \in Objs : OnlineCount[o] = 0 /\ ~drop[o] /\ refused = {}
    BY DEF Init
  <2>2. \A o \in Objs : Counted(o, 0)
    BY <1>1, <2>1, FS_EmptySet DEF Counted
  <2> QED
    BY <1>2, <2>1, <2>2 DEF CountOf, Busy
<1>5. \A c \in Conns : OwnOf(c) /\ EntryOf(c) /\ RegOf(c)
  BY <1>2, NilAssumption DEF Init, OwnOf, EntryOf, RegOf, UnderRLock, RoomRLock
<1>6. \A o \in Objs : OpenOf(o) /\ Alone(o)
  BY <1>2, NilAssumption DEF Init, OpenOf, Alone, RoomRLock
<1> QED
  BY <1>3, <1>4, <1>5, <1>6 DEF ListInv, RoomOf

(* A step that does not touch the room: what it does to the connections of the room is to go
   on outside Room.Put and Room.DeleteChannel. *)
LEMMA RoomKept ==
    ASSUME TypeInv, NEW o \in Objs, RoomOf(o),
           \A x \in Conns : Room'[x] = o <=> Room[x] = o,
           \A x \in Conns : Room[x] = o =>
              /\ Next_'[x] = Next_[x] /\ Prev'[x] = Prev[x] /\ loc'[x] = loc[x] /\ (x \in refused' <=> x \in refused)
              /\ \/ pc'[x] = pc[x]
                 \/ /\ pc[x] \notin RoomRLock \cup {"93"} /\ pc'[x] \notin RoomRLock \cup {"93"}
                    /\ pc'[x] \in Inside <=> pc[x] \in Inside,
           head'[o] = head[o], OnlineCount'[o] = OnlineCount[o], drop'[o] = drop[o],
           refused' \subseteq Conns,
           \A r \in RoomIds : rooms'[r] = o => rooms[r] = o
    PROVE  RoomOf(o)'
<1>1. Linked(o)' = Linked(o)
  BY DEF Linked
<1>2. \A S \in SUBSET RoomRLock : Busy(o, S)' <=> Busy(o, S)
  BY DEF Busy
<1>3. /\ {"74", "74w", "76", "77"} \in SUBSET RoomRLock /\ {"74", "74w"} \in SUBSET RoomRLock
      /\ {"76"} \in SUBSET RoomRLock /\ {"77"} \in SUBSET RoomRLock /\ {"76", "77"} \in SUBSET RoomRLock
      /\ Taken \in SUBSET RoomRLock
  BY DEF RoomRLock, Taken
<1>4. CountOf(o)'
  <2>1. /\ Busy(o, {"74", "74w", "76", "77"})' <=> Busy(o, {"74", "74w", "76", "77"})
        /\ Busy(o, {"74", "74w"})' <=> Busy(o, {"74", "74w"})
        /\ Busy(o, {"76"})' <=> Busy(o, {"76"})
        /\ Busy(o, {"77"})' <=> Busy(o, {"77"})
        /\ Busy(o, {"76", "77"})' <=> Busy(o, {"76", "77"})
    BY <1>2, <1>3
  <2>2. (Empty0(o)' <=> Empty0(o)) /\ (Counted(o, 0)' <=> Counted(o, 0)) /\ (Counted(o, 1)' <=> Counted(o, 1))
    BY <1>1 DEF Empty0, Counted
  <2>3. \A c \in refused' : Room'[c] = o => c \in refused /\ Room[c] = o
    OBVIOUS
  <2> QED
    BY <1>1, <2>1, <2>2, <2>3 DEF RoomOf, CountOf
<1>5. Alone(o)'
  BY DEF RoomOf, Alone
<1>6. ASSUME NEW c \in Conns, Room'[c] = o PROVE RegOf(c)'
  <2>1. RegOf(c) /\ Room[c] = o
    BY <1>6 DEF RoomOf
  <2> QED
    BY <1>6, <2>1 DEF RegOf, RoomRLock
<1>7. OpenOf(o)'
  <2>1. Busy(o, Taken)' <=> Busy(o, Taken)
    BY <1>2, <1>3
  <2>2. ASSUME NEW c \in Conns, pc[c] = "93", Room[c] = o PROVE pc'[c] = "93" /\ Room'[c] = o
    BY <2>2
  <2> QED
    BY <1>1, <2>1, <2>2 DEF RoomOf, OpenOf
<1>8. ListOf(o)'
  <2> PICK B \in [Conns -> Conns \cup {Nil}] : Ordered(o, B)
    BY DEF RoomOf, ListOf
  <2>1. \A c \in Linked(o) : c \in Conns /\ Room[c] = o
    BY DEF Linked
  <2>2. \A c \in Linked(o) : pc'[c] \in Half <=> pc[c] \in Half
    BY <2>1 DEF Half, RoomRLock
  <2>3. \A c \in Linked(o) : Next_'[c] = Next_[c] /\ Prev'[c] = Prev[c]
    BY <2>1
  <2>4. Ordered(o, B)'
    BY <1>1, <2>2, <2>3 DEF Ordered
  <2> QED
    BY <2>4 DEF ListOf
<1> QED
  BY <1>4, <1>5, <1>6, <1>7, <1>8 DEF RoomOf

(* A step of one connection that adds to no map. *)
LEMMA OwnKept ==
    ASSUME ListInv, OneSession, NEW c \in Conns, UNCHANGED <<Room, userId>>,
           \A d \in Conns : d # c => pc'[d] = pc[d] /\ ch'[d] = ch[d] /\ room'[d] = room[d],
           \A u \in Users : chs'[u] # Nil => chs'[u] = chs[u],
           Nil \notin Conns,
           OwnOf(c)', EntryOf(c)'
    PROVE  \A d \in Conns : OwnOf(d)' /\ EntryOf(d)'
<1>1. ASSUME NEW d \in Conns, d # c PROVE OwnOf(d)' /\ EntryOf(d)'
  <2>1. OwnOf(d) /\ EntryOf(d)
    BY DEF ListInv
  <2>2. \A u \in Users : chs'[u] = d => chs[u] = d
    OBVIOUS
  <2> QED
    BY <1>1, <2>1, <2>2 DEF OwnOf, EntryOf, Owner
<1> QED
  BY <1>1

(* A DeleteChannel in progress is the connection's own, in its own room. *)
LEMMA DeletesItself ==
    ASSUME TypeInv, ChainInv, ListInv, OneSession, NEW c \in Conns, pc[c] \in RoomRLock \cup {"110"}
    PROVE  /\ ch[c] = c /\ room[c] = Room[c] /\ Room[c] \in Objs
           /\ Next_[c] \in Conns \cup {Nil} /\ Prev[c] \in Conns \cup {Nil}
           /\ Next_[c] # Nil => Room[Next_[c]] = Room[c] /\ Next_[c] # c
           /\ Prev[c] # Nil => Room[Prev[c]] = Room[c] /\ Prev[c] # c
<1>1. OwnOf(c)
  BY DEF ListInv
<1>2. ch[c] = c /\ room[c] = Room[c] /\ Room[c] \in Objs
  BY <1>1 DEF OwnOf, UnderRLock, TypeInv, TypeOK
<1>3. Next_[c] \in Conns \cup {Nil} /\ Prev[c] \in Conns \cup {Nil}
  BY DEF TypeInv, TypeOK
<1>4. PICK r \in [Conns -> Nat] : Older(r)
  BY DEF ChainInv, AgeInv
<1>5. (Next_[c] # Nil => r[Next_[c]] < r[c]) /\ (Prev[c] # Nil => r[c] < r[Prev[c]])
  BY <1>4 DEF Older
<1>6. (Next_[c] # Nil => Next_[c] # c) /\ (Prev[c] # Nil => Prev[c] # c)
  <2>1. r[c] \in Nat
    OBVIOUS
  <2> QED
    BY <1>5, <2>1
<1> QED
  BY <1>2, <1>3, <1>6 DEF ChainInv, LinkInv

(* Bucket.Put *)
LEMMA ListPut ==
    ASSUME AllInv, OneSession', NEW c \in Conns, NEW u \in Users, NEW r \in RoomIds \cup {NoRoom}, Put(c, u, r)
    PROVE  ListInv'
<1> USE DEF AllInv, TypeInv
<1>1. OneSession /\ \A d \in Conns : userId[d] = u => pc[d] = "closed"
  BY DEF Put, OneSession, TypeOK
<1>2. /\ pc[c] = "new" /\ Room[c] = Nil /\ UNCHANGED <<lists, local, loc, overlap, refused>>
      /\ pc' = [pc EXCEPT ![c] = pc'[c]] /\ Room' = [Room EXCEPT ![c] = Room'[c]]
      /\ userId' = [userId EXCEPT ![c] = u] /\ chs' = [chs EXCEPT ![u] = c]
      /\ \A d \in Conns : pc[d] \notin UnderRLock
      /\ pc'[c] = "93" \/ (pc'[c] = "reading" /\ Room' = Room /\ rooms' = rooms)
  <2>1. pc[c] = "new" /\ Room[c] = Nil
    BY NilAssumption DEF Put, HasUser
  <2>2. CASE r = NoRoom
    BY <2>1, <2>2 DEF Put, Registered, RLocked, TypeOK
  <2>3. CASE r # NoRoom
    BY <2>1, <2>3 DEF Put, Registered, RLocked, TypeOK
  <2> QED
    BY <2>2, <2>3
<1>3. \A d \in Conns : d # c => pc'[d] = pc[d] /\ Room'[d] = Room[d] /\ userId'[d] = userId[d]
  BY <1>2 DEF TypeOK
<1>4. \A d \in Conns : pc[d] \notin RoomRLock /\ pc'[d] \notin UnderRLock /\ pc'[d] \notin RoomRLock
  BY <1>2, <1>3 DEF UnderRLock, RoomRLock
<1>5. ASSUME NEW o \in Objs \ overlap PROVE RoomOf(o)'
  <2>0. RoomOf(o)
    BY <1>1 DEF ListInv
  <2>1. Linked(o)' = Linked(o)
    <3>1. c \notin Linked(o)
      BY <1>2 DEF Linked, Inside, Half
    <3>2. c \notin Linked(o)'
      BY <1>2, NilAssumption DEF Linked, Inside, Half
    <3> QED
      BY <1>2, <1>3, <3>1, <3>2 DEF Linked
  <2>2. \A S \in SUBSET RoomRLock : ~Busy(o, S) /\ ~Busy(o, S)'
    BY <1>4 DEF Busy
  <2>3. ~Busy(o, {"74", "74w", "76", "77"})' /\ ~Busy(o, {"74", "74w"})' /\ ~Busy(o, {"76"})' /\ ~Busy(o, {"77"})' /\ ~Busy(o, {"76", "77"})
        /\ ~Busy(o, {"74", "74w", "76", "77"}) /\ ~Busy(o, Taken)
    BY <2>2 DEF RoomRLock, Taken
  <2>4. \A d \in refused : d # c
    BY <1>2 DEF ChainInv, FreshInv
  <2>5. CountOf(o)'
    <3>1. (Empty0(o)' <=> Empty0(o)) /\ (Counted(o, 0)' <=> Counted(o, 0)) /\ drop' = drop
      BY <1>2, <2>1 DEF Empty0, Counted
    <3>2. \A d \in refused' : Room'[d] = o => d \in refused /\ Room[d] = o
      BY <1>2, <1>3, <2>4 DEF TypeOK
    <3> QED
      BY <2>0, <2>1, <2>3, <3>1, <3>2 DEF RoomOf, CountOf
  <2>6. ListOf(o)'
    <3> PICK B \in [Conns -> Conns \cup {Nil}] : Ordered(o, B)
      BY <2>0 DEF RoomOf, ListOf
    <3>1. \A d \in Linked(o) : d # c /\ d \in Conns /\ pc'[d] = pc[d]
      BY <1>2, <1>3 DEF Linked, Inside, Half
    <3>2. Ordered(o, B)'
      BY <1>2, <2>1, <3>1 DEF Ordered
    <3> QED
      BY <3>2 DEF ListOf
  <2>7. Alone(o)' /\ \A d \in Conns : RegOf(d)'
    BY <1>4 DEF Alone, RegOf, RoomRLock
  <2>8. OpenOf(o)'
    <3> SUFFICES ASSUME NEW q \in RoomIds, rooms'[q] = o, ~drop[o], Linked(o) = {}
                 PROVE  \E d \in Conns : pc'[d] = "93" /\ Room'[d] = o
      BY <1>2, <2>1 DEF OpenOf
    <3>1. CASE rooms[q] = o
      <4>1. PICK d \in Conns : pc[d] = "93" /\ Room[d] = o
        BY <2>0, <2>3, <3>1 DEF RoomOf, OpenOf
      <4>2. pc'[d] = "93" /\ Room'[d] = o
        BY <1>2, <1>3, <4>1
      <4> QED
        BY <4>2
    <3>2. CASE rooms[q] # o
      <4>1. pc'[c] = "93" /\ Room'[c] = o
        BY <3>2, <1>2 DEF Put, TypeOK
      <4> QED
        BY <4>1
    <3> QED
      BY <3>1, <3>2
  <2> QED
    BY <2>5, <2>6, <2>7, <2>8 DEF RoomOf
<1>6. ASSUME NEW d \in Conns PROVE OwnOf(d)'
  BY <1>2, <1>4, <1>3 DEF OwnOf, UnderRLock
<1>7. ASSUME NEW d \in Conns PROVE EntryOf(d)'
  <2>1. CASE d = c
    <3>1. \A v \in Users : chs[v] # c
      BY <1>1, <1>2, NilAssumption DEF ListInv, EntryOf, HasUser
    <3>2. \A v \in Users : chs'[v] = c => v = u
      BY <1>2, <3>1 DEF TypeOK
    <3>3. userId'[c] = u /\ (Room'[c] # Nil => Owner(c)')
      BY <1>2 DEF TypeOK, Owner
    <3> QED
      BY <2>1, <3>2, <3>3 DEF EntryOf
  <2>2. CASE d # c
    <3>1. EntryOf(d) /\ pc'[d] = pc[d] /\ Room'[d] = Room[d] /\ userId'[d] = userId[d]
      BY <1>1, <1>3, <2>2 DEF ListInv
    <3>2. \A v \in Users : chs'[v] = d => chs[v] = d
      BY <1>2, <2>2 DEF TypeOK
    <3> QED
      BY <3>1, <3>2 DEF EntryOf, Owner
  <2> QED
    BY <2>1, <2>2
<1>8. overlap' = overlap
  BY <1>2
<1> QED
  BY <1>5, <1>6, <1>7, <1>8 DEF ListInv

(* Room.Put: nobody is deleting in the room. *)
LEMMA ListPutInRoom ==
    ASSUME AllInv, OneSession', NEW c \in Conns, PutInRoom(c)
    PROVE  ListInv'
<1> USE DEF AllInv, TypeInv
<1>0. PICK o \in Objs, h \in Conns \cup {Nil} : o = Room[c] /\ h = head[o]
  BY DEF PutInRoom, HasUser, TypeOK
<1>1. OneSession /\ UNCHANGED <<maps, drop, conn, local, loc, overlap>> /\ pc[c] = "93"
  BY DEF PutInRoom, OneSession
<1>2. pc' = [pc EXCEPT ![c] = pc'[c]] /\ pc'[c] \in {"closing", "reading"} /\ \A d \in Conns : d # c => pc'[d] = pc[d]
  BY DEF PutInRoom, TypeOK
<1>3. ~Pointed(c) /\ Next_[c] = Nil /\ Prev[c] = Nil /\ c \notin refused /\ \A q : c \notin Linked(q)
  BY <1>1 DEF ChainInv, FreshInv, Fresh, Linked, Inside, Half
<1>4. \A d \in Conns : OwnOf(d)' /\ EntryOf(d)'
  <2>1. OwnOf(c) /\ EntryOf(c)
    BY <1>1 DEF ListInv
  <2>2. OwnOf(c)'
    BY <1>2 DEF OwnOf, UnderRLock, RoomRLock
  <2>3. EntryOf(c)'
    BY <1>1, <1>2, <2>1 DEF EntryOf, Owner
  <2> QED
    BY <1>1, <1>2, <2>2, <2>3, NilAssumption, OwnKept
<1>5. \A d \in Conns : Room[d] = o => pc[d] \notin RoomRLock /\ pc'[d] \notin RoomRLock
  <2> SUFFICES ASSUME NEW d \in Conns, Room[d] = o, pc[d] \in RoomRLock PROVE FALSE
    BY <1>2 DEF RoomRLock
  <2>1. room[d] = o
    BY <1>1, DeletesItself
  <2>2. d \in Deleting(Room[c])
    BY <1>0, <2>1 DEF Deleting
  <2> QED
    BY <2>2 DEF PutInRoom
<1>6. \A S \in SUBSET RoomRLock : ~Busy(o, S) /\ ~Busy(o, S)'
  BY <1>1, <1>5 DEF Busy
<1>7. /\ ~Busy(o, {"74", "74w", "76", "77"})' /\ ~Busy(o, {"74", "74w"})' /\ ~Busy(o, {"76"})' /\ ~Busy(o, {"77"})'
      /\ ~Busy(o, {"76", "77"}) /\ ~Busy(o, {"74", "74w", "76", "77"}) /\ ~Busy(o, Taken)
  BY <1>6 DEF RoomRLock, Taken
<1>8. Alone(o)' /\ \A d \in Conns : Room'[d] = o => RegOf(d)'
  BY <1>1, <1>5 DEF Alone, RegOf, RoomRLock
<1>9. CASE drop[o]
  <2>1. UNCHANGED <<lists>> /\ pc'[c] = "closing" /\ refused' = refused \cup {c}
    BY <1>0, <1>9 DEF PutInRoom, TypeOK
  <2>2. ASSUME NEW q \in Objs \ overlap, q # o PROVE RoomOf(q)'
    <3>1. RoomOf(q) /\ refused' \subseteq Conns
      BY <1>1, <2>1 DEF ListInv, TypeOK
    <3> QED
      BY <1>0, <1>1, <1>2, <2>1, <2>2, <3>1, RoomKept
  <2>3. ASSUME o \notin overlap PROVE RoomOf(o)'
    <3>1. RoomOf(o)
      BY <1>1, <2>3 DEF ListInv
    <3>2. Linked(o)' = Linked(o)
      BY <1>1, <1>2, <1>3, <2>1 DEF Linked
    <3>3. Empty0(o)
      BY <1>7, <1>9, <3>1 DEF RoomOf, CountOf
    <3>4. CountOf(o)'
      <4>1. Empty0(o)' /\ drop'[o] = drop[o]
        BY <1>1, <2>1, <3>2, <3>3 DEF Empty0
      <4> QED
        BY <1>7, <1>9, <4>1 DEF CountOf, Empty0
    <3>5. ListOf(o)'
      <4> PICK B \in [Conns -> Conns \cup {Nil}] : Ordered(o, B)
        BY <3>1 DEF RoomOf, ListOf
      <4>1. Linked(o) = {}
        BY <3>3 DEF Empty0
      <4>2. Ordered(o, B)'
        BY <2>1, <3>2, <4>1 DEF Ordered
      <4> QED
        BY <4>2 DEF ListOf
    <3>6. OpenOf(o)'
      BY <1>1, <1>9 DEF OpenOf
    <3> QED
      BY <1>8, <3>4, <3>5, <3>6 DEF RoomOf
  <2> QED
    BY <1>1, <1>4, <2>2, <2>3 DEF ListInv
<1>10. CASE ~drop[o]
  <2>1. /\ Prev' = [x \in Conns |-> IF x = c THEN Nil ELSE IF x = h THEN c ELSE Prev[x]]
        /\ Next_' = [Next_ EXCEPT ![c] = h]
        /\ head' = [head EXCEPT ![o] = c]
        /\ OnlineCount' = [OnlineCount EXCEPT ![o] = @ + 1]
        /\ refused' = refused /\ pc'[c] = "reading"
    BY <1>0, <1>10 DEF PutInRoom, LinkFirst, TypeOK
  <2>2. /\ \A x \in Conns : /\ Next_'[x] = IF x = c THEN h ELSE Next_[x]
                            /\ Prev'[x] = IF x = c THEN Nil ELSE IF x = h THEN c ELSE Prev[x]
        /\ \A q \in Objs : /\ head'[q] = IF q = o THEN c ELSE head[q]
                           /\ OnlineCount'[q] = IF q = o THEN OnlineCount[q] + 1 ELSE OnlineCount[q]
    BY <2>1 DEF TypeOK
  <2>3. o = Room[c] /\ h = head[o] /\ (h # Nil => Room[h] = o)
    BY <1>0 DEF ChainInv, LinkInv
  <2>4. ASSUME NEW q \in Objs \ overlap, q # o PROVE RoomOf(q)'
    <3>1. RoomOf(q)
      BY <1>1 DEF ListInv
    <3>2. \A x \in Conns : Room[x] = q => x # c /\ x # h
      <4>1. h # Nil => Room[h] # q
        BY <2>3, <2>4
      <4>2. Room[c] # q
        BY <2>3, <2>4
      <4> QED
        BY <4>1, <4>2, NilAssumption
    <3>3. \A x \in Conns : Room[x] = q => Next_'[x] = Next_[x] /\ Prev'[x] = Prev[x]
      BY <2>2, <3>2
    <3>4. head'[q] = head[q] /\ OnlineCount'[q] = OnlineCount[q] /\ drop'[q] = drop[q] /\ refused' \subseteq Conns
      BY <1>1, <2>1, <2>2, <2>4 DEF TypeOK
    <3> QED
      BY <1>1, <1>2, <2>1, <3>1, <3>2, <3>3, <3>4, RoomKept
  <2>5. ASSUME o \notin overlap PROVE RoomOf(o)'
    <3>1. RoomOf(o)
      BY <1>1, <2>5 DEF ListInv
    <3>2. Linked(o)' = Linked(o) \cup {c}
      BY <1>1, <1>2, <1>3, <2>1, <2>3 DEF Linked, Inside
    <3>3. CountOf(o)'
      <4>1. IsFiniteSet(Linked(o))
        BY FiniteAssumption, FS_Subset DEF Linked
      <4>2. Cardinality(Linked(o) \cup {c}) = Cardinality(Linked(o)) + 1 /\ Cardinality(Linked(o)) \in Nat
        BY <1>3, <4>1, FS_AddElement, FS_CardinalityType
      <4>3. Counted(o, 0)
        BY <1>7, <1>10, <3>1 DEF RoomOf, CountOf
      <4>4. Counted(o, 0)'
        BY <2>2, <3>2, <4>2, <4>3 DEF Counted
      <4>5. \A d \in refused' : Room'[d] # o
        BY <1>1, <1>7, <1>10, <2>1, <3>1 DEF RoomOf, CountOf
      <4> QED
        BY <1>1, <1>7, <1>10, <4>4, <4>5 DEF CountOf
    <3>4. OpenOf(o)'
      BY <3>2 DEF OpenOf
    <3>5. ListOf(o)'
      <4> PICK B \in [Conns -> Conns \cup {Nil}] : Ordered(o, B)
        BY <3>1 DEF RoomOf, ListOf
      <4> DEFINE D == [x \in Conns |-> IF x = c THEN Nil ELSE IF x = h THEN c ELSE B[x]]
      <4>1. D \in [Conns -> Conns \cup {Nil}]
        OBVIOUS
      <4>2. \A x \in Conns : D[x] = IF x = c THEN Nil ELSE IF x = h THEN c ELSE B[x]
        OBVIOUS
      <4> HIDE DEF D
      <4>3. h # Nil => h \in Linked(o) /\ B[h] = Nil
        BY <2>3 DEF Ordered
      <4>4. \A x \in Linked(o) : x \in Conns /\ x # c /\ Room[x] = o /\ Next_[x] # c /\ Prev[x] # c
        BY <1>3 DEF Linked, Pointed
      <4>5. \A x \in Linked(o) : B[x] # c /\ B[x] \in Linked(o) \cup {Nil} /\ Next_[x] \in Linked(o) \cup {Nil}
        BY <1>3, NilAssumption DEF Ordered
      <4>6. \A x \in Linked(o) : pc[x] \notin Half /\ pc'[x] \notin Half /\ Prev[x] = B[x]
        <5>1. \A x \in Linked(o) : pc[x] \notin Half /\ pc'[x] \notin Half
          BY <1>5, <4>4 DEF Half, RoomRLock
        <5> QED
          BY <4>5, <5>1 DEF Ordered
      <4>7. pc'[c] \notin Half
        BY <2>1 DEF Half
      <4>8. ASSUME NEW x \in Linked(o)'
            PROVE  /\ Next_'[x] \in Linked(o)' \cup {Nil} /\ D[x] \in Linked(o)' \cup {Nil}
                   /\ Next_'[x] # Nil => D[Next_'[x]] = x
                   /\ D[x] # Nil => Next_'[D[x]] = x
                   /\ D[x] = Nil => head'[o] = x
                   /\ Prev'[x] = D[x]
        <5>1. CASE x = c
          <6>1. h # Nil => h \in Conns /\ h # c
            BY <4>3, <4>4
          <6> QED
            BY <2>2, <3>2, <4>2, <4>3, <5>1, <6>1
        <5>2. CASE x # c
          <6>1. x \in Linked(o) /\ x \in Conns
            BY <3>2, <4>4, <5>2
          <6>2. /\ Next_[x] # Nil => B[Next_[x]] = x
                /\ B[x] # Nil => Next_[B[x]] = x
                /\ B[x] = Nil => head[o] = x
            BY <6>1 DEF Ordered
          <6>3. Next_[x] # Nil => Next_[x] # h /\ Next_[x] # c /\ Next_[x] \in Conns
            BY <4>3, <4>4, <4>5, <6>1, <6>2, NilAssumption
          <6>4. CASE x = h
            <7>1. /\ Next_'[x] = Next_[x] /\ D[x] = c /\ Prev'[x] = c /\ Next_'[c] = x /\ c # Nil
                  /\ Next_[x] \in Linked(o) \cup {Nil}
              BY <2>2, <4>2, <4>5, <5>2, <6>1, <6>4, NilAssumption
            <7>2. Next_[x] # Nil => D[Next_[x]] = x
              BY <4>2, <6>2, <6>3
            <7> QED
              BY <3>2, <7>1, <7>2
          <6>5. CASE x # h
            <7>1. B[x] # Nil /\ B[x] # c /\ B[x] \in Conns
              BY <2>3, <4>4, <4>5, <6>1, <6>2, <6>5
            <7> QED
              BY <2>2, <3>2, <4>2, <4>5, <4>6, <5>2, <6>1, <6>2, <6>3, <6>5, <7>1
          <6> QED
            BY <6>4, <6>5
        <5> QED
          BY <5>1, <5>2
      <4>9. \A x \in Linked(o)' : ~(D[x] # Nil /\ pc'[D[x]] \in Half)
        BY <3>2, <4>6, <4>7, <4>8
      <4>10. head'[o] = c /\ c \in Linked(o)' /\ D[c] = Nil
        BY <2>2, <3>2, <4>2
      <4>11. Ordered(o, D)'
        BY <4>8, <4>9, <4>10 DEF Ordered
      <4> QED
        BY <4>1, <4>11 DEF ListOf
    <3> QED
      BY <1>8, <3>3, <3>4, <3>5 DEF RoomOf
  <2> QED
    BY <1>1, <1>4, <2>4, <2>5 DEF ListInv
<1> QED
  BY <1>9, <1>10

(* What a step of Room.DeleteChannel does outside the room: nothing. *)
LEMMA DeleteElsewhere ==
    ASSUME AllInv, OneSession, NEW c \in Conns, LoadStep(c) \/ StoreStep(c)
    PROVE  /\ \A d \in Conns : OwnOf(d)' /\ EntryOf(d)'
           /\ \A q \in Objs \ overlap : q # Room[c] => RoomOf(q)'
<1> USE DEF AllInv, TypeInv
<1> DEFINE o == Room[c]
<1>1. /\ UNCHANGED <<maps, local, conn, refused>>
      /\ pc[c] \in RoomRLock \cup {"110"} /\ pc'[c] \in RoomRLock \cup {"80"}
      /\ \A d \in Conns : d # c => pc'[d] = pc[d] /\ ch'[d] = ch[d] /\ room'[d] = room[d] /\ loc'[d] = loc[d]
  BY RoomStepOfOne, StepOfOne
<1>2. ch[c] = c /\ room[c] = o /\ o \in Objs
  BY <1>1, DeletesItself
<1>3. \A d \in Conns : OwnOf(d)' /\ EntryOf(d)'
  <2>1. OwnOf(c) /\ EntryOf(c)
    BY DEF ListInv
  <2>2. OwnOf(c)'
    BY <1>1, <1>2, <2>1, NilAssumption DEF OwnOf, UnderRLock
  <2>3. EntryOf(c)'
    BY <1>1, <2>1 DEF EntryOf, Owner, RoomRLock
  <2> QED
    BY <1>1, <2>2, <2>3, NilAssumption, OwnKept
<1>4. /\ \A x \in Conns : Room[x] # o => Next_'[x] = Next_[x] /\ Prev'[x] = Prev[x]
      /\ \A q \in Objs : q # o => head'[q] = head[q] /\ OnlineCount'[q] = OnlineCount[q] /\ drop'[q] = drop[q]
  <2>1. CASE LoadStep(c)
    BY <2>1 DEF LoadStep
  <2>2. CASE StoreStep(c)
    <3>1. /\ loc[c].n # Nil => Room[loc[c].n] = o
          /\ loc[c].p # Nil => Room[loc[c].p] = o
      BY <1>2 DEF ChainInv, LinkInv
    <3>2. CASE StorePrevOfNext(c)
      BY <3>1, <3>2 DEF StorePrevOfNext, TypeOK
    <3>3. CASE StoreNext(c)
      BY <3>1, <3>3 DEF StoreNext, TypeOK
    <3>4. CASE StoreHead(c) \/ StoreCount(c)
      BY <1>2, <3>4 DEF StoreHead, StoreCount, TypeOK
    <3>5. CASE ClearDrop(c) \/ SetDrop(c)
      BY <1>2, <3>5 DEF ClearDrop, SetDrop, TypeOK
    <3> QED
      BY <2>2, <3>2, <3>3, <3>4, <3>5 DEF StoreStep
  <2> QED
    BY <2>1, <2>2
<1>5. ASSUME NEW q \in Objs \ overlap, q # o PROVE RoomOf(q)'
  <2>1. RoomOf(q) /\ refused' \subseteq Conns
    BY <1>1 DEF ListInv, TypeOK
  <2>2. \A x \in Conns : Room[x] = q => /\ x # c /\ pc'[x] = pc[x] /\ loc'[x] = loc[x]
                                         /\ Next_'[x] = Next_[x] /\ Prev'[x] = Prev[x]
    BY <1>1, <1>4, <1>5
  <2>3. head'[q] = head[q] /\ OnlineCount'[q] = OnlineCount[q] /\ drop'[q] = drop[q]
    BY <1>4, <1>5
  <2>4. UNCHANGED <<Room, rooms, refused>>
    BY <1>1
  <2> HIDE DEF o
  <2> QED
    BY <2>1, <2>2, <2>3, <2>4, RoomKept
<1> QED
  BY <1>3, <1>5

(* In a room whose DeleteChannels have not overlapped, the one in progress is alone. *)
LEMMA DeletesAlone ==
    ASSUME AllInv, OneSession, NEW c \in Conns, LoadStep(c) \/ StoreStep(c), NEW o \in Objs, o = Room[c], o \notin overlap'
    PROVE  /\ RoomOf(o) /\ UNCHANGED <<rooms, Room, refused>> /\ room[c] = o /\ ch[c] = c /\ RegOf(c)
           /\ pc[c] \in RoomRLock \cup {"110"} /\ pc'[c] \in RoomRLock \cup {"80"}
           /\ \A x \in Conns : x # c => pc'[x] = pc[x]
           /\ \A x \in Conns : Room[x] = o /\ x # c => pc[x] \notin RoomRLock
           /\ \A S \in SUBSET RoomRLock : (Busy(o, S) <=> pc[c] \in S) /\ (Busy(o, S)' <=> pc'[c] \in S)
           /\ Alone(o)'
           /\ RegOf(c)' => \A x \in Conns : Room'[x] = o => RegOf(x)'
<1> USE DEF AllInv, TypeInv
<1>1. /\ UNCHANGED <<maps, local, conn, refused>>
      /\ pc[c] \in RoomRLock \cup {"110"} /\ pc'[c] \in RoomRLock \cup {"80"}
      /\ \A d \in Conns : d # c => pc'[d] = pc[d]
  BY RoomStepOfOne, StepOfOne
<1>2. ch[c] = c /\ room[c] = o
  BY <1>1, DeletesItself
<1>3. o \notin overlap
  <2>1. overlap \subseteq overlap'
    BY DEF LoadStep, DeleteRLock, ReloadNext, LoadPrevOfNext, LoadPrev, ReloadPrev, LoadNext, LoadCount, TestCount, StoreStep
  <2> QED
    BY <2>1
<1>4. RoomOf(o) /\ RegOf(c)
  BY <1>3 DEF ListInv, RoomOf
<1>5. ASSUME NEW x \in Conns, Room[x] = o, x # c, pc[x] \in RoomRLock PROVE FALSE
  <2>1. CASE pc[c] \in RoomRLock
    BY <1>4, <1>5, <2>1 DEF RoomOf, Alone
  <2>2. CASE pc[c] = "110"
    <3>1. DeleteRLock(c)
      BY <2>2 DEF LoadStep, StoreStep, ReloadNext, LoadPrevOfNext, LoadPrev, ReloadPrev, LoadNext, LoadCount, TestCount,
                  StorePrevOfNext, StoreNext, StoreHead, StoreCount, ClearDrop, SetDrop
    <3>2. Deleting(o) = {}
      BY <1>2, <3>1 DEF DeleteRLock
    <3>3. room[x] = o
      BY <1>5, DeletesItself
    <3> QED
      BY <1>5, <3>2, <3>3 DEF Deleting
  <2> QED
    BY <1>1, <2>1, <2>2
<1>6. \A S \in SUBSET RoomRLock : (Busy(o, S) <=> pc[c] \in S) /\ (Busy(o, S)' <=> pc'[c] \in S)
  BY <1>1, <1>5 DEF Busy
<1>7. Alone(o)'
  BY <1>1, <1>5 DEF Alone
<1>8. ASSUME RegOf(c)', NEW x \in Conns, Room'[x] = o PROVE RegOf(x)'
  <2>1. CASE x = c
    BY <1>8, <2>1
  <2>2. CASE x # c
    <3>1. pc'[x] \notin RoomRLock
      BY <1>1, <1>5, <1>8, <2>2
    <3> QED
      BY <3>1 DEF RegOf, RoomRLock
  <2> QED
    BY <2>1, <2>2
<1> QED
  BY <1>1, <1>2, <1>4, <1>5, <1>6, <1>7, <1>8

(* A step before the connection is taken out: the list stays, and B with it. *)
LEMMA StillInside ==
    ASSUME AllInv, OneSession, NEW c \in Conns, LoadStep(c) \/ StoreStep(c), NEW o \in Objs, o = Room[c], o \notin overlap',
           pc[c] \in Inside, pc'[c] \in Inside,
           UNCHANGED <<head, Next_, OnlineCount, drop>>, RegOf(c)',
           \/ Prev' = Prev /\ pc[c] \in Half /\ pc'[c] \in Half
           \/ Prev' = Prev /\ pc[c] \notin Half /\ pc'[c] \notin Half
           \/ Prev' = Prev /\ pc[c] \notin Half /\ Next_[c] = Nil
           \/ pc[c] \notin Half /\ pc'[c] \in Half /\ Next_[c] # Nil /\ Prev' = [Prev EXCEPT ![Next_[c]] = Prev[c]]
    PROVE  RoomOf(o)'
<1> USE DEF AllInv, TypeInv
<1>1. /\ RoomOf(o) /\ UNCHANGED <<rooms, Room, refused>> /\ ch[c] = c
      /\ pc[c] \in RoomRLock \cup {"110"}
      /\ \A x \in Conns : x # c => pc'[x] = pc[x]
      /\ \A x \in Conns : Room[x] = o /\ x # c => pc[x] \notin RoomRLock
      /\ \A S \in SUBSET RoomRLock : (Busy(o, S) <=> pc[c] \in S) /\ (Busy(o, S)' <=> pc'[c] \in S)
      /\ Alone(o)' /\ \A x \in Conns : Room'[x] = o => RegOf(x)'
  BY DeletesAlone
<1>2. Linked(o)' = Linked(o)
  BY <1>1 DEF Linked
<1>3. /\ ~Busy(o, {"74", "74w", "76", "77"}) /\ ~Busy(o, {"74", "74w", "76", "77"})'
      /\ ~Busy(o, {"74", "74w"}) /\ ~Busy(o, {"74", "74w"})' /\ ~Busy(o, {"76"}) /\ ~Busy(o, {"76"})'
      /\ ~Busy(o, {"77"}) /\ ~Busy(o, {"77"})' /\ ~Busy(o, {"76", "77"}) /\ ~Busy(o, {"76", "77"})'
      /\ ~Busy(o, Taken)
  <2>1. /\ {"74", "74w", "76", "77"} \in SUBSET RoomRLock /\ {"74", "74w"} \in SUBSET RoomRLock
        /\ {"76"} \in SUBSET RoomRLock /\ {"77"} \in SUBSET RoomRLock /\ {"76", "77"} \in SUBSET RoomRLock
        /\ Taken \in SUBSET RoomRLock
    BY DEF RoomRLock, Taken
  <2>2. \A S \in SUBSET Taken : pc[c] \notin S /\ pc'[c] \notin S
    BY DEF Inside, Half, Taken
  <2>3. /\ {"74", "74w", "76", "77"} \in SUBSET Taken /\ {"74", "74w"} \in SUBSET Taken
        /\ {"76"} \in SUBSET Taken /\ {"77"} \in SUBSET Taken /\ {"76", "77"} \in SUBSET Taken
        /\ Taken \in SUBSET Taken
    BY DEF Taken
  <2> QED
    BY <1>1, <2>1, <2>2, <2>3
<1>4. CountOf(o)'
  <2>1. (Empty0(o)' <=> Empty0(o)) /\ (Counted(o, 0)' <=> Counted(o, 0))
    BY <1>2 DEF Empty0, Counted
  <2> QED
    BY <1>1, <1>2, <1>3, <2>1 DEF RoomOf, CountOf
<1>5. OpenOf(o)'
  <2> SUFFICES ASSUME \E r \in RoomIds : rooms[r] = o, ~drop[o], Linked(o) = {}
               PROVE  \E x \in Conns : pc'[x] = "93" /\ Room[x] = o
    BY <1>1, <1>2 DEF OpenOf
  <2>1. PICK x \in Conns : pc[x] = "93" /\ Room[x] = o
    BY <1>1, <1>3 DEF RoomOf, OpenOf
  <2>2. x # c
    BY <2>1 DEF Inside, Half
  <2> QED
    BY <1>1, <2>1, <2>2
<1>6. ListOf(o)'
  <2> PICK B \in [Conns -> Conns \cup {Nil}] : Ordered(o, B)
    BY <1>1 DEF RoomOf, ListOf
  <2> DEFINE n == Next_[c]
  <2>0. n \in Conns \cup {Nil} /\ (n # Nil => n # c)
    BY <1>1, DeletesItself
  <2>1. \A x \in Linked(o) : x \in Conns /\ Room[x] = o /\ (x # c => pc[x] \notin Half /\ pc'[x] \notin Half)
    BY <1>1 DEF Linked, Half, RoomRLock
  <2>2. \A x \in Linked(o) : B[x] \in Linked(o) \cup {Nil}
    BY DEF Ordered
  <2>3. \A x \in Linked(o) : B[x] = c => n = x /\ c \in Linked(o)
    BY <2>1, <2>2, NilAssumption DEF Ordered
  <2>4. c \in Linked(o) => (n # Nil => n \in Linked(o) /\ B[n] = c) /\ B[c] # c
    <3>1. c \in Linked(o) => (n # Nil => n \in Linked(o) /\ B[n] = c)
      BY DEF Ordered
    <3>2. c \in Linked(o) => B[c] # c
      BY <2>0, <2>3, NilAssumption
    <3> QED
      BY <3>1, <3>2
  <2>5. n # Nil => c \in Linked(o)
    <3> SUFFICES ASSUME c \notin Linked(o) PROVE n = Nil
      OBVIOUS
    <3>1. c \in refused
      BY DEF Linked
    <3> QED
      BY <3>1 DEF ChainInv, FreshInv, Fresh
  <2>6. ASSUME NEW x \in Linked(o)
        PROVE  /\ B[x] # Nil /\ pc'[B[x]] \in Half => Prev'[x] = B[B[x]]
               /\ ~(B[x] # Nil /\ pc'[B[x]] \in Half) => Prev'[x] = B[x]
    <3>1. x \in Conns /\ B[x] \in Linked(o) \cup {Nil}
      BY <2>1, <2>2
    <3>2. /\ B[x] # Nil /\ pc[B[x]] \in Half => Prev[x] = B[B[x]]
          /\ ~(B[x] # Nil /\ pc[B[x]] \in Half) => Prev[x] = B[x]
      BY DEF Ordered
    <3>3. CASE B[x] # c
      <4>1. ~(B[x] # Nil /\ pc[B[x]] \in Half) /\ ~(B[x] # Nil /\ pc'[B[x]] \in Half)
        BY <2>1, <3>1, <3>3
      <4>2. x # n \/ n = Nil
        BY <2>4, <2>5, <3>3
      <4>3. Prev'[x] = Prev[x]
        BY <3>1, <4>2, NilAssumption DEF TypeOK
      <4> QED
        BY <3>2, <4>1, <4>3
    <3>4. CASE B[x] = c
      <4>1. n = x /\ c \in Linked(o) /\ c # Nil /\ n # Nil
        BY <2>3, <3>1, <3>4, NilAssumption
      <4>2. CASE Prev' = Prev /\ (pc[c] \in Half <=> pc'[c] \in Half)
        BY <3>2, <3>4, <4>1, <4>2
      <4>3. CASE pc[c] \notin Half /\ pc'[c] \in Half /\ Prev' = [Prev EXCEPT ![Next_[c]] = Prev[c]]
        <5>1. Prev'[x] = Prev[c]
          BY <3>1, <4>1, <4>3 DEF TypeOK
        <5>2. B[c] = Nil \/ pc[B[c]] \notin Half
          BY <2>1, <2>2, <2>4, <4>1
        <5>3. Prev[c] = B[c]
          BY <4>1, <5>2 DEF Ordered
        <5> QED
          BY <3>4, <4>1, <4>3, <5>1, <5>3
      <4> QED
        BY <4>1, <4>2, <4>3
    <3> QED
      BY <3>3, <3>4
  <2>7. Ordered(o, B)'
    BY <1>2, <2>6 DEF Ordered
  <2> QED
    BY <2>7 DEF ListOf
<1> QED
  BY <1>1, <1>4, <1>5, <1>6 DEF RoomOf

(* Line 70 or 72: the connection leaves the list. *)
LEMMA ListUnlink ==
    ASSUME AllInv, OneSession, NEW c \in Conns, StoreStep(c), StoreNext(c) \/ StoreHead(c),
           NEW o \in Objs, o = Room[c], o \notin overlap'
    PROVE  RoomOf(o)'
<1> USE DEF AllInv, TypeInv
<1>1. /\ RoomOf(o) /\ UNCHANGED <<rooms, Room, refused>> /\ ch[c] = c /\ room[c] = o /\ RegOf(c)
      /\ \A x \in Conns : x # c => pc'[x] = pc[x]
      /\ \A x \in Conns : Room[x] = o /\ x # c => pc[x] \notin RoomRLock
      /\ \A S \in SUBSET RoomRLock : (Busy(o, S) <=> pc[c] \in S) /\ (Busy(o, S)' <=> pc'[c] \in S)
      /\ Alone(o)' /\ (RegOf(c)' => \A x \in Conns : Room'[x] = o => RegOf(x)')
  BY DeletesAlone
<1>2. PICK n \in Conns \cup {Nil}, p \in Conns \cup {Nil} : n = Next_[c] /\ p = Prev[c]
  BY DEF TypeOK
<1>3. /\ pc[c] \in {"70w", "72w"} /\ pc'[c] = "74" /\ UNCHANGED <<Prev, OnlineCount, drop>>
      /\ pc[c] = "70w" => p # Nil /\ Next_' = [Next_ EXCEPT ![p] = n] /\ head' = head
      /\ pc[c] = "72w" => p = Nil /\ Next_' = Next_ /\ head' = [head EXCEPT ![o] = n]
  <2>1. CASE StoreNext(c)
    <3>1. loc[c].p = p /\ loc[c].n = n /\ p # Nil
      BY <1>1, <1>2, <2>1 DEF StoreNext, RegOf, TypeOK
    <3> QED
      BY <2>1, <3>1 DEF StoreNext, TypeOK
  <2>2. CASE StoreHead(c)
    <3>1. p = Nil /\ loc[c].n = n
      BY <1>1, <1>2, <2>2 DEF StoreHead, RegOf
    <3> QED
      BY <1>1, <2>2, <3>1 DEF StoreHead, TypeOK
  <2> QED
    BY <2>1, <2>2
<1>4. /\ \A x \in Conns : Next_'[x] = IF p # Nil /\ x = p THEN n ELSE Next_[x]
      /\ head'[o] = IF p = Nil THEN n ELSE head[o]
  BY <1>3 DEF TypeOK
<1>5. RegOf(c)'
  BY <1>3 DEF RegOf
<1>6. Busy(o, Taken)' /\ OpenOf(o)'
  BY <1>1, <1>3 DEF Taken, RoomRLock, OpenOf
<1>7. /\ ~Busy(o, {"74", "74w", "76", "77"}) /\ Busy(o, {"74", "74w", "76", "77"})' /\ Busy(o, {"74", "74w"})'
      /\ ~Busy(o, {"76"})' /\ ~Busy(o, {"77"})' /\ ~Busy(o, {"76", "77"})
  <2>1. /\ {"74", "74w", "76", "77"} \in SUBSET RoomRLock /\ {"74", "74w"} \in SUBSET RoomRLock
        /\ {"76"} \in SUBSET RoomRLock /\ {"77"} \in SUBSET RoomRLock /\ {"76", "77"} \in SUBSET RoomRLock
    BY DEF RoomRLock
  <2> QED
    BY <1>1, <1>3, <2>1
<1>8. Linked(o)' = Linked(o) \ {c}
  BY <1>1, <1>3 DEF Linked, Inside, Half
<1>9. (n # Nil => n # c) /\ (p # Nil => p # c) /\ c # Nil
  BY <1>2, <1>3, DeletesItself, NilAssumption DEF RoomRLock
(* The connection was refused, and the list is empty. *)
<1>10. CASE c \in refused
  <2>1. Linked(o) = {} /\ drop[o] /\ Empty0(o)
    BY <1>1, <1>7, <1>10 DEF RoomOf, CountOf
  <2>2. n = Nil /\ p = Nil
    BY <1>2, <1>10 DEF ChainInv, FreshInv, Fresh
  <2>3. Linked(o)' = {} /\ head'[o] = Nil
    BY <1>4, <1>8, <2>1, <2>2
  <2>4. CountOf(o)'
    <3>1. Empty0(o)' /\ drop'[o]
      BY <1>3, <2>1, <2>3 DEF Empty0
    <3> QED
      BY <1>7, <2>3, <3>1 DEF CountOf
  <2>5. ListOf(o)'
    <3> PICK B \in [Conns -> Conns \cup {Nil}] : Ordered(o, B)
      BY <1>1 DEF RoomOf, ListOf
    <3>1. Ordered(o, B)'
      BY <2>3 DEF Ordered
    <3> QED
      BY <3>1 DEF ListOf
  <2> QED
    BY <1>1, <1>5, <1>6, <2>4, <2>5 DEF RoomOf
<1>11. CASE c \notin refused
  <2>1. c \in Linked(o) /\ IsFiniteSet(Linked(o))
    BY <1>1, <1>3, <1>11, FiniteAssumption, FS_Subset DEF Linked, Inside, Half
  <2>2. CountOf(o)'
    <3>1. ~drop[o] /\ Counted(o, 0) /\ \A x \in refused : Room[x] # o
      BY <1>1, <1>7, <2>1 DEF RoomOf, CountOf, Empty0
    <3>2. Cardinality(Linked(o)) \in Nat /\ Cardinality(Linked(o) \ {c}) = Cardinality(Linked(o)) - 1
      BY <2>1, FS_CardinalityType, FS_RemoveElement
    <3>3. Counted(o, 1)'
      BY <1>3, <1>8, <3>1, <3>2 DEF Counted
    <3> QED
      BY <1>1, <1>3, <1>7, <3>1, <3>3 DEF CountOf
  <2>3. ListOf(o)'
    <3> PICK B \in [Conns -> Conns \cup {Nil}] : Ordered(o, B)
      BY <1>1 DEF RoomOf, ListOf
    <3> DEFINE D == [x \in Conns |-> IF x = n THEN p ELSE B[x]]
    <3>1. D \in [Conns -> Conns \cup {Nil}]
      OBVIOUS
    <3>2. \A x \in Conns : D[x] = IF x = n THEN p ELSE B[x]
      OBVIOUS
    <3> HIDE DEF D
    <3>3. \A x \in Linked(o) : /\ x \in Conns /\ (x # c => pc[x] \notin Half /\ pc'[x] \notin Half)
                               /\ Next_[x] \in Linked(o) \cup {Nil} /\ B[x] \in Linked(o) \cup {Nil}
                               /\ Next_[x] # Nil => B[Next_[x]] = x
                               /\ B[x] # Nil => Next_[B[x]] = x
                               /\ B[x] = Nil => head[o] = x
                               /\ B[x] # Nil /\ pc[B[x]] \in Half => Prev[x] = B[B[x]]
                               /\ ~(B[x] # Nil /\ pc[B[x]] \in Half) => Prev[x] = B[x]
      BY <1>1 DEF Ordered, Linked, Half, RoomRLock
    <3>4. /\ n \in Linked(o) \cup {Nil} /\ (n # Nil => B[n] = c)
          /\ B[c] # c
      <4>1. B[c] = c => n = c
        BY <1>2, <1>9, <2>1, <3>3
      <4> QED
        BY <1>2, <1>9, <2>1, <3>3, <4>1
    <3>5. p = B[c] /\ p \in Linked(o) \cup {Nil} /\ (p # Nil => Next_[p] = c) /\ (p = Nil => head[o] = c)
      BY <1>2, <2>1, <3>3, <3>4
    <3>6. pc[c] \in Half
      BY <1>3 DEF Half
    <3>7. ASSUME NEW x \in Linked(o) \ {c}
          PROVE  /\ Next_'[x] \in (Linked(o) \ {c}) \cup {Nil}
                 /\ Next_'[x] # Nil => D[Next_'[x]] = x
      <4>1. CASE x = p
        BY <1>4, <1>9, <3>2, <3>3, <3>4, <4>1, NilAssumption
      <4>2. CASE x # p
        <5>1. Next_'[x] = Next_[x] /\ Next_[x] # c
          BY <1>4, <1>9, <3>3, <3>5, <4>2
        <5>2. Next_[x] # Nil => Next_[x] # n
          BY <3>3, <3>4
        <5> QED
          BY <3>2, <3>3, <5>1, <5>2
      <4> QED
        BY <4>1, <4>2
    <3>8. ASSUME NEW x \in Linked(o) \ {c}
          PROVE  /\ D[x] \in (Linked(o) \ {c}) \cup {Nil}
                 /\ D[x] # Nil => Next_'[D[x]] = x
                 /\ D[x] = Nil => head'[o] = x
                 /\ Prev[x] = D[x]
      <4>1. CASE x = n
        BY <1>4, <1>9, <3>2, <3>3, <3>4, <3>5, <3>6, <4>1, NilAssumption
      <4>2. CASE x # n
        <5>1. D[x] = B[x] /\ B[x] # c
          BY <1>2, <1>9, <3>2, <3>3, <4>2
        <5>2. B[x] # Nil => B[x] # p
          BY <1>9, <3>3, <3>5
        <5>3. B[x] = Nil => p # Nil
          BY <3>3, <3>5
        <5>4. Prev[x] = B[x]
          BY <3>3, <5>1
        <5> QED
          BY <1>4, <3>3, <5>1, <5>2, <5>3, <5>4
      <4> QED
        BY <4>1, <4>2
    <3>9. \A x \in Linked(o) \ {c} : ~(D[x] # Nil /\ pc'[D[x]] \in Half)
      BY <3>3, <3>8
    <3>10. head'[o] # Nil => head'[o] \in Linked(o) \ {c} /\ D[head'[o]] = Nil
      <4>1. CASE p = Nil
        BY <1>4, <1>9, <3>2, <3>3, <3>4, <4>1
      <4>2. CASE p # Nil
        <5>1. head'[o] = head[o] /\ (head[o] # Nil => head[o] \in Linked(o) /\ B[head[o]] = Nil)
          BY <1>4, <4>2 DEF Ordered
        <5>2. head[o] # Nil => head[o] # c /\ head[o] # n
          BY <1>9, <3>4, <3>5, <4>2, <5>1
        <5> QED
          BY <3>2, <3>3, <5>1, <5>2
      <4> QED
        BY <4>1, <4>2
    <3>11. Ordered(o, D)'
      BY <1>3, <1>8, <3>7, <3>8, <3>9, <3>10 DEF Ordered
    <3> QED
      BY <3>1, <3>11 DEF ListOf
  <2> QED
    BY <1>1, <1>5, <1>6, <2>2, <2>3 DEF RoomOf
<1> QED
  BY <1>10, <1>11

(* The rest of DeleteChannel: the list stays, the count and the mark follow it. *)
LEMMA ListCount ==
    ASSUME AllInv, OneSession, NEW c \in Conns, LoadStep(c) \/ StoreStep(c), NEW o \in Objs, o = Room[c], o \notin overlap',
           LoadCount(c) \/ StoreCount(c) \/ ClearDrop(c) \/ TestCount(c) \/ SetDrop(c), UNCHANGED links
    PROVE  RoomOf(o)'
<1> USE DEF AllInv, TypeInv
<1>1. /\ RoomOf(o) /\ UNCHANGED <<rooms, Room, refused>> /\ ch[c] = c /\ room[c] = o /\ RegOf(c)
      /\ \A x \in Conns : x # c => pc'[x] = pc[x]
      /\ \A x \in Conns : Room[x] = o /\ x # c => pc[x] \notin RoomRLock
      /\ \A S \in SUBSET RoomRLock : (Busy(o, S) <=> pc[c] \in S) /\ (Busy(o, S)' <=> pc'[c] \in S)
      /\ Alone(o)' /\ (RegOf(c)' => \A x \in Conns : Room'[x] = o => RegOf(x)')
  BY DeletesAlone
<1>2. PICK k \in Int : k = OnlineCount[o]
  BY DEF TypeOK
<1>3. loc[c].k \in Int /\ drop[o] \in BOOLEAN
  BY DEF TypeOK
<1>4. \/ pc[c] = "74" /\ pc'[c] = "74w" /\ OnlineCount' = OnlineCount /\ drop' = drop /\ loc'[c].k = k
      \/ pc[c] = "74w" /\ pc'[c] = "75" /\ OnlineCount'[o] = k - 1 /\ drop' = drop /\ loc' = loc /\ loc[c].k = k
      \/ pc[c] = "75" /\ pc'[c] = "76" /\ OnlineCount' = OnlineCount /\ drop'[o] = FALSE /\ loc' = loc /\ loc[c].k - 1 = k
      \/ pc[c] = "76" /\ pc'[c] = (IF k <= 0 THEN "77" ELSE "80") /\ OnlineCount' = OnlineCount /\ drop' = drop
      \/ pc[c] = "77" /\ pc'[c] = "80" /\ OnlineCount' = OnlineCount /\ drop'[o] = TRUE
  <2>1. CASE LoadCount(c)
    BY <1>1, <1>2, <2>1 DEF LoadCount, LoadStep, StoreStep, StorePrevOfNext, StoreNext, StoreHead, StoreCount, ClearDrop, SetDrop, TypeOK
  <2>2. CASE StoreCount(c)
    BY <1>1, <1>2, <2>2 DEF StoreCount, RegOf, StoreStep, LoadStep, DeleteRLock, ReloadNext, LoadPrevOfNext, LoadPrev, ReloadPrev, LoadNext, LoadCount, TestCount, TypeOK
  <2>3. CASE ClearDrop(c)
    BY <1>1, <1>2, <2>3 DEF ClearDrop, RegOf, StoreStep, LoadStep, DeleteRLock, ReloadNext, LoadPrevOfNext, LoadPrev, ReloadPrev, LoadNext, LoadCount, TestCount, TypeOK
  <2>4. CASE TestCount(c)
    <3>1. loc[c].k - 1 = k
      BY <1>1, <1>2, <2>4 DEF TestCount, RegOf
    <3> QED
      BY <1>1, <1>2, <2>4, <3>1 DEF TestCount, Empty, LoadStep, StoreStep, StorePrevOfNext, StoreNext, StoreHead, StoreCount, ClearDrop, SetDrop, TypeOK
  <2>5. CASE SetDrop(c)
    BY <1>1, <1>2, <2>5 DEF SetDrop, TypeOK
  <2> QED
    BY <2>1, <2>2, <2>3, <2>4, <2>5
<1>5. RegOf(c)'
  <2>1. OnlineCount'[o] \in {k, k - 1} /\ Room'[c] = o
    BY <1>1, <1>2, <1>4
  <2> QED
    BY <1>2, <1>4, <2>1 DEF RegOf
<1>6. Linked(o)' = Linked(o)
  BY <1>1, <1>4 DEF Linked, Inside, Half
<1>7. ListOf(o)'
  <2> PICK B \in [Conns -> Conns \cup {Nil}] : Ordered(o, B)
    BY <1>1 DEF RoomOf, ListOf
  <2>1. \A x \in Conns : pc'[x] \in Half <=> pc[x] \in Half
    BY <1>1, <1>4 DEF Half
  <2>2. Ordered(o, B)'
    BY <1>6, <2>1, NilAssumption DEF Ordered, Linked
  <2> QED
    BY <2>2 DEF ListOf
<1>8. /\ Busy(o, {"74", "74w", "76", "77"}) <=> pc[c] \in {"74", "74w", "76", "77"}
      /\ Busy(o, {"74", "74w", "76", "77"})' <=> pc'[c] \in {"74", "74w", "76", "77"}
      /\ Busy(o, {"74", "74w"}) <=> pc[c] \in {"74", "74w"}
      /\ Busy(o, {"74", "74w"})' <=> pc'[c] \in {"74", "74w"}
      /\ Busy(o, {"76"}) <=> pc[c] = "76"
      /\ Busy(o, {"76"})' <=> pc'[c] = "76"
      /\ Busy(o, {"77"}) <=> pc[c] = "77"
      /\ Busy(o, {"77"})' <=> pc'[c] = "77"
      /\ Busy(o, {"76", "77"}) <=> pc[c] \in {"76", "77"}
      /\ Busy(o, {"76", "77"})' <=> pc'[c] \in {"76", "77"}
      /\ Busy(o, Taken)' <=> pc'[c] \in Taken
  <2>1. /\ {"74", "74w", "76", "77"} \in SUBSET RoomRLock /\ {"74", "74w"} \in SUBSET RoomRLock
        /\ {"76"} \in SUBSET RoomRLock /\ {"77"} \in SUBSET RoomRLock /\ {"76", "77"} \in SUBSET RoomRLock
        /\ Taken \in SUBSET RoomRLock
    BY DEF RoomRLock, Taken
  <2> QED
    BY <1>1, <2>1
<1>9. PICK m \in Nat : m = Cardinality(Linked(o)) /\ (m = 0 => Linked(o) = {}) /\ (Linked(o) = {} => m = 0)
  BY FiniteAssumption, FS_Subset, FS_CardinalityType, FS_EmptySet DEF Linked
<1>10. /\ Empty0(o) <=> m = 0 /\ k <= 0
       /\ Counted(o, 0) <=> k = m
       /\ Counted(o, 1) <=> k = m + 1
       /\ Empty0(o)' <=> m = 0 /\ OnlineCount'[o] <= 0
       /\ Counted(o, 0)' <=> OnlineCount'[o] = m
       /\ Counted(o, 1)' <=> OnlineCount'[o] = m + 1
  BY <1>2, <1>6, <1>9 DEF Empty0, Counted
<1>11. CountOf(o)
  BY <1>1 DEF RoomOf
<1>12. CountOf(o)'
  <2>0. \A x \in refused' : Room'[x] = o => x \in refused /\ Room[x] = o
    BY <1>1
  <2>1. CASE pc[c] = "74" /\ pc'[c] = "74w" /\ OnlineCount' = OnlineCount /\ drop' = drop
    BY <1>2, <1>6, <1>8, <1>10, <1>11, <2>0, <2>1 DEF CountOf
  <2>2. CASE pc[c] = "74w" /\ pc'[c] = "75" /\ OnlineCount'[o] = k - 1 /\ drop' = drop
    BY <1>6, <1>8, <1>9, <1>10, <1>11, <2>0, <2>2 DEF CountOf
  <2>3. CASE pc[c] = "75" /\ pc'[c] = "76" /\ OnlineCount' = OnlineCount /\ drop'[o] = FALSE
    BY <1>2, <1>3, <1>6, <1>8, <1>9, <1>10, <1>11, <2>0, <2>3 DEF CountOf
  <2>4. CASE pc[c] = "76" /\ pc'[c] = (IF k <= 0 THEN "77" ELSE "80") /\ OnlineCount' = OnlineCount /\ drop' = drop
    <3>1. CASE k <= 0
      BY <1>2, <1>6, <1>8, <1>9, <1>10, <1>11, <2>0, <2>4, <3>1 DEF CountOf
    <3>2. CASE ~(k <= 0)
      BY <1>2, <1>6, <1>8, <1>9, <1>10, <1>11, <2>0, <2>4, <3>2 DEF CountOf
    <3> QED
      BY <3>1, <3>2
  <2>5. CASE pc[c] = "77" /\ pc'[c] = "80" /\ OnlineCount' = OnlineCount /\ drop'[o] = TRUE
    BY <1>2, <1>3, <1>6, <1>8, <1>9, <1>10, <1>11, <2>0, <2>5 DEF CountOf
  <2> QED
    BY <1>4, <2>1, <2>2, <2>3, <2>4, <2>5
<1>13. OpenOf(o)'
  <2>1. CASE pc'[c] \in Taken
    BY <1>8, <2>1 DEF OpenOf
  <2>2. CASE pc[c] = "76" /\ ~(k <= 0)
    <3>1. m # 0
      BY <1>8, <1>10, <1>11, <2>2 DEF CountOf
    <3> QED
      BY <1>6, <1>9, <3>1 DEF OpenOf
  <2>3. CASE drop'[o] = TRUE
    BY <2>3 DEF OpenOf
  <2> QED
    BY <1>2, <1>4, <2>1, <2>2, <2>3 DEF Taken
<1> QED
  BY <1>1, <1>5, <1>7, <1>12, <1>13 DEF RoomOf

LEMMA ListDelete ==
    ASSUME AllInv, OneSession', NEW c \in Conns, LoadStep(c) \/ StoreStep(c)
    PROVE  ListInv'
<1> USE DEF AllInv, TypeInv
<1>1. OneSession /\ overlap \subseteq overlap'
  BY DEF OneSession, LoadStep, DeleteRLock, ReloadNext, LoadPrevOfNext, LoadPrev, ReloadPrev, LoadNext, LoadCount, TestCount, StoreStep
<1>2. pc[c] \in RoomRLock \cup {"110"} /\ ch[c] = c /\ room[c] = Room[c]
  BY <1>1, RoomStepOfOne, DeletesItself
<1>3. (\A d \in Conns : OwnOf(d)' /\ EntryOf(d)') /\ \A q \in Objs \ overlap : q # Room[c] => RoomOf(q)'
  BY <1>1, DeleteElsewhere
<1>4. ASSUME NEW o \in Objs, o = Room[c], o \notin overlap' PROVE RoomOf(o)'
  <2>1. RegOf(c)
    BY <1>1, <1>4 DEF ListInv, RoomOf
  <2>2. CASE StoreNext(c) \/ StoreHead(c)
    BY <1>1, <1>4, <2>2, ListUnlink DEF StoreStep, StoreNext, StoreHead, LoadStep, DeleteRLock, ReloadNext, LoadPrevOfNext, LoadPrev, ReloadPrev, LoadNext, LoadCount, TestCount
  <2>3. CASE LoadStep(c) /\ (LoadCount(c) \/ TestCount(c))
    BY <1>1, <1>4, <2>3, ListCount DEF LoadStep
  <2>4. CASE StoreStep(c) /\ (StoreCount(c) \/ ClearDrop(c) \/ SetDrop(c))
    <3>1. UNCHANGED links
      BY <2>4 DEF StoreCount, ClearDrop, SetDrop
    <3> QED
      BY <1>1, <1>4, <2>4, <3>1, ListCount
  <2>5. CASE StoreStep(c) /\ StorePrevOfNext(c)
    <3>1. /\ pc[c] = "66w" /\ pc'[c] = "68" /\ loc[c].n = Next_[c] /\ loc[c].p = Prev[c] /\ Next_[c] # Nil
          /\ Prev' = [Prev EXCEPT ![Next_[c]] = Prev[c]] /\ UNCHANGED <<head, Next_, OnlineCount, drop>>
      <4>1. pc[c] = "66w" /\ Prev' = [Prev EXCEPT ![loc[c].n] = loc[c].p] /\ UNCHANGED <<head, Next_, OnlineCount, drop>>
        BY <2>5 DEF StorePrevOfNext
      <4>2. pc'[c] = "68"
        BY <2>5 DEF StorePrevOfNext, TypeOK
      <4>3. loc[c].n = Next_[c] /\ loc[c].p = Prev[c]
        BY <2>1, <4>1 DEF RegOf
      <4>4. loc[c].n # Nil
        BY <4>1 DEF TypeOK
      <4> QED
        BY <4>1, <4>2, <4>3, <4>4
    <3>2. RegOf(c)' /\ pc[c] \in Inside /\ pc'[c] \in Inside /\ pc[c] \notin Half /\ pc'[c] \in Half
      BY <3>1 DEF RegOf, Inside, Half
    <3> QED
      BY <1>1, <1>4, <2>5, <3>1, <3>2, StillInside
  <2>6. CASE LoadStep(c) /\ (DeleteRLock(c) \/ ReloadNext(c) \/ LoadPrevOfNext(c) \/ LoadPrev(c) \/ ReloadPrev(c) \/ LoadNext(c))
    <3>0. UNCHANGED <<head, Next_, Prev, OnlineCount, drop, Room>>
      BY <2>6 DEF LoadStep
    <3>1. ASSUME RegOf(c)', pc[c] \in Inside, pc'[c] \in Inside,
                 (pc[c] \in Half <=> pc'[c] \in Half) \/ (pc[c] \notin Half /\ Next_[c] = Nil)
          PROVE  RoomOf(o)'
      BY <1>1, <1>4, <2>6, <3>0, <3>1, StillInside
    <3> USE DEF RegOf, Inside, Half
    <3>2. CASE DeleteRLock(c)
      <4>1. /\ pc[c] = "110" /\ pc'[c] = IF Next_[c] # Nil THEN "66" ELSE "68"
            /\ loc'[c].n = Next_[c]
        BY <1>2, <3>2 DEF DeleteRLock, TypeOK
      <4> QED
        BY <3>0, <3>1, <4>1
    <3>3. CASE ReloadNext(c)
      <4>1. pc[c] = "66" /\ pc'[c] = "66p" /\ loc'[c].n = Next_[c]
        BY <1>2, <2>1, <3>3 DEF ReloadNext, TypeOK
      <4> QED
        BY <3>0, <3>1, <4>1
    <3>4. CASE LoadPrevOfNext(c)
      <4>1. pc[c] = "66p" /\ pc'[c] = "66w" /\ loc'[c].n = Next_[c] /\ loc'[c].p = Prev[c]
        BY <1>2, <2>1, <3>4 DEF LoadPrevOfNext, TypeOK
      <4> QED
        BY <3>0, <3>1, <4>1
    <3>5. CASE LoadPrev(c)
      <4>1. pc[c] = "68" /\ pc'[c] = (IF Prev[c] # Nil THEN "70" ELSE "72") /\ loc'[c].p = Prev[c]
        BY <1>2, <3>5 DEF LoadPrev, TypeOK
      <4> QED
        BY <3>0, <3>1, <4>1
    <3>6. CASE ReloadPrev(c)
      <4>1. pc[c] = "70" /\ pc'[c] = "70n" /\ loc'[c].p = Prev[c]
        BY <1>2, <2>1, <3>6 DEF ReloadPrev, TypeOK
      <4> QED
        BY <3>0, <3>1, <4>1
    <3>7. CASE LoadNext(c)
      <4>1. /\ (pc[c] = "70n" /\ pc'[c] = "70w") \/ (pc[c] = "72" /\ pc'[c] = "72w")
            /\ loc'[c].n = Next_[c] /\ loc'[c].p = loc[c].p
        BY <1>2, <3>7 DEF LoadNext, TypeOK
      <4> QED
        BY <2>1, <3>0, <3>1, <4>1
    <3> QED
      BY <2>6, <3>2, <3>3, <3>4, <3>5, <3>6, <3>7
  <2> QED
    BY <2>2, <2>3, <2>4, <2>5, <2>6 DEF LoadStep, StoreStep
<1> QED
  BY <1>1, <1>3, <1>4 DEF ListInv

(* A step of one connection that leaves the rooms alone, and adds to no map. *)
LEMMA ListOther ==
    ASSUME AllInv, OneSession, NEW c \in Conns, UNCHANGED <<lists, conn, loc, overlap, refused>>,
           pc[c] \notin RoomRLock \cup {"93"}, pc'[c] \notin RoomRLock \cup {"93"},
           \A d \in Conns : d # c => pc'[d] = pc[d] /\ ch'[d] = ch[d] /\ room'[d] = room[d],
           \A u \in Users : chs'[u] # Nil => chs'[u] = chs[u],
           \A r \in RoomIds : rooms'[r] # Nil => rooms'[r] = rooms[r],
           Room[c] # Nil => (pc'[c] \in Inside <=> pc[c] \in Inside),
           OwnOf(c)', EntryOf(c)'
    PROVE  ListInv'
<1> USE DEF AllInv, TypeInv
<1>1. ASSUME NEW o \in Objs \ overlap PROVE RoomOf(o)'
  <2>1. RoomOf(o) /\ refused' \subseteq Conns /\ o # Nil
    BY NilAssumption DEF ListInv, TypeOK
  <2>2. \A r \in RoomIds : rooms'[r] = o => rooms[r] = o
    BY <2>1
  <2>3. \A x \in Conns : Room[x] = o =>
             \/ pc'[x] = pc[x]
             \/ /\ pc[x] \notin RoomRLock \cup {"93"} /\ pc'[x] \notin RoomRLock \cup {"93"}
                /\ pc'[x] \in Inside <=> pc[x] \in Inside
    BY <2>1
  <2> QED
    BY <2>1, <2>2, <2>3, RoomKept
<1>2. \A d \in Conns : OwnOf(d)' /\ EntryOf(d)'
  BY NilAssumption, OwnKept
<1> QED
  BY <1>1, <1>2 DEF ListInv

(* The rest of the cleanup: a connection in a room finds its own entry and its own room. *)
LEMMA ListCleanup ==
    ASSUME AllInv, OneSession, NEW c \in Conns, CleanupStep(c) \/ Leave(c)
    PROVE  ListInv'
<1> USE DEF AllInv, TypeInv
<1>0. /\ UNCHANGED <<lists, conn, loc, overlap, refused>>
      /\ \A d \in Conns : d # c => pc'[d] = pc[d] /\ ch'[d] = ch[d] /\ room'[d] = room[d]
  BY StepOfOne DEF CleanupStep, Leave
<1>1. OwnOf(c) /\ EntryOf(c)
  BY DEF ListInv
<1>2. Room[c] # Nil => userId[c] \in Users /\ pc[c] # "new"
  BY NilAssumption DEF HasUser
<1>3. Owner(c) => chs[userId[c]] = c /\ c # Nil
  BY NilAssumption DEF IndexInv
<1> USE DEF Inside, Half, RoomRLock
<1>4. CASE Leave(c)
  <2>1. /\ UNCHANGED <<maps, local>> /\ pc[c] \in {"new", "reading"} /\ pc'[c] = "closing"
    BY <1>4 DEF Leave, TypeOK
  <2>2. OwnOf(c)' /\ EntryOf(c)'
    BY <1>0, <1>1, <1>2, <2>1 DEF OwnOf, EntryOf, Owner, UnderRLock
  <2> QED
    BY <1>0, <1>2, <2>1, <2>2, ListOther
<1>5. CASE Cleanup(c)
  <2>1. /\ UNCHANGED <<maps, local>> /\ pc[c] = "closing"
        /\ pc'[c] = IF Room[c] = Nil THEN "closed" ELSE "105"
    BY <1>5 DEF Cleanup, TypeOK
  <2>2. OwnOf(c)' /\ EntryOf(c)'
    BY <1>0, <1>1, <2>1 DEF OwnOf, EntryOf, Owner, UnderRLock
  <2> QED
    BY <1>0, <2>1, <2>2, ListOther
<1>6. CASE LookupChannel(c)
  <2>1. pc[c] = "105" /\ chs[userId[c]] = c /\ c # Nil
    BY <1>1, <1>2, <1>3, <1>6 DEF LookupChannel, OwnOf, UnderRLock, Owner
  <2>2. UNCHANGED <<maps, room>> /\ pc'[c] = "106" /\ ch'[c] = c
    BY <1>6, <2>1 DEF LookupChannel, TypeOK
  <2>3. OwnOf(c)' /\ EntryOf(c)'
    BY <1>0, <1>1, <2>1, <2>2 DEF OwnOf, EntryOf, Owner, UnderRLock
  <2> QED
    BY <1>0, <2>1, <2>2, <2>3, ListOther
<1>7. CASE LookupRoom(c)
  <2>1. pc[c] = "106" /\ chs[userId[c]] = c /\ c # Nil
    BY <1>1, <1>2, <1>3, <1>7 DEF LookupRoom, OwnOf, UnderRLock, Owner
  <2>2. UNCHANGED <<maps, ch>> /\ pc'[c] = "108" /\ room'[c] = Room[c]
    BY <1>7, <2>1 DEF LookupRoom, TypeOK
  <2>3. OwnOf(c)' /\ EntryOf(c)'
    BY <1>0, <1>1, <2>1, <2>2 DEF OwnOf, EntryOf, Owner, UnderRLock
  <2> QED
    BY <1>0, <2>1, <2>2, <2>3, ListOther
<1>8. CASE DeleteUser(c)
  <2>1. pc[c] = "108" /\ room[c] # Nil /\ userId[c] \in Users
    BY <1>1, <1>2, <1>8 DEF DeleteUser, OwnOf, UnderRLock
  <2>2. /\ UNCHANGED <<rooms, local>> /\ pc'[c] = "110"
        /\ \A u \in Users : chs'[u] = IF u = userId[c] THEN Nil ELSE chs[u]
    BY <1>8, <2>1 DEF DeleteUser, TypeOK
  <2>3. OwnOf(c)'
    BY <1>0, <1>1, <2>1, <2>2 DEF OwnOf, UnderRLock
  <2>4. EntryOf(c)'
    BY <1>0, <1>1, <2>2, NilAssumption DEF EntryOf
  <2> QED
    BY <1>0, <2>1, <2>2, <2>3, <2>4, ListOther
<1>9. CASE ReturnDrop(c) \/ TestDrop(c)
  <2>1. UNCHANGED <<maps, local>> /\ pc[c] \in {"80", "113"} /\ pc'[c] \in {"113", "114", "closed"}
    BY <1>9 DEF ReturnDrop, TestDrop, TypeOK
  <2>2. OwnOf(c)' /\ EntryOf(c)'
    BY <1>0, <1>1, <2>1 DEF OwnOf, EntryOf, Owner, UnderRLock
  <2> QED
    BY <1>0, <2>1, <2>2, ListOther
<1>10. CASE DeleteRoom(c)
  <2>1. /\ UNCHANGED <<chs, local>> /\ pc[c] = "114" /\ pc'[c] = "closed"
        /\ \A r \in RoomIds : rooms'[r] # Nil => rooms'[r] = rooms[r]
    BY <1>10 DEF DeleteRoom, TypeOK
  <2>2. OwnOf(c)' /\ EntryOf(c)'
    BY <1>0, <1>1, <2>1 DEF OwnOf, EntryOf, Owner, UnderRLock
  <2> QED
    BY <1>0, <2>1, <2>2, ListOther
<1> QED
  BY <1>4, <1>5, <1>6, <1>7, <1>8, <1>9, <1>10 DEF CleanupStep

LEMMA ListStep == AllInv /\ [Next]_vars => ListInv'
<1> SUFFICES ASSUME AllInv, [Next]_vars, OneSession' PROVE ListInv'
  BY DEF ListInv
<1>1. ASSUME UNCHANGED <<maps, lists, conn, pc, local, loc, hist>> PROVE ListInv'
  <2>1. OneSession
    BY <1>1 DEF OneSession
  <2>2. ASSUME NEW o \in Objs \ overlap PROVE RoomOf(o)'
    <3>1. RoomOf(o) /\ refused \subseteq Conns
      BY <2>1 DEF AllInv, ListInv, TypeInv, TypeOK
    <3> QED
      BY <1>1, <3>1, RoomKept DEF AllInv
  <2>3. \A d \in Conns : OwnOf(d)' /\ EntryOf(d)'
    <3>1. \A d \in Conns : OwnOf(d) /\ EntryOf(d)
      BY <2>1 DEF AllInv, ListInv
    <3> QED
      BY <1>1, <3>1 DEF OwnOf, EntryOf, Owner
  <2> QED
    BY <1>1, <2>2, <2>3 DEF ListInv
<1>2. CASE UNCHANGED vars
  BY <1>1, <1>2 DEF vars
<1>3. ASSUME NEW c \in Conns, Connect(c) PROVE ListInv'
  BY <1>3, ListPut DEF Connect
<1>4. ASSUME NEW c \in Conns, PutInRoom(c) PROVE ListInv'
  BY <1>4, ListPutInRoom
<1>5. ASSUME NEW c \in Conns, CleanupStep(c) \/ Leave(c) PROVE ListInv'
  <2>1. OneSession
    BY <1>5 DEF CleanupStep, Leave, OneSession
  <2> QED
    BY <1>5, <2>1, ListCleanup
<1>6. ASSUME NEW c \in Conns, LoadStep(c) \/ StoreStep(c) PROVE ListInv'
  BY <1>6, ListDelete
<1>7. ASSUME NEW c \in Conns, Panic(c) PROVE ListInv'
  BY <1>1, <1>7 DEF Panic
<1> QED
  BY <1>2, <1>3, <1>4, <1>5, <1>6, <1>7 DEF Next

(* The process dies of room.go only where DeleteChannels overlapped: alone, they find the
   pointers they tested. *)
DiedInv == OneSession => (panicked # 0 => overlap # {})

LEMMA DiedStep == AllInv /\ DiedInv /\ [Next]_vars => DiedInv'
<1> SUFFICES ASSUME AllInv, DiedInv, [Next]_vars, OneSession', panicked' # 0 PROVE overlap' # {}
  BY DEF DiedInv
<1>1. OneSession /\ overlap \subseteq overlap'
  BY DEF Next, vars, Connect, Put, PutInRoom, Leave, CleanupStep, LoadStep, DeleteRLock, ReloadNext, LoadPrevOfNext, LoadPrev,
         ReloadPrev, LoadNext, LoadCount, TestCount, StoreStep, Panic, OneSession
<1>2. CASE panicked # 0
  BY <1>1, <1>2 DEF DiedInv
<1>3. CASE panicked = 0
  <2>1. PICK c \in Conns : Panic(c)
    BY <1>3, StepOfOne DEF AllInv, Next, vars, Connect, Put, PutInRoom
  <2>2. CASE pc[c] = "106" /\ chs[userId[c]] = Nil
    <3>1. Owner(c)
      BY <2>2 DEF AllInv, TypeInv, HasUser, Owner, UnderRLock
    <3> QED
      BY <1>1, <2>2, <3>1, NilAssumption DEF AllInv, IndexInv
  <2>3. CASE (pc[c] = "66" /\ Next_[ch[c]] = Nil) \/ (pc[c] = "70" /\ Prev[ch[c]] = Nil)
    <3>1. ch[c] = c /\ Room[c] \in Objs
      BY <1>1, <2>3, DeletesItself DEF AllInv, RoomRLock
    <3>2. ~RegOf(c)
      BY <2>3, <3>1 DEF AllInv, TypeInv, TypeOK, RegOf
    <3>3. Room[c] \in overlap
      BY <1>1, <3>1, <3>2 DEF AllInv, ListInv, RoomOf
    <3> QED
      BY <1>1, <3>3
  <2> QED
    BY <2>1, <2>2, <2>3 DEF Panic
<1> QED
  BY <1>2, <1>3

LEMMA AllCorrect == Spec => [](AllInv /\ DiedInv)
<1>1. Init => AllInv /\ DiedInv
  BY TypeInit, IndexInit, ChainInit, MapInit, ListInit DEF AllInv, DiedInv, Init
<1>2. AllInv /\ DiedInv /\ [Next]_vars => AllInv' /\ DiedInv'
  BY TypeStep, IndexStep, ChainStep, MapStep, ListStep, DiedStep DEF AllInv
<1> QED
  BY <1>1, <1>2, PTL DEF Spec

(* With one session per user line 106 finds the entry that line 105 has found, whatever
   cleanups race, and lines 66 and 70 of room.go find the pointers just tested as long as no
   two DeleteChannels have overlapped in a room (NoPanic). *)
THEOREM CleanupNeverPanics == Spec => []NoPanic
<1>1. AllInv /\ DiedInv => NoPanic
  BY DEF AllInv, IndexInv, DiedInv, NoPanic
<1> QED
  BY <1>1, AllCorrect, PTL

(* A broadcast to o reaches exactly the connections that are in its list.  The one of highest
   rank that it missed would come right after one that it reached. *)
LEMMA ReachedIsLinked ==
    ASSUME AllInv, OneSession, NEW o \in Objs \ overlap
    PROVE  Reached(o) = Linked(o)
<1> DEFINE w == Walk(o)
<1> USE DEF AllInv
<1>0. Last \in Nat
  BY LastIsNat
<1>1. \A i \in 0 .. Last : w[i] = IF i = 0 THEN head[o] ELSE IF w[i - 1] = Nil THEN Nil ELSE Next_[w[i - 1]]
  BY WalkAt
<1>2. Nil \notin Linked(o) /\ Linked(o) \subseteq Conns
  BY NilAssumption DEF Linked
<1> PICK B \in [Conns -> Conns \cup {Nil}] : Ordered(o, B)
  BY DEF ListInv, RoomOf, ListOf
<1>3. w[Last] = Nil
  BY WalkEnds DEF ChainInv
<1>4. Reached(o) = {w[i] : i \in 0 .. Last} \ {Nil}
  BY DEF Reached, Last
<1> HIDE DEF w
<1>5. Reached(o) \subseteq Linked(o)
  <2> DEFINE S == {n \in Nat : n <= Last => w[n] \in Linked(o) \cup {Nil}}
  <2>1. 0 \in S
    <3>1. w[0] = head[o]
      BY <1>0, <1>1
    <3> QED
      BY <3>1 DEF Ordered
  <2>2. ASSUME NEW n \in Nat, n \in S PROVE n + 1 \in S
    <3> SUFFICES ASSUME n + 1 <= Last PROVE w[n + 1] \in Linked(o) \cup {Nil}
      OBVIOUS
    <3>1. n \in 0 .. Last /\ w[n] \in Linked(o) \cup {Nil}
      BY <1>0, <2>2
    <3>2. n + 1 \in 0 .. Last /\ n + 1 # 0 /\ (n + 1) - 1 = n
      BY <1>0
    <3>3. w[n + 1] = IF w[n] = Nil THEN Nil ELSE Next_[w[n]]
      BY <1>1, <3>2
    <3>4. \A x \in Linked(o) : Next_[x] \in Linked(o) \cup {Nil}
      BY DEF Ordered
    <3> QED
      BY <3>1, <3>3, <3>4
  <2> HIDE DEF S
  <2>3. \A n \in Nat : n \in S
    BY <2>1, <2>2, Induction
  <2>4. \A n \in 0 .. Last : w[n] \in Linked(o) \cup {Nil}
    BY <1>0, <2>3 DEF S
  <2> QED
    BY <1>4, <2>4
<1>6. SUFFICES ASSUME Linked(o) \ Reached(o) # {} PROVE FALSE
  BY <1>5
<1>7. PICK r \in [Conns -> Nat] : Older(r)
  BY DEF ChainInv, AgeInv
<1>8. PICK m \in Nat : \A x \in Conns : r[x] < m
  BY HigherRank
<1>9. PICK x \in Linked(o) \ Reached(o) : \A y \in Linked(o) \ Reached(o) : r[y] <= r[x]
  <2> DEFINE T == {m - r[x] : x \in Linked(o) \ Reached(o)}
  <2>1. T \in SUBSET Nat /\ T # {}
    <3>1. \A x \in Linked(o) \ Reached(o) : m - r[x] \in Nat
      BY <1>2, <1>8
    <3> QED
      BY <1>6, <3>1
  <2>2. PICK k \in T : \A j \in T : k <= j
    <3> HIDE DEF T
    <3> QED
      BY <2>1, LeastNumber
  <2>3. PICK x \in Linked(o) \ Reached(o) : k = m - r[x]
    BY <2>2
  <2>4. ASSUME NEW y \in Linked(o) \ Reached(o) PROVE r[y] <= r[x]
    <3>1. m - r[x] <= m - r[y]
      BY <2>2, <2>3
    <3>2. r[x] \in Nat /\ r[y] \in Nat
      BY <1>2
    <3> QED
      BY <3>1, <3>2
  <2> QED
    BY <2>4
<1>10. IF B[x] # Nil THEN B[x] \in Linked(o) /\ Next_[B[x]] = x ELSE head[o] = x
  BY <1>9 DEF Ordered
<1>11. CASE B[x] = Nil
  <2>1. w[0] = x /\ 0 \in 0 .. Last
    BY <1>0, <1>1, <1>10, <1>11
  <2> QED
    BY <1>2, <1>4, <1>9, <2>1
<1>12. CASE B[x] # Nil
  <2>1. PICK y \in Linked(o) : y = B[x] /\ Next_[y] = x
    BY <1>10, <1>12
  <2>2. r[x] < r[y] /\ r[x] \in Nat /\ r[y] \in Nat
    <3>1. x \in Conns /\ y \in Conns /\ x # Nil
      BY <1>2, <1>9
    <3> QED
      BY <1>7, <2>1, <3>1 DEF Older
  <2>3. y \in Reached(o)
    BY <1>9, <2>2
  <2>4. PICK i \in 0 .. Last : w[i] = y
    BY <1>4, <2>3
  <2>5. i # Last
    BY <1>2, <1>3, <2>4
  <2>6. i + 1 \in 0 .. Last /\ i + 1 # 0 /\ (i + 1) - 1 = i
    BY <1>0, <2>5
  <2>7. w[i + 1] = Next_[y]
    BY <1>1, <1>2, <2>4, <2>6
  <2> QED
    BY <1>2, <1>4, <1>9, <2>1, <2>6, <2>7
<1> QED
  BY <1>11, <1>12

(* With one session per user, and as long as no two DeleteChannels have overlapped in a Room
   object, whoever is in it hears its broadcasts, and OnlineCount is the length of the list
   whenever somebody is in it and nobody is leaving (Listed): DeleteChannel of a refused
   connection, and the racing cleanups of other rooms, leave the list as it is. *)
THEOREM ListIsComplete == Spec => []Listed
<1>1. AllInv => Listed
  <2> SUFFICES ASSUME AllInv, OneSession, NEW o \in Objs \ overlap
               PROVE  /\ {c \in Conns : InRoom(c) /\ Room[c] = o} \subseteq Linked(o)
                      /\ Deleting(o) = {} /\ Linked(o) # {} => OnlineCount[o] = Cardinality(Linked(o))
    BY ReachedIsLinked DEF Listed
  <2>1. CountOf(o) /\ OnlineCount[o] \in Int
    BY DEF AllInv, ListInv, RoomOf, TypeInv, TypeOK
  <2>2. ASSUME NEW c \in Conns, InRoom(c), Room[c] = o PROVE c \in Linked(o)
    <3>1. c \notin refused
      BY <2>2 DEF AllInv, ChainInv, FreshInv, InRoom
    <3> QED
      BY <2>2, <3>1 DEF InRoom, Linked, Inside
  <2>3. ASSUME Deleting(o) = {}, Linked(o) # {} PROVE OnlineCount[o] = Cardinality(Linked(o))
    <3>1. ~Busy(o, {"74", "74w", "76", "77"})
      <4> SUFFICES ASSUME NEW c \in Conns, Room[c] = o, pc[c] \in RoomRLock PROVE FALSE
        BY DEF Busy, RoomRLock
      <4>1. room[c] = o
        BY DeletesItself DEF AllInv
      <4> QED
        BY <2>3, <4>1 DEF Deleting
    <3>2. Counted(o, 0)
      BY <2>1, <2>3, <3>1 DEF CountOf, Empty0
    <3>3. Cardinality(Linked(o)) \in Nat
      BY FiniteAssumption, FS_Subset, FS_CardinalityType DEF Linked
    <3> QED
      BY <2>1, <3>2, <3>3 DEF Counted
  <2> QED
    BY <2>2, <2>3
<1> QED
  BY <1>1, AllCorrect, PTL

(* With one session per user, nothing is left of a connection whose cleanup is over (Forgotten):
   no map holds it whatever cleanups raced, and no list of a Room object in which no two
   DeleteChannels overlapped. *)
THEOREM NothingIsLeft == Spec => []Forgotten
<1>1. AllInv => Forgotten
  <2> SUFFICES ASSUME AllInv, OneSession, NEW c \in Conns, pc[c] = "closed", Room[c] # Nil
               PROVE  /\ \A u \in Users : chs[u] # c
                      /\ \A o \in Objs \ overlap : c \notin Linked(o)
    BY ReachedIsLinked DEF Forgotten
  <2>1. EntryOf(c)
    BY DEF AllInv, ListInv
  <2> QED
    BY <2>1 DEF EntryOf, Owner, Linked, Inside, Half
<1> QED
  BY <1>1, AllCorrect, PTL

-----------------------------------------------------------------------------
(***************************************************************************)
(* Whoever is in a room finds it in the map, with one session per user and *)
(* as long as nothing has disturbed the rooms of that id.                  *)
(***************************************************************************)

Clean(o) == Id[o] # NoRoom /\ Undisturbed(Id[o])

(* Somebody is inside, or about to enter. *)
Held(o) == Linked(o) # {} \/ (~drop[o] /\ \E c \in Conns : pc[c] = "93" /\ Room[c] = o)

(* A connection that has left its room is still under the read lock, so that no other Room
   object can have taken the place of its room in the map. *)
KeptOf(o) ==
    /\ Held(o) => rooms[Id[o]] = o
    /\ Busy(o, Taken) => ~drop[o]
    /\ \A d \in Conns : room[d] = o =>
          /\ pc[d] \in Taken \cup Closing => rooms[Id[o]] \in {o, Nil}
          /\ pc[d] \in {"113", "114"} => drop[o]

KeptInv == OneSession => \A o \in Objs : Clean(o) => KeptOf(o)

(* A Room object of an undisturbed id is not dropped while somebody is inside. *)
LEMMA DroppedIsEmpty ==
    ASSUME AllInv, OneSession, NEW o \in Objs, Clean(o), Busy(o, Taken) => ~drop[o], drop[o]
    PROVE  Linked(o) = {}
<1>1. o \notin overlap
  BY DEF Clean, Undisturbed, AllInv, TypeInv, TypeOK
<1>2. CountOf(o)
  BY <1>1 DEF AllInv, ListInv, RoomOf
<1>3. ~Busy(o, {"74", "74w", "76", "77"}) /\ ~Busy(o, {"74", "74w"})
  BY DEF Busy, Taken
<1> QED
  BY <1>2, <1>3 DEF CountOf, Empty0

LEMMA KeptPut ==
    ASSUME AllInv, KeptInv, OneSession', NEW c \in Conns, NEW u \in Users, NEW r \in RoomIds \cup {NoRoom}, Put(c, u, r)
    PROVE  KeptInv'
<1> USE DEF AllInv, TypeInv
<1>1. /\ OneSession /\ UNCHANGED <<lists, local, overlap, refused>> /\ pc[c] = "new" /\ Room[c] = Nil
      /\ pc'[c] \in {"93", "reading"}
      /\ \A d \in Conns : d # c => pc'[d] = pc[d] /\ Room'[d] = Room[d]
  <2>1. pc[c] = "new" /\ Room[c] = Nil
    BY NilAssumption DEF Put, HasUser
  <2> QED
    BY <2>1 DEF Put, OneSession, TypeOK
<1>2. \A d \in Conns : pc[d] \notin UnderRLock /\ pc'[d] \notin UnderRLock
  BY <1>1 DEF Put, RLocked, UnderRLock, RoomRLock
<1>3. \A d \in Conns : pc'[d] \notin Taken \cup Closing
  BY <1>2 DEF UnderRLock, RoomRLock, Taken, Closing
<1>4. \A o \in Objs : ~Busy(o, Taken)'
  BY <1>3 DEF Busy
<1>5. c \notin refused
  BY <1>1 DEF ChainInv, FreshInv
<1>6. \A o \in Objs : Linked(o)' = Linked(o)
  <2>1. ASSUME NEW o \in Objs PROVE c \notin Linked(o) /\ c \notin Linked(o)'
    <3>1. pc'[c] = "93" \/ Room'[c] = Nil
      BY <1>1 DEF Put, TypeOK
    <3> QED
      BY <1>1, <3>1, NilAssumption DEF Linked, Inside, Half
  <2> QED
    BY <1>1, <2>1 DEF Linked
<1>7. CASE r = NoRoom
  <2>1. UNCHANGED <<rooms, Id, Room>> /\ pc'[c] = "reading"
    BY <1>7 DEF Put, TypeOK
  <2>2. \A o \in Objs : Held(o)' => Held(o)
    BY <1>1, <1>6, <2>1 DEF Held
  <2>3. \A o \in Objs : Clean(o)' => Clean(o)
    BY <1>1, <2>1 DEF Clean, Undisturbed
  <2> QED
    BY <1>1, <1>3, <1>4, <2>1, <2>2, <2>3 DEF KeptInv, KeptOf, Closing
<1>8. CASE r # NoRoom
  <2>1. PICK o \in Objs : /\ IF rooms[r] # Nil THEN o = rooms[r] ELSE Id[o] = NoRoom
                          /\ rooms' = [rooms EXCEPT ![r] = o]
                          /\ Id' = [Id EXCEPT ![o] = r]
                          /\ Room' = [Room EXCEPT ![c] = o]
    BY <1>8 DEF Put
  <2>2. r \in RoomIds /\ rooms[r] \in Objs \cup {Nil}
    BY <1>8 DEF TypeOK
  <2>3. /\ \A q \in RoomIds : rooms'[q] = IF q = r THEN o ELSE rooms[q]
        /\ \A q \in Objs : Id'[q] = IF q = o THEN r ELSE Id[q]
        /\ Room'[c] = o
    BY <2>1, <2>2 DEF TypeOK
  <2>4. \A q \in Objs : Id[q] # NoRoom => Id'[q] = Id[q]
    BY <2>1, <2>2, <2>3, NilAssumption DEF MapInv
  <2>5. ASSUME NEW q \in Objs, q # o, Clean(q)', Held(q)' PROVE rooms'[Id'[q]] = q
    <3>1. Clean(q)
      <4>1. Id[q] # NoRoom /\ Id'[q] = Id[q]
        BY <2>3, <2>5 DEF Clean
      <4>2. \A d \in refused : Room'[d] = Room[d]
        BY <1>1, <1>5 DEF TypeOK
      <4>3. ASSUME NEW x \in Objs, Id[x] = Id[q] PROVE x \notin overlap /\ \A d \in refused : Room[d] # x
        <5>1. Id'[x] = Id'[q]
          BY <2>4, <4>1, <4>3
        <5> QED
          BY <1>1, <2>5, <4>2, <5>1 DEF Clean, Undisturbed
      <4> QED
        BY <4>1, <4>3 DEF Clean, Undisturbed
    <3>2. Held(q)
      BY <1>1, <1>6, <2>3, <2>5 DEF Held
    <3>3. rooms[Id[q]] = q /\ Id[q] \in RoomIds
      BY <1>1, <3>1, <3>2 DEF KeptInv, KeptOf, Clean, TypeOK
    <3>4. Id[q] # r
      BY <2>1, <2>2, <2>5, <3>3, NilAssumption
    <3> QED
      BY <2>3, <2>5, <3>3, <3>4
  <2>6. rooms'[Id'[o]] = o
    BY <2>2, <2>3
  <2> QED
    BY <1>3, <1>4, <2>5, <2>6 DEF KeptInv, KeptOf, Closing
<1> QED
  BY <1>7, <1>8

LEMMA KeptPutInRoom ==
    ASSUME AllInv, KeptInv, OneSession', NEW c \in Conns, PutInRoom(c)
    PROVE  KeptInv'
<1> USE DEF AllInv, TypeInv
<1>1. /\ OneSession /\ UNCHANGED <<maps, drop, conn, local, overlap>> /\ pc[c] = "93" /\ Room[c] \in Objs
      /\ pc'[c] \in {"closing", "reading"}
      /\ \A d \in Conns : d # c => pc'[d] = pc[d]
      /\ IF drop[Room[c]] THEN pc'[c] = "closing" /\ refused' = refused \cup {c} ELSE refused' = refused
  BY DEF PutInRoom, OneSession, HasUser, TypeOK
<1>2. ASSUME NEW o \in Objs, Clean(o)' PROVE KeptOf(o)'
  <2>1. Clean(o)
    BY <1>1, <1>2 DEF Clean, Undisturbed
  <2>2. drop[Room[c]] => Room[c] # o
    <3> SUFFICES ASSUME drop[Room[c]], Room[c] = o PROVE FALSE
      OBVIOUS
    <3>1. c \in refused' /\ Room'[c] = o
      BY <1>1
    <3> QED
      BY <1>1, <1>2, <3>1 DEF Clean, Undisturbed
  <2>3. Held(o)' => Held(o)
    <3>1. CASE Room[c] = o
      BY <1>1, <2>2, <3>1 DEF Held
    <3>2. CASE Room[c] # o
      <4>1. Linked(o)' = Linked(o)
        BY <1>1, <3>2 DEF Linked
      <4> QED
        BY <1>1, <3>2, <4>1 DEF Held
    <3> QED
      BY <3>1, <3>2
  <2>4. Busy(o, Taken)' => Busy(o, Taken)
    BY <1>1 DEF Busy, Taken
  <2>5. KeptOf(o)
    BY <1>1, <2>1 DEF KeptInv
  <2>6. \A d \in Conns : pc'[d] \in Taken \cup Closing => pc[d] = pc'[d]
    BY <1>1 DEF Taken, Closing
  <2>7. \A d \in Conns : pc'[d] \in {"113", "114"} => pc[d] = pc'[d]
    BY <1>1
  <2> QED
    BY <1>1, <2>3, <2>4, <2>5, <2>6, <2>7 DEF KeptOf
<1> QED
  BY <1>2 DEF KeptInv

(* The other steps put nobody inside. *)
LEMMA KeptByOne ==
    ASSUME AllInv, KeptInv, OneSession', NEW c \in Conns, CleanupStep(c) \/ LoadStep(c) \/ StoreStep(c) \/ Leave(c)
    PROVE  KeptInv'
<1> USE DEF AllInv, TypeInv
<1>1. /\ OneSession /\ UNCHANGED <<Id, conn, refused>> /\ overlap \subseteq overlap'
      /\ \A d \in Conns : d # c => pc'[d] = pc[d] /\ room'[d] = room[d]
      /\ pc[c] # "93" /\ pc'[c] \notin {"new", "93", "reading"}
  <2>1. UNCHANGED twice /\ overlap \subseteq overlap'
    BY DEF LoadStep, DeleteRLock, ReloadNext, LoadPrevOfNext, LoadPrev, ReloadPrev, LoadNext, LoadCount, TestCount,
           StoreStep, CleanupStep, Leave
  <2> QED
    BY <2>1, StepOfOne DEF OneSession
<1>2. /\ rooms' = rooms \/ (DeleteRoom(c) /\ drop' = drop /\ pc'[c] = "closed")
      /\ pc'[c] \in Inside => pc[c] \in Inside \cup {"new"}
      /\ pc'[c] \in Taken => pc[c] \in Taken \cup {"70w", "72w"}
      /\ pc'[c] \in Taken \cup Closing => pc[c] \in Taken \cup Closing \cup {"70w", "72w"} /\ room'[c] = room[c]
      /\ pc'[c] \in {"113", "114"} => drop[room[c]] /\ drop' = drop
      /\ \/ drop' = drop
         \/ pc[c] = "75" /\ drop' = [drop EXCEPT ![room[c]] = FALSE]
         \/ pc[c] = "77" /\ pc'[c] = "80" /\ drop' = [drop EXCEPT ![room[c]] = TRUE]
  <2> USE DEF Inside, Half, Taken, Closing
  <2>1. CASE Leave(c)
    BY <2>1 DEF Leave, TypeOK
  <2>2. CASE CleanupStep(c) /\ (Cleanup(c) \/ LookupChannel(c) \/ LookupRoom(c) \/ DeleteUser(c))
    BY <2>2 DEF CleanupStep, Cleanup, LookupChannel, LookupRoom, DeleteUser, TypeOK
  <2>3. CASE CleanupStep(c) /\ (ReturnDrop(c) \/ TestDrop(c) \/ DeleteRoom(c))
    BY <2>3 DEF CleanupStep, ReturnDrop, TestDrop, DeleteRoom, TypeOK
  <2>4. CASE LoadStep(c)
    BY <2>4 DEF LoadStep, DeleteRLock, ReloadNext, LoadPrevOfNext, LoadPrev, ReloadPrev, LoadNext, LoadCount, TestCount, TypeOK
  <2>5. CASE StoreStep(c)
    BY <2>5 DEF StoreStep, StorePrevOfNext, StoreNext, StoreHead, StoreCount, ClearDrop, SetDrop, TypeOK
  <2> QED
    BY <2>1, <2>2, <2>3, <2>4, <2>5 DEF CleanupStep
<1>3. pc[c] \in RoomRLock \cup Closing => room[c] = Room[c] /\ room[c] \in Objs
  <2>1. OwnOf(c)
    BY <1>1 DEF ListInv
  <2> QED
    BY <2>1 DEF OwnOf, Closing, TypeOK
<1>4. ASSUME NEW o \in Objs, Clean(o)' PROVE KeptOf(o)'
  <2>1. Clean(o) /\ o \notin overlap' /\ o \notin overlap
    BY <1>1, <1>4 DEF Clean, Undisturbed
  <2>2. KeptOf(o) /\ RoomOf(o) /\ Id[o] \in RoomIds
    BY <1>1, <2>1 DEF KeptInv, ListInv, Clean, TypeOK
  <2>3. drop[o] => Linked(o) = {}
    BY <1>1, <2>1, <2>2, DroppedIsEmpty DEF KeptOf
  <2>4. Linked(o)' \subseteq Linked(o)
    <3>1. pc[c] = "new" => Room[c] # o
      BY NilAssumption DEF HasUser
    <3> QED
      BY <1>1, <1>2, <3>1 DEF Linked
  (* A connection that has just left was in the list. *)
  <2>5. pc[c] \in {"70w", "72w"} /\ room[c] = o => c \in Linked(o)
    <3> SUFFICES ASSUME pc[c] \in {"70w", "72w"}, room[c] = o PROVE c \in Linked(o)
      OBVIOUS
    <3>1. Room[c] = o
      BY <1>3 DEF RoomRLock
    <3>2. c \notin refused
      BY <1>1, <2>1, <3>1 DEF Clean, Undisturbed
    <3> QED
      BY <3>1, <3>2 DEF Linked, Inside, Half
  <2>6. drop[o] => drop'[o]
    <3> SUFFICES ASSUME drop[o], ~drop'[o] PROVE FALSE
      OBVIOUS
    <3>1. pc[c] = "75" /\ room[c] = o
      BY <1>2, <1>3 DEF TypeOK, RoomRLock
    <3>2. Room[c] = o
      BY <1>3, <3>1 DEF RoomRLock
    <3>3. Busy(o, Taken)
      BY <3>1, <3>2 DEF Busy, Taken
    <3> QED
      BY <2>2, <3>3 DEF KeptOf
  <2>7. Held(o)' => Held(o)
    BY <1>1, <2>4, <2>6 DEF Held
  <2>8. rooms'[Id[o]] \in {rooms[Id[o]], Nil}
    BY <1>2, <2>2 DEF DeleteRoom, TypeOK
  <2>9. Held(o)' => rooms'[Id'[o]] = o
    <3> SUFFICES ASSUME Held(o), Held(o)', DeleteRoom(c), rooms'[Id[o]] # rooms[Id[o]], drop' = drop PROVE FALSE
      BY <1>1, <1>2, <2>2, <2>7 DEF KeptOf
    <3>1. PICK q \in Objs : q = room[c]
      BY DEF DeleteRoom, TypeOK
    <3>2. Id[q] = Id[o] /\ pc[c] = "114"
      BY <2>2, <3>1 DEF DeleteRoom, TypeOK
    <3>3. Clean(q)
      BY <2>1, <3>2 DEF Clean, Undisturbed
    <3>4. KeptOf(q)
      BY <1>1, <3>3 DEF KeptInv
    <3>5. rooms[Id[q]] \in {q, Nil} /\ drop[q]
      BY <3>1, <3>2, <3>4 DEF KeptOf, Closing
    <3>6. q = o
      BY <2>2, <3>2, <3>5, NilAssumption DEF KeptOf
    <3> QED
      BY <2>3, <3>5, <3>6 DEF Held
  <2>10. Busy(o, Taken)' => ~drop'[o]
    <3> SUFFICES ASSUME NEW d \in Conns, Room[d] = o, pc'[d] \in Taken, drop'[o] PROVE FALSE
      BY <1>1 DEF Busy
    <3>1. CASE pc[d] \in Taken
      <4>1. ~drop[o]
        BY <2>2, <3>1 DEF KeptOf, Busy
      <4>2. pc[c] = "77" /\ pc'[c] = "80" /\ room[c] = o
        BY <1>2, <4>1 DEF TypeOK
      <4>3. d # c /\ Room[c] = o
        BY <1>3, <4>2 DEF Taken, RoomRLock
      <4>4. pc[d] \in RoomRLock /\ pc[c] \in RoomRLock
        BY <3>1, <4>2 DEF Taken, RoomRLock
      <4> QED
        BY <2>2, <4>3, <4>4 DEF RoomOf, Alone
    <3>2. CASE pc[d] \notin Taken
      <4>1. d = c /\ pc[c] \in {"70w", "72w"}
        BY <1>1, <1>2, <3>2
      <4>2. room[c] = o
        BY <1>3, <4>1 DEF RoomRLock
      <4>3. ~drop[o] /\ drop' = drop
        BY <1>2, <2>3, <2>5, <4>1, <4>2
      <4> QED
        BY <4>3
    <3> QED
      BY <3>1, <3>2
  <2>11. ASSUME NEW d \in Conns, room'[d] = o, pc'[d] \in Taken \cup Closing
         PROVE  rooms'[Id'[o]] \in {o, Nil} /\ (pc'[d] \in {"113", "114"} => drop'[o])
    <3>1. room[d] = o
      BY <1>1, <1>2, <2>11
    <3>2. rooms[Id[o]] \in {o, Nil}
      <4>1. CASE pc[d] \in Taken \cup Closing
        BY <2>2, <3>1, <4>1 DEF KeptOf
      <4>2. CASE pc[d] \notin Taken \cup Closing
        <5>1. d = c /\ pc[c] \in {"70w", "72w"}
          BY <1>1, <1>2, <2>11, <4>2
        <5> QED
          BY <2>2, <2>5, <3>1, <5>1 DEF KeptOf, Held
      <4> QED
        BY <4>1, <4>2
    <3>3. pc'[d] \in {"113", "114"} => drop[o]
      <4>1. CASE d = c
        BY <1>2, <3>1, <4>1
      <4>2. CASE d # c
        BY <1>1, <2>2, <3>1, <4>2 DEF KeptOf
      <4> QED
        BY <4>1, <4>2
    <3> QED
      BY <1>1, <2>6, <2>8, <3>2, <3>3
  <2> QED
    BY <2>9, <2>10, <2>11 DEF KeptOf, Closing
<1> QED
  BY <1>4 DEF KeptInv

LEMMA KeptStep == AllInv /\ KeptInv /\ [Next]_vars => KeptInv'
<1> SUFFICES ASSUME AllInv, KeptInv, [Next]_vars, OneSession' PROVE KeptInv'
  BY DEF KeptInv
<1>1. ASSUME UNCHANGED <<maps, lists, conn, pc, local, loc, hist>> PROVE KeptInv'
  BY <1>1 DEF KeptInv, KeptOf, Clean, Undisturbed, Held, Linked, Busy, OneSession
<1>2. ASSUME NEW c \in Conns, Panic(c) PROVE KeptInv'
  BY <1>1, <1>2 DEF Panic
<1>3. CASE UNCHANGED vars
  BY <1>1, <1>3 DEF vars
<1> QED
  BY <1>2, <1>3, KeptPut, KeptPutInRoom, KeptByOne DEF Next, Connect

(* With one session per user the map and the lists of the rooms agree, up to the objects in
   which DeleteChannels overlapped: whoever is in a room finds it in the map under its id, as
   long as no Put into a room of that id was refused, and with every goroutine settled the
   rooms in the map have somebody inside (RoomsInUse). *)
THEOREM RoomsAreInUse == Spec => []RoomsInUse
<1>1. Init => KeptInv
  <2> SUFFICES ASSUME Init PROVE \A o \in Objs : Id[o] = NoRoom
    BY DEF KeptInv, Clean
  <2> QED
    BY DEF Init
<1>2. AllInv /\ KeptInv => RoomsInUse
  <2> SUFFICES ASSUME AllInv, KeptInv, OneSession PROVE RoomsInUse
    BY DEF RoomsInUse
  <2>1. ASSUME NEW c \in Conns, InRoom(c), Undisturbed(Id[Room[c]]) PROVE rooms[Id[Room[c]]] = Room[c]
    <3>1. PICK o \in Objs : o = Room[c]
      BY <2>1 DEF InRoom, AllInv, TypeInv, TypeOK
    <3>2. Clean(o)
      BY <2>1, <3>1 DEF Clean, AllInv, MapInv
    <3>3. c \in Linked(o)
      BY <2>1, <3>1 DEF InRoom, Linked, Inside, AllInv, ChainInv, FreshInv
    <3> QED
      BY <3>1, <3>2, <3>3 DEF KeptInv, KeptOf, Held
  <2>2. ASSUME Settled, NEW r \in RoomIds, rooms[r] \in Objs \ overlap, Reached(rooms[r]) = {} PROVE FALSE
    <3>1. PICK o \in Objs \ overlap : o = rooms[r]
      BY <2>2
    <3>2. ~drop[o] /\ o # Nil
      BY <2>2, <3>1, NilAssumption DEF AllInv, MapInv, Settled, Closing
    <3>3. OpenOf(o) /\ Linked(o) = {}
      BY <2>2, <3>1, ReachedIsLinked DEF AllInv, ListInv, RoomOf
    <3>4. ~Busy(o, Taken)
      BY <2>2 DEF Busy, Taken, Settled
    <3>5. PICK c \in Conns : pc[c] = "93"
      BY <3>1, <3>2, <3>3, <3>4 DEF OpenOf
    <3> QED
      BY <2>2, <3>5 DEF Settled
  <2> QED
    BY <2>1, <2>2 DEF RoomsInUse
<1> QED
  BY <1>1, <1>2, KeptStep, AllCorrect, PTL DEF Spec
=============================================================================
